------------------------------ MODULE MCProcesses ------------------------------
(***************************************************************************)
(* Instances for TLC of what the processes of one home directory do to     *)
(* each other: calls with one idempotency key in two servers, the files of *)
(* the authorization server, the background server and its record, the     *)
(* desktop application and its tunnel.  They share no variable here, so a  *)
(* behaviour is about one of them, its subject.                            *)
(***************************************************************************)
EXTENDS KeyPromise, OAuth, Daemon, Desktop, TLC

CONSTANTS p1, p2, r1, r2, r3, f1, s1, s2, c1, c2, c3, u1, u2

VARIABLE subject

Subjects == {"key", "oauth", "daemon", "desktop"}

\* Three calls with the same parameters, the last in a second process.
TwoProcs == [r \in Reqs |-> IF r = r3 THEN p2 ELSE p1]
SameParams == [r \in Reqs |-> f1]

\* Two `mcpx -d` and a foreground server; a stop is the first half of each.
KindOfCommand == [c \in Commands |-> IF c = c3 THEN "foreground" ELSE "start"]

\* What the properties except is not followed further, and of equal actors the
\* first one begins.  Clicks come one after another, with the watchdog at any
\* point of them, and one thing goes wrong.
OneServerAtATime ==
  /\ ~overlap' /\ expiredCodes' + expiredTokens' + oauthFaults' <= 1
  /\ server'[s2].step # "down" => server[s1].step # "down" \/ keyFile # NoFile
OneCommandAtATime ==
  /\ ~commandsOverlap' /\ deaths' + daemonFaults' + strangers' <= 2
  /\ command'[c2].step # "idle" => command[c1].step # "idle"
OneDesktopTrouble ==
  /\ desktopFaults' + desktopDeaths' <= 1
  /\ Cardinality({c \in Clicks : Busy(c)'}) <= 1
  /\ clicked'[u2] # "none" => clicked[u1] # "none"

\* The two calls that the first server cannot tell apart.
Symmetry == Permutations({r1, r2})

ProcessesVars == <<vars, oauthVars, daemonVars, desktopVars, subject>>

ProcessesInit ==
  /\ subject \in Subjects
  /\ Init /\ OAuthInit /\ DaemonInit /\ DesktopInit
  /\ service.status = "stopped" /\ linked

ProcessesNext ==
  /\ \/ subject = "key" /\ Next /\ UNCHANGED <<oauthVars, daemonVars, desktopVars>>
     \/ subject = "oauth" /\ OAuthNext /\ OneServerAtATime /\ UNCHANGED <<vars, daemonVars, desktopVars>>
     \/ subject = "daemon" /\ DaemonNext /\ OneCommandAtATime /\ UNCHANGED <<vars, oauthVars, desktopVars>>
     \/ subject = "desktop" /\ DesktopNext /\ OneDesktopTrouble /\ UNCHANGED <<vars, oauthVars, daemonVars>>
  /\ UNCHANGED subject

ProcessesSpec == ProcessesInit /\ [][ProcessesNext]_ProcessesVars

\* The type invariant of the subject.
ProcessesTypeOK ==
  CASE subject = "key" -> TypeOK
    [] subject = "oauth" -> OAuthTypeOK
    [] subject = "daemon" -> DaemonTypeOK
    [] subject = "desktop" -> DesktopTypeOK
================================================================================
