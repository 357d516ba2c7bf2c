-------------------------------- MODULE Daemon --------------------------------
(***************************************************************************)
(* The background server of a home directory (cmd/mcpx-server: background, *)
(* background_unix, main): `mcpx -d` replaces it, `mcpx stop` stops it and *)
(* a foreground `mcpx` stops it before it serves.  The record of it is a   *)
(* file with a process number.                                             *)
(*                                                                         *)
(* A process is the background server, another command of the same         *)
(* executable, or a stranger; the system gives the number of a process     *)
(* that ended to any new one.  A process is looked at and signalled in one *)
(* step; what happens during the three seconds of grace is another.        *)
(***************************************************************************)
EXTENDS Integers, FiniteSets

CONSTANTS
  Commands,        \* invocations of the executable
  KindOf,          \* [Commands -> {"start", "stop", "foreground"}]
  Pids,            \* process numbers
  NoPid,
  MaxDeaths,       \* bound: processes that die by themselves
  MaxStrangers,    \* bound: processes of other programs
  MaxDaemonFaults  \* bound: failing calls

ASSUME DaemonConstants ==
  /\ KindOf \in [Commands -> {"start", "stop", "foreground"}] /\ NoPid \notin Pids
  /\ {MaxDeaths, MaxStrangers, MaxDaemonFaults} \subseteq Nat

VARIABLES
  proc,        \* what runs under a process number
  record,      \* mcpx-daemon.json
  address,     \* the process that listens
  command,     \* progress of each command
  signalled,   \* processes that were told to end
  orphans,     \* servers whose command died before it wrote the record
  commandsOverlap,     \* two commands worked on the record at once
  strangerHit, \* a stranger was signalled
  unidentified,\* a process was killed although it could not be identified
  deaths, strangers, daemonFaults

historyVars == <<orphans, commandsOverlap, strangerHit, unidentified>>
boundVars == <<deaths, strangers, daemonFaults>>
daemonVars == <<proc, record, address, command, signalled, historyVars, boundVars>>

Steps == {"idle", "reading", "verifying", "waiting", "removing", "spawning", "writing", "releasing",
          "binding", "serving", "ended"}
Kinds == {"none", "server", "command", "stranger"}

DaemonTypeOK ==
  /\ proc \in [Pids -> Kinds] /\ record \in Pids \cup {NoPid} /\ address \in Pids \cup {NoPid}
  /\ command \in [Commands -> [step : Steps, own : Pids \cup {NoPid}, old : Pids \cup {NoPid},
                               child : Pids \cup {NoPid}]]
  /\ signalled \subseteq Pids /\ orphans \subseteq Pids
  /\ {commandsOverlap, strangerHit, unidentified} \subseteq BOOLEAN
  /\ deaths \in 0..MaxDeaths /\ strangers \in 0..MaxStrangers /\ daemonFaults \in 0..MaxDaemonFaults

DaemonInit ==
  /\ proc = [p \in Pids |-> "none"] /\ record = NoPid /\ address = NoPid
  /\ command = [c \in Commands |-> [step |-> "idle", own |-> NoPid, old |-> NoPid, child |-> NoPid]]
  /\ signalled = {} /\ orphans = {} /\ commandsOverlap = FALSE /\ strangerHit = FALSE /\ unidentified = FALSE
  /\ deaths = 0 /\ strangers = 0 /\ daemonFaults = 0

-----------------------------------------------------------------------------
\* Helpers

In(c, step) == command[c].step = step
Goes(c, step) == command' = [command EXCEPT ![c].step = step]
Free(p) == proc[p] = "none"

\* backgroundCommandMatches compares the executable, not its arguments.
Matches(p) == proc[p] \in {"server", "command"}

\* What a command does when there is no background server left.
Afterwards(c) ==
  CASE KindOf[c] = "start" -> "spawning" [] KindOf[c] = "stop" -> "ended" [] OTHER -> "binding"

\* A process is gone: its number is free, and its address.
Gone(p) ==
  /\ proc' = [proc EXCEPT ![p] = "none"] /\ signalled' = signalled \ {p} /\ orphans' = orphans \ {p}
  /\ address' = IF address = p THEN NoPid ELSE address

\* A command that is over leaves its process number.
Leaves(c) ==
  /\ command' = [command EXCEPT ![c].step = "ended", ![c].own = NoPid]
  /\ proc' = [proc EXCEPT ![command[c].own] = "none"] /\ signalled' = signalled \ {command[c].own}
GoesOrLeaves(c, step) ==
  IF step = "ended" THEN Leaves(c) ELSE Goes(c, step) /\ UNCHANGED <<proc, signalled>>

CallFails ==
  /\ daemonFaults < MaxDaemonFaults /\ daemonFaults' = daemonFaults + 1

-----------------------------------------------------------------------------
\* Commands

AtWork(c) == command[c].step \notin {"idle", "ended", "binding", "serving"}

Invoke(c, p) ==
  /\ In(c, "idle") /\ Free(p)
  /\ proc' = [proc EXCEPT ![p] = "command"]
  /\ command' = [command EXCEPT ![c].step = "reading", ![c].own = p]
  /\ commandsOverlap' = (commandsOverlap \/ \E o \in Commands : AtWork(o))
  /\ UNCHANGED <<record, address, signalled, orphans, strangerHit, unidentified, boundVars>>

\* stopPreviousBackground: readDaemonState
ReadDaemonState(c) ==
  /\ In(c, "reading")
  /\ IF record = NoPid
     THEN GoesOrLeaves(c, Afterwards(c))
     ELSE /\ command' = [command EXCEPT ![c].step = "verifying", ![c].old = record]
          /\ UNCHANGED <<proc, signalled>>
  /\ UNCHANGED <<record, address, historyVars, boundVars>>

\* terminateBackgroundProcess up to SIGTERM: its own number and a process that
\* cannot be looked at are errors that leave the record; a number that is free
\* or another program's is a stale record.
Terminate(c) ==
  LET p == command[c].old IN
  /\ In(c, "verifying")
  /\ \/ p = command[c].own /\ Leaves(c) /\ UNCHANGED daemonFaults
     \/ p # command[c].own /\ ~Matches(p) /\ Goes(c, "removing") /\ UNCHANGED <<proc, signalled, daemonFaults>>
     \/ /\ p # command[c].own /\ Matches(p) /\ signalled' = signalled \cup {p}
        /\ Goes(c, "waiting") /\ UNCHANGED <<proc, daemonFaults>>
     \/ ~Free(p) /\ CallFails /\ Leaves(c)
  /\ UNCHANGED <<record, address, historyVars, deaths, strangers>>

\* within the grace the number became free
SeesItGone(c) ==
  /\ In(c, "waiting") /\ Free(command[c].old) /\ Goes(c, "removing")
  /\ UNCHANGED <<proc, record, address, signalled, historyVars, boundVars>>

\* after the grace whatever has the number is killed
KillAnything(c) ==
  LET p == command[c].old IN
  /\ In(c, "waiting") /\ ~Free(p)
  /\ strangerHit' = (strangerHit \/ proc[p] = "stranger") /\ signalled' = signalled \cup {p}
  /\ Goes(c, "removing")
  /\ UNCHANGED <<proc, record, address, orphans, commandsOverlap, unidentified, boundVars>>

\* backgroundProcessGone and SIGKILL: the number may be another program's by
\* now; when that cannot be found out the process is killed all the same.
Kill(c) ==
  LET p == command[c].old IN
  /\ In(c, "waiting") /\ ~Free(p)
  /\ \/ Matches(p) /\ signalled' = signalled \cup {p} /\ UNCHANGED <<strangerHit, unidentified, daemonFaults>>
     \/ ~Matches(p) /\ UNCHANGED <<signalled, strangerHit, unidentified, daemonFaults>>
     \/ /\ CallFails /\ signalled' = signalled \cup {p} /\ unidentified' = TRUE
        /\ strangerHit' = (strangerHit \/ proc[p] = "stranger")
  /\ Goes(c, "removing")
  /\ UNCHANGED <<proc, record, address, orphans, commandsOverlap, deaths, strangers>>

\* os.Remove, whatever the record holds by now
RemoveRecord(c) ==
  /\ In(c, "removing")
  /\ \/ record' = NoPid /\ GoesOrLeaves(c, Afterwards(c)) /\ UNCHANGED daemonFaults
     \/ CallFails /\ Leaves(c) /\ UNCHANGED record
  /\ UNCHANGED <<address, historyVars, deaths, strangers>>

\* startBackground: cmd.Start
Spawn(c, p) ==
  /\ In(c, "spawning") /\ Free(p)
  /\ \/ /\ proc' = [proc EXCEPT ![p] = "server"] /\ UNCHANGED <<signalled, daemonFaults>>
        /\ command' = [command EXCEPT ![c].step = "writing", ![c].child = p]
     \/ CallFails /\ Leaves(c)
  /\ UNCHANGED <<record, address, historyVars, deaths, strangers>>

\* writeDaemonState renames a complete file; when it fails the child is killed
WriteRecord(c) ==
  LET p == command[c].child IN
  /\ In(c, "writing")
  /\ \/ record' = p /\ Goes(c, "releasing") /\ UNCHANGED <<proc, address, signalled, orphans, daemonFaults>>
     \/ /\ CallFails /\ UNCHANGED record
        /\ command' = [command EXCEPT ![c].step = "ended", ![c].own = NoPid]
        /\ proc' = [proc EXCEPT ![command[c].own] = "none", ![p] = IF @ = "server" THEN "none" ELSE @]
        /\ signalled' = signalled \ {command[c].own, p} /\ UNCHANGED orphans
        /\ address' = IF address = p THEN NoPid ELSE address
  /\ UNCHANGED <<commandsOverlap, strangerHit, unidentified, deaths, strangers>>

\* Process.Release; when it fails the record goes and the child is killed
Release(c) ==
  /\ In(c, "releasing")
  /\ \/ Leaves(c) /\ UNCHANGED <<record, daemonFaults>>
     \/ /\ CallFails /\ record' = NoPid
        /\ command' = [command EXCEPT ![c].step = "ended", ![c].own = NoPid]
        /\ proc' = [proc EXCEPT ![command[c].own] = "none"]
        /\ signalled' = (signalled \ {command[c].own}) \cup
                          (IF proc[command[c].child] = "server" THEN {command[c].child} ELSE {})
  /\ UNCHANGED <<address, historyVars, deaths, strangers>>

\* the foreground server listens, or ends when the address is taken
Serve(c) ==
  /\ In(c, "binding")
  /\ IF address = NoPid
     THEN address' = command[c].own /\ Goes(c, "serving") /\ UNCHANGED <<proc, signalled>>
     ELSE Leaves(c) /\ UNCHANGED address
  /\ UNCHANGED <<record, historyVars, boundVars>>

-----------------------------------------------------------------------------
\* Processes

\* The background server listens, or ends when the address is taken.
Listen(p) ==
  /\ proc[p] = "server" /\ address # p
  /\ IF address = NoPid
     THEN address' = p /\ UNCHANGED <<proc, signalled, orphans>>
     ELSE Gone(p)
  /\ UNCHANGED <<record, command, commandsOverlap, strangerHit, unidentified, boundVars>>

\* A process ends: it was told to, or dies.  A command that ends is over, and the
\* server it has started and not recorded is nobody's.
Dies(p) ==
  LET here == {c \in Commands : command[c].own = p} IN
  /\ ~Free(p)
  /\ IF p \in signalled \/ proc[p] = "stranger" THEN UNCHANGED deaths
     ELSE deaths < MaxDeaths /\ deaths' = deaths + 1
  /\ proc' = [proc EXCEPT ![p] = "none"] /\ signalled' = signalled \ {p}
  /\ address' = IF address = p THEN NoPid ELSE address
  /\ command' = [c \in Commands |->
       IF c \in here THEN [step |-> "ended", own |-> NoPid, old |-> command[c].old, child |-> command[c].child]
       ELSE command[c]]
  /\ orphans' = (orphans \ {p}) \cup {command[c].child : c \in {o \in here : In(o, "writing")}}
  /\ UNCHANGED <<record, commandsOverlap, strangerHit, unidentified, strangers, daemonFaults>>

Stranger(p) ==
  /\ Free(p) /\ strangers < MaxStrangers
  /\ proc' = [proc EXCEPT ![p] = "stranger"] /\ strangers' = strangers + 1
  /\ UNCHANGED <<record, address, command, signalled, historyVars, deaths, daemonFaults>>

DaemonNext ==
  \/ \E c \in Commands :
       \/ \E p \in Pids : Invoke(c, p) \/ Spawn(c, p)
       \/ ReadDaemonState(c) \/ Terminate(c) \/ SeesItGone(c) \/ Kill(c) \/ RemoveRecord(c)
       \/ WriteRecord(c) \/ Release(c) \/ Serve(c)
  \/ \E p \in Pids : Listen(p) \/ Dies(p) \/ Stranger(p)

DaemonSpec == DaemonInit /\ [][DaemonNext]_daemonVars

-----------------------------------------------------------------------------
\* Properties

\* Every background server that is to run is the one of the record, or the one
\* its command is about to record: a command that fails takes the server it
\* started with it, and the one before is told to end before its record goes.
\* Two commands at once and a command that dies before it wrote are the exceptions.
ServerIsRecorded ==
  ~commandsOverlap => \A p \in Pids \ (signalled \cup orphans) :
    proc[p] = "server" => record = p \/ \E c \in Commands : In(c, "writing") /\ command[c].child = p

\* No process of another program is signalled, however the numbers are reused,
\* as long as processes can be identified.
StrangersAreSpared == ~unidentified => ~strangerHit

\* The background server can be found, and nothing else is taken for it.
DaemonHolds == ServerIsRecorded /\ StrangersAreSpared

\* What the comment in backgroundProcessGone says: a process that cannot be
\* identified is waited for, not killed.
UnidentifiedIsNotKilled == ~unidentified
===============================================================================
