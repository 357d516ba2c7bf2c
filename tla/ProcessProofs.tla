---------------------------- MODULE ProcessProofs ----------------------------
(***************************************************************************)
(* What the processes of one home directory rely on, for every number of   *)
(* commands, processes, clicks, clients, codes and tokens: the record of   *)
(* the background server (Daemon), the record of the tunnel (Desktop), the *)
(* files of the authorization server (OAuth), the database, the socket and *)
(* the port (Lifecycle), and the installed program (Update).               *)
(*                                                                         *)
(* None of the properties is inductive. DaemonHolds says nothing of what a *)
(* command has read between two of its steps: DaemonInv adds the process   *)
(* numbers a command keeps, and that the record is what the command at     *)
(* work expects of it. TunnelHolds says nothing of the steps still to be   *)
(* taken: TunnelInv adds the shape of the lists of steps, that who is      *)
(* about to record a tunnel replaces no other, and how far a stop is that  *)
(* works alone.                                                            *)
(*                                                                         *)
(* CredentialsHold speaks of the process that serves. OAuthInv says what   *)
(* the files hold for the next one: the tokens and clients that were given *)
(* out are in the file and with every process that has loaded it, what was *)
(* used is in none of them, and a process that has a key has that of the   *)
(* file. A step is looked at four times, for codes, tokens, clients and    *)
(* the key; the Quiet predicates say that it does not touch one of them.   *)
(*                                                                         *)
(* LifecycleHolds says nothing of what a server has looked at before:      *)
(* AloneFindsItSo and OwnSockets add that it is still so, for a server     *)
(* that lives alone and for one that is alone on its way. UpdatesHold says *)
(* nothing of a run before its last step: UpdateInv adds what it has       *)
(* checked by then, and VersionsCompare that the comparison of versions is *)
(* the order of semver.org, for versions of any length.                    *)
(*                                                                         *)
(* The last part carries the first three and the promise of a key over to  *)
(* MCProcesses: what TLC explores are behaviours of each of the parts.     *)
(***************************************************************************)
EXTENDS MCProcesses, Lifecycle, Update, IdempotencyProofs, SequenceTheorems, NaturalsInduction

-----------------------------------------------------------------------------
(* The background server: DaemonInv is inductive. *)

\* The process numbers that a command keeps for its steps are numbers.
NumbersKnown ==
  \A c \in Commands :
    /\ AtWork(c) \/ In(c, "binding") => command[c].own \in Pids
    /\ command[c].step \in {"verifying", "waiting", "removing"} => command[c].old \in Pids
    /\ command[c].step \in {"writing", "releasing"} => command[c].child \in Pids

\* A background server that no command has told to end and that has its command.
ToBeFound(p) == proc[p] = "server" /\ p \notin signalled /\ p \notin orphans

\* What one command at work at a time may rely on: between its steps the record
\* is what it has read, nothing while it starts a server, and then its child.
RecordFollowsCommand ==
  /\ \A c, d \in Commands : AtWork(c) /\ AtWork(d) => c = d
  /\ \A c \in Commands :
       /\ command[c].step \in {"verifying", "waiting", "removing"} => record = command[c].old
       /\ In(c, "removing") => ~ToBeFound(command[c].old)
       /\ command[c].step \in {"spawning", "writing"} => record = NoPid
       /\ In(c, "releasing") => record = command[c].child

\* ServerIsRecorded without its condition.
AllFound ==
  \A p \in Pids : ToBeFound(p) => record = p \/ \E c \in Commands : In(c, "writing") /\ command[c].child = p

DaemonInv ==
  /\ DaemonTypeOK /\ NumbersKnown
  /\ ~commandsOverlap => RecordFollowsCommand /\ AllFound
  /\ StrangersAreSpared

\* A command without a server to stop starts one, becomes one or ends.
LEMMA AfterwardsNext ==
  ASSUME NEW c \in Commands, GoesOrLeaves(c, Afterwards(c))
  PROVE  \/ Leaves(c)
         \/ (Goes(c, "spawning") \/ Goes(c, "binding")) /\ UNCHANGED <<proc, signalled>>
<1>1. Afterwards(c) = "spawning" \/ Afterwards(c) = "ended" \/ Afterwards(c) = "binding"
  BY Zenon DEF Afterwards
<1>2. CASE Afterwards(c) = "spawning"
  BY <1>2 DEF GoesOrLeaves
<1>3. CASE Afterwards(c) = "ended"
  BY <1>3 DEF GoesOrLeaves
<1>4. CASE Afterwards(c) = "binding"
  BY <1>4 DEF GoesOrLeaves
<1> QED
  BY <1>1, <1>2, <1>3, <1>4

\* A command that goes on stays a command.
LEMMA CommandKept ==
  ASSUME NEW P, NEW f \in [Commands -> [step : Steps, own : P, old : P, child : P]],
         NEW c \in Commands, NEW s \in Steps, NEW p \in P
  PROVE  /\ [f EXCEPT ![c].step = s, ![c].own = p] \in [Commands -> [step : Steps, own : P, old : P, child : P]]
OBVIOUS

\* The background server's files and processes keep to their types.
LEMMA DaemonTypes == DaemonTypeOK /\ NumbersKnown /\ [DaemonNext]_daemonVars => DaemonTypeOK' /\ NumbersKnown'
<1> SUFFICES ASSUME DaemonTypeOK, NumbersKnown, [DaemonNext]_daemonVars PROVE DaemonTypeOK' /\ NumbersKnown'
  OBVIOUS
<1> USE DaemonConstants DEF DaemonTypeOK, NumbersKnown, In, AtWork, boundVars, historyVars
<1>1. ASSUME NEW c \in Commands, NEW p \in Pids, Invoke(c, p) PROVE DaemonTypeOK' /\ NumbersKnown'
  <2>1. {commandsOverlap, strangerHit, unidentified}' \subseteq BOOLEAN
    BY <1>1, Zenon DEF Invoke
  <2>2. command' = [command EXCEPT ![c].step = "reading", ![c].own = p]
    BY <1>1 DEF Invoke
  <2>3. command' \in [Commands -> [step : Steps, own : Pids \cup {NoPid}, old : Pids \cup {NoPid},
                                   child : Pids \cup {NoPid}]]
    <3>1. "reading" \in Steps /\ p \in Pids \cup {NoPid}
      BY DEF Steps
    <3>2. command \in [Commands -> [step : Steps, own : Pids \cup {NoPid}, old : Pids \cup {NoPid},
                                    child : Pids \cup {NoPid}]]
      OBVIOUS
    <3> HIDE DEF DaemonTypeOK, NumbersKnown, AtWork, In
    <3> QED
      BY <2>2, <3>1, <3>2, CommandKept, Zenon
  <2>4. NumbersKnown'
    BY <2>2
  <2>5. proc' \in [Pids -> Kinds]
    BY <1>1 DEF Invoke, Kinds
  <2>6. UNCHANGED <<record, address, signalled, orphans, boundVars>>
    BY <1>1 DEF Invoke
  <2> QED
    BY <2>1, <2>3, <2>4, <2>5, <2>6
<1>2. ASSUME NEW c \in Commands, NEW p \in Pids, Spawn(c, p) PROVE DaemonTypeOK' /\ NumbersKnown'
  BY <1>2, SMTT(40) DEF Spawn, CallFails, Leaves, Kinds, Steps
<1>3. ASSUME NEW c \in Commands, ReadDaemonState(c) PROVE DaemonTypeOK' /\ NumbersKnown'
  <2>1. CASE record # NoPid
    BY <1>3, <2>1 DEF ReadDaemonState, Steps
  <2>2. CASE record = NoPid /\ Leaves(c)
    BY <1>3, <2>2 DEF ReadDaemonState, Leaves, Kinds, Steps
  <2>3. CASE record = NoPid /\ (Goes(c, "spawning") \/ Goes(c, "binding")) /\ UNCHANGED <<proc, signalled>>
    BY <1>3, <2>3 DEF ReadDaemonState, Goes, Steps
  <2> QED
    BY <1>3, <2>1, <2>2, <2>3, AfterwardsNext DEF ReadDaemonState
<1>4. ASSUME NEW c \in Commands, Terminate(c) PROVE DaemonTypeOK' /\ NumbersKnown'
  BY <1>4 DEF Terminate, Goes, Leaves, CallFails, Kinds, Steps
<1>5. ASSUME NEW c \in Commands, SeesItGone(c) PROVE DaemonTypeOK' /\ NumbersKnown'
  BY <1>5 DEF SeesItGone, Goes, Kinds, Steps
<1>6. ASSUME NEW c \in Commands, Kill(c) PROVE DaemonTypeOK' /\ NumbersKnown'
  <2>1. {commandsOverlap, strangerHit, unidentified}' \subseteq BOOLEAN
    BY <1>6, Zenon DEF Kill
  <2>3. DaemonTypeOK'
    BY <1>6, <2>1 DEF Kill, Goes, CallFails, Steps
  <2>2. NumbersKnown'
    BY <1>6 DEF Kill, Goes
  <2> QED
    BY <2>2, <2>3
<1>7. ASSUME NEW c \in Commands, RemoveRecord(c) PROVE DaemonTypeOK' /\ NumbersKnown'
  <2>1. CASE Leaves(c)
    BY <1>7, <2>1 DEF RemoveRecord, Leaves, CallFails, Kinds, Steps
  <2>2. CASE (Goes(c, "spawning") \/ Goes(c, "binding")) /\ UNCHANGED <<proc, signalled>>
    BY <1>7, <2>2 DEF RemoveRecord, Goes, CallFails, Steps
  <2> QED
    BY <1>7, <2>1, <2>2, AfterwardsNext DEF RemoveRecord
<1>8. ASSUME NEW c \in Commands, WriteRecord(c) PROVE DaemonTypeOK' /\ NumbersKnown'
  BY <1>8, SMTT(40) DEF WriteRecord, Goes, CallFails, Kinds, Steps
<1>9. ASSUME NEW c \in Commands, Release(c) PROVE DaemonTypeOK' /\ NumbersKnown'
  BY <1>9 DEF Release, Leaves, CallFails, Kinds, Steps
<1>10. ASSUME NEW c \in Commands, Serve(c) PROVE DaemonTypeOK' /\ NumbersKnown'
  BY <1>10, SMTT(40) DEF Serve, Goes, Leaves, Kinds, Steps
<1>11. ASSUME NEW p \in Pids, Listen(p) PROVE DaemonTypeOK' /\ NumbersKnown'
  BY <1>11 DEF Listen, Gone, Kinds, Steps
<1>12. ASSUME NEW p \in Pids, Dies(p) PROVE DaemonTypeOK' /\ NumbersKnown'
  <2>1. command' = [d \in Commands |->
          IF command[d].own = p THEN [step |-> "ended", own |-> NoPid, old |-> command[d].old,
                                      child |-> command[d].child] ELSE command[d]]
    BY <1>12 DEF Dies
  <2>2. NumbersKnown' /\ command' \in [Commands -> [step : Steps, own : Pids \cup {NoPid},
                                         old : Pids \cup {NoPid}, child : Pids \cup {NoPid}]]
    BY <2>1 DEF Steps
  <2>3. orphans' \subseteq Pids
    BY <1>12 DEF Dies
  <2> QED
    BY <1>12, <2>2, <2>3 DEF Dies, Free, Kinds
<1>13. ASSUME NEW p \in Pids, Stranger(p) PROVE DaemonTypeOK' /\ NumbersKnown'
  BY <1>13 DEF Stranger, Free, Kinds, Steps
<1>14. CASE UNCHANGED daemonVars
  BY <1>14 DEF daemonVars
<1> QED
  BY <1>1, <1>2, <1>3, <1>4, <1>5, <1>6, <1>7, <1>8, <1>9, <1>10, <1>11, <1>12, <1>13, <1>14 DEF DaemonNext

\* Only command c takes a step.
OnlyMoves(c, step) ==
  /\ \A d \in Commands \ {c} : command'[d] = command[d]
  /\ command'[c].step = step

\* It keeps what it has read and started.
Remembers(c) == command'[c].old = command[c].old /\ command'[c].child = command[c].child

NoServerMore == \A p \in Pids : ToBeFound(p)' => ToBeFound(p)

\* A command that goes to its next step keeps its numbers; the others stay.
LEMMA GoesMoves ==
  ASSUME DaemonTypeOK, NEW c \in Commands, NEW s \in Steps, Goes(c, s)
  PROVE  OnlyMoves(c, s) /\ Remembers(c)
BY DEF DaemonTypeOK, Goes, OnlyMoves, Remembers

\* A command that leaves has ended, and with it its process.
LEMMA LeavesMoves ==
  ASSUME DaemonTypeOK, NEW c \in Commands, Leaves(c), orphans' = orphans
  PROVE  OnlyMoves(c, "ended") /\ Remembers(c) /\ NoServerMore
<1>1. OnlyMoves(c, "ended") /\ Remembers(c)
  BY DEF DaemonTypeOK, Leaves, OnlyMoves, Remembers
<1>2. \A p \in Pids : p \in signalled /\ p \notin signalled' => proc'[p] = "none"
  BY DEF DaemonTypeOK, Leaves
<1>3. \A p \in Pids : proc'[p] = "server" => proc[p] = "server"
  BY DEF DaemonTypeOK, Leaves
<1> QED
  BY <1>1, <1>2, <1>3 DEF NoServerMore, ToBeFound

\* Between the steps of one command at a time the record follows it, and it
\* leads to every server.
LEMMA RecordNext ==
  ASSUME DaemonInv, [DaemonNext]_daemonVars, ~commandsOverlap, ~commandsOverlap'
  PROVE  RecordFollowsCommand' /\ AllFound'
<1>1. DaemonTypeOK /\ NumbersKnown /\ RecordFollowsCommand /\ AllFound /\ NoPid \notin Pids
  BY DaemonConstants DEF DaemonInv
<1>2. ASSUME NEW c \in Commands, NEW s, OnlyMoves(c, s), AtWork(c), s \in {"ended", "binding"}, NoServerMore,
             record' = record, ~In(c, "writing")
      PROVE  RecordFollowsCommand' /\ AllFound'
  BY <1>1, <1>2 DEF OnlyMoves, NumbersKnown, RecordFollowsCommand, AllFound, NoServerMore, AtWork, In
<1>3. ASSUME NEW c \in Commands, NEW p \in Pids, Invoke(c, p) PROVE RecordFollowsCommand' /\ AllFound'
  <2>1. OnlyMoves(c, "reading")
    BY <1>1, <1>3 DEF Invoke, OnlyMoves, DaemonTypeOK
  <2>2. NoServerMore
    BY <1>1, <1>3 DEF Invoke, NoServerMore, ToBeFound, DaemonTypeOK
  <2>3. \A d \in Commands : ~AtWork(d)
    BY <1>3 DEF Invoke
  <2>4. record' = record /\ In(c, "idle")
    BY <1>3 DEF Invoke
  <2> QED
    BY <1>1, <2>1, <2>2, <2>3, <2>4 DEF OnlyMoves, NumbersKnown, RecordFollowsCommand, AllFound, NoServerMore, AtWork, In
<1>4. ASSUME NEW c \in Commands, NEW p \in Pids, Spawn(c, p) PROVE RecordFollowsCommand' /\ AllFound'
  <2>1. In(c, "spawning") /\ AtWork(c) /\ record' = record /\ record = NoPid /\ orphans' = orphans
    BY <1>1, <1>4 DEF Spawn, In, AtWork, RecordFollowsCommand, historyVars
  <2>2. CASE Leaves(c)
    BY <1>1, <1>2, <2>1, <2>2, LeavesMoves DEF In
  <2>3. CASE ~Leaves(c)
    <3>1. OnlyMoves(c, "writing") /\ command'[c].child = p
      BY <1>1, <1>4, <2>3 DEF Spawn, OnlyMoves, DaemonTypeOK
    <3>2. \A q \in Pids : ToBeFound(q)' => ToBeFound(q) \/ q = p
      BY <1>1, <1>4, <2>3 DEF Spawn, ToBeFound, DaemonTypeOK, historyVars
    <3> QED
      BY <1>1, <2>1, <3>1, <3>2 DEF OnlyMoves, RecordFollowsCommand, AllFound, AtWork, In
  <2> QED
    BY <2>2, <2>3
<1>5. ASSUME NEW c \in Commands, ReadDaemonState(c) PROVE RecordFollowsCommand' /\ AllFound'
  <2>1. In(c, "reading") /\ AtWork(c) /\ record' = record /\ orphans' = orphans
    BY <1>5 DEF ReadDaemonState, In, AtWork, historyVars
  <2>2. CASE Leaves(c)
    BY <1>1, <1>2, <2>1, <2>2, LeavesMoves DEF In
  <2>3. CASE record # NoPid /\ ~Leaves(c)
    <3>1. OnlyMoves(c, "verifying") /\ command'[c].old = record /\ NoServerMore
      BY <1>1, <1>5, <2>3 DEF ReadDaemonState, OnlyMoves, NoServerMore, ToBeFound, DaemonTypeOK, historyVars
    <3> QED
      BY <1>1, <2>1, <3>1 DEF OnlyMoves, NumbersKnown, RecordFollowsCommand, AllFound, NoServerMore, AtWork, In
  <2>4. CASE record = NoPid /\ (Goes(c, "spawning") \/ Goes(c, "binding")) /\ UNCHANGED <<proc, signalled>>
    <3>1. NoServerMore
      BY <2>1, <2>4 DEF NoServerMore, ToBeFound
    <3>2. OnlyMoves(c, "spawning") \/ OnlyMoves(c, "binding")
      BY <1>1, <2>4, GoesMoves DEF Steps
    <3> QED
      BY <1>1, <2>1, <2>4, <3>1, <3>2 DEF OnlyMoves, NumbersKnown, RecordFollowsCommand, AllFound, NoServerMore, AtWork, In
  <2> QED
    BY <1>5, <2>2, <2>3, <2>4, AfterwardsNext DEF ReadDaemonState
<1>6. ASSUME NEW c \in Commands, Terminate(c) PROVE RecordFollowsCommand' /\ AllFound'
  <2>1. In(c, "verifying") /\ AtWork(c) /\ record' = record /\ orphans' = orphans
    BY <1>6 DEF Terminate, In, AtWork, historyVars
  <2>2. CASE Leaves(c)
    BY <1>1, <1>2, <2>1, <2>2, LeavesMoves DEF In
  <2>3. CASE Goes(c, "removing") /\ ~Matches(command[c].old) /\ UNCHANGED <<proc, signalled>>
    <3>1. NoServerMore /\ \A p \in Pids : p = command[c].old => ~ToBeFound(p)'
      BY <2>1, <2>3 DEF NoServerMore, ToBeFound, Matches
    <3>2. OnlyMoves(c, "removing") /\ Remembers(c)
      BY <1>1, <2>3, GoesMoves DEF Steps
    <3> QED
      BY <1>1, <2>1, <3>1, <3>2 DEF OnlyMoves, Remembers, NumbersKnown, RecordFollowsCommand, AllFound, NoServerMore, AtWork, In
  <2>4. CASE Goes(c, "waiting") /\ signalled' = signalled \cup {command[c].old} /\ UNCHANGED proc
    <3>1. NoServerMore
      BY <2>1, <2>4 DEF NoServerMore, ToBeFound
    <3>2. OnlyMoves(c, "waiting") /\ Remembers(c)
      BY <1>1, <2>4, GoesMoves DEF Steps
    <3> QED
      BY <1>1, <2>1, <3>1, <3>2 DEF OnlyMoves, Remembers, NumbersKnown, RecordFollowsCommand, AllFound, NoServerMore, AtWork, In
  <2> QED
    BY <1>6, <2>2, <2>3, <2>4 DEF Terminate
<1>7. ASSUME NEW c \in Commands, SeesItGone(c) \/ Kill(c) PROVE RecordFollowsCommand' /\ AllFound'
  <2>1. In(c, "waiting") /\ AtWork(c) /\ record' = record /\ Goes(c, "removing") /\ orphans' = orphans
    BY <1>7 DEF SeesItGone, Kill, In, AtWork, historyVars
  <2>2. NoServerMore /\ \A p \in Pids : p = command[c].old => ~ToBeFound(p)'
    BY <1>7 DEF SeesItGone, Kill, NoServerMore, ToBeFound, Matches, Free, historyVars
  <2>3. OnlyMoves(c, "removing") /\ Remembers(c)
    BY <1>1, <2>1, GoesMoves DEF Steps
  <2> QED
    BY <1>1, <2>1, <2>2, <2>3 DEF OnlyMoves, Remembers, NumbersKnown, RecordFollowsCommand, AllFound, NoServerMore, AtWork, In
<1>8. ASSUME NEW c \in Commands, RemoveRecord(c) PROVE RecordFollowsCommand' /\ AllFound'
  <2>1. In(c, "removing") /\ AtWork(c) /\ orphans' = orphans
    BY <1>8 DEF RemoveRecord, In, AtWork, historyVars
  <2>2. \A p \in Pids : ~ToBeFound(p) \/ (record = p /\ p # command[c].old)
    BY <1>1, <2>1 DEF RecordFollowsCommand, AllFound, AtWork, In
  <2>3. \A p \in Pids : ~ToBeFound(p)
    BY <1>1, <2>1, <2>2 DEF RecordFollowsCommand, In
  <2>4. (Leaves(c) \/ ((Goes(c, "spawning") \/ Goes(c, "binding")) /\ UNCHANGED <<proc, signalled>>))
        /\ record' \in {record, NoPid} /\ (record' = record => Leaves(c) \/ record = NoPid)
    BY <1>8, AfterwardsNext DEF RemoveRecord
  <2>5. NoServerMore /\ \E s \in {"ended", "spawning", "binding"} : OnlyMoves(c, s) /\ (s # "ended" => record' = NoPid)
    <3>1. CASE Leaves(c)
      BY <1>1, <2>1, <3>1, LeavesMoves
    <3>2. CASE ~Leaves(c)
      BY <1>1, <2>1, <2>4, <3>2, GoesMoves DEF NoServerMore, ToBeFound, Steps
    <3> QED
      BY <3>1, <3>2
  <2> QED
    BY <1>1, <2>1, <2>3, <2>5 DEF OnlyMoves, NumbersKnown, RecordFollowsCommand, AllFound, NoServerMore, AtWork, In
<1>9. ASSUME NEW c \in Commands, WriteRecord(c) PROVE RecordFollowsCommand' /\ AllFound'
  <2>1. In(c, "writing") /\ AtWork(c) /\ record = NoPid
    BY <1>1, <1>9 DEF WriteRecord, In, AtWork, RecordFollowsCommand
  <2>2. CASE record' = command[c].child /\ Goes(c, "releasing") /\ UNCHANGED <<proc, signalled, orphans>>
    <3>1. NoServerMore
      BY <2>2 DEF NoServerMore, ToBeFound
    <3>2. OnlyMoves(c, "releasing") /\ Remembers(c)
      BY <1>1, <2>2, GoesMoves DEF Steps
    <3> QED
      BY <1>1, <2>1, <2>2, <3>1, <3>2 DEF OnlyMoves, Remembers, NumbersKnown, RecordFollowsCommand, AllFound, NoServerMore, AtWork, In
  <2>3. CASE record' = record /\ command' = [command EXCEPT ![c].step = "ended", ![c].own = NoPid]
    <3>1. OnlyMoves(c, "ended")
      BY <1>1, <2>3 DEF OnlyMoves, DaemonTypeOK
    <3>2. CASE Goes(c, "releasing")
      BY <1>1, <3>1, <3>2 DEF Goes, DaemonTypeOK, OnlyMoves
    <3>3. CASE ~Goes(c, "releasing")
      <4>1. /\ proc' = [proc EXCEPT ![command[c].own] = "none", ![command[c].child] = IF @ = "server" THEN "none" ELSE @]
            /\ signalled' = signalled \ {command[c].own, command[c].child} /\ orphans' = orphans
        BY <1>9, <3>3 DEF WriteRecord
      <4>2. \A p \in Pids : /\ proc'[p] = "server" => proc[p] = "server"
                            /\ p \in signalled /\ p \notin signalled' => proc'[p] # "server"
                            /\ p = command[c].child => proc'[p] # "server"
        BY <1>1, <4>1 DEF DaemonTypeOK
      <4>3. NoServerMore /\ \A p \in Pids : p = command[c].child => ~ToBeFound(p)'
        BY <4>1, <4>2 DEF NoServerMore, ToBeFound
      <4>4. \A d \in Commands : ~AtWork(d)'
        BY <1>1, <2>1, <3>1 DEF OnlyMoves, RecordFollowsCommand, AtWork, In
      <4>5. \A p \in Pids : ~ToBeFound(p)'
        BY <1>1, <2>1, <4>3 DEF RecordFollowsCommand, AllFound, NoServerMore, AtWork, In
      <4> QED
        BY <4>4, <4>5 DEF RecordFollowsCommand, AllFound, AtWork, In
    <3> QED
      BY <3>2, <3>3
  <2> QED
    BY <1>9, <2>2, <2>3 DEF WriteRecord
<1>10. ASSUME NEW c \in Commands, Release(c) PROVE RecordFollowsCommand' /\ AllFound'
  <2>1. In(c, "releasing") /\ AtWork(c) /\ record = command[c].child /\ command[c].child \in Pids /\ orphans' = orphans
    BY <1>1, <1>10 DEF Release, In, AtWork, RecordFollowsCommand, NumbersKnown, historyVars
  <2>2. CASE Leaves(c) /\ record' = record
    BY <1>1, <1>2, <2>1, <2>2, LeavesMoves DEF In
  <2>3. CASE record' = NoPid
    <3>1. OnlyMoves(c, "ended")
      BY <1>1, <1>10 DEF Release, Leaves, OnlyMoves, DaemonTypeOK
    <3>2. \A p \in Pids : proc'[p] = "server" => proc[p] = "server"
      BY <1>1, <1>10 DEF Release, Leaves, DaemonTypeOK
    <3>3. \A p \in Pids : p \in signalled /\ p \notin signalled' => proc'[p] = "none"
      BY <1>1, <1>10 DEF Release, Leaves, DaemonTypeOK
    <3>4. record # NoPid /\ (proc[command[c].child] = "server" => command[c].child \in signalled')
      BY <1>1, <1>10, <2>1, <2>3 DEF Release
    <3>5. NoServerMore /\ \A p \in Pids : p = command[c].child => ~ToBeFound(p)'
      BY <2>1, <3>2, <3>3, <3>4 DEF NoServerMore, ToBeFound
    <3> QED
      BY <1>1, <2>1, <2>3, <3>1, <3>5 DEF OnlyMoves, NumbersKnown, RecordFollowsCommand, AllFound, NoServerMore, AtWork, In
  <2> QED
    BY <1>10, <2>2, <2>3 DEF Release
<1>11. ASSUME NEW c \in Commands, Serve(c) PROVE RecordFollowsCommand' /\ AllFound'
  <2>1. In(c, "binding") /\ record' = record /\ orphans' = orphans
    BY <1>11 DEF Serve, historyVars
  <2>2. \E s \in {"serving", "ended"} : OnlyMoves(c, s) /\ NoServerMore
    <3>1. CASE Leaves(c)
      BY <1>1, <2>1, <3>1, LeavesMoves
    <3>2. CASE Goes(c, "serving") /\ UNCHANGED <<proc, signalled>>
      BY <1>1, <2>1, <3>2, GoesMoves DEF NoServerMore, ToBeFound, Steps
    <3> QED
      BY <1>11, <3>1, <3>2 DEF Serve
  <2> QED
    BY <1>1, <2>1, <2>2 DEF OnlyMoves, NumbersKnown, RecordFollowsCommand, AllFound, NoServerMore, AtWork, In
<1>12. ASSUME NEW p \in Pids, Listen(p) \/ Stranger(p) PROVE RecordFollowsCommand' /\ AllFound'
  <2>1. UNCHANGED <<record, command>>
    BY <1>12 DEF Listen, Stranger
  <2>2. NoServerMore
    BY <1>1, <1>12 DEF Listen, Stranger, Gone, Free, NoServerMore, ToBeFound, DaemonTypeOK, historyVars
  <2> QED
    BY <1>1, <2>1, <2>2 DEF NumbersKnown, RecordFollowsCommand, AllFound, NoServerMore, AtWork, In
<1>13. ASSUME NEW p \in Pids, Dies(p) PROVE RecordFollowsCommand' /\ AllFound'
  <2>1. \A c \in Commands : command'[c].step \in {command[c].step, "ended"} /\ command'[c].old = command[c].old
                            /\ command'[c].child = command[c].child
    BY <1>1, <1>13 DEF Dies, DaemonTypeOK
  <2>2. NoServerMore /\ record' = record
    BY <1>1, <1>13 DEF Dies, NoServerMore, ToBeFound, DaemonTypeOK
  <2>3. \A c \in Commands, q \in Pids : In(c, "writing") /\ command[c].child = q => In(c, "writing")' \/ ~ToBeFound(q)'
    BY <1>1, <1>13 DEF Dies, ToBeFound, In
  <2> QED
    BY <1>1, <2>1, <2>2, <2>3 DEF NumbersKnown, RecordFollowsCommand, AllFound, NoServerMore, AtWork, In
<1>14. CASE UNCHANGED daemonVars
  BY <1>1, <1>14 DEF daemonVars, historyVars, RecordFollowsCommand, AllFound, ToBeFound, AtWork, In
<1> QED
  BY <1>3, <1>4, <1>5, <1>6, <1>7, <1>8, <1>9, <1>10, <1>11, <1>12, <1>13, <1>14 DEF DaemonNext

\* The invariant of the background server is inductive.
LEMMA DaemonInvNext == DaemonInv /\ [DaemonNext]_daemonVars => DaemonInv'
<1> SUFFICES ASSUME DaemonInv, [DaemonNext]_daemonVars PROVE DaemonInv'
  OBVIOUS
<1>1. DaemonTypeOK' /\ NumbersKnown'
  BY DaemonTypes DEF DaemonInv
<1>2. commandsOverlap => commandsOverlap'
  BY Zenon DEF DaemonNext, daemonVars, historyVars, Invoke, Spawn, ReadDaemonState, Terminate, SeesItGone, Kill,
               RemoveRecord, WriteRecord, Release, Serve, Listen, Dies, Stranger
<1>3. StrangersAreSpared'
  <2>1. ASSUME NEW c \in Commands, Kill(c) PROVE StrangersAreSpared'
    <3>1. UNCHANGED <<strangerHit, unidentified>> \/ unidentified' = TRUE
      BY <2>1, Zenon DEF Kill
    <3> QED
      BY <3>1 DEF DaemonInv, StrangersAreSpared
  <2>2. UNCHANGED <<strangerHit, unidentified>> => StrangersAreSpared'
    BY DEF DaemonInv, StrangersAreSpared
  <2> QED
    BY <2>1, <2>2, Zenon DEF DaemonNext, daemonVars, historyVars, Invoke, Spawn, ReadDaemonState, Terminate,
         SeesItGone, RemoveRecord, WriteRecord, Release, Serve, Listen, Dies, Stranger
<1> QED
  BY <1>1, <1>2, <1>3, RecordNext DEF DaemonInv

\* Nothing runs at first and nothing is recorded.
LEMMA DaemonInvInit == DaemonInit => DaemonInv
<1> SUFFICES ASSUME DaemonInit PROVE DaemonInv
  OBVIOUS
<1> USE DaemonConstants DEF DaemonInit
<1>1. DaemonTypeOK
  <2>1. proc \in [Pids -> Kinds] /\ deaths \in 0..MaxDeaths /\ strangers \in 0..MaxStrangers /\ daemonFaults \in 0..MaxDaemonFaults
    BY DEF Kinds
  <2>2. command \in [Commands -> [step : Steps, own : Pids \cup {NoPid}, old : Pids \cup {NoPid},
                                  child : Pids \cup {NoPid}]]
    BY DEF Steps
  <2> QED
    BY <2>1, <2>2, Zenon DEF DaemonTypeOK
<1>2. NumbersKnown /\ StrangersAreSpared
  BY DEF NumbersKnown, StrangersAreSpared, AtWork, In
<1>3. RecordFollowsCommand /\ AllFound
  BY DEF RecordFollowsCommand, AllFound, ToBeFound, AtWork, In
<1> QED
  BY <1>1, <1>2, <1>3 DEF DaemonInv

LEMMA DaemonInductive == DaemonSpec => []DaemonInv
BY DaemonInvInit, DaemonInvNext, PTL DEF DaemonSpec

\* As long as one command is at work at a time, every background server is the
\* recorded one or about to be; and no stranger is signalled while processes can
\* be identified, however their numbers are used again.
THEOREM DaemonIsFound == DaemonSpec => []DaemonHolds
<1>1. DaemonSpec => []DaemonInv
  BY DaemonInductive
<1>2. DaemonInv => DaemonHolds
  BY Zenon DEF DaemonInv, DaemonHolds, ServerIsRecorded, AllFound, ToBeFound
<1> QED
  BY <1>1, <1>2, PTL

-----------------------------------------------------------------------------
(* The tunnel: TunnelInv is inductive. *)

\* In a list of steps a process is recorded right after it was spawned, and only
\* then; a list that begins anew does not begin with the record.
Paired(list) ==
  \A i \in 1..Len(list) :
    /\ list[i] = "spawn" => i < Len(list) /\ list[i + 1] = "record"
    /\ list[i] = "record" => i = 1 \/ list[i - 1] = "spawn"
Fresh(list) == list \in Seq(StepNames) /\ Paired(list) /\ (list # <<>> => list[1] # "record")

DesktopTypes ==
  /\ todo \in [Actors -> Seq(StepNames)] /\ \A a \in Actors : Paired(todo[a])
  /\ service \in [status : {"stopped", "starting", "running"}, read : [proxy : BOOLEAN, origin : 0..MaxTunnels \cup {NamedOrigin}]]
  /\ watchdog \in [step : {"waiting", "looking", "probing", "deciding", "recovering"}, failures : 0..2, cooling : BOOLEAN]
  /\ tunnels \subseteq 1..made /\ tunnelRecord \in 0..made
  /\ \A a \in Actors : notes[a].tunnel \in 0..made

\* A click that was not made, and a watchdog that does not recover, have nothing to do.
IdleAtFirst ==
  /\ \A c \in Clicks : clicked[c] = "none" => todo[c] = <<>>
  /\ ~WatchdogAt("recovering") => todo["watchdog"] = <<>>

\* Who is about to record its tunnel has one, and replaces no record of another one,
\* unless the starts of both overlapped.
RecordsApart ==
  /\ \A a \in Actors : Next1(a, "record") => notes[a].tunnel # 0
  /\ \A a \in Actors : Next1(a, "record") /\ TunnelRuns => tunnelRecord \in stray
  /\ \A a, b \in Actors :
       a # b /\ Next1(a, "record") /\ Next1(b, "record") /\ notes[a].tunnel \in tunnels => notes[a].tunnel \in stray

\* How far a stop is that works alone, of the tunnel or of the server with it.
Stop3 == <<"disarm", "terminate", "disarm">>
Stop4 == <<"disarm", "terminate", "disarm", "stopServiceOn">>
Terminate2 == <<"terminate", "disarm">>
Terminate3 == <<"terminate", "disarm", "stopServiceOn">>
Disarm1 == <<"disarm">>
Disarm2 == <<"disarm", "stopServiceOn">>
End1 == <<"stopServiceOn">>
ToStop == {Stop3, Stop4}
ToTerminate == {Terminate2, Terminate3}
ToDisarm == {Disarm1, Disarm2}
ToEnd == {End1}
AllStopped == tunnels \subseteq stray /\ ~TunnelRuns
Stopping(c) ==
  \/ todo[c] \in ToStop \cup ToTerminate
  \/ todo[c] \in ToDisarm /\ (notes[c].erred \/ AllStopped)
  \/ todo[c] \in ToEnd /\ (notes[c].erred \/ (AllStopped /\ ~wish))

StopsAlone ==
  /\ aloneStop = "underway" =>
       /\ WatchdogAt("waiting")
       /\ \E c \in Actors : Stopping(c) /\ \A o \in Actors \ {c} : ~Busy(o)
  /\ aloneStop = "done" =>
       /\ ~wish /\ AllStopped /\ \A a \in Actors : ~Busy(a)
       /\ WatchdogAt("waiting") \/ (WatchdogAt("looking") /\ ~notes["watchdog"].wish)

TunnelInv == DesktopTypeOK /\ DesktopTypes /\ IdleAtFirst /\ TunnelIsRecorded /\ RecordsApart /\ StopsAlone

\* Lists that begin anew may be put behind each other, and behind what is left of one.
LEMMA PairedConcat ==
  ASSUME NEW s \in Seq(StepNames), NEW t, Paired(s), Fresh(t)
  PROVE  /\ s \o t \in Seq(StepNames) /\ Paired(s \o t)
         /\ Fresh(s) => Fresh(s \o t)
<1>1. /\ t \in Seq(StepNames) /\ s \o t \in Seq(StepNames) /\ Len(s \o t) = Len(s) + Len(t)
      /\ \A i \in 1..Len(s) + Len(t) : (s \o t)[i] = IF i <= Len(s) THEN s[i] ELSE t[i - Len(s)]
      /\ Len(s) \in Nat /\ Len(t) \in Nat
  BY ConcatProperties, LenProperties DEF Fresh
<1> DEFINE u == s \o t
<1>2. ASSUME NEW i \in 1..Len(u), u[i] = "spawn" PROVE i < Len(u) /\ u[i + 1] = "record"
  <2>1. CASE i <= Len(s)
    <3>1. s[i] = "spawn" /\ i \in 1..Len(s)
      BY <1>1, <1>2, <2>1
    <3>2. i < Len(s) /\ s[i + 1] = "record"
      BY <3>1 DEF Paired
    <3> QED
      BY <1>1, <3>1, <3>2
  <2>2. CASE i > Len(s)
    <3>1. t[i - Len(s)] = "spawn" /\ i - Len(s) \in 1..Len(t)
      BY <1>1, <1>2, <2>2
    <3>2. i - Len(s) < Len(t) /\ t[i - Len(s) + 1] = "record"
      BY <3>1 DEF Fresh, Paired
    <3>3. u[i + 1] = t[i + 1 - Len(s)] /\ i + 1 - Len(s) = i - Len(s) + 1
      BY <1>1, <2>2, <3>1, <3>2
    <3> QED
      BY <1>1, <3>1, <3>2, <3>3
  <2>3. i <= Len(s) \/ i > Len(s)
    BY <1>1
  <2> QED
    BY <2>1, <2>2, <2>3, Zenon
<1>3. ASSUME NEW i \in 1..Len(u), u[i] = "record", i # 1 PROVE u[i - 1] = "spawn"
  <2>1. CASE i <= Len(s)
    <3>1. s[i] = "record" /\ i \in 1..Len(s)
      BY <1>1, <1>3, <2>1
    <3>2. s[i - 1] = "spawn"
      BY <1>3, <3>1 DEF Paired
    <3> QED
      BY <1>1, <1>3, <3>1, <3>2
  <2>2. CASE i > Len(s)
    <3>1. t[i - Len(s)] = "record" /\ i - Len(s) \in 1..Len(t)
      BY <1>1, <1>3, <2>2
    <3>2. i - Len(s) # 1 /\ t[i - Len(s) - 1] = "spawn"
      BY <1>1, <3>1 DEF Fresh, Paired
    <3>3. u[i - 1] = t[i - 1 - Len(s)] /\ i - 1 - Len(s) = i - Len(s) - 1
      BY <1>1, <2>2, <3>1, <3>2
    <3> QED
      BY <3>2, <3>3
  <2>3. i <= Len(s) \/ i > Len(s)
    BY <1>1
  <2> QED
    BY <2>1, <2>2, <2>3, Zenon
<1>4. Paired(u)
  BY <1>2, <1>3 DEF Paired
<1>5. ASSUME Fresh(s) PROVE Fresh(u)
  <2>1. u # <<>> => u[1] # "record"
    <3>1. u # <<>> => Len(s) + Len(t) # 0
      BY <1>1
    <3> QED
      BY <1>1, <1>5, <3>1 DEF Fresh
  <2> QED
    BY <1>1, <1>4, <2>1 DEF Fresh
<1> QED
  BY <1>1, <1>4, <1>5

\* What is left after a step: a record only after a process was spawned.
LEMMA PairedTail ==
  ASSUME NEW s \in Seq(StepNames), Paired(s), s # <<>>
  PROVE  /\ Tail(s) \in Seq(StepNames) /\ Paired(Tail(s))
         /\ Head(s) = "spawn" => Tail(s) # <<>> /\ Head(Tail(s)) = "record"
         /\ Head(s) # "spawn" => Fresh(Tail(s))
<1>1. /\ Tail(s) \in Seq(StepNames) /\ Head(s) = s[1] /\ Len(s) \in Nat \ {0} /\ Len(Tail(s)) = Len(s) - 1
      /\ \A i \in 1..Len(s) - 1 : Tail(s)[i] = s[i + 1]
  BY HeadTailProperties, LenProperties
<1> DEFINE u == Tail(s)
<1>2. ASSUME NEW i \in 1..Len(u), u[i] = "spawn" PROVE i < Len(u) /\ u[i + 1] = "record"
  <2>1. s[i + 1] = "spawn" /\ i + 1 \in 1..Len(s)
    BY <1>1, <1>2
  <2>2. i + 1 < Len(s) /\ s[i + 2] = "record"
    BY <2>1 DEF Paired
  <2> QED
    BY <1>1, <2>1, <2>2
<1>3. ASSUME NEW i \in 1..Len(u), u[i] = "record", i # 1 PROVE u[i - 1] = "spawn"
  <2>1. s[i + 1] = "record" /\ i + 1 \in 1..Len(s)
    BY <1>1, <1>3
  <2>2. s[i] = "spawn"
    BY <2>1 DEF Paired
  <2> QED
    BY <1>1, <1>3, <2>1, <2>2
<1>4. Paired(u)
  BY <1>2, <1>3 DEF Paired
<1>5. ASSUME Head(s) = "spawn" PROVE u # <<>> /\ Head(u) = "record"
  <2>1. 1 < Len(s) /\ s[2] = "record"
    BY <1>1, <1>5 DEF Paired
  <2>2. u # <<>>
    <3>1. Len(u) # 0
      BY <1>1, <2>1
    <3>2. Len(<<>>) = 0
      OBVIOUS
    <3> HIDE DEF u
    <3> QED
      BY <3>1, <3>2, Zenon
  <2> QED
    BY <1>1, <2>1, <2>2, HeadTailProperties
<1>6. ASSUME Head(s) # "spawn" PROVE Fresh(u)
  <2>1. u # <<>> => u[1] # "record"
    <3>1. ASSUME u # <<>> PROVE u[1] = s[2] /\ 2 \in 1..Len(s)
      <4>1. Len(u) # 0
        BY <1>1, <3>1, LenProperties, EmptySeq
      <4> QED
        BY <1>1, <4>1
    <3>2. 2 \in 1..Len(s) /\ s[2] = "record" => s[1] = "spawn"
      BY DEF Paired
    <3> QED
      BY <1>1, <1>6, <3>1, <3>2
  <2> QED
    BY <1>1, <1>4, <2>1 DEF Fresh
<1> QED
  BY <1>1, <1>4, <1>5, <1>6

\* The lists of the procedures.
LEMMA FreshShort ==
  /\ Fresh(<<>>)
  /\ \A x \in StepNames \ {"spawn", "record"} : Fresh(<<x>>)
  /\ \A x, y \in StepNames \ {"spawn", "record"} : Fresh(<<x, y>>)
  /\ \A x, y, z \in StepNames \ {"spawn", "record"} : Fresh(<<x, y, z>>)
<1>1. Fresh(<<>>)
  BY DEF Fresh, Paired
<1>2. ASSUME NEW x \in StepNames \ {"spawn", "record"} PROVE Fresh(<<x>>)
  BY DEF Fresh, Paired
<1>3. ASSUME NEW x \in StepNames \ {"spawn", "record"}, NEW y \in StepNames \ {"spawn", "record"} PROVE Fresh(<<x, y>>)
  BY DEF Fresh, Paired
<1>4. ASSUME NEW x \in StepNames \ {"spawn", "record"}, NEW y \in StepNames \ {"spawn", "record"},
             NEW z \in StepNames \ {"spawn", "record"}
      PROVE  Fresh(<<x, y, z>>)
  BY DEF Fresh, Paired
<1> QED
  BY <1>1, <1>2, <1>3, <1>4

LEMMA FreshStart == Fresh(StartTunnel)
<1> DEFINE five == <<"look", "service", "proxy", "spawn", "record">>
           url == IF mode = "quick" THEN <<"url", "origin">> ELSE <<>>
<1>1. Fresh(five)
  <2>1. five \in Seq(StepNames)
    BY DEF StepNames
  <2>2. Len(five) = 5 /\ five[1] = "look" /\ five[2] = "service" /\ five[3] = "proxy" /\ five[4] = "spawn" /\ five[5] = "record"
    OBVIOUS
  <2> HIDE DEF five
  <2>3. Paired(five)
    BY <2>2 DEF Paired
  <2> QED
    BY <2>1, <2>2, <2>3 DEF Fresh
<1>2. Fresh(url)
  BY FreshShort DEF StepNames
<1>3. Fresh(<<"arm">>)
  BY FreshShort DEF StepNames
<1> HIDE DEF five, url
<1>4. Fresh(url \o <<"arm">>)
  BY <1>2, <1>3, PairedConcat DEF Fresh
<1>5. Fresh(five \o (url \o <<"arm">>))
  BY <1>1, <1>4, PairedConcat DEF Fresh
<1>6. five \o (url \o <<"arm">>) = five \o url \o <<"arm">>
  BY <1>1, <1>2, <1>3, ConcatAssociative DEF Fresh
<1>7. StartTunnel = five \o url \o <<"arm">>
  BY DEF StartTunnel, five, url
<1> QED
  BY <1>5, <1>6, <1>7

LEMMA FreshStops ==
  /\ Fresh(StopTunnel) /\ Fresh(StopForRecovery)
<1>1. Fresh(StopTunnel)
  BY FreshShort DEF StopTunnel, StepNames
<1>2. Fresh(StopForRecovery)
  <2>1. StopForRecovery \in Seq(StepNames)
    BY DEF StepNames, StopForRecovery
  <2> QED
    BY <2>1 DEF Fresh, Paired, StopForRecovery
<1> QED
  BY <1>1, <1>2

LEMMA FreshWork == Fresh(StartStack) /\ Fresh(Recovery) /\ \A action : Fresh(Work(action))
<1>1. Fresh(<<"startService">>) /\ Fresh(<<"service">>) /\ Fresh(<<"stopService">>) /\ Fresh(<<"stopService", "startService">>)
      /\ Fresh(<<"stopServiceOn">>) /\ Fresh(<<"check", "start">>)
  BY FreshShort DEF StepNames
<1>2. Fresh(StartStack)
  BY <1>1, FreshStart DEF StartStack
<1>3. Fresh(StopTunnel \o <<"stopServiceOn">>)
  BY <1>1, FreshStops, PairedConcat DEF Fresh
<1>4. Fresh(StopStack)
  BY <1>1, <1>3 DEF StopStack
<1>5. Fresh(StopStack \o <<"check", "start">>)
  BY <1>1, <1>4, PairedConcat DEF Fresh
<1>6. Fresh(RestartStack)
  BY <1>1, <1>5 DEF RestartStack
<1>7. Fresh(Recovery)
  <2>1. Fresh(StopForRecovery \o <<"stopService", "startService">>)
    BY <1>1, FreshStops, PairedConcat DEF Fresh
  <2> QED
    BY <2>1, FreshStart, PairedConcat DEF Fresh, Recovery
<1>8. \A action : Fresh(Work(action))
  BY <1>2, <1>4, <1>6, FreshStart, FreshStops DEF Work
<1> QED
  BY <1>2, <1>7, <1>8

\* Who takes a step that neither spawns nor records a tunnel.
Elsewhere(a) ==
  /\ todo[a] # <<>> /\ Head(todo[a]) \notin {"spawn", "record"}
  /\ \E list : Fresh(list) /\ Instead(a, list)
  /\ \A o \in Actors : notes'[o].tunnel = notes[o].tunnel
  /\ tunnels' \subseteq tunnels /\ UNCHANGED <<made, stray>>
  /\ tunnelRecord' = tunnelRecord \/ (tunnelRecord' = 0 /\ tunnelRecord \notin tunnels')

Services ==
  [status : {"stopped", "starting", "running"}, read : [proxy : BOOLEAN, origin : 0..MaxTunnels \cup {NamedOrigin}]]
Notes == [wish : BOOLEAN, tunnel : 0..MaxTunnels, erred : BOOLEAN]
Values ==
  /\ wish' \in BOOLEAN /\ service' \in Services /\ notes' \in [Actors -> Notes]
  /\ settings' \in [proxy : BOOLEAN, origin : 0..MaxTunnels \cup {NamedOrigin}]
  /\ desktopFaults' \in 0..MaxDesktopFaults

\* The ways a step goes on.
LEMMA GoesOnFresh ==
  ASSUME DesktopTypes, NEW a \in Actors, todo[a] # <<>>, Head(todo[a]) # "spawn", GoesOn(a)
  PROVE  Fresh(Tail(todo[a])) /\ Instead(a, Tail(todo[a]))
<1>1. todo[a] \in Seq(StepNames) /\ Paired(todo[a])
  BY DEF DesktopTypes
<1>2. Fresh(Tail(todo[a]))
  BY <1>1, PairedTail
<1>3. Instead(a, Tail(todo[a]))
  BY DEF GoesOn, Instead
<1> QED
  BY <1>2, <1>3

LEMMA ErredFits ==
  ASSUME DesktopTypeOK, NEW a \in Actors, Erred(a)
  PROVE  /\ notes' \in [Actors -> Notes] /\ notes'[a].erred
         /\ \A o \in Actors : notes'[o].tunnel = notes[o].tunnel /\ notes'[o].wish = notes[o].wish
         /\ \A o \in Actors : o # a => notes'[o] = notes[o]
BY DEF DesktopTypeOK, Erred, Notes

LEMMA GivesUpFresh ==
  ASSUME DesktopTypeOK, NEW a \in Actors, GivesUp(a)
  PROVE  /\ \E list : Fresh(list) /\ Instead(a, list)
         /\ notes' \in [Actors -> Notes]
         /\ \A o \in Actors : notes'[o].tunnel = notes[o].tunnel
<1> DEFINE list == IF notes[a].tunnel # 0 /\ mode = "quick" THEN StopTunnel ELSE <<>>
<1>1. Fresh(list)
  BY FreshShort, FreshStops
<1>2. Instead(a, list) /\ Erred(a)
  BY DEF GivesUp
<1> HIDE DEF list
<1> QED
  BY <1>1, <1>2, ErredFits

LEMMA FailsFits ==
  ASSUME DesktopTypeOK, UNCHANGED desktopFaults \/ Fails
  PROVE  desktopFaults' \in 0..MaxDesktopFaults
<1>1. MaxDesktopFaults \in Nat
  BY DesktopConstants
<1>2. desktopFaults \in 0..MaxDesktopFaults
  BY DEF DesktopTypeOK
<1> QED
  BY <1>1, <1>2 DEF Fails

LEMMA NotesFit == DesktopTypeOK => notes \in [Actors -> Notes]
BY DEF DesktopTypeOK, Notes

\* The steps, one by one.
LEMMA LookElsewhere ==
  ASSUME TunnelInv, NEW a \in Actors, Look(a)
  PROVE  Elsewhere(a) /\ Values
<1>1. DesktopTypeOK /\ DesktopTypes /\ todo[a] # <<>> /\ Head(todo[a]) = "look"
      /\ UNCHANGED <<wish, tunnels, made, settings, service, stray, desktopFaults>>
  BY DEF TunnelInv, Look, Next1
<1>2. Values \/ notes' \notin [Actors -> Notes]
  BY <1>1 DEF Values, DesktopTypeOK, DesktopTypes, Services
<1>3. CASE TunnelRuns /\ Instead(a, <<"arm">>) /\ UNCHANGED <<notes, tunnelRecord>>
  <2>1. Fresh(<<"arm">>)
    BY FreshShort DEF StepNames
  <2>2. notes' \in [Actors -> Notes]
    BY <1>1, <1>3, NotesFit
  <2> QED
    BY <1>1, <1>2, <1>3, <2>1, <2>2 DEF Elsewhere
<1>4. CASE ~TunnelRuns /\ GoesOn(a) /\ notes' = [notes EXCEPT ![a].wish = wish] /\ tunnelRecord' = 0
  <2>1. \E list : Fresh(list) /\ Instead(a, list)
    BY <1>1, <1>4, GoesOnFresh
  <2>2. notes' \in [Actors -> Notes] /\ \A o \in Actors : notes'[o].tunnel = notes[o].tunnel
    BY <1>1, <1>4 DEF DesktopTypeOK, Notes
  <2> QED
    BY <1>1, <1>2, <1>4, <2>1, <2>2 DEF Elsewhere, TunnelRuns
<1> QED
  BY <1>3, <1>4 DEF Look

LEMMA EnsureServiceElsewhere ==
  ASSUME TunnelInv, NEW a \in Actors, EnsureService(a)
  PROVE  Elsewhere(a) /\ Values
<1>1. /\ DesktopTypeOK /\ DesktopTypes /\ todo[a] # <<>> /\ Head(todo[a]) = "service"
      /\ UNCHANGED <<wish, tunnels, made, tunnelRecord, settings, stray>>
  BY DEF TunnelInv, EnsureService, Next1, tunnelVars
<1>2. \/ GoesOn(a) /\ UNCHANGED notes
      \/ GivesUp(a)
  BY DEF EnsureService
<1>3. service' \in Services
  <2>1. service' \in {service, [status |-> "running", read |-> settings], [status |-> "starting", read |-> settings]}
    BY DEF EnsureService
  <2>2. settings \in [proxy : BOOLEAN, origin : 0..MaxTunnels \cup {NamedOrigin}] /\ service \in Services
    BY <1>1 DEF DesktopTypeOK, DesktopTypes, Services
  <2> QED
    BY <2>1, <2>2 DEF Services
<1>4. UNCHANGED desktopFaults \/ Fails
  BY DEF EnsureService
<1>5. /\ \E list : Fresh(list) /\ Instead(a, list)
      /\ notes' \in [Actors -> Notes] /\ \A o \in Actors : notes'[o].tunnel = notes[o].tunnel
  BY <1>1, <1>2, GoesOnFresh, GivesUpFresh, NotesFit
<1>6. desktopFaults' \in 0..MaxDesktopFaults
  BY <1>1, <1>4, FailsFits
<1>7. Values
  BY <1>1, <1>3, <1>5, <1>6 DEF Values, DesktopTypeOK
<1> QED
  BY <1>1, <1>5, <1>7 DEF Elsewhere

LEMMA WriteSettingsElsewhere ==
  ASSUME TunnelInv, NEW a \in Actors, todo[a] # <<>>, Head(todo[a]) \notin {"spawn", "record"},
         NEW next \in [proxy : BOOLEAN, origin : 0..MaxTunnels \cup {NamedOrigin}], WriteSettings(a, next)
  PROVE  Elsewhere(a) /\ Values
<1>1. /\ DesktopTypeOK /\ DesktopTypes
      /\ UNCHANGED <<wish, tunnels, made, tunnelRecord, service, stray>>
  BY DEF TunnelInv, WriteSettings, tunnelVars
<1>2. \/ GoesOn(a) /\ UNCHANGED notes
      \/ Restart(a) /\ UNCHANGED notes
      \/ GivesUp(a)
  BY DEF WriteSettings
<1>3. ASSUME Restart(a) PROVE \E list : Fresh(list) /\ Instead(a, list)
  <2>1. todo[a] \in Seq(StepNames) /\ Paired(todo[a])
    BY <1>1 DEF DesktopTypes
  <2>2. Fresh(Tail(todo[a]))
    BY <2>1, PairedTail
  <2>3. Fresh(<<"stopService", "startService">>)
    BY FreshShort DEF StepNames
  <2>4. Fresh(<<"stopService", "startService">> \o Tail(todo[a]))
    BY <2>2, <2>3, PairedConcat DEF Fresh
  <2> QED
    BY <1>3, <2>4 DEF Restart
<1>4. /\ \E list : Fresh(list) /\ Instead(a, list)
      /\ notes' \in [Actors -> Notes] /\ \A o \in Actors : notes'[o].tunnel = notes[o].tunnel
  BY <1>1, <1>2, <1>3, GoesOnFresh, GivesUpFresh, NotesFit
<1>5. settings' \in {settings, next} /\ (UNCHANGED desktopFaults \/ Fails)
  BY DEF WriteSettings
<1>6. desktopFaults' \in 0..MaxDesktopFaults
  BY <1>1, <1>5, FailsFits
<1>7. Values
  BY <1>1, <1>4, <1>5, <1>6 DEF Values, DesktopTypeOK, DesktopTypes, Services
<1> QED
  BY <1>1, <1>4, <1>7 DEF Elsewhere

LEMMA EnsureElsewhere ==
  ASSUME TunnelInv, NEW a \in Actors, EnsureProxy(a) \/ EnsureOrigin(a)
  PROVE  Elsewhere(a) /\ Values
<1>1. settings.origin \in 0..MaxTunnels \cup {NamedOrigin} /\ notes[a].tunnel \in 0..MaxTunnels
  BY DEF TunnelInv, DesktopTypeOK
<1>2. CASE EnsureProxy(a)
  <2> DEFINE next == [proxy |-> TRUE, origin |-> IF mode = "named" THEN NamedOrigin ELSE settings.origin]
  <2>1. next \in [proxy : BOOLEAN, origin : 0..MaxTunnels \cup {NamedOrigin}]
    BY <1>1
  <2>2. todo[a] # <<>> /\ Head(todo[a]) = "proxy" /\ WriteSettings(a, next)
    BY <1>2 DEF EnsureProxy, Next1
  <2> HIDE DEF next
  <2> QED
    BY <2>1, <2>2, WriteSettingsElsewhere
<1>3. CASE EnsureOrigin(a)
  <2> DEFINE next == [proxy |-> TRUE, origin |-> notes[a].tunnel]
  <2>1. next \in [proxy : BOOLEAN, origin : 0..MaxTunnels \cup {NamedOrigin}]
    BY <1>1
  <2>2. todo[a] # <<>> /\ Head(todo[a]) = "origin" /\ WriteSettings(a, next)
    BY <1>3 DEF EnsureOrigin, Next1
  <2> HIDE DEF next
  <2> QED
    BY <2>1, <2>2, WriteSettingsElsewhere
<1> QED
  BY <1>2, <1>3

LEMMA ServiceElsewhere ==
  ASSUME TunnelInv, NEW a \in Actors, StopService(a) \/ StartService(a)
  PROVE  Elsewhere(a) /\ Values
<1>1. /\ DesktopTypeOK /\ DesktopTypes /\ todo[a] # <<>>
      /\ Head(todo[a]) \in {"stopService", "stopServiceOn", "startService"}
      /\ UNCHANGED <<wish, tunnels, made, tunnelRecord, settings, stray>>
  BY DEF TunnelInv, StopService, StartService, Next1, tunnelVars
<1>2. \/ GoesOn(a) /\ UNCHANGED notes
      \/ GoesOn(a) /\ Erred(a)
      \/ GivesUp(a)
  BY DEF StopService, StartService
<1>3. service' \in Services
  <2>1. \/ service' \in {service, [service EXCEPT !.status = "stopped"]}
        \/ \E s \in {"starting", "running"} : service' = [status |-> s, read |-> settings]
    BY DEF StopService, StartService
  <2>2. settings \in [proxy : BOOLEAN, origin : 0..MaxTunnels \cup {NamedOrigin}] /\ service \in Services
    BY <1>1 DEF DesktopTypeOK, DesktopTypes, Services
  <2> QED
    BY <2>1, <2>2 DEF Services
<1>4. UNCHANGED desktopFaults \/ Fails
  BY DEF StopService, StartService
<1>5. /\ \E list : Fresh(list) /\ Instead(a, list)
      /\ notes' \in [Actors -> Notes] /\ \A o \in Actors : notes'[o].tunnel = notes[o].tunnel
  BY <1>1, <1>2, GoesOnFresh, GivesUpFresh, NotesFit, ErredFits
<1>6. desktopFaults' \in 0..MaxDesktopFaults
  BY <1>1, <1>4, FailsFits
<1>7. Values
  BY <1>1, <1>3, <1>5, <1>6 DEF Values, DesktopTypeOK
<1> QED
  BY <1>1, <1>5, <1>7 DEF Elsewhere

LEMMA TunnelElsewhere ==
  ASSUME TunnelInv, NEW a \in Actors, AwaitURL(a) \/ Arm(a) \/ Terminate1(a) \/ Check(a) \/ StartAgain(a)
  PROVE  Elsewhere(a) /\ Values
<1>1. /\ DesktopTypeOK /\ DesktopTypes /\ todo[a] # <<>>
      /\ Head(todo[a]) \in {"url", "arm", "disarm", "terminate", "check", "start"}
      /\ UNCHANGED <<made, settings, service, stray>>
  BY DEF TunnelInv, AwaitURL, Arm, Terminate1, Check, StartAgain, Next1, tunnelVars
<1>2. \/ GoesOn(a) /\ UNCHANGED notes
      \/ GoesOn(a) /\ Erred(a)
      \/ GivesUp(a)
      \/ Instead(a, <<>>) /\ UNCHANGED notes
      \/ Instead(a, StartStack) /\ UNCHANGED notes
  BY DEF AwaitURL, Arm, Terminate1, Check, StartAgain
<1>3. wish' \in BOOLEAN
  <2>1. wish \in BOOLEAN /\ notes[a].wish \in BOOLEAN
    BY <1>1 DEF DesktopTypeOK
  <2>2. CASE Arm(a)
    BY <2>1, <2>2 DEF Arm, Next1
  <2>3. CASE AwaitURL(a)
    BY <2>1, <2>3 DEF AwaitURL
  <2>4. CASE Terminate1(a) \/ Check(a) \/ StartAgain(a)
    BY <2>1, <2>4 DEF Terminate1, Check, StartAgain
  <2> QED
    BY <2>2, <2>3, <2>4
<1>4. UNCHANGED desktopFaults \/ Fails
  BY DEF AwaitURL, Arm, Terminate1, Check, StartAgain
<1>5. /\ \E list : Fresh(list) /\ Instead(a, list)
      /\ notes' \in [Actors -> Notes] /\ \A o \in Actors : notes'[o].tunnel = notes[o].tunnel
  BY <1>1, <1>2, GoesOnFresh, GivesUpFresh, NotesFit, ErredFits, FreshShort, FreshWork
<1>6. desktopFaults' \in 0..MaxDesktopFaults
  BY <1>1, <1>4, FailsFits
<1>7. Values
  BY <1>1, <1>3, <1>5, <1>6 DEF Values, DesktopTypeOK, DesktopTypes, Services
<1>8. tunnels' \subseteq tunnels /\ (tunnelRecord' = tunnelRecord \/ (tunnelRecord' = 0 /\ tunnelRecord \notin tunnels'))
  BY DEF AwaitURL, Arm, Terminate1, Check, StartAgain, tunnelVars
<1> QED
  BY <1>1, <1>5, <1>7, <1>8 DEF Elsewhere

\* What a step of an actor leaves alone, and the types of the lists it changes.
Around ==
  /\ UNCHANGED <<mode, linked, watchdog, outage, clicked, desktopDeaths>>
  /\ aloneStop' \in {"none", "underway", "done"}

LEMMA TypesAfter ==
  ASSUME TunnelInv, NEW a \in Actors, NEW list, Instead(a, list), list \in Seq(StepNames), Paired(list), todo[a] # <<>>,
         Values, Around, tunnels' \subseteq 1..made', tunnelRecord' \in 0..made', made' \in 0..MaxTunnels, made <= made',
         stray' \subseteq 1..MaxTunnels, \A o \in Actors : notes'[o].tunnel \in 0..made'
  PROVE  DesktopTypeOK' /\ DesktopTypes' /\ IdleAtFirst' /\ todo'[a] = list /\ \A o \in Actors : o # a => todo'[o] = todo[o]
<1>1. DesktopTypeOK /\ DesktopTypes /\ IdleAtFirst
  BY DEF TunnelInv
<1>2. todo'[a] = list /\ (\A o \in Actors : o # a => todo'[o] = todo[o]) /\ todo' \in [Actors -> Seq(StepNames)]
  BY <1>1 DEF DesktopTypes, Instead
<1>3. DesktopTypes'
  <2>1. \A o \in Actors : Paired(todo'[o])
    BY <1>1, <1>2 DEF DesktopTypes
  <2>2. service' \in Services /\ watchdog' = watchdog
    BY DEF Values, Around
  <2> QED
    BY <1>1, <1>2, <2>1, <2>2 DEF DesktopTypes, Services
<1>4. DesktopTypeOK'
  <2>1. \A o \in Actors : \A i \in DOMAIN todo'[o] : todo'[o][i] \in StepNames
    BY <1>2
  <2>2. 1..made' \subseteq 1..MaxTunnels /\ 0..made' \subseteq 0..MaxTunnels
    <3>1. MaxTunnels \in Nat
      BY DesktopConstants
    <3> QED
      BY <3>1
  <2>3. /\ tunnels' \cup stray' \subseteq 1..MaxTunnels /\ tunnelRecord' \in 0..MaxTunnels
        /\ {linked', wish', outage'} \subseteq BOOLEAN /\ service'.status \in {"stopped", "starting", "running"}
    BY <1>1, <2>2 DEF DesktopTypeOK, Values, Around, Services
  <2> QED
    BY <1>1, <2>1, <2>3 DEF DesktopTypeOK, Values, Around, Notes
<1>5. IdleAtFirst'
  BY <1>1, <1>2 DEF IdleAtFirst, Around, WatchdogAt, Actors
<1> QED
  BY <1>2, <1>3, <1>4, <1>5

\* What holds of the lists and records: all but what is said of stops.
RecordsHold == DesktopTypeOK /\ DesktopTypes /\ IdleAtFirst /\ TunnelIsRecorded /\ RecordsApart

LEMMA ElsewhereKeeps ==
  ASSUME TunnelInv, NEW a \in Actors, Elsewhere(a), Values, Around
  PROVE  RecordsHold'
<1>1. DesktopTypeOK /\ DesktopTypes /\ IdleAtFirst /\ TunnelIsRecorded /\ RecordsApart
  BY DEF TunnelInv
<1>2. PICK list : Fresh(list) /\ Instead(a, list)
  BY DEF Elsewhere
<1>3. DesktopTypeOK' /\ DesktopTypes' /\ IdleAtFirst' /\ todo'[a] = list /\ \A o \in Actors : o # a => todo'[o] = todo[o]
  <2>1. /\ tunnels' \subseteq 1..made' /\ tunnelRecord' \in 0..made' /\ made' \in 0..MaxTunnels /\ made <= made'
        /\ stray' \subseteq 1..MaxTunnels /\ todo[a] # <<>> /\ \A o \in Actors : notes'[o].tunnel \in 0..made'
    <3>1. made' = made /\ made \in 0..MaxTunnels /\ stray' \subseteq 1..MaxTunnels /\ todo[a] # <<>>
      BY <1>1 DEF Elsewhere, DesktopTypeOK
    <3>2. tunnels' \subseteq 1..made' /\ tunnelRecord' \in 0..made' /\ \A o \in Actors : notes'[o].tunnel \in 0..made'
      <4>1. tunnels' \subseteq 1..made'
        BY <1>1, <3>1 DEF Elsewhere, DesktopTypes
      <4>2. tunnelRecord' \in 0..made'
        <5>1. tunnelRecord \in 0..made /\ (tunnelRecord' = tunnelRecord \/ tunnelRecord' = 0)
          BY <1>1 DEF Elsewhere, DesktopTypes
        <5> QED
          BY <3>1, <5>1
      <4>3. \A o \in Actors : notes'[o].tunnel \in 0..made'
        BY <1>1, <3>1 DEF Elsewhere, DesktopTypes
      <4> QED
        BY <4>1, <4>2, <4>3
    <3> QED
      BY <3>1, <3>2
  <2> QED
    BY <1>2, <2>1, TypesAfter DEF Fresh
<1>4. ~Next1(a, "record") /\ ~Next1(a, "record")'
  BY <1>2, <1>3, HeadTailProperties DEF Elsewhere, Next1, Fresh
<1>5. \A o \in Actors : Next1(o, "record")' <=> Next1(o, "record")
  BY <1>3, <1>4 DEF Next1
<1>6. \A o \in Actors : notes'[o].tunnel = notes[o].tunnel
  BY DEF Elsewhere
<1>7. TunnelIsRecorded'
  BY <1>1, <1>5, <1>6 DEF TunnelIsRecorded, Elsewhere
<1>8. TunnelRuns' => TunnelRuns /\ tunnelRecord' = tunnelRecord
  <2>1. 0 \notin tunnels
    BY <1>1 DEF DesktopTypes
  <2> QED
    BY <2>1 DEF TunnelRuns, Elsewhere
<1>9. RecordsApart'
  BY <1>1, <1>5, <1>6, <1>8 DEF RecordsApart, Elsewhere
<1> QED
  BY <1>3, <1>7, <1>9 DEF RecordsHold

\* A tunnel is spawned: the actor records it next, and if another start is under way,
\* or a tunnel runs, all of them are astray.
LEMMA SpawnKeeps ==
  ASSUME TunnelInv, NEW a \in Actors, Spawn1(a), Around
  PROVE  RecordsHold' /\ Values
<1>1. /\ DesktopTypeOK /\ DesktopTypes /\ IdleAtFirst /\ TunnelIsRecorded /\ RecordsApart
      /\ todo[a] # <<>> /\ Head(todo[a]) = "spawn" /\ made < MaxTunnels
      /\ UNCHANGED <<wish, tunnelRecord, settings, service>>
  BY DEF TunnelInv, Spawn1, Next1
<1>2. /\ todo[a] \in Seq(StepNames) /\ Paired(todo[a]) /\ made \in 0..MaxTunnels /\ MaxTunnels \in Nat
      /\ tunnels \subseteq 1..made /\ tunnelRecord \in 0..made /\ stray \subseteq 1..MaxTunnels
      /\ notes \in [Actors -> Notes] /\ \A o \in Actors : notes[o].tunnel \in 0..made
  BY <1>1, DesktopConstants, NotesFit DEF DesktopTypes, DesktopTypeOK
<1>3. desktopFaults' \in 0..MaxDesktopFaults
  <2>1. UNCHANGED desktopFaults \/ Fails
    BY DEF Spawn1
  <2> QED
    BY <1>1, <2>1, FailsFits
<1>4. CASE Fails /\ GivesUp(a) /\ UNCHANGED <<made, tunnels, stray>>
  <2>1. PICK list : Fresh(list) /\ Instead(a, list)
    BY <1>1, <1>4, GivesUpFresh
  <2>2. notes' \in [Actors -> Notes] /\ \A o \in Actors : notes'[o].tunnel = notes[o].tunnel
    BY <1>1, <1>4, GivesUpFresh
  <2>3. Values
    BY <1>1, <1>3, <2>2 DEF Values, DesktopTypeOK, DesktopTypes, Services
  <2>4. DesktopTypeOK' /\ DesktopTypes' /\ IdleAtFirst' /\ todo'[a] = list /\ \A o \in Actors : o # a => todo'[o] = todo[o]
    <3>1. /\ tunnels' \subseteq 1..made' /\ tunnelRecord' \in 0..made' /\ made' \in 0..MaxTunnels /\ made <= made'
          /\ stray' \subseteq 1..MaxTunnels /\ \A o \in Actors : notes'[o].tunnel \in 0..made'
      BY <1>1, <1>2, <1>4, <2>2
    <3> QED
      BY <1>1, <2>1, <2>3, <3>1, TypesAfter DEF Fresh
  <2>5. ~Next1(a, "record") /\ ~Next1(a, "record")'
    BY <1>1, <2>1, <2>4, HeadTailProperties DEF Next1, Fresh
  <2>6. \A o \in Actors : Next1(o, "record")' <=> Next1(o, "record")
    BY <2>4, <2>5 DEF Next1
  <2>7. TunnelIsRecorded' /\ RecordsApart'
    BY <1>1, <1>4, <2>2, <2>6 DEF TunnelIsRecorded, RecordsApart, TunnelRuns
  <2> QED
    BY <2>3, <2>4, <2>7 DEF RecordsHold
<1>5. CASE /\ made' = made + 1 /\ tunnels' = tunnels \cup {made + 1} /\ GoesOn(a)
           /\ notes' = [notes EXCEPT ![a].tunnel = made + 1]
           /\ stray' = IF StartsToo(a) \/ TunnelRuns THEN stray \cup tunnels \cup {made + 1} ELSE stray
  <2> DEFINE list == Tail(todo[a])
  <2>1. list \in Seq(StepNames) /\ Paired(list) /\ list # <<>> /\ Head(list) = "record" /\ Instead(a, list)
    BY <1>1, <1>2, <1>5, PairedTail DEF GoesOn, Instead
  <2>2. /\ made + 1 \in 1..MaxTunnels /\ made' \in 0..MaxTunnels /\ made <= made' /\ made + 1 \notin tunnels
        /\ tunnelRecord # made + 1 /\ tunnels' \subseteq 1..made' /\ tunnelRecord' \in 0..made'
    BY <1>1, <1>2, <1>5
  <2>3. /\ notes' \in [Actors -> Notes] /\ notes'[a].tunnel = made + 1
        /\ \A o \in Actors : o # a => notes'[o] = notes[o]
    BY <1>2, <1>5, <2>2 DEF Notes
  <2>4. \A o \in Actors : notes'[o].tunnel \in 0..made'
    BY <1>2, <1>5, <2>2, <2>3
  <2>5. stray' \subseteq 1..MaxTunnels /\ stray \subseteq stray'
    BY <1>2, <1>5, <2>2
  <2>6. Values
    BY <1>1, <1>3, <2>3 DEF Values, DesktopTypeOK, DesktopTypes, Services
  <2> HIDE DEF list
  <2>7. DesktopTypeOK' /\ DesktopTypes' /\ IdleAtFirst' /\ todo'[a] = list /\ \A o \in Actors : o # a => todo'[o] = todo[o]
    BY <1>1, <2>1, <2>2, <2>4, <2>5, <2>6, TypesAfter
  <2>8. Next1(a, "record")' /\ ~Next1(a, "record") /\ \A o \in Actors : o # a => (Next1(o, "record")' <=> Next1(o, "record"))
    BY <1>1, <2>1, <2>7 DEF Next1
  <2>9. ASSUME NEW o \in Actors, o # a, Next1(o, "record") PROVE stray' = stray \cup tunnels \cup {made + 1}
    <3>1. todo[o] \in Seq(StepNames) /\ todo[o] # <<>> /\ Head(todo[o]) = "record"
      BY <1>1, <2>9 DEF DesktopTypes, Next1
    <3>2. 1 \in DOMAIN todo[o] /\ todo[o][1] = "record"
      BY <3>1, LenProperties, EmptySeq
    <3>3. StartsToo(a)
      BY <2>9, <3>2 DEF StartsToo
    <3> QED
      BY <1>5, <3>3
  <2>10. TunnelIsRecorded'
    <3> SUFFICES ASSUME NEW t \in tunnels' \ stray', tunnelRecord' # t
                 PROVE  \E o \in Actors : Next1(o, "record")' /\ notes'[o].tunnel = t
      BY DEF TunnelIsRecorded
    <3>1. CASE t = made + 1
      BY <2>3, <2>8, <3>1
    <3>2. CASE t # made + 1
      <4>1. t \in tunnels \ stray /\ tunnelRecord # t
        BY <1>1, <1>5, <2>5, <3>2
      <4>2. PICK o \in Actors : Next1(o, "record") /\ notes[o].tunnel = t
        BY <1>1, <4>1 DEF TunnelIsRecorded
      <4>3. o # a
        BY <2>8, <4>2
      <4> QED
        BY <2>3, <2>8, <4>2, <4>3
    <3> QED
      BY <3>1, <3>2
  <2>11. RecordsApart'
    <3>1. ASSUME TunnelRuns' PROVE tunnelRecord' \in stray'
      <4>1. TunnelRuns /\ tunnelRecord \in tunnels
        BY <1>1, <1>5, <2>2, <3>1 DEF TunnelRuns
      <4> QED
        BY <1>1, <1>5, <4>1
    <3>2. ASSUME NEW o \in Actors, NEW p \in Actors, o # p, Next1(o, "record")', Next1(p, "record")',
                 notes'[o].tunnel \in tunnels'
          PROVE  notes'[o].tunnel \in stray'
      <4>1. stray' = stray \cup tunnels \cup {made + 1}
        <5>1. CASE o = a
          BY <2>8, <2>9, <3>2, <5>1
        <5>2. CASE o # a
          BY <2>8, <2>9, <3>2, <5>2
        <5> QED
          BY <5>1, <5>2
      <4> QED
        BY <1>5, <3>2, <4>1
    <3>3. \A o \in Actors : Next1(o, "record")' => notes'[o].tunnel # 0
      BY <1>1, <1>2, <2>3, <2>8 DEF RecordsApart
    <3> QED
      BY <3>1, <3>2, <3>3 DEF RecordsApart
  <2> QED
    BY <2>6, <2>7, <2>10, <2>11 DEF RecordsHold
<1> QED
  BY <1>4, <1>5 DEF Spawn1

\* It is recorded, or its process ends again.
LEMMA RecordKeeps ==
  ASSUME TunnelInv, NEW a \in Actors, Record(a), Around
  PROVE  RecordsHold' /\ Values
<1>1. /\ DesktopTypeOK /\ DesktopTypes /\ IdleAtFirst /\ TunnelIsRecorded /\ RecordsApart
      /\ todo[a] # <<>> /\ Head(todo[a]) = "record" /\ Next1(a, "record")
      /\ UNCHANGED <<wish, made, settings, service, stray>>
  BY DEF TunnelInv, Record, Next1
<1>2. /\ made \in 0..MaxTunnels /\ tunnels \subseteq 1..made /\ tunnelRecord \in 0..made /\ stray \subseteq 1..MaxTunnels
      /\ notes \in [Actors -> Notes] /\ \A o \in Actors : notes[o].tunnel \in 0..made
  BY <1>1, NotesFit DEF DesktopTypes, DesktopTypeOK
<1>3. desktopFaults' \in 0..MaxDesktopFaults
  <2>1. UNCHANGED desktopFaults \/ Fails
    BY DEF Record
  <2> QED
    BY <1>1, <2>1, FailsFits
<1>4. PICK list : Fresh(list) /\ Instead(a, list)
  BY <1>1, GoesOnFresh, FreshShort DEF Record
<1>5. /\ notes' \in [Actors -> Notes] /\ \A o \in Actors : notes'[o].tunnel = notes[o].tunnel
  BY <1>1, <1>2, ErredFits DEF Record
<1>6. Values
  BY <1>1, <1>3, <1>5 DEF Values, DesktopTypeOK, DesktopTypes, Services
<1>7. \/ tunnelRecord' = notes[a].tunnel /\ UNCHANGED tunnels
      \/ tunnels' = tunnels \ {notes[a].tunnel} /\ UNCHANGED tunnelRecord
  BY DEF Record
<1>8. DesktopTypeOK' /\ DesktopTypes' /\ IdleAtFirst' /\ todo'[a] = list /\ \A o \in Actors : o # a => todo'[o] = todo[o]
  <2>1. /\ tunnels' \subseteq 1..made' /\ tunnelRecord' \in 0..made' /\ made' \in 0..MaxTunnels /\ made <= made'
        /\ stray' \subseteq 1..MaxTunnels /\ \A o \in Actors : notes'[o].tunnel \in 0..made'
    <3>1. made' = made /\ stray' = stray
      BY <1>1
    <3>2. tunnels' \subseteq 1..made' /\ tunnelRecord' \in 0..made'
      BY <1>2, <1>7, <3>1
    <3>3. \A o \in Actors : notes'[o].tunnel \in 0..made'
      BY <1>2, <1>5, <3>1
    <3> QED
      BY <1>2, <3>1, <3>2, <3>3
  <2> QED
    BY <1>1, <1>4, <1>6, <2>1, TypesAfter DEF Fresh
<1>9. ~Next1(a, "record")' /\ \A o \in Actors : o # a => (Next1(o, "record")' <=> Next1(o, "record"))
  BY <1>4, <1>8, HeadTailProperties DEF Next1, Fresh
<1>10. TunnelIsRecorded'
  <2> SUFFICES ASSUME NEW t \in tunnels' \ stray', tunnelRecord' # t
               PROVE  \E o \in Actors : Next1(o, "record")' /\ notes'[o].tunnel = t
    BY DEF TunnelIsRecorded
  <2>1. t \in tunnels \ stray /\ t # notes[a].tunnel
    BY <1>1, <1>7
  <2>2. t # tunnelRecord
    BY <1>1, <1>7, <2>1 DEF RecordsApart, TunnelRuns
  <2>3. PICK o \in Actors : Next1(o, "record") /\ notes[o].tunnel = t
    BY <1>1, <2>1, <2>2 DEF TunnelIsRecorded
  <2> QED
    BY <1>5, <1>9, <2>1, <2>3
<1>11. RecordsApart'
  <2>1. ASSUME NEW o \in Actors, Next1(o, "record")', TunnelRuns' PROVE tunnelRecord' \in stray'
    <3>1. o # a /\ Next1(o, "record")
      BY <1>9, <2>1
    <3> QED
      BY <1>1, <1>7, <2>1, <3>1 DEF RecordsApart, TunnelRuns
  <2>2. ASSUME NEW o \in Actors, NEW p \in Actors, o # p, Next1(o, "record")', Next1(p, "record")',
               notes'[o].tunnel \in tunnels'
        PROVE  notes'[o].tunnel \in stray'
    BY <1>1, <1>5, <1>7, <1>9, <2>2 DEF RecordsApart
  <2>3. \A o \in Actors : Next1(o, "record")' => notes'[o].tunnel # 0
    BY <1>1, <1>5, <1>9 DEF RecordsApart
  <2> QED
    BY <2>1, <2>2, <2>3 DEF RecordsApart
<1> QED
  BY <1>6, <1>8, <1>10, <1>11 DEF RecordsHold

\* The lists of a stop that works alone.
LEMMA StopLists ==
  /\ \A list \in ToStop : list # <<>> /\ Head(list) = "disarm" /\ Tail(list) \in ToTerminate
  /\ \A list \in ToTerminate : list # <<>> /\ Head(list) = "terminate" /\ Tail(list) \in ToDisarm
  /\ \A list \in ToDisarm : list # <<>> /\ Head(list) = "disarm" /\ Tail(list) \in ToEnd \cup {<<>>}
  /\ \A list \in ToEnd : list # <<>> /\ Head(list) = "stopServiceOn" /\ Tail(list) = <<>>
  /\ ToStop \cap ToDisarm = {}
<1>1. Stop3 # <<>> /\ Head(Stop3) = "disarm" /\ Tail(Stop3) = Terminate2
  BY DEF Stop3, Terminate2
<1>2. Stop4 # <<>> /\ Head(Stop4) = "disarm" /\ Tail(Stop4) = Terminate3
  BY DEF Stop4, Terminate3
<1>3. Terminate2 # <<>> /\ Head(Terminate2) = "terminate" /\ Tail(Terminate2) = Disarm1
  BY DEF Terminate2, Disarm1
<1>4. Terminate3 # <<>> /\ Head(Terminate3) = "terminate" /\ Tail(Terminate3) = Disarm2
  BY DEF Terminate3, Disarm2
<1>5. Disarm1 # <<>> /\ Head(Disarm1) = "disarm" /\ Tail(Disarm1) = <<>>
  BY DEF Disarm1
<1>6. Disarm2 # <<>> /\ Head(Disarm2) = "disarm" /\ Tail(Disarm2) = End1
  BY DEF Disarm2, End1
<1>7. End1 # <<>> /\ Head(End1) = "stopServiceOn" /\ Tail(End1) = <<>>
  BY DEF End1
<1>8. ToStop \cap ToDisarm = {}
  <2>1. Len(Stop3) = 3 /\ Len(Stop4) = 4 /\ Len(Disarm1) = 1 /\ Len(Disarm2) = 2
    BY DEF Stop3, Stop4, Disarm1, Disarm2
  <2> QED
    BY <2>1 DEF ToStop, ToDisarm
<1> QED
  BY <1>1, <1>2, <1>3, <1>4, <1>5, <1>6, <1>7, <1>8 DEF ToStop, ToTerminate, ToDisarm, ToEnd

LEMMA StopBegins ==
  ASSUME NEW action, Stops(action)
  PROVE  Work(action) \in ToStop
<1>1. Work(action) = StopTunnel \/ Work(action) = StopTunnel \o <<"stopServiceOn">>
  BY DEF Stops, Work, StopStack
<1>2. Stop3 \o End1 = Stop4
  <2> DEFINE T == {"disarm", "terminate", "stopServiceOn"}
  <2>1. Stop3 \in Seq(T) /\ Len(Stop3) = 3
    BY DEF Stop3
  <2>2. End1 \in Seq(T) /\ Len(End1) = 1
    BY DEF End1
  <2>3. Stop4 \in Seq(T) /\ Len(Stop4) = 4
    BY DEF Stop4
  <2>4. /\ Stop3 \o End1 \in Seq(T) /\ Len(Stop3 \o End1) = 4
        /\ \A i \in 1..4 : (Stop3 \o End1)[i] = IF i <= 3 THEN Stop3[i] ELSE End1[i - 3]
    <3>1. /\ Stop3 \o End1 \in Seq(T) /\ Len(Stop3 \o End1) = Len(Stop3) + Len(End1)
          /\ \A i \in 1..Len(Stop3) + Len(End1) :
               (Stop3 \o End1)[i] = IF i <= Len(Stop3) THEN Stop3[i] ELSE End1[i - Len(Stop3)]
      BY <2>1, <2>2, ConcatProperties, Zenon
    <3> QED
      BY <2>1, <2>2, <3>1
  <2>5. \A i \in 1..4 : (Stop3 \o End1)[i] = Stop4[i]
    BY <2>4 DEF Stop3, Stop4, End1
  <2> QED
    BY <2>3, <2>4, <2>5, SeqEqual
<1>3. StopTunnel = Stop3 /\ <<"stopServiceOn">> = End1
  BY DEF StopTunnel, Stop3, End1
<1> QED
  BY <1>1, <1>2, <1>3 DEF ToStop

\* A step of a stop that works alone.
LEMMA StopGoesOn ==
  ASSUME TunnelInv, NEW a \in Actors, Stopping(a), Takes(a), \A o \in Actors \ {a} : ~Busy(o)
  PROVE  \/ todo'[a] # <<>> /\ Stopping(a)' /\ \A o \in Actors \ {a} : ~Busy(o)'
         \/ todo'[a] = <<>> /\ (notes'[a].erred \/ (AllStopped' /\ ~wish')) /\ \A o \in Actors \ {a} : ~Busy(o)'
<1>1. DesktopTypeOK /\ DesktopTypes /\ TunnelIsRecorded
  BY DEF TunnelInv
<1>2. Head(todo[a]) \in {"disarm", "terminate", "stopServiceOn"} /\ todo[a] # <<>>
  BY StopLists DEF Stopping
<1>3. Arm(a) \/ Terminate1(a) \/ StopService(a)
  BY <1>2 DEF Takes, Look, EnsureService, EnsureProxy, EnsureOrigin, StartService, Spawn1, Record, AwaitURL, Check,
     StartAgain, Next1
<1>4. GoesOn(a) /\ todo'[a] = Tail(todo[a]) /\ \A o \in Actors \ {a} : todo'[o] = todo[o] /\ ~Busy(o)'
  <2>1. GoesOn(a)
    BY <1>2, <1>3 DEF Arm, Terminate1, StopService, Next1
  <2> QED
    BY <1>1, <2>1 DEF GoesOn, DesktopTypes, Busy
<1>5. notes[a].erred => notes'[a].erred
  <2>1. UNCHANGED notes \/ Erred(a)
    BY <1>2, <1>3 DEF Arm, Terminate1, StopService, Next1
  <2> QED
    BY <1>1, <2>1, ErredFits
<1>6. CASE todo[a] \in ToTerminate
  <2>1. Terminate1(a) /\ todo'[a] \in ToDisarm /\ todo'[a] # <<>>
    BY <1>3, <1>4, <1>6, StopLists DEF Arm, StopService, Next1
  <2>2. notes'[a].erred \/ AllStopped'
    <3>1. tunnels \subseteq stray \cup {tunnelRecord}
      BY <1>6, StopLists DEF TunnelInv, TunnelIsRecorded, Next1, Busy
    <3>2. 0 \notin tunnels
      BY <1>1 DEF DesktopTypes
    <3>3. CASE tunnels' = tunnels \ {tunnelRecord} /\ tunnelRecord' = 0
      BY <2>1, <3>1, <3>2, <3>3 DEF Terminate1, AllStopped, TunnelRuns
    <3>4. CASE Erred(a)
      BY <1>1, <3>4, ErredFits
    <3> QED
      BY <2>1, <3>3, <3>4 DEF Terminate1
  <2> QED
    BY <1>4, <2>1, <2>2 DEF Stopping
<1>7. CASE todo[a] \in ToStop \cup ToDisarm
  <2>1. Arm(a) /\ Head(todo[a]) = "disarm"
    BY <1>3, <1>7, StopLists DEF Terminate1, StopService, Next1
  <2>2. UNCHANGED <<tunnels, tunnelRecord, stray>> /\ (notes'[a].erred \/ ~wish')
    <3>1. UNCHANGED <<tunnels, tunnelRecord, stray>> /\ (~wish' \/ Erred(a))
      BY <2>1 DEF Arm, tunnelVars, Next1
    <3> QED
      BY <1>1, <3>1, ErredFits
  <2>3. CASE todo[a] \in ToStop
    <3>1. todo'[a] \in ToTerminate /\ todo'[a] # <<>>
      BY <1>4, <2>3, StopLists
    <3> QED
      BY <1>4, <3>1 DEF Stopping
  <2>4. CASE todo[a] \in ToDisarm
    <3>1. todo'[a] \in ToEnd \/ todo'[a] = <<>>
      BY <1>4, <2>4, StopLists
    <3>2. notes[a].erred \/ AllStopped
      BY <2>4, StopLists DEF Stopping
    <3>3. notes'[a].erred \/ (AllStopped' /\ ~wish')
      BY <1>5, <2>2, <3>2 DEF AllStopped, TunnelRuns
    <3> QED
      BY <1>4, <3>1, <3>3, StopLists DEF Stopping
  <2> QED
    BY <1>7, <2>3, <2>4
<1>8. CASE todo[a] \in ToEnd
  <2>1. StopService(a) /\ todo'[a] = <<>>
    BY <1>3, <1>4, <1>8, StopLists DEF Arm, Terminate1, Next1
  <2>2. notes[a].erred \/ (AllStopped /\ ~wish)
    BY <1>8, StopLists DEF Stopping
  <2>3. UNCHANGED <<wish, tunnels, tunnelRecord, stray>>
    BY <2>1 DEF StopService, tunnelVars
  <2> QED
    BY <1>4, <1>5, <2>1, <2>2, <2>3 DEF AllStopped, TunnelRuns
<1> QED
  BY <1>6, <1>7, <1>8 DEF Stopping

\* Every step of an actor is one of these.
LEMMA TakesKeeps ==
  ASSUME TunnelInv, NEW a \in Actors, Takes(a), Around
  PROVE  RecordsHold' /\ Busy(a)
<1>1. CASE Spawn1(a)
  BY <1>1, SpawnKeeps DEF Spawn1, Next1, Busy
<1>2. CASE Record(a)
  BY <1>2, RecordKeeps DEF Record, Next1, Busy
<1>3. CASE Look(a) \/ EnsureService(a) \/ EnsureProxy(a) \/ EnsureOrigin(a) \/ StopService(a) \/ StartService(a)
           \/ AwaitURL(a) \/ Arm(a) \/ Terminate1(a) \/ Check(a) \/ StartAgain(a)
  <2>1. Elsewhere(a) /\ Values
    BY <1>3, LookElsewhere, EnsureServiceElsewhere, EnsureElsewhere, ServiceElsewhere, TunnelElsewhere
  <2> QED
    BY <2>1, ElsewhereKeeps DEF Elsewhere, Busy
<1> QED
  BY <1>1, <1>2, <1>3 DEF Takes

LEMMA StepKeeps ==
  ASSUME TunnelInv, NEW a \in Actors, Step(a)
  PROVE  TunnelInv'
<1>1. /\ Takes(a) /\ UNCHANGED <<confVars, watchdog, outage, clicked, desktopDeaths>>
      /\ aloneStop' = IF aloneStop = "underway" /\ todo'[a] = <<>>
                      THEN (IF notes'[a].erred THEN "none" ELSE "done") ELSE aloneStop
      /\ DesktopTypeOK /\ StopsAlone
  BY DEF Step, TunnelInv
<1>2. Around
  BY <1>1 DEF Around, confVars, DesktopTypeOK
<1>3. RecordsHold' /\ Busy(a)
  BY <1>1, <1>2, TakesKeeps
<1>4. CASE aloneStop = "none"
  BY <1>1, <1>3, <1>4 DEF StopsAlone, TunnelInv, RecordsHold
<1>5. CASE aloneStop = "underway"
  <2>1. Stopping(a) /\ (\A o \in Actors \ {a} : ~Busy(o)) /\ WatchdogAt("waiting")
    BY <1>1, <1>3, <1>5 DEF StopsAlone
  <2>2. WatchdogAt("waiting")'
    BY <1>1, <2>1 DEF WatchdogAt
  <2>3. \/ todo'[a] # <<>> /\ Stopping(a)' /\ \A o \in Actors \ {a} : ~Busy(o)'
        \/ todo'[a] = <<>> /\ (notes'[a].erred \/ (AllStopped' /\ ~wish')) /\ \A o \in Actors \ {a} : ~Busy(o)'
    BY <1>1, <2>1, StopGoesOn
  <2>4. CASE todo'[a] # <<>> /\ Stopping(a)' /\ \A o \in Actors \ {a} : ~Busy(o)'
    <3>1. aloneStop' = "underway"
      BY <1>1, <1>5, <2>4
    <3> QED
      BY <1>3, <2>2, <2>4, <3>1 DEF StopsAlone, TunnelInv, RecordsHold
  <2>5. CASE todo'[a] = <<>> /\ (notes'[a].erred \/ (AllStopped' /\ ~wish')) /\ \A o \in Actors \ {a} : ~Busy(o)'
    <3>1. aloneStop' = "none" \/ (aloneStop' = "done" /\ AllStopped' /\ ~wish')
      BY <1>1, <1>5, <2>5
    <3>2. \A o \in Actors : ~Busy(o)'
      BY <2>5 DEF Busy
    <3> QED
      BY <1>3, <2>2, <3>1, <3>2 DEF StopsAlone, TunnelInv, RecordsHold
  <2> QED
    BY <2>3, <2>4, <2>5
<1>6. CASE aloneStop = "done"
  BY <1>1, <1>3, <1>6 DEF StopsAlone
<1> QED
  BY <1>1, <1>4, <1>5, <1>6 DEF DesktopTypeOK

\* Where nobody begins or ends a record, tunnels may end and go astray.
LEMMA RecordsKept ==
  ASSUME TunnelInv, \A o \in Actors : Next1(o, "record")' <=> Next1(o, "record"),
         \A o \in Actors : Next1(o, "record") => notes'[o].tunnel = notes[o].tunnel,
         tunnels' \subseteq tunnels, stray' = stray,
         tunnelRecord' = tunnelRecord \/ (tunnelRecord' = 0 /\ tunnelRecord \notin tunnels')
  PROVE  TunnelIsRecorded' /\ RecordsApart'
<1>1. DesktopTypes /\ TunnelIsRecorded /\ RecordsApart
  BY DEF TunnelInv
<1>2. TunnelIsRecorded'
  BY <1>1 DEF TunnelIsRecorded
<1>3. TunnelRuns' => TunnelRuns /\ tunnelRecord' = tunnelRecord
  <2>1. 0 \notin tunnels
    BY <1>1 DEF DesktopTypes
  <2> QED
    BY <2>1 DEF TunnelRuns
<1>4. RecordsApart'
  BY <1>1, <1>3 DEF RecordsApart
<1> QED
  BY <1>2, <1>4

LEMMA ClickKeeps ==
  ASSUME TunnelInv, NEW c \in Clicks, NEW action \in Actions, Click(c, action)
  PROVE  TunnelInv'
<1>1. /\ DesktopTypeOK /\ DesktopTypes /\ IdleAtFirst /\ TunnelIsRecorded /\ RecordsApart /\ StopsAlone
      /\ c \in Actors /\ c # "watchdog" /\ todo[c] = <<>>
      /\ clicked' = [clicked EXCEPT ![c] = action] /\ Instead(c, Work(action))
      /\ UNCHANGED <<mode, linked, wish, tunnels, made, tunnelRecord, settings, service, notes, watchdog, outage, stray,
                     desktopFaults, desktopDeaths>>
  BY DesktopConstants DEF TunnelInv, Click, IdleAtFirst, Actors, confVars, tunnelVars, desktopBounds
<1>2. Fresh(Work(action)) /\ todo' \in [Actors -> Seq(StepNames)] /\ todo'[c] = Work(action)
      /\ \A o \in Actors : o # c => todo'[o] = todo[o]
  BY <1>1, FreshWork DEF Instead, DesktopTypes, Fresh
<1>3. DesktopTypes'
  BY <1>1, <1>2 DEF DesktopTypes, Fresh
<1>4. aloneStop' = IF Stops(action) /\ WatchdogAt("waiting") /\ \A o \in Actors : ~Busy(o) THEN "underway" ELSE "none"
  BY DEF Click
<1>5. DesktopTypeOK'
  <2>1. \A o \in Actors : \A i \in DOMAIN todo'[o] : todo'[o][i] \in StepNames
    BY <1>2
  <2>2. clicked' \in [Clicks -> Actions \cup {"none"}] /\ aloneStop' \in {"none", "underway", "done"}
    BY <1>1, <1>4 DEF DesktopTypeOK
  <2> QED
    BY <1>1, <2>1, <2>2 DEF DesktopTypeOK
<1>6. IdleAtFirst'
  <2>1. action # "none"
    BY DesktopConstants
  <2>2. \A d \in Clicks : clicked'[d] = "none" => d # c /\ clicked[d] = "none"
    BY <1>1, <2>1 DEF DesktopTypeOK
  <2> QED
    BY <1>1, <1>2, <2>2 DEF IdleAtFirst, WatchdogAt, Actors
<1>7. TunnelIsRecorded' /\ RecordsApart'
  <2>1. ~Next1(c, "record") /\ ~Next1(c, "record")'
    BY <1>1, <1>2, HeadTailProperties DEF Next1, Fresh
  <2>2. \A o \in Actors : Next1(o, "record")' <=> Next1(o, "record")
    BY <1>2, <2>1 DEF Next1
  <2> QED
    BY <1>1, <2>2, RecordsKept
<1>8. StopsAlone'
  <2>1. CASE Stops(action) /\ WatchdogAt("waiting") /\ \A o \in Actors : ~Busy(o)
    <3>1. aloneStop' = "underway" /\ WatchdogAt("waiting")'
      BY <1>1, <1>4, <2>1 DEF WatchdogAt
    <3>2. Stopping(c)'
      BY <1>2, <2>1, StopBegins DEF Stopping
    <3>3. \A o \in Actors \ {c} : ~Busy(o)'
      BY <1>2, <2>1 DEF Busy
    <3> QED
      BY <1>1, <3>1, <3>2, <3>3 DEF StopsAlone
  <2>2. CASE aloneStop' = "none"
    BY <2>2 DEF StopsAlone
  <2> QED
    BY <1>4, <2>1, <2>2
<1> QED
  BY <1>3, <1>5, <1>6, <1>7, <1>8 DEF TunnelInv

\* A recovery is over when nothing of it is left.
LEMMA RecoveryEnds ==
  ASSUME DesktopTypes, IdleAtFirst, Tick \/ Adopt \/ Probe \/ Recovered \/ CoolsDown, ~WatchdogAt("recovering")'
  PROVE  todo["watchdog"] = <<>>
<1>1. CASE WatchdogAt("recovering")
  <2>1. ~Tick /\ ~Adopt /\ ~Probe
    BY <1>1 DEF Tick, Adopt, Probe, WatchdogAt
  <2>2. CoolsDown => watchdog'.step = "recovering"
    BY <1>1 DEF CoolsDown, WatchdogAt, DesktopTypes
  <2> QED
    BY <2>1, <2>2 DEF Recovered, WatchdogAt, Busy
<1> QED
  BY <1>1 DEF IdleAtFirst

\* The watchdog, as long as it does not recover.
LEMMA WatchdogKeeps ==
  ASSUME TunnelInv, Tick \/ Adopt \/ Probe \/ Recovered \/ CoolsDown
  PROVE  TunnelInv'
<1>1. /\ DesktopTypeOK /\ DesktopTypes /\ IdleAtFirst /\ TunnelIsRecorded /\ RecordsApart /\ StopsAlone
      /\ UNCHANGED <<mode, linked, tunnels, made, settings, service, todo, outage, clicked, stray,
                     desktopFaults, desktopDeaths>>
  BY DEF TunnelInv, Tick, Adopt, Probe, Recovered, CoolsDown, confVars, tunnelVars, userVars, desktopBounds
<1>2. "watchdog" \in Actors /\ watchdog.step \in {"waiting", "looking", "probing", "deciding", "recovering"}
      /\ watchdog.failures \in 0..2 /\ watchdog.cooling \in BOOLEAN
  BY <1>1 DEF Actors, DesktopTypes
<1>3. watchdog' \in [step : {"waiting", "looking", "probing", "deciding", "recovering"}, failures : 0..2, cooling : BOOLEAN]
      /\ (watchdog'.step = "recovering" => watchdog.step = "recovering")
  <2>1. CASE \E step \in {"waiting", "looking", "probing", "deciding"}, failures \in 0..2 : WatchdogGoes(step, failures)
    BY <1>1, <2>1 DEF WatchdogGoes, DesktopTypes
  <2>2. CASE CoolsDown
    BY <1>1, <2>2 DEF CoolsDown, DesktopTypes
  <2>3. CASE Tick
    <3>1. WatchdogGoes("looking", watchdog.failures)
      BY <2>3 DEF Tick
    <3> QED
      BY <1>2, <2>1, <3>1
  <2>4. CASE Adopt
    <3>1. WatchdogGoes("probing", watchdog.failures) \/ WatchdogGoes("waiting", 0)
      BY <2>4 DEF Adopt
    <3> QED
      BY <1>2, <2>1, <3>1
  <2>5. CASE Probe
    <3>1. \/ WatchdogGoes("waiting", 0) \/ WatchdogGoes("waiting", 2) \/ WatchdogGoes("deciding", 2)
          \/ watchdog.failures < 1 /\ WatchdogGoes("waiting", watchdog.failures + 1)
      BY <2>5 DEF Probe
    <3>2. watchdog.failures < 1 => watchdog.failures + 1 \in 0..2
      BY <1>2
    <3> QED
      BY <2>1, <3>1, <3>2
  <2>6. CASE Recovered
    <3>1. WatchdogGoes("waiting", 2) \/ WatchdogGoes("waiting", 0)
      BY <2>6 DEF Recovered
    <3> QED
      BY <2>1, <3>1
  <2> QED
    BY <2>2, <2>3, <2>4, <2>5, <2>6
<1>4. /\ notes' \in [Actors -> Notes] /\ (Tick \/ UNCHANGED notes)
      /\ \A o \in Actors : o = "watchdog" \/ notes'[o] = notes[o]
      /\ \A o \in Actors : notes'[o].tunnel \in 0..made
  <2>1. CASE Tick
    <3>1. notes' = [notes EXCEPT !["watchdog"] = [NoNotes EXCEPT !.wish = wish]] /\ wish \in BOOLEAN /\ notes \in [Actors -> Notes]
          /\ made \in 0..MaxTunnels /\ \A o \in Actors : notes[o].tunnel \in 0..made
      BY <1>1, <2>1, NotesFit DEF Tick, DesktopTypeOK, DesktopTypes
    <3>2. [NoNotes EXCEPT !.wish = wish] \in Notes /\ [NoNotes EXCEPT !.wish = wish].tunnel = 0
      <4>1. 0 \in 0..MaxTunnels
        <5>1. MaxTunnels \in Nat
          BY DesktopConstants
        <5> QED
          BY <5>1
      <4>2. NoNotes \in [wish : BOOLEAN, tunnel : {0}, erred : BOOLEAN]
        BY DEF NoNotes
      <4>3. [NoNotes EXCEPT !.wish = wish] \in [wish : BOOLEAN, tunnel : {0}, erred : BOOLEAN]
        BY <3>1, <4>2
      <4> QED
        BY <4>1, <4>3 DEF Notes
    <3> QED
      BY <1>2, <2>1, <3>1, <3>2
  <2>2. CASE ~Tick
    <3>1. UNCHANGED notes
      BY <2>2 DEF Adopt, Probe, Recovered, CoolsDown
    <3> QED
      BY <1>1, <3>1, NotesFit DEF DesktopTypes
  <2> QED
    BY <2>1, <2>2
<1>5. wish' \in BOOLEAN /\ tunnelRecord' \in 0..made
      /\ (tunnelRecord' = tunnelRecord \/ (tunnelRecord' = 0 /\ tunnelRecord \notin tunnels'))
  <2>1. wish \in BOOLEAN /\ made \in 0..MaxTunnels /\ tunnelRecord \in 0..made
    BY <1>1 DEF DesktopTypeOK, DesktopTypes
  <2>2. wish' \in BOOLEAN
    BY <2>1, Zenon DEF Tick, Adopt, Probe, Recovered, CoolsDown
  <2>3. tunnelRecord' = tunnelRecord \/ (tunnelRecord' = 0 /\ ~TunnelRuns)
    BY DEF Tick, Adopt, Probe, Recovered, CoolsDown, tunnelVars
  <2> QED
    BY <1>1, <2>1, <2>2, <2>3 DEF TunnelRuns
<1>6. aloneStop' \in {"none", "underway", "done"}
  BY <1>1 DEF Tick, Adopt, Probe, Recovered, CoolsDown, userVars, DesktopTypeOK
<1>7. DesktopTypes'
  BY <1>1, <1>3, <1>4, <1>5 DEF DesktopTypes
<1>8. DesktopTypeOK'
  <2>1. 0..made \subseteq 0..MaxTunnels
    <3>1. made \in 0..MaxTunnels /\ MaxTunnels \in Nat
      BY <1>1, DesktopConstants DEF DesktopTypeOK
    <3> QED
      BY <3>1
  <2>2. tunnelRecord' \in 0..MaxTunnels /\ watchdog'.step \in {"waiting", "looking", "probing", "deciding", "recovering"}
        /\ watchdog'.failures \in 0..2 /\ {linked', wish', outage'} \subseteq BOOLEAN
    BY <1>1, <1>3, <1>5, <2>1 DEF DesktopTypeOK
  <2> QED
    BY <1>1, <1>4, <1>6, <2>2 DEF DesktopTypeOK, Notes
<1>9. IdleAtFirst'
  <2>1. ~WatchdogAt("recovering")' => todo'["watchdog"] = <<>>
    BY <1>1, <1>2, <1>3, RecoveryEnds DEF IdleAtFirst
  <2> QED
    BY <1>1, <2>1 DEF IdleAtFirst
<1>10. TunnelIsRecorded' /\ RecordsApart'
  <2>1. \A o \in Actors : Next1(o, "record")' <=> Next1(o, "record")
    BY <1>1 DEF Next1
  <2>2. \A o \in Actors : Next1(o, "record") => notes'[o].tunnel = notes[o].tunnel
    <3>1. Tick => ~Next1("watchdog", "record")
      BY <1>1 DEF Tick, IdleAtFirst, WatchdogAt, Next1
    <3> QED
      BY <1>4, <3>1
  <2> QED
    BY <1>1, <1>5, <2>1, <2>2, RecordsKept
<1>11. StopsAlone'
  <2>1. CASE aloneStop' = "none"
    BY <2>1 DEF StopsAlone
  <2>2. CASE aloneStop' # "none" /\ aloneStop = "underway"
    <3>1. CoolsDown
      BY <1>1, <2>2 DEF StopsAlone, Tick, Adopt, Probe, Recovered, WatchdogAt, userVars
    <3>2. UNCHANGED <<notes, wish, tunnels, tunnelRecord, stray, todo, aloneStop>> /\ watchdog'.step = watchdog.step
      BY <1>1, <3>1 DEF CoolsDown, tunnelVars, userVars, DesktopTypes
    <3> QED
      BY <1>1, <2>2, <3>2 DEF StopsAlone, Stopping, AllStopped, TunnelRuns, WatchdogAt, Busy
  <2>3. CASE aloneStop' # "none" /\ aloneStop = "done"
    <3>1. ~wish /\ AllStopped /\ (\A a \in Actors : ~Busy(a))
          /\ (WatchdogAt("waiting") \/ (WatchdogAt("looking") /\ ~notes["watchdog"].wish))
      BY <1>1, <2>3 DEF StopsAlone
    <3>2. AllStopped' /\ \A a \in Actors : ~Busy(a)'
      <4>1. 0 \notin tunnels
        BY <1>1 DEF DesktopTypes
      <4> QED
        BY <1>1, <1>5, <3>1, <4>1 DEF AllStopped, TunnelRuns, Busy
    <3>3. ~wish' /\ (WatchdogAt("waiting")' \/ (WatchdogAt("looking")' /\ ~notes'["watchdog"].wish))
      <4>1. CASE Tick
        <5>1. /\ watchdog' = [watchdog EXCEPT !.step = "looking", !.failures = watchdog.failures]
              /\ notes' = [notes EXCEPT !["watchdog"] = [NoNotes EXCEPT !.wish = wish]] /\ UNCHANGED wish
          BY <4>1 DEF Tick, WatchdogGoes
        <5>2. watchdog'.step = "looking"
          BY <1>1, <5>1 DEF DesktopTypes
        <5>3. notes'["watchdog"].wish = wish
          BY <1>1, <1>2, <5>1, NotesFit DEF NoNotes, Notes
        <5> QED
          BY <3>1, <5>1, <5>2, <5>3 DEF WatchdogAt
      <4>2. CASE Adopt
        <5>1. ~TunnelRuns /\ WatchdogAt("looking") /\ ~notes["watchdog"].wish
          BY <3>1, <4>2 DEF Adopt, WatchdogAt, AllStopped
        <5>2. WatchdogGoes("waiting", 0) /\ ~wish'
          BY <3>1, <4>2, <5>1, Zenon DEF Adopt
        <5>3. watchdog'.step = "waiting"
          BY <1>1, <5>2 DEF WatchdogGoes, DesktopTypes
        <5> QED
          BY <5>2, <5>3 DEF WatchdogAt
      <4>3. CASE CoolsDown
        <5>1. UNCHANGED <<notes, wish>> /\ watchdog'.step = watchdog.step
          BY <1>1, <4>3 DEF CoolsDown, DesktopTypes
        <5> QED
          BY <3>1, <5>1 DEF WatchdogAt
      <4>4. ~Probe /\ ~Recovered
        BY <3>1 DEF Probe, Recovered, WatchdogAt
      <4> QED
        BY <4>1, <4>2, <4>3, <4>4
    <3>4. aloneStop' = "done"
      BY <2>3 DEF Tick, Adopt, Probe, Recovered, CoolsDown, userVars
    <3> QED
      BY <2>3, <3>2, <3>3, <3>4 DEF StopsAlone
  <2>4. aloneStop' # "none" => aloneStop # "none"
    BY DEF Tick, Adopt, Probe, Recovered, CoolsDown, userVars
  <2>5. aloneStop \in {"none", "underway", "done"}
    BY <1>1 DEF DesktopTypeOK
  <2> QED
    BY <2>1, <2>2, <2>3, <2>4, <2>5
<1> QED
  BY <1>7, <1>8, <1>9, <1>10, <1>11 DEF TunnelInv

\* A recovery is begun by a watchdog that has nothing else to do; no stop is alone then.
LEMMA DecideKeeps ==
  ASSUME TunnelInv, Decide
  PROVE  TunnelInv'
<1>1. /\ DesktopTypeOK /\ DesktopTypes /\ IdleAtFirst /\ TunnelIsRecorded /\ RecordsApart /\ StopsAlone
      /\ UNCHANGED <<mode, linked, wish, tunnels, made, tunnelRecord, settings, service, outage, clicked, aloneStop, stray,
                     desktopFaults, desktopDeaths>>
      /\ WatchdogAt("deciding") /\ notes' = [notes EXCEPT !["watchdog"] = NoNotes]
  BY DEF TunnelInv, Decide, confVars, tunnelVars, userVars, desktopBounds
<1>2. "watchdog" \in Actors /\ "watchdog" \notin Clicks /\ todo["watchdog"] = <<>>
  BY <1>1, DesktopConstants DEF Actors, IdleAtFirst, WatchdogAt
<1>3. /\ watchdog' \in [step : {"waiting", "looking", "probing", "deciding", "recovering"}, failures : 0..2, cooling : BOOLEAN]
      /\ todo' \in [Actors -> Seq(StepNames)] /\ Fresh(todo'["watchdog"])
      /\ (\A o \in Actors : o # "watchdog" => todo'[o] = todo[o])
      /\ (watchdog'.step # "recovering" => todo'["watchdog"] = <<>>)
  <2>1. CASE wish
    <3>1. watchdog' = [step |-> "recovering", failures |-> 2, cooling |-> TRUE]
          /\ todo' = [todo EXCEPT !["watchdog"] = Recovery] /\ Fresh(Recovery)
      BY <2>1, FreshWork DEF Decide, Instead
    <3>2. todo' \in [Actors -> Seq(StepNames)] /\ todo'["watchdog"] = Recovery
          /\ \A o \in Actors : o # "watchdog" => todo'[o] = todo[o]
      BY <1>1, <1>2, <3>1 DEF DesktopTypes, Fresh
    <3> QED
      BY <3>1, <3>2
  <2>2. CASE ~wish
    <3>1. WatchdogGoes("waiting", 0) /\ UNCHANGED todo
      BY <2>2 DEF Decide
    <3>2. Fresh(todo["watchdog"])
      BY <1>1, <1>2 DEF DesktopTypes, Fresh
    <3>3. watchdog' \in [step : {"waiting", "looking", "probing", "deciding", "recovering"}, failures : 0..2, cooling : BOOLEAN]
      <4>1. 0 \in 0..2 /\ watchdog' = [watchdog EXCEPT !.step = "waiting", !.failures = 0]
        BY <3>1 DEF WatchdogGoes
      <4>2. watchdog \in [step : {"waiting", "looking", "probing", "deciding", "recovering"}, failures : 0..2, cooling : BOOLEAN]
        BY <1>1 DEF DesktopTypes
      <4> QED
        BY <4>1, <4>2
    <3>4. todo' \in [Actors -> Seq(StepNames)]
      BY <1>1, <3>1 DEF DesktopTypes
    <3> QED
      BY <1>2, <3>1, <3>2, <3>3, <3>4
  <2> QED
    BY <2>1, <2>2
<1>4. /\ notes' \in [Actors -> Notes] /\ (\A o \in Actors : o # "watchdog" => notes'[o] = notes[o])
      /\ \A o \in Actors : notes'[o].tunnel \in 0..made
  <2>1. MaxTunnels \in Nat
    BY DesktopConstants
  <2>2. 0 \in 0..MaxTunnels /\ 0 \in 0..made
    BY <1>1, <2>1 DEF DesktopTypeOK
  <2>3. NoNotes \in Notes /\ NoNotes.tunnel = 0
    BY <2>2 DEF NoNotes, Notes
  <2>4. notes \in [Actors -> Notes] /\ \A o \in Actors : notes[o].tunnel \in 0..made
    BY <1>1, NotesFit DEF DesktopTypes
  <2> QED
    BY <1>1, <1>2, <2>2, <2>3, <2>4
<1>5. DesktopTypes'
  BY <1>1, <1>3, <1>4 DEF DesktopTypes, Fresh
<1>6. DesktopTypeOK'
  <2>1. \A o \in Actors : \A i \in DOMAIN todo'[o] : todo'[o][i] \in StepNames
    BY <1>3
  <2>2. watchdog'.step \in {"waiting", "looking", "probing", "deciding", "recovering"} /\ watchdog'.failures \in 0..2
    BY <1>3
  <2> QED
    BY <1>1, <1>4, <2>1, <2>2 DEF DesktopTypeOK, Notes
<1>7. IdleAtFirst'
  BY <1>1, <1>2, <1>3 DEF IdleAtFirst, WatchdogAt, Actors
<1>8. TunnelIsRecorded' /\ RecordsApart'
  <2>1. ~Next1("watchdog", "record") /\ ~Next1("watchdog", "record")'
    BY <1>2, <1>3, HeadTailProperties DEF Next1, Fresh
  <2>2. \A o \in Actors : Next1(o, "record")' <=> Next1(o, "record")
    BY <1>3, <2>1 DEF Next1
  <2> QED
    BY <1>1, <1>4, <2>1, <2>2, RecordsKept
<1>9. StopsAlone'
  <2>1. aloneStop = "none"
    BY <1>1 DEF StopsAlone, WatchdogAt, DesktopTypeOK
  <2> QED
    BY <1>1, <2>1 DEF StopsAlone
<1> QED
  BY <1>5, <1>6, <1>7, <1>8, <1>9 DEF TunnelInv

\* What happens to the processes and to the public address touches no actor.
LEMMA DeathsKeep ==
  ASSUME TunnelInv, (\E t \in 1..MaxTunnels : TunnelDies(t)) \/ ServiceDies \/ ServiceIsUp \/ OutageBegins \/ OutageEnds
  PROVE  TunnelInv'
<1>1. /\ DesktopTypeOK /\ DesktopTypes /\ IdleAtFirst /\ TunnelIsRecorded /\ RecordsApart /\ StopsAlone
      /\ UNCHANGED <<mode, linked, wish, made, settings, todo, notes, watchdog, clicked, aloneStop, stray, desktopFaults>>
  BY DEF TunnelInv, TunnelDies, ServiceDies, ServiceIsUp, OutageBegins, OutageEnds, confVars, tunnelVars, userVars, desktopBounds
<1>2. made \in 0..MaxTunnels /\ tunnels \subseteq 1..made /\ 0 \notin tunnels /\ tunnelRecord \in 0..made
  BY <1>1 DEF DesktopTypeOK, DesktopTypes
<1>3. tunnels' \subseteq tunnels /\ (tunnelRecord' = tunnelRecord \/ (tunnelRecord' = 0 /\ tunnelRecord \notin tunnels'))
  <2>1. ASSUME NEW t \in 1..MaxTunnels, TunnelDies(t)
        PROVE  tunnels' \subseteq tunnels /\ (tunnelRecord' = tunnelRecord \/ (tunnelRecord' = 0 /\ tunnelRecord \notin tunnels'))
    BY <2>1 DEF TunnelDies
  <2>2. ServiceDies \/ ServiceIsUp \/ OutageBegins \/ OutageEnds => UNCHANGED <<tunnels, tunnelRecord>>
    BY DEF ServiceDies, ServiceIsUp, OutageBegins, OutageEnds, tunnelVars
  <2> QED
    BY <2>1, <2>2
<1>4. service' \in [status : {"stopped", "starting", "running"}, read : [proxy : BOOLEAN, origin : 0..MaxTunnels \cup {NamedOrigin}]]
  <2>1. UNCHANGED service \/ (\E s \in {"stopped", "running"} : service' = [service EXCEPT !.status = s])
    BY DEF TunnelDies, ServiceDies, ServiceIsUp, OutageBegins, OutageEnds
  <2> QED
    BY <1>1, <2>1 DEF DesktopTypes
<1>5. outage' \in BOOLEAN
  BY <1>1 DEF TunnelDies, ServiceDies, ServiceIsUp, OutageBegins, OutageEnds, DesktopTypeOK
<1>6. desktopDeaths' \in 0..MaxDesktopDeaths
  <2>1. desktopDeaths \in 0..MaxDesktopDeaths /\ MaxDesktopDeaths \in Nat
    BY <1>1, DesktopConstants DEF DesktopTypeOK
  <2>2. UNCHANGED desktopDeaths \/ DeathHappens
    BY DEF TunnelDies, ServiceDies, ServiceIsUp, OutageBegins, OutageEnds, desktopBounds
  <2> QED
    BY <2>1, <2>2 DEF DeathHappens
<1>7. DesktopTypes'
  BY <1>1, <1>2, <1>3, <1>4 DEF DesktopTypes
<1>8. DesktopTypeOK'
  <2>1. tunnels' \cup stray' \subseteq 1..MaxTunnels /\ tunnelRecord' \in 0..MaxTunnels
    <3>1. MaxTunnels \in Nat
      BY DesktopConstants
    <3>2. 1..made \subseteq 1..MaxTunnels /\ 0..made \subseteq 0..MaxTunnels
      BY <1>2, <3>1
    <3>3. stray' \subseteq 1..MaxTunnels
      BY <1>1 DEF DesktopTypeOK
    <3>4. 0 \in 0..made
      BY <1>2, <3>1
    <3> QED
      BY <1>2, <1>3, <3>2, <3>3, <3>4
  <2>2. service'.status \in {"stopped", "starting", "running"}
    BY <1>4
  <2> QED
    BY <1>1, <1>5, <1>6, <2>1, <2>2 DEF DesktopTypeOK
<1>9. IdleAtFirst'
  BY <1>1 DEF IdleAtFirst, WatchdogAt
<1>10. TunnelIsRecorded' /\ RecordsApart'
  <2>1. \A o \in Actors : Next1(o, "record")' <=> Next1(o, "record")
    BY <1>1 DEF Next1
  <2> QED
    BY <1>1, <1>3, <2>1, RecordsKept
<1>11. StopsAlone'
  <2>1. AllStopped => AllStopped'
    BY <1>1, <1>2, <1>3 DEF AllStopped, TunnelRuns
  <2>2. \A c \in Actors : Stopping(c) => Stopping(c)'
    BY <1>1, <2>1 DEF Stopping
  <2> QED
    BY <1>1, <2>1, <2>2 DEF StopsAlone, WatchdogAt, Busy
<1> QED
  BY <1>7, <1>8, <1>9, <1>10, <1>11 DEF TunnelInv

\* The application forgets what it was at; a tunnel not recorded yet has gone astray.
LEMMA RestartKeeps ==
  ASSUME TunnelInv, DesktopRestarts
  PROVE  TunnelInv'
<1>1. /\ DesktopTypeOK /\ DesktopTypes /\ TunnelIsRecorded /\ RecordsApart /\ StopsAlone
      /\ UNCHANGED <<mode, linked, wish, tunnels, made, tunnelRecord, settings, service, outage, clicked, desktopFaults>>
      /\ todo' = [a \in Actors |-> <<>>] /\ notes' = [a \in Actors |-> NoNotes] /\ watchdog' = WatchdogInit
      /\ stray' = stray \cup {notes[a].tunnel : a \in {o \in Actors : Next1(o, "record")}}
      /\ aloneStop' = (IF aloneStop = "underway" THEN "none" ELSE aloneStop)
      /\ DeathHappens
  BY DEF TunnelInv, DesktopRestarts, confVars, tunnelVars
<1>2. made \in 0..MaxTunnels /\ MaxTunnels \in Nat /\ tunnels \subseteq 1..made /\ tunnelRecord \in 0..made
  BY <1>1, DesktopConstants DEF DesktopTypeOK, DesktopTypes
<1>3. 0 \in 0..made /\ 0 \in 0..MaxTunnels
  BY <1>2
<1>4. notes' \in [Actors -> Notes] /\ \A o \in Actors : notes'[o].tunnel \in 0..made
  <2>1. NoNotes \in Notes /\ NoNotes.tunnel \in 0..made
    BY <1>3 DEF NoNotes, Notes
  <2> QED
    BY <1>1, <2>1
<1>5. todo' \in [Actors -> Seq(StepNames)] /\ \A o \in Actors : todo'[o] = <<>> /\ ~Next1(o, "record")' /\ ~Busy(o)'
  BY <1>1 DEF Next1, Busy
<1>6. \A o \in Actors : Paired(todo'[o])
  BY <1>5 DEF Paired
<1>7. watchdog'.step = "waiting" /\ watchdog'.failures \in 0..2
      /\ watchdog' \in [step : {"waiting", "looking", "probing", "deciding", "recovering"}, failures : 0..2, cooling : BOOLEAN]
  BY <1>1 DEF WatchdogInit
<1>8. DesktopTypes'
  BY <1>1, <1>4, <1>5, <1>6, <1>7 DEF DesktopTypes
<1>9. DesktopTypeOK'
  <2>1. desktopDeaths' \in 0..MaxDesktopDeaths
    <3>1. desktopDeaths \in 0..MaxDesktopDeaths /\ MaxDesktopDeaths \in Nat
      BY <1>1, DesktopConstants DEF DesktopTypeOK
    <3> QED
      BY <1>1, <3>1 DEF DeathHappens
  <2>2. stray' \subseteq 1..MaxTunnels
    <3>1. ASSUME NEW o \in Actors, Next1(o, "record") PROVE notes[o].tunnel \in 1..MaxTunnels
      <4>1. notes[o].tunnel # 0 /\ notes[o].tunnel \in 0..made
        BY <1>1, <3>1 DEF DesktopTypes, RecordsApart
      <4> QED
        BY <1>2, <4>1
    <3>2. stray \subseteq 1..MaxTunnels
      BY <1>1 DEF DesktopTypeOK
    <3> QED
      BY <1>1, <3>1, <3>2
  <2>3. \A o \in Actors : \A i \in DOMAIN todo'[o] : todo'[o][i] \in StepNames
    BY <1>5
  <2>4. aloneStop' \in {"none", "underway", "done"}
    BY <1>1 DEF DesktopTypeOK
  <2> QED
    BY <1>1, <1>4, <1>7, <2>1, <2>2, <2>3, <2>4 DEF DesktopTypeOK, Notes
<1>10. IdleAtFirst'
  BY <1>5 DEF IdleAtFirst, Actors
<1>11. tunnels' \ stray' \subseteq {tunnelRecord}
  BY <1>1 DEF TunnelIsRecorded
<1>12. TunnelIsRecorded'
  BY <1>1, <1>11 DEF TunnelIsRecorded
<1>13. RecordsApart'
  BY <1>5 DEF RecordsApart
<1>14. StopsAlone'
  BY <1>1, <1>5, <1>7 DEF StopsAlone, AllStopped, TunnelRuns, WatchdogAt
<1> QED
  BY <1>8, <1>9, <1>10, <1>12, <1>13, <1>14 DEF TunnelInv

\* DesktopInit with the sets it takes its values from.
LEMMA BeginsFit ==
  ASSUME DesktopInit
  PROVE  TunnelInv
<1>1. /\ mode \in Modes /\ linked \in BOOLEAN /\ wish = FALSE /\ tunnels = {} /\ made = 0 /\ tunnelRecord = 0
      /\ settings = NoSettings /\ service \in {[status |-> s, read |-> NoSettings] : s \in {"stopped", "running"}}
      /\ todo = [a \in Actors |-> <<>>] /\ notes = [a \in Actors |-> NoNotes] /\ watchdog = WatchdogInit /\ outage = FALSE
      /\ clicked = [c \in Clicks |-> "none"] /\ aloneStop = "none" /\ stray = {} /\ desktopFaults = 0 /\ desktopDeaths = 0
  BY DEF DesktopInit
<1>2. 0 \in 0..MaxTunnels /\ 0 \in 0..MaxDesktopFaults /\ 0 \in 0..MaxDesktopDeaths /\ 0 \in 0..made /\ 0 \in 0..2
  <2>1. MaxTunnels \in Nat /\ MaxDesktopFaults \in Nat /\ MaxDesktopDeaths \in Nat
    BY DesktopConstants
  <2> QED
    BY <1>1, <2>1
<1>3. NoSettings \in [proxy : BOOLEAN, origin : 0..MaxTunnels \cup {NamedOrigin}]
  BY <1>2 DEF NoSettings, NoOrigin
<1>4. service \in [status : {"stopped", "starting", "running"}, read : [proxy : BOOLEAN, origin : 0..MaxTunnels \cup {NamedOrigin}]]
  BY <1>1, <1>3
<1>5. NoNotes \in [wish : BOOLEAN, tunnel : 0..MaxTunnels, erred : BOOLEAN] /\ NoNotes.tunnel \in 0..made
  BY <1>2 DEF NoNotes
<1>6. watchdog \in [step : {"waiting", "looking", "probing", "deciding", "recovering"}, failures : 0..2, cooling : BOOLEAN]
  BY <1>1, <1>2 DEF WatchdogInit
<1>7. todo \in [Actors -> Seq(StepNames)] /\ \A a \in Actors : todo[a] = <<>> /\ ~Next1(a, "record")
  BY <1>1 DEF Next1
<1>8. \A a \in Actors : Paired(todo[a])
  BY <1>7 DEF Paired
<1>9. DesktopTypes
  BY <1>1, <1>2, <1>4, <1>5, <1>6, <1>7, <1>8 DEF DesktopTypes
<1>10. DesktopTypeOK
  <2>1. \A a \in Actors : \A i \in DOMAIN todo[a] : todo[a][i] \in StepNames
    BY <1>7
  <2>2. service.status \in {"stopped", "starting", "running"}
    BY <1>4
  <2>3. watchdog.step \in {"waiting", "looking", "probing", "deciding", "recovering"} /\ watchdog.failures \in 0..2
    BY <1>6
  <2>4. notes \in [Actors -> [wish : BOOLEAN, tunnel : 0..MaxTunnels, erred : BOOLEAN]]
        /\ settings \in [proxy : BOOLEAN, origin : 0..MaxTunnels \cup {NamedOrigin}]
    BY <1>1, <1>3, <1>5
  <2> QED
    BY <1>1, <1>2, <2>1, <2>2, <2>3, <2>4 DEF DesktopTypeOK
<1>11. IdleAtFirst /\ TunnelIsRecorded /\ RecordsApart /\ StopsAlone
  BY <1>1, <1>7 DEF IdleAtFirst, TunnelIsRecorded, RecordsApart, StopsAlone, Actors
<1> QED
  BY <1>9, <1>10, <1>11 DEF TunnelInv

LEMMA TunnelInductive == DesktopSpec => []TunnelInv
<1>1. DesktopInit => TunnelInv
  BY BeginsFit
<1>2. TunnelInv /\ [DesktopNext]_desktopVars => TunnelInv'
  <2> SUFFICES ASSUME TunnelInv, [DesktopNext]_desktopVars PROVE TunnelInv'
    OBVIOUS
  <2>1. CASE UNCHANGED desktopVars
    BY <2>1 DEF TunnelInv, desktopVars, confVars, tunnelVars, userVars, desktopBounds, DesktopTypeOK, DesktopTypes,
                IdleAtFirst, TunnelIsRecorded, RecordsApart, StopsAlone, AllStopped, Stopping, Next1, Busy, WatchdogAt,
                TunnelRuns
  <2>2. ASSUME NEW a \in Actors, Step(a) PROVE TunnelInv'
    BY <2>2, StepKeeps
  <2>3. ASSUME NEW c \in Clicks, NEW action \in Actions, Click(c, action) PROVE TunnelInv'
    BY <2>3, ClickKeeps
  <2>4. CASE Tick \/ Adopt \/ Probe \/ Recovered \/ CoolsDown
    BY <2>4, WatchdogKeeps
  <2>5. CASE Decide
    BY <2>5, DecideKeeps
  <2>6. CASE (\E t \in 1..MaxTunnels : TunnelDies(t)) \/ ServiceDies \/ ServiceIsUp \/ OutageBegins \/ OutageEnds
    BY <2>6, DeathsKeep
  <2>7. CASE DesktopRestarts
    BY <2>7, RestartKeeps
  <2> QED
    BY <2>1, <2>2, <2>3, <2>4, <2>5, <2>6, <2>7, Zenon DEF DesktopNext
<1> QED
  BY <1>1, <1>2, PTL DEF DesktopSpec

\* The tunnel can always be found and stopped (cloudflare_windows.go): a tunnel that
\* runs is the recorded one or about to be recorded, but for starts that overlapped,
\* and a stop during which nothing else was at work is final.
THEOREM TunnelIsFound == DesktopSpec => []TunnelHolds
<1>1. TunnelInv => TunnelHolds
  BY DEF TunnelInv, TunnelHolds, StopIsFinal, StopsAlone, AllStopped
<1> QED
  BY <1>1, TunnelInductive, PTL

-----------------------------------------------------------------------------
(* The authorization server: OAuthInv is inductive. *)

\* Processes that have read or made a key.
HasKey(s) == server[s].step \in {"clients", "grants", "pruning", "preregistering", "binding", "serving"}

\* A code that a process may still exchange has not been exchanged, and is known
\* to one process only.
CodesOnce ==
  /\ \A c \in 1..MaxCodes : codeUses[c] <= 1 /\ (c > codes => codeUses[c] = 0)
  /\ \A s \in Starts : \A c \in server[s].codes : c <= codes /\ codeUses[c] = 0
  /\ \A s, o \in Starts : s # o => server[s].codes \cap server[o].codes = {}

\* A refresh token that was exchanged is in no memory and not in the file.
RotatedGone ==
  /\ \A s \in Starts : ~HasGrants(s) => server[s].grants = {}
  /\ grantsFile \subseteq 1..tokens /\ \A s \in Starts : server[s].grants \subseteq 1..tokens
  /\ \A t \in 1..MaxTokens : t > tokens => rotations[t] = 0
  /\ ~overlap => \A t \in 1..MaxTokens : rotations[t] > 0 =>
       rotations[t] = 1 /\ t \notin grantsFile /\ \A s \in Starts : t \notin server[s].grants

FileBounded == Cardinality(grantsFile) <= MaxRefreshTokens

\* A token that a client holds and that is not to go is in the file and with
\* every process that has loaded it.
HeldKept ==
  ~overlap /\ ~torn =>
    \A t \in Unexpired(held) : tokens - t < MaxRefreshTokens =>
      t \in grantsFile /\ \A s \in Starts : HasGrants(s) => t \in server[s].grants

\* So are the clients that were told they are registered, and the key.
ClientsFollow ==
  ~overlap => /\ registered \subseteq clientsFile
              /\ \A s \in Starts : HasClients(s) => registered \subseteq server[s].clients
KeyFollows ==
  ~withdrawn => \A s \in Starts : HasKey(s) => server[s].key = keyFile /\ keyFile > 0

OAuthInv == OAuthTypeOK /\ CodesOnce /\ RotatedGone /\ FileBounded /\ HeldKept /\ ClientsFollow /\ KeyFollows

Memories == [step : StartSteps, key : NoFile..MaxKeys, clients : SUBSET Clients, grants : SUBSET (1..MaxTokens),
             codes : SUBSET (1..MaxCodes), owed : SUBSET (1..MaxCodes)]

-----------------------------------------------------------------------------
(* What a step does to the memory of a process. *)

OthersStay(s) == server' \in [Starts -> Memories] /\ \A o \in Starts \ {s} : server'[o] = server[o]
Advances(s, step) ==
  /\ OthersStay(s)
  /\ server'[s].step = step
  /\ server'[s].key = server[s].key
  /\ server'[s].clients = server[s].clients
  /\ server'[s].grants = server[s].grants
  /\ server'[s].codes = server[s].codes
  /\ server'[s].owed = server[s].owed
Forgets(s) == OthersStay(s) /\ server'[s] = Idle

CodesQuiet ==
  UNCHANGED <<codes, codeUses>> /\ \A o \in Starts : server'[o].codes \subseteq server[o].codes
GrantsQuiet ==
  /\ UNCHANGED <<grantsFile, tokens, expiredTokens, rotations, held>>
  /\ overlap => overlap'
  /\ torn => torn'
  /\ \A o \in Starts :
       \/ server'[o].grants = {} /\ ~HasGrants(o)'
       \/ server'[o].grants = server[o].grants /\ (HasGrants(o)' <=> HasGrants(o))
ClientsQuiet ==
  /\ UNCHANGED <<clientsFile, registered>>
  /\ overlap => overlap'
  /\ \A o \in Starts : HasClients(o)' => HasClients(o) /\ server'[o].clients = server[o].clients
KeyQuiet ==
  /\ UNCHANGED <<keyFile, withdrawn>>
  /\ \A o \in Starts : HasKey(o)' => HasKey(o) /\ server'[o].key = server[o].key

Quiet == CodesQuiet /\ GrantsQuiet /\ ClientsQuiet /\ KeyQuiet

\* A process that is not running is a process.
LEMMA IdleIsMemory == Idle \in Memories
BY OAuthConstants DEF Idle, Memories, StartSteps, NoFile

\* A step that GoesTo or Ends, field by field.
LEMMA GoesToMoves ==
  ASSUME server \in [Starts -> Memories], NEW s \in Starts
  PROVE  /\ \A step \in StartSteps : GoesTo(s, step) => Advances(s, step)
         /\ Ends(s) => Forgets(s)
<1>1. ASSUME NEW step \in StartSteps, GoesTo(s, step) PROVE Advances(s, step)
  BY <1>1 DEF Memories, GoesTo, Advances, OthersStay
<1>2. Ends(s) => Forgets(s)
  BY IdleIsMemory DEF Ends, Forgets, OthersStay
<1> QED
  BY <1>1, <1>2

\* A process that ends, or takes a step within what it has loaded, disturbs nothing.
LEMMA ForgetsQuietly ==
  ASSUME NEW s \in Starts, Forgets(s), UNCHANGED <<filesVars, clientVars, countVars, withdrawn, torn, overlap>>
  PROVE  Quiet
BY DEF Forgets, OthersStay, Idle, Quiet, CodesQuiet, GrantsQuiet, ClientsQuiet, KeyQuiet, HasGrants, HasClients, HasKey,
       filesVars, clientVars, countVars

\* The steps of the start that only read, without what they load.
LEMMA QuietSteps ==
  ASSUME OAuthTypeOK, RotatedGone, NEW s \in Starts, server \in [Starts -> Memories],
         Start(s) \/ ReadKey(s) \/ WaitForKey(s) \/ CreateKey(s) \/ LoadClients(s) \/ LoadGrants(s) \/ Bind(s) \/ Stop(s)
  PROVE  /\ server' \in [Starts -> Memories]
         /\ CodesQuiet
         /\ GrantsQuiet \/ LoadGrants(s)
         /\ ClientsQuiet \/ LoadClients(s)
         /\ KeyQuiet \/ ReadKey(s) \/ WaitForKey(s) \/ CreateKey(s)
<1> USE DEF Quiet, CodesQuiet, GrantsQuiet, ClientsQuiet, KeyQuiet, HasGrants, HasClients, HasKey,
            filesVars, clientVars, countVars, troubleVars, At, Serving
<1>1. CASE Start(s) \/ Bind(s) \/ Stop(s)
  <2>1. \/ Start(s) /\ Advances(s, "reading")
        \/ Bind(s) /\ Advances(s, "serving")
        \/ Forgets(s)
    <3>1. Start(s) => GoesTo(s, "reading")
      BY DEF Start
    <3>2. Bind(s) => Ends(s) \/ GoesTo(s, "serving")
      BY Zenon DEF Bind
    <3>3. Stop(s) => Ends(s)
      BY DEF Stop
    <3>4. {"reading", "serving"} \subseteq StartSteps
      BY DEF StartSteps
    <3> QED
      BY <1>1, <3>1, <3>2, <3>3, <3>4, GoesToMoves
  <2>2. CASE Forgets(s)
    BY <1>1, <2>2, ForgetsQuietly DEF Forgets, OthersStay, Start, Bind, Stop
  <2>3. CASE ~Forgets(s)
    BY <1>1, <2>1, <2>3 DEF Advances, OthersStay, Start, Bind, Stop
  <2> QED
    BY <2>2, <2>3
<1>2. CASE CreateKey(s)
  <2>1. Advances(s, "writing") \/ Advances(s, "waiting")
    BY <1>2, GoesToMoves DEF CreateKey, StartSteps
  <2> QED
    BY <1>2, <2>1 DEF Advances, OthersStay, CreateKey
<1>3. CASE ReadKey(s) \/ WaitForKey(s)
  <2>1. \/ GoesTo(s, "creating") \/ Ends(s)
        \/ server' = [server EXCEPT ![s].step = "clients", ![s].key = keyFile]
    BY <1>3, Zenon DEF ReadKey, WaitForKey
  <2>2. At(s, "reading") \/ At(s, "waiting")
    BY <1>3 DEF ReadKey, WaitForKey
  <2>3. UNCHANGED <<filesVars, clientVars, countVars, troubleVars>>
    BY <1>3 DEF ReadKey, WaitForKey
  <2>4. CASE Ends(s)
    BY <1>3, <2>3, <2>4, GoesToMoves, ForgetsQuietly DEF Forgets, OthersStay
  <2>5. CASE GoesTo(s, "creating")
    <3>1. Advances(s, "creating")
      BY <2>5, GoesToMoves DEF StartSteps
    <3> QED
      BY <1>3, <2>2, <2>3, <3>1 DEF Advances, OthersStay
  <2>6. CASE server' = [server EXCEPT ![s].step = "clients", ![s].key = keyFile]
    <3>1. server' \in [Starts -> Memories]
      <4>1. keyFile \in NoFile..MaxKeys /\ "clients" \in StartSteps
        BY DEF OAuthTypeOK, StartSteps
      <4> QED
        BY <2>6, <4>1 DEF Memories
    <3>2. \A o \in Starts : /\ server'[o].codes = server[o].codes /\ server'[o].grants = server[o].grants
                            /\ server'[o].clients = server[o].clients
                            /\ server'[o].step \in {server[o].step, "clients"}
      BY <2>6 DEF Memories
    <3>3. server'[s].step = "clients" /\ \A o \in Starts \ {s} : server'[o].step = server[o].step
      BY <2>6 DEF Memories
    <3> QED
      BY <1>3, <2>2, <2>3, <3>1, <3>2, <3>3
  <2> QED
    BY <2>1, <2>4, <2>5, <2>6
<1>4. CASE LoadClients(s)
  <2>1. server' = [server EXCEPT ![s].step = "grants", ![s].clients = clientsFile] /\ At(s, "clients")
        /\ UNCHANGED <<filesVars, clientVars, countVars, troubleVars>>
    BY <1>4 DEF LoadClients
  <2>2. server' \in [Starts -> Memories]
    <3>1. clientsFile \in SUBSET Clients /\ "grants" \in StartSteps
      BY DEF OAuthTypeOK, StartSteps
    <3> QED
      BY <2>1, <3>1 DEF Memories
  <2>3. \A o \in Starts : /\ server'[o].codes = server[o].codes /\ server'[o].grants = server[o].grants
                          /\ server'[o].key = server[o].key
    BY <2>1 DEF Memories
  <2>4. server'[s].step = "grants" /\ \A o \in Starts \ {s} : server'[o].step = server[o].step
    BY <2>1 DEF Memories
  <2> QED
    BY <1>4, <2>1, <2>2, <2>3, <2>4
<1>5. CASE LoadGrants(s)
  <2>1. /\ \/ server' = [server EXCEPT ![s].grants = Unexpired(grantsFile), ![s].step = "preregistering"]
           \/ server' = [server EXCEPT ![s].grants = Unexpired(grantsFile), ![s].step = "pruning"]
        /\ At(s, "grants") /\ UNCHANGED <<filesVars, clientVars, countVars, troubleVars>>
    BY <1>5 DEF LoadGrants
  <2>2. Unexpired(grantsFile) \in SUBSET (1..MaxTokens)
    BY DEF Unexpired, OAuthTypeOK
  <2>3. server' \in [Starts -> Memories]
    BY <2>1, <2>2 DEF Memories, StartSteps
  <2>4. \A o \in Starts : /\ server'[o].codes = server[o].codes /\ server'[o].clients = server[o].clients
                          /\ server'[o].key = server[o].key
    BY <2>1 DEF Memories
  <2>5. server'[s].step \in {"preregistering", "pruning"} /\ \A o \in Starts \ {s} : server'[o].step = server[o].step
    BY <2>1 DEF Memories
  <2> QED
    BY <1>5, <2>1, <2>3, <2>4, <2>5
<1> QED
  BY <1>1, <1>2, <1>3, <1>4, <1>5

\* No other process has loaded the refresh tokens, or the clients.
AloneWithGrants(s) == \A o \in Starts \ {s} : ~HasGrants(o)
AloneWithClients(s) == \A o \in Starts \ {s} : ~HasClients(o)

\* What a save says of the file, and of those who save beside each other.
LEMMA Saves ==
  ASSUME NEW s \in Starts, NEW g
  PROVE  /\ SavesGrants(s, g) => /\ grantsFile' = g /\ torn' = torn /\ (overlap => overlap')
                                 /\ ~overlap' => AloneWithGrants(s)
         /\ SaveOfGrantsFails(s, g) => /\ overlap => overlap'
                                       /\ torn => torn'
                                       /\ \/ grantsFile' = grantsFile
                                          \/ grantsFile' = g /\ torn' = TRUE /\ (~overlap' => AloneWithGrants(s))
         /\ SavesClients(s, g) => clientsFile' = g /\ (overlap => overlap') /\ (~overlap' => AloneWithClients(s))
<1>1. SavesGrants(s, g) => /\ grantsFile' = g /\ torn' = torn /\ (overlap => overlap')
                           /\ ~overlap' => AloneWithGrants(s)
  BY Zenon DEF SavesGrants, AloneWithGrants
<1>2. SaveOfGrantsFails(s, g) => /\ overlap => overlap'
                                 /\ torn => torn'
                                 /\ \/ grantsFile' = grantsFile
                                    \/ grantsFile' = g /\ torn' = TRUE /\ (~overlap' => AloneWithGrants(s))
  <2>1. SaveOfGrantsFails(s, g) =>
          \/ grantsFile' = grantsFile /\ torn' = torn /\ overlap' = overlap
          \/ grantsFile' = g /\ torn' = TRUE /\ overlap' = (overlap \/ \E o \in Starts \ {s} : HasGrants(o))
    BY DEF SaveOfGrantsFails
  <2> QED
    BY <2>1, Zenon DEF AloneWithGrants
<1>3. SavesClients(s, g) => clientsFile' = g /\ (overlap => overlap') /\ (~overlap' => AloneWithClients(s))
  BY Zenon DEF SavesClients, AloneWithClients
<1> QED
  BY <1>1, <1>2, <1>3, Zenon

\* The bounds are numbers, and the counters keep to them.
LEMMA OAuthBounds ==
  /\ MaxKeys \in Nat /\ MaxCodes \in Nat /\ MaxTokens \in Nat /\ MaxRefreshTokens \in Nat /\ MaxRefreshTokens > 0
  /\ OAuthTypeOK => tokens \in 0..MaxTokens /\ codes \in 0..MaxCodes /\ keys \in 0..MaxKeys
BY OAuthConstants DEF OAuthTypeOK

\* IssueRefreshToken keeps no token that was not there.
LEMMA KeptIn == \A g : Kept(g) \subseteq g
BY DEF Kept, Unexpired

\* The steps that write a file or answer a request, without what they are for.
LEMMA WritingSteps ==
  ASSUME OAuthTypeOK, RotatedGone, NEW s \in Starts, server \in [Starts -> Memories]
  PROVE  /\ WriteKey(s) => server' \in [Starts -> Memories] /\ CodesQuiet /\ GrantsQuiet /\ ClientsQuiet
         /\ SavePruned(s) => server' \in [Starts -> Memories] /\ CodesQuiet /\ ClientsQuiet /\ KeyQuiet
         /\ AddPreregistered(s) => server' \in [Starts -> Memories] /\ CodesQuiet /\ GrantsQuiet /\ KeyQuiet
         /\ \A c \in Dynamic : Register(s, c) => server' \in [Starts -> Memories] /\ CodesQuiet /\ GrantsQuiet /\ KeyQuiet
<1> USE DEF Quiet, CodesQuiet, GrantsQuiet, ClientsQuiet, KeyQuiet, HasGrants, HasClients, HasKey,
            filesVars, clientVars, countVars, troubleVars, At, Serving
<1>1. ASSUME WriteKey(s) PROVE server' \in [Starts -> Memories] /\ CodesQuiet /\ GrantsQuiet /\ ClientsQuiet
  <2>1. At(s, "writing") /\ UNCHANGED <<clientsFile, grantsFile, clientVars, codes, tokens, expiredCodes, expiredTokens, torn, overlap>>
    BY <1>1 DEF WriteKey
  <2>2. \/ server' = [server EXCEPT ![s].step = "clients", ![s].key = keys + 1] /\ keys < MaxKeys
        \/ Ends(s)
        \/ GoesTo(s, "writing")
    BY <1>1 DEF WriteKey
  <2>3. CASE Ends(s)
    <3>1. Forgets(s)
      BY <2>3, GoesToMoves
    <3> QED
      BY <2>1, <3>1 DEF Forgets, OthersStay, Idle
  <2>4. CASE GoesTo(s, "writing")
    <3>1. Advances(s, "writing")
      BY <2>4, GoesToMoves DEF StartSteps
    <3> QED
      BY <2>1, <3>1 DEF Advances, OthersStay
  <2>5. CASE server' = [server EXCEPT ![s].step = "clients", ![s].key = keys + 1] /\ keys < MaxKeys
    <3>1. server' \in [Starts -> Memories]
      <4>1. keys + 1 \in NoFile..MaxKeys /\ "clients" \in StartSteps
        BY <2>5, OAuthConstants, SMTT(40) DEF OAuthTypeOK, StartSteps, NoFile
      <4> QED
        BY <2>5, <4>1 DEF Memories
    <3>2. \A o \in Starts : /\ server'[o].codes = server[o].codes /\ server'[o].grants = server[o].grants
                            /\ server'[o].clients = server[o].clients
      BY <2>5 DEF Memories
    <3>3. server'[s].step = "clients" /\ \A o \in Starts \ {s} : server'[o].step = server[o].step
      BY <2>5 DEF Memories
    <3> QED
      BY <2>1, <3>1, <3>2, <3>3
  <2> QED
    BY <2>2, <2>3, <2>4, <2>5
<1>2. ASSUME SavePruned(s) PROVE server' \in [Starts -> Memories] /\ CodesQuiet /\ ClientsQuiet /\ KeyQuiet
  <2>1. /\ At(s, "pruning") /\ UNCHANGED <<keyFile, clientsFile, clientVars, countVars, withdrawn>>
        /\ overlap => overlap'
    BY <1>2, Saves DEF SavePruned
  <2>2. Ends(s) \/ GoesTo(s, "preregistering")
    BY <1>2 DEF SavePruned
  <2>3. Forgets(s) \/ Advances(s, "preregistering")
    BY <2>2, GoesToMoves DEF StartSteps
  <2> QED
    BY <2>1, <2>3 DEF Forgets, Advances, OthersStay, Idle
<1>3. ASSUME AddPreregistered(s) PROVE server' \in [Starts -> Memories] /\ CodesQuiet /\ GrantsQuiet /\ KeyQuiet
  <2>1. /\ At(s, "preregistering") /\ UNCHANGED <<keyFile, grantsFile, clientVars, countVars, withdrawn, torn>>
        /\ overlap => overlap'
    BY <1>3, Saves DEF AddPreregistered
  <2>2. Ends(s) \/ server' = [server EXCEPT ![s].step = "binding", ![s].clients = server[s].clients \cup {Preregistered}]
    BY <1>3 DEF AddPreregistered
  <2>3. CASE Ends(s)
    <3>1. Forgets(s)
      BY <2>3, GoesToMoves
    <3> QED
      BY <2>1, <3>1 DEF Forgets, OthersStay, Idle
  <2>4. CASE server' = [server EXCEPT ![s].step = "binding", ![s].clients = server[s].clients \cup {Preregistered}]
    <3>1. server' \in [Starts -> Memories]
      <4>1. server[s].clients \cup {Preregistered} \in SUBSET Clients /\ "binding" \in StartSteps
        BY DEF Memories, Clients, StartSteps
      <4> QED
        BY <2>4, <4>1 DEF Memories
    <3>2. \A o \in Starts : /\ server'[o].codes = server[o].codes /\ server'[o].grants = server[o].grants
                            /\ server'[o].key = server[o].key
      BY <2>4 DEF Memories
    <3>3. server'[s].step = "binding" /\ \A o \in Starts \ {s} : server'[o].step = server[o].step
      BY <2>4 DEF Memories
    <3> QED
      BY <2>1, <3>1, <3>2, <3>3
  <2> QED
    BY <2>2, <2>3, <2>4
<1>4. ASSUME NEW c \in Dynamic, Register(s, c)
      PROVE  server' \in [Starts -> Memories] /\ CodesQuiet /\ GrantsQuiet /\ KeyQuiet
  <2>1. /\ UNCHANGED <<keyFile, grantsFile, held, codeUses, rotations, countVars, withdrawn, torn>>
        /\ overlap => overlap'
        /\ server' = server \/ server' = [server EXCEPT ![s].clients = @ \cup {c}]
    BY <1>4, Saves DEF Register
  <2>2. CASE server' = server
    BY <2>1, <2>2
  <2>3. CASE server' = [server EXCEPT ![s].clients = @ \cup {c}]
    <3>1. server[s].clients \cup {c} \in SUBSET Clients
      BY DEF Memories, Clients
    <3>2. server' \in [Starts -> Memories]
      BY <2>3, <3>1 DEF Memories
    <3>3. \A o \in Starts : /\ server'[o].codes = server[o].codes /\ server'[o].grants = server[o].grants
                            /\ server'[o].key = server[o].key /\ server'[o].step = server[o].step
      BY <2>3 DEF Memories
    <3> QED
      BY <2>1, <3>2, <3>3
  <2> QED
    BY <2>1, <2>2, <2>3
<1> QED
  BY <1>1, <1>2, <1>3, <1>4

\* The requests to a process that serves, without what they are for.
LEMMA RequestSteps ==
  ASSUME OAuthTypeOK, RotatedGone, NEW s \in Starts, server \in [Starts -> Memories]
  PROVE  /\ IssueCode(s) => server' \in [Starts -> Memories] /\ GrantsQuiet /\ ClientsQuiet /\ KeyQuiet
         /\ \A c \in 1..MaxCodes, right \in BOOLEAN : ExchangeCode(s, c, right) =>
              server' \in [Starts -> Memories] /\ GrantsQuiet /\ ClientsQuiet /\ KeyQuiet
         /\ \A c \in 1..MaxCodes : IssueRefreshToken(s, c) =>
              server' \in [Starts -> Memories] /\ CodesQuiet /\ ClientsQuiet /\ KeyQuiet
         /\ \A t \in 1..MaxTokens : ExchangeRefreshToken(s, t) =>
              server' \in [Starts -> Memories] /\ CodesQuiet /\ ClientsQuiet /\ KeyQuiet
<1> USE DEF Quiet, CodesQuiet, GrantsQuiet, ClientsQuiet, KeyQuiet, HasGrants, HasClients, HasKey,
            filesVars, clientVars, countVars, troubleVars, At, Serving
<1>1. ASSUME IssueCode(s) PROVE server' \in [Starts -> Memories] /\ GrantsQuiet /\ ClientsQuiet /\ KeyQuiet
  <2> DEFINE left == {c \in server[s].codes : c > expiredCodes} \cup {codes + 1}
  <2>1. server' = [server EXCEPT ![s].codes = left] /\ codes < MaxCodes
        /\ UNCHANGED <<filesVars, clientVars, keys, tokens, expiredCodes, expiredTokens, troubleVars>>
    BY <1>1 DEF IssueCode
  <2>2. left \in SUBSET (1..MaxCodes)
    BY <2>1, OAuthConstants, SMTT(40) DEF Memories, OAuthTypeOK
  <2> HIDE DEF left
  <2>3. server' \in [Starts -> Memories]
    BY <2>1, <2>2 DEF Memories
  <2>4. \A o \in Starts : /\ server'[o].clients = server[o].clients /\ server'[o].grants = server[o].grants
                          /\ server'[o].key = server[o].key /\ server'[o].step = server[o].step
    BY <2>1 DEF Memories
  <2> QED
    BY <2>1, <2>3, <2>4
<1>2. ASSUME NEW c \in 1..MaxCodes, NEW right \in BOOLEAN, ExchangeCode(s, c, right)
      PROVE  server' \in [Starts -> Memories] /\ GrantsQuiet /\ ClientsQuiet /\ KeyQuiet
  <2>1. /\ UNCHANGED <<filesVars, registered, held, rotations, countVars, troubleVars>>
        /\ \/ server' = [server EXCEPT ![s].codes = @ \ {c}, ![s].owed = @ \cup {c}]
           \/ server' = [server EXCEPT ![s].codes = @ \ {c}]
    BY <1>2 DEF ExchangeCode
  <2>2. server[s].codes \ {c} \in SUBSET (1..MaxCodes) /\ server[s].owed \cup {c} \in SUBSET (1..MaxCodes)
    BY DEF Memories
  <2>3. server' \in [Starts -> Memories]
    BY <2>1, <2>2 DEF Memories
  <2>4. \A o \in Starts : /\ server'[o].clients = server[o].clients /\ server'[o].grants = server[o].grants
                          /\ server'[o].key = server[o].key /\ server'[o].step = server[o].step
    BY <2>1 DEF Memories
  <2> QED
    BY <2>1, <2>3, <2>4
<1>3. ASSUME NEW c \in 1..MaxCodes, IssueRefreshToken(s, c)
      PROVE  server' \in [Starts -> Memories] /\ CodesQuiet /\ ClientsQuiet /\ KeyQuiet
  <2> DEFINE next == Kept(server[s].grants) \cup {tokens + 1}
  <2>1. /\ UNCHANGED <<keyFile, clientsFile, registered, codeUses, codes, withdrawn>> /\ tokens < MaxTokens
        /\ overlap => overlap'
        /\ \/ server' = [server EXCEPT ![s].owed = @ \ {c}, ![s].grants = next]
           \/ server' = [server EXCEPT ![s].owed = @ \ {c}]
    BY <1>3, Saves DEF IssueRefreshToken
  <2>2. next \in SUBSET (1..MaxTokens)
    <3>1. server[s].grants \subseteq 1..MaxTokens
      BY DEF Memories
    <3>2. tokens + 1 \in 1..MaxTokens
      BY <2>1, OAuthBounds
    <3> QED
      BY <3>1, <3>2, KeptIn
  <2> HIDE DEF next
  <2>3. server' \in [Starts -> Memories]
    BY <2>1, <2>2 DEF Memories
  <2>4. \A o \in Starts : /\ server'[o].clients = server[o].clients /\ server'[o].codes = server[o].codes
                          /\ server'[o].key = server[o].key /\ server'[o].step = server[o].step
    BY <2>1 DEF Memories
  <2> QED
    BY <2>1, <2>3, <2>4
<1>4. ASSUME NEW t \in 1..MaxTokens, ExchangeRefreshToken(s, t)
      PROVE  server' \in [Starts -> Memories] /\ CodesQuiet /\ ClientsQuiet /\ KeyQuiet
  <2> DEFINE next == (server[s].grants \ {t}) \cup {tokens + 1}
  <2>1. /\ UNCHANGED <<keyFile, clientsFile, registered, codeUses, codes, withdrawn>> /\ tokens < MaxTokens
        /\ overlap => overlap'
        /\ \/ server' = [server EXCEPT ![s].grants = next]
           \/ server' = server
    BY <1>4, Saves DEF ExchangeRefreshToken
  <2>2. next \in SUBSET (1..MaxTokens)
    <3>1. server[s].grants \subseteq 1..MaxTokens
      BY DEF Memories
    <3>2. tokens + 1 \in 1..MaxTokens
      BY <2>1, OAuthBounds
    <3> QED
      BY <3>1, <3>2
  <2> HIDE DEF next
  <2>3. server' \in [Starts -> Memories]
    BY <2>1, <2>2 DEF Memories
  <2>4. \A o \in Starts : /\ server'[o].clients = server[o].clients /\ server'[o].codes = server[o].codes
                          /\ server'[o].key = server[o].key /\ server'[o].step = server[o].step
    BY <2>1 DEF Memories
  <2> QED
    BY <2>1, <2>3, <2>4
<1> QED
  BY <1>1, <1>2, <1>3, <1>4

\* A set of numbers has a least one.
LEMMA Least == ASSUME NEW T, T \subseteq Nat, T # {} PROVE \E x \in T : \A y \in T : ~(y < x)
<1> DEFINE R == OpToRel(<, Nat)
<1>1. IsWellFoundedOn(R, Nat)
  BY NatLessThanWellFounded
<1>2. \A x, y \in Nat : y < x => <<y, x>> \in R
  BY DEF OpToRel
<1> HIDE DEF R
<1>3. \E x \in T : \A y \in T : ~(<<y, x>> \in R)
  BY <1>1, WFMin
<1>4. PICK x \in T : \A y \in T : ~(<<y, x>> \in R)
  BY <1>3
<1>5. \A y \in T : ~(y < x)
  BY <1>2, <1>4
<1> QED
  BY <1>5

\* IssueRefreshToken keeps the tokens within their limit, and every one that is
\* not the oldest of so many.
LEMMA KeptBound ==
  ASSUME OAuthTypeOK, NEW g \in SUBSET (1..tokens), Cardinality(g) <= MaxRefreshTokens
  PROVE  /\ Cardinality(Kept(g) \cup {tokens + 1}) <= MaxRefreshTokens
         /\ \A t \in Unexpired(g) : tokens + 1 - t < MaxRefreshTokens => t \in Kept(g)
<1> DEFINE live == Unexpired(g)
<1>1. tokens \in Nat /\ MaxRefreshTokens \in Nat /\ MaxRefreshTokens > 0
  BY OAuthBounds
<1>2. IsFiniteSet(1..tokens)
  BY <1>1, FS_Interval
<1>3. IsFiniteSet(g)
  BY <1>2, FS_Subset
<1>4. live \in SUBSET g
  BY DEF Unexpired
<1>5. IsFiniteSet(live) /\ Cardinality(live) \in Nat /\ Cardinality(live) <= MaxRefreshTokens
  BY <1>1, <1>3, <1>4, FS_Subset, FS_CardinalityType
<1> HIDE DEF live
<1>6. CASE Cardinality(live) >= MaxRefreshTokens
  <2>1. Kept(g) = {t \in live : \E o \in live : o < t}
    BY <1>6 DEF Kept, live
  <2>2. live # {} /\ live \subseteq Nat
    BY <1>1, <1>4, <1>6, FS_EmptySet
  <2>3. PICK first \in live : \A o \in live : ~(o < first)
    BY <2>2, Least
  <2>4. Kept(g) \subseteq live \ {first}
    BY <2>1, <2>3
  <2>5. IsFiniteSet(live \ {first}) /\ Cardinality(live \ {first}) = Cardinality(live) - 1
    BY <1>5, FS_RemoveElement
  <2>6. IsFiniteSet(Kept(g)) /\ Cardinality(Kept(g)) <= Cardinality(live) - 1 /\ Cardinality(Kept(g)) \in Nat
    BY <2>4, <2>5, FS_Subset, FS_CardinalityType
  <2>7. Cardinality(Kept(g) \cup {tokens + 1}) <= MaxRefreshTokens
    <3>1. Cardinality(Kept(g) \cup {tokens + 1}) \in {Cardinality(Kept(g)), Cardinality(Kept(g)) + 1}
      BY <2>6, FS_AddElement
    <3> QED
      BY <1>1, <1>5, <2>6, <3>1
  <2>8. ASSUME NEW t \in live, tokens + 1 - t < MaxRefreshTokens PROVE t \in Kept(g)
    <3> SUFFICES ASSUME t \notin Kept(g) PROVE FALSE
      OBVIOUS
    <3>1. \A o \in live : ~(o < t)
      BY <2>1
    <3>2. t \in 1..tokens /\ live \in SUBSET (t..tokens)
      BY <1>1, <1>4, <3>1
    <3>3. IsFiniteSet(t..tokens) /\ Cardinality(t..tokens) = tokens - t + 1
      BY <1>1, <3>2, FS_Interval
    <3>4. Cardinality(live) <= tokens - t + 1
      BY <3>2, <3>3, FS_Subset
    <3> QED
      BY <1>1, <1>5, <1>6, <2>8, <3>2, <3>4
  <2> QED
    BY <2>7, <2>8 DEF live
<1>7. CASE ~(Cardinality(live) >= MaxRefreshTokens)
  <2>1. Kept(g) = live
    BY <1>7 DEF Kept, live
  <2>2. Cardinality(live \cup {tokens + 1}) <= MaxRefreshTokens
    <3>1. Cardinality(live \cup {tokens + 1}) \in {Cardinality(live), Cardinality(live) + 1}
      BY <1>5, FS_AddElement
    <3> QED
      BY <1>1, <1>5, <1>7, <3>1
  <2> QED
    BY <2>1, <2>2 DEF live
<1> QED
  BY <1>6, <1>7

\* Which steps write and load what.
CodesStep(s) == IssueCode(s) \/ \E c \in 1..MaxCodes, right \in BOOLEAN : ExchangeCode(s, c, right)
GrantsStep(s) ==
  \/ LoadGrants(s) \/ SavePruned(s)
  \/ (\E c \in 1..MaxCodes : IssueRefreshToken(s, c))
  \/ (\E t \in 1..MaxTokens : ExchangeRefreshToken(s, t))
ClientsStep(s) == LoadClients(s) \/ AddPreregistered(s) \/ \E c \in Dynamic : Register(s, c)
KeyStep(s) == ReadKey(s) \/ WaitForKey(s) \/ CreateKey(s) \/ WriteKey(s)

\* The others disturb nothing of it.
LEMMA OAuthMoves ==
  ASSUME OAuthInv, [OAuthNext]_oauthVars
  PROVE  /\ server \in [Starts -> Memories] /\ server' \in [Starts -> Memories]
         /\ CodesQuiet \/ \E s \in Starts : CodesStep(s)
         /\ GrantsQuiet \/ TokenExpires \/ \E s \in Starts : GrantsStep(s)
         /\ ClientsQuiet \/ \E s \in Starts : ClientsStep(s)
         /\ KeyQuiet \/ \E s \in Starts : KeyStep(s)
<1> DEFINE Goal ==
  /\ server \in [Starts -> Memories] /\ server' \in [Starts -> Memories]
  /\ CodesQuiet \/ \E s \in Starts : CodesStep(s)
  /\ GrantsQuiet \/ TokenExpires \/ \E s \in Starts : GrantsStep(s)
  /\ ClientsQuiet \/ \E s \in Starts : ClientsStep(s)
  /\ KeyQuiet \/ \E s \in Starts : KeyStep(s)
<1> USE DEF CodesStep, GrantsStep, ClientsStep, KeyStep
<1>1. server \in [Starts -> Memories] /\ OAuthTypeOK /\ RotatedGone
  BY DEF OAuthInv, OAuthTypeOK, Memories
<1>2. ASSUME NEW s \in Starts,
             Start(s) \/ ReadKey(s) \/ WaitForKey(s) \/ CreateKey(s) \/ LoadClients(s) \/ LoadGrants(s) \/ Bind(s) \/ Stop(s)
      PROVE  Goal
  BY <1>1, <1>2, QuietSteps, Zenon
<1>3. ASSUME NEW s \in Starts, WriteKey(s) \/ SavePruned(s) \/ AddPreregistered(s) \/ \E c \in Dynamic : Register(s, c)
      PROVE  Goal
  BY <1>1, <1>3, WritingSteps, Zenon
<1>4. ASSUME NEW s \in Starts,
             \/ IssueCode(s)
             \/ \E c \in 1..MaxCodes : (\E right \in BOOLEAN : ExchangeCode(s, c, right)) \/ IssueRefreshToken(s, c)
             \/ \E t \in 1..MaxTokens : ExchangeRefreshToken(s, t)
      PROVE  Goal
  <2>1. CASE IssueCode(s)
    BY <1>1, <2>1, RequestSteps
  <2>2. ASSUME NEW c \in 1..MaxCodes, NEW right \in BOOLEAN, ExchangeCode(s, c, right) PROVE Goal
    BY <1>1, <2>2, RequestSteps, Zenon
  <2>3. ASSUME NEW c \in 1..MaxCodes, IssueRefreshToken(s, c) PROVE Goal
    BY <1>1, <2>3, RequestSteps, Zenon
  <2>4. ASSUME NEW t \in 1..MaxTokens, ExchangeRefreshToken(s, t) PROVE Goal
    <3>1. server' \in [Starts -> Memories] /\ CodesQuiet /\ ClientsQuiet /\ KeyQuiet
      BY <1>1, <2>4, RequestSteps, Zenon
    <3>2. \E o \in Starts : GrantsStep(o)
      BY <2>4
    <3>3. server \in [Starts -> Memories]
      BY <1>1
    <3> QED
      BY <3>1, <3>2, <3>3, ZenonT(30)
  <2> HIDE DEF Goal
  <2> QED
    BY <1>4, <2>1, <2>2, <2>3, <2>4, Zenon
<1>5. ASSUME CodeExpires \/ TokenExpires \/ UNCHANGED oauthVars PROVE Goal
  BY <1>1, <1>5 DEF CodeExpires, TokenExpires, CodesQuiet, GrantsQuiet, ClientsQuiet, KeyQuiet, HasGrants, HasClients, HasKey,
     oauthVars, filesVars, clientVars, countVars, troubleVars
<1> HIDE DEF Goal
<1>6. Goal
  BY <1>2, <1>3, <1>4, <1>5, Zenon DEF OAuthNext
<1> QED
  BY <1>6 DEF Goal

-----------------------------------------------------------------------------
(* The parts of the invariant are kept. *)

\* A code is issued once, to one process, and is gone when it is exchanged.
LEMMA CodesNext ==
  ASSUME OAuthInv, [OAuthNext]_oauthVars PROVE CodesOnce'
<1>1. CodesOnce /\ server \in [Starts -> Memories] /\ OAuthTypeOK
  BY OAuthMoves DEF OAuthInv
<1>2. CASE CodesQuiet
  BY <1>1, <1>2 DEF CodesQuiet, CodesOnce
<1>3. ASSUME NEW s \in Starts, IssueCode(s) PROVE CodesOnce'
  <2> DEFINE left == {c \in server[s].codes : c > expiredCodes} \cup {codes + 1}
  <2>1. server' = [server EXCEPT ![s].codes = left] /\ codes' = codes + 1 /\ codeUses' = codeUses /\ codes \in Nat
    BY <1>1, <1>3, OAuthBounds DEF IssueCode, clientVars
  <2>2. \A o \in Starts \ {s} : server'[o] = server[o]
    BY <1>1, <2>1
  <2>3. server'[s].codes = left
    BY <1>1, <2>1 DEF Memories
  <2>4. \A c \in left : c \in server[s].codes \/ c = codes + 1
    OBVIOUS
  <2>5. \A o \in Starts : server[o].codes \subseteq 1..MaxCodes
    BY <1>1 DEF Memories
  <2>6. codes + 1 \in 1..MaxCodes
    BY <1>1, <1>3, OAuthBounds DEF IssueCode
  <2> HIDE DEF left
  <2>7. \A o \in Starts : \A c \in server'[o].codes : c \in server[o].codes \/ (c = codes + 1 /\ o = s)
    BY <2>2, <2>3, <2>4
  <2>8. \A o \in Starts : codes + 1 \notin server[o].codes
    BY <1>1, <2>1 DEF CodesOnce
  <2>9. \A c \in 1..MaxCodes : codeUses'[c] <= 1 /\ (c > codes' => codeUses'[c] = 0)
    BY <1>1, <2>1 DEF CodesOnce
  <2>10. \A o \in Starts : \A c \in server'[o].codes : c <= codes' /\ codeUses'[c] = 0
    BY <1>1, <2>1, <2>5, <2>6, <2>7 DEF CodesOnce
  <2>11. \A o, p \in Starts : o # p => server'[o].codes \cap server'[p].codes = {}
    BY <1>1, <2>7, <2>8 DEF CodesOnce
  <2> QED
    BY <2>9, <2>10, <2>11 DEF CodesOnce
<1>4. ASSUME NEW s \in Starts, NEW c \in 1..MaxCodes, NEW right \in BOOLEAN, ExchangeCode(s, c, right) PROVE CodesOnce'
  <2>1. /\ c \in server[s].codes /\ codes' = codes
        /\ codeUses' \in {codeUses, [codeUses EXCEPT ![c] = @ + 1]}
        /\ \/ server' = [server EXCEPT ![s].codes = @ \ {c}, ![s].owed = @ \cup {c}]
           \/ server' = [server EXCEPT ![s].codes = @ \ {c}]
    BY <1>4 DEF ExchangeCode, countVars
  <2>2. server'[s].codes = server[s].codes \ {c} /\ \A o \in Starts \ {s} : server'[o] = server[o]
    BY <1>1, <2>1 DEF Memories
  <2>3. \A d \in 1..MaxCodes : codeUses'[d] = codeUses[d] \/ (d = c /\ codeUses'[d] = codeUses[d] + 1)
    BY <1>1, <2>1 DEF OAuthTypeOK
  <2>4. codeUses[c] = 0 /\ c <= codes /\ \A o \in Starts \ {s} : c \notin server[o].codes
    BY <1>1, <2>1 DEF CodesOnce
  <2>5. \A o \in Starts : server[o].codes \subseteq 1..MaxCodes
    BY <1>1 DEF Memories
  <2>6. \A d \in 1..MaxCodes : codeUses'[d] <= 1 /\ (d > codes' => codeUses'[d] = 0)
    BY <1>1, <2>1, <2>3, <2>4, OAuthBounds DEF CodesOnce
  <2>7. \A o \in Starts : server'[o].codes \subseteq server[o].codes \ {c}
    BY <2>2, <2>4
  <2>8. \A o \in Starts : \A d \in server'[o].codes : d <= codes' /\ codeUses'[d] = 0
    BY <1>1, <2>1, <2>3, <2>5, <2>7 DEF CodesOnce
  <2>9. \A o, p \in Starts : o # p => server'[o].codes \cap server'[p].codes = {}
    BY <1>1, <2>7 DEF CodesOnce
  <2> QED
    BY <2>6, <2>8, <2>9 DEF CodesOnce
<1> QED
  BY <1>2, <1>3, <1>4, OAuthMoves DEF CodesStep

\* What was exchanged is gone, and what a client holds is kept.
LEMMA GrantsNext ==
  ASSUME OAuthInv, [OAuthNext]_oauthVars
  PROVE  /\ RotatedGone' /\ FileBounded' /\ HeldKept'
         /\ \A o \in Starts : Cardinality(server'[o].grants) <= MaxRefreshTokens
<1> DEFINE Limited == \A o \in Starts : Cardinality(server'[o].grants) <= MaxRefreshTokens
           Good == RotatedGone' /\ FileBounded' /\ HeldKept' /\ Limited
<1>1. /\ RotatedGone /\ FileBounded /\ HeldKept /\ OAuthTypeOK
      /\ server \in [Starts -> Memories] /\ server' \in [Starts -> Memories]
      /\ \A o \in Starts : server[o].grants \in SUBSET (1..tokens) /\ Cardinality(server[o].grants) <= MaxRefreshTokens
      /\ grantsFile \in SUBSET (1..tokens) /\ Cardinality(grantsFile) <= MaxRefreshTokens
      /\ held \subseteq 1..MaxTokens /\ rotations \in [1..MaxTokens -> Nat]
      /\ tokens \in 0..MaxTokens /\ expiredTokens \in 0..tokens
  BY OAuthMoves DEF OAuthInv, RotatedGone, FileBounded, OAuthTypeOK
<1>2. MaxTokens \in Nat /\ MaxRefreshTokens \in Nat /\ MaxRefreshTokens > 0 /\ tokens \in Nat
  BY <1>1, OAuthBounds
<1>3. /\ Cardinality({}) <= MaxRefreshTokens
      /\ \A g \in SUBSET (1..tokens) : IsFiniteSet(g) /\ Cardinality(g) \in Nat
      /\ Cardinality(Unexpired(grantsFile)) <= MaxRefreshTokens
  <2>1. Cardinality({}) = 0 /\ IsFiniteSet(1..tokens)
    BY <1>2, FS_Interval, FS_EmptySet
  <2>2. ASSUME NEW g \in SUBSET (1..tokens) PROVE IsFiniteSet(g) /\ Cardinality(g) \in Nat
    BY <2>1, FS_Subset, FS_CardinalityType
  <2>3. IsFiniteSet(grantsFile) /\ Cardinality(grantsFile) \in Nat
    BY <1>1, <2>2
  <2>4. Unexpired(grantsFile) \in SUBSET grantsFile
    BY DEF Unexpired
  <2>5. Cardinality(Unexpired(grantsFile)) <= Cardinality(grantsFile) /\ Cardinality(Unexpired(grantsFile)) \in Nat
    BY <2>3, <2>4, FS_Subset, FS_CardinalityType
  <2> QED
    BY <1>1, <1>2, <2>1, <2>2, <2>3, <2>5
<1>4. CASE GrantsQuiet
  <2>1. RotatedGone'
    BY <1>1, <1>4 DEF GrantsQuiet, RotatedGone
  <2>2. FileBounded' /\ Limited
    BY <1>1, <1>2, <1>3, <1>4 DEF GrantsQuiet, FileBounded
  <2>3. HeldKept'
    BY <1>1, <1>4 DEF GrantsQuiet, HeldKept, Unexpired
  <2> QED
    BY <2>1, <2>2, <2>3
<1>5. CASE TokenExpires
  <2>1. /\ UNCHANGED <<grantsFile, server, tokens, rotations, held, overlap, torn>>
        /\ expiredTokens' = expiredTokens + 1
    BY <1>5 DEF TokenExpires, filesVars, clientVars, troubleVars
  <2>2. RotatedGone' /\ FileBounded' /\ Limited
    BY <1>1, <2>1 DEF RotatedGone, FileBounded, HasGrants
  <2>3. HeldKept'
    BY <1>1, <2>1 DEF HeldKept, Unexpired, HasGrants
  <2> QED
    BY <2>2, <2>3
<1>6. ASSUME NEW s \in Starts, LoadGrants(s) PROVE Good
  <2>1. UNCHANGED <<grantsFile, tokens, expiredTokens, rotations, held, overlap, torn>> /\ ~HasGrants(s)
    BY <1>6 DEF LoadGrants, filesVars, clientVars, countVars, troubleVars, HasGrants, At
  <2>2. /\ server'[s].grants = Unexpired(grantsFile) /\ HasGrants(s)'
        /\ \A o \in Starts \ {s} : server'[o] = server[o]
    <3>1. \/ server' = [server EXCEPT ![s].grants = Unexpired(grantsFile), ![s].step = "preregistering"]
          \/ server' = [server EXCEPT ![s].grants = Unexpired(grantsFile), ![s].step = "pruning"]
      BY <1>6 DEF LoadGrants
    <3> QED
      BY <1>1, <3>1 DEF Memories, HasGrants
  <2>3. Unexpired(grantsFile) \in SUBSET grantsFile
    BY DEF Unexpired
  <2>4. RotatedGone'
    <3>1. \A o \in Starts : server'[o].grants \subseteq server[o].grants \cup grantsFile
      BY <2>2, <2>3
    <3>2. \A o \in Starts : ~HasGrants(o)' => server'[o].grants = {}
      BY <1>1, <2>2 DEF RotatedGone, HasGrants
    <3> QED
      BY <1>1, <2>1, <3>1, <3>2 DEF RotatedGone
  <2>5. FileBounded' /\ Limited
    BY <1>1, <1>3, <2>1, <2>2 DEF FileBounded
  <2>6. HeldKept'
    BY <1>1, <2>1, <2>2 DEF HeldKept, Unexpired, HasGrants
  <2> QED
    BY <2>4, <2>5, <2>6
<1>7. ASSUME NEW s \in Starts, SavePruned(s) PROVE Good
  <2>1. UNCHANGED <<tokens, expiredTokens, rotations, held>> /\ HasGrants(s)
    BY <1>7 DEF SavePruned, clientVars, countVars, HasGrants, At
  <2>2. /\ overlap => overlap'
        /\ torn => torn'
        /\ grantsFile' = grantsFile \/ grantsFile' = server[s].grants
        /\ grantsFile' # grantsFile /\ ~overlap' => AloneWithGrants(s)
        /\ Forgets(s) \/ Advances(s, "preregistering")
    BY <1>1, <1>7, Saves, GoesToMoves DEF SavePruned, StartSteps
  <2>3. \A o \in Starts : \/ server'[o].grants = {} /\ ~HasGrants(o)'
                          \/ server'[o].grants = server[o].grants /\ (HasGrants(o)' <=> HasGrants(o))
    BY <2>1, <2>2 DEF Forgets, Advances, OthersStay, Idle, HasGrants
  <2>4. RotatedGone'
    BY <1>1, <2>1, <2>2, <2>3 DEF RotatedGone
  <2>5. FileBounded' /\ Limited
    <3>1. FileBounded'
      BY <1>1, <2>2 DEF FileBounded
    <3>2. Limited
      BY <1>1, <1>3, <2>3
    <3> QED
      BY <3>1, <3>2
  <2>6. HeldKept'
    BY <1>1, <2>1, <2>2, <2>3 DEF HeldKept, Unexpired
  <2> QED
    BY <2>4, <2>5, <2>6
<1>8. ASSUME NEW s \in Starts, NEW next \in SUBSET (1..(tokens + 1)), HasGrants(s), tokens < MaxTokens, tokens' = tokens + 1,
             expiredTokens' = expiredTokens, UNCHANGED <<rotations, held>>, SaveOfGrantsFails(s, next),
             Cardinality(next) <= MaxRefreshTokens,
             \A o \in Starts : server'[o].grants = server[o].grants /\ (HasGrants(o)' <=> HasGrants(o)),
             \A t \in next : t \in server[s].grants \/ t = tokens + 1
      PROVE  Good
  <2>1. /\ overlap => overlap'
        /\ torn => torn'
        /\ grantsFile' = grantsFile \/ (grantsFile' = next /\ torn' = TRUE)
    BY <1>8, Saves
  <2>2. RotatedGone'
    <3>1. \A x \in 1..tokens : x \in 1..(tokens + 1)
      BY <1>2
    <3>2. grantsFile' \subseteq 1..tokens' /\ \A o \in Starts : server'[o].grants \subseteq 1..tokens'
      BY <1>1, <1>8, <2>1, <3>1
    <3>3. \A t \in 1..MaxTokens : t > tokens' => rotations'[t] = 0
      BY <1>1, <1>2, <1>8 DEF RotatedGone
    <3>4. \A t \in 1..MaxTokens : rotations[t] > 0 => t # tokens + 1
      BY <1>1, <1>2 DEF RotatedGone
    <3>5. ~overlap' => \A t \in 1..MaxTokens : rotations'[t] > 0 =>
            rotations'[t] = 1 /\ t \notin grantsFile' /\ \A o \in Starts : t \notin server'[o].grants
      BY <1>1, <1>8, <2>1, <3>4 DEF RotatedGone
    <3>6. \A o \in Starts : ~HasGrants(o)' => server'[o].grants = {}
      BY <1>1, <1>8 DEF RotatedGone
    <3> QED
      BY <3>2, <3>3, <3>5, <3>6 DEF RotatedGone
  <2>3. FileBounded' /\ Limited
    BY <1>1, <1>8, <2>1 DEF FileBounded
  <2>4. HeldKept'
    BY <1>1, <1>2, <1>8, <2>1 DEF HeldKept, Unexpired
  <2> QED
    BY <2>2, <2>3, <2>4
<1>9. ASSUME NEW s \in Starts, NEW next \in SUBSET (1..(tokens + 1)), NEW used, HasGrants(s), tokens < MaxTokens,
             tokens' = tokens + 1, expiredTokens' = expiredTokens, SavesGrants(s, next), held' \subseteq held \cup {tokens + 1},
             \A t \in used : t \in 1..tokens /\ t \in server[s].grants /\ t \notin held' /\ t \notin next,
             \A t \in 1..MaxTokens : rotations'[t] = IF t \in used THEN rotations[t] + 1 ELSE rotations[t],
             Cardinality(next) <= MaxRefreshTokens, tokens + 1 \in next,
             server'[s].grants = next, HasGrants(s)', \A o \in Starts \ {s} : server'[o] = server[o],
             \A t \in next : t \in server[s].grants \/ t = tokens + 1,
             \A t \in Unexpired(server[s].grants) : tokens + 1 - t < MaxRefreshTokens => t \in next \/ t \notin held'
      PROVE  Good
  <2>1. /\ overlap => overlap'
        /\ torn' = torn /\ grantsFile' = next
        /\ ~overlap' => AloneWithGrants(s)
    BY <1>9, Saves
  <2>2. ~overlap' => \A o \in Starts \ {s} : server'[o].grants = {} /\ ~HasGrants(o)'
    BY <1>1, <1>9, <2>1 DEF AloneWithGrants, RotatedGone, HasGrants
  <2>3. RotatedGone'
    <3>1. \A o \in Starts : ~HasGrants(o)' => server'[o].grants = {}
      BY <1>1, <1>9 DEF RotatedGone, HasGrants
    <3>2. grantsFile' \subseteq 1..tokens' /\ \A o \in Starts : server'[o].grants \subseteq 1..tokens'
      <4>1. \A x \in 1..tokens : x \in 1..(tokens + 1)
        BY <1>2
      <4> QED
        BY <1>1, <1>9, <2>1, <4>1
    <3>3. \A t \in 1..MaxTokens : t > tokens' => rotations'[t] = 0
      BY <1>1, <1>2, <1>9 DEF RotatedGone
    <3>4. ASSUME ~overlap', NEW t \in 1..MaxTokens, rotations'[t] > 0
          PROVE  rotations'[t] = 1 /\ t \notin grantsFile' /\ \A o \in Starts : t \notin server'[o].grants
      <4>1. rotations[t] > 0 => t \notin server[s].grants /\ rotations[t] = 1
        BY <1>1, <2>1, <3>4 DEF RotatedGone
      <4>2. rotations[t] \in Nat /\ (t > tokens => rotations[t] = 0)
        BY <1>1 DEF RotatedGone
      <4>3. t # tokens + 1 \/ t \in used
        BY <1>2, <1>9, <3>4, <4>2
      <4>4. t \notin next /\ rotations'[t] = 1
        BY <1>2, <1>9, <3>4, <4>1, <4>2, <4>3
      <4> QED
        BY <1>9, <2>1, <2>2, <3>4, <4>4
    <3> QED
      BY <3>1, <3>2, <3>3, <3>4 DEF RotatedGone
  <2>4. FileBounded' /\ Limited
    BY <1>1, <1>9, <2>1 DEF FileBounded
  <2>5. HeldKept'
    <3> SUFFICES ASSUME ~overlap', ~torn', NEW t \in Unexpired(held)', tokens' - t < MaxRefreshTokens
                 PROVE  t \in next
      BY <1>9, <2>1, <2>2 DEF HeldKept
    <3>1. t \in held' /\ t > expiredTokens
      BY <1>9 DEF Unexpired
    <3>2. CASE t = tokens + 1
      BY <1>9, <3>2
    <3>3. CASE t \in held
      <4>1. t \in 1..MaxTokens /\ tokens - t < MaxRefreshTokens
        BY <1>1, <1>2, <1>9, <3>3
      <4>2. t \in server[s].grants
        BY <1>1, <1>9, <2>1, <3>1, <3>3, <4>1 DEF HeldKept, Unexpired
      <4> QED
        <5>1. t \in Unexpired(server[s].grants)
          BY <1>9, <3>1, <4>2 DEF Unexpired
        <5>2. tokens + 1 - t < MaxRefreshTokens
          BY <1>2, <1>9, <4>1
        <5> QED
          BY <1>9, <3>1, <5>1, <5>2
    <3> QED
      BY <1>9, <3>1, <3>2, <3>3
  <2> QED
    BY <2>3, <2>4, <2>5
<1> HIDE DEF Good
<1>10. ASSUME NEW s \in Starts, NEW c \in 1..MaxCodes, IssueRefreshToken(s, c) PROVE Good
  <2> DEFINE next == Kept(server[s].grants) \cup {tokens + 1}
  <2>1. /\ HasGrants(s) /\ tokens < MaxTokens /\ tokens' = tokens + 1 /\ UNCHANGED <<expiredTokens, rotations>>
        /\ \/ /\ SavesGrants(s, next) /\ held' \in {held, held \cup {tokens + 1}}
              /\ server' = [server EXCEPT ![s].owed = @ \ {c}, ![s].grants = next]
           \/ /\ SaveOfGrantsFails(s, next) /\ UNCHANGED held
              /\ server' = [server EXCEPT ![s].owed = @ \ {c}]
    BY <1>10 DEF IssueRefreshToken, HasGrants, Serving, At
  <2>2. next \in SUBSET (1..(tokens + 1)) /\ \A t \in next : t \in server[s].grants \/ t = tokens + 1
    BY <1>1, <1>2, KeptIn
  <2>3. /\ Cardinality(next) <= MaxRefreshTokens /\ tokens + 1 \in next
        /\ \A t \in Unexpired(server[s].grants) : tokens + 1 - t < MaxRefreshTokens => t \in next
    BY <1>1, KeptBound
  <2> HIDE DEF next
  <2>4. CASE SavesGrants(s, next) /\ held' \in {held, held \cup {tokens + 1}}
             /\ server' = [server EXCEPT ![s].owed = @ \ {c}, ![s].grants = next]
    <3>1. server'[s].grants = next /\ HasGrants(s)' /\ \A o \in Starts \ {s} : server'[o] = server[o]
      BY <1>1, <2>1, <2>4 DEF Memories, HasGrants
    <3> DEFINE used == {}
    <3>2. \A t : t \notin used
      OBVIOUS
    <3>3. held' \subseteq held \cup {tokens + 1}
      BY <2>4
    <3> HIDE DEF used
    <3>4. \A t \in 1..MaxTokens : rotations'[t] = IF t \in used THEN rotations[t] + 1 ELSE rotations[t]
      BY <2>1, <3>2
    <3>5. \A t \in used : t \in 1..tokens /\ t \in server[s].grants /\ t \notin held' /\ t \notin next
      BY <3>2
    <3>6. \A t \in Unexpired(server[s].grants) : tokens + 1 - t < MaxRefreshTokens => t \in next \/ t \notin held'
      BY <2>3
    <3> QED
      BY <1>9, <2>1, <2>2, <2>3, <2>4, <3>1, <3>3, <3>4, <3>5, <3>6
  <2>5. CASE SaveOfGrantsFails(s, next) /\ UNCHANGED held /\ server' = [server EXCEPT ![s].owed = @ \ {c}]
    <3>1. \A o \in Starts : server'[o].grants = server[o].grants /\ (HasGrants(o)' <=> HasGrants(o))
      BY <1>1, <2>5 DEF Memories, HasGrants
    <3> QED
      BY <1>8, <2>1, <2>2, <2>3, <2>5, <3>1
  <2> QED
    BY <2>1, <2>4, <2>5
<1>11. ASSUME NEW s \in Starts, NEW t \in 1..MaxTokens, ExchangeRefreshToken(s, t) PROVE Good
  <2> DEFINE next == (server[s].grants \ {t}) \cup {tokens + 1}
  <2>1. /\ HasGrants(s) /\ tokens < MaxTokens /\ tokens' = tokens + 1 /\ UNCHANGED <<expiredTokens>>
        /\ t \in server[s].grants /\ t \in 1..tokens
        /\ \/ /\ SavesGrants(s, next) /\ rotations' = [rotations EXCEPT ![t] = @ + 1]
              /\ held' \in {held \ {t}, (held \ {t}) \cup {tokens + 1}}
              /\ server' = [server EXCEPT ![s].grants = next]
           \/ SaveOfGrantsFails(s, next) /\ UNCHANGED <<held, rotations, server>>
    BY <1>1, <1>11 DEF ExchangeRefreshToken, HasGrants, Serving, At, Unexpired
  <2>2. next \in SUBSET (1..(tokens + 1)) /\ \A u \in next : u \in server[s].grants \/ u = tokens + 1
    BY <1>1, <1>2
  <2>3. Cardinality(next) <= MaxRefreshTokens
    <3>1. IsFiniteSet(server[s].grants) /\ Cardinality(server[s].grants) <= MaxRefreshTokens
          /\ Cardinality(server[s].grants) \in Nat
      BY <1>1, <1>3
    <3>2. IsFiniteSet(server[s].grants \ {t}) /\ Cardinality(server[s].grants \ {t}) = Cardinality(server[s].grants) - 1
      BY <2>1, <3>1, FS_RemoveElement
    <3>3. Cardinality(next) \in {Cardinality(server[s].grants \ {t}), Cardinality(server[s].grants \ {t}) + 1}
      BY <3>2, FS_AddElement
    <3> QED
      BY <1>2, <3>1, <3>2, <3>3
  <2>4. /\ tokens + 1 \in next /\ t \notin next
        /\ \A u \in Unexpired(server[s].grants) : tokens + 1 - u < MaxRefreshTokens => u \in next \/ u = t
    BY <1>2, <2>1 DEF Unexpired
  <2> HIDE DEF next
  <2>5. CASE SavesGrants(s, next) /\ rotations' = [rotations EXCEPT ![t] = @ + 1]
             /\ held' \in {held \ {t}, (held \ {t}) \cup {tokens + 1}}
             /\ server' = [server EXCEPT ![s].grants = next]
    <3>1. server'[s].grants = next /\ HasGrants(s)' /\ \A o \in Starts \ {s} : server'[o] = server[o]
      BY <1>1, <2>1, <2>5 DEF Memories, HasGrants
    <3> DEFINE used == {t}
    <3>2. \A u : u \in used <=> u = t
      OBVIOUS
    <3>3. t \notin held' /\ held' \subseteq held \cup {tokens + 1}
      BY <1>2, <2>1, <2>5
    <3> HIDE DEF used
    <3>4. \A u \in 1..MaxTokens : rotations'[u] = IF u \in used THEN rotations[u] + 1 ELSE rotations[u]
      BY <1>1, <2>5, <3>2
    <3>5. \A u \in used : u \in 1..tokens /\ u \in server[s].grants /\ u \notin held' /\ u \notin next
      BY <2>1, <2>4, <3>2, <3>3
    <3>6. \A u \in Unexpired(server[s].grants) : tokens + 1 - u < MaxRefreshTokens => u \in next \/ u \notin held'
      BY <2>4, <3>3
    <3> QED
      BY <1>9, <2>1, <2>2, <2>3, <2>4, <2>5, <3>1, <3>3, <3>4, <3>5, <3>6
  <2>6. CASE SaveOfGrantsFails(s, next) /\ UNCHANGED <<held, rotations, server>>
    <3>1. \A o \in Starts : server'[o].grants = server[o].grants /\ (HasGrants(o)' <=> HasGrants(o))
      BY <2>6 DEF HasGrants
    <3> QED
      BY <1>8, <2>1, <2>2, <2>3, <2>6, <3>1
  <2> QED
    BY <2>1, <2>5, <2>6
<1>12. Good
  BY <1>4, <1>5, <1>6, <1>7, <1>10, <1>11, OAuthMoves DEF Good, GrantsStep
<1> QED
  BY <1>12 DEF Good

\* Who was told of a registration is in the file and with every process.
LEMMA ClientsNext ==
  ASSUME OAuthInv, [OAuthNext]_oauthVars PROVE ClientsFollow'
<1>1. ClientsFollow /\ server \in [Starts -> Memories] /\ server' \in [Starts -> Memories]
  BY OAuthMoves DEF OAuthInv
<1>2. CASE ClientsQuiet
  BY <1>1, <1>2 DEF ClientsQuiet, ClientsFollow
<1>3. ASSUME NEW s \in Starts, LoadClients(s) PROVE ClientsFollow'
  <2>1. /\ server' = [server EXCEPT ![s].step = "grants", ![s].clients = clientsFile]
        /\ UNCHANGED <<clientsFile, registered, overlap>>
    BY <1>3 DEF LoadClients, filesVars, clientVars, troubleVars
  <2>2. server'[s].clients = clientsFile /\ \A o \in Starts \ {s} : server'[o] = server[o]
    BY <1>1, <2>1 DEF Memories
  <2> QED
    BY <1>1, <2>1, <2>2 DEF ClientsFollow, HasClients
<1>4. ASSUME NEW s \in Starts, NEW added, HasClients(s), SavesClients(s, server[s].clients \cup added),
             registered' \subseteq registered \cup added, server'[s].clients = server[s].clients \cup added,
             \A o \in Starts \ {s} : server'[o] = server[o]
      PROVE  ClientsFollow'
  <2>1. /\ clientsFile' = server[s].clients \cup added
        /\ overlap => overlap'
        /\ ~overlap' => AloneWithClients(s)
    BY <1>4, Saves
  <2>2. ~overlap' => registered \subseteq server[s].clients
    BY <1>1, <1>4, <2>1 DEF ClientsFollow
  <2>3. ~overlap' => \A o \in Starts \ {s} : ~HasClients(o)'
    BY <1>4, <2>1 DEF AloneWithClients, HasClients
  <2> QED
    BY <1>4, <2>1, <2>2, <2>3 DEF ClientsFollow
<1>5. ASSUME NEW s \in Starts, AddPreregistered(s) PROVE ClientsFollow'
  <2>1. /\ HasClients(s) /\ UNCHANGED registered
        /\ \/ /\ SavesClients(s, server[s].clients \cup {Preregistered})
              /\ server' = [server EXCEPT ![s].step = "binding", ![s].clients = server[s].clients \cup {Preregistered}]
           \/ Ends(s) /\ UNCHANGED <<clientsFile, overlap>>
    BY <1>5 DEF AddPreregistered, HasClients, At, clientVars
  <2>2. CASE Ends(s) /\ UNCHANGED <<clientsFile, overlap>>
    <3>1. Forgets(s)
      BY <1>1, <2>2, GoesToMoves
    <3> QED
      BY <1>1, <2>1, <2>2, <3>1 DEF Forgets, OthersStay, Idle, ClientsFollow, HasClients
  <2>3. CASE /\ SavesClients(s, server[s].clients \cup {Preregistered})
             /\ server' = [server EXCEPT ![s].step = "binding", ![s].clients = server[s].clients \cup {Preregistered}]
    <3>1. server'[s].clients = server[s].clients \cup {Preregistered} /\ \A o \in Starts \ {s} : server'[o] = server[o]
      BY <1>1, <2>3 DEF Memories
    <3> QED
      BY <1>4, <2>1, <2>3, <3>1
  <2> QED
    BY <2>1, <2>2, <2>3
<1>6. ASSUME NEW s \in Starts, NEW c \in Dynamic, Register(s, c) PROVE ClientsFollow'
  <2>1. /\ HasClients(s)
        /\ \/ /\ SavesClients(s, server[s].clients \cup {c}) /\ registered' = registered \cup {c}
              /\ server' = [server EXCEPT ![s].clients = @ \cup {c}]
           \/ UNCHANGED <<server, clientsFile, overlap, registered>>
    BY <1>6 DEF Register, HasClients, Serving, At
  <2>2. CASE UNCHANGED <<server, clientsFile, overlap, registered>>
    BY <1>1, <2>2 DEF ClientsFollow, HasClients
  <2>3. CASE /\ SavesClients(s, server[s].clients \cup {c}) /\ registered' = registered \cup {c}
             /\ server' = [server EXCEPT ![s].clients = @ \cup {c}]
    <3>1. server'[s].clients = server[s].clients \cup {c} /\ \A o \in Starts \ {s} : server'[o] = server[o]
      BY <1>1, <2>3 DEF Memories
    <3> QED
      BY <1>4, <2>1, <2>3, <3>1
  <2> QED
    BY <2>1, <2>2, <2>3
<1> QED
  BY <1>2, <1>3, <1>5, <1>6, OAuthMoves DEF ClientsStep

\* The key of the file changes only while nobody has one, or is withdrawn.
LEMMA KeyNext ==
  ASSUME OAuthInv, [OAuthNext]_oauthVars PROVE KeyFollows'
<1>1. KeyFollows /\ server \in [Starts -> Memories] /\ server' \in [Starts -> Memories] /\ keyFile \in NoFile..MaxKeys
      /\ keys \in 0..MaxKeys /\ MaxKeys \in Nat
  BY OAuthMoves, OAuthBounds DEF OAuthInv, OAuthTypeOK
<1>2. CASE KeyQuiet
  BY <1>1, <1>2 DEF KeyQuiet, KeyFollows
<1>3. ASSUME NEW s \in Starts, ~HasKey(s) \/ server'[s] = Idle, \A o \in Starts \ {s} : server'[o] = server[o],
             withdrawn' = withdrawn, keyFile' = keyFile \/ keyFile <= 0,
             HasKey(s)' => server'[s].key = keyFile' /\ keyFile' > 0
      PROVE  KeyFollows'
  BY <1>1, <1>3 DEF KeyFollows, HasKey, Idle
<1>4. ASSUME NEW s \in Starts, ReadKey(s) \/ WaitForKey(s) PROVE KeyFollows'
  <2>1. /\ UNCHANGED <<keyFile, withdrawn>> /\ ~HasKey(s)
        /\ \/ GoesTo(s, "creating") \/ Ends(s)
           \/ server' = [server EXCEPT ![s].step = "clients", ![s].key = keyFile] /\ keyFile # 0 /\ keyFile # NoFile
    <3>1. CASE ReadKey(s)
      <4>1. \/ GoesTo(s, "creating") \/ Ends(s)
            \/ server' = [server EXCEPT ![s].step = "clients", ![s].key = keyFile] /\ keyFile # 0 /\ keyFile # NoFile
        BY <3>1, Zenon DEF ReadKey
      <4> QED
        BY <3>1, <4>1 DEF ReadKey, HasKey, At, filesVars, troubleVars
    <3>2. CASE WaitForKey(s)
      BY <1>1, <3>2 DEF WaitForKey, HasKey, At, filesVars, troubleVars, NoFile
    <3> QED
      BY <1>4, <3>1, <3>2
  <2>2. CASE GoesTo(s, "creating")
    <3>1. Advances(s, "creating")
      BY <1>1, <2>2, GoesToMoves DEF StartSteps
    <3> QED
      BY <1>3, <2>1, <3>1 DEF Advances, OthersStay, HasKey
  <2>3. CASE Ends(s)
    <3>1. Forgets(s)
      BY <1>1, <2>3, GoesToMoves
    <3> QED
      BY <1>3, <2>1, <3>1 DEF Forgets, OthersStay, HasKey, Idle
  <2>4. CASE server' = [server EXCEPT ![s].step = "clients", ![s].key = keyFile] /\ keyFile # 0 /\ keyFile # NoFile
    <3>1. server'[s].key = keyFile /\ \A o \in Starts \ {s} : server'[o] = server[o]
      BY <1>1, <2>4 DEF Memories
    <3>2. keyFile > 0
      BY <1>1, <2>4 DEF NoFile
    <3> QED
      BY <1>3, <2>1, <3>1, <3>2
  <2> QED
    BY <2>1, <2>2, <2>3, <2>4
<1>5. ASSUME NEW s \in Starts, CreateKey(s) PROVE KeyFollows'
  <2>1. /\ withdrawn' = withdrawn /\ ~HasKey(s) /\ (keyFile' = keyFile \/ keyFile <= 0)
        /\ GoesTo(s, "writing") \/ GoesTo(s, "waiting")
    BY <1>1, <1>5 DEF CreateKey, HasKey, At, troubleVars, NoFile
  <2>2. Advances(s, "writing") \/ Advances(s, "waiting")
    BY <1>1, <2>1, GoesToMoves DEF StartSteps
  <2> QED
    BY <1>3, <2>1, <2>2 DEF Advances, OthersStay, HasKey
<1>6. ASSUME NEW s \in Starts, WriteKey(s) PROVE KeyFollows'
  <2>1. CASE withdrawn' = TRUE
    BY <2>1 DEF KeyFollows
  <2>2. CASE withdrawn' = withdrawn /\ withdrawn' # TRUE
    <3>1. /\ ~HasKey(s) /\ keyFile = 0
          /\ \/ keyFile' = keys + 1 /\ server' = [server EXCEPT ![s].step = "clients", ![s].key = keys + 1]
             \/ Ends(s)
             \/ GoesTo(s, "writing")
      BY <1>6, <2>2 DEF WriteKey, HasKey, At
    <3>2. CASE keyFile' = keys + 1 /\ server' = [server EXCEPT ![s].step = "clients", ![s].key = keys + 1]
      <4>1. server'[s].key = keys + 1 /\ \A o \in Starts \ {s} : server'[o] = server[o]
        BY <1>1, <3>2 DEF Memories
      <4>2. keys + 1 > 0
        BY <1>1
      <4> QED
        BY <1>1, <1>3, <2>2, <3>1, <3>2, <4>1, <4>2
    <3>3. CASE Ends(s)
      <4>1. Forgets(s)
        BY <1>1, <3>3, GoesToMoves
      <4> QED
        BY <1>3, <2>2, <3>1, <4>1 DEF Forgets, OthersStay, HasKey, Idle
    <3>4. CASE GoesTo(s, "writing")
      <4>1. Advances(s, "writing")
        BY <1>1, <3>4, GoesToMoves DEF StartSteps
      <4> QED
        BY <1>3, <2>2, <3>1, <4>1 DEF Advances, OthersStay, HasKey
    <3> QED
      BY <3>1, <3>2, <3>3, <3>4
  <2>3. withdrawn' = TRUE \/ withdrawn' = withdrawn
    BY <1>6 DEF WriteKey
  <2> QED
    BY <2>1, <2>2, <2>3
<1> QED
  BY <1>2, <1>4, <1>5, <1>6, OAuthMoves DEF KeyStep


-----------------------------------------------------------------------------
(* The whole invariant. *)

\* The files, counters and clients keep to their types.

\* The memories are typed by OAuthMoves and the file of the tokens by GrantsNext;
\* what is left are the counters, the other files and the record of the clients.
LEMMA OAuthTypesNext ==
  ASSUME OAuthInv, [OAuthNext]_oauthVars PROVE OAuthTypeOK'
<1> DEFINE KeyOK == keyFile \in NoFile..MaxKeys /\ keys \in 0..MaxKeys
           ClientsOK == clientsFile \subseteq Clients /\ registered \subseteq Dynamic
           CodesOK == codes \in 0..MaxCodes /\ expiredCodes \in 0..codes /\ codeUses \in [1..MaxCodes -> Nat]
           TokensOK == /\ tokens \in 0..MaxTokens /\ expiredTokens \in 0..tokens
                       /\ held \subseteq 1..MaxTokens /\ rotations \in [1..MaxTokens -> Nat]
           TroubleOK == {withdrawn, torn, overlap} \subseteq BOOLEAN
           FaultsOK == oauthFaults \in 0..MaxOAuthFaults /\ oauthStops \in 0..MaxOAuthStops
           Good == KeyOK' /\ ClientsOK' /\ CodesOK' /\ TokensOK' /\ TroubleOK' /\ FaultsOK'
<1>1. /\ server \in [Starts -> Memories] /\ server' \in [Starts -> Memories]
      /\ \A o \in Starts : Cardinality(server'[o].grants) <= MaxRefreshTokens
      /\ RotatedGone'
  BY OAuthMoves, GrantsNext
<1>2. KeyOK /\ ClientsOK /\ CodesOK /\ TokensOK /\ TroubleOK /\ FaultsOK
  BY DEF OAuthInv, OAuthTypeOK
<1>3. MaxKeys \in Nat /\ MaxCodes \in Nat /\ MaxTokens \in Nat /\ MaxOAuthFaults \in Nat /\ MaxOAuthStops \in Nat
  BY OAuthConstants
<1> USE <1>2, <1>3 DEF filesVars, clientVars, countVars, troubleVars
<1>4. ASSUME NEW s \in Starts, Start(s) \/ ReadKey(s) \/ WaitForKey(s) \/ LoadClients(s) \/ LoadGrants(s) \/ Bind(s) \/ Stop(s) PROVE Good
  <2>1. KeyOK'
    BY <1>4 DEF Start, ReadKey, WaitForKey, LoadClients, LoadGrants, Bind, Stop, NoFile
  <2>2. ClientsOK'
    BY <1>4 DEF Start, ReadKey, WaitForKey, LoadClients, LoadGrants, Bind, Stop
  <2>3. CodesOK'
    BY <1>4 DEF Start, ReadKey, WaitForKey, LoadClients, LoadGrants, Bind, Stop
  <2>4. TokensOK'
    BY <1>4 DEF Start, ReadKey, WaitForKey, LoadClients, LoadGrants, Bind, Stop
  <2>5. TroubleOK'
    BY <1>4, Zenon DEF Start, ReadKey, WaitForKey, LoadClients, LoadGrants, Bind, Stop
  <2>6. FaultsOK'
    BY <1>4 DEF Start, ReadKey, WaitForKey, LoadClients, LoadGrants, Bind, Stop
  <2> QED
    BY <2>1, <2>2, <2>3, <2>4, <2>5, <2>6
<1>5. ASSUME NEW s \in Starts, CreateKey(s) PROVE Good
  <2>1. KeyOK'
    BY <1>5 DEF CreateKey, NoFile
  <2>2. ClientsOK'
    BY <1>5 DEF CreateKey
  <2>3. CodesOK'
    BY <1>5 DEF CreateKey
  <2>4. TokensOK'
    BY <1>5 DEF CreateKey
  <2>5. TroubleOK'
    BY <1>5, Zenon DEF CreateKey
  <2>6. FaultsOK'
    BY <1>5 DEF CreateKey
  <2> QED
    BY <2>1, <2>2, <2>3, <2>4, <2>5, <2>6
<1>6. ASSUME NEW s \in Starts, WriteKey(s) PROVE Good
  <2>1. KeyOK'
    BY <1>6, SMTT(40) DEF WriteKey, FileFails, NoFile
  <2>2. ClientsOK'
    BY <1>6 DEF WriteKey, FileFails
  <2>3. CodesOK'
    BY <1>6 DEF WriteKey, FileFails
  <2>4. TokensOK'
    BY <1>6 DEF WriteKey, FileFails
  <2>5. TroubleOK'
    BY <1>6, Zenon DEF WriteKey, FileFails
  <2>6. FaultsOK'
    BY <1>6, SMTT(40) DEF WriteKey, FileFails
  <2> QED
    BY <2>1, <2>2, <2>3, <2>4, <2>5, <2>6
<1>7. ASSUME NEW s \in Starts, SavePruned(s) PROVE Good
  <2>1. KeyOK'
    BY <1>7 DEF SavePruned, SavesGrants, SaveOfGrantsFails, FileFails, NoFile
  <2>2. ClientsOK'
    BY <1>7 DEF SavePruned, SavesGrants, SaveOfGrantsFails, FileFails
  <2>3. CodesOK'
    BY <1>7 DEF SavePruned, SavesGrants, SaveOfGrantsFails, FileFails
  <2>4. TokensOK'
    BY <1>7 DEF SavePruned, SavesGrants, SaveOfGrantsFails, FileFails
  <2>5. TroubleOK'
    BY <1>7, Zenon DEF SavePruned, SavesGrants, SaveOfGrantsFails, FileFails
  <2>6. FaultsOK'
    BY <1>7 DEF SavePruned, SavesGrants, SaveOfGrantsFails, FileFails
  <2> QED
    BY <2>1, <2>2, <2>3, <2>4, <2>5, <2>6
<1>8. ASSUME NEW s \in Starts, AddPreregistered(s) PROVE Good
  <2> server[s].clients \subseteq Clients /\ Preregistered \in Clients /\ Dynamic \subseteq Clients
    BY <1>1 DEF Memories, Clients
  <2>1. KeyOK'
    BY <1>8 DEF AddPreregistered, SavesClients, FileFails, NoFile
  <2>2. ClientsOK'
    BY <1>8 DEF AddPreregistered, SavesClients, FileFails
  <2>3. CodesOK'
    BY <1>8 DEF AddPreregistered, SavesClients, FileFails
  <2>4. TokensOK'
    BY <1>8 DEF AddPreregistered, SavesClients, FileFails
  <2>5. TroubleOK'
    BY <1>8, Zenon DEF AddPreregistered, SavesClients, FileFails
  <2>6. FaultsOK'
    BY <1>8 DEF AddPreregistered, SavesClients, FileFails
  <2> QED
    BY <2>1, <2>2, <2>3, <2>4, <2>5, <2>6
<1>9. ASSUME NEW s \in Starts, NEW c \in Dynamic, Register(s, c) PROVE Good
  <2> server[s].clients \subseteq Clients /\ Preregistered \in Clients /\ Dynamic \subseteq Clients
    BY <1>1 DEF Memories, Clients
  <2>1. KeyOK'
    BY <1>9 DEF Register, SavesClients, FileFails, NoFile
  <2>2. ClientsOK'
    BY <1>9 DEF Register, SavesClients, FileFails
  <2>3. CodesOK'
    BY <1>9 DEF Register, SavesClients, FileFails
  <2>4. TokensOK'
    BY <1>9 DEF Register, SavesClients, FileFails
  <2>5. TroubleOK'
    BY <1>9, Zenon DEF Register, SavesClients, FileFails
  <2>6. FaultsOK'
    BY <1>9 DEF Register, SavesClients, FileFails
  <2> QED
    BY <2>1, <2>2, <2>3, <2>4, <2>5, <2>6
<1>10. ASSUME NEW s \in Starts, IssueCode(s) PROVE Good
  <2>1. KeyOK'
    BY <1>10 DEF IssueCode, NoFile
  <2>2. ClientsOK'
    BY <1>10 DEF IssueCode
  <2>3. CodesOK'
    BY <1>10, SMTT(40) DEF IssueCode
  <2>4. TokensOK'
    BY <1>10 DEF IssueCode
  <2>5. TroubleOK'
    BY <1>10, Zenon DEF IssueCode
  <2>6. FaultsOK'
    BY <1>10 DEF IssueCode
  <2> QED
    BY <2>1, <2>2, <2>3, <2>4, <2>5, <2>6
<1>11. ASSUME NEW s \in Starts, NEW c \in 1..MaxCodes, NEW right \in BOOLEAN, ExchangeCode(s, c, right) PROVE Good
  <2>1. KeyOK'
    BY <1>11 DEF ExchangeCode, NoFile
  <2>2. ClientsOK'
    BY <1>11 DEF ExchangeCode
  <2>3. CodesOK'
    <3>1. /\ codes' = codes /\ expiredCodes' = expiredCodes
          /\ codeUses' = codeUses \/ codeUses' = [codeUses EXCEPT ![c] = @ + 1]
      BY <1>11 DEF ExchangeCode
    <3>2. [codeUses EXCEPT ![c] = @ + 1] \in [1..MaxCodes -> Nat]
      OBVIOUS
    <3> QED
      BY <3>1, <3>2
  <2>4. TokensOK'
    BY <1>11 DEF ExchangeCode
  <2>5. TroubleOK'
    BY <1>11, Zenon DEF ExchangeCode
  <2>6. FaultsOK'
    BY <1>11 DEF ExchangeCode
  <2> QED
    BY <2>1, <2>2, <2>3, <2>4, <2>5, <2>6
<1>12. ASSUME NEW s \in Starts, NEW c \in 1..MaxCodes, IssueRefreshToken(s, c) PROVE Good
  <2>1. KeyOK'
    BY <1>12 DEF IssueRefreshToken, SavesGrants, SaveOfGrantsFails, FileFails, NoFile
  <2>2. ClientsOK'
    BY <1>12 DEF IssueRefreshToken, SavesGrants, SaveOfGrantsFails, FileFails
  <2>3. CodesOK'
    BY <1>12 DEF IssueRefreshToken, SavesGrants, SaveOfGrantsFails, FileFails
  <2>4. TokensOK'
    <3>1. /\ tokens' = tokens + 1 /\ tokens < MaxTokens /\ expiredTokens' = expiredTokens /\ rotations' = rotations
          /\ held' = held \/ held' = held \cup {tokens + 1}
      BY <1>12 DEF IssueRefreshToken
    <3>2. tokens + 1 \in 1..MaxTokens
      BY <3>1
    <3>3. expiredTokens \in 0..(tokens + 1)
      OBVIOUS
    <3>5. held' \subseteq 1..MaxTokens
      BY <3>1, <3>2
    <3>6. tokens' \in 0..MaxTokens /\ expiredTokens' \in 0..tokens'
      BY <3>1, <3>2, <3>3
    <3>7. rotations' \in [1..MaxTokens -> Nat]
      BY <3>1
    <3> QED
      BY <3>5, <3>6, <3>7
  <2>5. TroubleOK'
    BY <1>12, Zenon DEF IssueRefreshToken, SavesGrants, SaveOfGrantsFails, FileFails
  <2>6. FaultsOK'
    BY <1>12, SMTT(40) DEF IssueRefreshToken, SavesGrants, SaveOfGrantsFails, FileFails
  <2> QED
    BY <2>1, <2>2, <2>3, <2>4, <2>5, <2>6
<1>13. ASSUME NEW s \in Starts, NEW t \in 1..MaxTokens, ExchangeRefreshToken(s, t) PROVE Good
  <2>1. KeyOK'
    BY <1>13 DEF ExchangeRefreshToken, SavesGrants, SaveOfGrantsFails, FileFails, NoFile
  <2>2. ClientsOK'
    BY <1>13 DEF ExchangeRefreshToken, SavesGrants, SaveOfGrantsFails, FileFails
  <2>3. CodesOK'
    BY <1>13 DEF ExchangeRefreshToken, SavesGrants, SaveOfGrantsFails, FileFails
  <2>4. TokensOK'
    <3>1. /\ tokens' = tokens + 1 /\ tokens < MaxTokens /\ expiredTokens' = expiredTokens
          /\ rotations' = rotations \/ rotations' = [rotations EXCEPT ![t] = @ + 1]
          /\ held' \in {held, held \ {t}, (held \ {t}) \cup {tokens + 1}}
      BY <1>13 DEF ExchangeRefreshToken
    <3>2. tokens + 1 \in 1..MaxTokens
      BY <3>1
    <3>3. expiredTokens \in 0..(tokens + 1)
      OBVIOUS
    <3>4. [rotations EXCEPT ![t] = @ + 1] \in [1..MaxTokens -> Nat]
      OBVIOUS
    <3>5. held' \subseteq 1..MaxTokens
      BY <3>1, <3>2
    <3>6. tokens' \in 0..MaxTokens /\ expiredTokens' \in 0..tokens'
      BY <3>1, <3>2, <3>3
    <3>7. rotations' \in [1..MaxTokens -> Nat]
      BY <3>1, <3>4
    <3> QED
      BY <3>5, <3>6, <3>7
  <2>5. TroubleOK'
    BY <1>13, Zenon DEF ExchangeRefreshToken, SavesGrants, SaveOfGrantsFails, FileFails
  <2>6. FaultsOK'
    BY <1>13, SMTT(40) DEF ExchangeRefreshToken, SavesGrants, SaveOfGrantsFails, FileFails
  <2> QED
    BY <2>1, <2>2, <2>3, <2>4, <2>5, <2>6
<1>14. ASSUME CodeExpires \/ TokenExpires \/ UNCHANGED oauthVars PROVE Good
  <2>1. /\ UNCHANGED <<keyFile, clientsFile, registered, held, codeUses, rotations, keys, codes, tokens>>
        /\ UNCHANGED <<oauthFaults, oauthStops, withdrawn, torn, overlap>>
        /\ expiredCodes' = expiredCodes \/ (expiredCodes < codes /\ expiredCodes' = expiredCodes + 1)
        /\ expiredTokens' = expiredTokens \/ (expiredTokens < tokens /\ expiredTokens' = expiredTokens + 1)
    BY <1>14 DEF CodeExpires, TokenExpires, oauthVars
  <2>2. expiredCodes' \in 0..codes /\ expiredTokens' \in 0..tokens
    BY <2>1
  <2>3. KeyOK' /\ ClientsOK' /\ FaultsOK' /\ CodesOK' /\ TokensOK'
    BY <2>1, <2>2
  <2>4. TroubleOK'
    BY <2>1, Zenon
  <2> QED
    BY <2>3, <2>4
<1> HIDE DEF Good
<1>15. Good
  BY <1>4, <1>5, <1>6, <1>7, <1>8, <1>9, <1>10, <1>11, <1>12, <1>13, <1>14, Zenon DEF OAuthNext
<1>16. KeyOK' /\ ClientsOK' /\ CodesOK' /\ TokensOK' /\ TroubleOK' /\ FaultsOK'
  BY <1>15 DEF Good
<1>17. grantsFile' \subseteq 1..MaxTokens
  BY <1>1, <1>16 DEF RotatedGone
<1> QED
  BY <1>1, <1>16, <1>17 DEF OAuthTypeOK, Memories

\* Every step keeps the invariant.
LEMMA OAuthInvNext == OAuthInv /\ [OAuthNext]_oauthVars => OAuthInv'
BY OAuthTypesNext, CodesNext, GrantsNext, ClientsNext, KeyNext DEF OAuthInv

\* It holds of an empty home directory.
LEMMA OAuthInvInit == OAuthInit => OAuthInv
<1> SUFFICES ASSUME OAuthInit PROVE OAuthInv
  OBVIOUS
<1>1. Cardinality({}) = 0
  BY FS_EmptySet
<1>2. MaxKeys \in Nat /\ MaxCodes \in Nat /\ MaxTokens \in Nat /\ MaxRefreshTokens \in Nat /\ MaxOAuthFaults \in Nat /\ MaxOAuthStops \in Nat
  BY OAuthConstants
<1>3. \A s \in Starts : server[s] = Idle
  BY DEF OAuthInit
<1>4. server \in [Starts -> Memories]
  BY IdleIsMemory DEF OAuthInit
<1>5. OAuthTypeOK
  <2>1. /\ keyFile \in NoFile..MaxKeys /\ clientsFile \subseteq Clients /\ grantsFile \subseteq 1..MaxTokens
        /\ registered \subseteq Dynamic /\ held \subseteq 1..MaxTokens
    BY <1>2 DEF OAuthInit, NoFile
  <2>2. codeUses \in [1..MaxCodes -> Nat] /\ rotations \in [1..MaxTokens -> Nat]
    BY DEF OAuthInit
  <2>3. /\ keys \in 0..MaxKeys /\ codes \in 0..MaxCodes /\ tokens \in 0..MaxTokens
        /\ expiredCodes \in 0..codes /\ expiredTokens \in 0..tokens
        /\ oauthFaults \in 0..MaxOAuthFaults /\ oauthStops \in 0..MaxOAuthStops
    BY <1>2 DEF OAuthInit
  <2>4. {withdrawn, torn, overlap} \subseteq BOOLEAN
    BY DEF OAuthInit
  <2>5. \A s \in Starts : Cardinality(server[s].grants) <= MaxRefreshTokens
    BY <1>1, <1>2, <1>3 DEF Idle
  <2> QED
    BY <1>4, <2>1, <2>2, <2>3, <2>4, <2>5 DEF OAuthTypeOK, Memories
<1>6. CodesOnce
  BY <1>2, <1>3 DEF OAuthInit, CodesOnce, Idle
<1>7. RotatedGone /\ FileBounded
  BY <1>1, <1>2, <1>3 DEF OAuthInit, RotatedGone, FileBounded, HasGrants, Idle
<1>8. HeldKept /\ ClientsFollow /\ KeyFollows
  BY <1>3 DEF OAuthInit, HeldKept, ClientsFollow, KeyFollows, HasGrants, HasClients, HasKey, Idle, Unexpired
<1> QED
  BY <1>5, <1>6, <1>7, <1>8 DEF OAuthInv

\* It says at least what a client may rely on.
LEMMA OAuthInvHolds == OAuthInv => CredentialsHold
<1> SUFFICES ASSUME OAuthInv PROVE CredentialsHold
  OBVIOUS
<1>1. UsedOnce
  <2>1. rotations \in [1..MaxTokens -> Nat]
    BY DEF OAuthInv, OAuthTypeOK
  <2>2. ~overlap => \A t \in 1..MaxTokens : rotations[t] <= 1
    BY <2>1 DEF OAuthInv, RotatedGone
  <2> QED
    BY <2>2 DEF OAuthInv, CodesOnce, UsedOnce
<1>2. TokensKept
  BY DEF OAuthInv, HeldKept, TokensKept, Serving, At, HasGrants
<1>3. ClientsAndKeyKept
  BY DEF OAuthInv, ClientsFollow, KeyFollows, ClientsAndKeyKept, Serving, At, HasClients, HasKey
<1> QED
  BY <1>1, <1>2, <1>3 DEF CredentialsHold

LEMMA OAuthInductive == OAuthSpec => []OAuthInv
BY OAuthInvInit, OAuthInvNext, PTL DEF OAuthSpec

\* A code and a refresh token are exchanged once, and what a client was given
\* -- its registration, its refresh token, the key its access tokens are signed
\* with -- outlives the process that gave it: Server.ExchangeCode,
\* Server.ExchangeRefreshToken, loadRefreshLocked, Registry.Register and
\* LoadOrCreateTokenSecret, through failed writes and restarts at any step.
THEOREM CredentialsOutliveTheProcess == OAuthSpec => []CredentialsHold
BY OAuthInductive, OAuthInvHolds, PTL

-----------------------------------------------------------------------------
(* Servers that start on one home: LifecycleInv is inductive. *)

\* What a server has passed is recorded.
MigratedSoFar ==
  \A s \in Servers :
    1..(migration[s] - 1) \subseteq schema.recorded /\ (stage[s] = "apply" => migration[s] \in Migrations)

\* Only the server that serves has the port, and it has it as long as it lives.
PortIsServed == \A s \in Servers : stage[s] = "serving" <=> port = s

\* A server that lives alone finds what it has looked at unchanged, and nothing
\* called running once it has swept.
AloneFindsItSo ==
  /\ \A s, t \in Alive(stage) : s = t
  /\ \A s \in Servers :
       /\ stage[s] \notin {"close", "unlink", "remove_file"}
       /\ stage[s] = "apply" => migration[s] \notin schema.recorded
       /\ stage[s] = "remove" => socket # NoServer
       /\ stage[s] = "listen" => socket = NoServer
       /\ stage[s] \in {"sweep_operations", "look", "remove", "listen", "bind"} => running["task"] = {}
       /\ stage[s] \in {"look", "remove", "listen", "bind"} => running["operation"] = {}
       /\ stage[s] = "serving" => \A k \in WorkKinds : running[k] \subseteq {s}

\* A server on its way up, alone on it, has made the file of its socket, or is to
\* make it and there is nobody who serves.
OwnSockets ==
  /\ \A s, t \in InPassing(stage) : s = t
  /\ \A s \in Servers :
       /\ stage[s] \in {"bind", "serving"} => socket = s
       /\ stage[s] \in {"remove", "listen"} => \A t \in Servers : stage[t] # "serving"
       /\ stage[s] \notin {"unlink", "remove_file"}

LifecycleInv ==
  /\ LifecycleTypeOK /\ IsFiniteSet(Alive(stage))
  /\ SchemaIsWhole /\ ServesTheWholeSchema /\ MigratedSoFar /\ PortIsServed
  /\ ~alongside => AloneFindsItSo
  /\ ~together => OwnSockets
LEMMA LifecycleInitially == LifecycleInit => LifecycleInv
<1> SUFFICES ASSUME LifecycleInit PROVE LifecycleInv
  OBVIOUS
<1>1. Alive(stage) = {} /\ InPassing(stage) = {}
  BY DEF LifecycleInit, Alive, InPassing
<1>2. IsFiniteSet(Alive(stage))
  BY <1>1, FS_EmptySet
<1>3. LifecycleTypeOK
  <2>1. 1 \in 1..(LastMigration + 1) /\ 0 \in 0..MaxStarts /\ 0 \in 0..MaxStartFaults
    BY LifecycleAssumption
  <2>2. schema \in [effects : [Migrations -> Nat], recorded : SUBSET Migrations]
    BY DEF LifecycleInit
  <2>3. stage \in [Servers -> Stages] /\ running \in [WorkKinds -> SUBSET Servers]
    BY DEF LifecycleInit, Stages
  <2>4. migration \in [Servers -> 1..(LastMigration + 1)]
    BY <2>1 DEF LifecycleInit
  <2> QED
    BY <2>1, <2>2, <2>3, <2>4 DEF LifecycleInit, LifecycleTypeOK
<1>4. SchemaIsWhole /\ ServesTheWholeSchema /\ MigratedSoFar
  BY LifecycleAssumption DEF LifecycleInit, SchemaIsWhole, ServesTheWholeSchema, MigratedSoFar
<1>5. PortIsServed /\ AloneFindsItSo /\ OwnSockets
  BY <1>1, LifecycleAssumption DEF LifecycleInit, PortIsServed, AloneFindsItSo, OwnSockets
<1> QED
  BY <1>2, <1>3, <1>4, <1>5 DEF LifecycleInv

\* A finite set of not more than one has one element.
LEMMA NotMoreThanOne ==
  ASSUME NEW S, IsFiniteSet(S), ~(Cardinality(S) > 1), NEW a \in S, NEW b \in S
  PROVE  a = b
<1> SUFFICES ASSUME a # b PROVE FALSE
  OBVIOUS
<1>1. IsFiniteSet({a}) /\ Cardinality({a}) = 1
  BY FS_Singleton
<1>2. {a, b} = {a} \cup {b} /\ b \notin {a} /\ {a, b} \subseteq S
  OBVIOUS
<1>3. Cardinality({a, b}) = 2
  BY <1>1, <1>2, FS_AddElement
<1>4. Cardinality({a, b}) <= Cardinality(S) /\ Cardinality(S) \in Nat
  BY <1>2, FS_Subset, FS_CardinalityType
<1> QED
  BY <1>3, <1>4

\* Where a step of the life of a server leads to.
LEMMA StageOf ==
  ASSUME LifecycleTypeOK, NEW s \in Servers, NEW to \in Stages, Enters(s, to)
  PROVE  /\ stage' \in [Servers -> Stages] /\ alongside' \in BOOLEAN /\ together' \in BOOLEAN
         /\ stage'[s] = to /\ \A t \in Servers : t # s => stage'[t] = stage[t]
BY DEF LifecycleTypeOK, Enters

LEMMA AliveStaysFinite ==
  ASSUME LifecycleTypeOK, IsFiniteSet(Alive(stage)), NEW s \in Servers, NEW to \in Stages, Enters(s, to)
  PROVE  IsFiniteSet(Alive(stage')) /\ IsFiniteSet(InPassing(stage'))
<1>1. Alive(stage') \subseteq Alive(stage) \cup {s} /\ InPassing(stage') \subseteq Alive(stage')
  BY StageOf DEF Alive, InPassing
<1>2. IsFiniteSet(Alive(stage) \cup {s})
  BY FS_AddElement
<1> QED
  BY <1>1, <1>2, FS_Subset

\* Two servers live at one time, unless all others are down.
LEMMA AloneAfterStep ==
  ASSUME LifecycleTypeOK, IsFiniteSet(Alive(stage)), NEW s \in Servers, NEW to \in Stages, Enters(s, to),
         ~alongside', stage[s] # "down" \/ to # "down",
         ~alongside => \A t, u \in Alive(stage) : t = u
  PROVE  /\ to # "down" => ~alongside
         /\ \A t \in Servers : t # s => stage'[t] = "down"
<1>1. IsFiniteSet(Alive(stage'))
  BY AliveStaysFinite
<1>2. CASE Alive(stage') = {}
  BY <1>2, StageOf DEF Alive
<1>3. CASE Alive(stage') # {}
  <2>1. ~alongside /\ ~(Cardinality(Alive(stage')) > 1)
    BY <1>3 DEF Enters
  <2>2. \A t, u \in Alive(stage') : t = u
    BY <1>1, <2>1, NotMoreThanOne
  <2>3. CASE to # "down"
    BY <2>1, <2>2, <2>3, StageOf DEF Alive
  <2>4. CASE to = "down"
    <3>1. s \in Alive(stage) /\ \A t \in Servers : t # s => t \notin Alive(stage)
      BY <2>1, <2>4 DEF Alive
    <3> QED
      BY <3>1, <2>4, StageOf DEF Alive
  <2> QED
    BY <2>3, <2>4
<1> QED
  BY <1>2, <1>3

\* Two servers are on their way at one time, unless nobody lives or they were apart
\* and are.
LEMMA ApartAfterStep ==
  ASSUME LifecycleTypeOK, IsFiniteSet(Alive(stage)), NEW s \in Servers, NEW to \in Stages, Enters(s, to), ~together'
  PROVE  \/ \A t \in Servers : stage'[t] = "down"
         \/ ~together /\ \A t, u \in InPassing(stage') : t = u
<1>1. IsFiniteSet(InPassing(stage'))
  BY AliveStaysFinite
<1>2. CASE Alive(stage') = {}
  BY <1>2 DEF Alive
<1>3. CASE Alive(stage') # {}
  <2>1. ~together /\ ~(Cardinality(InPassing(stage')) > 1)
    BY <1>3 DEF Enters
  <2> QED
    BY <1>1, <2>1, NotMoreThanOne
<1> QED
  BY <1>2, <1>3

-----------------------------------------------------------------------------
(* The steps of a server. *)

FailingStarts == {"prepare", "check", "apply", "sweep_tasks", "sweep_operations"}

\* Types.
LEMMA LifecycleTypesKept ==
  ASSUME LifecycleInv, [LifecycleNext]_lifecycleVars
  PROVE  LifecycleTypeOK'
<1> USE LifecycleAssumption DEF LifecycleInv
<1>1. ASSUME NEW s \in Servers, StartServer(s) PROVE LifecycleTypeOK'
  BY <1>1, StageOf DEF StartServer, LifecycleTypeOK, Stages, startBounds, history, WorkKinds, Migrations, Alive
<1>2. ASSUME NEW s \in Servers, Prepare(s) PROVE LifecycleTypeOK'
  BY <1>2, StageOf DEF Prepare, LifecycleTypeOK, Stages, startBounds, history, WorkKinds, Migrations, Alive
<1>3. ASSUME NEW s \in Servers, CheckMigration(s) PROVE LifecycleTypeOK'
  BY <1>3, StageOf DEF CheckMigration, LifecycleTypeOK, Stages, startBounds, history, WorkKinds, Migrations, Alive
<1>4. ASSUME NEW s \in Servers, Migrate(s) PROVE LifecycleTypeOK'
  <2>1. CASE MigrationFails(migration[s])
    BY <1>4, <2>1, StageOf DEF Migrate, LifecycleTypeOK, Stages, startBounds
  <2>2. CASE ~MigrationFails(migration[s])
    <3>1. migration[s] \in Migrations /\ migration[s] + 1 \in 1..(LastMigration + 1)
      BY <1>4, <2>2 DEF Migrate, LifecycleTypeOK, Migrations, MigratedSoFar
    <3>2. schema' \in [effects : [Migrations -> Nat], recorded : SUBSET Migrations]
      BY <1>4, <2>2, <3>1 DEF Migrate, ApplyMigration, LifecycleTypeOK
    <3> QED
      BY <1>4, <2>2, <3>1, <3>2, StageOf DEF Migrate, LifecycleTypeOK, Stages, startBounds
  <2> QED
    BY <2>1, <2>2
<1>5. ASSUME NEW s \in Servers, NEW at \in FailingStarts, StartFails(s, at) PROVE LifecycleTypeOK'
  BY <1>5, StageOf DEF StartFails, LifecycleTypeOK, Stages, startBounds, history, WorkKinds, Migrations, Alive
<1>6. ASSUME NEW s \in Servers, SweepTasks(s) PROVE LifecycleTypeOK'
  BY <1>6, StageOf DEF SweepTasks, Sweep, LifecycleTypeOK, Stages, startBounds, history, WorkKinds, Migrations, Alive
<1>7. ASSUME NEW s \in Servers, SweepOperations(s) PROVE LifecycleTypeOK'
  BY <1>7, StageOf DEF SweepOperations, Sweep, LifecycleTypeOK, Stages, startBounds, history, WorkKinds, Migrations, Alive
<1>8. ASSUME NEW s \in Servers, LookAtSocket(s) PROVE LifecycleTypeOK'
  BY <1>8, StageOf DEF LookAtSocket, LifecycleTypeOK, Stages, startBounds, history, WorkKinds, Migrations, Alive
<1>9. ASSUME NEW s \in Servers, RemoveStale(s) PROVE LifecycleTypeOK'
  BY <1>9, StageOf DEF RemoveStale, LifecycleTypeOK, Stages, startBounds, history, WorkKinds, Migrations, Alive
<1>10. ASSUME NEW s \in Servers, ListenOnSocket(s) PROVE LifecycleTypeOK'
  BY <1>10, StageOf DEF ListenOnSocket, LifecycleTypeOK, Stages, startBounds, history, WorkKinds, Migrations, Alive
<1>11. ASSUME NEW s \in Servers, BindPort(s) PROVE LifecycleTypeOK'
  BY <1>11, StageOf DEF BindPort, LifecycleTypeOK, Stages, startBounds, history, WorkKinds, Migrations, Alive
<1>12. ASSUME NEW s \in Servers, AcceptWork(s) PROVE LifecycleTypeOK'
  BY <1>12, StageOf DEF AcceptWork, LifecycleTypeOK, Stages, startBounds, history, WorkKinds, Migrations, Alive
<1>13. ASSUME NEW s \in Servers, CloseListener(s) PROVE LifecycleTypeOK'
  BY <1>13, StageOf DEF CloseListener, LifecycleTypeOK, Stages, startBounds, history, WorkKinds, Migrations, Alive
<1>14. ASSUME NEW s \in Servers, CloseServer(s) PROVE LifecycleTypeOK'
  BY <1>14, StageOf DEF CloseServer, LifecycleTypeOK, Stages, startBounds, history, WorkKinds, Migrations, Alive
<1>15. ASSUME NEW s \in Servers, ServerEnds(s) PROVE LifecycleTypeOK'
  BY <1>15, StageOf DEF ServerEnds, LifecycleTypeOK, Stages, startBounds, history, WorkKinds, Migrations, Alive
<1>16. CASE UNCHANGED lifecycleVars
  BY <1>16 DEF lifecycleVars, startBounds, history, LifecycleTypeOK, Stages, startBounds, history, WorkKinds, Migrations, Alive
<1> QED
  BY <1>1, <1>2, <1>3, <1>4, <1>5, <1>6, <1>7, <1>8, <1>9, <1>10, <1>11, <1>12, <1>13, <1>14, <1>15, <1>16 DEF LifecycleNext, FailingStarts

\* The schema: a migration is applied by one who found it missing, after all before it.
LEMMA SchemaStaysWhole ==
  ASSUME LifecycleInv, [LifecycleNext]_lifecycleVars
  PROVE  SchemaIsWhole' /\ ServesTheWholeSchema' /\ MigratedSoFar'
<1> USE LifecycleAssumption DEF LifecycleInv
<1>1. ASSUME NEW s \in Servers, StartServer(s) PROVE SchemaIsWhole' /\ ServesTheWholeSchema' /\ MigratedSoFar'
  <2>1. migration'[s] = 1 /\ \A t \in Servers : t # s => migration'[t] = migration[t]
    BY <1>1 DEF StartServer, LifecycleTypeOK
  <2>2. 1..(1 - 1) = {}
    OBVIOUS
  <2> QED
    BY <1>1, <2>1, <2>2, StageOf DEF StartServer, Stages, SchemaIsWhole, ServesTheWholeSchema, MigratedSoFar
<1>2. ASSUME NEW s \in Servers, Prepare(s) PROVE SchemaIsWhole' /\ ServesTheWholeSchema' /\ MigratedSoFar'
  BY <1>2, StageOf DEF Prepare, Stages, SchemaIsWhole, ServesTheWholeSchema, MigratedSoFar
<1>3. ASSUME NEW s \in Servers, CheckMigration(s) PROVE SchemaIsWhole' /\ ServesTheWholeSchema' /\ MigratedSoFar'
  <2> DEFINE v == migration[s]
  <2>1. CASE v > LastMigration
    <3>1. v - 1 = LastMigration
      BY <2>1 DEF LifecycleTypeOK
    <3>2. schema.recorded = Migrations
      BY <3>1 DEF LifecycleTypeOK, MigratedSoFar, Migrations
    <3>3. Enters(s, "sweep_tasks") /\ UNCHANGED <<schema, migration>>
      BY <1>3, <2>1 DEF CheckMigration, LifecycleTypeOK
    <3> QED
      BY <3>2, <3>3, StageOf DEF Stages, SchemaIsWhole, ServesTheWholeSchema, MigratedSoFar
  <2>2. CASE v <= LastMigration /\ v \in schema.recorded
    <3>1. v \in Int /\ 1..v \subseteq schema.recorded
      BY <2>2 DEF LifecycleTypeOK, MigratedSoFar, SchemaIsWhole
    <3>2. migration' = [migration EXCEPT ![s] = v + 1] /\ Enters(s, "check") /\ schema' = schema
      BY <1>3, <2>2 DEF CheckMigration, LifecycleTypeOK
    <3>3. /\ migration'[s] = v + 1 /\ \A t \in Servers : t # s => migration'[t] = migration[t]
          /\ stage'[s] = "check" /\ \A t \in Servers : t # s => stage'[t] = stage[t]
      BY <3>2, StageOf DEF LifecycleTypeOK, Stages
    <3>4. ASSUME NEW t \in Servers PROVE 1..(migration'[t] - 1) \subseteq schema.recorded
      <4>1. CASE t = s
        <5>1. migration'[t] - 1 = v
          BY <3>1, <3>3, <4>1
        <5> QED
          BY <3>1, <5>1
      <4>2. CASE t # s
        BY <3>3, <4>2 DEF MigratedSoFar
      <4> QED
        BY <4>1, <4>2
    <3> QED
      BY <3>2, <3>3, <3>4 DEF SchemaIsWhole, ServesTheWholeSchema, MigratedSoFar
  <2>3. CASE v <= LastMigration /\ v \notin schema.recorded
    <3>1. v \in Migrations
      BY <2>3 DEF LifecycleTypeOK, Migrations
    <3>2. Enters(s, "apply") /\ UNCHANGED <<schema, migration>>
      BY <1>3, <2>3 DEF CheckMigration, LifecycleTypeOK
    <3> QED
      BY <3>1, <3>2, StageOf DEF Stages, SchemaIsWhole, ServesTheWholeSchema, MigratedSoFar
  <2> QED
    BY <2>1, <2>2, <2>3 DEF LifecycleTypeOK
<1>4. ASSUME NEW s \in Servers, Migrate(s) PROVE SchemaIsWhole' /\ ServesTheWholeSchema' /\ MigratedSoFar'
  <2> DEFINE v == migration[s]
  <2>1. CASE MigrationFails(v)
    BY <1>4, <2>1, StageOf DEF Migrate, Stages, SchemaIsWhole, ServesTheWholeSchema, MigratedSoFar
  <2>2. CASE ~MigrationFails(v)
    <3>1. v \in Migrations /\ v \notin schema.recorded /\ schema.effects[v] = 0 /\ 1..(v - 1) \subseteq schema.recorded
      BY <1>4, <2>2 DEF Migrate, MigrationFails, SchemaIsWhole, MigratedSoFar
    <3>2. /\ schema'.effects = [schema.effects EXCEPT ![v] = 1] /\ schema'.recorded = schema.recorded \cup {v}
          /\ migration' = [migration EXCEPT ![s] = v + 1] /\ Enters(s, "check")
      BY <1>4, <2>2, <3>1 DEF Migrate, ApplyMigration, LifecycleTypeOK
    <3>3. 1..v \subseteq schema'.recorded /\ schema'.recorded \subseteq Migrations
      BY <3>1, <3>2 DEF Migrations, LifecycleTypeOK
    <3>4. /\ migration'[s] = v + 1 /\ \A t \in Servers : t # s => migration'[t] = migration[t]
          /\ stage'[s] = "check" /\ \A t \in Servers : t # s => stage'[t] = stage[t]
      BY <3>2, StageOf DEF LifecycleTypeOK, Stages
    <3>5. SchemaIsWhole'
      <4>1. \A w \in Migrations : schema'.effects[w] = IF w \in schema'.recorded THEN 1 ELSE 0
        BY <3>1, <3>2 DEF SchemaIsWhole, LifecycleTypeOK
      <4>2. \A w \in schema'.recorded : 1..w \subseteq schema'.recorded
        BY <3>2, <3>3 DEF SchemaIsWhole
      <4> QED
        BY <4>1, <4>2 DEF SchemaIsWhole
    <3>6. ServesTheWholeSchema'
      BY <3>1, <3>2, <3>4 DEF ServesTheWholeSchema
    <3>7. MigratedSoFar'
      <4>1. v \in Int
        BY <3>1 DEF Migrations
      <4>2. ASSUME NEW t \in Servers PROVE 1..(migration'[t] - 1) \subseteq schema'.recorded
        <5>1. CASE t = s
          <6>1. migration'[t] - 1 = v
            BY <3>4, <4>1, <5>1
          <6> QED
            BY <3>3, <6>1
        <5>2. CASE t # s
          BY <3>2, <3>4, <5>2 DEF MigratedSoFar
        <5> QED
          BY <5>1, <5>2
      <4> QED
        BY <3>4, <4>2 DEF MigratedSoFar
    <3> QED
      BY <3>5, <3>6, <3>7
  <2> QED
    BY <2>1, <2>2
<1>5. ASSUME NEW s \in Servers, NEW at \in FailingStarts, StartFails(s, at) PROVE SchemaIsWhole' /\ ServesTheWholeSchema' /\ MigratedSoFar'
  BY <1>5, StageOf DEF StartFails, Stages, SchemaIsWhole, ServesTheWholeSchema, MigratedSoFar
<1>6. ASSUME NEW s \in Servers, SweepTasks(s) PROVE SchemaIsWhole' /\ ServesTheWholeSchema' /\ MigratedSoFar'
  BY <1>6, StageOf DEF SweepTasks, Sweep, Stages, SchemaIsWhole, ServesTheWholeSchema, MigratedSoFar
<1>7. ASSUME NEW s \in Servers, SweepOperations(s) PROVE SchemaIsWhole' /\ ServesTheWholeSchema' /\ MigratedSoFar'
  BY <1>7, StageOf DEF SweepOperations, Sweep, Stages, SchemaIsWhole, ServesTheWholeSchema, MigratedSoFar
<1>8. ASSUME NEW s \in Servers, LookAtSocket(s) PROVE SchemaIsWhole' /\ ServesTheWholeSchema' /\ MigratedSoFar'
  BY <1>8, StageOf DEF LookAtSocket, Stages, SchemaIsWhole, ServesTheWholeSchema, MigratedSoFar
<1>9. ASSUME NEW s \in Servers, RemoveStale(s) PROVE SchemaIsWhole' /\ ServesTheWholeSchema' /\ MigratedSoFar'
  BY <1>9, StageOf DEF RemoveStale, Stages, SchemaIsWhole, ServesTheWholeSchema, MigratedSoFar
<1>10. ASSUME NEW s \in Servers, ListenOnSocket(s) PROVE SchemaIsWhole' /\ ServesTheWholeSchema' /\ MigratedSoFar'
  BY <1>10, StageOf DEF ListenOnSocket, Stages, SchemaIsWhole, ServesTheWholeSchema, MigratedSoFar
<1>11. ASSUME NEW s \in Servers, BindPort(s) PROVE SchemaIsWhole' /\ ServesTheWholeSchema' /\ MigratedSoFar'
  BY <1>11, StageOf DEF BindPort, Stages, SchemaIsWhole, ServesTheWholeSchema, MigratedSoFar
<1>12. ASSUME NEW s \in Servers, AcceptWork(s) PROVE SchemaIsWhole' /\ ServesTheWholeSchema' /\ MigratedSoFar'
  BY <1>12, StageOf DEF AcceptWork, Stages, SchemaIsWhole, ServesTheWholeSchema, MigratedSoFar
<1>13. ASSUME NEW s \in Servers, CloseListener(s) PROVE SchemaIsWhole' /\ ServesTheWholeSchema' /\ MigratedSoFar'
  BY <1>13, StageOf DEF CloseListener, Stages, SchemaIsWhole, ServesTheWholeSchema, MigratedSoFar
<1>14. ASSUME NEW s \in Servers, CloseServer(s) PROVE SchemaIsWhole' /\ ServesTheWholeSchema' /\ MigratedSoFar'
  BY <1>14, StageOf DEF CloseServer, Stages, SchemaIsWhole, ServesTheWholeSchema, MigratedSoFar
<1>15. ASSUME NEW s \in Servers, ServerEnds(s) PROVE SchemaIsWhole' /\ ServesTheWholeSchema' /\ MigratedSoFar'
  BY <1>15, StageOf DEF ServerEnds, Stages, SchemaIsWhole, ServesTheWholeSchema, MigratedSoFar
<1>16. CASE UNCHANGED lifecycleVars
  BY <1>16 DEF lifecycleVars, startBounds, history, Stages, SchemaIsWhole, ServesTheWholeSchema, MigratedSoFar
<1> QED
  BY <1>1, <1>2, <1>3, <1>4, <1>5, <1>6, <1>7, <1>8, <1>9, <1>10, <1>11, <1>12, <1>13, <1>14, <1>15, <1>16 DEF LifecycleNext, FailingStarts

\* The port: it is taken when it is free, and given up at the end.
LEMMA PortStaysServed ==
  ASSUME LifecycleInv, [LifecycleNext]_lifecycleVars
  PROVE  PortIsServed'
<1> USE LifecycleAssumption DEF LifecycleInv
<1>1. ASSUME NEW s \in Servers, StartServer(s) PROVE PortIsServed'
  BY <1>1, StageOf DEF StartServer, Stages, PortIsServed
<1>2. ASSUME NEW s \in Servers, Prepare(s) PROVE PortIsServed'
  BY <1>2, StageOf DEF Prepare, Stages, PortIsServed
<1>3. ASSUME NEW s \in Servers, CheckMigration(s) PROVE PortIsServed'
  BY <1>3, StageOf DEF CheckMigration, Stages, PortIsServed
<1>4. ASSUME NEW s \in Servers, Migrate(s) PROVE PortIsServed'
  BY <1>4, StageOf DEF Migrate, Stages, PortIsServed
<1>5. ASSUME NEW s \in Servers, NEW at \in FailingStarts, StartFails(s, at) PROVE PortIsServed'
  BY <1>5, StageOf DEF StartFails, FailingStarts, Stages, PortIsServed
<1>6. ASSUME NEW s \in Servers, SweepTasks(s) PROVE PortIsServed'
  BY <1>6, StageOf DEF SweepTasks, Sweep, Stages, PortIsServed
<1>7. ASSUME NEW s \in Servers, SweepOperations(s) PROVE PortIsServed'
  BY <1>7, StageOf DEF SweepOperations, Sweep, Stages, PortIsServed
<1>8. ASSUME NEW s \in Servers, LookAtSocket(s) PROVE PortIsServed'
  BY <1>8, StageOf DEF LookAtSocket, Stages, PortIsServed
<1>9. ASSUME NEW s \in Servers, RemoveStale(s) PROVE PortIsServed'
  BY <1>9, StageOf DEF RemoveStale, Stages, PortIsServed
<1>10. ASSUME NEW s \in Servers, ListenOnSocket(s) PROVE PortIsServed'
  BY <1>10, StageOf DEF ListenOnSocket, Stages, PortIsServed
<1>11. ASSUME NEW s \in Servers, BindPort(s) PROVE PortIsServed'
  BY <1>11, StageOf DEF BindPort, Stages, PortIsServed
<1>12. ASSUME NEW s \in Servers, AcceptWork(s) PROVE PortIsServed'
  BY <1>12, StageOf DEF AcceptWork, Stages, PortIsServed
<1>13. ASSUME NEW s \in Servers, CloseListener(s) PROVE PortIsServed'
  BY <1>13, StageOf DEF CloseListener, Stages, PortIsServed
<1>14. ASSUME NEW s \in Servers, CloseServer(s) PROVE PortIsServed'
  BY <1>14, StageOf DEF CloseServer, Stages, PortIsServed
<1>15. ASSUME NEW s \in Servers, ServerEnds(s) PROVE PortIsServed'
  BY <1>15, StageOf DEF ServerEnds, Stages, PortIsServed
<1>16. CASE UNCHANGED lifecycleVars
  BY <1>16 DEF lifecycleVars, startBounds, history, Stages, PortIsServed
<1> QED
  BY <1>1, <1>2, <1>3, <1>4, <1>5, <1>6, <1>7, <1>8, <1>9, <1>10, <1>11, <1>12, <1>13, <1>14, <1>15, <1>16 DEF LifecycleNext, FailingStarts

\* A server that lives alone: nobody changes what it relies on, and those before it have left it so.
LEMMA AloneStaysSo ==
  ASSUME LifecycleInv, [LifecycleNext]_lifecycleVars, ~alongside'
  PROVE  AloneFindsItSo'
<1> USE LifecycleAssumption DEF LifecycleInv
<1>1. ASSUME NEW s \in Servers, StartServer(s) PROVE AloneFindsItSo'
  BY <1>1, StageOf, AloneAfterStep DEF StartServer, Stages, AloneFindsItSo, Alive, WorkKinds
<1>2. ASSUME NEW s \in Servers, Prepare(s) PROVE AloneFindsItSo'
  BY <1>2, StageOf, AloneAfterStep DEF Prepare, Stages, AloneFindsItSo, Alive, WorkKinds
<1>3. ASSUME NEW s \in Servers, CheckMigration(s) PROVE AloneFindsItSo'
  BY <1>3, StageOf, AloneAfterStep DEF CheckMigration, Stages, AloneFindsItSo, Alive, WorkKinds
<1>4. ASSUME NEW s \in Servers, Migrate(s) PROVE AloneFindsItSo'
  BY <1>4, StageOf, AloneAfterStep DEF Migrate, Stages, AloneFindsItSo, Alive, WorkKinds
<1>5. ASSUME NEW s \in Servers, NEW at \in FailingStarts, StartFails(s, at) PROVE AloneFindsItSo'
  BY <1>5, StageOf, AloneAfterStep DEF StartFails, FailingStarts, Stages, AloneFindsItSo, Alive, WorkKinds
<1>6. ASSUME NEW s \in Servers, SweepTasks(s) PROVE AloneFindsItSo'
  <2>1. running' = [running EXCEPT !["task"] = {}] /\ Enters(s, "sweep_operations") /\ stage[s] = "sweep_tasks"
    BY <1>6 DEF SweepTasks, Sweep
  <2>2. ~alongside /\ \A t \in Servers : t # s => stage'[t] = "down"
    BY <2>1, AloneAfterStep DEF Stages, AloneFindsItSo
  <2>3. stage'[s] = "sweep_operations"
    BY <2>1, StageOf DEF Stages
  <2>4. running'["task"] = {}
    BY <2>1, <2>2 DEF LifecycleTypeOK, WorkKinds, AloneFindsItSo
  <2> QED
    BY <2>2, <2>3, <2>4 DEF AloneFindsItSo, Alive
<1>7. ASSUME NEW s \in Servers, SweepOperations(s) PROVE AloneFindsItSo'
  <2>1. running' = [running EXCEPT !["operation"] = {}] /\ Enters(s, "look") /\ stage[s] = "sweep_operations"
    BY <1>7 DEF SweepOperations, Sweep
  <2>2. ~alongside /\ \A t \in Servers : t # s => stage'[t] = "down"
    BY <2>1, AloneAfterStep DEF Stages, AloneFindsItSo
  <2>3. stage'[s] = "look"
    BY <2>1, StageOf DEF Stages
  <2>4. running'["task"] = {} /\ running'["operation"] = {}
    BY <2>1, <2>2 DEF LifecycleTypeOK, WorkKinds, AloneFindsItSo
  <2> QED
    BY <2>2, <2>3, <2>4 DEF AloneFindsItSo, Alive
<1>8. ASSUME NEW s \in Servers, LookAtSocket(s) PROVE AloneFindsItSo'
  <2>1. PICK to \in {"listen", "close", "remove"} :
          /\ Enters(s, to) /\ to = IF socket = NoServer THEN "listen" ELSE IF SocketAnswers THEN "close" ELSE "remove"
    BY <1>8 DEF LookAtSocket
  <2>2. ~alongside /\ \A t \in Servers : t # s => stage'[t] = "down"
    BY <1>8, <2>1, AloneAfterStep DEF LookAtSocket, Stages, AloneFindsItSo
  <2>3. stage'[s] = to /\ to # "close"
    <3>1. ~SocketAnswers
      BY <1>8, <2>2 DEF LookAtSocket, SocketAnswers, AloneFindsItSo, Alive, LifecycleTypeOK
    <3> QED
      BY <2>1, <3>1, StageOf DEF Stages
  <2> QED
    BY <1>8, <2>1, <2>2, <2>3 DEF LookAtSocket, AloneFindsItSo, Alive
<1>9. ASSUME NEW s \in Servers, RemoveStale(s) PROVE AloneFindsItSo'
  BY <1>9, StageOf, AloneAfterStep DEF RemoveStale, Stages, AloneFindsItSo, Alive, WorkKinds
<1>10. ASSUME NEW s \in Servers, ListenOnSocket(s) PROVE AloneFindsItSo'
  BY <1>10, StageOf, AloneAfterStep DEF ListenOnSocket, Stages, AloneFindsItSo, Alive, WorkKinds
<1>11. ASSUME NEW s \in Servers, BindPort(s) PROVE AloneFindsItSo'
  <2>1. PICK to \in {"serving", "unlink"} :
          /\ Enters(s, to) /\ (to = "serving" <=> port = NoServer) /\ UNCHANGED <<socket, running, schema, migration>>
    BY <1>11 DEF BindPort
  <2>2. ~alongside /\ \A t \in Servers : t # s => stage'[t] = "down"
    BY <1>11, <2>1, AloneAfterStep DEF BindPort, Stages, AloneFindsItSo
  <2>3. stage'[s] = to /\ to = "serving"
    <3>1. port = NoServer
      BY <1>11, <2>2 DEF BindPort, PortIsServed, AloneFindsItSo, Alive, LifecycleTypeOK
    <3> QED
      BY <2>1, <3>1, StageOf DEF Stages
  <2>4. \A k \in WorkKinds : running'[k] \subseteq {s}
    BY <1>11, <2>1, <2>2 DEF BindPort, AloneFindsItSo, WorkKinds
  <2> QED
    BY <2>2, <2>3, <2>4 DEF AloneFindsItSo, Alive
<1>12. ASSUME NEW s \in Servers, AcceptWork(s) PROVE AloneFindsItSo'
  <2>1. PICK k \in WorkKinds : running' = [running EXCEPT ![k] = running[k] \cup {s}]
    BY <1>12 DEF AcceptWork
  <2>2. stage[s] = "serving" /\ UNCHANGED <<stage, migration, schema, socket, alongside>>
    BY <1>12 DEF AcceptWork, history
  <2>3. \A t \in Servers : t # s => stage[t] = "down"
    BY <2>2 DEF AloneFindsItSo, Alive
  <2>4. \A i \in WorkKinds : running'[i] \subseteq {s}
    BY <2>1, <2>2 DEF AloneFindsItSo, LifecycleTypeOK
  <2> QED
    BY <2>2, <2>3, <2>4 DEF AloneFindsItSo, Alive
<1>13. ASSUME NEW s \in Servers, CloseListener(s) PROVE AloneFindsItSo'
  BY <1>13, StageOf, AloneAfterStep DEF CloseListener, Stages, AloneFindsItSo, Alive, WorkKinds
<1>14. ASSUME NEW s \in Servers, CloseServer(s) PROVE AloneFindsItSo'
  BY <1>14, StageOf, AloneAfterStep DEF CloseServer, Stages, AloneFindsItSo, Alive, WorkKinds
<1>15. ASSUME NEW s \in Servers, ServerEnds(s) PROVE AloneFindsItSo'
  BY <1>15, StageOf, AloneAfterStep DEF ServerEnds, Stages, AloneFindsItSo, Alive, WorkKinds
<1>16. CASE UNCHANGED lifecycleVars
  BY <1>16 DEF lifecycleVars, startBounds, history, Stages, AloneFindsItSo, Alive, WorkKinds
<1> QED
  BY <1>1, <1>2, <1>3, <1>4, <1>5, <1>6, <1>7, <1>8, <1>9, <1>10, <1>11, <1>12, <1>13, <1>14, <1>15, <1>16 DEF LifecycleNext, FailingStarts

\* The socket: who looks at it while another serves leaves it alone.
LEMMA SocketsStayOwn ==
  ASSUME LifecycleInv, [LifecycleNext]_lifecycleVars, ~together'
  PROVE  OwnSockets'
<1> USE LifecycleAssumption DEF LifecycleInv
<1>1. ASSUME NEW s \in Servers, StartServer(s) PROVE OwnSockets'
  BY <1>1, StageOf, ApartAfterStep DEF StartServer, Stages, OwnSockets, PortIsServed, InPassing
<1>2. ASSUME NEW s \in Servers, Prepare(s) PROVE OwnSockets'
  BY <1>2, StageOf, ApartAfterStep DEF Prepare, Stages, OwnSockets, PortIsServed, InPassing
<1>3. ASSUME NEW s \in Servers, CheckMigration(s) PROVE OwnSockets'
  BY <1>3, StageOf, ApartAfterStep DEF CheckMigration, Stages, OwnSockets, PortIsServed, InPassing
<1>4. ASSUME NEW s \in Servers, Migrate(s) PROVE OwnSockets'
  BY <1>4, StageOf, ApartAfterStep DEF Migrate, Stages, OwnSockets, PortIsServed, InPassing
<1>5. ASSUME NEW s \in Servers, NEW at \in FailingStarts, StartFails(s, at) PROVE OwnSockets'
  BY <1>5, StageOf, ApartAfterStep DEF StartFails, FailingStarts, Stages, OwnSockets, PortIsServed, InPassing
<1>6. ASSUME NEW s \in Servers, SweepTasks(s) PROVE OwnSockets'
  BY <1>6, StageOf, ApartAfterStep DEF SweepTasks, Sweep, Stages, OwnSockets, PortIsServed, InPassing
<1>7. ASSUME NEW s \in Servers, SweepOperations(s) PROVE OwnSockets'
  BY <1>7, StageOf, ApartAfterStep DEF SweepOperations, Sweep, Stages, OwnSockets, PortIsServed, InPassing
<1>8. ASSUME NEW s \in Servers, LookAtSocket(s) PROVE OwnSockets'
  <2>1. PICK to \in {"listen", "close", "remove"} :
          /\ Enters(s, to) /\ to = IF socket = NoServer THEN "listen" ELSE IF SocketAnswers THEN "close" ELSE "remove"
    BY <1>8 DEF LookAtSocket
  <2>2. stage'[s] = to /\ \A t \in Servers : t # s => stage'[t] = stage[t]
    BY <2>1, StageOf DEF Stages
  <2>3. ~together /\ \A t, u \in InPassing(stage') : t = u
    BY <2>1, <2>2, ApartAfterStep DEF Stages
  <2>4. to # "close" => \A t \in Servers : stage[t] # "serving"
    BY <2>1, <2>3 DEF SocketAnswers, OwnSockets
  <2> QED
    BY <1>8, <2>2, <2>3, <2>4 DEF LookAtSocket, OwnSockets
<1>9. ASSUME NEW s \in Servers, RemoveStale(s) PROVE OwnSockets'
  BY <1>9, StageOf, ApartAfterStep DEF RemoveStale, Stages, OwnSockets, PortIsServed, InPassing
<1>10. ASSUME NEW s \in Servers, ListenOnSocket(s) PROVE OwnSockets'
  BY <1>10, StageOf, ApartAfterStep DEF ListenOnSocket, Stages, OwnSockets, PortIsServed, InPassing
<1>11. ASSUME NEW s \in Servers, BindPort(s) PROVE OwnSockets'
  <2>1. PICK to \in {"serving", "unlink"} :
          /\ Enters(s, to) /\ (to = "serving" <=> port = NoServer) /\ UNCHANGED socket
    BY <1>11 DEF BindPort
  <2>2. stage'[s] = to /\ \A t \in Servers : t # s => stage'[t] = stage[t]
    BY <2>1, StageOf DEF Stages
  <2>3. ~together /\ \A t, u \in InPassing(stage') : t = u
    BY <2>1, <2>2, ApartAfterStep DEF Stages
  <2>4. to = "serving" /\ socket = s
    BY <1>11, <2>1, <2>3 DEF BindPort, OwnSockets, PortIsServed, LifecycleTypeOK
  <2>5. \A t \in Servers : stage'[t] \notin {"remove", "listen", "unlink", "remove_file"}
    BY <1>11, <2>2, <2>3, <2>4 DEF BindPort, OwnSockets, InPassing
  <2> QED
    BY <2>1, <2>2, <2>3, <2>4, <2>5 DEF OwnSockets
<1>12. ASSUME NEW s \in Servers, AcceptWork(s) PROVE OwnSockets'
  BY <1>12 DEF AcceptWork, history, OwnSockets, InPassing
<1>13. ASSUME NEW s \in Servers, CloseListener(s) PROVE OwnSockets'
  BY <1>13, StageOf, ApartAfterStep DEF CloseListener, Stages, OwnSockets, PortIsServed, InPassing
<1>14. ASSUME NEW s \in Servers, CloseServer(s) PROVE OwnSockets'
  BY <1>14, StageOf, ApartAfterStep DEF CloseServer, Stages, OwnSockets, PortIsServed, InPassing
<1>15. ASSUME NEW s \in Servers, ServerEnds(s) PROVE OwnSockets'
  BY <1>15, StageOf, ApartAfterStep DEF ServerEnds, Stages, OwnSockets, PortIsServed, InPassing
<1>16. CASE UNCHANGED lifecycleVars
  BY <1>16 DEF lifecycleVars, startBounds, history, Stages, OwnSockets, PortIsServed, InPassing
<1> QED
  BY <1>1, <1>2, <1>3, <1>4, <1>5, <1>6, <1>7, <1>8, <1>9, <1>10, <1>11, <1>12, <1>13, <1>14, <1>15, <1>16 DEF LifecycleNext, FailingStarts

LEMMA LifecycleInductive == LifecycleSpec => []LifecycleInv
<1>1. LifecycleInv /\ [LifecycleNext]_lifecycleVars => LifecycleInv'
  <2> SUFFICES ASSUME LifecycleInv, [LifecycleNext]_lifecycleVars PROVE LifecycleInv'
    OBVIOUS
  <2>1. IsFiniteSet(Alive(stage'))
    <3>1. UNCHANGED stage \/ \E s \in Servers, to \in Stages : Enters(s, to)
      BY DEF LifecycleNext, lifecycleVars, Stages, StartServer, Prepare, CheckMigration, Migrate, StartFails, SweepTasks,
             SweepOperations, Sweep, LookAtSocket, RemoveStale, ListenOnSocket, BindPort, AcceptWork, CloseListener,
             CloseServer, ServerEnds
    <3> QED
      BY <3>1, AliveStaysFinite DEF LifecycleInv
  <2>2. IsFiniteSet(Alive(stage))'
    BY <2>1
  <2> QED
    BY <2>2, LifecycleTypesKept, SchemaStaysWhole, PortStaysServed, AloneStaysSo, SocketsStayOwn DEF LifecycleInv
<1> QED
  BY <1>1, LifecycleInitially, PTL DEF LifecycleSpec

\* Types of the servers that start on one home.
THEOREM ServersTypes == LifecycleSpec => []LifecycleTypeOK
<1>1. LifecycleInv => LifecycleTypeOK
  BY DEF LifecycleInv
<1> QED
  BY <1>1, LifecycleInductive, PTL

\* Whatever servers start on a home, end and fail there: each migration takes effect
\* once and in order, nobody serves before all have (applyMigrations); a server that
\* lives alone comes up and finds running what it runs (recoverInterrupted); and one
\* that serves keeps its socket from those that start one at a time
\* (listenObserverSocket).
THEOREM ServersAreKept == LifecycleSpec => []LifecycleHolds
<1>1. LifecycleInv => LifecycleHolds
  <2> SUFFICES ASSUME LifecycleInv PROVE LifecycleHolds
    OBVIOUS
  <2>1. AloneComesUp
    BY DEF LifecycleInv, AloneComesUp, AloneFindsItSo, MigrationFails, SchemaIsWhole, MigratedSoFar
  <2>2. SocketIsKept
    BY DEF LifecycleInv, SocketIsKept, OwnSockets, ServingServers
  <2>3. RunningIsRun
    BY DEF LifecycleInv, RunningIsRun, AloneFindsItSo, ServingServers
  <2> QED
    BY <2>1, <2>2, <2>3 DEF LifecycleInv, LifecycleHolds
<1> QED
  BY <1>1, LifecycleInductive, PTL

-----------------------------------------------------------------------------
(* Updates of the program: UpdateInv is inductive. *)

\* What a run has found: a release that is newer than the program it was started
\* as, an archive that has the checksum and whose program prints that version, or
\* one that begins like it, and a copy of that.
Known(r) ==
  /\ r.step \in {"sums", "archive", "extract", "stage", "rename"} =>
       site[r.target].state = "published" /\ Verdict(r.own, r.target) = "newer"
  /\ r.step \in {"stage", "rename"} =>
       /\ r.archive = r.sums /\ r.archive.build \in {"build", "rebuild"}
       /\ <<r.archive.reports, r.target>> \in TextBegins
  /\ r.step = "rename" => r.staged = r.archive

RunsKnow == \A u \in Updaters : Known(updater[u])

\* Releases have versions.
ReleasesParse == \A i \in Indices : site[i].state # "absent" => Parses(Releases[i])

\* One run at a time was started as the program that is installed.
OneAtATime ==
  /\ \A u, o \in Updaters : Working(u) /\ Working(o) => u = o
  /\ \A u \in Updaters : Working(u) => updater[u].own = program.reports

UpdateInv ==
  /\ UpdateTypeOK /\ RunsKnow /\ ReleasesParse
  /\ ~overlapped => OneAtATime

-----------------------------------------------------------------------------
(* compareVersions is the order of semver.org. *)

LEMMA DifferenceFound ==
  ASSUME NEW s, NEW t, NEW n \in Nat, NEW k \in 1..n, s[k] # t[k], \A j \in 1..(k - 1) : s[j] = t[j]
  PROVE  FirstDifference(s, t, n) = k
<1> DEFINE differ == {i \in 1..n : s[i] # t[i]}
<1>1. k \in differ /\ \A j \in differ : k <= j
  OBVIOUS
<1>2. FirstDifference(s, t, n) = CHOOSE i \in differ : \A j \in differ : i <= j
  BY <1>1 DEF FirstDifference
<1>3. FirstDifference(s, t, n) \in differ /\ \A j \in differ : FirstDifference(s, t, n) <= j
  BY <1>1, <1>2
<1> QED
  BY <1>1, <1>3

LEMMA NoDifference ==
  ASSUME NEW s, NEW t, NEW n \in Nat, \A j \in 1..n : s[j] = t[j]
  PROVE  FirstDifference(s, t, n) = 0
BY DEF FirstDifference

Identifiers == [number : BOOLEAN, value : Nat]

LEMMA IdentifiersCompare ==
  ASSUME NEW a \in Identifiers, NEW b \in Identifiers, LowerIdentifier(a, b)
  PROVE  a # b /\ Identifier(a, b) = -1 /\ Identifier(b, a) = 1
BY DEF LowerIdentifier, Identifier, Identifiers

LEMMA PrereleasesCompare ==
  ASSUME NEW s \in Seq(Identifiers), NEW t \in Seq(Identifiers)
  PROVE  /\ LowerPrerelease(s, t) => ComparePrerelease(s, t) = -1 /\ ComparePrerelease(t, s) = 1
         /\ ComparePrerelease(s, s) = 0
<1> DEFINE n == IF Len(s) < Len(t) THEN Len(s) ELSE Len(t)
           m == IF Len(t) < Len(s) THEN Len(t) ELSE Len(s)
<1>0. n \in Nat /\ m = n /\ DOMAIN s = 1..Len(s) /\ DOMAIN t = 1..Len(t)
  OBVIOUS
<1>1. ASSUME s # <<>>, t = <<>> PROVE ComparePrerelease(s, t) = -1 /\ ComparePrerelease(t, s) = 1
  BY <1>1 DEF ComparePrerelease
<1>2. ASSUME s # <<>>, t # <<>>, NEW k \in DOMAIN s \cap DOMAIN t, LowerIdentifier(s[k], t[k]), \A j \in 1..(k - 1) : s[j] = t[j]
      PROVE  ComparePrerelease(s, t) = -1 /\ ComparePrerelease(t, s) = 1
  <2>1. k \in 1..n /\ s[k] \in Identifiers /\ t[k] \in Identifiers
    BY <1>0, <1>2
  <2>2. s[k] # t[k] /\ Identifier(s[k], t[k]) = -1 /\ Identifier(t[k], s[k]) = 1
    BY <2>1, <1>2, IdentifiersCompare
  <2>3. FirstDifference(s, t, n) = k
    BY <1>0, <1>2, <2>1, <2>2, DifferenceFound
  <2>4. FirstDifference(t, s, m) = k
    BY <1>0, <1>2, <2>1, <2>2, DifferenceFound
  <2>5. k # 0
    BY <2>1
  <2>6. ComparePrerelease(s, t) = -1
    BY <1>2, <2>2, <2>3, <2>5 DEF ComparePrerelease
  <2>7. ComparePrerelease(t, s) = 1
    BY <1>2, <2>2, <2>4, <2>5 DEF ComparePrerelease
  <2> QED
    BY <2>6, <2>7
<1>3. ASSUME s # <<>>, t # <<>>, Len(s) < Len(t), \A j \in DOMAIN s : s[j] = t[j]
      PROVE  ComparePrerelease(s, t) = -1 /\ ComparePrerelease(t, s) = 1
  <2>1. FirstDifference(s, t, n) = 0
    BY <1>0, <1>3, NoDifference
  <2>2. FirstDifference(t, s, m) = 0
    <3>1. m = Len(s) /\ Len(s) \in Nat
      BY <1>3
    <3>2. \A j \in 1..Len(s) : t[j] = s[j]
      BY <1>0, <1>3
    <3>3. FirstDifference(t, s, Len(s)) = 0
      BY <3>1, <3>2, NoDifference
    <3> QED
      BY <3>1, <3>3
  <2>3. ComparePrerelease(s, t) = -1
    BY <1>3, <2>1 DEF ComparePrerelease
  <2>4. ComparePrerelease(t, s) = 1
    BY <1>3, <2>2 DEF ComparePrerelease
  <2> QED
    BY <2>3, <2>4
<1>4. ComparePrerelease(s, s) = 0
  <2>1. FirstDifference(s, s, Len(s)) = 0
    BY NoDifference
  <2> QED
    BY <2>1 DEF ComparePrerelease
<1> QED
  BY <1>1, <1>2, <1>3, <1>4 DEF LowerPrerelease

\* On versions that parse, whichever comes first.
LEMMA VersionsCompare ==
  ASSUME NEW v \in Versioned, NEW w \in Versioned, Parses(v), Parses(w)
  PROVE  /\ Precedes(v, w) => CompareVersions(v, w) = -1 /\ CompareVersions(w, v) = 1
         /\ CompareVersions(v, v) = 0
<1>1. v.core \in [1..3 -> Nat] /\ w.core \in [1..3 -> Nat] /\ v.pre \in Seq(Identifiers) /\ w.pre \in Seq(Identifiers)
  <2>1. v.core # <<>> /\ w.core # <<>>
    <3>1. Len(<<>>) # 3
      OBVIOUS
    <3> QED
      BY <3>1, Zenon DEF Parses
  <2> QED
    BY <2>1 DEF Versioned, Identifiers
<1>2. ASSUME NEW k \in 1..3, v.core[k] < w.core[k], \A j \in 1..(k - 1) : v.core[j] = w.core[j]
      PROVE  CompareVersions(v, w) = -1 /\ CompareVersions(w, v) = 1
  <2>1. v.core[k] # w.core[k] /\ ~(w.core[k] < v.core[k])
    BY <1>1, <1>2
  <2>2. FirstDifference(v.core, w.core, 3) = k /\ FirstDifference(w.core, v.core, 3) = k
    BY <1>2, <2>1, DifferenceFound
  <2> QED
    BY <1>2, <2>1, <2>2 DEF CompareVersions
<1>3. ASSUME v.core = w.core PROVE FirstDifference(v.core, w.core, 3) = 0 /\ FirstDifference(w.core, v.core, 3) = 0
  BY <1>3, NoDifference
<1>4. CASE v.core = w.core /\ LowerPrerelease(v.pre, w.pre)
  BY <1>1, <1>3, <1>4, PrereleasesCompare DEF CompareVersions
<1>5. CompareVersions(v, v) = 0
  <2>1. FirstDifference(v.core, v.core, 3) = 0
    BY NoDifference
  <2> QED
    BY <1>1, <2>1, PrereleasesCompare DEF CompareVersions
<1> QED
  BY <1>2, <1>4, <1>5 DEF Precedes

\* What Run goes on with comes later.
LEMMA NewerIsLater ==
  ASSUME NEW i \in Indices, NEW j \in Indices, Parses(Releases[j]), Verdict(i, j) = "newer"
  PROVE  j > i
<1>1. Indices = 1..Len(Releases) /\ Releases[i] \in Versioned /\ Releases[j] \in Versioned
  BY ReleasesInOrder DEF Indices
<1> SUFFICES ASSUME i = j \/ j < i PROVE FALSE
  BY <1>1
<1>2. CASE ~Parses(Releases[i])
  BY <1>2, ReleasesInOrder
<1>3. CASE Parses(Releases[i])
  <2>1. CompareVersions(Releases[i], Releases[j]) \in {0, 1}
    BY <1>1, <1>3, ReleasesInOrder, VersionsCompare
  <2> QED
    BY <1>3, <2>1 DEF Verdict
<1> QED
  BY <1>2, <1>3

-----------------------------------------------------------------------------
(* The steps of the command, and what happens to the releases. *)

LEMMA UpdateInitially == UpdateInit => UpdateInv
<1> SUFFICES ASSUME UpdateInit PROVE UpdateInv
  OBVIOUS
<1>1. Indices = 1..Len(Releases) /\ 1 \in Indices
  BY ReleasesInOrder DEF Indices
<1>2. 0 \in 0..MaxReuploads /\ 0 \in 0..MaxUpdateFaults
  BY UpdateConstants
<1>3. NoDownload \in Files /\ \A file \in [build : {"build"}, reports : Indices] : file \in Files
  BY <1>1 DEF NoDownload, Files, Builds
<1>4. UpdateTypeOK
  BY <1>1, <1>2, <1>3 DEF UpdateInit, UpdateTypeOK, Unused, UpdateSteps
<1> QED
  BY <1>4 DEF UpdateInit, UpdateInv, RunsKnow, Known, ReleasesParse, OneAtATime, Working, Unused

\* What a run is in after a step.
Runs == [step : UpdateSteps, own : Indices, target : Indices, sums : Files, archive : Files, staged : Files]
RunAdvances(u, r) ==
  /\ Working(u) /\ r \in Runs /\ updater' = [updater EXCEPT ![u] = r]
  /\ r.step # "idle" /\ (r.step = "done" \/ r.own = updater[u].own) /\ Known(r)

LEMMA EndRunAdvances ==
  ASSUME NEW u \in Updaters, Working(u), EndsUpdate(u)
  PROVE  \E r \in Runs : RunAdvances(u, r)
<1>1. 1 \in Indices /\ NoDownload \in Files
  BY ReleasesInOrder DEF Indices, NoDownload, Files, Builds
<1>2. [Unused EXCEPT !.step = "done"] \in Runs
  BY <1>1 DEF Unused, Runs, UpdateSteps
<1> QED
  BY <1>2 DEF EndsUpdate, Proceeds, RunAdvances, Known, Unused

LEMMA RunRunAdvances ==
  ASSUME UpdateInv, NEW u \in Updaters,
         \/ \E i \in Indices : Query(u, i)
         \/ DownloadSums(u) \/ DownloadArchive(u) \/ Extract(u) \/ StageProgram(u)
  PROVE  /\ \E r \in Runs : RunAdvances(u, r)
         /\ UNCHANGED <<site, program, overlapped, reuploads>> /\ updateFaults' \in 0..MaxUpdateFaults
<1>0. Working(u)
  BY DEF Query, DownloadSums, DownloadArchive, Extract, StageProgram, AtUpdateStep, Working
<1>1. /\ updater[u] \in Runs /\ Known(updater[u]) /\ updateFaults \in 0..MaxUpdateFaults /\ MaxUpdateFaults \in Nat
      /\ site \in [Indices -> [state : {"absent", "draft", "published"}, archive : Files, sums : Files]]
  BY UpdateConstants DEF UpdateInv, UpdateTypeOK, RunsKnow, Runs
<1>2. UpdateFault => updateFaults' \in 0..MaxUpdateFaults
  BY <1>1 DEF UpdateFault
<1>3. UNCHANGED <<site, program, overlapped, reuploads>> /\ updateFaults' \in 0..MaxUpdateFaults
  BY <1>1, <1>2 DEF Query, DownloadSums, DownloadArchive, Extract, StageProgram, updateBounds
<1>4. CASE EndsUpdate(u)
  BY <1>0, <1>3, <1>4, EndRunAdvances
<1>5. ASSUME NEW i \in Indices, Query(u, i), ~EndsUpdate(u) PROVE \E r \in Runs : RunAdvances(u, r)
  <2> DEFINE r == [updater[u] EXCEPT !.step = "sums", !.target = i]
  <2>1. r \in Runs /\ r.step = "sums" /\ r.own = updater[u].own /\ r.target = i
    BY <1>1 DEF Runs, UpdateSteps
  <2>2. updater' = [updater EXCEPT ![u] = r] /\ site[i].state = "published" /\ Verdict(updater[u].own, i) = "newer"
    BY <1>5 DEF Query, Proceeds
  <2> HIDE DEF r
  <2> QED
    BY <1>0, <2>1, <2>2 DEF RunAdvances, Known
<1>6. ASSUME DownloadSums(u), ~EndsUpdate(u) PROVE \E r \in Runs : RunAdvances(u, r)
  <2> DEFINE r == [updater[u] EXCEPT !.step = "archive", !.sums = site[updater[u].target].sums]
  <2>1. /\ r \in Runs /\ r.step = "archive" /\ r.own = updater[u].own /\ r.target = updater[u].target
    BY <1>1 DEF Runs, UpdateSteps
  <2>2. updater' = [updater EXCEPT ![u] = r] /\ updater[u].step = "sums"
    BY <1>6 DEF DownloadSums, Proceeds, AtUpdateStep
  <2> HIDE DEF r
  <2> QED
    BY <1>0, <1>1, <2>1, <2>2 DEF RunAdvances, Known
<1>7. ASSUME DownloadArchive(u), ~EndsUpdate(u) PROVE \E r \in Runs : RunAdvances(u, r)
  <2>0. CutFile \in Files
    BY ReleasesInOrder DEF CutFile, Files, Builds, Indices
  <2>1. PICK b \in Files : updater' = [updater EXCEPT ![u] = [updater[u] EXCEPT !.step = "extract", !.archive = b]]
    BY <1>1, <1>7, <2>0 DEF DownloadArchive, Proceeds, Runs
  <2> DEFINE r == [updater[u] EXCEPT !.step = "extract", !.archive = b]
  <2>2. /\ r \in Runs /\ r.step = "extract" /\ r.own = updater[u].own /\ r.target = updater[u].target
    BY <1>1 DEF Runs, UpdateSteps
  <2>3. updater' = [updater EXCEPT ![u] = r] /\ updater[u].step = "archive"
    BY <1>7, <2>1 DEF DownloadArchive, AtUpdateStep
  <2> HIDE DEF r
  <2> QED
    BY <1>0, <1>1, <2>2, <2>3 DEF RunAdvances, Known
<1>8. ASSUME Extract(u), ~EndsUpdate(u) PROVE \E r \in Runs : RunAdvances(u, r)
  <2> DEFINE r == [updater[u] EXCEPT !.step = "stage"]
  <2>1. /\ r \in Runs /\ r.step = "stage" /\ r.own = updater[u].own /\ r.target = updater[u].target
        /\ r.archive = updater[u].archive /\ r.sums = updater[u].sums
    BY <1>1 DEF Runs, UpdateSteps
  <2>2. /\ updater' = [updater EXCEPT ![u] = r] /\ updater[u].step = "extract"
        /\ updater[u].archive = updater[u].sums /\ Verified(u)
    BY <1>8 DEF Extract, Proceeds, AtUpdateStep
  <2> HIDE DEF r
  <2> QED
    BY <1>0, <1>1, <2>1, <2>2 DEF RunAdvances, Known, Verified
<1>9. ASSUME StageProgram(u), ~EndsUpdate(u) PROVE \E r \in Runs : RunAdvances(u, r)
  <2> DEFINE r == [updater[u] EXCEPT !.step = "rename", !.staged = updater[u].archive]
  <2>1. /\ r \in Runs /\ r.step = "rename" /\ r.own = updater[u].own /\ r.target = updater[u].target
        /\ r.archive = updater[u].archive /\ r.sums = updater[u].sums /\ r.staged = updater[u].archive
    BY <1>1 DEF Runs, UpdateSteps
  <2>2. updater' = [updater EXCEPT ![u] = r] /\ updater[u].step = "stage"
    BY <1>9 DEF StageProgram, Proceeds, AtUpdateStep
  <2> HIDE DEF r
  <2> QED
    BY <1>0, <1>1, <2>1, <2>2 DEF RunAdvances, Known
<1> QED
  BY <1>3, <1>4, <1>5, <1>6, <1>7, <1>8, <1>9

\* Types.
LEMMA UpdateTypesKept ==
  ASSUME UpdateInv, [UpdateNext]_updateVars
  PROVE  UpdateTypeOK'
<1> USE UpdateConstants DEF UpdateInv, UpdateTypeOK, UpdateSteps, updateBounds
<1>0. 1 \in Indices /\ NoDownload \in Files
  BY ReleasesInOrder DEF Indices, NoDownload, Files, Builds
<1>1. ASSUME NEW u \in Updaters, RunUpdate(u) PROVE UpdateTypeOK'
  <2> DEFINE r == [updater[u] EXCEPT !.step = "query", !.own = program.reports]
  <2>1. r \in Runs
    BY DEF Runs, Files
  <2>2. updater' = [updater EXCEPT ![u] = r] /\ overlapped' \in BOOLEAN
    BY <1>1 DEF RunUpdate, Proceeds
  <2>3. updater' \in [Updaters -> Runs]
    BY <2>1, <2>2 DEF Runs
  <2> QED
    BY <1>1, <2>2, <2>3 DEF RunUpdate, Runs
<1>2. ASSUME NEW u \in Updaters, NEW i \in Indices, Query(u, i) PROVE UpdateTypeOK'
  <2>1. /\ \E r \in Runs : RunAdvances(u, r)
        /\ UNCHANGED <<site, program, overlapped, reuploads>> /\ updateFaults' \in 0..MaxUpdateFaults
    BY <1>2, RunRunAdvances
  <2>2. updater' \in [Updaters -> Runs]
    BY <2>1 DEF RunAdvances, Runs
  <2> QED
    BY <2>1, <2>2 DEF Runs
<1>3. ASSUME NEW u \in Updaters, DownloadSums(u) PROVE UpdateTypeOK'
  <2>1. /\ \E r \in Runs : RunAdvances(u, r)
        /\ UNCHANGED <<site, program, overlapped, reuploads>> /\ updateFaults' \in 0..MaxUpdateFaults
    BY <1>3, RunRunAdvances
  <2>2. updater' \in [Updaters -> Runs]
    BY <2>1 DEF RunAdvances, Runs
  <2> QED
    BY <2>1, <2>2 DEF Runs
<1>4. ASSUME NEW u \in Updaters, DownloadArchive(u) PROVE UpdateTypeOK'
  <2>1. /\ \E r \in Runs : RunAdvances(u, r)
        /\ UNCHANGED <<site, program, overlapped, reuploads>> /\ updateFaults' \in 0..MaxUpdateFaults
    BY <1>4, RunRunAdvances
  <2>2. updater' \in [Updaters -> Runs]
    BY <2>1 DEF RunAdvances, Runs
  <2> QED
    BY <2>1, <2>2 DEF Runs
<1>5. ASSUME NEW u \in Updaters, Extract(u) PROVE UpdateTypeOK'
  <2>1. /\ \E r \in Runs : RunAdvances(u, r)
        /\ UNCHANGED <<site, program, overlapped, reuploads>> /\ updateFaults' \in 0..MaxUpdateFaults
    BY <1>5, RunRunAdvances
  <2>2. updater' \in [Updaters -> Runs]
    BY <2>1 DEF RunAdvances, Runs
  <2> QED
    BY <2>1, <2>2 DEF Runs
<1>6. ASSUME NEW u \in Updaters, StageProgram(u) PROVE UpdateTypeOK'
  <2>1. /\ \E r \in Runs : RunAdvances(u, r)
        /\ UNCHANGED <<site, program, overlapped, reuploads>> /\ updateFaults' \in 0..MaxUpdateFaults
    BY <1>6, RunRunAdvances
  <2>2. updater' \in [Updaters -> Runs]
    BY <2>1 DEF RunAdvances, Runs
  <2> QED
    BY <2>1, <2>2 DEF Runs
<1>7. ASSUME NEW u \in Updaters, RenameProgram(u) PROVE UpdateTypeOK'
  <2>1. updater[u].staged \in Files /\ updater[u].target \in Indices
    BY <1>7 DEF RenameProgram, AtUpdateStep, RunsKnow, Known
  <2>2. program' \in Files /\ updateFaults' \in 0..MaxUpdateFaults
    BY <1>7, <2>1 DEF RenameProgram, UpdateFault
  <2>3. [Unused EXCEPT !.step = "done"] \in Runs
    BY <1>0 DEF Unused, Runs
  <2>4. updater' \in [Updaters -> Runs]
    BY <1>7, <2>3 DEF RenameProgram, EndsUpdate, Proceeds, Runs
  <2> QED
    BY <1>7, <2>2, <2>4 DEF RenameProgram, Runs
<1>8. ASSUME NEW u \in Updaters, UpdaterDies(u) PROVE UpdateTypeOK'
  BY <1>8, <1>0 DEF UpdaterDies, Proceeds, EndsUpdate, UpdateFault, AtUpdateStep, Unused
<1>9. ASSUME NEW i \in Indices, NEW reports \in Indices, Draft(i, reports) PROVE UpdateTypeOK'
  <2>1. FileOf("build", reports) \in Files
    BY DEF FileOf, Files, Builds
  <2> QED
    BY <1>9, <2>1 DEF Draft
<1>10. ASSUME NEW i \in Indices, PublishRelease(i) PROVE UpdateTypeOK'
  BY <1>10, <1>0 DEF PublishRelease, Proceeds, EndsUpdate, UpdateFault, AtUpdateStep, Unused
<1>11. ASSUME NEW i \in Indices, NEW reports \in Indices, Reupload(i, reports) PROVE UpdateTypeOK'
  <2>1. FileOf("rebuild", reports) \in Files
    BY DEF FileOf, Files, Builds
  <2> QED
    BY <1>11, <2>1 DEF Reupload
<1>12. CASE UNCHANGED updateVars
  BY <1>12 DEF updateVars, updateBounds, Proceeds, EndsUpdate, UpdateFault, AtUpdateStep, Unused
<1> QED
  BY <1>1, <1>2, <1>3, <1>4, <1>5, <1>6, <1>7, <1>8, <1>9, <1>10, <1>11, <1>12 DEF UpdateNext

\* What is published stays published, and a run keeps the files it has.
LEMMA RunsStillKnow ==
  ASSUME UpdateInv, [UpdateNext]_updateVars
  PROVE  RunsKnow' /\ ReleasesParse'
<1> USE DEF UpdateInv, UpdateTypeOK, RunsKnow, ReleasesParse, Known, updateBounds
<1>1. ASSUME NEW u \in Updaters, RunUpdate(u) PROVE RunsKnow' /\ ReleasesParse'
  BY <1>1 DEF RunUpdate, Proceeds, EndsUpdate, UpdateFault, AtUpdateStep, Unused
<1>2. ASSUME NEW u \in Updaters, NEW i \in Indices, Query(u, i) PROVE RunsKnow' /\ ReleasesParse'
  <2>1. (\E r \in Runs : RunAdvances(u, r)) /\ site' = site
    BY <1>2, RunRunAdvances
  <2>2. \A o \in Updaters : Known(updater'[o])
    BY <2>1 DEF RunAdvances
  <2> QED
    BY <2>1, <2>2 DEF Known
<1>3. ASSUME NEW u \in Updaters, DownloadSums(u) PROVE RunsKnow' /\ ReleasesParse'
  <2>1. (\E r \in Runs : RunAdvances(u, r)) /\ site' = site
    BY <1>3, RunRunAdvances
  <2>2. \A o \in Updaters : Known(updater'[o])
    BY <2>1 DEF RunAdvances
  <2> QED
    BY <2>1, <2>2 DEF Known
<1>4. ASSUME NEW u \in Updaters, DownloadArchive(u) PROVE RunsKnow' /\ ReleasesParse'
  <2>1. (\E r \in Runs : RunAdvances(u, r)) /\ site' = site
    BY <1>4, RunRunAdvances
  <2>2. \A o \in Updaters : Known(updater'[o])
    BY <2>1 DEF RunAdvances
  <2> QED
    BY <2>1, <2>2 DEF Known
<1>5. ASSUME NEW u \in Updaters, Extract(u) PROVE RunsKnow' /\ ReleasesParse'
  <2>1. (\E r \in Runs : RunAdvances(u, r)) /\ site' = site
    BY <1>5, RunRunAdvances
  <2>2. \A o \in Updaters : Known(updater'[o])
    BY <2>1 DEF RunAdvances
  <2> QED
    BY <2>1, <2>2 DEF Known
<1>6. ASSUME NEW u \in Updaters, StageProgram(u) PROVE RunsKnow' /\ ReleasesParse'
  <2>1. (\E r \in Runs : RunAdvances(u, r)) /\ site' = site
    BY <1>6, RunRunAdvances
  <2>2. \A o \in Updaters : Known(updater'[o])
    BY <2>1 DEF RunAdvances
  <2> QED
    BY <2>1, <2>2 DEF Known
<1>7. ASSUME NEW u \in Updaters, RenameProgram(u) PROVE RunsKnow' /\ ReleasesParse'
  BY <1>7 DEF RenameProgram, Proceeds, EndsUpdate, UpdateFault, AtUpdateStep, Unused
<1>8. ASSUME NEW u \in Updaters, UpdaterDies(u) PROVE RunsKnow' /\ ReleasesParse'
  BY <1>8 DEF UpdaterDies, Proceeds, EndsUpdate, UpdateFault, AtUpdateStep, Unused
<1>9. ASSUME NEW i \in Indices, NEW reports \in Indices, Draft(i, reports) PROVE RunsKnow' /\ ReleasesParse'
  BY <1>9 DEF Draft, Proceeds, EndsUpdate, UpdateFault, AtUpdateStep, Unused
<1>10. ASSUME NEW i \in Indices, PublishRelease(i) PROVE RunsKnow' /\ ReleasesParse'
  BY <1>10 DEF PublishRelease, Proceeds, EndsUpdate, UpdateFault, AtUpdateStep, Unused
<1>11. ASSUME NEW i \in Indices, NEW reports \in Indices, Reupload(i, reports) PROVE RunsKnow' /\ ReleasesParse'
  <2>1. \A j \in Indices : site'[j].state = site[j].state
    BY <1>11 DEF Reupload
  <2>2. updater' = updater /\ \A o \in Updaters : updater[o].target \in Indices
    BY <1>11 DEF Reupload
  <2>3. \A o \in Updaters : Known(updater[o])'
    BY <2>1, <2>2 DEF Known
  <2> QED
    BY <2>1, <2>3
<1>12. CASE UNCHANGED updateVars
  BY <1>12 DEF updateVars, updateBounds, Proceeds, EndsUpdate, UpdateFault, AtUpdateStep, Unused
<1> QED
  BY <1>1, <1>2, <1>3, <1>4, <1>5, <1>6, <1>7, <1>8, <1>9, <1>10, <1>11, <1>12 DEF UpdateNext

\* A run that is alone compares with the program it will replace.
LEMMA OneAtATimeStays ==
  ASSUME UpdateInv, [UpdateNext]_updateVars, ~overlapped'
  PROVE  OneAtATime'
<1> USE DEF UpdateInv, UpdateTypeOK, OneAtATime, Working, updateBounds
<1>1. ASSUME NEW u \in Updaters, RunUpdate(u) PROVE OneAtATime'
  BY <1>1 DEF RunUpdate, Proceeds, EndsUpdate, UpdateFault, AtUpdateStep, Unused
<1>2. ASSUME NEW u \in Updaters, NEW i \in Indices, Query(u, i) PROVE OneAtATime'
  <2>1. PICK r \in Runs : RunAdvances(u, r)
    BY <1>2, RunRunAdvances
  <2>2. UNCHANGED <<program, overlapped>>
    BY <1>2, RunRunAdvances
  <2>3. updater'[u] = r /\ \A o \in Updaters : o # u => updater'[o] = updater[o]
    BY <2>1 DEF RunAdvances
  <2> QED
    BY <2>1, <2>2, <2>3 DEF RunAdvances
<1>3. ASSUME NEW u \in Updaters, DownloadSums(u) PROVE OneAtATime'
  <2>1. PICK r \in Runs : RunAdvances(u, r)
    BY <1>3, RunRunAdvances
  <2>2. UNCHANGED <<program, overlapped>>
    BY <1>3, RunRunAdvances
  <2>3. updater'[u] = r /\ \A o \in Updaters : o # u => updater'[o] = updater[o]
    BY <2>1 DEF RunAdvances
  <2> QED
    BY <2>1, <2>2, <2>3 DEF RunAdvances
<1>4. ASSUME NEW u \in Updaters, DownloadArchive(u) PROVE OneAtATime'
  <2>1. PICK r \in Runs : RunAdvances(u, r)
    BY <1>4, RunRunAdvances
  <2>2. UNCHANGED <<program, overlapped>>
    BY <1>4, RunRunAdvances
  <2>3. updater'[u] = r /\ \A o \in Updaters : o # u => updater'[o] = updater[o]
    BY <2>1 DEF RunAdvances
  <2> QED
    BY <2>1, <2>2, <2>3 DEF RunAdvances
<1>5. ASSUME NEW u \in Updaters, Extract(u) PROVE OneAtATime'
  <2>1. PICK r \in Runs : RunAdvances(u, r)
    BY <1>5, RunRunAdvances
  <2>2. UNCHANGED <<program, overlapped>>
    BY <1>5, RunRunAdvances
  <2>3. updater'[u] = r /\ \A o \in Updaters : o # u => updater'[o] = updater[o]
    BY <2>1 DEF RunAdvances
  <2> QED
    BY <2>1, <2>2, <2>3 DEF RunAdvances
<1>6. ASSUME NEW u \in Updaters, StageProgram(u) PROVE OneAtATime'
  <2>1. PICK r \in Runs : RunAdvances(u, r)
    BY <1>6, RunRunAdvances
  <2>2. UNCHANGED <<program, overlapped>>
    BY <1>6, RunRunAdvances
  <2>3. updater'[u] = r /\ \A o \in Updaters : o # u => updater'[o] = updater[o]
    BY <2>1 DEF RunAdvances
  <2> QED
    BY <2>1, <2>2, <2>3 DEF RunAdvances
<1>7. ASSUME NEW u \in Updaters, RenameProgram(u) PROVE OneAtATime'
  BY <1>7 DEF RenameProgram, Proceeds, EndsUpdate, UpdateFault, AtUpdateStep, Unused
<1>8. ASSUME NEW u \in Updaters, UpdaterDies(u) PROVE OneAtATime'
  BY <1>8 DEF UpdaterDies, Proceeds, EndsUpdate, UpdateFault, AtUpdateStep, Unused
<1>9. ASSUME NEW i \in Indices, NEW reports \in Indices, Draft(i, reports) PROVE OneAtATime'
  BY <1>9 DEF Draft, Proceeds, EndsUpdate, UpdateFault, AtUpdateStep, Unused
<1>10. ASSUME NEW i \in Indices, PublishRelease(i) PROVE OneAtATime'
  BY <1>10 DEF PublishRelease, Proceeds, EndsUpdate, UpdateFault, AtUpdateStep, Unused
<1>11. ASSUME NEW i \in Indices, NEW reports \in Indices, Reupload(i, reports) PROVE OneAtATime'
  BY <1>11 DEF Reupload, Proceeds, EndsUpdate, UpdateFault, AtUpdateStep, Unused
<1>12. CASE UNCHANGED updateVars
  BY <1>12 DEF updateVars, updateBounds, Proceeds, EndsUpdate, UpdateFault, AtUpdateStep, Unused
<1> QED
  BY <1>1, <1>2, <1>3, <1>4, <1>5, <1>6, <1>7, <1>8, <1>9, <1>10, <1>11, <1>12 DEF UpdateNext

LEMMA UpdateInductive == UpdateSpec => []UpdateInv
<1>1. UpdateInv /\ [UpdateNext]_updateVars => UpdateInv'
  BY UpdateTypesKept, RunsStillKnow, OneAtATimeStays DEF UpdateInv
<1> QED
  BY <1>1, UpdateInitially, PTL DEF UpdateSpec

\* For any releases and any number of runs, steps that fail and files that are
\* replaced: what is installed has the checksum of a published release and prints
\* a text that begins with its version (verifyChecksum, verifyExecutable), and
\* unless two runs are at work at once the release is later than the program that
\* is replaced, in the order of semver.org (compareVersions).
THEOREM UpdatesGoForward == UpdateSpec => UpdatesHold
<1> DEFINE Installs ==
      program' # program =>
        \E u \in Updaters :
          LET target == updater[u].target IN
          /\ Working(u) /\ program' = updater[u].sums /\ program'.build \in {"build", "rebuild"}
          /\ site[target].state = "published" /\ <<program'.reports, target>> \in TextBegins
          /\ ~overlapped => target > program.reports
<1>1. UpdateInv /\ [UpdateNext]_updateVars => Installs
  <2> SUFFICES ASSUME UpdateInv, [UpdateNext]_updateVars, program' # program PROVE Installs
    OBVIOUS
  <2>1. PICK u \in Updaters : RenameProgram(u) /\ program' = updater[u].staged
    BY DEF UpdateNext, updateVars, RunUpdate, Query, DownloadSums, DownloadArchive, Extract, StageProgram, RenameProgram,
           UpdaterDies, Draft, PublishRelease, Reupload
  <2>2. updater[u].step = "rename" /\ Working(u)
    BY <2>1 DEF RenameProgram, AtUpdateStep, Working
  <2>3. /\ site[updater[u].target].state = "published" /\ Verdict(updater[u].own, updater[u].target) = "newer"
        /\ updater[u].staged = updater[u].sums /\ updater[u].staged.build \in {"build", "rebuild"}
        /\ <<updater[u].staged.reports, updater[u].target>> \in TextBegins
    BY <2>2 DEF UpdateInv, RunsKnow, Known
  <2>4. ASSUME ~overlapped PROVE updater[u].target > program.reports
    <3>1. updater[u].own = program.reports
      BY <2>2, <2>4 DEF UpdateInv, OneAtATime
    <3>2. updater[u].own \in Indices /\ updater[u].target \in Indices /\ Parses(Releases[updater[u].target])
      BY <2>3 DEF UpdateInv, UpdateTypeOK, ReleasesParse
    <3> QED
      BY <2>3, <3>1, <3>2, NewerIsLater
  <2> QED
    BY <2>1, <2>2, <2>3, <2>4
<1>2. [][Installs]_updateVars => UpdatesHold
  BY PTL DEF UpdatesHold
<1> QED
  BY <1>1, <1>2, UpdateInductive, PTL DEF UpdateSpec, UpdatesHold

-----------------------------------------------------------------------------
(* The four of them side by side (MCProcesses). *)

\* A behaviour that is explored is one of the record of a key, of the authorization
\* server, of the background server and of the desktop application.
LEMMA ProcessesAreParts ==
  ProcessesSpec => Spec /\ OAuthSpec /\ DaemonSpec /\ DesktopSpec /\ [](subject \in Subjects)
<1>1. ProcessesInit => Init /\ OAuthInit /\ DaemonInit /\ DesktopInit /\ subject \in Subjects
  BY DEF ProcessesInit
<1>2. [ProcessesNext]_ProcessesVars => [Next]_vars
  BY DEF ProcessesNext, ProcessesVars
<1>3. [ProcessesNext]_ProcessesVars => [OAuthNext]_oauthVars
  BY DEF ProcessesNext, ProcessesVars
<1>4. [ProcessesNext]_ProcessesVars => [DaemonNext]_daemonVars
  BY DEF ProcessesNext, ProcessesVars
<1>5. [ProcessesNext]_ProcessesVars => [DesktopNext]_desktopVars
  BY DEF ProcessesNext, ProcessesVars
<1>6. [ProcessesNext]_ProcessesVars => subject' = subject
  BY DEF ProcessesNext, ProcessesVars
<1>7. subject \in Subjects /\ [ProcessesNext]_ProcessesVars => (subject \in Subjects)'
  BY <1>6
<1> QED
  BY <1>1, <1>2, <1>3, <1>4, <1>5, <1>7, PTL DEF ProcessesSpec, Spec, OAuthSpec, DaemonSpec, DesktopSpec

\* Type correctness of what the processes of a home directory share: the record of a
\* key, the files of the authorization server, the record of the background server and
\* of the tunnel, whichever of them a behaviour is about.
THEOREM ProcessesTypes == ProcessesSpec => []ProcessesTypeOK
<1>1. DaemonSpec => []DaemonTypeOK
  <2>1. DaemonInv => DaemonTypeOK
    BY DEF DaemonInv
  <2> QED
    BY <2>1, DaemonInductive, PTL
<1>2. DesktopSpec => []DesktopTypeOK
  <2>1. TunnelInv => DesktopTypeOK
    BY DEF TunnelInv
  <2> QED
    BY <2>1, TunnelInductive, PTL
<1>3. OAuthSpec => []OAuthTypeOK
  <2>1. OAuthInv => OAuthTypeOK
    BY DEF OAuthInv
  <2> QED
    BY <2>1, OAuthInductive, PTL
<1>4. subject \in Subjects /\ TypeOK /\ OAuthTypeOK /\ DaemonTypeOK /\ DesktopTypeOK => ProcessesTypeOK
  BY DEF Subjects, ProcessesTypeOK
<1> QED
  BY <1>1, <1>2, <1>3, <1>4, TypeCorrect, ProcessesAreParts, PTL

\* What is promised of the processes holds in every behaviour that is explored: one
\* owner and one answer of a key, credentials, servers and tunnels that are kept and
\* found, a completed record of a key that is never written again, and the key's promise.
THEOREM ProcessesHold ==
  ProcessesSpec => /\ [](EffectsBounded /\ OneOwnerOneAnswer /\ CredentialsHold /\ DaemonHolds /\ TunnelHolds)
                   /\ CompletedFinal /\ PromiseKept
BY ProcessesAreParts, Bounded, OwnedOnce, CredentialsOutliveTheProcess, DaemonIsFound, TunnelIsFound, Final,
   PromiseIsKept, PTL
===============================================================================
