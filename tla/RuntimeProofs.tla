----------------------------- MODULE RuntimeProofs -----------------------------
(***************************************************************************)
(* Proofs about what runs in a session: the housekeeping of its rows       *)
(* (Retention), the Git identity of a run (WorkspaceRun) and its terminal  *)
(* tasks (Terminal).  TLC checks their properties on small instances, run  *)
(* runtime_safety; here they are proved for every value of the constants,  *)
(* and without the bounds on combined troubles of that run.                *)
(*                                                                         *)
(* The last part carries this over to MCRuntime, with the sessions and     *)
(* observers of SessionProofs: what TLC explores are behaviours of each of *)
(* the parts.                                                              *)
(***************************************************************************)
EXTENDS MCRuntime, SessionProofs, WellFoundedInduction

-----------------------------------------------------------------------------
\* Housekeeping

\* A set of numbers that is not empty has a least one, so that the pass knows the
\* oldest of its candidates.
LEMMA OldestIsOne ==
  ASSUME NEW S \in SUBSET Nat, S # {}
  PROVE  OldestRow(S) \in S
<1>1. PICK r \in S : \A o \in S : <<o, r>> \notin OpToRel(<, Nat)
  BY WFMin, NatLessThanWellFounded, Zenon
<1>2. \A o \in S : ~(o < r)
  BY <1>1, Zenon DEF OpToRel
<1>3. \A o \in S : r <= o
  BY <1>2
<1> QED BY <1>3 DEF OldestRow

\* The pass knows what it is about to do: its candidates are aged rows of tasks
\* that have ended, and there is one whose row is to go.  Only tasks and operations
\* run.
HousekeepingInv ==
  /\ RetentionTypeOK
  /\ pass \in [step : {"idle", "records", "candidates", "logs", "row", "operations", "snapshots"},
               candidates : SUBSET TaskRows]
  /\ \A r \in Rows : rows[r] = "running" => r \in TaskRows \cup OperationRows
  /\ \A r \in pass.candidates : r \in aged /\ rows[r] \in {"succeeded", "failed"}
  /\ pass.step = "row" => pass.candidates # {}

LEMMA HousekeepingStart == RetentionInit => HousekeepingInv
<1> SUFFICES ASSUME RetentionInit PROVE HousekeepingInv
  OBVIOUS
<1> USE RetentionConstants
<1>1. RetentionTypeOK
  BY DEF RetentionInit, RetentionTypeOK, Rows
<1> QED BY <1>1 DEF RetentionInit, HousekeepingInv

\* The candidate whose log or row goes next.
LEMMA CandidateChosen ==
  ASSUME HousekeepingInv, pass.candidates # {}
  PROVE  OldestRow(pass.candidates) \in pass.candidates
<1>1. pass.candidates \in SUBSET Nat
  BY RetentionConstants DEF HousekeepingInv, RetentionTypeOK, Rows
<1> QED BY <1>1, OldestIsOne

\* Every action keeps the invariant, and deletes a row only if it may go
\* (RunOnce and its four deletions).
MayGo(r) ==
  /\ r \in aged /\ rows[r] # "running"
  /\ r \in OperationRows \cup SnapshotRows => session = "closed"
  /\ r \notin current

LEMMA HousekeepingStep ==
  ASSUME HousekeepingInv, [RetentionNext]_retentionVars
  PROVE  /\ HousekeepingInv'
         /\ \A r \in Rows : rows[r] # "deleted" /\ rows'[r] = "deleted" => MayGo(r)
<1> DEFINE Goal == /\ HousekeepingInv'
                   /\ \A r \in Rows : rows[r] # "deleted" /\ rows'[r] = "deleted" => MayGo(r)
<1> USE RetentionConstants DEF HousekeepingInv, RetentionTypeOK
<1>1. CASE StartPass
  BY <1>1 DEF StartPass, PassGoes
<1>2. CASE DeleteRecords
  <2>1. CASE PassFails /\ UNCHANGED rows
    BY <1>2, <2>1 DEF DeleteRecords, PassFails
  <2>2. CASE /\ \E b \in Batches({r \in EditRows \cap aged : Present(r)}) : rows' = Deleted(b)
             /\ PassGoes("candidates") /\ UNCHANGED retentionFaults
    <3>1. PICK b \in SUBSET {r \in EditRows \cap aged : Present(r)} : rows' = Deleted(b)
      BY <2>2 DEF Batches
    <3>2. \A r \in b : r \in EditRows /\ r \in aged /\ rows[r] # "running"
      BY DEF Rows
    <3>3. \A r \in Rows : rows'[r] = IF r \in b THEN "deleted" ELSE rows[r]
      BY <3>1 DEF Deleted
    <3>4. rows' \in [Rows -> {"none", "running", "succeeded", "failed", "deleted"}]
      BY <3>1 DEF Deleted
    <3>5. \A r \in pass.candidates : r \in Rows /\ r \notin b
      BY <3>2 DEF Rows
    <3> QED BY <1>2, <2>2, <3>2, <3>3, <3>4, <3>5 DEF DeleteRecords, PassGoes, MayGo, Rows
  <2> QED BY <1>2, <2>1, <2>2 DEF DeleteRecords
<1>3. CASE SelectCandidates
  <2>1. CASE PassFails
    BY <1>3, <2>1 DEF SelectCandidates, PassFails
  <2>2. CASE ~PassFails
    <3> DEFINE able == {r \in TaskRows \cap aged : rows[r] \in {"succeeded", "failed"} /\ r \notin InUse}
    <3> DEFINE chosen == {r \in able : Cardinality({o \in able : o < r}) < Batch}
    <3>1. pass' = [step |-> "logs", candidates |-> chosen] /\ UNCHANGED retentionFaults
      BY <1>3, <2>2 DEF SelectCandidates
    <3>2. chosen \subseteq TaskRows /\ \A r \in chosen : r \in aged /\ rows[r] \in {"succeeded", "failed"}
      OBVIOUS
    <3> HIDE DEF chosen
    <3>3. UNCHANGED <<rows, aged, logs, session, current, evidence, plan>>
      BY <1>3 DEF SelectCandidates
    <3> QED BY <3>1, <3>2, <3>3 DEF Rows
  <2> QED BY <2>1, <2>2
<1>4. CASE RemoveLog
  BY <1>4, CandidateChosen DEF RemoveLog, PassGoes
<1>5. CASE DeleteRow
  <2>1. CASE PassFails /\ UNCHANGED rows
    BY <1>5, <2>1 DEF DeleteRow, PassFails
  <2>2. CASE ~(PassFails /\ UNCHANGED rows)
    <3> DEFINE r == OldestRow(pass.candidates)
    <3>1. r \in pass.candidates
      BY <1>5, CandidateChosen DEF DeleteRow
    <3> HIDE DEF r
    <3>2. /\ rows' = Deleted({r})
          /\ pass' = [step |-> "logs", candidates |-> pass.candidates \ {r}] /\ UNCHANGED retentionFaults
      BY <1>5, <2>2 DEF DeleteRow, r
    <3>3. \A x \in Rows : rows'[x] = IF x = r THEN "deleted" ELSE rows[x]
      BY <3>2 DEF Deleted
    <3>4. rows' \in [Rows -> {"none", "running", "succeeded", "failed", "deleted"}]
      BY <3>2 DEF Deleted
    <3>5. UNCHANGED <<aged, logs, session, current, evidence, plan>>
      BY <1>5 DEF DeleteRow
    <3>6. r \in TaskRows /\ r \in Rows /\ MayGo(r)
      BY <3>1 DEF MayGo, Rows
    <3>7. pass'.step = "logs" /\ pass'.candidates = pass.candidates \ {r}
      BY <3>2
    <3>8. HousekeepingInv'
      BY <3>1, <3>2, <3>3, <3>4, <3>5, <3>7
    <3> QED BY <3>3, <3>6, <3>8
  <2> QED BY <2>1, <2>2
<1>6. CASE DeleteOperations
  <2>1. CASE PassFails /\ UNCHANGED rows
    BY <1>6, <2>1 DEF DeleteOperations, PassFails
  <2>2. CASE ~(PassFails /\ UNCHANGED rows)
    <3>1. PICK b \in SUBSET (IF session = "closed" THEN {r \in OperationRows \cap aged : rows[r] \in {"succeeded", "failed"}} ELSE {}) :
            rows' = Deleted(b)
      BY <1>6, <2>2 DEF DeleteOperations, Batches
    <3>2. \A r \in b : r \in OperationRows /\ r \in aged /\ rows[r] # "running" /\ session = "closed"
      BY DEF Rows
    <3>3. \A r \in Rows : rows'[r] = IF r \in b THEN "deleted" ELSE rows[r]
      BY <3>1 DEF Deleted
    <3>4. rows' \in [Rows -> {"none", "running", "succeeded", "failed", "deleted"}]
      BY <3>1 DEF Deleted
    <3>5. PassGoes("snapshots") /\ UNCHANGED <<retentionFaults, aged, logs, session, current, evidence, plan>>
      BY <1>6, <2>2 DEF DeleteOperations
    <3>6. pass.candidates = {}
      BY <1>6 DEF DeleteOperations
    <3> QED BY <3>2, <3>3, <3>4, <3>5, <3>6 DEF PassGoes, MayGo, Rows
  <2> QED BY <2>1, <2>2
<1>7. CASE DeleteSnapshots
  <2>1. CASE PassFails /\ UNCHANGED rows
    BY <1>7, <2>1 DEF DeleteSnapshots, PassFails
  <2>2. CASE ~(PassFails /\ UNCHANGED rows)
    <3>1. PICK b \in SUBSET (IF session = "closed" THEN {r \in (SnapshotRows \cap aged) \ current : Present(r)} ELSE {}) :
            rows' = Deleted(b)
      BY <1>7, <2>2 DEF DeleteSnapshots, Batches
    <3>2. \A r \in b : r \in SnapshotRows /\ r \in aged /\ rows[r] # "running" /\ session = "closed" /\ r \notin current
      BY DEF Rows
    <3>3. \A r \in Rows : rows'[r] = IF r \in b THEN "deleted" ELSE rows[r]
      BY <3>1 DEF Deleted
    <3>4. rows' \in [Rows -> {"none", "running", "succeeded", "failed", "deleted"}]
      BY <3>1 DEF Deleted
    <3>5. \A r \in pass.candidates : r \in Rows /\ r \notin b
      BY <3>2 DEF Rows
    <3>6. PassGoes("idle") /\ UNCHANGED <<retentionFaults, aged, logs, session, current, evidence, plan>>
      BY <1>7, <2>2 DEF DeleteSnapshots
    <3> QED BY <3>2, <3>3, <3>4, <3>5, <3>6 DEF PassGoes, MayGo, Rows
  <2> QED BY <2>1, <2>2
<1>8. ASSUME NEW r \in Rows, Started(r) PROVE Goal
  BY <1>8 DEF Started, Rows
<1>9. ASSUME NEW r \in Rows, Ended(r) PROVE Goal
  BY <1>9 DEF Ended, Rows
<1>10. ASSUME NEW r \in Rows, Ages(r) PROVE Goal
  BY <1>10 DEF Ages, Rows
<1>11. CASE CloseSession
  BY <1>11 DEF CloseSession
<1>12. ASSUME NEW p \in PlanTasks, CompletePlanTask(p) PROVE Goal
  BY <1>12 DEF CompletePlanTask
<1>13. CASE DeliverPlan
  BY <1>13 DEF DeliverPlan
<1>14. CASE UNCHANGED retentionVars
  BY <1>14 DEF retentionVars
<1> QED BY <1>1, <1>2, <1>3, <1>4, <1>5, <1>6, <1>7, <1>8, <1>9, <1>10, <1>11, <1>12, <1>13, <1>14
        DEF RetentionNext, PassStep

\* Housekeeping keeps its candidates straight (deleteTerminalTasks).
THEOREM CandidatesAreOver == RetentionSpec => []HousekeepingInv
<1>1. HousekeepingInv /\ [RetentionNext]_retentionVars => HousekeepingInv'
  BY HousekeepingStep
<1> QED BY HousekeepingStart, <1>1, PTL DEF RetentionSpec

\* Housekeeping never takes a row that is still good for something (RunOnce).
THEOREM AliveKept == RetentionSpec => KeepsWhatIsAlive
<1>1. HousekeepingInv /\ [RetentionNext]_retentionVars =>
        [\A r \in Rows : rows[r] # "deleted" /\ rows'[r] = "deleted" =>
           /\ r \in aged /\ rows[r] # "running"
           /\ r \in OperationRows \cup SnapshotRows => session = "closed"
           /\ r \notin current]_retentionVars
  BY HousekeepingStep DEF MayGo
<1> QED BY CandidatesAreOver, <1>1, PTL DEF RetentionSpec, KeepsWhatIsAlive

-----------------------------------------------------------------------------
\* The identity of a run

\* A command has its operation to itself: it has inserted the row of it and is
\* about to start its task, or has started it.
Owns(c) == runAt[c] = "start" \/ process[c] # "none"

\* Where a command is in its call, and what it knows there.
CallsInOrder ==
  \A c \in RunCommands :
    /\ runAt[c] \in {"idle", "advance", "verify", "probe", "prepare", "start"} => process[c] = "none"
    /\ runAt[c] \in {"attach", "wait", "reconcile", "conclude"} => process[c] # "none"
    /\ runAt[c] \in {"prepare", "attach", "reconcile", "conclude"} => IsTransition(c)
    /\ runAt[c] = "prepare" => Parent[Candidate[c]] = Expected[c]

\* The row of an operation is of the one command that has it.
RowsOwned ==
  /\ \A c \in RunCommands : IsTransition(c) /\ Owns(c) =>
       transition[TransitionOf[c]].phase # "none" /\ transition[TransitionOf[c]].after = Candidate[c]
  /\ \A c, d \in RunCommands :
       c # d /\ IsTransition(c) /\ TransitionOf[c] = TransitionOf[d] => ~Owns(c) \/ ~Owns(d)
  /\ \A t \in Transitions : transition[t].task # NoTransition =>
       LET c == transition[t].task IN
       /\ transition[t].phase # "none"
       /\ TransitionOf[c] = t /\ Candidate[c] = transition[t].after /\ process[c] # "none"

\* A row is about a step to a child; a confirmed one has its receipt, and the
\* identity is not before what it led to.
RowsTrue ==
  \A t \in Transitions :
    /\ transition[t].phase # "none" =>
         /\ transition[t].before \in Commits /\ transition[t].after \in Commits
         /\ Parent[transition[t].after] = transition[t].before
    /\ transition[t].phase = "confirmed" =>
         /\ transition[t].task # NoTransition /\ receipt[transition[t].task] = "succeeded"
         /\ frozen # NoCommit /\ Depth[transition[t].after] <= Depth[frozen]

OnePending == \A s, t \in Pending : s = t

\* The row a call has read had its receipt, and is the one the call is about unless
\* that one is confirmed already.
RowsRead ==
  \A c \in RunCalls : runAt[c] \in {"advance", "conclude"} =>
    /\ runRow[c] \in Transitions
    /\ LET row == transition[runRow[c]] IN
       row.phase # "none" /\ row.task # NoTransition /\ receipt[row.task] = "succeeded"
    /\ runAt[c] = "conclude" /\ c \in RunCommands =>
         runRow[c] = TransitionOf[c] \/ transition[TransitionOf[c]].phase = "confirmed"

AnswersTrue ==
  \A c \in RunCommands : runAnswer[c] = "confirmed" =>
    IsTransition(c) /\ transition[TransitionOf[c]].phase = "confirmed"

RunInv ==
  RunTypeOK /\ CallsInOrder /\ RowsOwned /\ RowsTrue /\ OnePending /\ RowsRead /\ AnswersTrue

LEMMA RunStart == RunInit => RunInv
<1> SUFFICES ASSUME RunInit PROVE RunInv
  OBVIOUS
<1> USE RunConstants DEF RunInit
<1>1. /\ NoTransitionRow \in [phase : {"none", "pending", "confirmed"}, before : Commits \cup {NoCommit},
                              after : Commits \cup {NoCommit}, task : RunCommands \cup {NoTransition}]
      /\ NoTransitionRow.phase = "none" /\ NoTransitionRow.task = NoTransition
  BY DEF NoTransitionRow
<1>2. \A t \in Transitions : transition[t].phase = "none" /\ transition[t].task = NoTransition
  BY <1>1
<1>3. RunTypeOK
  BY <1>1 DEF RunTypeOK
<1>4. CallsInOrder /\ RowsRead /\ AnswersTrue
  BY DEF CallsInOrder, RowsRead, AnswersTrue, RunCalls
<1>5. RowsOwned
  BY <1>2 DEF RowsOwned, Owns, RunCalls
<1>6. RowsTrue /\ OnePending
  BY <1>2 DEF RowsTrue, OnePending, Pending
<1> QED BY <1>3, <1>4, <1>5, <1>6 DEF RunInv

\* The row of a command that has its operation.
LEMMA OwnRow ==
  ASSUME NEW c \in RunCommands, IsTransition(c)
  PROVE  TransitionOf[c] \in Transitions
BY RunConstants DEF IsTransition, Transitions

\* A step that changes where one call is, and at most what it answers, and neither
\* starts a task nor prepares one.
CallGoes(c, step, row, answer) ==
  /\ runAt' = [runAt EXCEPT ![c] = step] /\ runRow' = [runRow EXCEPT ![c] = row]
  /\ runAnswer' = [runAnswer EXCEPT ![c] = answer] /\ runSeen' \in [RunOpens -> Commits \cup {NoCommit}]

LEMMA CallGoesOn ==
  ASSUME RunInv, NEW c \in RunCalls, NEW step, NEW row, NEW answer, CallGoes(c, step, row, answer),
         UNCHANGED <<frozen, frozenVersion, transition, receipt, process, branch>>,
         foreignMoves' \in 0..MaxForeignMoves /\ runFaults' \in 0..MaxRunFaults /\ runCrashes' \in 0..MaxRunCrashes,
         step \in {"capture", "freeze", "verify", "probe", "prepare", "start", "advance", "wait", "reconcile", "conclude", "done"},
         row \in Transitions \cup {NoTransition},
         answer \in {"none", "opened", "mismatch", "unverified", "unstarted", "pending", "confirmed", "ended", "lost"},
         c \in RunCommands =>
           /\ step \in {"advance", "verify", "probe", "prepare", "start"} => process[c] = "none"
           /\ step \in {"wait", "reconcile", "conclude"} => process[c] # "none"
           /\ step \in {"prepare", "reconcile", "conclude"} => IsTransition(c)
           /\ step = "prepare" => Parent[Candidate[c]] = Expected[c]
           /\ step = "start" => ~IsTransition(c)
           /\ step = "conclude" => row = TransitionOf[c] \/ transition[TransitionOf[c]].phase = "confirmed"
           /\ answer = "confirmed" => IsTransition(c) /\ transition[TransitionOf[c]].phase = "confirmed",
         step \in {"advance", "conclude"} =>
           /\ row \in Transitions /\ transition[row].phase # "none"
           /\ transition[row].task # NoTransition /\ receipt[transition[row].task] = "succeeded"
  PROVE  RunInv'
<1> USE RunConstants DEF CallGoes
<1>1. RunTypeOK'
  BY DEF RunInv, RunTypeOK
<1>2. \A d \in RunCalls : d # c => runAt'[d] = runAt[d] /\ runRow'[d] = runRow[d] /\ runAnswer'[d] = runAnswer[d]
  BY DEF RunInv, RunTypeOK
<1>3. runAt'[c] = step /\ runRow'[c] = row /\ runAnswer'[c] = answer
  BY DEF RunInv, RunTypeOK
<1>4. RunCommands \subseteq RunCalls
  BY DEF RunCalls
<1> HIDE DEF CallGoes
<1>5. CallsInOrder'
  BY <1>2, <1>3, <1>4 DEF RunInv, CallsInOrder, IsTransition
<1>6. \A d \in RunCommands : IsTransition(d) /\ Owns(d)' => Owns(d)
  BY <1>2, <1>3, <1>4 DEF Owns
<1>7. RowsOwned'
  BY <1>6 DEF RunInv, RowsOwned, IsTransition
<1>8. RowsTrue' /\ OnePending'
  BY DEF RunInv, RowsTrue, OnePending, Pending
<1>9. RowsRead'
  BY <1>2, <1>3, <1>4 DEF RunInv, RowsRead
<1>10. AnswersTrue'
  BY <1>2, <1>3, <1>4 DEF RunInv, AnswersTrue, IsTransition
<1> QED BY <1>1, <1>5, <1>7, <1>8, <1>9, <1>10 DEF RunInv

\* The ways a call goes on or ends, as moves of it.
LEMMA GoIsMove ==
  ASSUME NEW c, NEW step, RunGo(c, step), RunTypeOK
  PROVE  CallGoes(c, step, NoTransition, runAnswer[c])
<1>1. runAnswer = [runAnswer EXCEPT ![c] = runAnswer[c]]
  BY DEF RunTypeOK
<1> QED BY <1>1 DEF RunGo, CallGoes, RunTypeOK

LEMMA ReplyIsMove ==
  ASSUME NEW c, NEW answer, RunReply(c, answer), RunTypeOK
  PROVE  CallGoes(c, "done", NoTransition, answer)
BY DEF RunReply, CallGoes, RunTypeOK

\* A call that answers nothing of a transition may always end.
LEMMA ReplyKeeps ==
  ASSUME RunInv, NEW c \in RunCalls, NEW answer, RunReply(c, answer),
         UNCHANGED <<frozen, frozenVersion, transition, receipt, process, branch>>,
         foreignMoves' \in 0..MaxForeignMoves /\ runFaults' \in 0..MaxRunFaults /\ runCrashes' \in 0..MaxRunCrashes,
         answer \in {"none", "opened", "mismatch", "unverified", "unstarted", "pending", "ended", "lost"}
  PROVE  RunInv'
BY ReplyIsMove, CallGoesOn DEF RunInv

LEMMA BoundsKept ==
  ASSUME RunTypeOK, UNCHANGED runBounds \/ RunFault
  PROVE  foreignMoves' \in 0..MaxForeignMoves /\ runFaults' \in 0..MaxRunFaults /\ runCrashes' \in 0..MaxRunCrashes
BY RunConstants DEF RunTypeOK, RunFault, runBounds

\* A command that has its task, and nothing pending or something else pending, is
\* of a confirmed transition.
LEMMA OwnConfirmed ==
  ASSUME RunInv, NEW c \in RunCommands, runAt[c] \in {"reconcile", "conclude"}
  PROVE  /\ IsTransition(c) /\ TransitionOf[c] \in Transitions
         /\ transition[TransitionOf[c]].phase \in {"pending", "confirmed"}
<1>1. IsTransition(c) /\ Owns(c)
  BY DEF RunInv, CallsInOrder, Owns
<1>2. TransitionOf[c] \in Transitions
  BY <1>1, OwnRow
<1>3. transition[TransitionOf[c]].phase \in {"none", "pending", "confirmed"}
  BY <1>2 DEF RunInv, RunTypeOK
<1> QED BY <1>1, <1>2, <1>3 DEF RunInv, RowsOwned

\* reconcileWorkspaceTransition reads the pending row, and looks at its receipt.
LEMMA ReconcileStep ==
  ASSUME RunInv, NEW c \in RunCalls, ReconcileTransition(c)
  PROVE  RunInv' /\ UNCHANGED runStore
<1>1. UNCHANGED runStore /\ UNCHANGED <<frozen, frozenVersion, transition, receipt, process, branch>>
  BY DEF ReconcileTransition, runStore, runWorld
<1>2. runAt[c] \in {"idle", "reconcile"}
  BY DEF ReconcileTransition
<1>3. RunTypeOK
  BY DEF RunInv
<1>4. runAnswer[c] \in {"none", "opened", "mismatch", "unverified", "unstarted", "pending", "confirmed", "ended", "lost"}
  BY <1>3 DEF RunTypeOK
<1>5. c \in RunCommands /\ runAnswer[c] = "confirmed" =>
        IsTransition(c) /\ transition[TransitionOf[c]].phase = "confirmed"
  BY DEF RunInv, AnswersTrue
<1>6. c \in RunCommands => (runAt[c] = "idle" => process[c] = "none") /\ (runAt[c] = "reconcile" => process[c] # "none" /\ IsTransition(c))
  BY DEF RunInv, CallsInOrder
<1>7. CASE Pending = {} /\ Reconciled(c) /\ UNCHANGED runBounds
  <2>1. foreignMoves' \in 0..MaxForeignMoves /\ runFaults' \in 0..MaxRunFaults /\ runCrashes' \in 0..MaxRunCrashes
    BY <1>3, <1>7, BoundsKept
  <2>2. CASE runAt[c] = "reconcile"
    <3>1. CallGoes(c, "done", NoTransition, "confirmed")
      BY <1>3, <1>7, <2>2, ReplyIsMove DEF Reconciled
    <3>2. c \in RunCommands => IsTransition(c) /\ transition[TransitionOf[c]].phase = "confirmed"
      BY <1>7, <2>2, OwnConfirmed DEF Pending
    <3> QED BY <1>1, <2>1, <3>1, <3>2, CallGoesOn
  <2>3. CASE runAt[c] = "idle"
    <3>1. CallGoes(c, IF c \in RunOpens THEN "capture" ELSE "verify", NoTransition, runAnswer[c])
      BY <1>3, <1>7, <2>3, GoIsMove DEF Reconciled
    <3> QED BY <1>1, <1>4, <1>5, <1>6, <2>1, <2>3, <3>1, CallGoesOn
  <2> QED BY <1>2, <2>2, <2>3
<1>8. CASE /\ \E t \in Pending :
                IF Receipted(t)
                THEN /\ runAt' = [runAt EXCEPT ![c] = IF @ = "idle" THEN "advance" ELSE "conclude"]
                     /\ runRow' = [runRow EXCEPT ![c] = t] /\ UNCHANGED <<runSeen, runAnswer>>
                ELSE RunReply(c, "unverified")
           /\ UNCHANGED runBounds
  <2>1. foreignMoves' \in 0..MaxForeignMoves /\ runFaults' \in 0..MaxRunFaults /\ runCrashes' \in 0..MaxRunCrashes
    BY <1>3, <1>8, BoundsKept
  <2>2. PICK t \in Pending :
          IF Receipted(t)
          THEN /\ runAt' = [runAt EXCEPT ![c] = IF @ = "idle" THEN "advance" ELSE "conclude"]
               /\ runRow' = [runRow EXCEPT ![c] = t] /\ UNCHANGED <<runSeen, runAnswer>>
          ELSE RunReply(c, "unverified")
    BY <1>8
  <2>3. CASE ~Receipted(t)
    BY <1>1, <2>1, <2>2, <2>3, ReplyKeeps
  <2>4. CASE Receipted(t)
    <3> DEFINE step == IF runAt[c] = "idle" THEN "advance" ELSE "conclude"
    <3>1. CallGoes(c, step, t, runAnswer[c])
      <4>1. runAnswer = [runAnswer EXCEPT ![c] = runAnswer[c]]
        BY <1>3 DEF RunTypeOK
      <4> QED BY <1>3, <2>2, <2>4, <4>1 DEF CallGoes, RunTypeOK
    <3>2. t \in Transitions /\ transition[t].phase = "pending"
      BY DEF Pending
    <3>3. transition[t].task # NoTransition /\ receipt[transition[t].task] = "succeeded"
      BY <2>4 DEF Receipted
    <3>4. c \in RunCommands /\ runAt[c] = "reconcile" => t = TransitionOf[c] \/ transition[TransitionOf[c]].phase = "confirmed"
      <4> SUFFICES ASSUME c \in RunCommands, runAt[c] = "reconcile", transition[TransitionOf[c]].phase # "confirmed"
                   PROVE  t = TransitionOf[c]
        OBVIOUS
      <4>1. TransitionOf[c] \in Pending
        BY OwnConfirmed DEF Pending
      <4> QED BY <4>1 DEF RunInv, OnePending
    <3>5. step \in {"advance", "conclude"} /\ (step = "advance" <=> runAt[c] = "idle") /\ (step = "conclude" <=> runAt[c] = "reconcile")
      BY <1>2
    <3> HIDE DEF step
    <3> QED BY <1>1, <1>4, <1>5, <1>6, <2>1, <3>1, <3>2, <3>3, <3>4, <3>5, CallGoesOn
  <2> QED BY <2>3, <2>4
<1>9. CASE RunFault /\ RunReply(c, "unverified")
  BY <1>1, <1>3, <1>9, BoundsKept, ReplyKeeps
<1> QED BY <1>1, <1>7, <1>8, <1>9 DEF ReconcileTransition

\* An open looks at the branch (CaptureGitIdentity).
LEMMA CaptureStep ==
  ASSUME RunInv, NEW c \in RunOpens, Capture(c)
  PROVE  RunInv' /\ UNCHANGED runStore
<1>1. RunTypeOK /\ c \in RunCalls /\ c \notin RunCommands
  BY RunConstants DEF RunInv, RunCalls
<1>2. /\ runAnswer = [runAnswer EXCEPT ![c] = runAnswer[c]] /\ runRow = [runRow EXCEPT ![c] = runRow[c]]
      /\ runRow[c] \in Transitions \cup {NoTransition}
      /\ runAnswer[c] \in {"none", "opened", "mismatch", "unverified", "unstarted", "pending", "confirmed", "ended", "lost"}
  BY <1>1 DEF RunTypeOK
<1>3. CallGoes(c, "freeze", runRow[c], runAnswer[c])
  BY <1>1, <1>2 DEF Capture, CallGoes, RunTypeOK
<1>4. UNCHANGED runStore /\ UNCHANGED <<frozen, frozenVersion, transition, receipt, process, branch>> /\ UNCHANGED runBounds
  BY DEF Capture, runStore, runWorld
<1>5. foreignMoves' \in 0..MaxForeignMoves /\ runFaults' \in 0..MaxRunFaults /\ runCrashes' \in 0..MaxRunCrashes
  BY <1>1, <1>4, BoundsKept
<1> QED BY <1>1, <1>2, <1>3, <1>4, <1>5, CallGoesOn

\* A command looks at the identity, at the branch and at the end of its task
\* (VerifyFrozenGitIdentity, VerifyGitIdentity, Task.Wait).
LEMMA CommandLooks ==
  ASSUME RunInv, NEW c \in RunCommands, VerifyFrozen(c) \/ VerifyBranch(c) \/ WaitTask(c)
  PROVE  RunInv' /\ UNCHANGED runStore
<1>1. UNCHANGED runStore /\ UNCHANGED <<frozen, frozenVersion, transition, receipt, process, branch>> /\ UNCHANGED runBounds
  BY DEF VerifyFrozen, VerifyBranch, WaitTask, runStore, runWorld
<1>2. RunTypeOK /\ c \in RunCalls
  BY DEF RunInv, RunCalls
<1>3. foreignMoves' \in 0..MaxForeignMoves /\ runFaults' \in 0..MaxRunFaults /\ runCrashes' \in 0..MaxRunCrashes
  BY <1>1, <1>2, BoundsKept
<1>4. runAnswer[c] \in {"none", "opened", "mismatch", "unverified", "unstarted", "pending", "confirmed", "ended", "lost"}
  BY <1>2 DEF RunTypeOK
<1>5. runAnswer[c] = "confirmed" => IsTransition(c) /\ transition[TransitionOf[c]].phase = "confirmed"
  BY DEF RunInv, AnswersTrue
<1>6. /\ runAt[c] \in {"verify", "probe"} => process[c] = "none"
      /\ runAt[c] = "wait" => process[c] # "none"
  BY DEF RunInv, CallsInOrder
<1>7. CASE \E answer \in {"mismatch", "ended", "pending"} : RunReply(c, answer)
  BY <1>1, <1>2, <1>3, <1>7, ReplyKeeps
<1>8. CASE runAt[c] = "verify" /\ RunGo(c, "probe")
  BY <1>1, <1>2, <1>3, <1>4, <1>5, <1>6, <1>8, GoIsMove, CallGoesOn
<1>9. CASE runAt[c] = "wait" /\ IsTransition(c) /\ RunGo(c, "reconcile")
  BY <1>1, <1>2, <1>3, <1>4, <1>5, <1>6, <1>9, GoIsMove, CallGoesOn
<1>10. CASE runAt[c] = "probe" /\ IsTransition(c) /\ Parent[Candidate[c]] = Expected[c] /\ RunGo(c, "prepare")
  BY <1>1, <1>2, <1>3, <1>4, <1>5, <1>6, <1>10, GoIsMove, CallGoesOn
<1>11. CASE runAt[c] = "probe" /\ ~IsTransition(c) /\ RunGo(c, "start")
  BY <1>1, <1>2, <1>3, <1>4, <1>5, <1>6, <1>11, GoIsMove, CallGoesOn
<1> QED BY <1>7, <1>8, <1>9, <1>10, <1>11 DEF VerifyFrozen, VerifyBranch, WaitTask

\* An open freezes the first identity, another one is refused (FreezeGitIdentity).
LEMMA FreezeStep ==
  ASSUME RunInv, NEW c \in RunOpens, FreezeIdentity(c)
  PROVE  RunInv' /\ (frozen # NoCommit => frozen' = frozen)
<1>1. RunTypeOK /\ c \in RunCalls /\ c \notin RunCommands
  BY RunConstants DEF RunInv, RunCalls
<1>2. UNCHANGED <<transition, receipt, process, branch>> /\ UNCHANGED runBounds
  BY DEF FreezeIdentity, runWorld
<1>3. foreignMoves' \in 0..MaxForeignMoves /\ runFaults' \in 0..MaxRunFaults /\ runCrashes' \in 0..MaxRunCrashes
  BY <1>1, <1>2, BoundsKept
<1>4. CASE frozen # NoCommit
  <2>1. UNCHANGED <<frozen, frozenVersion>> /\ RunReply(c, IF frozen = runSeen[c] THEN "opened" ELSE "mismatch")
    BY <1>4 DEF FreezeIdentity
  <2> QED BY <1>1, <1>2, <1>3, <2>1, ReplyKeeps
<1>5. CASE frozen = NoCommit
  <2>1. frozen' = runSeen[c] /\ frozenVersion' = 1 /\ CallGoes(c, "done", NoTransition, "opened")
    BY <1>1, <1>5, ReplyIsMove DEF FreezeIdentity
  <2>2. /\ \A d \in RunCommands : runAt'[d] = runAt[d] /\ runRow'[d] = runRow[d] /\ runAnswer'[d] = runAnswer[d]
        /\ \A d \in RunCalls : runAt'[d] = (IF d = c THEN "done" ELSE runAt[d]) /\ (d # c => runRow'[d] = runRow[d])
    BY <1>1, <2>1 DEF CallGoes, RunTypeOK, RunCalls
  <2>3. RunTypeOK'
    BY <1>1, <1>2, <1>3, <2>1 DEF RunTypeOK, CallGoes
  <2>4. CallsInOrder' /\ RowsOwned' /\ AnswersTrue'
    BY <1>2, <2>2 DEF RunInv, CallsInOrder, RowsOwned, AnswersTrue, Owns, IsTransition
  <2>5. RowsTrue' /\ OnePending'
    BY <1>2, <1>5 DEF RunInv, RowsTrue, OnePending, Pending
  <2>6. RowsRead'
    BY <1>2, <2>2 DEF RunInv, RowsRead
  <2> QED BY <1>5, <2>3, <2>4, <2>5, <2>6 DEF RunInv
<1> QED BY <1>4, <1>5

\* The branch moves, whoever moves it.
LEMMA BranchMoves ==
  ASSUME RunInv, UNCHANGED <<runStore, receipt, process, runCall>>, branch' \in Commits,
         foreignMoves' \in 0..MaxForeignMoves /\ runFaults' \in 0..MaxRunFaults /\ runCrashes' \in 0..MaxRunCrashes
  PROVE  RunInv'
BY DEF RunInv, RunTypeOK, CallsInOrder, RowsOwned, RowsTrue, OnePending, RowsRead, AnswersTrue, Owns, IsTransition,
       Pending, runStore, runCall

\* A process goes on: it never becomes one that has not started, and a receipt of
\* success stays.
LEMMA ProcessGoes ==
  ASSUME RunInv, NEW c \in RunCommands, NEW step \in {"moved", "refused", "ended"}, process[c] # "none",
         process' = [process EXCEPT ![c] = step], UNCHANGED <<runStore, runCall, runBounds>>, branch' \in Commits,
         receipt' \in [RunCommands -> {"none", "running", "succeeded", "failed", "interrupted"}],
         \A d \in RunCommands : receipt[d] = "succeeded" => receipt'[d] = "succeeded"
  PROVE  RunInv'
<1>1. RunTypeOK'
  BY DEF RunInv, RunTypeOK, runStore, runCall, runBounds
<1>2. \A d \in RunCommands : process'[d] = "none" <=> process[d] = "none"
  BY DEF RunInv, RunTypeOK
<1>3. \A t \in Transitions : transition[t].task # NoTransition => transition[t].task \in RunCommands
  BY DEF RunInv, RunTypeOK
<1>4. UNCHANGED <<frozen, transition, runAt, runRow, runAnswer>>
  BY DEF runStore, runCall
<1>5. CallsInOrder' /\ AnswersTrue' /\ OnePending'
  BY <1>2, <1>4 DEF RunInv, CallsInOrder, AnswersTrue, IsTransition, OnePending, Pending
<1>6. RowsOwned'
  BY <1>2, <1>3, <1>4 DEF RunInv, RowsOwned, Owns, IsTransition
<1>7. RowsTrue' /\ RowsRead'
  BY <1>3, <1>4 DEF RunInv, RowsTrue, RowsRead
<1> QED BY <1>1, <1>5, <1>6, <1>7 DEF RunInv

\* The process of a command moves the branch or not, and ends (git update-ref).
LEMMA ProcessStep ==
  ASSUME RunInv, NEW c \in RunCommands, ProcessMoves(c) \/ ProcessEnds(c)
  PROVE  RunInv' /\ UNCHANGED runStore
<1> USE RunConstants
<1>1. RunTypeOK
  BY DEF RunInv
<1>2. CASE ProcessMoves(c)
  <2>1. PICK step \in {"moved", "refused"} : process' = [process EXCEPT ![c] = step]
    BY <1>2 DEF ProcessMoves
  <2>2. branch' \in Commits /\ UNCHANGED <<runStore, receipt, runCall, runBounds>> /\ process[c] # "none"
    BY <1>1, <1>2 DEF ProcessMoves, RunTypeOK
  <2> QED BY <1>1, <2>1, <2>2, ProcessGoes DEF RunTypeOK
<1>3. CASE ProcessEnds(c)
  <2>1. /\ process' = [process EXCEPT ![c] = "ended"] /\ process[c] # "none"
        /\ UNCHANGED <<runStore, branch, runCall, runBounds>>
    BY <1>3 DEF ProcessEnds
  <2>2. /\ receipt' \in [RunCommands -> {"none", "running", "succeeded", "failed", "interrupted"}]
        /\ \A d \in RunCommands : receipt[d] = "succeeded" => receipt'[d] = "succeeded"
    BY <1>1, <1>3 DEF ProcessEnds, RunTypeOK
  <2>3. branch' \in Commits
    BY <1>1, <2>1 DEF RunTypeOK
  <2> QED BY <2>1, <2>2, <2>3, ProcessGoes
<1> QED BY <1>2, <1>3

\* A crash loses the calls and the receipts that are not written yet.
LEMMA CrashStep ==
  ASSUME RunInv, RunCrash
  PROVE  RunInv' /\ UNCHANGED runStore
<1> USE RunConstants
<1>1. RunTypeOK
  BY DEF RunInv
<1>2. UNCHANGED <<frozen, frozenVersion, transition, branch, runSeen, foreignMoves, runFaults>>
  BY DEF RunCrash, runStore
<1>3. /\ receipt' = [d \in RunCommands |-> IF receipt[d] = "running" THEN "interrupted" ELSE receipt[d]]
      /\ runAt' = [d \in RunCalls |-> IF runAt[d] = "idle" THEN "idle" ELSE "done"]
      /\ runAnswer' = [d \in RunCalls |-> IF runAt[d] \in {"idle", "done"} THEN runAnswer[d] ELSE "lost"]
      /\ runRow' = [d \in RunCalls |-> NoTransition]
      /\ runCrashes' \in 0..MaxRunCrashes
  BY <1>1 DEF RunCrash, RunTypeOK
<1>4. PICK survivors \in SUBSET RunCommands :
        process' = [d \in RunCommands |-> IF process[d] \in {"none", "ended"} \/ d \in survivors THEN process[d] ELSE "ended"]
  BY DEF RunCrash
<1>5. \A d \in RunCommands : (process'[d] = "none" <=> process[d] = "none") /\ (receipt[d] = "succeeded" => receipt'[d] = "succeeded")
  BY <1>3, <1>4
<1>6. \A d \in RunCommands : runAt'[d] \in {"idle", "done"} /\ (runAt'[d] = "idle" => runAt[d] = "idle")
                             /\ (runAnswer'[d] = "confirmed" => runAnswer[d] = "confirmed")
  BY <1>3 DEF RunCalls
<1>7. \A t \in Transitions : transition[t].task # NoTransition => transition[t].task \in RunCommands
  BY <1>1 DEF RunTypeOK
<1>8. RunTypeOK'
  <2>1. process' \in [RunCommands -> {"none", "started", "moved", "refused", "ended"}]
    BY <1>1, <1>4 DEF RunTypeOK
  <2> QED BY <1>1, <1>2, <1>3, <2>1 DEF RunTypeOK
<1>9. CallsInOrder' /\ AnswersTrue' /\ OnePending'
  BY <1>2, <1>5, <1>6 DEF RunInv, CallsInOrder, AnswersTrue, IsTransition, OnePending, Pending
<1>10. RowsOwned'
  BY <1>2, <1>5, <1>6, <1>7 DEF RunInv, RowsOwned, Owns, IsTransition
<1>11. RowsTrue' /\ RowsRead'
  BY <1>2, <1>3, <1>5, <1>7 DEF RunInv, RowsTrue, RowsRead
<1> QED BY <1>2, <1>8, <1>9, <1>10, <1>11 DEF RunInv, runStore

\* What a row is.
RowType == [phase : {"none", "pending", "confirmed"}, before : Commits \cup {NoCommit},
            after : Commits \cup {NoCommit}, task : RunCommands \cup {NoTransition}]

\* The row of an operation is inserted, once, while no other is pending
\* (prepareWorkspaceTransition).
LEMMA PrepareStep ==
  ASSUME RunInv, NEW c \in RunCommands, PrepareTransition(c)
  PROVE  RunInv' /\ UNCHANGED frozen
<1> DEFINE t == TransitionOf[c]
<1> USE RunConstants
<1>1. RunTypeOK /\ c \in RunCalls /\ runAt[c] = "prepare"
  BY DEF RunInv, RunCalls, PrepareTransition
<1>2. IsTransition(c) /\ Parent[Candidate[c]] = Expected[c] /\ process[c] = "none"
  BY <1>1 DEF RunInv, CallsInOrder
<1>3. t \in Transitions
  BY <1>2, OwnRow
<1>4. UNCHANGED <<frozen, frozenVersion, receipt, process, branch>>
  BY DEF PrepareTransition, runWorld
<1>5. foreignMoves' \in 0..MaxForeignMoves /\ runFaults' \in 0..MaxRunFaults /\ runCrashes' \in 0..MaxRunCrashes
  BY <1>1, BoundsKept DEF PrepareTransition
<1>6. CASE UNCHANGED transition /\ RunReply(c, "unverified")
  BY <1>1, <1>4, <1>5, <1>6, ReplyKeeps
<1>7. CASE /\ transition[t].phase = "none" /\ Pending = {}
           /\ transition' = [transition EXCEPT ![t] = [phase |-> "pending", before |-> Expected[c], after |-> Candidate[c], task |-> NoTransition]]
           /\ RunGo(c, "start")
  <2> DEFINE new == [phase |-> "pending", before |-> Expected[c], after |-> Candidate[c], task |-> NoTransition]
  <2>1. new \in RowType /\ new.phase = "pending" /\ new.before = Expected[c] /\ new.after = Candidate[c] /\ new.task = NoTransition
    BY DEF RowType
  <2>2. transition' = [transition EXCEPT ![t] = new] /\ CallGoes(c, "start", NoTransition, runAnswer[c])
    BY <1>1, <1>7, GoIsMove
  <2>3. transition[t].phase = "none" /\ Pending = {}
    BY <1>7
  <2> HIDE DEF new, t
  <2>4. transition'[t] = new /\ \A s \in Transitions : s # t => transition'[s] = transition[s]
    BY <1>1, <1>3, <2>2 DEF RunTypeOK
  <2>5. /\ \A d \in RunCalls : runAt'[d] = (IF d = c THEN "start" ELSE runAt[d]) /\ runAnswer'[d] = runAnswer[d]
        /\ \A d \in RunCalls : d # c => runRow'[d] = runRow[d]
    BY <1>1, <2>2 DEF CallGoes, RunTypeOK
  <2>6. RunTypeOK'
    <3>1. transition' \in [Transitions -> RowType]
      BY <1>1, <2>1, <2>2 DEF RunTypeOK, RowType
    <3>2. /\ runAt' \in [RunCalls -> {"idle", "advance", "capture", "freeze", "verify", "probe", "prepare", "start",
                             "attach", "wait", "reconcile", "conclude", "done"}]
          /\ runAnswer' \in [RunCalls -> {"none", "opened", "mismatch", "unverified", "unstarted", "pending", "confirmed",
                                 "ended", "lost"}]
          /\ runRow' \in [RunCalls -> Transitions \cup {NoTransition}]
          /\ runSeen' \in [RunOpens -> Commits \cup {NoCommit}]
      BY <1>1, <2>2 DEF CallGoes, RunTypeOK
    <3> QED BY <1>1, <1>4, <1>5, <3>1, <3>2 DEF RunTypeOK, RowType
  <2>7. RunCommands \subseteq RunCalls
    BY DEF RunCalls
  <2>8. \A d \in RunCommands : Owns(d)' <=> Owns(d) \/ d = c
    BY <1>4, <2>5, <2>7 DEF Owns
  <2>9. \A d \in RunCommands : IsTransition(d) /\ Owns(d) => TransitionOf[d] # t
    BY <2>3 DEF RunInv, RowsOwned
  <2>10. CallsInOrder'
    BY <1>2, <1>4, <2>5, <2>7 DEF RunInv, CallsInOrder, IsTransition
  <2>11. RowsOwned'
    <3>1. \A d \in RunCommands : IsTransition(d) => TransitionOf[d] \in Transitions
      BY OwnRow
    <3>2. \A d \in RunCommands : IsTransition(d) /\ Owns(d)' =>
            transition'[TransitionOf[d]].phase # "none" /\ transition'[TransitionOf[d]].after = Candidate[d]
      BY <2>1, <2>4, <2>8, <2>9, <3>1 DEF RunInv, RowsOwned, t
    <3>3. \A d, e \in RunCommands :
            d # e /\ IsTransition(d) /\ TransitionOf[d] = TransitionOf[e] => ~Owns(d)' \/ ~Owns(e)'
      BY <2>8, <2>9 DEF RunInv, RowsOwned, t, IsTransition
    <3>4. \A s \in Transitions : transition'[s].task # NoTransition =>
            /\ transition'[s].phase # "none" /\ TransitionOf[transition'[s].task] = s
            /\ Candidate[transition'[s].task] = transition'[s].after /\ process[transition'[s].task] # "none"
      BY <2>1, <2>4 DEF RunInv, RowsOwned
    <3> QED BY <1>4, <3>2, <3>3, <3>4 DEF RowsOwned, IsTransition
  <2>12. RowsTrue'
    BY <1>2, <1>4, <2>1, <2>4 DEF RunInv, RowsTrue
  <2>13. OnePending'
    BY <2>1, <2>3, <2>4 DEF OnePending, Pending
  <2>14. RowsRead'
    <3>1. \A d \in RunCommands : runAt[d] = "conclude" => IsTransition(d) /\ TransitionOf[d] \in Transitions
      BY OwnRow DEF RunInv, CallsInOrder
    <3>2. \A d \in RunCalls : runAt'[d] \in {"advance", "conclude"} =>
            d # c /\ runAt'[d] = runAt[d] /\ runRow'[d] = runRow[d] /\ runRow[d] # t /\ runRow[d] \in Transitions
      BY <2>3, <2>5 DEF RunInv, RowsRead
    <3>3. \A d \in RunCommands : runAt[d] = "conclude" /\ transition[TransitionOf[d]].phase = "confirmed"
            => transition'[TransitionOf[d]].phase = "confirmed"
      BY <2>3, <2>4, <3>1
    <3>4. \A d \in RunCalls : runAt'[d] \in {"advance", "conclude"} => transition'[runRow[d]] = transition[runRow[d]]
      BY <2>4, <3>2
    <3> QED BY <1>4, <3>2, <3>3, <3>4 DEF RunInv, RowsRead
  <2>15. AnswersTrue'
    <3>1. \A d \in RunCommands : runAnswer[d] = "confirmed" => IsTransition(d) /\ TransitionOf[d] \in Transitions /\ TransitionOf[d] # t
      BY <2>3, OwnRow DEF RunInv, AnswersTrue
    <3> QED BY <2>4, <2>5, <2>7, <3>1 DEF RunInv, AnswersTrue, IsTransition
  <2> QED BY <1>4, <2>6, <2>10, <2>11, <2>12, <2>13, <2>14, <2>15 DEF RunInv
<1> QED BY <1>6, <1>7 DEF PrepareTransition

\* The task of a command starts, of a transition only by the one that has its row
\* (StartRemoteWithObservationContext).
LEMMA StartTaskStep ==
  ASSUME RunInv, NEW c \in RunCommands, StartTask(c)
  PROVE  RunInv' /\ UNCHANGED runStore
<1> USE RunConstants
<1>1. RunTypeOK /\ c \in RunCalls /\ runAt[c] = "start" /\ process[c] = "none"
  BY DEF RunInv, RunCalls, CallsInOrder, StartTask
<1>2. UNCHANGED <<frozen, frozenVersion, transition, branch>> /\ UNCHANGED runStore
  BY DEF StartTask, runStore
<1>3. foreignMoves' \in 0..MaxForeignMoves /\ runFaults' \in 0..MaxRunFaults /\ runCrashes' \in 0..MaxRunCrashes
  BY <1>1, BoundsKept DEF StartTask
<1>4. CASE UNCHANGED <<receipt, process>> /\ RunReply(c, "unstarted")
  BY <1>1, <1>2, <1>3, <1>4, ReplyKeeps
<1>5. CASE /\ receipt' = [receipt EXCEPT ![c] = "running"] /\ process' = [process EXCEPT ![c] = "started"]
           /\ RunGo(c, IF IsTransition(c) THEN "attach" ELSE "wait")
  <2>1. CallGoes(c, IF IsTransition(c) THEN "attach" ELSE "wait", NoTransition, runAnswer[c])
    BY <1>1, <1>5, GoIsMove
  <2>2. /\ \A d \in RunCalls : runAt'[d] = (IF d = c THEN IF IsTransition(c) THEN "attach" ELSE "wait" ELSE runAt[d])
        /\ \A d \in RunCalls : runAnswer'[d] = runAnswer[d] /\ (d # c => runRow'[d] = runRow[d])
        /\ \A d \in RunCommands : process'[d] = (IF d = c THEN "started" ELSE process[d])
        /\ \A d \in RunCommands : d # c => receipt'[d] = receipt[d]
    BY <1>1, <1>5, <2>1 DEF CallGoes, RunTypeOK
  <2>3. RunCommands \subseteq RunCalls
    BY DEF RunCalls
  <2>4. \A t \in Transitions : transition[t].task # NoTransition => transition[t].task \in RunCommands /\ transition[t].task # c
    BY <1>1 DEF RunInv, RunTypeOK, RowsOwned
  <2>5. RunTypeOK'
    BY <1>1, <1>2, <1>3, <1>5, <2>1 DEF RunTypeOK, CallGoes
  <2>6. CallsInOrder'
    BY <2>2, <2>3 DEF RunInv, CallsInOrder, IsTransition
  <2>7. \A d \in RunCommands : Owns(d)' <=> Owns(d)
    BY <1>1, <2>2, <2>3 DEF Owns
  <2>8. RowsOwned'
    <3>1. \A d \in RunCommands : process[d] # "none" => process'[d] # "none"
      BY <2>2
    <3> QED BY <1>2, <2>4, <2>7, <3>1 DEF RunInv, RowsOwned, IsTransition
  <2>9. RowsTrue' /\ OnePending'
    BY <1>2, <2>2, <2>4 DEF RunInv, RowsTrue, OnePending, Pending
  <2>10. RowsRead'
    <3>1. \A d \in RunCalls : runAt'[d] \in {"advance", "conclude"} => runAt'[d] = runAt[d] /\ runRow'[d] = runRow[d]
      BY <2>2
    <3>2. \A d \in RunCalls : runAt[d] \in {"advance", "conclude"} =>
            receipt'[transition[runRow[d]].task] = receipt[transition[runRow[d]].task]
      BY <2>2, <2>4 DEF RunInv, RowsRead
    <3> QED BY <1>2, <3>1, <3>2 DEF RunInv, RowsRead
  <2>11. AnswersTrue'
    BY <1>2, <2>2, <2>3 DEF RunInv, AnswersTrue, IsTransition
  <2> QED BY <1>2, <2>5, <2>6, <2>8, <2>9, <2>10, <2>11 DEF RunInv
<1> QED BY <1>2, <1>4, <1>5 DEF StartTask

\* One row changes, its phase or its task, towards what it is about already.
LEMMA RowGoes ==
  ASSUME RunInv, NEW t \in Transitions, NEW phase \in {"pending", "confirmed"}, NEW owner \in RunCommands \cup {NoTransition},
         transition' = [transition EXCEPT ![t] = [phase |-> phase, before |-> transition[t].before,
                                                  after |-> transition[t].after, task |-> owner]],
         transition[t].phase # "none", transition[t].phase = "confirmed" => phase = "confirmed",
         transition[t].task # NoTransition => owner = transition[t].task
  PROVE  /\ transition' \in [Transitions -> RowType]
         /\ \A s \in Transitions :
              /\ s # t => transition'[s] = transition[s]
              /\ transition'[s].before = transition[s].before /\ transition'[s].after = transition[s].after
              /\ transition'[s].phase = IF s = t THEN phase ELSE transition[s].phase
              /\ transition'[s].task = IF s = t THEN owner ELSE transition[s].task
<1> DEFINE new == [phase |-> phase, before |-> transition[t].before, after |-> transition[t].after, task |-> owner]
<1>1. transition \in [Transitions -> RowType]
  BY DEF RunInv, RunTypeOK, RowType
<1>2. /\ new \in RowType /\ new.phase = phase /\ new.task = owner
      /\ new.before = transition[t].before /\ new.after = transition[t].after
  BY <1>1 DEF RowType
<1>3. transition' = [transition EXCEPT ![t] = new]
  OBVIOUS
<1> HIDE DEF new
<1> QED BY <1>1, <1>2, <1>3

\* A row is all of its fields.
LEMMA RowShape ==
  ASSUME RunTypeOK, NEW t \in Transitions
  PROVE  /\ transition[t] = [phase |-> transition[t].phase, before |-> transition[t].before,
                             after |-> transition[t].after, task |-> transition[t].task]
         /\ transition[t] \in RowType
BY DEF RunTypeOK, RowType

\* The row gets its receipt, from the command that has it (executeCommandTask).
LEMMA AttachStep ==
  ASSUME RunInv, NEW c \in RunCommands, AttachTask(c)
  PROVE  RunInv' /\ UNCHANGED frozen
<1> DEFINE t == TransitionOf[c]
           owner == IF transition[t].task = NoTransition THEN c ELSE transition[t].task
<1> USE RunConstants
<1>1. RunTypeOK /\ c \in RunCalls /\ runAt[c] = "attach"
  BY DEF RunInv, RunCalls, AttachTask
<1>2. IsTransition(c) /\ process[c] # "none" /\ Owns(c)
  BY <1>1 DEF RunInv, CallsInOrder, Owns
<1>3. t \in Transitions
  BY <1>2, OwnRow
<1>4. transition[t].phase # "none" /\ transition[t].after = Candidate[c]
  BY <1>2 DEF RunInv, RowsOwned
<1>5. UNCHANGED <<frozen, frozenVersion, receipt, process, branch>>
  BY DEF AttachTask, runWorld
<1>6. foreignMoves' \in 0..MaxForeignMoves /\ runFaults' \in 0..MaxRunFaults /\ runCrashes' \in 0..MaxRunCrashes
  BY <1>1, BoundsKept DEF AttachTask
<1>7. CASE UNCHANGED transition /\ RunReply(c, "unverified")
  BY <1>1, <1>5, <1>6, <1>7, ReplyKeeps
<1>8. CASE transition' = [transition EXCEPT ![t].task = IF @ = NoTransition THEN c ELSE @] /\ RunGo(c, "wait")
  <2> HIDE DEF t
  <2>1. owner \in RunCommands /\ (transition[t].task # NoTransition => owner = transition[t].task)
    <3>1. transition[t].task \in RunCommands \cup {NoTransition}
      BY <1>1, <1>3 DEF RunTypeOK
    <3> QED BY <3>1
  <2>2. transition' = [transition EXCEPT ![t] = [transition[t] EXCEPT !.task = owner]]
    BY <1>8
  <2> DEFINE phase == transition[t].phase
             after == transition[t].after
             before == transition[t].before
  <2>3. [transition[t] EXCEPT !.task = owner] = [phase |-> phase, before |-> before, after |-> after, task |-> owner]
    <3>1. transition[t] = [phase |-> phase, before |-> before, after |-> after, task |-> transition[t].task]
      BY <1>1, <1>3, RowShape
    <3> HIDE DEF phase, before, after, owner
    <3> QED BY <3>1
  <2>4. phase \in {"pending", "confirmed"}
    BY <1>3, <1>4, <1>1 DEF RunTypeOK
  <2>5. transition' = [transition EXCEPT ![t] = [phase |-> transition[t].phase, before |-> transition[t].before,
                                                 after |-> transition[t].after, task |-> owner]]
    BY <2>2, <2>3
  <2> HIDE DEF owner
  <2>6. /\ transition' \in [Transitions -> RowType]
        /\ \A s \in Transitions :
              /\ s # t => transition'[s] = transition[s]
              /\ transition'[s].before = transition[s].before /\ transition'[s].after = transition[s].after
              /\ transition'[s].phase = transition[s].phase
              /\ transition'[s].task = IF s = t THEN owner ELSE transition[s].task
    BY <1>3, <1>4, <2>1, <2>4, <2>5, RowGoes
  <2> HIDE DEF phase, before, after
  <2>7. owner = c
    <3> SUFFICES ASSUME owner # c PROVE FALSE
      OBVIOUS
    <3>1. transition[t].task = owner /\ owner # NoTransition
      BY <2>1, RunConstants DEF owner
    <3>2. TransitionOf[owner] = t /\ Owns(owner)
      BY <1>3, <3>1 DEF RunInv, RowsOwned, Owns
    <3> QED BY <1>2, <2>1, <3>2 DEF RunInv, RowsOwned, t
  <2>8. /\ CallGoes(c, "wait", NoTransition, runAnswer[c])
        /\ \A d \in RunCalls : runAt'[d] = (IF d = c THEN "wait" ELSE runAt[d]) /\ runAnswer'[d] = runAnswer[d]
        /\ \A d \in RunCalls : d # c => runRow'[d] = runRow[d]
    BY <1>1, <1>8, GoIsMove DEF CallGoes, RunTypeOK
  <2>9. RunTypeOK'
    BY <1>1, <1>5, <1>6, <2>6, <2>8 DEF RunTypeOK, CallGoes, RowType
  <2>10. RunCommands \subseteq RunCalls
    BY DEF RunCalls
  <2>11. CallsInOrder'
    BY <1>2, <1>5, <2>8, <2>10 DEF RunInv, CallsInOrder, IsTransition
  <2>12. RowsOwned'
    <3>1. \A d \in RunCommands : IsTransition(d) => TransitionOf[d] \in Transitions
      BY OwnRow
    <3>2. \A d \in RunCommands : Owns(d)' => Owns(d)
      BY <1>1, <1>5, <2>8, <2>10 DEF Owns
    <3>3. TransitionOf[c] = t
      BY DEF t
    <3> QED BY <1>2, <1>4, <1>5, <2>6, <2>7, <3>1, <3>2, <3>3 DEF RunInv, RowsOwned, IsTransition
  <2>13. RowsTrue'
    BY <1>5, <2>1, <2>6 DEF RunInv, RowsTrue
  <2>14. OnePending'
    BY <2>6 DEF RunInv, OnePending, Pending
  <2>15. RowsRead'
    <3>1. \A d \in RunCommands : runAt[d] = "conclude" => TransitionOf[d] \in Transitions
      BY OwnRow DEF RunInv, CallsInOrder
    <3>2. \A d \in RunCalls : runAt'[d] \in {"advance", "conclude"} =>
            d # c /\ runAt'[d] = runAt[d] /\ runRow'[d] = runRow[d]
      BY <2>8
    <3> QED BY <1>5, <2>1, <2>6, <3>1, <3>2 DEF RunInv, RowsRead
  <2>16. AnswersTrue'
    <3>1. \A d \in RunCommands : IsTransition(d) => TransitionOf[d] \in Transitions
      BY OwnRow
    <3> QED BY <2>6, <2>8, <2>10, <3>1 DEF RunInv, AnswersTrue, IsTransition
  <2> QED BY <1>5, <2>9, <2>11, <2>12, <2>13, <2>14, <2>15, <2>16 DEF RunInv
<1> QED BY <1>7, <1>8 DEF AttachTask

\* The identity advances along a row with a receipt (reconcileWorkspaceTransition).
LEMMA AdvanceStep ==
  ASSUME RunInv, NEW c \in RunCalls, Advance(c)
  PROVE  RunInv' /\ IdentityAdvances
<1> DEFINE t == runRow[c]
<1> USE RunConstants
<1>1. RunTypeOK /\ runAt[c] \in {"advance", "conclude"}
  BY DEF RunInv, Advance
<1>2. /\ t \in Transitions /\ transition[t].phase # "none"
      /\ transition[t].task # NoTransition /\ receipt[transition[t].task] = "succeeded"
  BY <1>1 DEF RunInv, RowsRead
<1>3. UNCHANGED <<receipt, process, branch>>
  BY DEF Advance, runWorld
<1>4. foreignMoves' \in 0..MaxForeignMoves /\ runFaults' \in 0..MaxRunFaults /\ runCrashes' \in 0..MaxRunCrashes
  BY <1>1, BoundsKept DEF Advance
<1>5. /\ runAnswer[c] \in {"none", "opened", "mismatch", "unverified", "unstarted", "pending", "confirmed", "ended", "lost"}
      /\ c \in RunCommands => /\ runAt[c] = "advance" => process[c] = "none"
                              /\ runAnswer[c] = "confirmed" => IsTransition(c) /\ transition[TransitionOf[c]].phase = "confirmed"
  BY <1>1 DEF RunInv, RunTypeOK, CallsInOrder, AnswersTrue
\* what is told of the own row, once the row that was read is confirmed
<1>6. c \in RunCommands /\ runAt[c] = "conclude" =>
        /\ IsTransition(c) /\ TransitionOf[c] \in Transitions
        /\ TransitionOf[c] = t \/ transition[TransitionOf[c]].phase = "confirmed"
  BY <1>1, OwnConfirmed DEF RunInv, RowsRead
<1>7. Reconciled(c) => \E step \in {"capture", "verify", "done"}, answer \in {runAnswer[c], "confirmed"} :
        /\ CallGoes(c, step, NoTransition, answer)
        /\ step = "verify" => runAt[c] = "advance"
        /\ answer = "confirmed" => runAt[c] = "conclude" \/ runAnswer[c] = "confirmed"
  BY <1>1, GoIsMove, ReplyIsMove DEF Reconciled
<1>8. CASE UNCHANGED runStore /\ RunReply(c, "unverified")
  <2>1. UNCHANGED <<frozen, frozenVersion, transition, receipt, process, branch>>
    BY <1>3, <1>8 DEF runStore
  <2> QED BY <1>4, <1>8, <2>1, ReplyKeeps DEF IdentityAdvances
<1>9. CASE UNCHANGED runStore /\ transition[t].phase = "confirmed" /\ Reconciled(c)
  <2>1. UNCHANGED <<frozen, frozenVersion, transition, receipt, process, branch>>
    BY <1>3, <1>9 DEF runStore
  <2>2. PICK step \in {"capture", "verify", "done"}, answer \in {runAnswer[c], "confirmed"} :
          /\ CallGoes(c, step, NoTransition, answer)
          /\ step = "verify" => runAt[c] = "advance"
          /\ answer = "confirmed" => runAt[c] = "conclude" \/ runAnswer[c] = "confirmed"
    BY <1>7, <1>9
  <2>3. c \in RunCommands /\ answer = "confirmed" => IsTransition(c) /\ transition[TransitionOf[c]].phase = "confirmed"
    BY <1>5, <1>6, <1>9, <2>2
  <2>4. RunInv'
    BY <1>4, <1>5, <2>1, <2>2, <2>3, CallGoesOn
  <2> QED BY <2>1, <2>4 DEF IdentityAdvances
<1>10. CASE /\ frozen = transition[t].before
            /\ frozen' = transition[t].after /\ frozenVersion' = frozenVersion + 1
            /\ transition' = [transition EXCEPT ![t].phase = "confirmed"]
            /\ Reconciled(c)
  <2> DEFINE owner == transition[t].task
             before == transition[t].before
             after == transition[t].after
  <2> HIDE DEF t
  <2>1. before \in Commits /\ after \in Commits /\ Parent[after] = before /\ Depth[before] < Depth[after]
    BY <1>2 DEF RunInv, RowsTrue
  <2>2. t \in Pending
    <3>1. Depth[before] \in Nat /\ Depth[after] \in Nat
      BY <2>1
    <3>2. transition[t].phase # "confirmed"
      BY <1>2, <1>10, <2>1, <3>1 DEF RunInv, RowsTrue
    <3> QED BY <1>1, <1>2, <3>2 DEF Pending, RunTypeOK
  <2>3. [transition[t] EXCEPT !.phase = "confirmed"] = [phase |-> "confirmed", before |-> before, after |-> after, task |-> owner]
    <3> DEFINE phase == transition[t].phase
    <3>1. transition[t] = [phase |-> phase, before |-> before, after |-> after, task |-> owner]
      BY <1>1, <1>2, RowShape
    <3> HIDE DEF phase, before, after, owner
    <3> QED BY <3>1
  <2>4. transition' = [transition EXCEPT ![t] = [phase |-> "confirmed", before |-> transition[t].before,
                                                 after |-> transition[t].after, task |-> transition[t].task]]
    BY <1>10, <2>3
  <2>5. owner \in RunCommands
    BY <1>1, <1>2 DEF RunTypeOK
  <2>6. /\ transition' \in [Transitions -> RowType]
        /\ \A s \in Transitions :
              /\ s # t => transition'[s] = transition[s]
              /\ transition'[s].before = transition[s].before /\ transition'[s].after = transition[s].after
              /\ transition'[s].phase = IF s = t THEN "confirmed" ELSE transition[s].phase
              /\ transition'[s].task = transition[s].task
    BY <1>2, <2>4, <2>5, RowGoes
  <2>7. frozen = before /\ frozen' = after /\ frozenVersion' = frozenVersion + 1
    BY <1>10
  <2>8. PICK step \in {"capture", "verify", "done"}, answer \in {runAnswer[c], "confirmed"} :
          /\ CallGoes(c, step, NoTransition, answer)
          /\ step = "verify" => runAt[c] = "advance"
          /\ answer = "confirmed" => runAt[c] = "conclude" \/ runAnswer[c] = "confirmed"
    BY <1>7, <1>10
  <2> HIDE DEF owner, before, after
  <2>9. /\ \A d \in RunCalls : runAt'[d] = (IF d = c THEN step ELSE runAt[d]) /\ runAnswer'[d] = (IF d = c THEN answer ELSE runAnswer[d])
        /\ \A d \in RunCalls : d # c => runRow'[d] = runRow[d]
    BY <1>1, <2>8 DEF CallGoes, RunTypeOK
  <2>10. RunCommands \subseteq RunCalls
    BY DEF RunCalls
  <2>11. RunTypeOK'
    <3>1. frozen' \in Commits /\ frozenVersion' \in Nat
      BY <1>1, <2>1, <2>7 DEF RunTypeOK
    <3>2. runAt' \in [RunCalls -> {"idle", "advance", "capture", "freeze", "verify", "probe", "prepare", "start",
                             "attach", "wait", "reconcile", "conclude", "done"}]
      BY <1>1, <2>8 DEF CallGoes, RunTypeOK
    <3>3. /\ runRow' \in [RunCalls -> Transitions \cup {NoTransition}]
          /\ runSeen' \in [RunOpens -> Commits \cup {NoCommit}]
      BY <1>1, <2>8 DEF CallGoes, RunTypeOK
    <3>4. runAnswer' \in [RunCalls -> {"none", "opened", "mismatch", "unverified", "unstarted", "pending", "confirmed",
                                 "ended", "lost"}]
      BY <1>1, <1>5, <2>8 DEF CallGoes, RunTypeOK
    <3> QED BY <1>1, <1>3, <1>4, <2>6, <3>1, <3>2, <3>3, <3>4 DEF RunTypeOK, RowType
  <2>12. CallsInOrder'
    BY <1>3, <1>5, <2>8, <2>9, <2>10 DEF RunInv, CallsInOrder, IsTransition
  <2>13. \A d \in RunCommands : IsTransition(d) => TransitionOf[d] \in Transitions
    BY OwnRow
  <2>14. RowsOwned'
    <3>1. \A d \in RunCommands : Owns(d)' => Owns(d)
      BY <1>3, <2>8, <2>9, <2>10 DEF Owns
    <3> QED BY <1>3, <2>6, <2>13, <3>1 DEF RunInv, RowsOwned, IsTransition
  <2>15. RowsTrue'
    <3>1. \A s \in Transitions : transition[s].phase = "confirmed" =>
            frozen # NoCommit /\ Depth[transition[s].after] <= Depth[frozen] /\ transition[s].after \in Commits
      BY DEF RunInv, RowsTrue
    <3>2. \A k \in Commits : Depth[k] \in Nat
      OBVIOUS
    <3>3. \A s \in Transitions : transition'[s].phase = "confirmed" =>
            frozen' # NoCommit /\ Depth[transition'[s].after] <= Depth[frozen']
      <4> SUFFICES ASSUME NEW s \in Transitions, transition'[s].phase = "confirmed"
                   PROVE  frozen' # NoCommit /\ Depth[transition'[s].after] <= Depth[frozen']
        OBVIOUS
      <4>1. frozen' # NoCommit
        BY <2>1, <2>7
      <4>2. CASE s = t
        BY <2>1, <2>6, <2>7, <3>2, <4>1, <4>2 DEF after
      <4>3. CASE s # t
        <5>1. Depth[transition[s].after] <= Depth[before] /\ transition[s].after \in Commits
          BY <2>6, <2>7, <3>1, <4>3
        <5>2. Depth[transition[s].after] \in Nat /\ Depth[before] \in Nat /\ Depth[after] \in Nat
          BY <2>1, <3>2, <5>1
        <5>3. Depth[transition[s].after] <= Depth[after]
          BY <2>1, <5>1, <5>2
        <5> QED BY <2>6, <2>7, <4>1, <5>3
      <4> QED BY <4>2, <4>3
    <3> QED BY <1>2, <1>3, <2>6, <3>3 DEF RunInv, RowsTrue
  <2>16. OnePending'
    BY <2>6 DEF RunInv, OnePending, Pending
  <2>17. RowsRead'
    <3>1. \A d \in RunCommands : runAt[d] = "conclude" => TransitionOf[d] \in Transitions
      BY <2>13 DEF RunInv, CallsInOrder
    <3>2. \A d \in RunCalls : runAt'[d] \in {"advance", "conclude"} =>
            runAt'[d] = runAt[d] /\ runRow'[d] = runRow[d]
      BY <2>8, <2>9
    <3> QED BY <1>3, <2>6, <3>1, <3>2 DEF RunInv, RowsRead
  <2>18. AnswersTrue'
    <3>1. \A d \in RunCommands : runAnswer[d] = "confirmed" =>
            IsTransition(d) /\ TransitionOf[d] \in Transitions /\ transition'[TransitionOf[d]].phase = "confirmed"
      BY <2>6, <2>13 DEF RunInv, AnswersTrue
    <3>2. c \in RunCommands /\ answer = "confirmed" => IsTransition(c) /\ transition'[TransitionOf[c]].phase = "confirmed"
      BY <1>6, <2>6, <2>8, <3>1 DEF t
    <3> QED BY <2>9, <2>10, <3>1, <3>2 DEF AnswersTrue, IsTransition
  <2>19. RunInv'
    BY <2>11, <2>12, <2>14, <2>15, <2>16, <2>17, <2>18 DEF RunInv
  <2>20. IdentityAdvances
    BY <2>1, <2>2, <2>6, <2>7 DEF IdentityAdvances, before, after, Pending
  <2> QED BY <2>19, <2>20
<1> QED BY <1>8, <1>9, <1>10 DEF Advance

\* Every step keeps the invariant, and advances the identity only along a row.
LEMMA RunStep ==
  ASSUME RunInv, [RunNext]_runVars
  PROVE  RunInv' /\ IdentityAdvances
<1> DEFINE Goal == RunInv' /\ IdentityAdvances
<1>1. UNCHANGED frozen => IdentityAdvances
  BY DEF IdentityAdvances
<1>2. UNCHANGED runStore => UNCHANGED frozen
  BY DEF runStore
<1> HIDE DEF Goal
<1>3. ASSUME NEW c \in RunCalls, ReconcileTransition(c) \/ Advance(c) PROVE Goal
  BY <1>1, <1>2, <1>3, ReconcileStep, AdvanceStep DEF Goal
<1>4. ASSUME NEW c \in RunOpens, Capture(c) \/ FreezeIdentity(c) PROVE Goal
  BY <1>1, <1>2, <1>4, CaptureStep, FreezeStep DEF Goal, IdentityAdvances
<1>5. ASSUME NEW c \in RunCommands, RunCommand(c) PROVE Goal
  BY <1>1, <1>2, <1>5, CommandLooks, PrepareStep, StartTaskStep, AttachStep, ProcessStep DEF Goal, RunCommand
<1>6. CASE ForeignMove
  <2>1. /\ UNCHANGED runStore /\ UNCHANGED <<runStore, receipt, process, runCall>> /\ branch' \in Commits
        /\ foreignMoves' \in 0..MaxForeignMoves /\ runFaults' \in 0..MaxRunFaults /\ runCrashes' \in 0..MaxRunCrashes
    BY <1>6, RunConstants DEF ForeignMove, RunInv, RunTypeOK
  <2> QED BY <1>1, <1>2, <2>1, BranchMoves DEF Goal
<1>7. CASE RunCrash
  BY <1>1, <1>2, <1>7, CrashStep DEF Goal
<1>8. CASE UNCHANGED runVars
  <2>1. /\ UNCHANGED runStore /\ UNCHANGED <<runStore, receipt, process, runCall>> /\ branch' \in Commits
        /\ foreignMoves' \in 0..MaxForeignMoves /\ runFaults' \in 0..MaxRunFaults /\ runCrashes' \in 0..MaxRunCrashes
    BY <1>8 DEF runVars, runWorld, runBounds, RunInv, RunTypeOK
  <2> QED BY <1>1, <1>2, <2>1, BranchMoves DEF Goal
<1> QED BY <1>3, <1>4, <1>5, <1>6, <1>7, <1>8 DEF RunNext, Goal

\* What is to hold of an identity follows from the invariant.
LEMMA IdentityIsHeld == RunInv => RunIdentityHolds
<1> SUFFICES ASSUME RunInv PROVE RunIdentityHolds
  OBVIOUS
<1>1. ConfirmedByReceipt
  BY DEF RunInv, RunTypeOK, RowsTrue, RowsOwned, ConfirmedByReceipt
<1>2. TransitionExecutedOnce
  BY DEF RunInv, RowsOwned, Owns, TransitionExecutedOnce
<1>3. ConfirmedIsTrue
  BY DEF RunInv, AnswersTrue, ConfirmedIsTrue
<1> QED BY <1>1, <1>2, <1>3 DEF RunIdentityHolds

\* A pending row is of one command and one step, whatever is retried
\* (prepareWorkspaceTransition, reconcileWorkspaceTransition).
THEOREM RunHeld == RunSpec => []RunInv
<1>1. RunInv /\ [RunNext]_runVars => RunInv'
  BY RunStep
<1> QED BY RunStart, <1>1, PTL DEF RunSpec

\* The identity of a run is what its own confirmed operations made it.
THEOREM IdentityKept == RunSpec => RunIdentityKept
<1>1. RunInv /\ [RunNext]_runVars => [IdentityAdvances]_runVars
  BY RunStep
<1>2. RunInv => RunIdentityHolds
  BY IdentityIsHeld
<1> QED BY RunHeld, <1>1, <1>2, PTL DEF RunSpec, RunIdentityKept

-----------------------------------------------------------------------------
\* Terminal tasks

\* The task has ended, as its waiter says, or its manager is gone.
Over(t) ==
  \/ taskStep[t] = "lost"
  \/ taskStep[t] = "up" /\ waiter[t] \in {"finals", "closed"}

\* How far the start of a task is, and what there is of it.
StartInOrder(t) ==
  /\ taskStep[t] \in {"idle", "admitted"} => task[t].status = "none" /\ task[t].reason = "none" /\ doomed[t] = {}
  /\ taskStep[t] \notin {"up", "lost"} =>
       /\ waiter[t] = "none" /\ t \notin taskTable /\ taskAnswer[t].outcome = "none" /\ finals[t] = {}
       /\ task[t].status \in {"none", "running"}
  /\ taskStep[t] \in {"idle", "admitted", "refused"} => procs[t] = {} /\ \A s \in Streams : copier[t][s] # "sending"
  /\ taskStep[t] \in {"started", "undoing", "stored"} => task[t].status = "running"
  /\ taskStep[t] = "up" => waiter[t] # "none"
  /\ taskStep[t] = "lost" => waiter[t] = "none" /\ t \notin taskTable /\ \A s \in Streams : copier[t][s] # "sending"
  /\ taskAnswer[t].outcome = "none" => opAnswer[t] = "none" /\ attached[t] = NotAttached
  /\ opAnswer[t] \in {"waiting", "stopping"} => taskStep[t] = "up"

\* How a task ends, what its row says of it, and who was sent a kill.
EndInOrder(t) ==
  /\ waiter[t] \in {"copying", "group"} => task[t].status \in {"running", "killed"}
  /\ waiter[t] \in {"finals", "closed"} =>
       /\ task[t].status \in {"exited", "killed", "failed"}
       /\ taskFaults = 0 => taskRow[t].status = task[t].status /\ taskRow[t].reason = task[t].reason
       /\ task[t].status # "failed" => procs[t] = {}
       /\ task[t].status # "exited" => task[t].code # 0
  /\ task[t].status \in {"exited", "failed"} => Over(t)
  /\ taskRow[t].status \in {"exited", "killed", "failed"} => Over(t)
  /\ attached[t].via \in {"exited", "failed"} => Over(t)
  /\ task[t].reason # "none" => task[t].status \in {"killed", "failed"}
  /\ t \in limitKill => task[t].reason # "none"
  /\ taskStep[t] = "up" /\ task[t].status = "running" => t \in taskTable
  /\ taskStep[t] \in {"started", "stored", "up"} /\ task[t].status \in {"running", "exited"} => doomed[t] = {}
  /\ task[t].status = "exited" => procs[t] = {}

\* Where the output of a task is.
OutputInOrder(t) ==
  /\ taskStep[t] # "lost" => \A s \in Streams : written[t][s] = sunk[t][s] + (IF copier[t][s] = "sending" THEN 1 ELSE 0)
  /\ waiter[t] \in {"group", "finals", "closed"} =>
       /\ \A s \in Streams : copier[t][s] # "sending" /\ (copier[t][s] = "broken" => task[t].code # 0)
       /\ "leader" \notin procs[t]
       /\ holders[t] = {} \/ \A s \in Streams : copier[t][s] = "broken"
  /\ finals[t] # {} =>
       /\ taskStep[t] = "up" => waiter[t] = "closed"
       /\ \A s \in Streams : sunk[t][s] = written[t][s]
  /\ attached[t].verdict \in {"exited", "failed"} => attached[t].at = "none" /\ HasAll(t) /\ Over(t)

\* What was said of a task.
AnswersInOrder(t) ==
  /\ taskAnswer[t].outcome \notin {"none", "running"} /\ taskStep[t] = "up" => waiter[t] = "closed"
  /\ taskAnswer[t].outcome = "succeeded" =>
       task[t].status = "exited" /\ holders[t] = {} /\ \A s \in Streams : copier[t][s] # "broken"
  /\ opAnswer[t] = "cancelled" => procs[t] = {}

InOrder(t) == StartInOrder(t) /\ EndInOrder(t) /\ OutputInOrder(t) /\ AnswersInOrder(t)
TaskInv == TaskTypeOK /\ \A t \in Tasks : InOrder(t)

TaskRecord == [status : Statuses, reason : Reasons, code : -1..1]

LEMMA TasksStart ==
  ASSUME NEW calls, TaskInitOf(calls)
  PROVE  TaskInv
<1> USE TaskConstants DEF TaskInitOf
<1>1. NoTask \in TaskRecord /\ NoTask.status = "none" /\ NoTask.reason = "none"
  BY DEF NoTask, TaskRecord, Statuses, Reasons
<1>2. NoRow \in [status : Statuses, reason : Reasons] /\ NoRow.status = "none" /\ NoRow.reason = "none"
  BY DEF NoRow, Statuses, Reasons
<1>3. /\ NotAttached \in [at : {"none", "stdout", "stderr", "decide"}, via : Statuses,
                          read : [Streams -> Nat], verdict : Statuses \cup {"more"}]
      /\ NotAttached.via = "none" /\ NotAttached.verdict = "none"
  BY DEF NotAttached, Statuses
<1>4. TaskTypeOK
  <2>1. /\ taskStep \in [Tasks -> Steps] /\ taskTable \subseteq Tasks
        /\ taskRow \in [Tasks -> [status : Statuses, reason : Reasons]]
        /\ task \in [Tasks -> TaskRecord]
        /\ procs \in [Tasks -> SUBSET Processes] /\ doomed \in [Tasks -> SUBSET Processes]
        /\ holders \in [Tasks -> SUBSET Holders] /\ limitKill \subseteq LimitedTasks
        /\ waiter \in [Tasks -> {"none", "copying", "group", "finals", "closed"}]
    BY <1>1, <1>2 DEF Steps
  <2>2. /\ written \in [Tasks -> [Streams -> Nat]]
        /\ copier \in [Tasks -> [Streams -> {"reading", "sending", "broken"}]]
        /\ sunk \in [Tasks -> [Streams -> Nat]] /\ finals \in [Tasks -> SUBSET Streams]
    OBVIOUS
  <2>3. opAnswer \in [Tasks -> OpOutcomes]
    BY DEF OpOutcomes
  <2>4. /\ taskAnswer \in [Tasks -> [outcome : Outcomes, whole : BOOLEAN]]
        /\ attached \in [Tasks -> [at : {"none", "stdout", "stderr", "decide"}, via : Statuses,
                                   read : [Streams -> Nat], verdict : Statuses \cup {"more"}]]
        /\ taskFaults \in 0..MaxTaskFaults /\ taskCrashes \in 0..MaxTaskCrashes
    BY <1>3 DEF Outcomes
  <2> QED BY <2>1, <2>2, <2>3, <2>4 DEF TaskTypeOK, TaskRecord
<1>5. ASSUME NEW t \in Tasks PROVE InOrder(t)
  <2>1. StartInOrder(t)
    BY <1>1 DEF StartInOrder
  <2>2. EndInOrder(t)
    BY <1>1, <1>2, <1>3 DEF EndInOrder
  <2>3. OutputInOrder(t)
    BY <1>3 DEF OutputInOrder
  <2>4. AnswersInOrder(t)
    BY DEF AnswersInOrder
  <2> QED BY <2>1, <2>2, <2>3, <2>4 DEF InOrder
<1> QED BY <1>4, <1>5 DEF TaskInv

\* A task that a step leaves alone stays in order.
Untouched(t) ==
  /\ taskStep'[t] = taskStep[t] /\ taskRow'[t] = taskRow[t] /\ task'[t] = task[t]
  /\ procs'[t] = procs[t] /\ holders'[t] = holders[t] /\ doomed'[t] = doomed[t] /\ waiter'[t] = waiter[t]
  /\ written'[t] = written[t] /\ copier'[t] = copier[t] /\ sunk'[t] = sunk[t] /\ finals'[t] = finals[t]
  /\ taskAnswer'[t] = taskAnswer[t] /\ opAnswer'[t] = opAnswer[t] /\ attached'[t] = attached[t]
  /\ t \in limitKill' <=> t \in limitKill
  /\ t \in taskTable' => t \in taskTable
  /\ t \in taskTable /\ task[t].status = "running" => t \in taskTable'

LEMMA UntouchedInOrder ==
  ASSUME TaskInv, NEW t \in Tasks, Untouched(t), taskFaults' = 0 => taskFaults = 0
  PROVE  InOrder(t)'
<1>1. InOrder(t)
  BY DEF TaskInv
<1>2. StartInOrder(t)'
  BY <1>1 DEF InOrder, Untouched, StartInOrder
<1>3. EndInOrder(t)'
  BY <1>1 DEF InOrder, Untouched, EndInOrder, Over
<1>4. OutputInOrder(t)'
  BY <1>1 DEF InOrder, Untouched, OutputInOrder, Over, HasAll, Kept
<1>5. AnswersInOrder(t)'
  BY <1>1 DEF InOrder, Untouched, AnswersInOrder
<1> QED BY <1>2, <1>3, <1>4, <1>5 DEF InOrder

\* A fault is counted and never forgotten.
LEMMA FaultCounted ==
  ASSUME TaskTypeOK, TaskFault \/ UNCHANGED taskFaults
  PROVE  taskFaults' \in 0..MaxTaskFaults /\ (taskFaults' = 0 => taskFaults = 0)
BY TaskConstants DEF TaskTypeOK, TaskFault

\* A step of one task keeps the order, if it keeps that of the task.
LEMMA OneTaskKeeps ==
  ASSUME TaskInv, NEW t \in Tasks, TaskTypeOK', InOrder(t)', taskFaults' = 0 => taskFaults = 0,
         \A u \in Tasks : u # t => Untouched(u)
  PROVE  TaskInv'
<1>1. \A u \in Tasks : u # t => InOrder(u)'
  BY UntouchedInOrder
<1> QED BY <1>1 DEF TaskInv

\* The fields of a task, one or two of them written.
LEMMA TaskWritten ==
  ASSUME NEW w \in TaskRecord, NEW v, NEW k
  PROVE  /\ w = [status |-> w.status, reason |-> w.reason, code |-> w.code]
         /\ [w EXCEPT !.status = v] = [status |-> v, reason |-> w.reason, code |-> w.code]
         /\ [w EXCEPT !.code = k] = [status |-> w.status, reason |-> w.reason, code |-> k]
<1> DEFINE a == w.status
           b == w.reason
           c == w.code
<1>1. w = [status |-> a, reason |-> b, code |-> c]
  BY DEF TaskRecord
<1> HIDE DEF a, b, c
<1>2. /\ [w EXCEPT !.status = v] = [status |-> v, reason |-> b, code |-> c]
      /\ [w EXCEPT !.code = k] = [status |-> a, reason |-> b, code |-> k]
  BY <1>1
<1> QED BY <1>1, <1>2 DEF a, b, c

LEMMA TaskEndWritten ==
  ASSUME NEW w \in TaskRecord, NEW v, NEW k
  PROVE  [w EXCEPT !.status = v, !.code = k] = [status |-> v, reason |-> w.reason, code |-> k]
<1> DEFINE first == [w EXCEPT !.status = v]
           b == w.reason
           c == w.code
<1>1. [w EXCEPT !.status = v, !.code = k] = [first EXCEPT !.code = k]
  OBVIOUS
<1>2. first = [status |-> v, reason |-> b, code |-> c]
  BY TaskWritten
<1> HIDE DEF first, b, c
<1>3. [w EXCEPT !.status = v, !.code = k] = [status |-> v, reason |-> b, code |-> k]
  BY <1>1, <1>2
<1> QED BY <1>3 DEF b

LEMMA TaskLimitWritten ==
  ASSUME NEW w \in TaskRecord, NEW v, NEW r
  PROVE  [w EXCEPT !.status = v, !.reason = r] = [status |-> v, reason |-> r, code |-> w.code]
<1> DEFINE first == [w EXCEPT !.status = v]
           b == w.reason
           c == w.code
<1>1. [w EXCEPT !.status = v, !.reason = r] = [first EXCEPT !.reason = r]
  OBVIOUS
<1>2. first = [status |-> v, reason |-> b, code |-> c]
  BY TaskWritten
<1> HIDE DEF first, b, c
<1>3. [w EXCEPT !.status = v, !.reason = r] = [status |-> v, reason |-> r, code |-> c]
  BY <1>1, <1>2
<1> QED BY <1>3 DEF c

SetTask(t, status, reason, code) ==
  task' = [task EXCEPT ![t] = [status |-> status, reason |-> reason, code |-> code]]

LEMMA TaskSet ==
  ASSUME TaskTypeOK, NEW t \in Tasks, NEW status \in Statuses, NEW reason \in Reasons, NEW code \in -1..1,
         SetTask(t, status, reason, code)
  PROVE  /\ task' \in [Tasks -> TaskRecord]
         /\ task'[t].status = status /\ task'[t].reason = reason /\ task'[t].code = code
         /\ \A u \in Tasks : u # t => task'[u] = task[u]
BY DEF TaskTypeOK, TaskRecord, SetTask

SetRow(t, status, reason) == taskRow' = [taskRow EXCEPT ![t] = [status |-> status, reason |-> reason]]

LEMMA RowSet ==
  ASSUME TaskTypeOK, NEW t \in Tasks, NEW status \in Statuses, NEW reason \in Reasons, SetRow(t, status, reason)
  PROVE  /\ taskRow' \in [Tasks -> [status : Statuses, reason : Reasons]]
         /\ taskRow'[t].status = status /\ taskRow'[t].reason = reason
         /\ \A u \in Tasks : u # t => taskRow'[u] = taskRow[u]
BY DEF TaskTypeOK, SetRow

LEMMA TaskIsRecord ==
  ASSUME TaskTypeOK, NEW t \in Tasks
  PROVE  task[t] \in TaskRecord
BY DEF TaskTypeOK, TaskRecord

\* Admission: a prune drops tasks that are not running (pruneFinishedLocked).
LEMMA AdmitKeeps ==
  ASSUME TaskInv, NEW t \in Tasks, Admit(t)
  PROVE  TaskInv' /\ EndedStaysEnded
<1>1. taskTable' \subseteq taskTable /\ \A u \in taskTable : task[u].status = "running" => u \in taskTable'
  <2>1. \A T \in PrunedTables : T \subseteq taskTable /\ \A u \in taskTable : task[u].status = "running" => u \in T
    BY DEF PrunedTables, Finished, kSubset
  <2> QED BY <2>1 DEF Admit
<1>2. PICK step \in {"admitted", "refused"} : taskStep' = [taskStep EXCEPT ![t] = step] /\ taskStep[t] = "idle"
  BY DEF Admit, StartStep
<1>3. UNCHANGED <<taskRow, task, procs, doomed, limitKill, waiter, holders, written, copier, sunk, finals, taskAnswer, opAnswer,
                  attached, taskFaults, taskCrashes>>
  BY DEF Admit, taskOutput, taskAnswers, taskBounds
<1>4. TaskTypeOK'
  BY <1>1, <1>2, <1>3 DEF TaskInv, TaskTypeOK, Steps
<1>5. \A u \in Tasks : u # t => Untouched(u)
  BY <1>1, <1>2, <1>3 DEF TaskInv, TaskTypeOK, Untouched
<1>6. taskStep'[t] = step /\ t \notin taskTable'
  BY <1>1, <1>2 DEF TaskInv, TaskTypeOK, InOrder, StartInOrder
<1>7. InOrder(t)'
  BY <1>2, <1>3, <1>6 DEF TaskInv, InOrder, StartInOrder, EndInOrder, OutputInOrder, AnswersInOrder, Over, HasAll, Kept
<1> QED BY <1>3, <1>4, <1>5, <1>7, OneTaskKeeps DEF EndedStaysEnded

\* The process starts, or not (startPrepared).
LEMMA LaunchKeeps ==
  ASSUME TaskInv, NEW t \in Tasks, Launch(t)
  PROVE  TaskInv' /\ EndedStaysEnded
<1>1. UNCHANGED <<taskTable, taskRow, doomed, limitKill, waiter, holders, written, copier, sunk, finals, taskAnswer, opAnswer,
                  attached, taskCrashes>>
  BY DEF Launch, taskOutput, taskAnswers
<1>2. TaskTypeOK /\ taskStep[t] = "admitted" /\ InOrder(t)
  BY DEF TaskInv, Launch
<1>3. taskFaults' \in 0..MaxTaskFaults /\ (taskFaults' = 0 => taskFaults = 0)
  BY <1>2, FaultCounted DEF Launch
<1>4. CASE taskStep' = [taskStep EXCEPT ![t] = "refused"] /\ UNCHANGED <<task, procs>>
  <2>1. TaskTypeOK'
    BY <1>1, <1>2, <1>3, <1>4 DEF TaskTypeOK, Steps
  <2>2. \A u \in Tasks : u # t => Untouched(u)
    BY <1>1, <1>2, <1>4 DEF TaskTypeOK, Untouched
  <2>3. taskStep'[t] = "refused"
    BY <1>2, <1>4 DEF TaskTypeOK
  <2>4. InOrder(t)'
    BY <1>1, <1>2, <1>3, <1>4, <2>3 DEF InOrder, StartInOrder, EndInOrder, OutputInOrder, AnswersInOrder, Over, HasAll, Kept
  <2> QED BY <1>1, <1>3, <2>1, <2>2, <2>4, OneTaskKeeps DEF EndedStaysEnded
<1>5. CASE /\ taskStep' = [taskStep EXCEPT ![t] = "started"] /\ procs' = [procs EXCEPT ![t] = {"leader"}]
           /\ task' = [task EXCEPT ![t].status = "running"]
  <2>1. SetTask(t, "running", task[t].reason, task[t].code)
    BY <1>2, <1>5, TaskIsRecord, TaskWritten DEF SetTask
  <2>2. /\ task' \in [Tasks -> TaskRecord]
        /\ task'[t].status = "running" /\ task'[t].reason = task[t].reason /\ task'[t].code = task[t].code
        /\ \A u \in Tasks : u # t => task'[u] = task[u]
    BY <1>2, <2>1, TaskIsRecord, TaskSet DEF TaskRecord, Statuses
  <2>3. taskStep'[t] = "started" /\ procs'[t] = {"leader"}
    BY <1>2, <1>5 DEF TaskTypeOK
  <2>4. TaskTypeOK'
    BY <1>1, <1>2, <1>3, <1>5, <2>2 DEF TaskTypeOK, Steps, TaskRecord, Processes
  <2>5. \A u \in Tasks : u # t => Untouched(u)
    BY <1>1, <1>2, <1>5, <2>2 DEF TaskTypeOK, Untouched
  <2>6. InOrder(t)'
    BY <1>1, <1>2, <1>3, <2>2, <2>3 DEF InOrder, StartInOrder, EndInOrder, OutputInOrder, AnswersInOrder, Over, HasAll, Kept
  <2> QED BY <1>1, <1>3, <2>4, <2>5, <2>6, OneTaskKeeps DEF EndedStaysEnded
<1> QED BY <1>4, <1>5 DEF Launch, StartStep

\* The row of a task is inserted; otherwise its group is sent a kill.
LEMMA PersistKeeps ==
  ASSUME TaskInv, NEW t \in Tasks, Persist(t)
  PROVE  TaskInv' /\ EndedStaysEnded
<1>1. UNCHANGED <<taskTable, task, procs, limitKill, waiter, holders, written, copier, sunk, finals, taskAnswer, opAnswer,
                  attached, taskCrashes>>
  BY DEF Persist, taskOutput, taskAnswers
<1>2. TaskTypeOK /\ taskStep[t] = "started" /\ InOrder(t)
  BY DEF TaskInv, Persist
<1>3. taskFaults' \in 0..MaxTaskFaults /\ (taskFaults' = 0 => taskFaults = 0)
  BY <1>2, FaultCounted DEF Persist
<1>4. CASE taskStep' = [taskStep EXCEPT ![t] = "undoing"] /\ KillGroup(t) /\ UNCHANGED taskRow
  <2>1. TaskTypeOK'
    BY <1>1, <1>2, <1>3, <1>4 DEF TaskTypeOK, Steps, KillGroup
  <2>2. \A u \in Tasks : u # t => Untouched(u)
    BY <1>1, <1>2, <1>4 DEF TaskTypeOK, Untouched, KillGroup
  <2>3. taskStep'[t] = "undoing"
    BY <1>2, <1>4 DEF TaskTypeOK
  <2>4. InOrder(t)'
    BY <1>1, <1>2, <1>3, <1>4, <2>3 DEF InOrder, StartInOrder, EndInOrder, OutputInOrder, AnswersInOrder, Over, HasAll, Kept
  <2> QED BY <1>1, <1>3, <1>4, <2>1, <2>2, <2>4, OneTaskKeeps DEF EndedStaysEnded
<1>5. CASE /\ taskStep' = [taskStep EXCEPT ![t] = "stored"] /\ UNCHANGED doomed
           /\ taskRow' = [taskRow EXCEPT ![t].status = "running"]
  <2>1. SetRow(t, "running", taskRow[t].reason)
    <3>1. taskRow[t] \in [status : Statuses, reason : Reasons]
      BY <1>2 DEF TaskTypeOK
    <3>2. [taskRow[t] EXCEPT !.status = "running"] = [status |-> "running", reason |-> taskRow[t].reason]
      BY <3>1
    <3> QED BY <1>5, <3>2 DEF SetRow
  <2>2. /\ taskRow' \in [Tasks -> [status : Statuses, reason : Reasons]] /\ taskRow'[t].status = "running"
        /\ \A u \in Tasks : u # t => taskRow'[u] = taskRow[u]
    <3>1. taskRow[t].reason \in Reasons /\ "running" \in Statuses
      BY <1>2 DEF TaskTypeOK, Statuses
    <3> QED BY <1>2, <2>1, <3>1, RowSet
  <2>3. taskStep'[t] = "stored"
    BY <1>2, <1>5 DEF TaskTypeOK
  <2>4. TaskTypeOK'
    BY <1>1, <1>2, <1>3, <1>5, <2>2 DEF TaskTypeOK, Steps
  <2>5. \A u \in Tasks : u # t => Untouched(u)
    BY <1>1, <1>2, <1>5, <2>2 DEF TaskTypeOK, Untouched
  <2>6. InOrder(t)'
    BY <1>1, <1>2, <1>3, <1>5, <2>2, <2>3 DEF InOrder, StartInOrder, EndInOrder, OutputInOrder, AnswersInOrder, Over, HasAll, Kept
  <2>7. taskRow[t].status \notin {"exited", "killed", "failed"}
    BY <1>2 DEF InOrder, EndInOrder, Over
  <2> QED BY <1>1, <1>3, <2>2, <2>4, <2>5, <2>6, <2>7, OneTaskKeeps DEF EndedStaysEnded
<1> QED BY <1>4, <1>5 DEF Persist, StartStep

\* The group of a task without a row has ended; a task with one enters the table.
LEMMA StartEndsKeeps ==
  ASSUME TaskInv, NEW t \in Tasks, Undo(t) \/ Register(t)
  PROVE  TaskInv' /\ EndedStaysEnded
<1>1. /\ UNCHANGED <<taskRow, task, procs, doomed, limitKill, holders, written, copier, sunk, finals, taskAnswer, opAnswer,
                     attached, taskFaults, taskCrashes>>
      /\ taskTable' \in {taskTable, taskTable \cup {t}}
  BY DEF Undo, Register, taskOutput, taskAnswers, taskBounds
<1>2. TaskTypeOK /\ InOrder(t)
  BY DEF TaskInv
<1>3. TaskTypeOK'
  BY <1>1, <1>2 DEF Undo, Register, StartStep, TaskTypeOK, Steps
<1>4. \A u \in Tasks : u # t => Untouched(u)
  BY <1>1, <1>2 DEF Undo, Register, StartStep, TaskTypeOK, Untouched
<1>5. CASE Undo(t)
  <2>1. taskStep'[t] = "refused" /\ UNCHANGED <<waiter, taskTable>>
    BY <1>2, <1>5 DEF Undo, StartStep, TaskTypeOK
  <2>2. \A s \in Streams : copier[t][s] # "sending"
    BY <1>5 DEF Undo, StreamsEnded
  <2>3. InOrder(t)'
    BY <1>1, <1>2, <1>5, <2>1, <2>2 DEF Undo, InOrder, StartInOrder, EndInOrder, OutputInOrder, AnswersInOrder, Over, HasAll, Kept
  <2> QED BY <1>1, <1>3, <1>4, <2>3, OneTaskKeeps DEF EndedStaysEnded
<1>6. CASE Register(t)
  <2>1. taskStep'[t] = "up" /\ waiter'[t] = "copying" /\ t \in taskTable' /\ taskStep[t] = "stored"
    BY <1>2, <1>6 DEF Register, StartStep, TaskTypeOK
  <2>2. InOrder(t)'
    BY <1>1, <1>2, <2>1 DEF InOrder, StartInOrder, EndInOrder, OutputInOrder, AnswersInOrder, Over, HasAll, Kept
  <2> QED BY <1>1, <1>3, <1>4, <2>2, OneTaskKeeps DEF EndedStaysEnded
<1> QED BY <1>5, <1>6

\* Processes come and go, in the group and outside it; a task whose leader is gone,
\* and whose pipes nobody has open, gets no other.
LEMMA GroupKeeps ==
  ASSUME TaskInv, NEW t \in Tasks,
         Fork(t) \/ LeaveGroup(t) \/ OutsiderEnds(t) \/ \E p \in Processes : ProcessDies(t, p)
  PROVE  TaskInv' /\ EndedStaysEnded
<1>1. UNCHANGED <<taskStep, taskTable, taskRow, task, doomed, limitKill, waiter, written, copier, sunk, finals,
                  taskAnswer, opAnswer, attached, taskFaults, taskCrashes>>
  BY DEF Fork, LeaveGroup, OutsiderEnds, ProcessDies, taskAnswers, taskBounds
<1>2. TaskTypeOK /\ InOrder(t) /\ procs[t] \in SUBSET Processes /\ holders[t] \in SUBSET Holders
  BY DEF TaskInv, TaskTypeOK
<1>3. PICK group \in SUBSET Processes, open \in SUBSET Holders :
        /\ procs' = [procs EXCEPT ![t] = group] /\ holders' = [holders EXCEPT ![t] = open]
        /\ "leader" \notin procs[t] => group \subseteq procs[t] /\ (holders[t] = {} => open = {})
  <2>1. CASE Fork(t)
    <3>1. /\ procs' = [procs EXCEPT ![t] = Processes] /\ "leader" \in procs[t]
          /\ \/ holders' = [holders EXCEPT ![t] = holders[t]]
             \/ holders' = [holders EXCEPT ![t] = holders[t] \cup {"child"}]
      BY <1>2, <2>1 DEF Fork, TaskTypeOK
    <3> QED BY <1>2, <3>1 DEF Holders
  <2>2. CASE LeaveGroup(t)
    <3>1. /\ procs' = [procs EXCEPT ![t] = procs[t]] /\ ("leader" \in procs[t] \/ holders[t] # {})
          /\ holders' = [holders EXCEPT ![t] = holders[t] \cup {"outsider"}]
      BY <1>2, <2>2 DEF LeaveGroup, TaskTypeOK
    <3> QED BY <1>2, <3>1 DEF Holders
  <2>3. CASE OutsiderEnds(t)
    <3>1. procs' = [procs EXCEPT ![t] = procs[t]] /\ holders' = [holders EXCEPT ![t] = holders[t] \ {"outsider"}]
      BY <1>2, <2>3 DEF OutsiderEnds, TaskTypeOK
    <3> QED BY <1>2, <3>1
  <2>4. ASSUME NEW p \in Processes, ProcessDies(t, p)
        PROVE  \E group \in SUBSET Processes, open \in SUBSET Holders :
                 /\ procs' = [procs EXCEPT ![t] = group] /\ holders' = [holders EXCEPT ![t] = open]
                 /\ "leader" \notin procs[t] => group \subseteq procs[t] /\ (holders[t] = {} => open = {})
    <3>1. procs' = [procs EXCEPT ![t] = procs[t] \ {p}] /\ holders' = [holders EXCEPT ![t] = holders[t] \ {p}]
      BY <2>4 DEF ProcessDies
    <3>2. /\ procs[t] \ {p} \in SUBSET Processes /\ holders[t] \ {p} \in SUBSET Holders
          /\ procs[t] \ {p} \subseteq procs[t] /\ (holders[t] = {} => holders[t] \ {p} = {})
      BY <1>2
    <3> QED BY <3>1, <3>2
  <2> QED BY <2>1, <2>2, <2>3, <2>4
<1>4. TaskTypeOK'
  BY <1>1, <1>2, <1>3 DEF TaskTypeOK
<1>5. \A u \in Tasks : u # t => Untouched(u)
  BY <1>1, <1>2, <1>3 DEF TaskTypeOK, Untouched
<1>6. /\ "leader" \notin procs[t] => procs'[t] \subseteq procs[t] /\ (holders[t] = {} => holders'[t] = {})
      /\ procs[t] = {} => procs'[t] = {}
  BY <1>2, <1>3 DEF TaskTypeOK
<1>7. InOrder(t)'
  BY <1>1, <1>2, <1>6 DEF InOrder, StartInOrder, EndInOrder, OutputInOrder, AnswersInOrder, Over, HasAll, Kept
<1> QED BY <1>1, <1>4, <1>5, <1>7, OneTaskKeeps DEF EndedStaysEnded

\* What is kept of each stream of each task, written for one stream of one task.
LEMMA OneStream ==
  ASSUME NEW t \in Tasks, NEW s \in Streams, NEW V, NEW f \in [Tasks -> [Streams -> V]], NEW v \in V
  PROVE  /\ [f EXCEPT ![t][s] = v] \in [Tasks -> [Streams -> V]]
         /\ [f EXCEPT ![t][s] = v][t][s] = v
         /\ \A u \in Tasks : u # t => [f EXCEPT ![t][s] = v][u] = f[u]
         /\ \A q \in Streams : q # s => [f EXCEPT ![t][s] = v][t][q] = f[t][q]
OBVIOUS

\* A chunk goes to the log, then to the observer (lockedWriter.Write).
LEMMA ChunkKeeps ==
  ASSUME TaskInv, NEW t \in Tasks, NEW s \in Streams, WriteChunk(t, s) \/ SinkChunk(t, s)
  PROVE  TaskInv' /\ EndedStaysEnded
<1>1. UNCHANGED <<taskStep, taskTable, taskRow, task, procs, doomed, limitKill, waiter, holders, finals,
                  taskAnswer, opAnswer, attached, taskCrashes>>
  BY DEF WriteChunk, SinkChunk, taskAnswers, taskBounds
<1>2. TaskTypeOK /\ InOrder(t)
  BY DEF TaskInv
<1>3. taskFaults' \in 0..MaxTaskFaults /\ (taskFaults' = 0 => taskFaults = 0)
  BY <1>2, FaultCounted DEF WriteChunk, SinkChunk, taskBounds
<1> DEFINE Counted(n) == [n EXCEPT ![t][s] = n[t][s] + 1]
<1>4. \/ /\ copier[t][s] = "reading" /\ Copying(t) /\ UNCHANGED sunk
         /\ \/ written' = Counted(written) /\ copier' = [copier EXCEPT ![t][s] = "sending"]
            \/ UNCHANGED written /\ copier' = [copier EXCEPT ![t][s] = "broken"]
      \/ /\ copier[t][s] = "sending" /\ UNCHANGED written
         /\ sunk' = Counted(sunk) /\ copier' = [copier EXCEPT ![t][s] = "reading"]
  BY DEF WriteChunk, SinkChunk
<1>5. /\ written' \in [Tasks -> [Streams -> Nat]] /\ sunk' \in [Tasks -> [Streams -> Nat]]
      /\ copier' \in [Tasks -> [Streams -> {"reading", "sending", "broken"}]]
      /\ \A u \in Tasks : u # t => written'[u] = written[u] /\ sunk'[u] = sunk[u] /\ copier'[u] = copier[u]
      /\ \A q \in Streams : q # s => written'[t][q] = written[t][q] /\ sunk'[t][q] = sunk[t][q] /\ copier'[t][q] = copier[t][q]
      /\ \/ /\ copier[t][s] = "reading" /\ Copying(t)
            /\ \/ /\ written'[t][s] = written[t][s] + 1 /\ sunk'[t][s] = sunk[t][s] /\ copier'[t][s] = "sending"
               \/ /\ written'[t][s] = written[t][s] /\ sunk'[t][s] = sunk[t][s] /\ copier'[t][s] = "broken"
         \/ /\ copier[t][s] = "sending" /\ copier'[t][s] = "reading"
            /\ written'[t][s] = written[t][s] /\ sunk'[t][s] = sunk[t][s] + 1
  <2>1. /\ written \in [Tasks -> [Streams -> Nat]] /\ sunk \in [Tasks -> [Streams -> Nat]]
        /\ copier \in [Tasks -> [Streams -> {"reading", "sending", "broken"}]]
        /\ written[t][s] + 1 \in Nat /\ sunk[t][s] + 1 \in Nat
    BY <1>2 DEF TaskTypeOK
  <2>2. CASE copier[t][s] = "reading" /\ Copying(t) /\ UNCHANGED sunk
             /\ written' = Counted(written) /\ copier' = [copier EXCEPT ![t][s] = "sending"]
    BY <2>1, <2>2, OneStream
  <2>3. CASE copier[t][s] = "reading" /\ Copying(t) /\ UNCHANGED sunk
             /\ UNCHANGED written /\ copier' = [copier EXCEPT ![t][s] = "broken"]
    BY <2>1, <2>3, OneStream
  <2>4. CASE copier[t][s] = "sending" /\ UNCHANGED written
             /\ sunk' = Counted(sunk) /\ copier' = [copier EXCEPT ![t][s] = "reading"]
    BY <2>1, <2>4, OneStream
  <2> QED BY <1>4, <2>2, <2>3, <2>4
<1>6. \/ /\ copier[t][s] = "reading" /\ Copying(t)
         /\ \/ /\ written'[t][s] = written[t][s] + 1 /\ sunk'[t][s] = sunk[t][s] /\ copier'[t][s] = "sending"
            \/ /\ written'[t][s] = written[t][s] /\ sunk'[t][s] = sunk[t][s] /\ copier'[t][s] = "broken"
      \/ /\ copier[t][s] = "sending" /\ copier'[t][s] = "reading"
         /\ written'[t][s] = written[t][s] /\ sunk'[t][s] = sunk[t][s] + 1
  BY <1>5
<1>7. written[t][s] \in Nat /\ sunk[t][s] \in Nat
  BY <1>2 DEF TaskTypeOK
<1> HIDE DEF Counted
<1>8. TaskTypeOK'
  BY <1>1, <1>2, <1>3, <1>5 DEF TaskTypeOK
<1>9. \A u \in Tasks : u # t => Untouched(u)
  BY <1>1, <1>2, <1>5 DEF Untouched
\* only while the output is being copied, or for a task that has lost its reader
<1>10. taskStep[t] \in {"started", "undoing", "stored", "up"} /\ waiter[t] \in {"none", "copying"}
  BY <1>2, <1>6 DEF InOrder, StartInOrder, OutputInOrder, Copying, TaskTypeOK, Steps
<1>11. StartInOrder(t)'
  BY <1>1, <1>2, <1>10 DEF InOrder, StartInOrder
<1>12. EndInOrder(t)'
  BY <1>1, <1>2, <1>3, <1>10 DEF InOrder, EndInOrder, Over
<1>13. OutputInOrder(t)'
  <2>1. \A q \in Streams : written'[t][q] = sunk'[t][q] + (IF copier'[t][q] = "sending" THEN 1 ELSE 0)
    BY <1>2, <1>5, <1>6, <1>7, <1>10 DEF InOrder, OutputInOrder
  <2>2. finals[t] = {}
    BY <1>2, <1>10 DEF InOrder, OutputInOrder, StartInOrder
  <2>3. attached[t].verdict \notin {"exited", "failed"}
    BY <1>2, <1>10 DEF InOrder, OutputInOrder, Over
  <2> QED BY <1>1, <1>10, <2>1, <2>2, <2>3 DEF OutputInOrder
<1>14. AnswersInOrder(t)'
  BY <1>1, <1>2, <1>10 DEF InOrder, AnswersInOrder, EndInOrder, Over
<1>15. InOrder(t)'
  BY <1>11, <1>12, <1>13, <1>14 DEF InOrder
<1> QED BY <1>1, <1>3, <1>8, <1>9, <1>15, OneTaskKeeps DEF EndedStaysEnded

\* The leader has ended, then its group; the task is done (the waiter of startPrepared).
LEMMA WaitLeaderKeeps ==
  ASSUME TaskInv, NEW t \in Tasks, WaitLeader(t)
  PROVE  TaskInv' /\ EndedStaysEnded
<1>1. UNCHANGED <<taskStep, taskTable, taskRow, procs, doomed, limitKill, holders, written, copier, sunk, finals,
                  taskAnswer, opAnswer, attached, taskFaults, taskCrashes>>
  BY DEF WaitLeader, taskOutput, taskAnswers, taskBounds
<1>2. TaskTypeOK /\ InOrder(t) /\ waiter[t] = "copying" /\ StreamsEnded(t) /\ "leader" \notin procs[t]
  BY DEF TaskInv, WaitLeader
<1> DEFINE Ends(code) == task' = [task EXCEPT ![t].code = code]
<1>3. PICK code \in -1..1 : /\ Ends(code)
                            /\ \A s \in Streams : copier[t][s] = "broken" => code # 0
  <2>1. CASE \E s \in Streams : copier[t][s] = "broken"
    <3>1. PICK code \in {-1, 1} : Ends(code)
      BY <2>1 DEF WaitLeader
    <3> HIDE DEF Ends
    <3> QED BY <3>1
  <2>2. CASE \A s \in Streams : copier[t][s] # "broken"
    <3>1. PICK code \in {0, 1} : Ends(code)
      BY <2>2 DEF WaitLeader
    <3> HIDE DEF Ends
    <3> QED BY <2>2, <3>1
  <2> QED BY <2>1, <2>2
<1>4. SetTask(t, task[t].status, task[t].reason, code)
  <2>1. [task[t] EXCEPT !.code = code] = [status |-> task[t].status, reason |-> task[t].reason, code |-> code]
    BY <1>2, TaskIsRecord, TaskWritten
  <2> QED BY <1>3, <2>1 DEF SetTask
<1>5. /\ task' \in [Tasks -> TaskRecord]
      /\ task'[t].status = task[t].status /\ task'[t].reason = task[t].reason /\ task'[t].code = code
      /\ \A u \in Tasks : u # t => task'[u] = task[u]
  BY <1>2, <1>4, TaskIsRecord, TaskSet DEF TaskRecord
<1>6. waiter' = [waiter EXCEPT ![t] = "group"] /\ waiter'[t] = "group"
  BY <1>2 DEF WaitLeader, TaskTypeOK
<1>7. TaskTypeOK'
  BY <1>1, <1>2, <1>5, <1>6 DEF TaskTypeOK, TaskRecord
<1>8. \A u \in Tasks : u # t => Untouched(u)
  BY <1>1, <1>2, <1>5, <1>6 DEF TaskTypeOK, Untouched
<1>9. /\ \A s \in Streams : copier[t][s] # "sending"
      /\ holders[t] = {} \/ \A s \in Streams : copier[t][s] = "broken"
  BY <1>2 DEF StreamsEnded
<1>10. InOrder(t)'
  BY <1>1, <1>2, <1>3, <1>5, <1>6, <1>9 DEF InOrder, StartInOrder, EndInOrder, OutputInOrder, AnswersInOrder, Over, HasAll, Kept
<1> QED BY <1>1, <1>7, <1>8, <1>10, OneTaskKeeps DEF EndedStaysEnded

LEMMA FinishKeeps ==
  ASSUME TaskInv, NEW t \in Tasks, Finish(t) \/ FinishUnverified(t)
  PROVE  TaskInv' /\ EndedStaysEnded
<1>1. UNCHANGED <<taskStep, taskTable, procs, limitKill, holders, written, copier, sunk, finals,
                  taskAnswer, opAnswer, attached, taskCrashes>>
  BY DEF Finish, FinishUnverified, taskOutput, taskAnswers
<1>2. TaskTypeOK /\ InOrder(t) /\ waiter[t] = "group" /\ task[t] \in TaskRecord
  BY TaskIsRecord DEF TaskInv, Finish, FinishUnverified
<1>3. taskFaults' \in 0..MaxTaskFaults /\ (taskFaults' = 0 => taskFaults = 0)
  BY <1>2, FaultCounted DEF Finish, FinishAs, FinishUnverified
<1>4. task[t].status \in {"running", "killed"} /\ taskRow[t].status \notin {"exited", "killed", "failed"} /\ taskStep[t] = "up"
  BY <1>2 DEF InOrder, EndInOrder, StartInOrder, Over
<1>5. waiter' = [waiter EXCEPT ![t] = "finals"] /\ waiter'[t] = "finals"
  BY <1>2 DEF Finish, FinishAs, FinishUnverified, TaskTypeOK
<1>6. ASSUME NEW status \in {"exited", "killed", "failed"}, NEW code \in -1..1,
             task' = [task EXCEPT ![t] = [@ EXCEPT !.status = status, !.code = code]],
             status = "killed" <=> task[t].status = "killed" /\ status # "failed",
             status # "exited" => code = -1, status = "exited" => code = task[t].code /\ UNCHANGED doomed,
             status # "failed" => procs[t] = {} /\ UNCHANGED doomed,
             doomed' = doomed \/ KillGroup(t),
             \/ SetRow(t, status, task[t].reason)
             \/ TaskFault /\ UNCHANGED taskRow
      PROVE  TaskInv' /\ EndedStaysEnded
  <2>1. SetTask(t, status, task[t].reason, code)
    <3>1. [task[t] EXCEPT !.status = status, !.code = code] = [status |-> status, reason |-> task[t].reason, code |-> code]
      BY <1>2, TaskEndWritten
    <3> QED BY <1>6, <3>1 DEF SetTask
  <2>2. /\ task' \in [Tasks -> TaskRecord]
        /\ task'[t].status = status /\ task'[t].reason = task[t].reason /\ task'[t].code = code
        /\ \A u \in Tasks : u # t => task'[u] = task[u]
    BY <1>2, <2>1, TaskSet DEF TaskRecord, Statuses
  <2>3. task[t].reason \in Reasons /\ status \in Statuses
    BY <1>2 DEF TaskRecord, Statuses
  <2>4. /\ taskRow' \in [Tasks -> [status : Statuses, reason : Reasons]]
        /\ \A u \in Tasks : u # t => taskRow'[u] = taskRow[u]
        /\ taskFaults' = 0 => taskRow'[t].status = status /\ taskRow'[t].reason = task[t].reason
        /\ taskRow'[t].status \in {"exited", "killed", "failed"} => taskRow'[t].status = status
    <3>1. CASE SetRow(t, status, task[t].reason)
      BY <1>2, <2>3, <3>1, RowSet
    <3>2. CASE TaskFault /\ UNCHANGED taskRow
      BY <1>2, <1>4, <3>2 DEF TaskTypeOK, TaskFault
    <3> QED BY <1>6, <3>1, <3>2
  <2>5. /\ doomed' \in [Tasks -> SUBSET Processes] /\ \A u \in Tasks : u # t => doomed'[u] = doomed[u]
        /\ status # "failed" => doomed'[t] = doomed[t]
    BY <1>2, <1>6 DEF KillGroup, TaskTypeOK
  <2>6. TaskTypeOK'
    BY <1>1, <1>2, <1>3, <1>5, <2>2, <2>4, <2>5 DEF TaskTypeOK, TaskRecord
  <2>7. \A u \in Tasks : u # t => Untouched(u)
    BY <1>1, <1>2, <1>5, <2>2, <2>4, <2>5 DEF TaskTypeOK, Untouched
  <2>8. StartInOrder(t)'
    BY <1>1, <1>2, <1>4, <1>5 DEF InOrder, StartInOrder
  <2>9. EndInOrder(t)'
    BY <1>1, <1>2, <1>4, <1>5, <1>6, <2>2, <2>4, <2>5 DEF InOrder, EndInOrder, Over
  <2>10. OutputInOrder(t)'
    BY <1>1, <1>2, <1>4, <1>5, <1>6, <2>2 DEF InOrder, OutputInOrder, Over, HasAll, Kept
  <2>11. AnswersInOrder(t)'
    BY <1>1, <1>2, <1>4, <1>5, <2>2 DEF InOrder, AnswersInOrder
  <2>12. InOrder(t)'
    BY <2>8, <2>9, <2>10, <2>11 DEF InOrder
  <2> QED BY <1>3, <1>4, <2>4, <2>6, <2>7, <2>12, OneTaskKeeps DEF EndedStaysEnded
<1>7. CASE Finish(t) /\ task[t].status = "killed"
  <2>1. /\ procs[t] = {} /\ UNCHANGED doomed
        /\ task' = [task EXCEPT ![t] = [@ EXCEPT !.status = "killed", !.code = -1]]
        /\ \/ SetRow(t, "killed", task[t].reason)
           \/ TaskFault /\ UNCHANGED taskRow
    BY <1>7 DEF Finish, FinishAs, SetRow
  <2> QED BY <1>6, <1>7, <2>1
<1>8. CASE Finish(t) /\ task[t].status # "killed"
  <2>1. /\ procs[t] = {} /\ UNCHANGED doomed /\ task[t].code \in -1..1
        /\ task' = [task EXCEPT ![t] = [@ EXCEPT !.status = "exited", !.code = task[t].code]]
        /\ \/ SetRow(t, "exited", task[t].reason)
           \/ TaskFault /\ UNCHANGED taskRow
    BY <1>2, <1>8 DEF Finish, FinishAs, SetRow, TaskRecord
  <2> QED BY <1>6, <1>8, <2>1
<1>9. CASE FinishUnverified(t)
  <2>1. /\ task' = [task EXCEPT ![t] = [@ EXCEPT !.status = "failed", !.code = -1]]
        /\ KillGroup(t) /\ SetRow(t, "failed", task[t].reason)
    BY <1>9 DEF FinishUnverified, SetRow
  <2> QED BY <1>6, <1>9, <2>1
<1> QED BY <1>7, <1>8, <1>9

\* The final chunks go to the observer and the task is closed (emitOutputFinal).
LEMMA EmitFinalKeeps ==
  ASSUME TaskInv, NEW t \in Tasks, EmitFinal(t)
  PROVE  TaskInv' /\ EndedStaysEnded
<1>1. UNCHANGED <<taskStep, taskTable, taskRow, task, procs, doomed, limitKill, holders, written, copier, sunk,
                  taskAnswer, opAnswer, attached, taskFaults, taskCrashes>>
  BY DEF EmitFinal, taskAnswers, taskBounds
<1>2. TaskTypeOK /\ InOrder(t) /\ waiter[t] = "finals"
  BY DEF TaskInv, EmitFinal
<1>3. /\ waiter' = [waiter EXCEPT ![t] = "closed"] /\ waiter'[t] = "closed"
      /\ finals' = [finals EXCEPT ![t] = Streams] /\ finals'[t] = Streams
  BY <1>2 DEF EmitFinal, TaskTypeOK
<1>4. TaskTypeOK'
  BY <1>1, <1>2, <1>3 DEF TaskTypeOK
<1>5. \A u \in Tasks : u # t => Untouched(u)
  BY <1>1, <1>2, <1>3 DEF TaskTypeOK, Untouched
<1>6. taskStep[t] = "up"
  BY <1>2 DEF InOrder, StartInOrder
<1>7. StartInOrder(t)' /\ EndInOrder(t)' /\ AnswersInOrder(t)'
  BY <1>1, <1>2, <1>3, <1>6 DEF InOrder, StartInOrder, EndInOrder, AnswersInOrder, Over
<1>8. OutputInOrder(t)'
  <2>1. \A s \in Streams : sunk[t][s] = written[t][s]
    <3>1. \A s \in Streams : sunk[t][s] \in Nat /\ written[t][s] \in Nat
      BY <1>2 DEF TaskTypeOK
    <3> QED BY <1>2, <1>6, <3>1 DEF InOrder, OutputInOrder
  <2> QED BY <1>1, <1>2, <1>3, <1>6, <2>1 DEF InOrder, OutputInOrder, Over, HasAll, Kept
<1> QED BY <1>1, <1>4, <1>5, <1>7, <1>8, OneTaskKeeps DEF EndedStaysEnded, InOrder

\* A running task is sent a kill, by a client or for its operation step.
LEMMA KillKeeps ==
  ASSUME TaskInv, NEW t \in Tasks, taskStep[t] = "up", task[t].status = "running", Killed(t),
         UNCHANGED <<taskStep, taskTable, taskRow, procs, limitKill, waiter, holders, written, copier, sunk, finals,
                     taskAnswer, attached, taskCrashes>>,
         \/ UNCHANGED opAnswer
         \/ opAnswer' = [opAnswer EXCEPT ![t] = "stopping"] /\ taskAnswer[t].outcome # "none"
  PROVE  TaskInv' /\ EndedStaysEnded
<1>1. TaskTypeOK /\ InOrder(t) /\ waiter[t] \in {"copying", "group"}
  BY DEF TaskInv, TaskTypeOK, InOrder, StartInOrder, EndInOrder
<1>2. doomed' = [doomed EXCEPT ![t] = procs[t]] /\ UNCHANGED taskFaults /\ task' = [task EXCEPT ![t].status = "killed"]
  BY DEF Killed, KillGroup
<1>3. SetTask(t, "killed", task[t].reason, task[t].code)
  BY <1>1, <1>2, TaskIsRecord, TaskWritten DEF SetTask
<1>4. /\ task' \in [Tasks -> TaskRecord]
      /\ task'[t].status = "killed" /\ task'[t].reason = task[t].reason /\ task'[t].code = task[t].code
      /\ \A u \in Tasks : u # t => task'[u] = task[u]
  BY <1>1, <1>3, TaskIsRecord, TaskSet DEF TaskRecord, Statuses
<1>5. /\ opAnswer' \in [Tasks -> OpOutcomes] /\ \A u \in Tasks : u # t => opAnswer'[u] = opAnswer[u]
      /\ \/ opAnswer'[t] = opAnswer[t]
         \/ opAnswer'[t] = "stopping" /\ taskAnswer[t].outcome # "none"
  BY <1>1 DEF TaskTypeOK, OpOutcomes
<1>6. TaskTypeOK'
  BY <1>1, <1>2, <1>4, <1>5 DEF TaskTypeOK, TaskRecord
<1>7. \A u \in Tasks : u # t => Untouched(u)
  BY <1>1, <1>2, <1>4, <1>5 DEF TaskTypeOK, Untouched
<1>8. StartInOrder(t)'
  BY <1>1, <1>4, <1>5 DEF InOrder, StartInOrder
<1>9. EndInOrder(t)'
  BY <1>1, <1>2, <1>4 DEF InOrder, EndInOrder, Over
<1>10. OutputInOrder(t)' /\ AnswersInOrder(t)'
  BY <1>1, <1>4, <1>5 DEF InOrder, OutputInOrder, AnswersInOrder, Over, HasAll, Kept
<1> QED BY <1>2, <1>6, <1>7, <1>8, <1>9, <1>10, OneTaskKeeps DEF EndedStaysEnded, InOrder

LEMMA StopKeeps ==
  ASSUME TaskInv, NEW t \in Tasks, Stop(t)
  PROVE  TaskInv' /\ EndedStaysEnded
<1>1. UNCHANGED <<taskStep, taskTable, taskRow, procs, limitKill, waiter, holders, written, copier, sunk, finals,
                  taskAnswer, attached, taskCrashes>> /\ UNCHANGED opAnswer
  BY DEF Stop, taskOutput, taskAnswers
<1>2. taskStep[t] = "up" /\ task[t].status = "running" /\ Killed(t)
  <2>1. TaskTypeOK /\ StartInOrder(t) /\ t \in taskTable
    BY DEF TaskInv, InOrder, Stop
  <2> QED BY <2>1 DEF StartInOrder, TaskTypeOK, Stop
<1> QED BY <1>1, <1>2, KillKeeps

\* What an operation step makes of its task.
LEMMA OpAnswerKeeps ==
  ASSUME TaskInv, NEW t \in Tasks, NEW answer \in OpOutcomes, OpAnswer(t, answer),
         answer \in {"waiting", "stopping"} => taskStep[t] = "up", answer = "cancelled" => procs[t] = {},
         taskAnswer[t].outcome # "none",
         UNCHANGED <<taskStep, taskTable, taskRow, task, procs, doomed, limitKill, waiter, holders, written, copier, sunk, finals,
                     taskAnswer, attached, taskCrashes>>,
         TaskFault \/ UNCHANGED taskFaults
  PROVE  TaskInv' /\ EndedStaysEnded
<1>1. TaskTypeOK /\ InOrder(t)
  BY DEF TaskInv
<1>2. taskFaults' \in 0..MaxTaskFaults /\ (taskFaults' = 0 => taskFaults = 0)
  BY <1>1, FaultCounted
<1>3. /\ opAnswer' \in [Tasks -> OpOutcomes] /\ opAnswer'[t] = answer
      /\ \A u \in Tasks : u # t => opAnswer'[u] = opAnswer[u]
  BY <1>1 DEF TaskTypeOK, OpAnswer
<1>4. TaskTypeOK'
  BY <1>1, <1>2, <1>3 DEF TaskTypeOK
<1>5. \A u \in Tasks : u # t => Untouched(u)
  BY <1>3 DEF Untouched
<1>6. InOrder(t)'
  BY <1>1, <1>2, <1>3 DEF InOrder, StartInOrder, EndInOrder, OutputInOrder, AnswersInOrder, Over, HasAll, Kept
<1> QED BY <1>2, <1>4, <1>5, <1>6, OneTaskKeeps DEF EndedStaysEnded

\* waitForOperationTask: it waits, cancels, gives up or has the result.
LEMMA OpWaitKeeps ==
  ASSUME TaskInv, NEW t \in Tasks, OpGet(t) \/ OpDone(t) \/ OpCancel(t) \/ OpStopped(t)
  PROVE  TaskInv' /\ EndedStaysEnded
<1>1. TaskTypeOK /\ InOrder(t)
  BY DEF TaskInv
<1>2. /\ opAnswer[t] \in {"waiting", "stopping"} => taskStep[t] = "up" /\ taskAnswer[t].outcome # "none"
      /\ t \in taskTable => taskStep[t] = "up"
      /\ waiter[t] = "closed" /\ task[t].status # "failed" => procs[t] = {}
  BY <1>1 DEF InOrder, StartInOrder, EndInOrder, TaskTypeOK
<1>3. CASE OpGet(t)
  <2>1. PICK answer \in {"waiting", "error", "unconfirmed"} : OpAnswer(t, answer) /\ (answer = "waiting" => t \in taskTable)
    BY <1>3 DEF OpGet
  <2>2. answer \in OpOutcomes
    BY DEF OpOutcomes
  <2>3. taskAnswer[t].outcome # "none" /\ UNCHANGED taskFaults
        /\ UNCHANGED <<taskStep, taskTable, taskRow, task, procs, doomed, limitKill, waiter, holders, written, copier, sunk, finals,
                       taskAnswer, attached, taskCrashes>>
    BY <1>3 DEF OpGet, taskOutput, taskBounds
  <2> QED BY <1>2, <2>1, <2>2, <2>3, OpAnswerKeeps
<1>4. CASE OpDone(t)
  <2>1. PICK answer \in {"unconfirmed", "result"} : OpAnswer(t, answer)
    BY <1>4 DEF OpDone
  <2>2. answer \in OpOutcomes
    BY DEF OpOutcomes
  <2>3. opAnswer[t] = "waiting" /\ UNCHANGED taskFaults
        /\ UNCHANGED <<taskStep, taskTable, taskRow, task, procs, doomed, limitKill, waiter, holders, written, copier, sunk, finals,
                       taskAnswer, attached, taskCrashes>>
    BY <1>4 DEF OpDone, taskOutput, taskBounds
  <2> QED BY <1>2, <2>1, <2>2, <2>3, OpAnswerKeeps
<1>5. CASE OpStopped(t)
  <2>1. PICK answer \in {"unconfirmed", "cancelled"} :
          OpAnswer(t, answer) /\ (answer = "cancelled" => waiter[t] = "closed" /\ task[t].status # "failed")
    BY <1>5 DEF OpStopped
  <2>2. answer \in OpOutcomes
    BY DEF OpOutcomes
  <2>3. opAnswer[t] = "stopping" /\ UNCHANGED taskFaults
        /\ UNCHANGED <<taskStep, taskTable, taskRow, task, procs, doomed, limitKill, waiter, holders, written, copier, sunk, finals,
                       taskAnswer, attached, taskCrashes>>
    BY <1>5 DEF OpStopped, taskOutput, taskBounds
  <2> QED BY <1>2, <2>1, <2>2, <2>3, OpAnswerKeeps
<1>6. CASE OpCancel(t)
  <2>1. opAnswer[t] = "waiting"
        /\ UNCHANGED <<taskStep, taskTable, taskRow, procs, limitKill, waiter, holders, written, copier, sunk, finals,
                       taskAnswer, attached, taskCrashes>>
    BY <1>6 DEF OpCancel, taskOutput
  <2>2. "stopping" \in OpOutcomes /\ "unconfirmed" \in OpOutcomes
    BY DEF OpOutcomes
  <2>3. CASE KillFails(t) /\ OpAnswer(t, "unconfirmed")
    BY <1>2, <2>1, <2>2, <2>3, OpAnswerKeeps DEF KillFails
  <2>4. CASE Killed(t) /\ OpAnswer(t, "stopping") /\ task[t].status # "running"
    BY <1>2, <2>1, <2>2, <2>4, OpAnswerKeeps DEF Killed
  <2>5. CASE Killed(t) /\ OpAnswer(t, "stopping") /\ task[t].status = "running"
    <3>1. taskStep[t] = "up" /\ opAnswer' = [opAnswer EXCEPT ![t] = "stopping"]
      BY <1>2, <2>1, <2>5 DEF OpAnswer
    <3>2. taskAnswer[t].outcome # "none"
      BY <1>2, <2>1
    <3> QED BY <2>1, <2>5, <3>1, <3>2, KillKeeps
  <2> QED BY <1>6, <2>3, <2>4, <2>5 DEF OpCancel
<1> QED BY <1>3, <1>4, <1>5, <1>6

\* terminateForLimit: the mark under Task.mu ...
LEMMA LimitKeeps ==
  ASSUME TaskInv, NEW t \in Tasks, NEW reason \in Reasons \ {"none"}, Limit(t, reason)
  PROVE  TaskInv' /\ EndedStaysEnded
<1>1. UNCHANGED <<taskStep, taskTable, taskRow, procs, doomed, waiter, holders, written, copier, sunk, finals,
                  taskAnswer, opAnswer, attached, taskFaults, taskCrashes>>
      /\ limitKill' = limitKill \cup {t}
  BY DEF Limit, taskOutput, taskAnswers, taskBounds
<1>2. TaskTypeOK /\ InOrder(t) /\ t \in LimitedTasks /\ taskStep[t] = "up" /\ task[t].status = "running"
  BY DEF TaskInv, Limit
<1>3. waiter[t] \in {"copying", "group"}
  BY <1>2 DEF TaskTypeOK, InOrder, StartInOrder, EndInOrder
<1>4. SetTask(t, "killed", reason, task[t].code)
  <2>1. task' = [task EXCEPT ![t] = [@ EXCEPT !.status = "killed", !.reason = reason]]
    BY DEF Limit
  <2>2. [task[t] EXCEPT !.status = "killed", !.reason = reason] = [status |-> "killed", reason |-> reason, code |-> task[t].code]
    BY <1>2, TaskIsRecord, TaskLimitWritten
  <2> QED BY <2>1, <2>2 DEF SetTask
<1>5. /\ task' \in [Tasks -> TaskRecord]
      /\ task'[t].status = "killed" /\ task'[t].reason = reason /\ task'[t].code = task[t].code
      /\ \A u \in Tasks : u # t => task'[u] = task[u]
  BY <1>2, <1>4, TaskIsRecord, TaskSet DEF TaskRecord, Statuses
<1>6. TaskTypeOK'
  BY <1>1, <1>2, <1>5 DEF TaskTypeOK, TaskRecord
<1>7. \A u \in Tasks : u # t => Untouched(u)
  BY <1>1, <1>5 DEF Untouched
<1>8. InOrder(t)'
  BY <1>1, <1>2, <1>3, <1>5 DEF InOrder, StartInOrder, EndInOrder, OutputInOrder, AnswersInOrder, Over, HasAll, Kept
<1> QED BY <1>1, <1>6, <1>7, <1>8, OneTaskKeeps DEF EndedStaysEnded

\* ... and the kill after it.
LEMMA LimitKillKeeps ==
  ASSUME TaskInv, NEW t \in Tasks, LimitKill(t)
  PROVE  TaskInv' /\ EndedStaysEnded
<1>1. UNCHANGED <<taskStep, taskTable, taskRow, task, procs, waiter, holders, written, copier, sunk, finals,
                  taskAnswer, opAnswer, attached, taskCrashes>>
      /\ limitKill' = limitKill \ {t} /\ t \in limitKill
  BY DEF LimitKill, taskOutput, taskAnswers
<1>2. TaskTypeOK /\ InOrder(t)
  BY DEF TaskInv
<1>3. taskFaults' \in 0..MaxTaskFaults /\ (taskFaults' = 0 => taskFaults = 0)
  BY <1>2, FaultCounted DEF LimitKill
<1>4. task[t].status \in {"killed", "failed"}
  BY <1>1, <1>2 DEF InOrder, EndInOrder
<1>5. doomed' \in [Tasks -> SUBSET Processes] /\ \A u \in Tasks : u # t => doomed'[u] = doomed[u]
  <2>1. PICK hit \in SUBSET Processes : doomed' = [doomed EXCEPT ![t] = hit]
    <3>1. procs[t] \in SUBSET Processes /\ procs[t] \cap {"leader"} \in SUBSET Processes
      BY <1>2 DEF TaskTypeOK
    <3> QED BY <3>1 DEF LimitKill, KillGroup
  <2> QED BY <1>2, <2>1 DEF TaskTypeOK
<1>6. TaskTypeOK'
  BY <1>1, <1>2, <1>3, <1>5 DEF TaskTypeOK
<1>7. \A u \in Tasks : u # t => Untouched(u)
  BY <1>1, <1>5 DEF Untouched
<1>8. InOrder(t)'
  BY <1>1, <1>2, <1>3, <1>4 DEF InOrder, StartInOrder, EndInOrder, OutputInOrder, AnswersInOrder, Over, HasAll, Kept
<1> QED BY <1>1, <1>3, <1>6, <1>7, <1>8, OneTaskKeeps DEF EndedStaysEnded

\* annotateExecutionOutcome
LEMMA OutcomeOfTask ==
  ASSUME TaskTypeOK, NEW t \in Tasks, task[t].status \in {"exited", "killed", "failed"}
  PROVE  /\ Outcome(t) \in Outcomes
         /\ Outcome(t) \notin {"none", "running"}
         /\ Outcome(t) = "succeeded" => task[t].reason = "none" /\ task[t].status \in {"exited", "failed"} /\ task[t].code = 0
<1> DEFINE status == task[t].status
           reason == task[t].reason
           code == task[t].code
<1>1. CASE reason # "none"
  <2>1. Outcome(t) = "limit"
    BY <1>1, Zenon DEF Outcome
  <2> QED BY <2>1 DEF Outcomes
<1>2. CASE reason = "none" /\ status = "killed"
  <2>1. Outcome(t) = "stopped"
    BY <1>2, Zenon DEF Outcome
  <2> QED BY <2>1 DEF Outcomes
<1>3. CASE reason = "none" /\ status # "killed" /\ code = 0
  <2>1. Outcome(t) = "succeeded"
    BY <1>3, Zenon DEF Outcome
  <2> QED BY <1>3, <2>1 DEF Outcomes
<1>4. CASE reason = "none" /\ status # "killed" /\ code # 0
  <2>1. Outcome(t) = "error"
    BY <1>4, Zenon DEF Outcome
  <2> QED BY <2>1 DEF Outcomes
<1> QED BY <1>1, <1>2, <1>3, <1>4

\* The call that started the task is answered.
LEMMA AnswerKeeps ==
  ASSUME TaskInv, NEW t \in Tasks, AnswerTask(t)
  PROVE  TaskInv' /\ EndedStaysEnded
<1>1. UNCHANGED <<taskStep, taskTable, taskRow, task, procs, doomed, limitKill, waiter, holders, written, copier, sunk, finals,
                  opAnswer, attached, taskFaults, taskCrashes>>
  BY DEF AnswerTask, taskOutput, taskBounds
<1>2. TaskTypeOK /\ InOrder(t) /\ taskStep[t] = "up" /\ taskAnswer[t].outcome = "none"
  BY DEF TaskInv, AnswerTask
<1>3. PICK outcome \in Outcomes, whole \in BOOLEAN :
        /\ taskAnswer' = [taskAnswer EXCEPT ![t] = [outcome |-> outcome, whole |-> whole]]
        /\ \/ outcome = "running"
           \/ waiter[t] = "closed" /\ outcome \notin {"none", "running"}
        /\ outcome = "succeeded" => task[t].status \in {"exited", "failed"} /\ task[t].code = 0
  <2>1. CASE /\ waiter[t] = "closed"
             /\ taskAnswer' = [taskAnswer EXCEPT ![t] = [outcome |-> Outcome(t), whole |-> ~CutStated(t)]]
    <3>1. task[t].status \in {"exited", "killed", "failed"}
      BY <1>2, <2>1 DEF InOrder, EndInOrder
    <3> QED BY <1>2, <2>1, <3>1, OutcomeOfTask
  <2>2. CASE taskAnswer' = [taskAnswer EXCEPT ![t] = [outcome |-> "running", whole |-> FALSE]]
    BY <2>2 DEF Outcomes
  <2> QED BY <2>1, <2>2 DEF AnswerTask
<1>4. /\ taskAnswer' \in [Tasks -> [outcome : Outcomes, whole : BOOLEAN]]
      /\ taskAnswer'[t].outcome = outcome
      /\ \A u \in Tasks : u # t => taskAnswer'[u] = taskAnswer[u]
  BY <1>2, <1>3 DEF TaskTypeOK
<1>5. TaskTypeOK'
  BY <1>1, <1>2, <1>4 DEF TaskTypeOK
<1>6. \A u \in Tasks : u # t => Untouched(u)
  BY <1>1, <1>4 DEF Untouched
<1>7. outcome = "succeeded" =>
         task[t].status = "exited" /\ holders[t] = {} /\ \A s \in Streams : copier[t][s] # "broken"
  <2>1. outcome = "succeeded" => task[t].status = "exited" /\ \A s \in Streams : copier[t][s] # "broken"
    BY <1>2, <1>3 DEF InOrder, EndInOrder, OutputInOrder
  <2>2. outcome = "succeeded" => waiter[t] = "closed"
    BY <1>3
  <2>3. "stdout" \in Streams
    BY DEF Streams
  <2> QED BY <1>2, <2>1, <2>2, <2>3 DEF InOrder, OutputInOrder
<1>8. StartInOrder(t)'
  BY <1>1, <1>2, <1>3, <1>4 DEF InOrder, StartInOrder
<1>9. EndInOrder(t)' /\ OutputInOrder(t)'
  BY <1>1, <1>2 DEF InOrder, EndInOrder, OutputInOrder, Over, HasAll, Kept
<1>10. AnswersInOrder(t)'
  BY <1>1, <1>2, <1>3, <1>4, <1>7 DEF InOrder, AnswersInOrder
<1> QED BY <1>1, <1>5, <1>6, <1>8, <1>9, <1>10, OneTaskKeeps DEF EndedStaysEnded, InOrder

AttachedRecord == [at : {"none", "stdout", "stderr", "decide"}, via : Statuses,
                   read : [Streams -> Nat], verdict : Statuses \cup {"more"}]

\* The fields of a client's place in a task, two of them written.
LEMMA PlaceMoved ==
  ASSUME NEW w \in AttachedRecord, NEW a
  PROVE  [w EXCEPT !.at = a] = [at |-> a, via |-> w.via, read |-> w.read, verdict |-> w.verdict]
<1> DEFINE o == w.at
           v == w.via
           r == w.read
           d == w.verdict
<1>1. w = [at |-> o, via |-> v, read |-> r, verdict |-> d]
  BY DEF AttachedRecord
<1> HIDE DEF o, v, r, d
<1>2. [w EXCEPT !.at = a] = [at |-> a, via |-> v, read |-> r, verdict |-> d]
  BY <1>1
<1> QED BY <1>2 DEF v, r, d

LEMMA PlaceVia ==
  ASSUME NEW w \in AttachedRecord, NEW a, NEW k
  PROVE  [w EXCEPT !.at = a, !.via = k] = [at |-> a, via |-> k, read |-> w.read, verdict |-> w.verdict]
<1> DEFINE v == w.via
           r == w.read
           d == w.verdict
           first == [w EXCEPT !.at = a]
<1>1. [w EXCEPT !.at = a, !.via = k] = [first EXCEPT !.via = k]
  OBVIOUS
<1>2. first = [at |-> a, via |-> v, read |-> r, verdict |-> d]
  BY PlaceMoved
<1> HIDE DEF first, v, r, d
<1>3. [w EXCEPT !.at = a, !.via = k] = [at |-> a, via |-> k, read |-> r, verdict |-> d]
  BY <1>1, <1>2
<1> QED BY <1>3 DEF r, d

LEMMA PlaceRead ==
  ASSUME NEW w \in AttachedRecord, NEW a, NEW k
  PROVE  [w EXCEPT !.at = a, !.read = k] = [at |-> a, via |-> w.via, read |-> k, verdict |-> w.verdict]
<1> DEFINE v == w.via
           r == w.read
           d == w.verdict
           first == [w EXCEPT !.at = a]
<1>1. [w EXCEPT !.at = a, !.read = k] = [first EXCEPT !.read = k]
  OBVIOUS
<1>2. first = [at |-> a, via |-> v, read |-> r, verdict |-> d]
  BY PlaceMoved
<1> HIDE DEF first, v, r, d
<1>3. [w EXCEPT !.at = a, !.read = k] = [at |-> a, via |-> v, read |-> k, verdict |-> d]
  BY <1>1, <1>2
<1> QED BY <1>3 DEF v, d

LEMMA PlaceVerdict ==
  ASSUME NEW w \in AttachedRecord, NEW a, NEW k
  PROVE  [w EXCEPT !.at = a, !.verdict = k] = [at |-> a, via |-> w.via, read |-> w.read, verdict |-> k]
<1> DEFINE v == w.via
           r == w.read
           d == w.verdict
           first == [w EXCEPT !.at = a]
<1>1. [w EXCEPT !.at = a, !.verdict = k] = [first EXCEPT !.verdict = k]
  OBVIOUS
<1>2. first = [at |-> a, via |-> v, read |-> r, verdict |-> d]
  BY PlaceMoved
<1> HIDE DEF first, v, r, d
<1>3. [w EXCEPT !.at = a, !.verdict = k] = [at |-> a, via |-> v, read |-> r, verdict |-> k]
  BY <1>1, <1>2
<1> QED BY <1>3 DEF v, r

\* A client moves on in a task that it has been told of.
LEMMA FollowKeeps ==
  ASSUME TaskInv, NEW t \in Tasks, NEW place \in AttachedRecord, Follow(t, place),
         taskAnswer[t].outcome # "none",
         place.via \in {"exited", "failed"} => Over(t),
         place.verdict \in {"exited", "failed"} =>
           place.at = "none" /\ Over(t) /\ \A s \in Streams : place.read[s] = Kept(t, s)
  PROVE  TaskInv' /\ EndedStaysEnded
<1>1. UNCHANGED <<taskStep, taskTable, taskRow, task, procs, doomed, limitKill, waiter, holders, written, copier, sunk, finals,
                  taskAnswer, opAnswer, taskFaults, taskCrashes>>
      /\ attached' = [attached EXCEPT ![t] = place]
  BY DEF Follow, taskOutput, taskBounds
<1>2. TaskTypeOK /\ InOrder(t)
  BY DEF TaskInv
<1>3. attached' \in [Tasks -> AttachedRecord] /\ attached'[t] = place /\ \A u \in Tasks : u # t => attached'[u] = attached[u]
  BY <1>1, <1>2 DEF TaskTypeOK, AttachedRecord
<1>4. TaskTypeOK'
  BY <1>1, <1>2, <1>3 DEF TaskTypeOK, AttachedRecord
<1>5. \A u \in Tasks : u # t => Untouched(u)
  BY <1>1, <1>3 DEF Untouched
<1>6. InOrder(t)'
  BY <1>1, <1>2, <1>3 DEF InOrder, StartInOrder, EndInOrder, OutputInOrder, AnswersInOrder, Over, HasAll, Kept
<1> QED BY <1>1, <1>4, <1>5, <1>6, OneTaskKeeps DEF EndedStaysEnded

LEMMA AttachKeeps ==
  ASSUME TaskInv, NEW t \in Tasks, Attach(t) \/ AttachDecide(t) \/ \E s \in Streams : AttachRead(t, s)
  PROVE  TaskInv' /\ EndedStaysEnded
<1>1. TaskTypeOK /\ InOrder(t) /\ attached[t] \in AttachedRecord
  BY DEF TaskInv, TaskTypeOK, AttachedRecord
<1>2. attached[t].at # "none" => taskAnswer[t].outcome # "none" /\ attached[t].verdict \notin {"exited", "failed"}
  BY <1>1 DEF InOrder, StartInOrder, OutputInOrder, NotAttached
<1>3. attached[t].via \in {"exited", "failed"} => Over(t)
  BY <1>1 DEF InOrder, EndInOrder
<1>4. CASE Attach(t)
  <2> DEFINE via == IF t \in taskTable THEN "none" ELSE taskRow[t].status
             place == [at |-> "stdout", via |-> via, read |-> attached[t].read, verdict |-> attached[t].verdict]
  <2>1. via \in Statuses /\ (via \in {"exited", "failed"} => Over(t))
    BY <1>1 DEF TaskTypeOK, Statuses, InOrder, EndInOrder
  <2>2. [attached[t] EXCEPT !.at = "stdout", !.via = via] = place
    <3> HIDE DEF via
    <3> QED BY <1>1, PlaceVia
  <2>3. Follow(t, [attached[t] EXCEPT !.at = "stdout", !.via = via]) /\ taskAnswer[t].outcome # "none"
        /\ attached[t].verdict \notin {"exited", "failed"}
    BY <1>4 DEF Attach
  <2>4. place \in AttachedRecord
    BY <1>1, <2>1 DEF AttachedRecord
  <2>5. place.via = via /\ place.verdict \notin {"exited", "failed"}
    BY <2>3
  <2> HIDE DEF place
  <2>6. Follow(t, place)
    BY <2>2, <2>3
  <2> QED BY <2>1, <2>3, <2>4, <2>5, <2>6, FollowKeeps
<1>5. CASE AttachDecide(t)
  <2> DEFINE status == IF attached[t].via = "none" THEN task[t].status ELSE attached[t].via
             verdict == IF status = "running" \/ ~HasAll(t) THEN "more" ELSE status
             place == [at |-> "none", via |-> attached[t].via, read |-> attached[t].read, verdict |-> verdict]
  <2>1. status \in Statuses /\ (status \in {"exited", "failed"} => Over(t))
    BY <1>1 DEF TaskTypeOK, Statuses, InOrder, EndInOrder
  <2>2. [attached[t] EXCEPT !.at = "none", !.verdict = verdict] = place
    <3> HIDE DEF verdict
    <3> QED BY <1>1, PlaceVerdict
  <2>3. Follow(t, [attached[t] EXCEPT !.at = "none", !.verdict = verdict]) /\ taskAnswer[t].outcome # "none"
    BY <1>2, <1>5 DEF AttachDecide
  <2>4. verdict \in Statuses \cup {"more"} /\ (verdict \in {"exited", "failed"} => Over(t) /\ HasAll(t))
    BY <2>1
  <2> HIDE DEF verdict
  <2>5. place \in AttachedRecord
    BY <1>1, <2>4 DEF AttachedRecord
  <2>6. place.via = attached[t].via /\ place.verdict = verdict /\ place.at = "none" /\ place.read = attached[t].read
    OBVIOUS
  <2> HIDE DEF place
  <2>7. Follow(t, place)
    BY <2>2, <2>3
  <2>8. place.verdict \in {"exited", "failed"} =>
          place.at = "none" /\ Over(t) /\ \A s \in Streams : place.read[s] = Kept(t, s)
    BY <2>4, <2>6 DEF HasAll
  <2> QED BY <1>3, <2>3, <2>5, <2>6, <2>7, <2>8, FollowKeeps
<1>6. ASSUME NEW s \in Streams, AttachRead(t, s)
      PROVE  TaskInv' /\ EndedStaysEnded
  <2> DEFINE at == IF s = "stdout" THEN "stderr" ELSE "decide"
             read == [attached[t].read EXCEPT ![s] = ReadTo(t, s, attached[t].read[s])]
             place == [at |-> at, via |-> attached[t].via, read |-> read, verdict |-> attached[t].verdict]
  <2>1. read \in [Streams -> Nat]
    <3>1. Kept(t, s) \in Nat /\ attached[t].read \in [Streams -> Nat]
      BY <1>1, TaskConstants DEF TaskTypeOK, Kept
    <3>2. ReadTo(t, s, attached[t].read[s]) \in Nat
      BY <3>1, TaskConstants DEF ReadTo
    <3> QED BY <3>1, <3>2
  <2>2. [attached[t] EXCEPT !.at = at, !.read = read] = place
    <3> HIDE DEF at, read
    <3> QED BY <1>1, PlaceRead
  <2>3. Follow(t, [attached[t] EXCEPT !.at = at, !.read = read]) /\ attached[t].at = s
    <3> DEFINE to == ReadTo(t, s, attached[t].read[s])
    <3>1. Follow(t, [attached[t] EXCEPT !.at = at, !.read[s] = to]) /\ attached[t].at = s
      BY <1>6 DEF AttachRead
    <3> HIDE DEF at, to
    <3>2. [attached[t] EXCEPT !.at = at, !.read[s] = to] = [attached[t] EXCEPT !.at = at, !.read = [attached[t].read EXCEPT ![s] = to]]
      BY <1>1 DEF AttachedRecord
    <3> QED BY <3>1, <3>2 DEF to
  <2>4. taskAnswer[t].outcome # "none" /\ attached[t].verdict \notin {"exited", "failed"}
    BY <1>2, <2>3 DEF Streams
  <2>5. at \in {"none", "stdout", "stderr", "decide"}
    OBVIOUS
  <2> HIDE DEF at, read
  <2>6. place \in AttachedRecord
    BY <1>1, <2>1, <2>5 DEF AttachedRecord
  <2>7. place.via = attached[t].via /\ place.verdict = attached[t].verdict
    OBVIOUS
  <2> HIDE DEF place
  <2>8. Follow(t, place)
    BY <2>2, <2>3
  <2> QED BY <1>3, <2>4, <2>6, <2>7, <2>8, FollowKeeps
<1> QED BY <1>4, <1>5, <1>6

\* Running rows become interrupted, the others stay (NewPersistentTaskManager).
LEMMA RecoveredRows ==
  ASSUME TaskTypeOK, NEW t \in Tasks, taskRow' = Recovered
  PROVE  /\ taskRow'[t] \in [status : Statuses, reason : Reasons] /\ taskRow'[t].reason = taskRow[t].reason
         /\ taskRow[t].status # "running" => taskRow'[t] = taskRow[t]
         /\ taskRow[t].status = "running" => taskRow'[t].status = "interrupted"
<1> DEFINE status == taskRow[t].status
           reason == taskRow[t].reason
<1>1. taskRow[t] = [status |-> status, reason |-> reason] /\ status \in Statuses /\ reason \in Reasons
  BY DEF TaskTypeOK
<1>2. CASE status = "running"
  <2>1. taskRow'[t] = [taskRow[t] EXCEPT !.status = "interrupted"]
    BY <1>2 DEF Recovered
  <2> HIDE DEF status, reason
  <2>2. taskRow'[t] = [status |-> "interrupted", reason |-> reason]
    BY <1>1, <2>1
  <2> QED BY <1>1, <1>2, <2>2 DEF Statuses, status, reason
<1>3. CASE status # "running"
  BY <1>1, <1>3 DEF Recovered
<1> QED BY <1>2, <1>3

\* The process ends and starts again.
LEMMA RestartKeeps ==
  ASSUME TaskInv, TaskRestart
  PROVE  TaskInv' /\ EndedStaysEnded
<1> USE DEF TaskRestart
<1>1. TaskTypeOK /\ \A t \in Tasks : InOrder(t)
  BY DEF TaskInv
<1>2. ASSUME NEW t \in Tasks
      PROVE  /\ attached'[t] \in AttachedRecord /\ attached'[t].at = "none" /\ attached'[t].via = attached[t].via
             /\ attached'[t].read = attached[t].read /\ attached'[t].verdict = attached[t].verdict
             /\ attached[t] = NotAttached => attached'[t] = NotAttached
  <2>1. attached[t] \in AttachedRecord
    BY <1>1 DEF TaskTypeOK, AttachedRecord
  <2>2. attached'[t] = [attached[t] EXCEPT !.at = "none"]
    OBVIOUS
  <2>3. attached'[t] = [at |-> "none", via |-> attached[t].via, read |-> attached[t].read, verdict |-> attached[t].verdict]
    BY <2>1, <2>2, PlaceMoved
  <2>4. attached[t] = NotAttached => attached'[t] = NotAttached
    BY <2>3 DEF NotAttached
  <2> QED BY <2>1, <2>3, <2>4 DEF AttachedRecord
<1>3. doomed' \in [Tasks -> SUBSET Processes] /\ \A t \in Tasks : procs[t] = {} /\ doomed[t] = {} => doomed'[t] = {}
  BY <1>1 DEF TaskTypeOK
<1>4. TaskTypeOK'
  <2>1. taskStep' \in [Tasks -> Steps] /\ opAnswer' \in [Tasks -> OpOutcomes]
    BY <1>1 DEF TaskTypeOK, Steps, OpOutcomes
  <2>2. taskRow' \in [Tasks -> [status : Statuses, reason : Reasons]]
    BY <1>1, RecoveredRows DEF Recovered
  <2>3. attached' \in [Tasks -> AttachedRecord]
    BY <1>2
  <2>4. taskCrashes' \in 0..MaxTaskCrashes
    BY <1>1, TaskConstants DEF TaskTypeOK, TaskCrash
  <2>5. /\ waiter' \in [Tasks -> {"none", "copying", "group", "finals", "closed"}]
        /\ copier' \in [Tasks -> [Streams -> {"reading", "sending", "broken"}]]
        /\ taskTable' \subseteq Tasks /\ limitKill' \subseteq LimitedTasks
    OBVIOUS
  <2> QED BY <1>1, <1>3, <2>1, <2>2, <2>3, <2>4, <2>5 DEF TaskTypeOK, AttachedRecord
<1>5. ASSUME NEW t \in Tasks PROVE InOrder(t)'
  <2>1. InOrder(t) /\ taskFaults' = taskFaults
    BY <1>1
  <2>2. /\ taskStep'[t] \in {"idle", "refused", "lost"} /\ waiter'[t] = "none" /\ t \notin taskTable' /\ t \notin limitKill'
        /\ taskStep[t] \in {"idle", "refused"} => taskStep'[t] = taskStep[t]
        /\ taskStep[t] \notin {"idle", "refused"} => taskStep'[t] = "lost"
        /\ \A s \in Streams : copier'[t][s] = "reading"
    OBVIOUS
  <2>3. /\ task'[t] = task[t] /\ procs'[t] = procs[t] /\ holders'[t] = holders[t] /\ written'[t] = written[t] /\ sunk'[t] = sunk[t]
        /\ finals'[t] = finals[t] /\ taskAnswer'[t] = taskAnswer[t]
    OBVIOUS
  <2>4. /\ opAnswer'[t] \notin {"waiting", "stopping"} /\ (opAnswer'[t] = "cancelled" => opAnswer[t] = "cancelled")
        /\ opAnswer[t] = "none" => opAnswer'[t] = "none"
    OBVIOUS
  <2>5. Over(t) => taskStep'[t] = "lost"
    BY <2>2 DEF Over
  <2> HIDE DEF TaskRestart
  <2>6. taskRow'[t].status \in {"exited", "killed", "failed"} => taskRow[t].status \in {"exited", "killed", "failed"}
    <3>1. taskRow' = Recovered
      BY DEF TaskRestart
    <3> QED BY <1>1, <3>1, RecoveredRows
  <2>7. StartInOrder(t)'
    BY <1>2, <1>3, <2>1, <2>2, <2>3, <2>4 DEF InOrder, StartInOrder
  <2>8. EndInOrder(t)'
    BY <1>2, <2>1, <2>2, <2>3, <2>5, <2>6 DEF InOrder, EndInOrder, Over
  <2>9. OutputInOrder(t)'
    <3>1. \A s \in Streams : Kept(t, s)' = Kept(t, s)
      BY <2>3 DEF Kept
    <3>2. attached'[t].verdict \in {"exited", "failed"} => attached'[t].at = "none" /\ HasAll(t)' /\ Over(t)'
      BY <1>2, <2>1, <2>5, <3>1 DEF InOrder, OutputInOrder, HasAll, Over
    <3>3. taskStep'[t] # "lost" => \A s \in Streams : written[t][s] = sunk[t][s] + (IF copier[t][s] = "sending" THEN 1 ELSE 0)
      BY <2>1, <2>2 DEF InOrder, OutputInOrder
    <3>4. taskStep'[t] # "lost" => \A s \in Streams : copier[t][s] # "sending"
      BY <2>1, <2>2 DEF InOrder, StartInOrder
    <3> QED BY <2>1, <2>2, <2>3, <3>2, <3>3, <3>4 DEF InOrder, OutputInOrder
  <2>10. AnswersInOrder(t)'
    BY <2>1, <2>2, <2>3, <2>4 DEF InOrder, AnswersInOrder
  <2> QED BY <2>7, <2>8, <2>9, <2>10 DEF InOrder
<1>6. EndedStaysEnded
  BY <1>1, RecoveredRows DEF EndedStaysEnded
<1> QED BY <1>4, <1>5, <1>6 DEF TaskInv

\* Another process starts on the same database.
LEMMA OtherStartKeeps ==
  ASSUME TaskInv, OtherStart
  PROVE  TaskInv' /\ EndedStaysEnded
<1>1. UNCHANGED <<taskStep, taskTable, task, procs, doomed, limitKill, waiter, holders, written, copier, sunk, finals,
                  taskAnswer, opAnswer, attached, taskFaults>>
      /\ taskRow' = Recovered /\ TaskCrash
  BY DEF OtherStart, taskOutput, taskAnswers
<1>2. TaskTypeOK /\ \A t \in Tasks : InOrder(t)
  BY DEF TaskInv
<1>3. taskRow' \in [Tasks -> [status : Statuses, reason : Reasons]]
  BY <1>1, <1>2, RecoveredRows DEF Recovered
<1>4. TaskTypeOK'
  BY <1>1, <1>2, <1>3, TaskConstants DEF TaskTypeOK, TaskCrash
<1>5. ASSUME NEW t \in Tasks PROVE InOrder(t)'
  <2>1. /\ taskRow[t].status # "running" => taskRow'[t] = taskRow[t]
        /\ taskRow[t].status = "running" => taskRow'[t].status = "interrupted"
    BY <1>1, <1>2, RecoveredRows
  <2>2. EndInOrder(t)'
    BY <1>1, <1>2, <2>1 DEF InOrder, EndInOrder, Over
  <2> QED BY <1>1, <1>2, <2>2 DEF InOrder, StartInOrder, OutputInOrder, AnswersInOrder, Over, HasAll, Kept
<1>6. EndedStaysEnded
  BY <1>1, <1>2, RecoveredRows DEF EndedStaysEnded
<1> QED BY <1>4, <1>5, <1>6 DEF TaskInv

LEMMA TaskStep ==
  ASSUME TaskInv, [TaskNext]_taskVars
  PROVE  TaskInv' /\ EndedStaysEnded
<1>1. ASSUME NEW t \in Tasks, TaskStarting(t)
      PROVE  TaskInv' /\ EndedStaysEnded
  BY <1>1, AdmitKeeps, LaunchKeeps, PersistKeeps, StartEndsKeeps DEF TaskStarting
<1>2. ASSUME NEW t \in Tasks, TaskEnding(t)
      PROVE  TaskInv' /\ EndedStaysEnded
  BY <1>2, WaitLeaderKeeps, FinishKeeps, EmitFinalKeeps, LimitKillKeeps, ChunkKeeps DEF TaskEnding
<1>3. ASSUME NEW t \in Tasks, TaskFollowing(t)
      PROVE  TaskInv' /\ EndedStaysEnded
  BY <1>3, AnswerKeeps, AttachKeeps, OpWaitKeeps DEF TaskFollowing, AnswerCommand, AnswerRuntime
<1>4. ASSUME NEW t \in Tasks,
             \/ FinishUnverified(t) \/ Stop(t) \/ Fork(t) \/ LeaveGroup(t) \/ OutsiderEnds(t)
             \/ \E p \in Processes : ProcessDies(t, p)
             \/ \E s \in Streams : WriteChunk(t, s)
             \/ \E reason \in Reasons \ {"none"} : Limit(t, reason)
      PROVE  TaskInv' /\ EndedStaysEnded
  BY <1>4, FinishKeeps, StopKeeps, GroupKeeps, ChunkKeeps, LimitKeeps
<1>5. ASSUME UNCHANGED taskVars
      PROVE  TaskInv' /\ EndedStaysEnded
  <2>1. UNCHANGED <<taskStep, taskTable, taskRow, task, procs, doomed, limitKill, waiter, holders, written, copier, sunk, finals,
                    taskAnswer, opAnswer, attached, taskFaults, taskCrashes>>
    BY <1>5 DEF taskVars, taskOutput, taskAnswers, taskBounds
  <2>2. TaskTypeOK'
    BY <2>1 DEF TaskInv, TaskTypeOK
  <2>3. \A t \in Tasks : Untouched(t)
    BY <2>1 DEF Untouched
  <2>4. \A t \in Tasks : InOrder(t)'
    BY <2>1, <2>3, UntouchedInOrder
  <2> QED BY <2>1, <2>2, <2>4 DEF TaskInv, EndedStaysEnded
<1> QED BY <1>1, <1>2, <1>3, <1>4, <1>5, RestartKeeps, OtherStartKeeps DEF TaskNext

\* The invariant has what the runs check of a task: its ends ...
LEMMA EndsAreTold == TaskInv => TaskOutcomes
<1> SUFFICES ASSUME TaskInv PROVE TaskOutcomes
  OBVIOUS
<1>1. \A t \in Tasks : InOrder(t)
  BY DEF TaskInv
<1>2. SuccessIsQuiet
  BY <1>1 DEF SuccessIsQuiet, InOrder, EndInOrder, AnswersInOrder
<1>3. FirstEndCounts
  <2> SUFFICES ASSUME NEW t \in Tasks
               PROVE  /\ task[t].reason # "none" => task[t].status \in {"killed", "failed"}
                      /\ waiter[t] = "closed" /\ taskFaults = 0 =>
                           taskRow[t] = [status |-> task[t].status, reason |-> task[t].reason]
                      /\ waiter[t] = "closed" /\ task[t].status = "exited" => doomed[t] = {}
    BY DEF FirstEndCounts
  <2>1. EndInOrder(t) /\ StartInOrder(t) /\ TaskTypeOK
    BY <1>1 DEF InOrder, TaskInv
  <2>2. taskRow[t] = [status |-> taskRow[t].status, reason |-> taskRow[t].reason]
    <3> DEFINE status == taskRow[t].status
               reason == taskRow[t].reason
    <3>1. taskRow[t] = [status |-> status, reason |-> reason]
      BY <2>1 DEF TaskTypeOK
    <3> QED BY <3>1
  <2>3. waiter[t] = "closed" => taskStep[t] = "up"
    BY <2>1 DEF StartInOrder, TaskTypeOK
  <2>4. waiter[t] = "closed" /\ taskFaults = 0 =>
           taskRow[t] = [status |-> task[t].status, reason |-> task[t].reason]
    BY <2>1, <2>2 DEF EndInOrder
  <2> QED BY <2>1, <2>3, <2>4 DEF EndInOrder
<1>4. CancelledIsQuiet
  BY <1>1 DEF CancelledIsQuiet, InOrder, AnswersInOrder
<1>5. ForgottenIsStopped
  BY <1>1 DEF ForgottenIsStopped, InOrder, EndInOrder
<1> QED BY <1>2, <1>3, <1>4, <1>5 DEF TaskOutcomes

\* ... and its output.
LEMMA OutputIsThere == TaskInv => OutputComplete
<1> SUFFICES ASSUME TaskInv, NEW t \in Tasks
             PROVE  /\ finals[t] # {} => \A s \in Streams : sunk[t][s] = written[t][s] /\ copier[t][s] # "sending"
                    /\ attached[t].verdict \in {"exited", "failed"} => HasAll(t)
  BY DEF OutputComplete
<1>1. StartInOrder(t) /\ OutputInOrder(t)
  BY DEF TaskInv, InOrder
<1>2. finals[t] # {} => taskStep[t] \in {"up", "lost"}
  BY <1>1 DEF StartInOrder
<1> QED BY <1>1, <1>2 DEF StartInOrder, OutputInOrder

\* Tasks are kept in order by every step, of any number of tasks, chunks,
\* failing calls and restarts: the invariant of the theorems below.
THEOREM TasksInOrder == TaskSpec => []TaskInv
<1>1. TaskInit => TaskInv
  BY TasksStart DEF TaskInit
<1>2. TaskInv /\ [TaskNext]_taskVars => TaskInv'
  BY TaskStep
<1> QED BY <1>1, <1>2, PTL DEF TaskSpec

LEMMA TasksInOrderEnd == []TaskInv /\ [][TaskNext]_taskVars => TasksEndOnce
<1>1. TaskInv /\ [TaskNext]_taskVars => [EndedStaysEnded]_taskVars
  BY TaskStep
<1>2. TaskInv => TaskOutcomes
  BY EndsAreTold
<1> QED BY <1>1, <1>2, PTL DEF TasksEndOnce

\* A task ends once and for one reason, what is said of its end is true, and no
\* row of an ended task is written again (Task.Kill, terminateForLimit,
\* finishLocked, waitForOperationTask).
THEOREM TasksEnd == TaskSpec => TasksEndOnce
BY TasksInOrder, TasksInOrderEnd, PTL DEF TaskSpec

\* The observer has all of the output when it gets the final chunks, and so has a
\* client that is told there is no more (emitOutputFinal, taskResultData).
THEOREM OutputArrives == TaskSpec => []OutputComplete
BY TasksInOrder, OutputIsThere, PTL

-----------------------------------------------------------------------------
\* All that runs in a session, side by side (MCRuntime)

\* A behaviour that is explored is one of the sessions, the identity of a run, its
\* tasks, the observers and the housekeeping.
LEMMA RuntimeIsParts ==
  RuntimeSpec => /\ SessionSpec /\ RunSpec /\ ObsSpec /\ RetentionSpec
                 /\ []TaskInv /\ [][TaskNext]_taskVars /\ [](subject \in Subjects)
<1>1. RuntimeInit => SessionInit /\ RunInit /\ ObsInit /\ RetentionInit /\ subject \in Subjects
  BY DEF RuntimeInit
<1>2. RuntimeInit => TaskInv
  BY TasksStart DEF RuntimeInit
<1>3. [RuntimeNext]_RuntimeVars => [SessionNext]_sessionVars
  BY DEF RuntimeNext, RuntimeVars
<1>4. [RuntimeNext]_RuntimeVars => [RunNext]_runVars
  BY DEF RuntimeNext, RuntimeVars
<1>5. [RuntimeNext]_RuntimeVars => [TaskNext]_taskVars
  BY DEF RuntimeNext, RuntimeVars
<1>6. [RuntimeNext]_RuntimeVars => [ObsNext]_obsVars
  BY DEF RuntimeNext, RuntimeVars
<1>7. [RuntimeNext]_RuntimeVars => [RetentionNext]_retentionVars
  BY DEF RuntimeNext, RuntimeVars
<1>8. subject \in Subjects /\ [RuntimeNext]_RuntimeVars => (subject \in Subjects)'
  BY DEF RuntimeNext, RuntimeVars
<1>9. TaskInv /\ [TaskNext]_taskVars => TaskInv'
  BY TaskStep
<1> QED
  BY <1>1, <1>2, <1>3, <1>4, <1>5, <1>6, <1>7, <1>8, <1>9, PTL DEF RuntimeSpec, SessionSpec, RunSpec, ObsSpec, RetentionSpec

\* Type correctness of sessions, runs, tasks, observers and housekeeping, whichever of
\* them a behaviour is about.
THEOREM RuntimeTypes == RuntimeSpec => []RuntimeTypeOK
<1>1. SessionInv => SessionTypeOK
  BY DEF SessionInv
<1>2. RunInv => RunTypeOK
  BY DEF RunInv
<1>3. TaskInv => TaskTypeOK
  BY DEF TaskInv
<1>4. HousekeepingInv => RetentionTypeOK
  BY DEF HousekeepingInv
<1>5. subject \in Subjects /\ SessionTypeOK /\ RunTypeOK /\ TaskTypeOK /\ ObsTypeOK /\ RetentionTypeOK => RuntimeTypeOK
  BY DEF Subjects, RuntimeTypeOK
<1> QED
  BY <1>1, <1>2, <1>3, <1>4, <1>5, RuntimeIsParts, SessionsInductive, RunHeld, ObservationTypes, CandidatesAreOver, PTL

\* What is promised of sessions and of what runs in them holds in every behaviour that
\* is explored: sessions are kept, a run keeps its identity, tasks end once and with all
\* of their output, observers are served, and housekeeping takes nothing alive.
THEOREM RuntimeHolds ==
  RuntimeSpec => /\ SessionsKept /\ RunIdentityKept /\ TasksEndOnce /\ KeepsWhatIsAlive
                 /\ [](OutputComplete /\ ObserverServed)
BY RuntimeIsParts, SessionsAreKept, IdentityKept, TasksInOrderEnd, AliveKept, OutputIsThere, ObserversAreServed, PTL
=============================================================================
