---------------------------- MODULE ApprovalProofs ----------------------------
(***************************************************************************)
(* Proofs about Approval and its composition with the record of a key      *)
(* (ConfirmedExecute), for any set of calls and processes, any number of   *)
(* elapsed TTLs, crashes and failing statements.                           *)
(*                                                                         *)
(* Reserved is inductive together with the types.  What is executed needs  *)
(* one more fact, Backed: the approval a call found exists and is of its   *)
(* command, while the call has stored none of its own.  OneLiveApproval is *)
(* inductive by itself: INSERT OR REPLACE is the only step that makes a    *)
(* row pending, and it removes the others of its command.                  *)
(*                                                                         *)
(* What is shown can be confirmed (ShownInv) because the cache of a        *)
(* process has what its calls have stored, and a call stores only what it  *)
(* did not find there.                                                     *)
(*                                                                         *)
(* The last parts are about ConfirmedExecute.  That a late retry is        *)
(* answered from the record rests on where it can be: it reads, and only a *)
(* missing row or an elapsed lease would make a reader an owner.  What     *)
(* holds of approvals holds beside the records too: a step of the          *)
(* composition is one of Approval, or a look that replaces no approval.    *)
(*                                                                         *)
(* Another thing shown first and carried out later is a definition         *)
(* (Extensions): ExtInv says how far a call is, which process or files its *)
(* preflight looked at, and whose the row of a key is.                     *)
(***************************************************************************)
EXTENDS ConfirmedExecute, Extensions, WellFoundedInduction, TLAPS

Backed ==
  /\ \A r \in Reqs : pc[r] # "done" => row[r] = "none"
  /\ \A r \in Reqs : pc[r] \in {"consume", "run"} =>
       r \in Confirmed /\ row[found[r]] # "none" /\ Command[found[r]] = Command[r]

\* A call that has not returned has no answer.
Unanswered == \A r \in Reqs : pc[r] # "done" => answer[r] = None

-----------------------------------------------------------------------------
\* A call is served by a process.
LEMMA HomeType == \A r \in Reqs : Home[r] \in Procs
BY ConstantsAssumption

\* The types hold initially and are kept by every step.
LEMMA TypeInit == Init => TypeOK
BY ConstantsAssumption DEF Init, TypeOK, RowStates, PC, Answers

LEMMA TypeStep == ASSUME TypeOK, [Next]_vars PROVE TypeOK'
<1> USE DEF TypeOK
<1>1. ASSUME NEW r \in Reqs, Find(r) PROVE TypeOK'
  <2>1. row' \in [Reqs -> RowStates]
    BY <1>1 DEF Find, PrunedRow, RowStates
  <2>2. pc' \in [Reqs -> PC]
    BY <1>1 DEF Find, Goto, Answer, PC
  <2>3. found' \in [Reqs -> Reqs \cup {None}]
    BY <1>1 DEF Find, Answer, Live
  <2>4. answer' \in [Reqs -> Answers \cup {None}]
    BY <1>1 DEF Find, Answer, Answers
  <2>5. \A q \in Reqs : pc'[q] \in {"consume", "run"} => found'[q] \in Reqs
    BY <1>1 DEF Find, Goto, Answer, Live, PC
  <2>6. cache' \in [Procs -> SUBSET Reqs]
    BY <1>1 DEF Find, PrunedCache
  <2> QED BY <1>1, <2>1, <2>2, <2>3, <2>4, <2>5, <2>6 DEF Find, bounds
<1>2. ASSUME NEW r \in Reqs, FindNothing(r) PROVE TypeOK'
  BY <1>2 DEF FindNothing, Fault, Goto, PC
<1>3. ASSUME NEW r \in Reqs, Dedupe(r) PROVE TypeOK'
  <2>1. row' \in [Reqs -> RowStates]
    BY <1>3 DEF Dedupe, PrunedRow, RowStates
  <2>2. pc' \in [Reqs -> PC]
    BY <1>3 DEF Dedupe, Goto, Answer, PC
  <2>3. found' \in [Reqs -> Reqs \cup {None}]
    BY <1>3, HomeType DEF Dedupe, Answer, Live, PrunedCache
  <2>4. answer' \in [Reqs -> Answers \cup {None}]
    BY <1>3 DEF Dedupe, Answer, Answers
  <2>5. \A q \in Reqs : pc'[q] \in {"consume", "run"} => found'[q] \in Reqs
    BY <1>3 DEF Dedupe, Goto, Answer, PC
  <2>6. cache' \in [Procs -> SUBSET Reqs] /\ owns' \in [Procs -> Reqs \cup {None}]
    BY <1>3 DEF Dedupe, PrunedCache
  <2> QED BY <1>3, <2>1, <2>2, <2>3, <2>4, <2>5, <2>6 DEF Dedupe, bounds
<1>4. ASSUME NEW r \in Reqs, DedupeNothing(r) PROVE TypeOK'
  <2>1. cache' \in [Procs -> SUBSET Reqs]
    BY <1>4 DEF DedupeNothing, PrunedCache
  <2> QED BY <1>4, <2>1 DEF DedupeNothing, Fault, Goto, PC
<1>5. ASSUME NEW r \in Reqs, Insert(r) PROVE TypeOK'
  <2>1. row' \in [Reqs -> RowStates]
    BY <1>5 DEF Insert, Inserted, RowStates
  <2>2. pc' \in [Reqs -> PC] /\ found' \in [Reqs -> Reqs \cup {None}]
    BY <1>5 DEF Insert, Answer, Goto, PC
  <2>3. answer' \in [Reqs -> Answers \cup {None}]
    BY <1>5 DEF Insert, Answer, Answers
  <2>4. \A q \in Reqs : pc'[q] \in {"consume", "run"} => found'[q] \in Reqs
    BY <1>5 DEF Insert, Goto, Answer, PC
  <2>5. cache' \in [Procs -> SUBSET Reqs]
    <3>1. cache' = cache \/ cache' = [cache EXCEPT ![Home[r]] = @ \cup {r}]
      BY <1>5 DEF Insert
    <3>2. cache[Home[r]] \cup {r} \in SUBSET Reqs
      BY HomeType
    <3> QED BY <3>1, <3>2
  <2>6. owns' \in [Procs -> Reqs \cup {None}]
    BY <1>5 DEF Insert
  <2>7. old' = old /\ used' = used /\ crashes' = crashes /\ faults' \in Nat
    BY <1>5 DEF Insert, Fault
  <2> QED BY <2>1, <2>2, <2>3, <2>4, <2>5, <2>6, <2>7
<1>6. ASSUME NEW r \in Reqs, Consume(r) PROVE TypeOK'
  <2>1. row' \in [Reqs -> RowStates]
    BY <1>6, ZenonT(40) DEF Consume, PrunedRow, RowStates
  <2>2. pc' \in [Reqs -> PC]
    BY <1>6 DEF Consume, Answer, Goto, PC
  <2>3. found' \in [Reqs -> Reqs \cup {None}]
    BY <1>6 DEF Consume, Answer
  <2>4. answer' \in [Reqs -> Answers \cup {None}]
    BY <1>6 DEF Consume, Answer, Answers
  <2>5. \A q \in Reqs : pc'[q] \in {"consume", "run"} => found'[q] \in Reqs
    BY <1>6 DEF Consume, Goto, Answer, PC
  <2>6. cache' \in [Procs -> SUBSET Reqs]
    BY <1>6 DEF Consume, PrunedCache
  <2> QED BY <1>6, <2>1, <2>2, <2>3, <2>4, <2>5, <2>6 DEF Consume, Fault
<1>7. ASSUME NEW r \in Reqs, Run(r) PROVE TypeOK'
  <2>1. pc' \in [Reqs -> PC] /\ found' \in [Reqs -> Reqs \cup {None}]
    BY <1>7 DEF Run, Answer, Goto, PC
  <2>2. answer' \in [Reqs -> Answers \cup {None}] /\ used' \in [Reqs -> Nat]
    BY <1>7 DEF Run, Answer, Answers
  <2>3. \A q \in Reqs : pc'[q] \in {"consume", "run"} => found'[q] \in Reqs
    BY <1>7 DEF Run, Goto, Answer, PC
  <2> QED BY <1>7, <2>1, <2>2, <2>3 DEF Run, bounds
<1>8. ASSUME NEW r \in Reqs, Age(r) PROVE TypeOK'
  BY <1>8 DEF Age, calls, bounds
<1>9. ASSUME NEW r \in Reqs, DeleteExpired(r) PROVE TypeOK'
  BY <1>9 DEF DeleteExpired, calls, bounds, RowStates
<1>10. ASSUME NEW p \in Procs, Crash(p) PROVE TypeOK'
  BY <1>10 DEF Crash, PC, Answers
<1>11. CASE UNCHANGED vars
  BY <1>11 DEF vars, calls, bounds
<1> QED BY <1>1, <1>2, <1>3, <1>4, <1>5, <1>6, <1>7, <1>8, <1>9, <1>10, <1>11
        DEF Next, CallStep

\* The approval store starts and stays well typed.
THEOREM TypeCorrect == Spec => []TypeOK
BY TypeInit, TypeStep, PTL DEF Spec

-----------------------------------------------------------------------------
\* What becomes of the rows.

\* A row is written by its own INSERT; "pending" is left for a state that no
\* later step turns back.
LEMMA RowMoves ==
  ASSUME TypeOK, Backed, [Next]_vars
  PROVE  \A a \in Reqs :
           \/ row'[a] = row[a]
           \/ row[a] = "none" /\ row'[a] = "pending"
           \/ row[a] = "pending" /\ row'[a] \in {"consumed", "expired", "deleted"}
           \/ row'[a] = "deleted" /\ row[a] # "none"
<1> USE DEF TypeOK
<1> TAKE a \in Reqs
<1>1. ASSUME NEW r \in Reqs, Find(r) \/ Dedupe(r)
      PROVE  row'[a] = row[a] \/ (row[a] = "pending" /\ row'[a] = "expired")
  BY <1>1 DEF Find, Dedupe, PrunedRow
<1>2. ASSUME NEW r \in Reqs, Insert(r)
      PROVE  \/ row'[a] = row[a]
             \/ row[a] = "pending" /\ row'[a] = "deleted"
             \/ row[a] = "none" /\ row'[a] = "pending"
  BY <1>2 DEF Insert, Inserted, Backed
<1>3. ASSUME NEW r \in Reqs, Consume(r)
      PROVE  \/ row'[a] = row[a]
             \/ row[a] = "pending" /\ row'[a] \in {"expired", "consumed"}
  BY <1>3 DEF Consume, PrunedRow
<1>4. ASSUME NEW r \in Reqs, DeleteExpired(r)
      PROVE  row'[a] = row[a] \/ (row'[a] = "deleted" /\ row[a] # "none")
  BY <1>4 DEF DeleteExpired
<1>5. ASSUME NEW r \in Reqs, FindNothing(r) \/ DedupeNothing(r) \/ Run(r) \/ Age(r)
      PROVE  row' = row
  BY <1>5 DEF FindNothing, DedupeNothing, Run, Age
<1>6. ASSUME NEW p \in Procs, Crash(p) PROVE row' = row
  BY <1>6 DEF Crash
<1>7. CASE Next
  BY <1>1, <1>2, <1>3, <1>4, <1>5, <1>6, <1>7 DEF Next, CallStep
<1>8. CASE UNCHANGED vars
  BY <1>8 DEF vars
<1> QED BY <1>7, <1>8

\* Only the INSERT of a call that thereby returns writes its row first.
LEMMA FirstWrite ==
  ASSUME TypeOK, Backed, [Next]_vars, NEW a \in Reqs, row[a] = "none", row'[a] # "none"
  PROVE  pc'[a] = "done"
<1> USE DEF TypeOK
<1>1. ASSUME NEW r \in Reqs, Insert(r) PROVE pc'[a] = "done"
  BY <1>1 DEF Insert, Inserted, Answer, Goto
<1>2. ASSUME NEW r \in Reqs, Find(r) \/ Dedupe(r) PROVE FALSE
  BY <1>2 DEF Find, Dedupe, PrunedRow
<1>3. ASSUME NEW r \in Reqs, Consume(r) PROVE FALSE
  BY <1>3 DEF Consume, PrunedRow
<1>4. ASSUME NEW r \in Reqs, DeleteExpired(r) PROVE FALSE
  BY <1>4 DEF DeleteExpired
<1>5. ASSUME NEW r \in Reqs, FindNothing(r) \/ DedupeNothing(r) \/ Run(r) \/ Age(r)
      PROVE  FALSE
  BY <1>5 DEF FindNothing, DedupeNothing, Run, Age
<1>6. ASSUME NEW p \in Procs, Crash(p) PROVE FALSE
  BY <1>6 DEF Crash
<1>7. CASE Next
  BY <1>1, <1>2, <1>3, <1>4, <1>5, <1>6, <1>7 DEF Next, CallStep
<1>8. CASE UNCHANGED vars
  BY <1>8 DEF vars
<1> QED BY <1>7, <1>8

\* A row becomes pending by an INSERT.
LEMMA WriteIsInsert ==
  ASSUME TypeOK, [Next]_vars, NEW a \in Reqs, row[a] # "pending", row'[a] = "pending"
  PROVE  \E r \in Reqs : Insert(r)
<1> USE DEF TypeOK
<1>1. ASSUME NEW r \in Reqs, Find(r) \/ Dedupe(r) PROVE FALSE
  BY <1>1 DEF Find, Dedupe, PrunedRow
<1>2. ASSUME NEW r \in Reqs, Consume(r) PROVE FALSE
  BY <1>2 DEF Consume, PrunedRow
<1>3. ASSUME NEW r \in Reqs, DeleteExpired(r) PROVE FALSE
  BY <1>3 DEF DeleteExpired
<1>4. ASSUME NEW r \in Reqs, FindNothing(r) \/ DedupeNothing(r) \/ Run(r) \/ Age(r)
      PROVE  FALSE
  BY <1>4 DEF FindNothing, DedupeNothing, Run, Age
<1>5. ASSUME NEW p \in Procs, Crash(p) PROVE FALSE
  BY <1>5 DEF Crash
<1>6. CASE UNCHANGED vars
  BY <1>6 DEF vars
<1> QED BY <1>1, <1>2, <1>3, <1>4, <1>5, <1>6 DEF Next, CallStep

\* What a step makes of one call: it returns for good, and it starts to consume
\* or to run only as Find and Consume let it.
LEMMA CallMoves ==
  ASSUME TypeOK, [Next]_vars, NEW q \in Reqs
  PROVE  /\ pc[q] = "done" => pc'[q] = "done"
         /\ pc'[q] = "consume" =>
              \/ pc[q] = "consume" /\ found'[q] = found[q]
              \/ q \in Confirmed /\ found'[q] \in Live(q)
         /\ pc'[q] = "run" =>
              \/ pc[q] = "run" /\ found'[q] = found[q]
              \/ pc[q] = "consume" /\ found'[q] = found[q] /\ Consume(q)
<1> USE DEF TypeOK
<1>1. ASSUME NEW r \in Reqs, Find(r)
      PROVE  /\ pc[r] = "idle" /\ pc'[r] \in {"put", "consume", "done"}
             /\ pc'[r] = "consume" => r \in Confirmed /\ found'[r] \in Live(r)
             /\ \A x \in Reqs \ {r} : pc'[x] = pc[x] /\ found'[x] = found[x]
  BY <1>1 DEF Find, Goto, Answer
<1>2. ASSUME NEW r \in Reqs, FindNothing(r) \/ Dedupe(r) \/ DedupeNothing(r) \/ Insert(r)
      PROVE  /\ pc[r] # "done" /\ pc'[r] \in {"put", "insert", "done"}
             /\ \A x \in Reqs \ {r} : pc'[x] = pc[x] /\ found'[x] = found[x]
  BY <1>2 DEF FindNothing, Dedupe, DedupeNothing, Insert, Goto, Answer
<1>3. ASSUME NEW r \in Reqs, Consume(r)
      PROVE  /\ pc[r] = "consume" /\ pc'[r] \in {"run", "done"}
             /\ pc'[r] = "run" => found'[r] = found[r]
             /\ \A x \in Reqs \ {r} : pc'[x] = pc[x] /\ found'[x] = found[x]
  BY <1>3 DEF Consume, Goto, Answer
<1>4. ASSUME NEW r \in Reqs, Run(r)
      PROVE  /\ pc[r] = "run" /\ pc'[r] = "done"
             /\ \A x \in Reqs \ {r} : pc'[x] = pc[x] /\ found'[x] = found[x]
  BY <1>4 DEF Run, Goto, Answer
<1>5. ASSUME NEW r \in Reqs, Age(r) \/ DeleteExpired(r)
      PROVE  pc' = pc /\ found' = found
  BY <1>5 DEF Age, DeleteExpired, calls
<1>6. ASSUME NEW p \in Procs, Crash(p)
      PROVE  (pc'[q] = pc[q] \/ pc'[q] = "done") /\ found' = found
  BY <1>6 DEF Crash
<1>7. ASSUME UNCHANGED vars PROVE pc' = pc /\ found' = found
  BY <1>7 DEF vars, calls
<1>8. CASE \E r \in Reqs : CallStep(r)
  <2> PICK r \in Reqs : CallStep(r)
    BY <1>8
  <2>1. CASE r = q
    BY <1>1, <1>2, <1>3, <1>4, <2>1 DEF CallStep
  <2>2. CASE r # q
    BY <1>1, <1>2, <1>3, <1>4, <2>2 DEF CallStep
  <2> QED BY <2>1, <2>2
<1>9. CASE ~(\E r \in Reqs : CallStep(r))
  BY <1>5, <1>6, <1>7, <1>9 DEF Next
<1> QED BY <1>8, <1>9

\* Executions are counted by Run alone.
LEMMA UsedMoves ==
  ASSUME [Next]_vars
  PROVE  used' = used \/ \E r \in Reqs : Run(r)
<1>1. ASSUME NEW r \in Reqs, Find(r) \/ FindNothing(r) \/ Dedupe(r) \/ DedupeNothing(r)
                             \/ Insert(r) \/ Consume(r) \/ Age(r) \/ DeleteExpired(r)
      PROVE  used' = used
  BY <1>1 DEF Find, FindNothing, Dedupe, DedupeNothing, Insert, Consume, Age, DeleteExpired
<1>2. ASSUME NEW p \in Procs, Crash(p) PROVE used' = used
  BY <1>2 DEF Crash
<1>3. ASSUME UNCHANGED vars PROVE used' = used
  BY <1>3 DEF vars
<1> QED BY <1>1, <1>2, <1>3 DEF Next, CallStep

\* A call is let run by an approval that was pending and is consumed thereby;
\* no other call moves.
LEMMA ConsumeReserves ==
  ASSUME TypeOK, NEW q \in Reqs, Consume(q), pc'[q] = "run"
  PROVE  /\ pc[q] = "consume" /\ found'[q] = found[q]
         /\ row[found[q]] = "pending" /\ row'[found[q]] = "consumed"
         /\ \A x \in Reqs \ {q} : pc'[x] = pc[x] /\ found'[x] = found[x]
         /\ used' = used
BY DEF TypeOK, Consume, Goto, Answer, PrunedRow

-----------------------------------------------------------------------------
\* The inductive invariant.

IInv == TypeOK /\ Backed /\ Reserved

LEMMA InitHolds == Init => IInv
BY TypeInit DEF Init, IInv, Backed, Reserved

\* A row once written is never unwritten, and a call finds live approvals only.
LEMMA BackedStep == ASSUME TypeOK, Backed, [Next]_vars PROVE Backed'
<1> USE DEF TypeOK
<1>1. ASSUME NEW r \in Reqs, pc'[r] # "done" PROVE row'[r] = "none"
  <2>1. pc[r] # "done"
    BY <1>1, CallMoves
  <2>2. row[r] = "none"
    BY <2>1 DEF Backed
  <2> QED BY <1>1, <2>2, FirstWrite
<1>2. ASSUME NEW r \in Reqs, pc'[r] \in {"consume", "run"}
      PROVE  r \in Confirmed /\ row'[found'[r]] # "none" /\ Command[found'[r]] = Command[r]
  <2>1. CASE found'[r] = found[r] /\ pc[r] \in {"consume", "run"}
    BY <2>1, RowMoves DEF Backed
  <2>2. CASE r \in Confirmed /\ found'[r] \in Live(r)
    BY <2>2, RowMoves DEF Live
  <2> QED BY <1>2, <2>1, <2>2, CallMoves
<1> QED BY <1>1, <1>2 DEF Backed

\* Consumed rows stay consumed, and a call is let run by a row that was pending.
LEMMA ReservedStep == ASSUME IInv, [Next]_vars PROVE Reserved'
<1> USE DEF IInv, TypeOK
<1>1. \A a \in Reqs : row'[a] \in {"none", "pending"} => row[a] \in {"none", "pending"}
  BY RowMoves
<1>2. \A a \in Reqs : row[a] \in {"consumed", "deleted"} => row'[a] \in {"consumed", "deleted"}
  BY RowMoves
<1>3. ASSUME NEW r \in Reqs, Run(r) PROVE Reserved'
  <2>1. /\ row' = row /\ used' = [used EXCEPT ![found[r]] = @ + 1]
        /\ pc[r] = "run" /\ pc' = [pc EXCEPT ![r] = "done"]
        /\ \A q \in Reqs : found'[q] = found[q]
    BY <1>3 DEF Run, Answer, Goto
  <2>2. used[found[r]] = 0 /\ row[found[r]] \in {"consumed", "deleted"}
    BY <2>1 DEF Reserved
  <2>3. \A q \in Reqs : q # r /\ pc[q] = "run" => found[q] # found[r]
    BY <2>1 DEF Reserved
  <2> QED BY <2>1, <2>2, <2>3 DEF Reserved
<1>4. ASSUME used' = used, NEW q \in Reqs, Consume(q), pc'[q] = "run" PROVE Reserved'
  <2>1. /\ pc[q] = "consume" /\ found'[q] = found[q]
        /\ row[found[q]] = "pending" /\ row'[found[q]] = "consumed"
        /\ \A x \in Reqs \ {q} : pc'[x] = pc[x] /\ found'[x] = found[x]
    BY <1>4, ConsumeReserves
  <2>2. \A x \in Reqs : pc[x] = "run" => found[x] # found[q]
    BY <2>1 DEF Reserved
  <2> QED BY <1>1, <1>2, <1>4, <2>1, <2>2 DEF Reserved
<1>5. ASSUME used' = used, \A q \in Reqs : ~(Consume(q) /\ pc'[q] = "run") PROVE Reserved'
  <2>1. \A q \in Reqs : pc'[q] = "run" => pc[q] = "run" /\ found'[q] = found[q]
    BY <1>5, CallMoves
  <2> QED BY <1>1, <1>2, <1>5, <2>1 DEF Reserved
<1> QED BY <1>3, <1>4, <1>5, UsedMoves

LEMMA StepKeeps == ASSUME IInv, [Next]_vars PROVE IInv'
BY TypeStep, BackedStep, ReservedStep DEF IInv

LEMMA Inductive == Spec => []IInv
BY InitHolds, StepKeeps, PTL DEF Spec

\* Whoever may run the command holds a consumed, unused approval of its own.
THEOREM Invariant == Spec => []Reserved
BY Inductive, PTL DEF IInv

\* An approval authorizes one execution at most (Consume before executeApproved).
THEOREM Once == Spec => []OncePerApproval
<1>1. Reserved => OncePerApproval
  BY DEF Reserved, OncePerApproval
<1> QED BY Invariant, <1>1, PTL

-----------------------------------------------------------------------------
\* What is executed is what was shown.


\* A call is answered once, by its return, and "executed" by Run alone.
LEMMA AnswerMoves ==
  ASSUME TypeOK, [Next]_vars, NEW q \in Reqs
  PROVE  /\ pc[q] = "done" => answer'[q] = answer[q] /\ found'[q] = found[q]
         /\ pc'[q] # "done" => answer'[q] = answer[q]
         /\ answer'[q] = "executed" => answer[q] = "executed" \/ Run(q)
<1> USE DEF TypeOK
<1>1. ASSUME NEW r \in Reqs, CallStep(r), ~Run(r)
      PROVE  /\ pc[r] # "done"
             /\ pc'[r] # "done" => answer'[r] = answer[r]
             /\ answer'[r] # "executed" \/ answer'[r] = answer[r]
             /\ \A x \in Reqs \ {r} : answer'[x] = answer[x] /\ found'[x] = found[x]
  <2>1. CASE Find(r) \/ FindNothing(r)
    BY <2>1 DEF Find, FindNothing, Goto, Answer
  <2>2. CASE Dedupe(r) \/ DedupeNothing(r) \/ Insert(r)
    BY <2>2 DEF Dedupe, DedupeNothing, Insert, Goto, Answer
  <2>3. CASE Consume(r)
    BY <2>3 DEF Consume, Goto, Answer
  <2> QED BY <1>1, <2>1, <2>2, <2>3 DEF CallStep
<1>2. ASSUME NEW r \in Reqs, Run(r)
      PROVE  /\ pc[r] = "run" /\ pc'[r] = "done"
             /\ \A x \in Reqs \ {r} : answer'[x] = answer[x] /\ found'[x] = found[x]
  BY <1>2 DEF Run, Goto, Answer
<1>3. ASSUME NEW r \in Reqs, Age(r) \/ DeleteExpired(r)
      PROVE  answer' = answer /\ found' = found
  BY <1>3 DEF Age, DeleteExpired, calls
<1>4. ASSUME NEW p \in Procs, Crash(p)
      PROVE  /\ found' = found
             /\ \/ answer'[q] = answer[q]
                \/ pc[q] # "done" /\ pc'[q] = "done" /\ answer'[q] = "lost"
  BY <1>4 DEF Crash
<1>5. ASSUME UNCHANGED vars PROVE answer' = answer /\ found' = found
  BY <1>5 DEF vars, calls
<1>6. CASE \E r \in Reqs : CallStep(r)
  <2> PICK r \in Reqs : CallStep(r)
    BY <1>6
  <2>1. CASE r = q
    BY <1>1, <1>2, <2>1
  <2>2. CASE r # q
    BY <1>1, <1>2, <2>2
  <2> QED BY <2>1, <2>2
<1>7. CASE ~(\E r \in Reqs : CallStep(r))
  BY <1>3, <1>4, <1>5, <1>7 DEF Next
<1> QED BY <1>6, <1>7

SInv == IInv /\ Unanswered /\ ExecutesWhatWasShown

LEMMA ShownInit == Init => SInv
BY InitHolds, ConstantsAssumption DEF SInv, Init, Unanswered, ExecutesWhatWasShown, TypeOK, Answers

LEMMA ShownStep == ASSUME SInv, [Next]_vars PROVE SInv'
<1> USE DEF SInv, IInv
<1>1. Unanswered'
  <2>1. ASSUME NEW r \in Reqs, pc'[r] # "done" PROVE answer'[r] = None
    <3>1. pc[r] # "done" /\ answer'[r] = answer[r]
      BY <2>1, CallMoves, AnswerMoves
    <3> QED BY <3>1 DEF Unanswered
  <2> QED BY <2>1 DEF Unanswered
<1>2. ASSUME NEW r \in Reqs, answer'[r] = "executed"
      PROVE  r \in Confirmed /\ found'[r] # r /\ Command[found'[r]] = Command[r]
  <2>1. CASE Run(r)
    <3>1. pc[r] = "run" /\ found'[r] = found[r]
      BY <2>1 DEF Run, Answer, TypeOK
    <3> QED BY <3>1 DEF Backed
  <2>2. CASE answer[r] = "executed" /\ pc[r] = "done"
    <3>1. found'[r] = found[r]
      BY <2>2, AnswerMoves
    <3> QED BY <2>2, <3>1 DEF ExecutesWhatWasShown
  <2>3. CASE answer[r] = "executed" /\ pc[r] # "done"
    BY <2>3, ConstantsAssumption DEF Unanswered, Answers
  <2> QED BY <1>2, <2>1, <2>2, <2>3, AnswerMoves
<1>3. ExecutesWhatWasShown'
  BY <1>2 DEF ExecutesWhatWasShown
<1> QED BY <1>1, <1>3, StepKeeps

\* A command runs for a confirmed call, on an approval that another call of the
\* same session, command, purpose and scope has shown.
THEOREM Bound == Spec => []ExecutesWhatWasShown
BY ShownInit, ShownStep, PTL DEF Spec, SInv

-----------------------------------------------------------------------------
\* One pending approval for a command.

LEMMA OneLiveStep == ASSUME IInv, OneLiveApproval, [Next]_vars PROVE OneLiveApproval'
<1> USE DEF IInv
<1>1. ASSUME NEW r \in Reqs, Insert(r) PROVE OneLiveApproval'
  <2>1. CASE row' = row
    BY <2>1 DEF OneLiveApproval
  <2>2. CASE row' = Inserted(r)
    BY <2>2 DEF OneLiveApproval, Inserted
  <2> QED BY <1>1, <2>1, <2>2 DEF Insert
<1>2. CASE \A a \in Reqs : row'[a] = "pending" => row[a] = "pending"
  BY <1>2 DEF OneLiveApproval
<1>3. CASE \E a \in Reqs : row'[a] = "pending" /\ row[a] # "pending"
  <2>1. \E r \in Reqs : Insert(r)
    BY <1>3, WriteIsInsert
  <2> QED BY <1>1, <2>1
<1> QED BY <1>2, <1>3

\* A command never has two pending approvals (findPendingLocked, INSERT OR
\* REPLACE under the unique index), in any number of processes.
THEOREM OneLive == Spec => []OneLiveApproval
<1>1. Init => OneLiveApproval
  BY DEF Init, OneLiveApproval
<1> QED BY <1>1, Inductive, OneLiveStep, PTL DEF Spec

\* A confirmation authorizes one execution, of what was shown, and leaves no
\* other approval behind (Consume, pendingCommandConfirmation, PutPending).
THEOREM Held == Spec => []ApprovalsHold
<1>1. OncePerApproval /\ ExecutesWhatWasShown /\ OneLiveApproval => ApprovalsHold
  BY DEF ApprovalsHold
<1> QED BY <1>1, Once, Bound, OneLive, PTL

-----------------------------------------------------------------------------
\* What is shown can be confirmed.

\* One process serves all calls that have begun.
Solo == \A q, r \in Reqs : pc[q] # "idle" /\ pc[r] # "idle" => Home[q] = Home[r]

\* A live approval of the command of r.
Alive(a, r) == row[a] = "pending" /\ a \notin old /\ Command[a] = Command[r]

\* The mutex is held between look-up and INSERT.
MutexHeld == \A r \in Reqs : pc[r] = "insert" => owns[Home[r]] = r

\* A process caches what its own calls have stored.
CachedOwn == \A p \in Procs : \A a \in cache[p] : Home[a] = p /\ pc[a] = "done"

\* Without a fault so far a call about to store finds in the cache what its process
\* has shown for the command.
PutSees ==
  faults = 0 => \A r, a \in Reqs :
    pc[r] = "put" /\ Alive(a, r) /\ Home[a] = Home[r] => a \in cache[Home[r]]

\* With one at most, there is nothing of its process left for an INSERT to replace.
NoneReplaced ==
  faults <= 1 => \A r, a \in Reqs : pc[r] = "insert" /\ Alive(a, r) => Home[a] # Home[r]

\* Nor, in any case, a live entry of the cache.
NoneCached ==
  \A r \in Reqs : pc[r] = "insert" => \A a \in cache[Home[r]] \ old : Command[a] # Command[r]

\* A process that serves alone caches pending rows only.
CachedPending == Solo => \A p \in Procs : \A a \in cache[p] \ old : row[a] = "pending"

ShownInv ==
  MutexHeld /\ CachedOwn /\ PutSees /\ NoneReplaced /\ NoneCached /\ CachedPending

\* A step that only lets rows and entries go: no row becomes pending, no cache
\* gets an entry, and what it keeps of the cache of a process alone keeps its row.
Thins ==
  /\ \A a \in Reqs : row'[a] = "pending" => row[a] = "pending"
  /\ old \subseteq old'
  /\ \A p \in Procs : cache'[p] \subseteq cache[p]
  /\ Solo' => \A p \in Procs : \A a \in cache'[p] : a \notin old' /\ row[a] = "pending" => row'[a] = "pending"
  /\ \A r \in Reqs : pc'[r] # "idle" \/ pc[r] = "idle"
  /\ \A r \in Reqs : pc[r] = "done" => pc'[r] = "done"
  /\ faults' \in {faults, faults + 1}

\* Its effect on what the caches hold.
LEMMA ThinCaches ==
  ASSUME TypeOK, ShownInv, Thins, \A r \in Reqs : pc'[r] = "insert" => pc[r] = "insert" /\ owns'[Home[r]] = owns[Home[r]]
  PROVE  MutexHeld' /\ CachedOwn' /\ NoneReplaced' /\ NoneCached' /\ CachedPending'
<1> USE DEF ShownInv
<1>1. MutexHeld'
  BY DEF MutexHeld
<1>2. CachedOwn'
  BY DEF CachedOwn, Thins, TypeOK
<1>3. NoneReplaced'
  BY DEF NoneReplaced, Alive, Thins, TypeOK
<1>4. NoneCached'
  BY HomeType DEF NoneCached, Thins
<1>5. CachedPending'
  <2>1. Solo' => Solo
    BY DEF Solo, Thins
  <2> QED
    BY <2>1 DEF CachedPending, Thins, TypeOK
<1> QED
  BY <1>1, <1>2, <1>3, <1>4, <1>5

\* A call that looks for what is shown finds it, or is the first.
LEMMA ThinPuts ==
  ASSUME TypeOK, ShownInv, Thins,
         \A r, a \in Reqs : pc'[r] = "put" /\ row'[a] = "pending" /\ a \notin old' /\ a \in cache[Home[r]]
           => a \in cache'[Home[r]],
         faults' = 0 => \A r \in Reqs : pc'[r] = "put" => pc[r] = "put" \/ \A a \in Reqs : ~Alive(a, r)
  PROVE  PutSees'
<1> SUFFICES ASSUME faults' = 0, NEW r \in Reqs, NEW a \in Reqs, pc'[r] = "put", Alive(a, r)', Home[a] = Home[r]
             PROVE  a \in cache'[Home[r]]
  BY DEF PutSees
<1>1. faults = 0
  BY DEF Thins, TypeOK
<1>2. Alive(a, r) /\ row'[a] = "pending" /\ a \notin old'
  BY DEF Alive, Thins
<1>3. a \in cache[Home[r]]
  BY <1>1, <1>2 DEF ShownInv, PutSees
<1> QED
  BY <1>2, <1>3

\* Nothing is shown at first.
LEMMA ShownStarts == Init => ShownInv
BY DEF Init, ShownInv, MutexHeld, CachedOwn, PutSees, NoneReplaced, NoneCached, CachedPending, Alive

\* Every step keeps it: INSERT alone fills a cache, with what it stores.
LEMMA ShownKept == ASSUME TypeOK, ShownInv, [Next]_vars PROVE ShownInv'
<1> USE HomeType
<1> DEFINE Follows == /\ Thins
                      /\ \A q \in Reqs : pc'[q] = "insert" => pc[q] = "insert" /\ owns'[Home[q]] = owns[Home[q]]
                      /\ \A q, a \in Reqs : pc'[q] = "put" /\ row'[a] = "pending" /\ a \notin old' /\ a \in cache[Home[q]]
                           => a \in cache'[Home[q]]
                      /\ faults' = 0 => \A q \in Reqs : pc'[q] = "put" => pc[q] = "put" \/ \A a \in Reqs : ~Alive(a, q)
<1>0. ASSUME Follows PROVE ShownInv'
  BY <1>0, ThinCaches, ThinPuts DEF ShownInv
<1> HIDE DEF Follows
<1>1. ASSUME NEW r \in Reqs, Find(r) PROVE Follows
  <2>1. /\ row' = PrunedRow /\ cache' = [cache EXCEPT ![Home[r]] = cache[Home[r]] \ old]
        /\ UNCHANGED <<old, owns, faults>>
        /\ \A q \in Reqs \ {r} : pc'[q] = pc[q]
        /\ pc[r] = "idle" /\ pc'[r] \in {"put", "consume", "done"} /\ (pc'[r] = "put" => Live(r) = {})
    BY <1>1 DEF Find, Goto, Answer, TypeOK, PrunedCache, bounds
  <2>2. Thins
    BY <2>1 DEF Thins, PrunedRow, TypeOK
  <2>3. \A q, a \in Reqs : row'[a] = "pending" /\ a \notin old' /\ a \in cache[Home[q]] => a \in cache'[Home[q]]
    BY <2>1 DEF TypeOK
  <2>4. \A q \in Reqs : pc'[q] = "put" => pc[q] = "put" \/ \A a \in Reqs : ~Alive(a, q)
    BY <2>1 DEF Live, Alive
  <2>5. \A q \in Reqs : pc'[q] = "insert" => pc[q] = "insert" /\ owns'[Home[q]] = owns[Home[q]]
    BY <2>1
  <2> QED
    BY <2>2, <2>3, <2>4, <2>5 DEF Follows
<1>2. ASSUME NEW r \in Reqs, FindNothing(r) PROVE Follows
  <2>1. /\ UNCHANGED <<row, cache, old, owns>> /\ faults' = faults + 1
        /\ \A q \in Reqs \ {r} : pc'[q] = pc[q]
        /\ pc[r] = "idle" /\ pc'[r] = "put"
    BY <1>2 DEF FindNothing, Goto, TypeOK, Fault
  <2>2. faults' # 0
    BY <2>1 DEF TypeOK
  <2> QED
    BY <2>1, <2>2 DEF Follows, Thins, TypeOK
<1>3. ASSUME NEW r \in Reqs, Dedupe(r) PROVE ShownInv'
  <2>1. /\ row' = PrunedRow /\ cache' = [cache EXCEPT ![Home[r]] = cache[Home[r]] \ old]
        /\ UNCHANGED <<old, faults>> /\ pc[r] = "put"
        /\ \A q \in Reqs \ {r} : pc'[q] = pc[q]
        /\ \/ pc'[r] = "done" /\ owns' = owns
           \/ /\ pc'[r] = "insert" /\ Live(r) = {} /\ owns' = [owns EXCEPT ![Home[r]] = r]
              /\ owns[Home[r]] = None /\ \A a \in cache[Home[r]] \ old : Command[a] # Command[r]
    BY <1>3 DEF Dedupe, Goto, Answer, TypeOK, PrunedCache, bounds, Free
  <2>2. Thins
    BY <2>1 DEF Thins, PrunedRow, TypeOK
  <2>3. \A q, a \in Reqs : row'[a] = "pending" /\ a \notin old' /\ a \in cache[Home[q]] => a \in cache'[Home[q]]
    BY <2>1 DEF TypeOK
  <2>4. PutSees'
    BY <2>1, <2>2, <2>3, ThinPuts
  <2>5. CASE pc'[r] = "done"
    BY <2>1, <2>2, <2>3, <2>5, <1>0 DEF Follows
  <2>6. CASE pc'[r] = "insert"
    <3>1. MutexHeld'
      BY <2>1, <2>6, ConstantsAssumption DEF MutexHeld, ShownInv, TypeOK
    <3>2. CachedOwn'
      BY <2>1, <2>2 DEF CachedOwn, Thins, ShownInv, TypeOK
    <3>3. NoneReplaced'
      BY <2>1, <2>2, <2>6 DEF NoneReplaced, Alive, Thins, ShownInv, Live
    <3>4. NoneCached'
      BY <2>1, <2>2 DEF NoneCached, Thins, ShownInv, TypeOK
    <3>5. CachedPending'
      <4>1. Solo' => Solo
        BY <2>2 DEF Solo, Thins
      <4> QED
        BY <2>2, <4>1 DEF CachedPending, Thins, ShownInv, TypeOK
    <3> QED
      BY <2>4, <3>1, <3>2, <3>3, <3>4, <3>5 DEF ShownInv
  <2> QED
    BY <2>1, <2>5, <2>6
<1>4. ASSUME NEW r \in Reqs, DedupeNothing(r) PROVE ShownInv'
  <2>1. /\ row' = row /\ cache' = [cache EXCEPT ![Home[r]] = cache[Home[r]] \ old]
        /\ old' = old /\ faults' = faults + 1 /\ pc[r] = "put" /\ pc'[r] = "insert"
        /\ \A q \in Reqs \ {r} : pc'[q] = pc[q]
        /\ owns' = [owns EXCEPT ![Home[r]] = r] /\ owns[Home[r]] = None
        /\ \A a \in cache[Home[r]] \ old : Command[a] # Command[r]
    BY <1>4 DEF DedupeNothing, Goto, TypeOK, PrunedCache, Fault, Free
  <2>2. Thins
    BY <2>1 DEF Thins, TypeOK
  <2>3. PutSees' 
    BY <2>1 DEF PutSees, TypeOK
  <2>4. MutexHeld'
    BY <2>1, ConstantsAssumption DEF MutexHeld, ShownInv, TypeOK
  <2>5. CachedOwn'
    BY <2>1, <2>2 DEF CachedOwn, Thins, ShownInv, TypeOK
  <2>6. NoneReplaced'
    <3> SUFFICES ASSUME faults' <= 1, NEW q \in Reqs, NEW a \in Reqs, pc'[q] = "insert", Alive(a, q)'
                 PROVE  Home[a] # Home[q]
      BY DEF NoneReplaced
    <3>1. Alive(a, q) /\ faults = 0
      BY <2>1 DEF Alive, TypeOK
    <3>2. CASE q = r
      BY <2>1, <3>1, <3>2 DEF ShownInv, PutSees, Alive
    <3>3. CASE q # r
      BY <2>1, <3>1, <3>3 DEF ShownInv, NoneReplaced
    <3> QED
      BY <3>2, <3>3
  <2>7. NoneCached'
    BY <2>1, <2>2 DEF NoneCached, Thins, ShownInv, TypeOK
  <2>8. CachedPending'
    <3>1. Solo' => Solo
      BY <2>2 DEF Solo, Thins
    <3> QED
      BY <2>2, <3>1 DEF CachedPending, Thins, ShownInv, TypeOK
  <2> QED
    BY <2>3, <2>4, <2>5, <2>6, <2>7, <2>8 DEF ShownInv
<1>5. ASSUME NEW r \in Reqs, Insert(r) PROVE ShownInv'
  <2>1. /\ old' = old /\ pc[r] = "insert" /\ pc'[r] = "done" /\ owns' = [owns EXCEPT ![Home[r]] = None]
        /\ \A q \in Reqs \ {r} : pc'[q] = pc[q]
        /\ \/ faults' = faults /\ row' = Inserted(r) /\ cache' = [cache EXCEPT ![Home[r]] = @ \cup {r}]
           \/ faults' = faults + 1 /\ row' = row /\ cache' = cache
    BY <1>5 DEF Insert, Goto, Answer, TypeOK, Fault
  <2>2. \A q \in Reqs : pc'[q] = "insert" => q # r /\ Home[q] # Home[r] /\ owns'[Home[q]] = owns[Home[q]] /\ pc[q] = "insert"
    BY <2>1 DEF ShownInv, MutexHeld, TypeOK
  <2>3. CASE row' = row /\ cache' = cache /\ faults' = faults + 1
    <3>1. faults' # 0
      BY <2>3 DEF TypeOK
    <3> QED
      BY <2>1, <2>2, <2>3, <3>1, <1>0 DEF Follows, Thins, TypeOK
  <2>4. CASE faults' = faults /\ row' = Inserted(r) /\ cache' = [cache EXCEPT ![Home[r]] = @ \cup {r}]
    <3>0. /\ \A a \in Reqs : row'[a] = IF a = r THEN "pending"
                                      ELSE IF row[a] = "pending" /\ Command[a] = Command[r] THEN "deleted" ELSE row[a]
          /\ \A p \in Procs : cache'[p] = IF p = Home[r] THEN cache[p] \cup {r} ELSE cache[p]
      BY <2>4 DEF Inserted, TypeOK
    <3>1. MutexHeld'
      BY <2>2 DEF MutexHeld, ShownInv
    <3>2. CachedOwn'
      BY <2>1, <3>0 DEF CachedOwn, ShownInv, TypeOK
    <3>3. PutSees'
      BY <2>1, <2>4, <3>0 DEF PutSees, Alive, ShownInv, TypeOK
    <3>4. NoneReplaced'
      BY <2>1, <2>2, <2>4, <3>0 DEF NoneReplaced, Alive, ShownInv
    <3>5. NoneCached'
      BY <2>1, <2>2, <3>0 DEF NoneCached, ShownInv
    <3>6. CachedPending'
      <4> SUFFICES ASSUME Solo', NEW p \in Procs, NEW a \in cache'[p], a \notin old PROVE row'[a] = "pending"
        BY <2>1 DEF CachedPending
      <4>1. Solo
        BY <2>1 DEF Solo
      <4>2. CASE a = r
        BY <3>0, <4>2
      <4>3. CASE a # r
        <5>1. a \in cache[p] /\ a \in Reqs /\ row[a] = "pending" /\ Home[a] = p /\ pc'[a] = "done"
          BY <2>1, <3>0, <4>1, <4>3 DEF CachedPending, CachedOwn, ShownInv, TypeOK
        <5>2. p = Home[r]
          BY <2>1, <5>1 DEF Solo
        <5>3. Command[a] # Command[r]
          BY <2>1, <5>1, <5>2 DEF ShownInv, NoneCached
        <5> QED
          BY <3>0, <4>3, <5>1, <5>3
      <4> QED
        BY <4>2, <4>3
    <3> QED
      BY <3>1, <3>2, <3>3, <3>4, <3>5, <3>6 DEF ShownInv
  <2> QED
    BY <2>1, <2>3, <2>4
<1>6. ASSUME NEW r \in Reqs, Consume(r) PROVE Follows
  <2>1. /\ old' = old /\ owns' = owns /\ pc[r] = "consume" /\ pc'[r] \in {"run", "done"} /\ found[r] \in Reqs
        /\ \A q \in Reqs \ {r} : pc'[q] = pc[q] /\ faults' \in {faults, faults + 1}
        /\ \/ /\ row' = [PrunedRow EXCEPT ![found[r]] = "consumed"]
              /\ cache' = [cache EXCEPT ![Home[r]] = (cache[Home[r]] \ old) \ {found[r]}]
           \/ row' = PrunedRow /\ cache' = [cache EXCEPT ![Home[r]] = cache[Home[r]] \ old]
           \/ row' = row /\ cache' = cache
        /\ faults' \in {faults, faults + 1}
    BY <1>6 DEF Consume, Goto, Answer, TypeOK, PrunedCache, Fault
  <2>2. /\ \A a \in Reqs : row'[a] = "pending" => row[a] = "pending"
        /\ \A a \in Reqs : a \notin old /\ row[a] = "pending" =>
             row'[a] = "pending" \/ (a = found[r] /\ row'[a] = "consumed" /\ a \notin cache'[Home[r]])
        /\ \A p \in Procs : cache'[p] \subseteq cache[p]
        /\ \A p \in Procs : \A a \in cache[p] : a \notin old /\ row'[a] = "pending" => a \in cache'[p]
    <3>1. CASE row' = [PrunedRow EXCEPT ![found[r]] = "consumed"]
               /\ cache' = [cache EXCEPT ![Home[r]] = (cache[Home[r]] \ old) \ {found[r]}]
      <4>1. \A a \in Reqs : row'[a] = IF a = found[r] THEN "consumed"
                                      ELSE IF a \in old /\ row[a] = "pending" THEN "expired" ELSE row[a]
        BY <2>1, <3>1 DEF PrunedRow
      <4>2. \A p \in Procs : cache'[p] = IF p = Home[r] THEN (cache[p] \ old) \ {found[r]} ELSE cache[p]
        BY <3>1 DEF TypeOK
      <4> QED
        BY <4>1, <4>2 DEF TypeOK
    <3>2. CASE row' = PrunedRow /\ cache' = [cache EXCEPT ![Home[r]] = cache[Home[r]] \ old]
      BY <3>2 DEF PrunedRow, TypeOK
    <3> QED
      BY <2>1, <3>1, <3>2
  <2>3. ASSUME Solo', NEW p \in Procs, NEW a \in cache'[p] PROVE p = Home[r] /\ a \in Reqs
    <3>1. a \in cache[p] /\ a \in Reqs /\ Home[a] = p /\ pc[a] = "done"
      BY <2>2, <2>3 DEF ShownInv, CachedOwn, TypeOK
    <3>2. pc'[a] # "idle" /\ pc'[r] # "idle"
      BY <2>1, <3>1
    <3> QED
      BY <2>3, <3>1, <3>2 DEF Solo
  <2>4. Thins
    BY <2>1, <2>2, <2>3 DEF Thins
  <2> QED
    BY <2>1, <2>2, <2>4 DEF Follows, TypeOK
<1>7. ASSUME NEW r \in Reqs, Run(r) PROVE Follows
  <2>1. /\ UNCHANGED <<row, old, cache, owns, faults>> /\ pc[r] = "run" /\ pc'[r] = "done"
        /\ \A q \in Reqs \ {r} : pc'[q] = pc[q]
    BY <1>7 DEF Run, Answer, Goto, bounds, TypeOK
  <2> QED
    BY <2>1 DEF Follows, Thins, TypeOK
<1>8. ASSUME NEW r \in Reqs, Age(r) \/ DeleteExpired(r) PROVE Follows
  <2>1. /\ UNCHANGED <<pc, cache, owns, faults>> /\ old \subseteq old'
        /\ \A a \in Reqs : row'[a] = row[a] \/ (a \in old /\ row'[a] = "deleted")
    BY <1>8 DEF Age, DeleteExpired, calls, bounds, TypeOK
  <2> QED
    BY <2>1 DEF Follows, Thins, TypeOK
<1>9. ASSUME NEW p \in Procs, Crash(p) PROVE Follows
  <2>1. /\ UNCHANGED <<row, old, faults>>
        /\ cache' = [cache EXCEPT ![p] = {}] /\ owns' = [owns EXCEPT ![p] = None]
        /\ \A q \in Reqs : pc'[q] = IF Home[q] = p /\ pc[q] \notin {"idle", "done"} THEN "done" ELSE pc[q]
    BY <1>9 DEF Crash, TypeOK
  <2> QED
    BY <2>1 DEF Follows, Thins, TypeOK
<1>10. ASSUME UNCHANGED vars PROVE Follows
  <2>1. /\ row' = row /\ old' = old /\ cache' = cache /\ owns' = owns /\ faults' = faults
        /\ \A q \in Reqs : pc'[q] = pc[q]
    BY <1>10 DEF vars, calls, bounds
  <2>2. Thins
    BY <2>1 DEF Thins, TypeOK
  <2> QED
    BY <2>1, <2>2 DEF Follows
<1> QED
  BY <1>0, <1>1, <1>2, <1>3, <1>4, <1>5, <1>6, <1>7, <1>8, <1>9, <1>10 DEF Next, CallStep

\* A row is deleted by retention, when it is old, or replaced by an INSERT.
LEMMA WhoDeletes ==
  ASSUME TypeOK, [Next]_vars, NEW a \in Reqs, row[a] = "pending", a \notin old, row'[a] = "deleted"
  PROVE  \E r \in Reqs : Insert(r) /\ row' = Inserted(r) /\ Command[a] = Command[r] /\ faults' = faults
<1> USE DEF TypeOK
<1>1. ASSUME NEW r \in Reqs, Find(r) \/ Dedupe(r) PROVE FALSE
  BY <1>1 DEF Find, Dedupe, PrunedRow
<1>2. ASSUME NEW r \in Reqs, Consume(r) PROVE FALSE
  BY <1>2 DEF Consume, PrunedRow
<1>3. ASSUME NEW r \in Reqs, DeleteExpired(r) PROVE FALSE
  BY <1>3 DEF DeleteExpired
<1>4. ASSUME NEW r \in Reqs, FindNothing(r) \/ DedupeNothing(r) \/ Run(r) \/ Age(r) PROVE FALSE
  BY <1>4 DEF FindNothing, DedupeNothing, Run, Age
<1>5. ASSUME NEW p \in Procs, Crash(p) PROVE FALSE
  BY <1>5 DEF Crash
<1>6. ~UNCHANGED vars
  BY DEF vars
<1>7. ASSUME NEW r \in Reqs, Insert(r)
      PROVE  row' = Inserted(r) /\ Command[a] = Command[r] /\ faults' = faults
  BY <1>7 DEF Insert, Inserted
<1> QED
  BY <1>1, <1>2, <1>3, <1>4, <1>5, <1>6, <1>7 DEF Next, CallStep

\* An approval is shown by the call that finds or stores it.
LEMMA WhoShows ==
  ASSUME TypeOK, [Next]_vars, NEW q \in Reqs, answer[q] = None, answer'[q] = "waiting"
  PROVE  Find(q) \/ Dedupe(q) \/ Insert(q)
<1> USE ConstantsAssumption DEF TypeOK, Answers
<1>1. ASSUME NEW r \in Reqs, r # q, Find(r) \/ Dedupe(r) \/ Insert(r) PROVE FALSE
  BY <1>1 DEF Find, Dedupe, Insert, Goto, Answer
<1>2. ASSUME NEW r \in Reqs, FindNothing(r) \/ DedupeNothing(r) PROVE FALSE
  BY <1>2 DEF FindNothing, DedupeNothing
<1>3. ASSUME NEW r \in Reqs, Consume(r) \/ Run(r) PROVE FALSE
  BY <1>3 DEF Consume, Run, Goto, Answer
<1>4. ASSUME NEW r \in Reqs, Age(r) \/ DeleteExpired(r) PROVE FALSE
  BY <1>4 DEF Age, DeleteExpired, calls
<1>5. ASSUME NEW p \in Procs, Crash(p) PROVE FALSE
  BY <1>5 DEF Crash
<1>6. ~UNCHANGED vars
  BY DEF vars, calls
<1> QED
  BY <1>1, <1>2, <1>3, <1>4, <1>5, <1>6 DEF Next, CallStep

\* What one step makes of the calls and approvals it shows.
LEMMA StepShows == ASSUME TypeOK, ShownInv, ShownInv', TypeOK', [Next]_vars PROVE ShownIsPending /\ NotReplaced
<1>1. NotReplaced
  <2> SUFFICES ASSUME faults' <= 1, NEW a \in Reqs, row[a] = "pending", a \notin old, row'[a] = "deleted"
               PROVE  \E r \in Reqs : pc[r] = "insert" /\ pc'[r] = "done" /\ Home[r] # Home[a]
    BY DEF NotReplaced
  <2>1. PICK r \in Reqs : Insert(r) /\ row' = Inserted(r) /\ Command[a] = Command[r] /\ faults' = faults
    BY WhoDeletes
  <2>2. pc[r] = "insert" /\ pc'[r] = "done"
    BY <2>1 DEF Insert, Answer, Goto, TypeOK
  <2> QED
    BY <2>1, <2>2 DEF ShownInv, NoneReplaced, Alive
<1>2. ShownIsPending
  <2> SUFFICES ASSUME Solo', NEW r \in Reqs, answer[r] = None, answer'[r] = "waiting"
               PROVE  row'[found'[r]] = "pending" \/ found'[r] \in old'
    BY DEF ShownIsPending, Solo
  <2>1. CASE Find(r)
    BY <2>1, ConstantsAssumption DEF Find, Answer, Live, PrunedRow, TypeOK, Answers
  <2>2. CASE Dedupe(r)
    <3>1. Solo
      BY <2>2 DEF Dedupe, Goto, Answer, TypeOK, Solo
    <3>2. PICK a \in (cache[Home[r]] \ old) \cup Live(r) : found'[r] = a
      BY <2>2, ConstantsAssumption DEF Dedupe, Goto, Answer, PrunedCache, TypeOK, Answers
    <3>3. a \in Reqs /\ a \notin old /\ row[a] = "pending"
      BY <3>1, <3>2, HomeType DEF ShownInv, CachedPending, Live, TypeOK
    <3> QED
      BY <2>2, <3>2, <3>3 DEF Dedupe, PrunedRow
  <2>3. CASE Insert(r)
    BY <2>3, ConstantsAssumption DEF Insert, Inserted, Answer, TypeOK, Answers
  <2> QED
    BY <2>1, <2>2, <2>3, WhoShows
<1> QED
  BY <1>1, <1>2

\* What is shown can be confirmed when it is shown, as long as one process serves
\* the calls, and no call replaces what its process has shown (ListRemoteSession,
\* PutPending).
THEOREM ShownCorrect == Spec => ShownCanBeConfirmed
<1> DEFINE Both == TypeOK /\ ShownInv
<1>1. Spec => []Both
  <2>1. Both /\ [Next]_vars => Both'
    BY TypeStep, ShownKept
  <2>2. Init => Both
    BY TypeInit, ShownStarts
  <2> QED
    BY <2>1, <2>2, PTL DEF Spec
<1>2. Both /\ Both' /\ [Next]_vars => [ShownIsPending /\ NotReplaced]_vars
  BY StepShows
<1> QED
  BY <1>1, <1>2, PTL DEF Spec, ShownCanBeConfirmed

-----------------------------------------------------------------------------
(* A confirmed retry under an idempotency key (ConfirmedExecute). *)

\* Labels of the calls of the key.  There is no preflight, so no claim is
\* abandoned.
KeyLabels == Key!PC \ {"preflight", "abandon", "release"}

\* A row of the records has these fields.
IsRow(w) == w = [state |-> w.state, fp |-> w.fp, stamp |-> w.stamp, lapsed |-> w.lapsed,
                 response |-> w.response]

WellFormed ==
  /\ IsRow(rec)
  /\ kpc \in [Reqs -> KeyLabels] /\ seen = [r \in Reqs |-> seen[r]]
  /\ way \in [Reqs -> Ways] /\ late \subseteq Reqs /\ pc \in [Reqs -> PC]
  /\ lapses \in Nat /\ expiries \in Nat /\ faults \in Nat
  /\ status \in [Reqs -> Key!Completed]

\* As long as no lease elapses nobody has seen one elapsed, and nobody takes
\* a record over.
LeaseHeld ==
  Key!FirstLease =>
    rec.lapsed = FALSE /\ \A r \in Reqs : seen[r].lapsed = FALSE /\ kpc[r] # "takeover"

\* A call that has not looked has done nothing.
NotBegun == \A r \in Reqs : way[r] = "new" => pc[r] = "idle" /\ kpc[r] = "idle"

\* Where a call of the key can be that never claims it.
Readers == {"idle", "claim", "tomb", "read", "recheck", "waiting", "waitread", "done"}

\* A call that began when the key had a record finds it, reads it and stays a
\* reader.
LateReads ==
  faults = 0 /\ Key!FirstLease => \A r \in late :
    /\ rec.state # "none" /\ way[r] \in {"look", "keyed", "dead"}
    /\ pc[r] = "idle" /\ kpc[r] \in Readers

CInv == WellFormed /\ LeaseHeld /\ NotBegun /\ LateReads

-----------------------------------------------------------------------------
\* What a step of the key's calls does to the row, the reads and the labels.
RowKept == rec' = rec \/ (IsRow(rec)' /\ rec'.state # "none" /\ rec'.lapsed = FALSE)

KeyMoves(r) ==
  /\ RowKept
  /\ \E l \in KeyLabels : kpc' = [kpc EXCEPT ![r] = l]
  /\ seen' = seen \/ seen' = [seen EXCEPT ![r] = rec]
  /\ lapses' = lapses /\ expiries' = expiries
  /\ faults' \in {faults, faults + 1}
  /\ status' = status \/ \E s \in Key!Completed : status' = [status EXCEPT ![r] = s]
  /\ seen[r].lapsed = FALSE => kpc'[r] # "takeover"

\* A written row is a row again, and its lease is new.
LEMMA StampIsRow ==
  ASSUME NEW w, IsRow(w), w.state # "none", Key!Stamped(w)
  PROVE  RowKept
<1>1. rec' = [state |-> w.state, fp |-> w.fp, stamp |-> clock + 1, lapsed |-> FALSE,
              response |-> w.response]
  BY DEF IsRow, Key!Stamped
<1> QED
  BY <1>1 DEF RowKept, IsRow

\* The rows that are written are rows.
LEMMA WrittenRows ==
  ASSUME WellFormed, NEW r \in Reqs
  PROVE  /\ IsRow(Key!NewRow(r)) /\ Key!NewRow(r).state # "none"
         /\ \A s, q : LET w == [rec EXCEPT !.state = s, !.response = q] IN IsRow(w) /\ w.state = s
         /\ \A s : LET w == [rec EXCEPT !.state = s] IN IsRow(w) /\ w.state = s
<1>1. IsRow(Key!NewRow(r)) /\ Key!NewRow(r).state # "none"
  <2> DEFINE first == [Key!NoRecord EXCEPT !.state = "pending"]
  <2>1. Key!NewRow(r) = [first EXCEPT !.fp = Fingerprint[r]]
    BY DEF Key!NewRow
  <2>2. first = [state |-> "pending", fp |-> None, stamp |-> 0, lapsed |-> FALSE, response |-> None]
    <3>1. \A w : IsRow(w) => [w EXCEPT !.state = "pending"]
            = [state |-> "pending", fp |-> w.fp, stamp |-> w.stamp, lapsed |-> w.lapsed, response |-> w.response]
      BY DEF IsRow
    <3>2. /\ IsRow(Key!NoRecord) /\ Key!NoRecord.fp = None /\ Key!NoRecord.stamp = 0
          /\ Key!NoRecord.lapsed = FALSE /\ Key!NoRecord.response = None
      BY DEF Key!NoRecord, IsRow
    <3> QED
      BY <3>1, <3>2
  <2> HIDE DEF first
  <2>3. Key!NewRow(r) = [state |-> "pending", fp |-> Fingerprint[r], stamp |-> 0, lapsed |-> FALSE,
                         response |-> None]
    BY <2>1, <2>2
  <2> QED
    BY <2>3 DEF IsRow
<1>2. ASSUME NEW s, NEW q
      PROVE  LET w == [rec EXCEPT !.state = s, !.response = q] IN IsRow(w) /\ w.state = s
  <2> DEFINE first == [rec EXCEPT !.state = s]
  <2>1. [rec EXCEPT !.state = s, !.response = q] = [first EXCEPT !.response = q]
    OBVIOUS
  <2>2. first = [state |-> s, fp |-> rec.fp, stamp |-> rec.stamp, lapsed |-> rec.lapsed,
                 response |-> rec.response]
    BY DEF WellFormed, IsRow
  <2> HIDE DEF first
  <2>3. [rec EXCEPT !.state = s, !.response = q]
          = [state |-> s, fp |-> rec.fp, stamp |-> rec.stamp, lapsed |-> rec.lapsed, response |-> q]
    BY <2>1, <2>2
  <2> QED
    BY <2>3 DEF IsRow
<1>3. ASSUME NEW s PROVE LET w == [rec EXCEPT !.state = s] IN IsRow(w) /\ w.state = s
  <2>1. [rec EXCEPT !.state = s]
          = [state |-> s, fp |-> rec.fp, stamp |-> rec.stamp, lapsed |-> rec.lapsed,
             response |-> rec.response]
    BY DEF WellFormed, IsRow
  <2> QED
    BY <2>1 DEF IsRow
<1> QED
  BY <1>1, <1>2, <1>3

\* The label a call goes to.
LEMMA LabelMoves ==
  ASSUME WellFormed, NEW r \in Reqs, NEW l \in KeyLabels, Key!Goto(r, l)
  PROVE  /\ \E m \in KeyLabels : kpc' = [kpc EXCEPT ![r] = m]
         /\ kpc'[r] = l
BY DEF WellFormed, Key!Goto

\* Every answer ends the call.
LEMMA AnswerEnds ==
  ASSUME NEW r \in Reqs
  PROVE  /\ \A a, q : Key!Answer(r, a, q) => Key!Goto(r, "done")
         /\ \A w : Key!Settled(r, w) => Key!Goto(r, "done")
         /\ \A l : Key!GoOn(r, l) => Key!Goto(r, l)
BY DEF Key!Answer, Key!Settled, Key!GoOn

\* The labels, one by one.
LEMMA LabelsAre ==
  /\ KeyLabels = {"idle", "waiting", "waitread", "done", "claim", "tomb", "read", "insert", "reread",
                  "recheck", "takeover", "reget", "setflight", "handler", "running", "complete",
                  "finish", "mark", "markfinish", "markdefer"}
BY DEF KeyLabels, Key!PC, Key!InClaim, Key!Pre, Key!Post

\* The steps of Claim, and those before the handler.
LEMMA ClaimMoves ==
  ASSUME WellFormed, NEW r \in Reqs, Key!ClaimStep(r) PROVE KeyMoves(r)
<1> USE LabelsAre, LabelMoves, AnswerEnds
<1>1. CASE Key!Lookup(r)
  BY <1>1 DEF Key!Lookup, KeyMoves, RowKept, Key!store, Key!bounds
<1>2. CASE Key!CheckFlight(r)
  BY <1>2 DEF Key!CheckFlight, KeyMoves, RowKept, Key!store, Key!bounds
<1>3. CASE Key!ReadTombstone(r)
  BY <1>3 DEF Key!ReadTombstone, KeyMoves, RowKept, Key!store, Key!bounds
<1>4. CASE Key!ReadRecord(r)
  BY <1>4 DEF Key!ReadRecord, KeyMoves, RowKept, Key!store, Key!bounds
<1>5. CASE Key!InsertRecord(r)
  <2>1. RowKept
    BY <1>5, WrittenRows, StampIsRow DEF Key!InsertRecord, RowKept, Key!store
  <2> QED
    BY <1>5, <2>1 DEF Key!InsertRecord, KeyMoves, Key!bounds
<1>6. CASE Key!RereadRecord(r)
  BY <1>6 DEF Key!RereadRecord, KeyMoves, RowKept, Key!store, Key!bounds
<1>7. CASE Key!RecheckFlight(r)
  BY <1>7 DEF Key!RecheckFlight, KeyMoves, RowKept, Key!store, Key!bounds
<1>8. CASE Key!TakeOver(r)
  <2>1. RowKept
    BY <1>8, StampIsRow DEF WellFormed, Key!TakeOver, Key!MinePending, Key!Mine, RowKept, Key!store
  <2> QED
    BY <1>8, <2>1 DEF Key!TakeOver, KeyMoves, Key!bounds
<1>9. CASE Key!ReadLoser(r)
  BY <1>9 DEF Key!ReadLoser, KeyMoves, RowKept, Key!store, Key!bounds
<1>10. CASE Key!SetFlight(r)
  BY <1>10 DEF Key!SetFlight, KeyMoves, RowKept, Key!store, Key!bounds
<1> QED
  BY <1>1, <1>2, <1>3, <1>4, <1>5, <1>6, <1>7, <1>8, <1>9, <1>10 DEF Key!ClaimStep

\* The steps of an owner.
LEMMA OwnerMoves ==
  ASSUME WellFormed, NEW r \in Reqs, Key!OwnerStep(r) PROVE KeyMoves(r)
<1> USE LabelsAre, LabelMoves, AnswerEnds
<1>1. kpc[r] \notin {"preflight", "abandon", "release"}
  BY DEF WellFormed
<1>2. CASE Key!StartHandler(r)
  BY <1>2 DEF Key!StartHandler, KeyMoves, RowKept, Key!store, Key!bounds
<1>3. CASE Key!HandlerReturns(r)
  BY <1>3 DEF Key!HandlerReturns, KeyMoves, RowKept, Key!store, Key!bounds
<1>4. CASE Key!CompleteRecord(r)
  <2>1. status[r] # "none"
    BY DEF Key!Completed, WellFormed
  <2> DEFINE w == [rec EXCEPT !.state = status[r], !.response = r]
  <2>2. IsRow(w) /\ w.state = status[r]
    BY WrittenRows
  <2> HIDE DEF w
  <2>3. Key!Stamped(w) => RowKept
    BY <2>1, <2>2, StampIsRow
  <2>4. RowKept
    BY <1>4, <2>3 DEF w, Key!CompleteRecord, RowKept, Key!store
  <2> QED
    BY <1>4, <2>4 DEF Key!CompleteRecord, KeyMoves, Key!Fault
<1>5. CASE Key!ReleaseCompleted(r)
  BY <1>5 DEF Key!ReleaseCompleted, KeyMoves, RowKept, Key!store, Key!bounds
<1>6. CASE Key!MarkInDoubt(r)
  <2>1. RowKept
    BY <1>6, WrittenRows, StampIsRow DEF Key!MarkInDoubt, RowKept, Key!store
  <2> QED
    BY <1>6, <2>1 DEF Key!MarkInDoubt, KeyMoves, Key!Fault
<1>7. CASE Key!ReleaseMarked(r)
  BY <1>7 DEF Key!ReleaseMarked, KeyMoves, RowKept, Key!store, Key!bounds
<1>8. CASE Key!LeaveTombstone(r)
  BY <1>8 DEF Key!LeaveTombstone, KeyMoves, RowKept, Key!store, Key!bounds
<1> QED
  BY <1>1, <1>2, <1>3, <1>4, <1>5, <1>6, <1>7, <1>8
    DEF Key!OwnerStep, Key!RunPreflight, Key!AbandonRecord, Key!ReleaseAbandoned

\* Those of a waiter, and the failures.
LEMMA OtherMoves ==
  ASSUME WellFormed, NEW r \in Reqs, Key!WaiterStep(r) \/ Key!GiveUp(r) \/ Key!FailClaim(r)
  PROVE  KeyMoves(r)
<1> USE LabelsAre, LabelMoves, AnswerEnds
<1>1. CASE Key!WakeWaiter(r)
  BY <1>1 DEF Key!WakeWaiter, KeyMoves, RowKept, Key!store, Key!bounds
<1>2. CASE Key!ReadAfterWait(r)
  BY <1>2 DEF Key!ReadAfterWait, KeyMoves, RowKept, Key!store, Key!bounds
<1>3. CASE Key!GiveUp(r)
  BY <1>3 DEF Key!GiveUp, KeyMoves, RowKept, Key!store, Key!Fault
<1>4. CASE Key!FailClaim(r)
  BY <1>4 DEF Key!FailClaim, KeyMoves, RowKept, Key!store, Key!Fault
<1> QED
  BY <1>1, <1>2, <1>3, <1>4 DEF Key!WaiterStep

\* So every step of a call of the key.
LEMMA KeyStepMoves ==
  ASSUME WellFormed, NEW r \in Reqs, Key!CallStep(r) \/ Key!GiveUp(r) \/ Key!FailClaim(r)
  PROVE  KeyMoves(r)
BY ClaimMoves, OwnerMoves, OtherMoves DEF Key!CallStep

\* A reader that finds a record whose lease is not over stays a reader.
LEMMA ReaderStays ==
  ASSUME WellFormed, NEW r \in Reqs, Key!CallStep(r) \/ Key!GiveUp(r) \/ Key!FailClaim(r),
         faults' = faults, kpc[r] \in Readers, rec.state # "none", seen[r].lapsed = FALSE
  PROVE  kpc'[r] \in Readers /\ rec' = rec
<1> USE LabelsAre, LabelMoves, AnswerEnds DEF Readers
<1>1. ~Key!GiveUp(r) /\ ~Key!FailClaim(r)
  BY DEF WellFormed, Key!GiveUp, Key!FailClaim, Key!Fault
<1>2. CASE Key!Lookup(r) \/ Key!CheckFlight(r)
  BY <1>2 DEF Key!Lookup, Key!CheckFlight, Key!store
<1>3. CASE Key!ReadTombstone(r) \/ Key!ReadRecord(r) \/ Key!RecheckFlight(r)
  BY <1>3 DEF Key!ReadTombstone, Key!ReadRecord, Key!RecheckFlight, Key!store
<1>4. CASE Key!WaiterStep(r)
  BY <1>4 DEF Key!WaiterStep, Key!WakeWaiter, Key!ReadAfterWait, Key!store
<1>5. ~Key!InsertRecord(r) /\ ~Key!RereadRecord(r) /\ ~Key!TakeOver(r) /\ ~Key!ReadLoser(r) /\ ~Key!SetFlight(r)
  BY DEF Key!InsertRecord, Key!RereadRecord, Key!TakeOver, Key!ReadLoser, Key!SetFlight
<1>6. ~Key!OwnerStep(r)
  BY DEF Key!OwnerStep, Key!RunPreflight, Key!AbandonRecord, Key!ReleaseAbandoned, Key!StartHandler,
         Key!HandlerReturns, Key!CompleteRecord, Key!ReleaseCompleted, Key!MarkInDoubt, Key!ReleaseMarked,
         Key!LeaveTombstone
<1> QED
  BY <1>1, <1>2, <1>3, <1>4, <1>5, <1>6 DEF Key!CallStep, Key!ClaimStep

-----------------------------------------------------------------------------
\* The approvals: a call of the command moves alone, and only by its own step.
LEMMA CommandMoves ==
  ASSUME WellFormed, NEW r \in Reqs, CallStep(r)
  PROVE  /\ \E l \in PC : pc' = [pc EXCEPT ![r] = l]
         /\ faults' \in {faults, faults + 1}
<1>1. CASE Find(r) \/ FindNothing(r)
  BY <1>1 DEF Find, FindNothing, Goto, Answer, PC, bounds, Fault
<1>2. CASE Dedupe(r) \/ DedupeNothing(r)
  BY <1>2 DEF Dedupe, DedupeNothing, Goto, Answer, PC, bounds, Fault
<1>3. CASE Insert(r) \/ Consume(r) \/ Run(r)
  BY <1>3 DEF Insert, Consume, Run, Goto, Answer, PC, bounds, Fault
<1> QED
  BY <1>1, <1>2, <1>3 DEF CallStep

-----------------------------------------------------------------------------
\* Before any call the invariant holds.
LEMMA ConfirmedInit == CInit => CInv
BY DEF CInit, Init, Key!Init, CInv, WellFormed, LeaseHeld, NotBegun, LateReads, IsRow, Key!NoRecord, Ways, PC,
       KeyLabels, Key!PC, Key!Completed

\* Every step of the calls, the key's and the command's, of time and of a dying
\* process keeps it.
LEMMA ConfirmedStep == ASSUME CInv, [CNext]_cvars PROVE CInv'
<1> USE DEF CInv
<1>1. ASSUME NEW r \in Reqs, NotReady(r) PROVE CInv'
  <2>1. /\ UNCHANGED <<rec, kpc, seen, status, late, pc, lapses, expiries, faults>>
        /\ way' = [way EXCEPT ![r] = "direct"] /\ way[r] = "new"
    BY <1>1 DEF NotReady, Take, approvals, record, calls, bounds
  <2> QED
    BY <2>1 DEF WellFormed, LeaseHeld, NotBegun, LateReads, IsRow, Ways, Key!FirstLease
<1>2. ASSUME NEW r \in Reqs, LookAtApprovals(r) PROVE CInv'
  <2>1. /\ UNCHANGED <<rec, kpc, seen, status, pc, lapses, expiries>> /\ faults' \in {faults, faults + 1}
        /\ way[r] = "new" /\ \E w \in {"keyed", "look"} : way' = [way EXCEPT ![r] = w]
        /\ late' = IF rec.state = "none" THEN late ELSE late \cup {r}
    BY <1>2 DEF LookAtApprovals, Take, record, calls, Fault
  <2>2. WellFormed' /\ LeaseHeld' /\ NotBegun'
    BY <2>1 DEF WellFormed, LeaseHeld, NotBegun, IsRow, Ways, Key!FirstLease
  <2>3. LateReads'
    BY <2>1 DEF WellFormed, NotBegun, LateReads, Readers, Key!FirstLease
  <2> QED
    BY <2>2, <2>3
<1>3. ASSUME NEW r \in Reqs, LookAtRecord(r) PROVE CInv'
  <2>1. /\ UNCHANGED <<rec, kpc, seen, status, late, pc, lapses, expiries>> /\ way[r] = "look"
        /\ \/ faults' = faults /\ way' = [way EXCEPT ![r] = IF rec.state # "none" THEN "keyed" ELSE "direct"]
           \/ faults' = faults + 1 /\ way' = [way EXCEPT ![r] = "direct"]
    BY <1>3 DEF LookAtRecord, Take, approvals, record, calls, Fault
  <2>2. WellFormed' /\ LeaseHeld' /\ NotBegun'
    BY <2>1 DEF WellFormed, LeaseHeld, NotBegun, IsRow, Ways, Key!FirstLease
  <2>3. LateReads'
    BY <2>1 DEF WellFormed, NotBegun, LateReads, Readers, Key!FirstLease
  <2> QED
    BY <2>2, <2>3
<1>4. ASSUME NEW r \in Reqs, way[r] = "keyed" \/ kpc[r] = "running",
             Key!CallStep(r) \/ Key!GiveUp(r) \/ Key!FailClaim(r), UNCHANGED <<approvals, way, late>>
      PROVE  CInv'
  <2>1. KeyMoves(r)
    BY <1>4, KeyStepMoves
  <2>2. pc' = pc /\ way' = way /\ late' = late /\ way[r] # "new"
    BY <1>4 DEF approvals, calls, NotBegun
  <2>3. PICK l \in KeyLabels : kpc' = [kpc EXCEPT ![r] = l]
    BY <2>1 DEF KeyMoves
  <2>4. \A q \in Reqs \ {r} : kpc'[q] = kpc[q]
    BY <2>3 DEF WellFormed
  <2>5. WellFormed'
    <3>1. IsRow(rec)'
      BY <2>1 DEF WellFormed, KeyMoves, RowKept, IsRow
    <3>2. kpc' \in [Reqs -> KeyLabels]
      BY <2>3 DEF WellFormed
    <3>3. seen' = [q \in Reqs |-> seen'[q]]
      BY <2>1 DEF WellFormed, KeyMoves
    <3>4. lapses' \in Nat /\ expiries' \in Nat /\ faults' \in Nat
      BY <2>1 DEF WellFormed, KeyMoves
    <3>5. status' \in [Reqs -> Key!Completed]
      BY <2>1 DEF WellFormed, KeyMoves
    <3> QED
      BY <2>2, <3>1, <3>2, <3>3, <3>4, <3>5 DEF WellFormed
  <2>6. LeaseHeld'
    <3> SUFFICES ASSUME Key!FirstLease'
                 PROVE  rec'.lapsed = FALSE /\ \A q \in Reqs : seen'[q].lapsed = FALSE /\ kpc'[q] # "takeover"
      BY DEF LeaseHeld
    <3>1. Key!FirstLease
      BY <2>1 DEF KeyMoves, Key!FirstLease
    <3>2. rec.lapsed = FALSE /\ \A q \in Reqs : seen[q].lapsed = FALSE /\ kpc[q] # "takeover"
      BY <3>1 DEF LeaseHeld
    <3>3. \A q \in Reqs : seen'[q].lapsed = FALSE
      BY <2>1, <3>2 DEF KeyMoves, WellFormed
    <3>4. rec'.lapsed = FALSE /\ kpc'[r] # "takeover"
      BY <2>1, <3>2 DEF KeyMoves, RowKept
    <3> QED
      BY <2>4, <3>2, <3>3, <3>4
  <2>7. NotBegun'
    BY <2>2, <2>4 DEF NotBegun
  <2>8. LateReads'
    <3> SUFFICES ASSUME faults' = 0, Key!FirstLease', NEW q \in late
                 PROVE  /\ rec'.state # "none" /\ way'[q] \in {"look", "keyed", "dead"}
                        /\ pc'[q] = "idle" /\ kpc'[q] \in Readers
      BY <2>2 DEF LateReads
    <3>1. Key!FirstLease /\ faults = 0 /\ faults' = faults /\ q \in Reqs
      BY <2>1 DEF KeyMoves, Key!FirstLease, WellFormed
    <3>2. /\ rec.state # "none" /\ way[q] \in {"look", "keyed", "dead"}
          /\ pc[q] = "idle" /\ kpc[q] \in Readers /\ seen[q].lapsed = FALSE
      BY <3>1 DEF LateReads, LeaseHeld
    <3>3. rec'.state # "none"
      BY <2>1, <3>2 DEF KeyMoves, RowKept
    <3>4. kpc'[q] \in Readers
      BY <1>4, <2>4, <3>1, <3>2, ReaderStays
    <3> QED
      BY <2>2, <3>2, <3>3, <3>4
  <2> QED
    BY <2>5, <2>6, <2>7, <2>8
<1>5. ASSUME NEW r \in Reqs, CommandStep(r) PROVE CInv'
  <2>1. UNCHANGED <<rec, kpc, seen, status, way, late, lapses, expiries>>
    BY <1>5 DEF CommandStep, record
  <2>2. PICK l \in PC : pc' = [pc EXCEPT ![r] = l] /\ faults' \in {faults, faults + 1}
    BY <1>5, CommandMoves DEF CommandStep
  <2>3. way[r] = "direct" \/ kpc[r] = "running"
    BY <1>5 DEF CommandStep
  <2>4. WellFormed' /\ LeaseHeld'
    BY <2>1, <2>2 DEF WellFormed, LeaseHeld, IsRow, Key!FirstLease
  <2>5. NotBegun'
    BY <2>1, <2>2, <2>3 DEF WellFormed, NotBegun
  <2>6. LateReads'
    BY <2>1, <2>2, <2>3 DEF WellFormed, LateReads, Readers, Key!FirstLease
  <2> QED
    BY <2>4, <2>5, <2>6
<1>6. CASE UNCHANGED <<rec, kpc, seen, status, way, late, pc, lapses, expiries, faults>>
  BY <1>6 DEF WellFormed, LeaseHeld, NotBegun, LateReads, IsRow, Key!FirstLease
<1>7. ASSUME Key!LeaseLapse \/ Key!Expire, UNCHANGED <<approvals, way, late>> PROVE CInv'
  <2>1. /\ UNCHANGED <<kpc, seen, status, way, late, pc, faults>> /\ ~Key!FirstLease'
        /\ lapses' \in Nat /\ expiries' \in Nat
    BY <1>7 DEF Key!LeaseLapse, Key!Expire, approvals, calls, Key!calls, Key!FirstLease, WellFormed
  <2>2. IsRow(rec)'
    <3>1. CASE Key!Expire
      BY <3>1 DEF Key!Expire, Key!NoRecord, IsRow
    <3>2. CASE Key!LeaseLapse
      <4>1. rec' = [state |-> rec.state, fp |-> rec.fp, stamp |-> rec.stamp, lapsed |-> TRUE,
                    response |-> rec.response]
        BY <3>2 DEF Key!LeaseLapse, WellFormed, IsRow
      <4> QED
        BY <4>1 DEF IsRow
    <3> QED
      BY <1>7, <3>1, <3>2
  <2> QED
    BY <2>1, <2>2 DEF WellFormed, LeaseHeld, NotBegun, LateReads
<1>8. ASSUME NEW p \in Procs, Die(p) PROVE CInv'
  <2>1. /\ UNCHANGED <<rec, seen, status, late, lapses, expiries, faults>>
        /\ pc' = [r \in Reqs |-> IF Home[r] = p /\ pc[r] \notin {"idle", "done"} THEN "done" ELSE pc[r]]
        /\ kpc' = [r \in Reqs |-> IF Home[r] = p /\ kpc[r] \notin {"idle", "done"} THEN "done" ELSE kpc[r]]
        /\ way' = [r \in Reqs |-> IF Home[r] = p /\ way[r] # "new" THEN "dead" ELSE way[r]]
    BY <1>8 DEF Die, Crash, Key!Crash, Key!store
  <2>2. pc' \in [Reqs -> PC] /\ kpc' \in [Reqs -> KeyLabels] /\ way' \in [Reqs -> Ways]
    BY <2>1, LabelsAre DEF WellFormed, PC, Ways
  <2>3. WellFormed' /\ LeaseHeld'
    BY <2>1, <2>2 DEF WellFormed, LeaseHeld, IsRow, Key!FirstLease
  <2>4. NotBegun'
    BY <2>1 DEF NotBegun
  <2>5. LateReads'
    BY <2>1 DEF LateReads, Readers, WellFormed, Key!FirstLease
  <2> QED
    BY <2>3, <2>4, <2>5
<1>9. ASSUME NEW r \in Reqs, (Age(r) \/ DeleteExpired(r)) /\ UNCHANGED <<record, way, late>> PROVE CInv'
  <2>1. UNCHANGED <<rec, kpc, seen, status, way, late, pc, lapses, expiries, faults>>
    BY <1>9 DEF Age, DeleteExpired, record, calls, bounds
  <2> QED
    BY <1>6, <2>1
<1>10. ASSUME NEW r \in Reqs, KeyStep(r) \/ CommandReturns(r) PROVE CInv'
  BY <1>4, <1>10 DEF KeyStep, CommandReturns, Key!CallStep, Key!OwnerStep
<1>11. CASE UNCHANGED cvars
  BY <1>6, <1>11 DEF cvars, approvals, record, calls, bounds
<1> QED
  BY <1>1, <1>2, <1>3, <1>5, <1>7, <1>8, <1>9, <1>10, <1>11 DEF CNext

LEMMA ReadersAreAnswered == CInv /\ [][CNext]_cvars => []AnsweredByRecord
<1>1. CInv => AnsweredByRecord
  BY DEF CInv, LateReads, AnsweredByRecord
<1> QED
  BY <1>1, ConfirmedStep, PTL

\* A confirmed retry that begins when the key has a record never reaches the
\* command (cleanExecuteReadyForIdempotency, withCleanIdempotency): as long as no
\* lease elapses, no row expires and no query fails, whatever the other calls, the
\* approvals and the crashes of their processes.
THEOREM RetryIsAnswered == CSpec => []AnsweredByRecord
BY ConfirmedInit, ReadersAreAnswered, PTL DEF CSpec

-----------------------------------------------------------------------------
(* The approvals beside the records of keys: what is promised of a             *)
(* confirmation holds for calls with and without a key.                        *)

\* A call looks at the approvals, a process prunes them meanwhile, or a statement on
\* the records fails: no call of the approval store goes on.
Looks ==
  /\ UNCHANGED <<old, owns, calls, used, crashes>> /\ faults' \in {faults, faults + 1}
  /\ \/ UNCHANGED <<row, cache>>
     \/ \E p \in Procs : row' = PrunedRow /\ cache' = [cache EXCEPT ![p] = PrunedCache(p)]

\* A step of the composition is a step of the approvals, or such a look.
LEMMA StepOrLook == ASSUME [CNext]_cvars PROVE [Next]_vars \/ Looks
<1>1. ASSUME NEW r \in Reqs, NotReady(r) PROVE Looks
  BY <1>1 DEF NotReady, Looks, approvals, calls, bounds
<1>2. ASSUME NEW r \in Reqs, LookAtApprovals(r) PROVE Looks
  BY <1>2, HomeType DEF LookAtApprovals, Looks, Fault, calls
<1>3. ASSUME NEW r \in Reqs, LookAtRecord(r) PROVE Looks
  BY <1>3 DEF LookAtRecord, Looks, Fault, approvals, calls
<1>4. ASSUME NEW r \in Reqs, KeyStep(r) PROVE Looks
  <2>1. UNCHANGED <<row, old, cache, owns, calls, used>>
    BY <1>4 DEF KeyStep, approvals
  <2>2. crashes' = crashes /\ faults' \in {faults, faults + 1}
    <3>1. CASE Key!ClaimStep(r)
      BY <3>1 DEF Key!ClaimStep, Key!Lookup, Key!CheckFlight, Key!ReadTombstone, Key!ReadRecord, Key!InsertRecord,
         Key!RereadRecord, Key!RecheckFlight, Key!TakeOver, Key!ReadLoser, Key!SetFlight, Key!bounds
    <3>2. CASE Key!OwnerStep(r)
      BY <3>2 DEF Key!OwnerStep, Key!RunPreflight, Key!AbandonRecord, Key!ReleaseAbandoned, Key!StartHandler,
         Key!HandlerReturns, Key!CompleteRecord, Key!ReleaseCompleted, Key!MarkInDoubt, Key!ReleaseMarked,
         Key!LeaveTombstone, Key!Fault, Key!bounds
    <3>3. CASE Key!WaiterStep(r) \/ Key!GiveUp(r) \/ Key!FailClaim(r)
      BY <3>3 DEF Key!WaiterStep, Key!WakeWaiter, Key!ReadAfterWait, Key!GiveUp, Key!FailClaim, Key!Fault, Key!bounds
    <3> QED
      BY <1>4, <3>1, <3>2, <3>3 DEF KeyStep, Key!CallStep
  <2> QED
    BY <2>1, <2>2 DEF Looks
<1>5. ASSUME NEW r \in Reqs, CommandStep(r) PROVE Next
  BY <1>5 DEF CommandStep, Next
<1>6. ASSUME NEW r \in Reqs, CommandReturns(r) PROVE Looks
  BY <1>6 DEF CommandReturns, Looks, Key!HandlerReturns, Key!bounds, approvals
<1>7. ASSUME NEW r \in Reqs, Age(r) \/ DeleteExpired(r) PROVE Next
  BY <1>7 DEF Next
<1>8. ASSUME Key!LeaseLapse \/ Key!Expire, UNCHANGED approvals PROVE Looks
  BY <1>8 DEF Looks, Key!LeaseLapse, Key!Expire, approvals, calls
<1>9. ASSUME NEW p \in Procs, Die(p) PROVE Next
  BY <1>9 DEF Die, Next
<1>10. ASSUME UNCHANGED cvars PROVE UNCHANGED vars
  BY <1>10 DEF cvars, vars, approvals
<1> QED
  BY <1>1, <1>2, <1>3, <1>4, <1>5, <1>6, <1>7, <1>8, <1>9, <1>10 DEF CNext

\* A look keeps the types, and what is executed and shown.
LEMMA LookKeepsTypes == ASSUME TypeOK, Looks PROVE TypeOK'
<1>1. row' \in [Reqs -> RowStates]
  BY DEF TypeOK, Looks, PrunedRow, RowStates
<1>2. cache' \in [Procs -> SUBSET Reqs]
  BY DEF TypeOK, Looks, PrunedCache
<1> QED
  BY <1>1, <1>2 DEF TypeOK, Looks, calls

LEMMA LookKeepsRows ==
  ASSUME TypeOK, Looks
  PROVE  \A a \in Reqs : row'[a] = row[a] \/ (row[a] = "pending" /\ row'[a] = "expired" /\ a \in old)
BY DEF TypeOK, Looks, PrunedRow

LEMMA LookKeepsConfirmations ==
  ASSUME SInv, OneLiveApproval, Looks PROVE SInv' /\ OneLiveApproval'
<1>1. TypeOK /\ UNCHANGED <<pc, found, answer, used>>
  BY DEF SInv, IInv, Looks, calls
<1>2. \A a \in Reqs : row'[a] = row[a] \/ (row[a] = "pending" /\ row'[a] = "expired")
  BY <1>1, LookKeepsRows
<1>3. Backed'
  BY <1>1, <1>2 DEF SInv, IInv, Backed, TypeOK
<1>4. Reserved'
  BY <1>1, <1>2 DEF SInv, IInv, Reserved, TypeOK
<1>5. OneLiveApproval'
  BY <1>2 DEF OneLiveApproval
<1> QED
  BY <1>1, <1>3, <1>4, <1>5, LookKeepsTypes DEF SInv, IInv, Unanswered, ExecutesWhatWasShown

LEMMA LookKeepsShown == ASSUME TypeOK, ShownInv, Looks PROVE ShownInv'
<1>1. UNCHANGED <<old, pc, owns>> /\ faults' \in {faults, faults + 1}
  BY DEF Looks, calls
<1>2. /\ \A p \in Procs : cache'[p] \subseteq cache[p]
      /\ \A p \in Procs : \A a \in cache[p] : a \notin old => a \in cache'[p]
  BY DEF TypeOK, Looks, PrunedCache
<1>3. \A a \in Reqs : row'[a] = row[a] \/ (row[a] = "pending" /\ row'[a] = "expired" /\ a \in old)
  BY LookKeepsRows
<1>4. Thins
  <2>1. \A p \in Procs : cache[p] \subseteq Reqs
    BY DEF TypeOK
  <2> QED
    BY <1>1, <1>2, <1>3, <2>1 DEF Thins
<1>5. PutSees'
  BY <1>1, <1>2, <1>4, HomeType, ThinPuts
<1> QED
  BY <1>1, <1>4, <1>5, ThinCaches DEF ShownInv

\* Whichever calls have a key, and at whatever point of them: the types hold, and what
\* is promised of a confirmation.
LEMMA TypesBesideKeys == Init /\ [][CNext]_cvars => []TypeOK
<1>1. TypeOK /\ [CNext]_cvars => TypeOK'
  BY TypeStep, LookKeepsTypes, StepOrLook
<1> QED
  BY <1>1, TypeInit, PTL

LEMMA HeldBesideKeys == Init /\ [][CNext]_cvars => []ApprovalsHold
<1>1. Init => SInv /\ OneLiveApproval
  BY ShownInit DEF Init, OneLiveApproval
<1>2. SInv /\ OneLiveApproval /\ [CNext]_cvars => (SInv /\ OneLiveApproval)'
  <2> SUFFICES ASSUME SInv, OneLiveApproval, [CNext]_cvars PROVE (SInv /\ OneLiveApproval)'
    OBVIOUS
  <2>1. CASE [Next]_vars
    BY <2>1, ShownStep, OneLiveStep DEF SInv
  <2>2. CASE Looks
    BY <2>2, LookKeepsConfirmations
  <2> QED
    BY <2>1, <2>2, StepOrLook
<1>3. SInv /\ OneLiveApproval => ApprovalsHold
  BY DEF SInv, IInv, Reserved, OncePerApproval, ApprovalsHold
<1> QED
  BY <1>1, <1>2, <1>3, PTL

LEMMA ShownBesideKeys == Init /\ [][CNext]_cvars => ShownCanBeConfirmed
<1> DEFINE Both == TypeOK /\ ShownInv
<1>1. Init => Both
  BY TypeInit, ShownStarts
<1>2. Both /\ [CNext]_cvars => Both'
  <2> SUFFICES ASSUME Both, [CNext]_cvars PROVE Both'
    OBVIOUS
  <2>1. CASE [Next]_vars
    BY <2>1, TypeStep, ShownKept
  <2>2. CASE Looks
    BY <2>2, LookKeepsTypes, LookKeepsShown
  <2> QED
    BY <2>1, <2>2, StepOrLook
<1>3. Both /\ Both' /\ [CNext]_cvars => [ShownIsPending /\ NotReplaced]_vars
  <2> SUFFICES ASSUME Both, Both', [CNext]_cvars PROVE ShownIsPending /\ NotReplaced
    OBVIOUS
  <2>1. CASE [Next]_vars
    BY <2>1, StepShows
  <2>2. CASE Looks
    <3>1. answer' = answer
      BY <2>2 DEF Looks, calls
    <3>2. \A a \in Reqs : row[a] = "pending" => row'[a] # "deleted"
      BY <2>2, LookKeepsRows
    <3>3. ShownIsPending
      BY <3>1, ConstantsAssumption DEF ShownIsPending, TypeOK, Answers
    <3>4. NotReplaced
      BY <3>2 DEF NotReplaced
    <3> QED
      BY <3>3, <3>4
  <2> QED
    BY <2>1, <2>2, StepOrLook
<1> QED
  BY <1>1, <1>2, <1>3, PTL DEF ShownCanBeConfirmed

\* What a confirmation authorizes, with idempotency keys as without: one execution, of
\* what was shown, and no other approval stays behind (withCleanIdempotency around
\* toolCommandExecute, Consume, PutPending).
THEOREM HeldUnderKeys == CSpec => []ApprovalsHold
<1>1. CInit => Init
  BY DEF CInit
<1> QED
  BY <1>1, HeldBesideKeys, PTL DEF CSpec

\* What is shown can be confirmed, with idempotency keys as without: the looks that
\* judge a call and the records of keys replace no approval (cleanExecuteReadyForIdempotency).
THEOREM ShownUnderKeys == CSpec => ShownCanBeConfirmed
<1>1. CInit => Init
  BY DEF CInit
<1> QED
  BY <1>1, ShownBesideKeys, PTL DEF CSpec

-----------------------------------------------------------------------------
(* Skills and tools of upstream servers: ExtInv is inductive. *)

\* A call that needs the key of its request.
ExtKeyed(c) == extPlan[c].ask = "call" /\ extPlan[c].keyed

\* What a preflight has let pass: as its session was shown it, with arguments that fit.
Checked(c) == held[c] \in {NoRev, picked[c]} /\ picked[c].manifest \in extPlan[c].fits

\* Steps before a call has done anything, and steps with the key in hand.
Waits == {"out", "claim", "waiting"}
Preflights == {"open", "list", "load", "revise"}
Active == Preflights \cup {"ready", "calling", "starting", "returned", "refused"}

\* What is said of a call by how far it is: its kind and answer, its process, and
\* what it carried out.
StepFits(c) ==
  /\ extStep[c] \in Waits => instance[c] = NoInstance
  /\ extStep[c] \in {"claim", "waiting"} => ExtKeyed(c)
  /\ extStep[c] \in Waits \cup Preflights \cup {"ready", "calling", "starting"} => extAnswer[c] = "none"
  /\ extStep[c] \in {"open", "list", "calling"} => extPlan[c].kind = "mcp"
  /\ extStep[c] \in {"load", "revise", "starting"} => extPlan[c].kind = "skill"
  /\ extStep[c] \in {"ready", "calling", "starting", "returned", "refused"} => extPlan[c].ask = "call"
  /\ extStep[c] = "lease" => extPlan[c].ask = "describe"
  /\ extStep[c] = "returned" => extAnswer[c] \in {"result", "failed"}
  /\ extStep[c] = "refused" => extAnswer[c] \in ExtRefusals
  /\ extAnswer[c] \in Recorded => extStep[c] = "answered" /\ instance[c] = NoInstance /\ ran[c] = NoRev
  /\ extStep[c] \in {"close", "answered"} => ran[c] = NoRev \/ extAnswer[c] \in {"result", "failed"}
  /\ ran[c] # NoRev =>
       extPlan[c].ask = "call" /\ extStep[c] \in {"calling", "starting", "returned", "close", "answered", "lost"}
  /\ instance[c].state = "open" => ~EndOf(c)
  /\ pulse[c] # "off" => extStep[c] = "calling"

\* An upstream call is about the process whose list was read.
UpstreamFits(c) ==
  extPlan[c].kind = "mcp" =>
    /\ extStep[c] = "ready" => picked[c] = Rev("upstream", instance[c].tool, 0) /\ Checked(c)
    /\ ran[c] # NoRev => ran[c] = picked[c] /\ Checked(c)

\* As long as nobody changes skills, a call finds what it has found before.
SkillFits(c) ==
  /\ extStep[c] = "revise" => picked[c].dir \in DirSet
  /\ extStep[c] = "starting" => ran[c].dir \in DirSet /\ ran[c].entry = 0
  /\ extPlan[c].kind = "skill" /\ c \notin touched =>
       /\ extStep[c] = "revise" => picked[c] = Rev(SkillDir, skillFiles[SkillDir].manifest, 0)
       /\ extStep[c] \in {"ready", "starting"} =>
            picked[c] = Rev(SkillDir, skillFiles[SkillDir].manifest, EntryOf(SkillDir)) /\ Checked(c)
       /\ extStep[c] = "starting" => ran[c] = Rev(SkillDir, skillFiles[SkillDir].manifest, 0)
       /\ ran[c].entry # 0 => ran[c] = picked[c] /\ Checked(c)

\* Whose key it is.
KeyFits(c) ==
  LET its == keyRow[Owner(c)]
  IN /\ ExtKeyed(c) /\ extStep[c] \in Active => its = [state |-> "pending", by |-> c]
     /\ ExtKeyed(c) /\ extStep[c] # "lost" /\ ran[c] # NoRev => its.by = c /\ its.state # "none"
     /\ extStep[c] \in Waits \/ ~ExtKeyed(c) => its.by # c
     /\ extStep[c] \in {"close", "answered"} /\ its.by = c => its.state \in {"succeeded", "failed"}

ExtInv ==
  ExtensionsTypeOK /\ \A c \in ExtCalls : StepFits(c) /\ UpstreamFits(c) /\ SkillFits(c) /\ KeyFits(c)

Plans == extPlan \in ExtPlans
LEMMA ExtPlanFits ==
  ASSUME Plans, NEW c \in ExtCalls
  PROVE  /\ extPlan[c].ask \in {"describe", "call"} /\ extPlan[c].kind \in ExtensionKinds
         /\ extPlan[c].session \in ExtSessions /\ extPlan[c].keyed \in BOOLEAN
         /\ Owner(c) \in ExtSessions \X ExtensionKinds
  BY ExtensionsAssumption DEF Plans, Owner

\* Of the directories that hold the package one is scanned first.
LEMMA SkillDirIsOne == SkillDir \in DirSet \cup {"none"}
<1> SUFFICES ASSUME Packages # {} PROVE SkillDirs[CHOOSE i \in Packages : \A j \in Packages : i <= j] \in DirSet
  BY DEF SkillDir
<1>1. Packages \in SUBSET Nat
  BY ExtensionsAssumption DEF Packages
<1>2. PICK r \in Packages : \A o \in Packages : <<o, r>> \notin OpToRel(<, Nat)
  BY <1>1, WFMin, NatLessThanWellFounded, Zenon
<1>3. \A o \in Packages : ~(o < r)
  BY <1>1, <1>2, Zenon DEF OpToRel
<1>4. \A o \in Packages : r <= o
  BY <1>1, <1>3
<1>5. (CHOOSE i \in Packages : \A j \in Packages : i <= j) \in Packages
  BY <1>4
<1> QED
  BY <1>5 DEF Packages, DirSet, ToSet

LEMMA SkillDirOfFiles == skillFiles' = skillFiles => SkillDir' = SkillDir /\ \A d : EntryOf(d)' = EntryOf(d)
  BY DEF SkillDir, Packages, EntryOf

\* A record of a revision, by its fields.
LEMMA RevRecord ==
  ASSUME NEW d, NEW m, NEW e
  PROVE  /\ Rev(d, m, e).dir = d /\ Rev(d, m, e).manifest = m /\ Rev(d, m, e).entry = e
         /\ d \in DirSet \cup {"none", "upstream"} /\ m \in 0..LastVersion /\ e \in 0..LastVersion
              => Rev(d, m, e) \in Revisions
         /\ \A x : [Rev(d, m, e) EXCEPT !.entry = x] = Rev(d, m, x)
  BY DEF Rev, Revisions

LEMMA UpstreamIsSome == \A m : Rev("upstream", m, 0) # NoRev
  BY DEF Rev, NoRev

\* What belongs to one call.
Same(o) ==
  /\ extStep'[o] = extStep[o] /\ extAnswer'[o] = extAnswer[o] /\ instance'[o] = instance[o] /\ picked'[o] = picked[o]
  /\ held'[o] = held[o] /\ ran'[o] = ran[o] /\ pulse'[o] = pulse[o] /\ (o \in touched' <=> o \in touched)

ExtCallSteps(c) ==
  \/ ExtCallArrives(c) \/ ClaimExtKey(c) \/ EndExtWait(c) \/ RefuseExtCall(c) \/ CompleteExtCall(c)
  \/ CloseExtCall(c) \/ OpenClientSession(c) \/ ListUpstreamTools(c) \/ CallUpstream(c) \/ Heartbeat(c)
  \/ UpstreamReturns(c) \/ ConnectDeadline(c) \/ LoadSkill(c) \/ ReviseSkill(c) \/ ReloadSkill(c) \/ RunSkill(c)
  \/ KeepLease(c)

\* A step of a call leaves the others alone.
LEMMA StepsApart ==
  ASSUME ExtensionsTypeOK, NEW c \in ExtCalls, ExtCallSteps(c), NEW o \in ExtCalls, o # c
  PROVE  Same(o)
<1> USE DEF ExtensionsTypeOK, Same, ExtGoes, Says, world
<1>1. CASE ExtCallArrives(c)
  BY <1>1 DEF ExtCallArrives
<1>2. CASE ClaimExtKey(c)
  BY <1>2 DEF ClaimExtKey
<1>3. CASE EndExtWait(c)
  BY <1>3 DEF EndExtWait
<1>4. CASE RefuseExtCall(c) \/ CompleteExtCall(c)
  BY <1>4 DEF RefuseExtCall, CompleteExtCall
<1>5. CASE CloseExtCall(c)
  BY <1>5 DEF CloseExtCall
<1>6. CASE OpenClientSession(c)
  BY <1>6 DEF OpenClientSession, StopsWith
<1>7. CASE ListUpstreamTools(c)
  BY <1>7 DEF ListUpstreamTools, StopsWith, Preflighted
<1>8. CASE CallUpstream(c)
  BY <1>8 DEF CallUpstream
<1>9. CASE Heartbeat(c) \/ UpstreamReturns(c)
  BY <1>9 DEF Heartbeat, UpstreamReturns
<1>10. CASE ConnectDeadline(c)
  BY <1>10 DEF ConnectDeadline
<1>11. CASE LoadSkill(c)
  BY <1>11 DEF LoadSkill, StopsWith
<1>12. CASE ReviseSkill(c)
  BY <1>12 DEF ReviseSkill, StopsWith, Preflighted
<1>13. CASE ReloadSkill(c)
  BY <1>13 DEF ReloadSkill
<1>14. CASE RunSkill(c)
  BY <1>14 DEF RunSkill
<1>15. CASE KeepLease(c)
  BY <1>15 DEF KeepLease
<1> QED
  BY <1>1, <1>2, <1>3, <1>4, <1>5, <1>6, <1>7, <1>8, <1>9, <1>10, <1>11, <1>12, <1>13, <1>14, <1>15 DEF ExtCallSteps

LEMMA WorldApart ==
  ASSUME NEW c, ExtCallSteps(c)
  PROVE  /\ UNCHANGED <<extPlan, upstream, skillFiles, skillsOn, extChanges, extRestarts>>
         /\ UNCHANGED leases \/ KeepLease(c)
         /\ UNCHANGED keyRow \/ ClaimExtKey(c) \/ RefuseExtCall(c) \/ CompleteExtCall(c)
  BY DEF ExtCallSteps, world, ExtCallArrives, ClaimExtKey, EndExtWait, RefuseExtCall, CompleteExtCall, CloseExtCall,
         OpenClientSession, ListUpstreamTools, CallUpstream, Heartbeat, UpstreamReturns, ConnectDeadline, LoadSkill,
         ReviseSkill, ReloadSkill, RunSkill, KeepLease

\* What is said of a call that nobody touches stays true.
LEMMA OtherCallsFit ==
  ASSUME NEW o, Same(o), UNCHANGED <<extPlan, skillFiles>>, StepFits(o) /\ UpstreamFits(o) /\ SkillFits(o)
  PROVE  StepFits(o)' /\ UpstreamFits(o)' /\ SkillFits(o)'
<1>1. Checked(o)' <=> Checked(o)
  BY DEF Checked, Same
<1>2. StepFits(o)'
  BY DEF Same, StepFits, ExtKeyed, EndOf
<1>3. UpstreamFits(o)'
  BY <1>1 DEF Same, UpstreamFits
<1>4. SkillFits(o)'
  BY <1>1, SkillDirOfFiles DEF Same, SkillFits, EntryOf
<1> QED
  BY <1>2, <1>3, <1>4

\* The variables of a call are functions.
LEMMA ExtFunctions ==
  ASSUME ExtensionsTypeOK
  PROVE  /\ DOMAIN extStep = ExtCalls /\ DOMAIN extAnswer = ExtCalls /\ DOMAIN instance = ExtCalls
         /\ DOMAIN picked = ExtCalls /\ DOMAIN held = ExtCalls /\ DOMAIN ran = ExtCalls /\ DOMAIN pulse = ExtCalls
         /\ \A c \in ExtCalls :
              /\ picked[c] \in Revisions /\ held[c] \in Revisions /\ ran[c] \in Revisions
              /\ instance[c] \in [state : {"none", "open", "killed", "closed"}, tool : 0..LastVersion]
         /\ Plans
  BY DEF ExtensionsTypeOK, Plans

FitsNext(c) == StepFits(c)' /\ UpstreamFits(c)' /\ SkillFits(c)'

\* A call that ends without having carried anything out.
LEMMA StopFits ==
  ASSUME ExtInv, NEW c \in ExtCalls, NEW code \in ExtRefusals, StopsWith(c, code), extStep[c] \in Preflights,
         UNCHANGED <<extPlan, instance, ran, pulse>>
  PROVE  FitsNext(c)
<1> DEFINE s == IF extPlan[c].ask = "call" THEN "refused" ELSE "close"
<1>1. extStep'[c] = s /\ extAnswer'[c] = code
  BY DEF StopsWith, Says, ExtInv, ExtensionsTypeOK
<1>2. s \in {"refused", "close"} /\ (s = "refused" => extPlan[c].ask = "call")
  OBVIOUS
<1>3. ran[c] = NoRev /\ code \notin Recorded /\ pulse[c] = "off"
  BY DEF ExtInv, StepFits, Preflights, ExtRefusals, Recorded
<1>4. ran[c].entry = 0
  BY <1>3 DEF NoRev, Rev
<1> HIDE DEF s
<1>5. StepFits(c)'
  BY <1>1, <1>2, <1>3 DEF ExtInv, StepFits, Waits, Preflights, EndOf, Recorded, ExtRefusals
<1>6. UpstreamFits(c)' /\ SkillFits(c)'
  BY <1>1, <1>2, <1>3, <1>4 DEF UpstreamFits, SkillFits
<1> QED
  BY <1>5, <1>6 DEF FitsNext

\* What a preflight comes to.
LEMMA PreflightSays ==
  ASSUME ExtInv, NEW c \in ExtCalls, NEW rev, Preflighted(c, rev)
  PROVE  /\ held'[c] = leases[Owner(c)]
         /\ \/ StopsWith(c, "changed") \/ StopsWith(c, "arguments")
            \/ /\ extStep' = [extStep EXCEPT ![c] = "ready"] /\ extStep'[c] = "ready" /\ extAnswer' = extAnswer
               /\ held'[c] \in {NoRev, rev} /\ rev.manifest \in extPlan[c].fits
<1>1. held'[c] = leases[Owner(c)]
  BY DEF Preflighted, ExtInv, ExtensionsTypeOK
<1>2. \/ StopsWith(c, "changed") \/ StopsWith(c, "arguments")
      \/ /\ leases[Owner(c)] \in {NoRev, rev} /\ rev.manifest \in extPlan[c].fits
         /\ extStep' = [extStep EXCEPT ![c] = "ready"] /\ extAnswer' = extAnswer
  BY DEF Preflighted, ExtArgumentsFit
<1>3. extStep' = [extStep EXCEPT ![c] = "ready"] => extStep'[c] = "ready"
  BY DEF ExtInv, ExtensionsTypeOK
<1> QED
  BY <1>1, <1>2, <1>3

\* Steps before and after the tool: they carry nothing out.
LEMMA EdgesFit ==
  ASSUME ExtInv, NEW c \in ExtCalls,
         \/ ExtCallArrives(c) \/ ClaimExtKey(c) \/ EndExtWait(c) \/ RefuseExtCall(c) \/ CompleteExtCall(c)
         \/ CloseExtCall(c) \/ KeepLease(c)
  PROVE  FitsNext(c)
<1>1. ExtensionsTypeOK /\ StepFits(c) /\ UpstreamFits(c) /\ SkillFits(c)
  BY DEF ExtInv
<1>2. UNCHANGED <<extPlan, skillFiles, picked, held, ran, touched, pulse>>
  BY DEF ExtCallArrives, ClaimExtKey, EndExtWait, RefuseExtCall, CompleteExtCall, CloseExtCall, KeepLease, world
<1>3. /\ SkillDir' = SkillDir /\ (\A d : EntryOf(d)' = EntryOf(d)) /\ (Checked(c)' <=> Checked(c))
      /\ NoRev.entry = 0
  BY <1>2, SkillDirOfFiles DEF Checked, NoRev, Rev
<1>4. CASE ExtCallArrives(c)
  <2>1. /\ extStep[c] = "out" /\ extStep'[c] \in {"claim", "open", "load"} /\ extAnswer' = extAnswer
        /\ extStep'[c] = "claim" => ExtKeyed(c)
        /\ extStep'[c] = "open" => extPlan[c].kind = "mcp"
        /\ extStep'[c] = "load" => extPlan[c].kind = "skill"
        /\ instance' = instance
    BY <1>1, <1>4, ExtPlanFits DEF ExtCallArrives, ExtGoes, ExtensionsTypeOK, Plans, ExtKeyed, ExtensionKinds
  <2>2. ran[c] = NoRev /\ pulse[c] = "off" /\ instance[c] = NoInstance /\ extAnswer[c] = "none"
    BY <1>1, <2>1 DEF StepFits, Waits
  <2>3. StepFits(c)'
    BY <1>2, <2>1, <2>2 DEF StepFits, Waits, Preflights, EndOf, ExtKeyed, Recorded, NoInstance
  <2>4. UpstreamFits(c)' /\ SkillFits(c)'
    BY <1>2, <1>3, <2>1, <2>2 DEF UpstreamFits, SkillFits
  <2> QED
    BY <2>3, <2>4 DEF FitsNext
<1>5. CASE ClaimExtKey(c)
  <2>1. /\ extStep[c] = "claim" /\ instance' = instance
        /\ \/ extStep'[c] \in {"open", "load", "waiting"} /\ extAnswer' = extAnswer
           \/ extStep'[c] = "answered" /\ extAnswer'[c] \in Recorded
        /\ extStep'[c] = "open" => extPlan[c].kind = "mcp"
        /\ extStep'[c] = "load" => extPlan[c].kind = "skill"
    BY <1>1, <1>5, ExtPlanFits DEF ClaimExtKey, ExtGoes, Says, ExtensionsTypeOK, Plans, ExtensionKinds, Recorded
  <2>2. ran[c] = NoRev /\ pulse[c] = "off" /\ instance[c] = NoInstance /\ extAnswer[c] = "none" /\ ExtKeyed(c)
    BY <1>1, <2>1 DEF StepFits, Waits
  <2>3. StepFits(c)'
    BY <1>2, <2>1, <2>2 DEF StepFits, Waits, Preflights, EndOf, ExtKeyed, Recorded, NoInstance
  <2>4. UpstreamFits(c)' /\ SkillFits(c)'
    BY <1>2, <1>3, <2>1, <2>2 DEF UpstreamFits, SkillFits
  <2> QED
    BY <2>3, <2>4 DEF FitsNext
<1>6. CASE EndExtWait(c)
  <2>1. /\ extStep[c] = "waiting" /\ instance' = instance /\ extStep'[c] = "answered" /\ extAnswer'[c] \in Recorded
    BY <1>1, <1>6 DEF EndExtWait, ExtGoes, Says, ExtensionsTypeOK, Recorded
  <2>2. ran[c] = NoRev /\ pulse[c] = "off" /\ instance[c] = NoInstance
    BY <1>1, <2>1 DEF StepFits, Waits
  <2>3. StepFits(c)'
    BY <1>2, <2>1, <2>2 DEF StepFits, Waits, Preflights, EndOf, ExtKeyed, Recorded, NoInstance
  <2>4. UpstreamFits(c)' /\ SkillFits(c)'
    BY <1>2, <1>3, <2>1, <2>2 DEF UpstreamFits, SkillFits
  <2> QED
    BY <2>3, <2>4 DEF FitsNext
<1>7. CASE RefuseExtCall(c) \/ CompleteExtCall(c)
  <2>1. /\ extStep[c] \in {"refused", "returned"} /\ instance' = instance /\ extAnswer' = extAnswer
        /\ extStep'[c] = "close"
    BY <1>1, <1>7 DEF RefuseExtCall, CompleteExtCall, world, ExtGoes, ExtensionsTypeOK
  <2>2. pulse[c] = "off" /\ (ran[c] = NoRev \/ extAnswer[c] \in {"result", "failed"}) /\ extAnswer[c] \notin Recorded
    BY <1>1, <2>1 DEF StepFits, Recorded, ExtensionsTypeOK
  <2>3. StepFits(c)'
    BY <1>1, <1>2, <2>1, <2>2 DEF StepFits, Waits, Preflights, EndOf
  <2>4. UpstreamFits(c)' /\ SkillFits(c)'
    BY <1>1, <1>2, <1>3, <2>1 DEF UpstreamFits, SkillFits
  <2> QED
    BY <2>3, <2>4 DEF FitsNext
<1>8. CASE CloseExtCall(c)
  <2>1. /\ extStep[c] = "close" /\ extAnswer' = extAnswer /\ extStep'[c] = "answered"
        /\ instance'[c] \in [state : {"none", "open", "killed", "closed"}, tool : 0..LastVersion]
        /\ instance'[c].state # "open"
    BY <1>1, <1>8 DEF CloseExtCall, ExtGoes, ExtensionsTypeOK
  <2>2. pulse[c] = "off" /\ extAnswer[c] \notin Recorded
    BY <1>1, <2>1 DEF StepFits, Recorded, ExtensionsTypeOK
  <2>3. StepFits(c)'
    BY <1>1, <1>2, <2>1, <2>2 DEF StepFits, Waits, Preflights, EndOf
  <2>4. UpstreamFits(c)' /\ SkillFits(c)'
    BY <1>1, <1>2, <1>3, <2>1 DEF UpstreamFits, SkillFits
  <2> QED
    BY <2>3, <2>4 DEF FitsNext
<1>9. CASE KeepLease(c)
  <2>1. extStep[c] = "lease" /\ instance' = instance /\ extStep'[c] = "close" /\ extAnswer'[c] = "described"
    BY <1>1, <1>9 DEF KeepLease, ExtGoes, Says, ExtensionsTypeOK
  <2>2. pulse[c] = "off" /\ ran[c] = NoRev
    BY <1>1, <2>1 DEF StepFits, ExtensionsTypeOK
  <2>3. StepFits(c)'
    BY <1>1, <1>2, <2>1, <2>2 DEF StepFits, Waits, Preflights, EndOf, Recorded
  <2>4. UpstreamFits(c)' /\ SkillFits(c)'
    BY <1>1, <1>2, <1>3, <2>1, <2>2 DEF UpstreamFits, SkillFits
  <2> QED
    BY <2>3, <2>4 DEF FitsNext
<1> QED
  BY <1>4, <1>5, <1>6, <1>7, <1>8, <1>9

LEMMA OpenFits ==
  ASSUME ExtInv, NEW c \in ExtCalls, OpenClientSession(c)
  PROVE  FitsNext(c)
<1>1. ExtensionsTypeOK /\ StepFits(c) /\ UpstreamFits(c) /\ SkillFits(c)
  BY DEF ExtInv
<1>2. UNCHANGED <<extPlan, skillFiles, picked, held, ran, touched, pulse>> /\ extStep[c] = "open"
  BY DEF OpenClientSession, world
<1>3. ran[c] = NoRev /\ ran[c].entry = 0 /\ pulse[c] = "off" /\ extAnswer[c] = "none" /\ extPlan[c].kind = "mcp"
  BY <1>1, <1>2 DEF StepFits, Preflights, NoRev, Rev
<1>4. CASE extStep'[c] = "list" /\ UNCHANGED extAnswer /\ instance'[c].state = "open"
  <2>1. StepFits(c)'
    BY <1>2, <1>3, <1>4 DEF StepFits, Waits, Preflights, EndOf, Recorded
  <2>2. UpstreamFits(c)' /\ SkillFits(c)'
    BY <1>2, <1>3, <1>4 DEF UpstreamFits, SkillFits
  <2> QED
    BY <2>1, <2>2 DEF FitsNext
<1>5. CASE UNCHANGED instance /\ (StopsWith(c, "not_found") \/ StopsWith(c, "unavailable"))
  BY <1>2, <1>5, StopFits DEF Preflights, ExtRefusals
<1>6. \/ extStep'[c] = "list" /\ UNCHANGED extAnswer /\ instance'[c].state = "open"
      \/ UNCHANGED instance /\ (StopsWith(c, "not_found") \/ StopsWith(c, "unavailable"))
  <2>1. CASE upstream.state = "up"
    <3>1. instance'[c] = [state |-> "open", tool |-> upstream.tool] /\ extStep'[c] = "list" /\ UNCHANGED extAnswer
      BY <1>1, <2>1 DEF OpenClientSession, ExtGoes, ExtensionsTypeOK
    <3> QED
      BY <3>1
  <2>2. CASE upstream.state # "up"
    BY <2>2 DEF OpenClientSession
  <2> QED
    BY <2>1, <2>2
<1> QED
  BY <1>4, <1>5, <1>6

LEMMA ListFits ==
  ASSUME ExtInv, NEW c \in ExtCalls, ListUpstreamTools(c)
  PROVE  FitsNext(c)
<1>1. ExtensionsTypeOK /\ StepFits(c) /\ UpstreamFits(c) /\ SkillFits(c)
  BY DEF ExtInv
<1>2. UNCHANGED <<extPlan, skillFiles, instance, ran, touched, pulse>> /\ extStep[c] = "list"
  BY DEF ListUpstreamTools, world
<1>3. /\ ran[c] = NoRev /\ ran[c].entry = 0 /\ pulse[c] = "off" /\ extAnswer[c] = "none" /\ extPlan[c].kind = "mcp"
      /\ extPlan[c].ask \in {"describe", "call"}
  BY <1>1, <1>2, ExtPlanFits DEF StepFits, Preflights, NoRev, Rev, ExtensionsTypeOK, Plans
<1> DEFINE listed == Rev("upstream", instance[c].tool, 0)
<1>4. CASE StopsWith(c, "unavailable") \/ StopsWith(c, "not_found")
  BY <1>2, <1>4, StopFits DEF Preflights, ExtRefusals
<1>5. CASE picked' = [picked EXCEPT ![c] = listed] /\ extPlan[c].ask = "call" /\ Preflighted(c, listed)
  <2>1. picked'[c] = listed
    BY <1>1, <1>5 DEF ExtensionsTypeOK
  <2> HIDE DEF listed
  <2>2. CASE StopsWith(c, "changed") \/ StopsWith(c, "arguments")
    BY <1>2, <2>2, StopFits DEF Preflights, ExtRefusals
  <2>3. CASE /\ extStep'[c] = "ready" /\ extAnswer' = extAnswer
             /\ held'[c] \in {NoRev, listed} /\ listed.manifest \in extPlan[c].fits
    <3>1. Checked(c)'
      BY <1>2, <2>1, <2>3 DEF Checked
    <3>2. StepFits(c)'
      BY <1>1, <1>2, <1>3, <1>5, <2>3 DEF StepFits, Waits, Preflights, EndOf, Recorded
    <3>3. UpstreamFits(c)' /\ SkillFits(c)'
      BY <1>2, <1>3, <2>1, <2>3, <3>1 DEF UpstreamFits, SkillFits, listed
    <3> QED
      BY <3>2, <3>3 DEF FitsNext
  <2> QED
    BY <1>5, <2>2, <2>3, PreflightSays
<1>6. CASE extPlan[c].ask # "call" /\ extStep'[c] = "lease" /\ extAnswer' = extAnswer
  <2>1. StepFits(c)'
    BY <1>1, <1>2, <1>3, <1>6 DEF StepFits, Waits, Preflights, EndOf, Recorded
  <2>2. UpstreamFits(c)' /\ SkillFits(c)'
    BY <1>2, <1>3, <1>6 DEF UpstreamFits, SkillFits
  <2> QED
    BY <2>1, <2>2 DEF FitsNext
<1>7. \/ StopsWith(c, "unavailable") \/ StopsWith(c, "not_found")
      \/ picked' = [picked EXCEPT ![c] = listed] /\ extPlan[c].ask = "call" /\ Preflighted(c, listed)
      \/ extPlan[c].ask # "call" /\ extStep'[c] = "lease" /\ extAnswer' = extAnswer
  BY <1>1 DEF ListUpstreamTools, ExtGoes, ExtensionsTypeOK
<1> QED
  BY <1>4, <1>5, <1>6, <1>7

LEMMA UpstreamCallFits ==
  ASSUME ExtInv, NEW c \in ExtCalls, CallUpstream(c)
  PROVE  FitsNext(c)
<1>1. ExtensionsTypeOK /\ StepFits(c) /\ UpstreamFits(c) /\ SkillFits(c)
  BY DEF ExtInv
<1>2. /\ UNCHANGED <<extPlan, skillFiles, instance, picked, held, touched>> /\ extStep[c] = "ready"
      /\ extPlan[c].kind = "mcp"
  BY DEF CallUpstream, world
<1>3. /\ ran[c] = NoRev /\ pulse[c] = "off" /\ extAnswer[c] = "none" /\ extPlan[c].ask = "call"
      /\ picked[c] = Rev("upstream", instance[c].tool, 0) /\ Checked(c) /\ (Checked(c)' <=> Checked(c))
  BY <1>1, <1>2 DEF StepFits, UpstreamFits, Checked
<1>4. CASE instance[c].state = "killed"
  <2>1. extStep'[c] = "returned" /\ extAnswer'[c] = "failed" /\ UNCHANGED <<ran, pulse>>
    BY <1>1, <1>4 DEF CallUpstream, ExtGoes, Says, ExtensionsTypeOK
  <2>2. StepFits(c)'
    BY <1>1, <1>2, <1>3, <1>4, <2>1 DEF StepFits, Waits, Preflights, EndOf, Recorded
  <2>3. UpstreamFits(c)' /\ SkillFits(c)'
    BY <1>2, <1>3, <2>1 DEF UpstreamFits, SkillFits
  <2> QED
    BY <2>2, <2>3 DEF FitsNext
<1>5. CASE instance[c].state # "killed"
  <2>1. extStep'[c] = "calling" /\ extAnswer' = extAnswer /\ ran'[c] = picked[c] /\ pulse'[c] = "on"
    BY <1>1, <1>3, <1>5 DEF CallUpstream, ExtGoes, ExtensionsTypeOK
  <2>2. StepFits(c)'
    BY <1>1, <1>2, <1>3, <2>1 DEF StepFits, Waits, Preflights, EndOf, Recorded
  <2>3. UpstreamFits(c)' /\ SkillFits(c)'
    BY <1>2, <1>3, <2>1 DEF UpstreamFits, SkillFits
  <2> QED
    BY <2>2, <2>3 DEF FitsNext
<1> QED
  BY <1>4, <1>5

\* The heartbeat, the answer of the upstream, and the end of its process.
LEMMA CallingFits ==
  ASSUME ExtInv, NEW c \in ExtCalls, Heartbeat(c) \/ UpstreamReturns(c) \/ ConnectDeadline(c)
  PROVE  FitsNext(c)
<1>1. ExtensionsTypeOK /\ StepFits(c) /\ UpstreamFits(c) /\ SkillFits(c)
  BY DEF ExtInv
<1>2. UNCHANGED <<extPlan, skillFiles, picked, held, ran, touched>>
  BY DEF Heartbeat, UpstreamReturns, ConnectDeadline, world
<1>3. /\ SkillDir' = SkillDir /\ (\A d : EntryOf(d)' = EntryOf(d)) /\ (Checked(c)' <=> Checked(c))
  BY <1>2, SkillDirOfFiles DEF Checked
<1>4. CASE Heartbeat(c)
  <2>1. /\ UNCHANGED <<extStep, extAnswer, instance>>
        /\ extStep[c] = "calling"
    BY <1>1, <1>4 DEF Heartbeat, StepFits
  <2>2. StepFits(c)'
    BY <1>1, <1>2, <2>1 DEF StepFits, EndOf, ExtKeyed
  <2>3. UpstreamFits(c)' /\ SkillFits(c)'
    BY <1>1, <1>2, <1>3, <2>1 DEF UpstreamFits, SkillFits
  <2> QED
    BY <2>2, <2>3 DEF FitsNext
<1>5. CASE UpstreamReturns(c)
  <2>1. /\ UNCHANGED instance /\ pulse'[c] = "off" /\ extStep[c] = "calling" /\ extStep'[c] = "returned"
        /\ extAnswer'[c] \in {"result", "failed"}
    BY <1>1, <1>5 DEF UpstreamReturns, ExtGoes, Says, world, ExtensionsTypeOK
  <2>2. StepFits(c)'
    BY <1>1, <1>2, <2>1 DEF StepFits, Waits, Preflights, EndOf, Recorded
  <2>3. UpstreamFits(c)' /\ SkillFits(c)'
    BY <1>1, <1>2, <1>3, <2>1 DEF UpstreamFits, SkillFits
  <2> QED
    BY <2>2, <2>3 DEF FitsNext
<1>6. CASE ConnectDeadline(c)
  <2>1. /\ UNCHANGED <<extStep, extAnswer, pulse>> /\ instance[c].state = "open" /\ ~EndOf(c)
        /\ instance'[c].state = "killed" /\ instance'[c].tool = instance[c].tool
    BY <1>1, <1>6 DEF ConnectDeadline, ExtensionsTypeOK
  <2>2. extStep[c] \notin Waits /\ extAnswer[c] \notin Recorded
    BY <1>1, <2>1 DEF StepFits, NoInstance
  <2>3. StepFits(c)'
    BY <1>1, <1>2, <2>1, <2>2 DEF StepFits, EndOf, ExtKeyed
  <2>4. UpstreamFits(c)' /\ SkillFits(c)'
    BY <1>1, <1>2, <1>3, <2>1 DEF UpstreamFits, SkillFits
  <2> QED
    BY <2>3, <2>4 DEF FitsNext
<1> QED
  BY <1>4, <1>5, <1>6

LEMMA LoadFits ==
  ASSUME ExtInv, NEW c \in ExtCalls, LoadSkill(c)
  PROVE  FitsNext(c)
<1>1. ExtensionsTypeOK /\ StepFits(c) /\ UpstreamFits(c) /\ SkillFits(c)
  BY DEF ExtInv
<1>2. UNCHANGED <<extPlan, skillFiles, instance, held, ran, pulse>> /\ extStep[c] = "load"
  BY DEF LoadSkill, world
<1>3. ran[c] = NoRev /\ ran[c].entry = 0 /\ pulse[c] = "off" /\ extAnswer[c] = "none" /\ extPlan[c].kind = "skill"
  BY <1>1, <1>2 DEF StepFits, Preflights, NoRev, Rev
<1>4. CASE StopsWith(c, "disabled") \/ StopsWith(c, "not_found")
  BY <1>2, <1>4, StopFits DEF Preflights, ExtRefusals
<1>5. CASE /\ SkillDir # "none" /\ picked'[c] = Rev(SkillDir, skillFiles[SkillDir].manifest, 0)
           /\ extStep'[c] = "revise" /\ extAnswer' = extAnswer
  <2>1. StepFits(c)'
    BY <1>1, <1>2, <1>3, <1>5 DEF StepFits, Waits, Preflights, EndOf, Recorded
  <2>2. picked'[c].dir \in DirSet
    BY <1>5, SkillDirIsOne, RevRecord
  <2>3. SkillDir' = SkillDir
    BY <1>2, SkillDirOfFiles
  <2>4. UpstreamFits(c)' /\ SkillFits(c)'
    BY <1>2, <1>3, <1>5, <2>2, <2>3 DEF UpstreamFits, SkillFits
  <2> QED
    BY <2>1, <2>4 DEF FitsNext
<1>6. \/ StopsWith(c, "disabled") \/ StopsWith(c, "not_found")
      \/ /\ SkillDir # "none" /\ picked'[c] = Rev(SkillDir, skillFiles[SkillDir].manifest, 0)
         /\ extStep'[c] = "revise" /\ extAnswer' = extAnswer
  BY <1>1 DEF LoadSkill, ExtGoes, ExtensionsTypeOK
<1> QED
  BY <1>4, <1>5, <1>6

LEMMA ReviseFits ==
  ASSUME ExtInv, NEW c \in ExtCalls, ReviseSkill(c)
  PROVE  FitsNext(c)
<1>1. ExtensionsTypeOK /\ StepFits(c) /\ UpstreamFits(c) /\ SkillFits(c)
  BY DEF ExtInv
<1>2. UNCHANGED <<extPlan, skillFiles, instance, ran, touched, pulse>> /\ extStep[c] = "revise"
  BY DEF ReviseSkill, world
<1>3. /\ ran[c] = NoRev /\ ran[c].entry = 0 /\ pulse[c] = "off" /\ extAnswer[c] = "none" /\ extPlan[c].kind = "skill"
      /\ extPlan[c].ask \in {"describe", "call"}
  BY <1>1, <1>2, ExtPlanFits DEF StepFits, Preflights, NoRev, Rev, ExtensionsTypeOK, Plans
<1>4. /\ SkillDir' = SkillDir /\ (\A d : EntryOf(d)' = EntryOf(d))
      /\ picked'[c] = SkillRevision(c)
  BY <1>1, <1>2, SkillDirOfFiles DEF ReviseSkill, ExtensionsTypeOK
<1>5. c \notin touched => SkillRevision(c) = Rev(SkillDir, skillFiles[SkillDir].manifest, EntryOf(SkillDir))
  BY <1>1, <1>2, <1>3, RevRecord DEF SkillFits, SkillRevision
<1>6. CASE extPlan[c].ask = "call"
  <2>1. Preflighted(c, SkillRevision(c))
    BY <1>6 DEF ReviseSkill
  <2>2. CASE StopsWith(c, "changed") \/ StopsWith(c, "arguments")
    BY <1>2, <2>2, StopFits DEF Preflights, ExtRefusals
  <2>3. CASE /\ extStep'[c] = "ready" /\ extAnswer' = extAnswer
             /\ held'[c] \in {NoRev, SkillRevision(c)} /\ SkillRevision(c).manifest \in extPlan[c].fits
    <3>1. Checked(c)'
      BY <1>2, <1>4, <2>3 DEF Checked
    <3>2. StepFits(c)'
      BY <1>1, <1>2, <1>3, <1>6, <2>3 DEF StepFits, Waits, Preflights, EndOf, Recorded
    <3>3. UpstreamFits(c)' /\ SkillFits(c)'
      BY <1>2, <1>3, <1>4, <1>5, <2>3, <3>1 DEF UpstreamFits, SkillFits
    <3> QED
      BY <3>2, <3>3 DEF FitsNext
  <2> QED
    BY <2>1, <2>2, <2>3, PreflightSays
<1>7. CASE extPlan[c].ask # "call"
  <2>1. extStep'[c] = "lease" /\ extAnswer' = extAnswer
    BY <1>1, <1>7 DEF ReviseSkill, ExtGoes, ExtensionsTypeOK
  <2>2. StepFits(c)'
    BY <1>1, <1>2, <1>3, <1>7, <2>1 DEF StepFits, Waits, Preflights, EndOf, Recorded
  <2>3. UpstreamFits(c)' /\ SkillFits(c)'
    BY <1>2, <1>3, <2>1 DEF UpstreamFits, SkillFits
  <2> QED
    BY <2>2, <2>3 DEF FitsNext
<1> QED
  BY <1>6, <1>7

LEMMA ReloadFits ==
  ASSUME ExtInv, NEW c \in ExtCalls, ReloadSkill(c)
  PROVE  FitsNext(c)
<1>1. ExtensionsTypeOK /\ StepFits(c) /\ UpstreamFits(c) /\ SkillFits(c)
  BY DEF ExtInv
<1>2. /\ UNCHANGED <<extPlan, skillFiles, instance, picked, held, touched, pulse>> /\ extStep[c] = "ready"
      /\ extPlan[c].kind = "skill"
  BY DEF ReloadSkill, world
<1>3. /\ ran[c] = NoRev /\ ran[c].entry = 0 /\ pulse[c] = "off" /\ extAnswer[c] = "none" /\ extPlan[c].ask = "call"
  BY <1>1, <1>2 DEF StepFits, NoRev, Rev
<1>4. /\ SkillDir' = SkillDir /\ (\A d : EntryOf(d)' = EntryOf(d)) /\ (Checked(c)' <=> Checked(c))
  BY <1>2, SkillDirOfFiles DEF Checked
<1>5. CASE extStep'[c] = "returned" /\ extAnswer'[c] = "failed" /\ UNCHANGED ran
  <2>1. StepFits(c)'
    BY <1>1, <1>2, <1>3, <1>5 DEF StepFits, Waits, Preflights, EndOf, Recorded
  <2>2. UpstreamFits(c)' /\ SkillFits(c)'
    BY <1>2, <1>3, <1>5 DEF UpstreamFits, SkillFits
  <2> QED
    BY <2>1, <2>2 DEF FitsNext
<1>6. CASE /\ SkillDir # "none" /\ ran'[c] = Rev(SkillDir, skillFiles[SkillDir].manifest, 0)
           /\ extStep'[c] = "starting" /\ extAnswer' = extAnswer
  <2>1. StepFits(c)'
    BY <1>1, <1>2, <1>3, <1>6 DEF StepFits, Waits, Preflights, EndOf, Recorded
  <2>2. ran'[c].dir \in DirSet /\ ran'[c].entry = 0
    BY <1>6, SkillDirIsOne, RevRecord
  <2>3. UpstreamFits(c)' /\ SkillFits(c)'
    BY <1>1, <1>2, <1>4, <1>6, <2>2 DEF UpstreamFits, SkillFits
  <2> QED
    BY <2>1, <2>3 DEF FitsNext
<1>7. \/ extStep'[c] = "returned" /\ extAnswer'[c] = "failed" /\ UNCHANGED ran
      \/ /\ SkillDir # "none" /\ ran'[c] = Rev(SkillDir, skillFiles[SkillDir].manifest, 0)
         /\ extStep'[c] = "starting" /\ extAnswer' = extAnswer
  BY <1>1 DEF ReloadSkill, ExtGoes, Says, ExtensionsTypeOK
<1> QED
  BY <1>5, <1>6, <1>7

LEMMA RunFits ==
  ASSUME ExtInv, NEW c \in ExtCalls, RunSkill(c)
  PROVE  FitsNext(c)
<1>1. ExtensionsTypeOK /\ StepFits(c) /\ UpstreamFits(c) /\ SkillFits(c)
  BY DEF ExtInv
<1>2. /\ UNCHANGED <<extPlan, skillFiles, instance, picked, held, touched, pulse>>
      /\ extStep[c] = "starting" /\ extStep'[c] = "returned" /\ extAnswer'[c] \in {"result", "failed"}
      /\ ran' = [ran EXCEPT ![c].entry = EntryOf(ran[c].dir)]
  BY <1>1 DEF RunSkill, world, ExtGoes, Says, ExtensionsTypeOK
<1>3. pulse[c] = "off" /\ extPlan[c].ask = "call" /\ extPlan[c].kind = "skill"
  BY <1>1, <1>2 DEF StepFits
<1>4. (Checked(c)' <=> Checked(c)) /\ ran'[c] = [ran[c] EXCEPT !.entry = EntryOf(ran[c].dir)]
  BY <1>1, <1>2 DEF Checked, ExtensionsTypeOK
<1>5. c \notin touched => ran'[c] = picked[c] /\ Checked(c)
  BY <1>1, <1>2, <1>3, <1>4, RevRecord DEF SkillFits
<1>6. StepFits(c)'
  BY <1>1, <1>2, <1>3 DEF StepFits, Waits, Preflights, EndOf, Recorded
<1>7. UpstreamFits(c)' /\ SkillFits(c)'
  BY <1>2, <1>3, <1>4, <1>5 DEF UpstreamFits, SkillFits
<1> QED
  BY <1>6, <1>7 DEF FitsNext

ExtStepNames ==
  {"out", "claim", "waiting", "open", "list", "lease", "load", "revise", "ready", "calling",
   "starting", "returned", "refused", "close", "answered", "lost"}
ExtAnswers == {"none", "described", "result", "failed"} \cup Recorded \cup ExtRefusals
Processes == [state : {"none", "open", "killed", "closed"}, tool : 0..LastVersion]
KeyRows == [state : {"none", "pending", "succeeded", "failed"}, by : ExtCalls \cup {"none"}]

LEMMA ExtTypesAre ==
  ExtensionsTypeOK <=>
    /\ extPlan \in ExtPlans /\ extStep \in [ExtCalls -> ExtStepNames] /\ extAnswer \in [ExtCalls -> ExtAnswers]
    /\ upstream \in [state : {"up", "disabled", "absent", "down"}, tool : 0..LastVersion]
    /\ skillFiles \in [DirSet -> [manifest : 0..LastVersion, entry : 1..LastVersion]] /\ skillsOn \in BOOLEAN
    /\ leases \in [ExtSessions \X ExtensionKinds -> Revisions] /\ instance \in [ExtCalls -> Processes]
    /\ picked \in [ExtCalls -> Revisions] /\ held \in [ExtCalls -> Revisions] /\ ran \in [ExtCalls -> Revisions]
    /\ keyRow \in [ExtSessions \X ExtensionKinds -> KeyRows]
    /\ touched \subseteq ExtCalls /\ pulse \in [ExtCalls -> {"off", "on", "sending"}]
  BY DEF ExtensionsTypeOK, ExtStepNames, ExtAnswers, Processes, KeyRows

LEMMA StepTypes ==
  ASSUME extStep \in [ExtCalls -> ExtStepNames], extAnswer \in [ExtCalls -> ExtAnswers], NEW c \in ExtCalls
  PROVE  /\ \A x, y : y \in ExtStepNames /\ ExtGoes(c, x, y) => extStep' \in [ExtCalls -> ExtStepNames]
         /\ \A a \in ExtAnswers : Says(c, a) => extAnswer' \in [ExtCalls -> ExtAnswers]
         /\ \A code \in ExtRefusals : StopsWith(c, code) =>
              extStep' \in [ExtCalls -> ExtStepNames] /\ extAnswer' \in [ExtCalls -> ExtAnswers]
<1>1. \A x, y : y \in ExtStepNames /\ ExtGoes(c, x, y) => extStep' \in [ExtCalls -> ExtStepNames]
  BY DEF ExtGoes
<1>2. \A a \in ExtAnswers : Says(c, a) => extAnswer' \in [ExtCalls -> ExtAnswers]
  BY DEF Says
<1>3. ASSUME NEW code \in ExtRefusals, StopsWith(c, code)
      PROVE  extStep' \in [ExtCalls -> ExtStepNames] /\ extAnswer' \in [ExtCalls -> ExtAnswers]
  <2>1. {"refused", "close"} \subseteq ExtStepNames /\ code \in ExtAnswers
    BY DEF ExtStepNames, ExtAnswers
  <2> QED
    BY <1>2, <1>3, <2>1 DEF StopsWith
<1> QED
  BY <1>1, <1>2, <1>3

LEMMA StepTypesKept ==
  ASSUME ExtInv, NEW c \in ExtCalls, ExtCallSteps(c)
  PROVE  extStep' \in [ExtCalls -> ExtStepNames] /\ extAnswer' \in [ExtCalls -> ExtAnswers]
<1>1. extStep \in [ExtCalls -> ExtStepNames] /\ extAnswer \in [ExtCalls -> ExtAnswers]
  BY ExtTypesAre DEF ExtInv
<1> USE <1>1, StepTypes
<1>2. CASE ExtCallArrives(c)
  BY <1>2 DEF ExtCallArrives, ExtStepNames
<1>3. CASE ClaimExtKey(c)
  <2>1. /\ {"open", "load", "waiting", "answered"} \subseteq ExtStepNames
        /\ {"conflict", "replay", "in_progress"} \subseteq ExtAnswers
    BY DEF ExtStepNames, ExtAnswers, Recorded
  <2> QED
    BY <1>3, <2>1 DEF ClaimExtKey
<1>4. CASE EndExtWait(c)
  BY <1>4 DEF EndExtWait, ExtStepNames, ExtAnswers, Recorded
<1>5. CASE RefuseExtCall(c) \/ CompleteExtCall(c) \/ CloseExtCall(c)
  BY <1>5 DEF RefuseExtCall, CompleteExtCall, CloseExtCall, ExtStepNames
<1>6. CASE OpenClientSession(c)
  BY <1>6 DEF OpenClientSession, ExtStepNames, ExtRefusals
<1>7. \A rev : Preflighted(c, rev) => extStep' \in [ExtCalls -> ExtStepNames] /\ extAnswer' \in [ExtCalls -> ExtAnswers]
  <2>1. {"changed", "arguments"} \subseteq ExtRefusals /\ "ready" \in ExtStepNames
    BY DEF ExtRefusals, ExtStepNames
  <2> QED
    BY <2>1, PreflightSays
<1>8. CASE ListUpstreamTools(c)
  BY <1>7, <1>8 DEF ListUpstreamTools, ExtStepNames, ExtRefusals
<1>9. CASE CallUpstream(c)
  BY <1>9 DEF CallUpstream, ExtStepNames, ExtAnswers
<1>10. CASE Heartbeat(c) \/ ConnectDeadline(c)
  BY <1>10 DEF Heartbeat, ConnectDeadline
<1>11. CASE UpstreamReturns(c)
  BY <1>11 DEF UpstreamReturns, ExtStepNames, ExtAnswers
<1>12. CASE LoadSkill(c)
  BY <1>12 DEF LoadSkill, ExtStepNames, ExtRefusals
<1>13. CASE ReviseSkill(c)
  BY <1>7, <1>13 DEF ReviseSkill, ExtStepNames
<1>14. CASE ReloadSkill(c)
  BY <1>14 DEF ReloadSkill, ExtStepNames, ExtAnswers
<1>15. CASE RunSkill(c)
  BY <1>15 DEF RunSkill, ExtStepNames, ExtAnswers
<1>16. CASE KeepLease(c)
  BY <1>16 DEF KeepLease, ExtStepNames, ExtAnswers
<1> QED
  BY <1>2, <1>3, <1>4, <1>5, <1>6, <1>8, <1>9, <1>10, <1>11, <1>12, <1>13, <1>14, <1>15, <1>16 DEF ExtCallSteps

LEMMA RevisionsKept ==
  ASSUME ExtInv, NEW c \in ExtCalls, ExtCallSteps(c)
  PROVE  picked' \in [ExtCalls -> Revisions] /\ held' \in [ExtCalls -> Revisions] /\ ran' \in [ExtCalls -> Revisions]
<1>1. /\ picked \in [ExtCalls -> Revisions] /\ held \in [ExtCalls -> Revisions] /\ ran \in [ExtCalls -> Revisions]
      /\ leases \in [ExtSessions \X ExtensionKinds -> Revisions] /\ instance[c].tool \in 0..LastVersion
      /\ skillFiles \in [DirSet -> [manifest : 0..LastVersion, entry : 1..LastVersion]] /\ Plans
      /\ LastVersion \in Nat \ {0}
  BY ExtTypesAre, ExtensionsAssumption DEF ExtInv, Processes, Plans
<1>2. leases[Owner(c)] \in Revisions
  BY <1>1, ExtPlanFits
<1>3. Rev("upstream", instance[c].tool, 0) \in Revisions
  BY <1>1, RevRecord
<1>4. SkillDir # "none" => Rev(SkillDir, skillFiles[SkillDir].manifest, 0) \in Revisions
  BY <1>1, SkillDirIsOne, RevRecord
<1>5. \A d \in DirSet : EntryOf(d) \in 0..LastVersion
  BY <1>1 DEF EntryOf
<1>6. \A r \in Revisions, e \in 0..LastVersion : [r EXCEPT !.entry = e] \in Revisions
  BY DEF Revisions
<1>7. \A rev : Preflighted(c, rev) => held' \in [ExtCalls -> Revisions]
  BY <1>1, <1>2 DEF Preflighted
<1>8. CASE UNCHANGED <<picked, held, ran>>
  BY <1>1, <1>8
<1>9. CASE ListUpstreamTools(c)
  BY <1>1, <1>3, <1>7, <1>9 DEF ListUpstreamTools
<1>10. CASE CallUpstream(c)
  BY <1>1, <1>3, <1>10 DEF CallUpstream
<1>11. CASE LoadSkill(c)
  BY <1>1, <1>4, <1>11 DEF LoadSkill
<1>12. CASE ReviseSkill(c)
  <2>1. picked[c].dir \in DirSet
    BY <1>12 DEF ReviseSkill, ExtInv, SkillFits
  <2>2. SkillRevision(c) \in Revisions
    BY <1>1, <1>5, <1>6, <2>1 DEF SkillRevision
  <2> QED
    BY <1>1, <1>7, <1>12, <2>2 DEF ReviseSkill
<1>13. CASE ReloadSkill(c)
  BY <1>1, <1>4, <1>13 DEF ReloadSkill
<1>14. CASE RunSkill(c)
  <2>1. ran[c].dir \in DirSet
    BY <1>14 DEF RunSkill, ExtGoes, ExtInv, SkillFits
  <2>2. [ran[c] EXCEPT !.entry = EntryOf(ran[c].dir)] \in Revisions
    BY <1>1, <1>5, <1>6, <2>1
  <2>3. ran' = [ran EXCEPT ![c] = [ran[c] EXCEPT !.entry = EntryOf(ran[c].dir)]] /\ UNCHANGED <<picked, held>>
    BY <1>14 DEF RunSkill
  <2> QED
    BY <1>1, <2>2, <2>3
<1> QED
  BY <1>8, <1>9, <1>10, <1>11, <1>12, <1>13, <1>14
     DEF ExtCallSteps, ExtCallArrives, ClaimExtKey, EndExtWait, RefuseExtCall, CompleteExtCall, CloseExtCall,
         OpenClientSession, Heartbeat, UpstreamReturns, ConnectDeadline, KeepLease

LEMMA CallTypesKept ==
  ASSUME ExtInv, NEW c \in ExtCalls, ExtCallSteps(c)
  PROVE  ExtensionsTypeOK'
<1>1. /\ extPlan \in ExtPlans /\ upstream \in [state : {"up", "disabled", "absent", "down"}, tool : 0..LastVersion]
      /\ skillFiles \in [DirSet -> [manifest : 0..LastVersion, entry : 1..LastVersion]] /\ skillsOn \in BOOLEAN
      /\ leases \in [ExtSessions \X ExtensionKinds -> Revisions] /\ instance \in [ExtCalls -> Processes]
      /\ picked \in [ExtCalls -> Revisions] /\ keyRow \in [ExtSessions \X ExtensionKinds -> KeyRows]
      /\ touched \subseteq ExtCalls /\ pulse \in [ExtCalls -> {"off", "on", "sending"}]
  BY ExtTypesAre DEF ExtInv
<1>2. UNCHANGED <<extPlan, upstream, skillFiles, skillsOn>>
  BY WorldApart
<1>3. leases' \in [ExtSessions \X ExtensionKinds -> Revisions]
  <2>1. CASE KeepLease(c)
    BY <1>1, <2>1 DEF KeepLease
  <2> QED
    BY <1>1, <2>1, WorldApart
<1>4. keyRow' \in [ExtSessions \X ExtensionKinds -> KeyRows]
  <2>1. [state |-> "pending", by |-> c] \in KeyRows /\ NoKeyRow \in KeyRows
    BY DEF KeyRows, NoKeyRow
  <2>2. CASE ClaimExtKey(c)
    BY <1>1, <2>1, <2>2 DEF ClaimExtKey
  <2>3. CASE RefuseExtCall(c)
    BY <1>1, <2>1, <2>3 DEF RefuseExtCall
  <2>4. CASE CompleteExtCall(c)
    <3>1. \A its \in KeyRows :
            [its EXCEPT !.state = "succeeded"] \in KeyRows /\ [its EXCEPT !.state = "failed"] \in KeyRows
      BY DEF KeyRows
    <3> DEFINE s == IF extAnswer[c] = "result" THEN "succeeded" ELSE "failed"
    <3>2. keyRow' = [keyRow EXCEPT ![Owner(c)] = [keyRow[Owner(c)] EXCEPT !.state = s]] \/ keyRow' = keyRow
      BY <2>4 DEF CompleteExtCall
    <3>3. Owner(c) \in ExtSessions \X ExtensionKinds /\ s \in {"succeeded", "failed"}
      BY <1>1, ExtPlanFits DEF Plans
    <3> HIDE DEF s
    <3>4. [keyRow[Owner(c)] EXCEPT !.state = s] \in KeyRows
      BY <1>1, <3>1, <3>3
    <3>5. keyRow \in [ExtSessions \X ExtensionKinds -> KeyRows]
      BY <1>1
    <3> QED
      BY <3>2, <3>4, <3>5
  <2> QED
    BY <1>1, <2>2, <2>3, <2>4, WorldApart
<1>5. instance' \in [ExtCalls -> Processes]
  <2>1. \A s \in {"none", "open", "killed", "closed"} : [instance[c] EXCEPT !.state = s] \in Processes
    BY <1>1 DEF Processes
  <2>2. CASE OpenClientSession(c)
    <3>1. [state |-> "open", tool |-> upstream.tool] \in Processes
      BY <1>1 DEF Processes
    <3> QED
      BY <1>1, <2>2, <3>1 DEF OpenClientSession
  <2>3. CASE CloseExtCall(c)
    <3> DEFINE s == IF instance[c].state = "open" THEN "closed" ELSE instance[c].state
    <3>1. instance' = [instance EXCEPT ![c] = [instance[c] EXCEPT !.state = s]]
      BY <2>3 DEF CloseExtCall
    <3>2. s \in {"none", "open", "killed", "closed"}
      BY <1>1 DEF Processes
    <3> HIDE DEF s
    <3> QED
      BY <1>1, <2>1, <3>1, <3>2
  <2>4. CASE ConnectDeadline(c)
    <3>1. instance' = [instance EXCEPT ![c] = [instance[c] EXCEPT !.state = "killed"]]
      BY <2>4 DEF ConnectDeadline
    <3> QED
      BY <1>1, <2>1, <3>1
  <2> QED
    BY <1>1, <2>2, <2>3, <2>4
       DEF ExtCallSteps, ExtCallArrives, ClaimExtKey, EndExtWait, RefuseExtCall, CompleteExtCall, ListUpstreamTools,
           CallUpstream, Heartbeat, UpstreamReturns, LoadSkill, ReviseSkill, ReloadSkill, RunSkill, KeepLease
<1>6. touched' \subseteq ExtCalls /\ pulse' \in [ExtCalls -> {"off", "on", "sending"}]
  BY <1>1 DEF ExtCallSteps, ExtCallArrives, ClaimExtKey, EndExtWait, RefuseExtCall, CompleteExtCall, CloseExtCall,
         OpenClientSession, ListUpstreamTools, CallUpstream, Heartbeat, UpstreamReturns, ConnectDeadline, LoadSkill,
         ReviseSkill, ReloadSkill, RunSkill, KeepLease
<1>7. extStep' \in [ExtCalls -> ExtStepNames] /\ extAnswer' \in [ExtCalls -> ExtAnswers]
  BY StepTypesKept
<1>8. picked' \in [ExtCalls -> Revisions] /\ held' \in [ExtCalls -> Revisions] /\ ran' \in [ExtCalls -> Revisions]
  BY RevisionsKept
<1>9. DirSet' = DirSet /\ Revisions' = Revisions /\ KeyRows' = KeyRows /\ Processes' = Processes
  BY DEF DirSet, Revisions, KeyRows, Processes
<1>10. /\ extPlan' \in ExtPlans /\ upstream' \in [state : {"up", "disabled", "absent", "down"}, tool : 0..LastVersion]
       /\ skillFiles' \in [DirSet -> [manifest : 0..LastVersion, entry : 1..LastVersion]] /\ skillsOn' \in BOOLEAN
  BY <1>1, <1>2
<1> QED
  BY <1>3, <1>4, <1>5, <1>6, <1>7, <1>8, <1>10
     DEF ExtensionsTypeOK, ExtStepNames, ExtAnswers, Processes, KeyRows

\* A row of a key changes when a call takes a free one or that of a call that died,
\* or when its owner is done.
LEMMA KeyRowChanges ==
  ASSUME ExtInv, NEW c \in ExtCalls, ExtCallSteps(c), keyRow' # keyRow
  PROVE  /\ \A k \in ExtSessions \X ExtensionKinds : k # Owner(c) => keyRow'[k] = keyRow[k]
         /\ \/ /\ extStep[c] = "claim" /\ extStep'[c] \in {"open", "load"}
               /\ keyRow'[Owner(c)] = [state |-> "pending", by |-> c]
               /\ \/ keyRow[Owner(c)].state = "none"
                  \/ keyRow[Owner(c)].state = "pending" /\ extStep[keyRow[Owner(c)].by] = "lost"
            \/ /\ keyRow[Owner(c)] = [state |-> "pending", by |-> c] /\ extStep[c] = "refused" /\ extStep'[c] = "close"
               /\ keyRow'[Owner(c)] = NoKeyRow
            \/ /\ keyRow[Owner(c)] = [state |-> "pending", by |-> c] /\ extStep[c] = "returned" /\ extStep'[c] = "close"
               /\ keyRow'[Owner(c)].by = c /\ keyRow'[Owner(c)].state \in {"succeeded", "failed"}
<1>1. /\ keyRow \in [ExtSessions \X ExtensionKinds -> KeyRows] /\ Owner(c) \in ExtSessions \X ExtensionKinds
      /\ extStep \in [ExtCalls -> ExtStepNames]
  BY ExtTypesAre, ExtPlanFits DEF ExtInv, Plans
<1>2. \A k \in ExtSessions \X ExtensionKinds : k # Owner(c) => keyRow'[k] = keyRow[k]
  <2>1. ClaimExtKey(c) \/ RefuseExtCall(c) \/ CompleteExtCall(c)
    BY WorldApart
  <2>2. CASE ClaimExtKey(c)
    BY <1>1, <2>2 DEF ClaimExtKey
  <2>3. CASE RefuseExtCall(c)
    BY <1>1, <2>3 DEF RefuseExtCall
  <2>4. CASE CompleteExtCall(c)
    BY <1>1, <2>4 DEF CompleteExtCall
  <2> QED
    BY <2>1, <2>2, <2>3, <2>4
<1>3. CASE ClaimExtKey(c)
  <2>1. /\ extStep[c] = "claim" /\ keyRow' = [keyRow EXCEPT ![Owner(c)] = [state |-> "pending", by |-> c]]
        /\ ExtGoes(c, "claim", IF extPlan[c].kind = "mcp" THEN "open" ELSE "load")
        /\ \/ keyRow[Owner(c)].state = "none"
           \/ keyRow[Owner(c)].state = "pending" /\ extStep[keyRow[Owner(c)].by] = "lost"
    BY <1>3 DEF ClaimExtKey
  <2>2. extStep'[c] \in {"open", "load"}
    BY <1>1, <2>1 DEF ExtGoes
  <2> QED
    BY <1>1, <1>2, <2>1, <2>2
<1>4. CASE RefuseExtCall(c)
  <2>1. /\ keyRow[Owner(c)] = [state |-> "pending", by |-> c]
        /\ keyRow' = [keyRow EXCEPT ![Owner(c)] = NoKeyRow]
        /\ ExtGoes(c, "refused", "close")
    BY <1>4 DEF RefuseExtCall
  <2>2. extStep[c] = "refused" /\ extStep'[c] = "close"
    BY <1>1, <2>1 DEF ExtGoes
  <2> QED
    BY <1>1, <1>2, <2>1, <2>2
<1>5. CASE CompleteExtCall(c)
  <2> DEFINE s == IF extAnswer[c] = "result" THEN "succeeded" ELSE "failed"
  <2>1. /\ keyRow[Owner(c)] = [state |-> "pending", by |-> c]
        /\ keyRow' = [keyRow EXCEPT ![Owner(c)] = [keyRow[Owner(c)] EXCEPT !.state = s]]
        /\ ExtGoes(c, "returned", "close")
    BY <1>5 DEF CompleteExtCall
  <2>2. extStep[c] = "returned" /\ extStep'[c] = "close"
    BY <1>1, <2>1 DEF ExtGoes
  <2>3. s \in {"succeeded", "failed"}
    OBVIOUS
  <2> HIDE DEF s
  <2>4. keyRow'[Owner(c)] = [keyRow[Owner(c)] EXCEPT !.state = s]
    BY <1>1, <2>1
  <2>5. keyRow'[Owner(c)].by = c /\ keyRow'[Owner(c)].state = s
    BY <2>1, <2>4
  <2> QED
    BY <1>2, <2>1, <2>2, <2>3, <2>5
<1> QED
  BY <1>3, <1>4, <1>5, WorldApart

\* The row of a call that nobody touches stays its own.
LEMMA OtherKeysFit ==
  ASSUME ExtInv, NEW c \in ExtCalls, ExtCallSteps(c), NEW o \in ExtCalls, o # c
  PROVE  KeyFits(o)'
<1> DEFINE its == keyRow[Owner(o)]
           new == keyRow'[Owner(o)]
<1>1. /\ Same(o) /\ extPlan' = extPlan /\ Owner(o)' = Owner(o) /\ (ExtKeyed(o)' <=> ExtKeyed(o))
      /\ Owner(o) \in ExtSessions \X ExtensionKinds
  BY StepsApart, WorldApart, ExtPlanFits DEF ExtInv, Owner, ExtKeyed, ExtensionsTypeOK, Plans
<1>2. KeyFits(o)
  BY DEF ExtInv
<1>3. CASE new = its
  BY <1>1, <1>2, <1>3 DEF KeyFits, Same
<1>4. CASE new # its
  <2>0. keyRow' # keyRow
    BY <1>4
  <2> DEFINE mine == keyRow[Owner(c)]
             next == keyRow'[Owner(c)]
  <2>1. /\ \A k \in ExtSessions \X ExtensionKinds : k # Owner(c) => keyRow'[k] = keyRow[k]
        /\ \/ /\ next = [state |-> "pending", by |-> c]
              /\ (mine.state = "none" \/ (mine.state = "pending" /\ extStep[mine.by] = "lost"))
           \/ mine = [state |-> "pending", by |-> c] /\ next = NoKeyRow
           \/ mine = [state |-> "pending", by |-> c] /\ next.by = c
    <3> HIDE DEF its, new
    <3> QED
      BY <2>0, KeyRowChanges
  <2>10. Owner(o) = Owner(c)
    BY <1>1, <1>4, <2>1
  <2>2. \/ /\ new = [state |-> "pending", by |-> c]
           /\ (its.state = "none" \/ (its.state = "pending" /\ extStep[its.by] = "lost"))
        \/ its = [state |-> "pending", by |-> c] /\ new = NoKeyRow
        \/ its = [state |-> "pending", by |-> c] /\ new.by = c
    BY <2>1, <2>10
  <2>3. new.by # o
    BY <2>2, ExtensionsAssumption DEF NoKeyRow
  <2>4. ~(ExtKeyed(o) /\ extStep[o] \in Active)
    <3>1. SUFFICES ASSUME its = [state |-> "pending", by |-> o], extStep[o] # "lost" PROVE FALSE
      BY <1>2 DEF KeyFits, Active, Preflights
    <3> QED
      BY <2>2, <3>1
  <2>5. ~(ExtKeyed(o) /\ extStep[o] # "lost" /\ ran[o] # NoRev)
    <3>1. SUFFICES ASSUME its.by = o, its.state # "none", extStep[o] # "lost" PROVE FALSE
      BY <1>2 DEF KeyFits
    <3> QED
      BY <2>2, <3>1
  <2> QED
    BY <1>1, <2>3, <2>4, <2>5 DEF KeyFits, Same
<1> QED
  BY <1>3, <1>4

LEMMA OwnKeyFits ==
  ASSUME ExtInv, NEW c \in ExtCalls, ExtCallSteps(c)
  PROVE  KeyFits(c)'
<1> DEFINE its == keyRow[Owner(c)]
           new == keyRow'[Owner(c)]
<1>1. /\ extPlan' = extPlan /\ Owner(c)' = Owner(c) /\ (ExtKeyed(c)' <=> ExtKeyed(c)) /\ Plans
      /\ ExtensionsTypeOK /\ StepFits(c) /\ KeyFits(c)
  BY WorldApart DEF ExtInv, Owner, ExtKeyed, ExtensionsTypeOK, Plans
<1>2. keyRow' # keyRow => ExtKeyed(c)
  BY <1>1, KeyRowChanges DEF StepFits, KeyFits
<1>3. CASE keyRow' # keyRow
  <2>1. CASE /\ extStep[c] = "claim" /\ extStep'[c] \in {"open", "load"}
             /\ new = [state |-> "pending", by |-> c]
    <3>1. new.by = c /\ new.state = "pending"
      BY <2>1
    <3> QED
      BY <1>1, <1>2, <1>3, <2>1, <3>1 DEF KeyFits, Waits
  <2>2. CASE extStep[c] = "refused" /\ extStep'[c] = "close" /\ new = NoKeyRow
    <3>1. new.by # c
      BY <2>2, ExtensionsAssumption DEF NoKeyRow
    <3>2. ran[c] = NoRev /\ UNCHANGED ran
      <4>1. ran[c] = NoRev
        BY <1>1, <2>2 DEF StepFits
      <4>2. ClaimExtKey(c) \/ RefuseExtCall(c) \/ CompleteExtCall(c)
        BY <1>3, WorldApart
      <4> QED
        BY <4>1, <4>2 DEF ClaimExtKey, RefuseExtCall, CompleteExtCall
    <3> QED
      BY <1>1, <2>2, <3>1, <3>2 DEF KeyFits, Active, Preflights, Waits
  <2>3. CASE extStep[c] = "returned" /\ extStep'[c] = "close" /\ new.by = c /\ new.state \in {"succeeded", "failed"}
    BY <1>1, <1>2, <1>3, <2>3 DEF KeyFits, Active, Preflights, Waits
  <2> QED
    BY <1>3, <2>1, <2>2, <2>3, KeyRowChanges
<1>4. CASE keyRow' = keyRow
  <2>1. extStep[c] \notin Waits => extStep'[c] \notin Waits
    BY <1>1 DEF ExtCallSteps, ExtCallArrives, ClaimExtKey, EndExtWait, RefuseExtCall, CompleteExtCall, CloseExtCall,
         OpenClientSession, ListUpstreamTools, CallUpstream, Heartbeat, UpstreamReturns, ConnectDeadline, LoadSkill,
         ReviseSkill, ReloadSkill, RunSkill, KeepLease, ExtGoes, StopsWith, Preflighted, ExtensionsTypeOK, Waits
  <2>2. ExtKeyed(c) /\ extStep'[c] \in Active => extStep[c] \in Active
    <3> SUFFICES ASSUME ExtKeyed(c), extStep'[c] \in Active, extStep[c] \notin Active PROVE FALSE
      OBVIOUS
    <3>1. ~ExtCallArrives(c)
      BY <1>1 DEF ExtCallArrives, ExtGoes, ExtKeyed, Active, Preflights, ExtensionsTypeOK
    <3>2. ~ClaimExtKey(c)
      <4> SUFFICES ASSUME ClaimExtKey(c) PROVE FALSE
        OBVIOUS
      <4>1. \/ keyRow' = [keyRow EXCEPT ![Owner(c)] = [state |-> "pending", by |-> c]]
            \/ extStep'[c] \in {"waiting", "answered"}
        BY <1>1 DEF ClaimExtKey, ExtGoes, ExtensionsTypeOK
      <4>2. keyRow'[Owner(c)] = [state |-> "pending", by |-> c]
        BY <1>1, <4>1, ExtPlanFits DEF Active, Preflights, ExtensionsTypeOK
      <4> QED
        BY <1>1, <1>4, <4>2 DEF ClaimExtKey, KeyFits, Waits
    <3> QED
      BY <1>1, <3>1, <3>2
         DEF ExtCallSteps, EndExtWait, RefuseExtCall, CompleteExtCall, CloseExtCall,
             OpenClientSession, ListUpstreamTools, CallUpstream, Heartbeat, UpstreamReturns, ConnectDeadline, LoadSkill,
             ReviseSkill, ReloadSkill, RunSkill, KeepLease, ExtGoes, Active, Preflights, ExtensionsTypeOK
  <2>3. extStep'[c] # "lost" => extStep[c] # "lost"
    BY <1>1 DEF ExtCallSteps, ExtCallArrives, ClaimExtKey, EndExtWait, RefuseExtCall, CompleteExtCall, CloseExtCall,
         OpenClientSession, ListUpstreamTools, CallUpstream, Heartbeat, UpstreamReturns, ConnectDeadline, LoadSkill,
         ReviseSkill, ReloadSkill, RunSkill, KeepLease, ExtGoes, ExtensionsTypeOK, EndOf
  <2>4. ExtKeyed(c) /\ ran'[c] # NoRev => ran[c] # NoRev \/ extStep[c] \in Active
    BY DEF ExtCallSteps, ExtCallArrives, ClaimExtKey, EndExtWait, RefuseExtCall, CompleteExtCall, CloseExtCall,
         OpenClientSession, ListUpstreamTools, CallUpstream, Heartbeat, UpstreamReturns, ConnectDeadline, LoadSkill,
         ReviseSkill, ReloadSkill, RunSkill, KeepLease, ExtGoes, Active, Preflights
  <2>5. extStep'[c] \in {"close", "answered"} =>
          \/ extStep[c] \in {"close", "answered"} \/ extStep[c] \in Waits \/ ~ExtKeyed(c)
    <3> SUFFICES ASSUME extStep'[c] \in {"close", "answered"}, ExtKeyed(c), extStep[c] \notin {"close", "answered"},
                        extStep[c] \notin Waits
                 PROVE  FALSE
      OBVIOUS
    <3>1. ~RefuseExtCall(c)
      <4> SUFFICES ASSUME RefuseExtCall(c) PROVE FALSE
        OBVIOUS
      <4>1. its = [state |-> "pending", by |-> c] /\ Owner(c) \in DOMAIN keyRow
        BY <1>1, ExtPlanFits DEF RefuseExtCall, ExtGoes, KeyFits, Active, ExtensionsTypeOK
      <4>2. keyRow'[Owner(c)] = NoKeyRow
        BY <4>1 DEF RefuseExtCall
      <4> QED
        BY <1>4, <4>1, <4>2 DEF NoKeyRow
    <3>2. ~CompleteExtCall(c)
      <4> SUFFICES ASSUME CompleteExtCall(c) PROVE FALSE
        OBVIOUS
      <4>1. its = [state |-> "pending", by |-> c] /\ Owner(c) \in DOMAIN keyRow
        BY <1>1, ExtPlanFits DEF CompleteExtCall, ExtGoes, KeyFits, Active, ExtensionsTypeOK
      <4> DEFINE s == IF extAnswer[c] = "result" THEN "succeeded" ELSE "failed"
      <4>2. keyRow' = [keyRow EXCEPT ![Owner(c)] = [keyRow[Owner(c)] EXCEPT !.state = s]] /\ s # "pending"
        BY <4>1 DEF CompleteExtCall
      <4> HIDE DEF s
      <4>3. keyRow'[Owner(c)] = [its EXCEPT !.state = s] /\ its.state = "pending"
        BY <4>1, <4>2
      <4> QED
        BY <1>4, <4>1, <4>2, <4>3
    <3>3. ~KeepLease(c)
      BY <1>1 DEF KeepLease, ExtGoes, StepFits, ExtKeyed
    <3> QED
      BY <1>1, <3>1, <3>2, <3>3
         DEF ExtCallSteps, ExtCallArrives, ClaimExtKey, EndExtWait, CloseExtCall,
             OpenClientSession, ListUpstreamTools, CallUpstream, Heartbeat, UpstreamReturns, ConnectDeadline, LoadSkill,
             ReviseSkill, ReloadSkill, RunSkill, ExtGoes, StopsWith, Preflighted, ExtKeyed, ExtensionsTypeOK, Waits
  <2> QED
    BY <1>1, <1>4, <2>1, <2>2, <2>3, <2>4, <2>5 DEF KeyFits, Active
<1> QED
  BY <1>3, <1>4

LEMMA CallStepsFit ==
  ASSUME ExtInv, NEW c \in ExtCalls, ExtCallSteps(c)
  PROVE  ExtInv'
<1>1. ExtensionsTypeOK'
  BY CallTypesKept
<1>2. FitsNext(c)
  BY EdgesFit, OpenFits, ListFits, UpstreamCallFits, CallingFits, LoadFits, ReviseFits, ReloadFits, RunFits
     DEF ExtCallSteps
<1>3. ASSUME NEW o \in ExtCalls, o # c PROVE FitsNext(o)
  <2>1. Same(o) /\ UNCHANGED <<extPlan, skillFiles>>
    BY <1>3, StepsApart, WorldApart DEF ExtInv
  <2> QED
    BY <2>1, OtherCallsFit DEF ExtInv, FitsNext
<1>4. \A o \in ExtCalls : KeyFits(o)'
  BY OtherKeysFit, OwnKeyFits
<1> QED
  BY <1>1, <1>2, <1>3, <1>4 DEF ExtInv, FitsNext

\* Whatever changes outside, calls that are under way may find something else from
\* now on; calls that are over stay what they are.
LEMMA WorldStepsFit ==
  ASSUME ExtInv, ChangeUpstream \/ ChangeSkills \/ UNCHANGED extVars
  PROVE  ExtInv'
<1>1. /\ UNCHANGED <<extPlan, extStep, extAnswer, leases, instance, picked, held, keyRow, ran, pulse>>
      /\ \/ skillFiles' = skillFiles /\ touched' = touched
         \/ touched' = touched \cup {c \in ExtCalls : ~EndOf(c)}
  BY DEF ChangeUpstream, ChangeSkills, extVars
<1>2. ExtensionsTypeOK'
  <2>1. upstream' \in [state : {"up", "disabled", "absent", "down"}, tool : 0..LastVersion]
    BY DEF ExtInv, ExtensionsTypeOK, ChangeUpstream, ChangeSkills, extVars
  <2>2. skillFiles' \in [DirSet -> [manifest : 0..LastVersion, entry : 1..LastVersion]] /\ skillsOn' \in BOOLEAN
    <3>1. skillFiles \in [DirSet -> [manifest : 0..LastVersion, entry : 1..LastVersion]] /\ skillsOn \in BOOLEAN
      BY DEF ExtInv, ExtensionsTypeOK
    <3>2. CASE UNCHANGED skillFiles
      BY <3>1, <3>2 DEF ChangeUpstream, ChangeSkills, extVars
    <3>3. ASSUME NEW d \in DirSet, NEW v \in 0..LastVersion, skillFiles' = [skillFiles EXCEPT ![d].manifest = v]
          PROVE  skillFiles' \in [DirSet -> [manifest : 0..LastVersion, entry : 1..LastVersion]]
      <4>1. [skillFiles[d] EXCEPT !.manifest = v] \in [manifest : 0..LastVersion, entry : 1..LastVersion]
        BY <3>1
      <4> QED
        BY <3>1, <3>3, <4>1
    <3>4. ASSUME NEW d \in DirSet, NEW v \in 1..LastVersion, skillFiles' = [skillFiles EXCEPT ![d].entry = v]
          PROVE  skillFiles' \in [DirSet -> [manifest : 0..LastVersion, entry : 1..LastVersion]]
      <4>1. [skillFiles[d] EXCEPT !.entry = v] \in [manifest : 0..LastVersion, entry : 1..LastVersion]
        BY <3>1
      <4> QED
        BY <3>1, <3>4, <4>1
    <3>5. skillsOn' \in BOOLEAN
      BY <3>1 DEF ChangeUpstream, ChangeSkills, extVars
    <3> QED
      BY <3>2, <3>3, <3>4, <3>5 DEF ChangeUpstream, ChangeSkills, extVars
  <2>3. touched' \subseteq ExtCalls
    BY <1>1 DEF ExtInv, ExtensionsTypeOK
  <2> QED
    BY <1>1, <2>1, <2>2, <2>3, ExtTypesAre DEF ExtInv, ExtensionsTypeOK
<1>3. ASSUME NEW c \in ExtCalls PROVE StepFits(c)' /\ UpstreamFits(c)' /\ SkillFits(c)' /\ KeyFits(c)'
  <2>1. /\ Owner(c)' = Owner(c) /\ (Checked(c)' <=> Checked(c)) /\ (ExtKeyed(c)' <=> ExtKeyed(c))
        /\ (EndOf(c)' <=> EndOf(c))
        /\ StepFits(c) /\ UpstreamFits(c) /\ SkillFits(c) /\ KeyFits(c)
    BY <1>1 DEF Owner, Checked, ExtKeyed, EndOf, ExtInv
  <2>2. StepFits(c)' /\ UpstreamFits(c)' /\ KeyFits(c)'
    BY <1>1, <2>1 DEF StepFits, UpstreamFits, KeyFits
  <2>3. CASE skillFiles' = skillFiles /\ touched' = touched
    <3>1. Same(c)
      BY <1>1, <2>3 DEF Same
    <3> QED
      BY <1>1, <2>1, <2>2, <2>3, <3>1, OtherCallsFit
  <2>4. CASE touched' = touched \cup {d \in ExtCalls : ~EndOf(d)}
    <3>1. c \notin touched' => c \notin touched /\ extStep[c] \in {"answered", "lost"}
      BY <2>4 DEF EndOf
    <3>2. /\ extStep'[c] = extStep[c] /\ ran'[c] = ran[c] /\ picked'[c] = picked[c] /\ extPlan' = extPlan
      BY <1>1
    <3>3. /\ extStep[c] = "revise" => picked[c].dir \in DirSet
          /\ extStep[c] = "starting" => ran[c].dir \in DirSet /\ ran[c].entry = 0
          /\ extPlan[c].kind = "skill" /\ c \notin touched /\ ran[c].entry # 0 => ran[c] = picked[c] /\ Checked(c)
      BY <2>1 DEF SkillFits
    <3> QED
      BY <2>1, <2>2, <3>1, <3>2, <3>3 DEF SkillFits
  <2> QED
    BY <1>1, <2>2, <2>3, <2>4
<1> QED
  BY <1>2, <1>3 DEF ExtInv

\* A restart ends what is under way.
LEMMA RestartFits ==
  ASSUME ExtInv, RestartServer
  PROVE  ExtInv'
<1>1. /\ UNCHANGED <<extPlan, upstream, skillFiles, skillsOn, extAnswer, picked, held, keyRow, ran, touched>>
      /\ leases' = [o \in ExtSessions \X ExtensionKinds |-> NoRev]
      /\ extStep' = [c \in ExtCalls |-> IF extStep[c] \in {"out", "answered"} THEN extStep[c] ELSE "lost"]
      /\ instance' = [c \in ExtCalls |-> IF instance[c].state = "open" THEN [instance[c] EXCEPT !.state = "killed"]
                                         ELSE instance[c]]
      /\ pulse' = [c \in ExtCalls |-> "off"]
  BY DEF RestartServer
<1>2. ExtensionsTypeOK'
  <2>1. leases' \in [ExtSessions \X ExtensionKinds -> Revisions]
    <3>1. NoRev \in Revisions
      BY RevRecord, ExtensionsAssumption DEF NoRev
    <3> QED
      BY <1>1, <3>1
  <2>2. extStep' \in [ExtCalls -> ExtStepNames]
    BY <1>1, ExtTypesAre DEF ExtInv, ExtStepNames
  <2>3. instance' \in [ExtCalls -> Processes]
    <3>1. ASSUME NEW p \in Processes PROVE [p EXCEPT !.state = "killed"] \in Processes
      BY DEF Processes
    <3> QED
      BY <1>1, <3>1, ExtTypesAre DEF ExtInv
  <2>4. pulse' \in [ExtCalls -> {"off", "on", "sending"}]
    BY <1>1
  <2>5. /\ extPlan' \in ExtPlans /\ extAnswer' \in [ExtCalls -> ExtAnswers]
        /\ upstream' \in [state : {"up", "disabled", "absent", "down"}, tool : 0..LastVersion]
        /\ skillFiles' \in [DirSet -> [manifest : 0..LastVersion, entry : 1..LastVersion]] /\ skillsOn' \in BOOLEAN
        /\ picked' \in [ExtCalls -> Revisions] /\ held' \in [ExtCalls -> Revisions]
        /\ ran' \in [ExtCalls -> Revisions] /\ keyRow' \in [ExtSessions \X ExtensionKinds -> KeyRows]
        /\ touched' \subseteq ExtCalls
    BY <1>1, ExtTypesAre DEF ExtInv
  <2> QED
    BY <2>1, <2>2, <2>3, <2>4, <2>5 DEF ExtensionsTypeOK, ExtStepNames, ExtAnswers, Processes, KeyRows
<1>3. ASSUME NEW c \in ExtCalls PROVE StepFits(c)' /\ UpstreamFits(c)' /\ SkillFits(c)' /\ KeyFits(c)'
  <2>1. /\ Owner(c)' = Owner(c) /\ (Checked(c)' <=> Checked(c)) /\ (ExtKeyed(c)' <=> ExtKeyed(c))
        /\ StepFits(c) /\ UpstreamFits(c) /\ SkillFits(c) /\ KeyFits(c)
        /\ SkillDir' = SkillDir
    BY <1>1, SkillDirOfFiles DEF Owner, Checked, ExtKeyed, ExtInv
  <2>2. \/ extStep[c] \in {"out", "answered"} /\ extStep'[c] = extStep[c]
        \/ extStep[c] \notin {"out", "answered"} /\ extStep'[c] = "lost"
    BY <1>1
  <2>3. pulse'[c] = "off" /\ instance'[c].state # "open" /\ (instance[c].state # "open" => instance'[c] = instance[c])
    <3>1. instance[c] \in Processes
      BY ExtTypesAre DEF ExtInv
    <3> QED
      BY <1>1, <3>1 DEF Processes
  <2>4. instance[c] = NoInstance => instance'[c] = NoInstance
    BY <2>3 DEF NoInstance
  <2>5. StepFits(c)'
    BY <1>1, <2>1, <2>2, <2>3, <2>4 DEF StepFits, Waits, Preflights
  <2>6. UpstreamFits(c)' /\ SkillFits(c)'
    BY <1>1, <2>1, <2>2 DEF UpstreamFits, SkillFits
  <2>7. KeyFits(c)'
    BY <1>1, <2>1, <2>2 DEF KeyFits, Waits, Active, Preflights
  <2> QED
    BY <2>5, <2>6, <2>7
<1> QED
  BY <1>2, <1>3 DEF ExtInv

LEMMA ExtInitially == ExtensionsInit => ExtInv
<1> SUFFICES ASSUME ExtensionsInit PROVE ExtInv
  OBVIOUS
<1>1. NoRev \in Revisions /\ NoRev.entry = 0 /\ NoInstance \in Processes /\ NoKeyRow \in KeyRows
  BY RevRecord, ExtensionsAssumption DEF NoRev, Rev, NoInstance, NoKeyRow, Processes, KeyRows
<1>2. ExtensionsTypeOK
  <2>1. upstream \in [state : {"up", "disabled", "absent", "down"}, tool : 0..LastVersion]
    BY ExtensionsAssumption DEF ExtensionsInit
  <2>2. skillFiles \in [DirSet -> [manifest : 0..LastVersion, entry : 1..LastVersion]]
    BY ExtensionsAssumption DEF ExtensionsInit
  <2>3. "out" \in ExtStepNames /\ "none" \in ExtAnswers
    BY DEF ExtStepNames, ExtAnswers
  <2> QED
    BY <1>1, <2>1, <2>2, <2>3, ExtTypesAre DEF ExtensionsInit
<1>3. ASSUME NEW c \in ExtCalls PROVE StepFits(c) /\ UpstreamFits(c) /\ SkillFits(c) /\ KeyFits(c)
  <2>1. /\ extStep[c] = "out" /\ extAnswer[c] = "none" /\ instance[c] = NoInstance /\ ran[c] = NoRev /\ pulse[c] = "off"
        /\ keyRow[Owner(c)] = NoKeyRow
    BY <1>2, ExtPlanFits DEF ExtensionsInit, ExtensionsTypeOK, Plans
  <2>2. StepFits(c)
    BY <2>1 DEF StepFits, Waits, Preflights, Recorded, NoInstance
  <2>3. UpstreamFits(c) /\ SkillFits(c)
    BY <1>1, <2>1 DEF UpstreamFits, SkillFits
  <2>4. KeyFits(c)
    <3>1. NoKeyRow.by # c
      BY ExtensionsAssumption DEF NoKeyRow
    <3> QED
      BY <2>1, <3>1 DEF KeyFits, Active, Preflights
  <2> QED
    BY <2>2, <2>3, <2>4
<1> QED
  BY <1>2, <1>3 DEF ExtInv

\* What the invariant says of the promises.
LEMMA ExtPromises == ExtInv => ExtensionsHold
<1> SUFFICES ASSUME ExtInv PROVE ExtensionsHold
  OBVIOUS
<1>1. UpstreamCalledAsChecked
  BY DEF UpstreamCalledAsChecked, ExtInv, UpstreamFits, Checked
<1>2. SkillRunAsChecked
  BY DEF SkillRunAsChecked, ExtInv, SkillFits, Checked
<1>3. CarriedOutOncePerKey
  <2> SUFFICES ASSUME NEW c \in ExtCalls, NEW d \in ExtCalls, c # d, Owner(c) = Owner(d), extPlan[c].keyed,
                      extPlan[d].keyed, ran[c] # NoRev, ran[d] # NoRev, extStep[c] # "lost", extStep[d] # "lost"
               PROVE  FALSE
    BY DEF CarriedOutOncePerKey
  <2>1. ExtKeyed(c) /\ ExtKeyed(d) /\ KeyFits(c) /\ KeyFits(d)
    BY DEF ExtInv, StepFits, ExtKeyed
  <2>2. keyRow[Owner(c)].by = c /\ keyRow[Owner(d)].by = d
    BY <2>1 DEF KeyFits
  <2> QED
    BY <2>2
<1>4. AnsweredWithoutEffect
  <2> SUFFICES ASSUME NEW c \in ExtCalls, extStep[c] = "answered"
               PROVE  /\ extAnswer[c] \in Recorded => instance[c] = NoInstance /\ ran[c] = NoRev
                      /\ extAnswer[c] \notin Recorded \cup {"result", "failed"} => ran[c] = NoRev
                      /\ keyRow[Owner(c)].by = c => keyRow[Owner(c)].state \in {"succeeded", "failed"}
    BY DEF AnsweredWithoutEffect
  <2>1. StepFits(c) /\ KeyFits(c)
    BY DEF ExtInv
  <2>2. extAnswer[c] \in Recorded => instance[c] = NoInstance /\ ran[c] = NoRev
    BY <2>1 DEF StepFits
  <2>3. extAnswer[c] \notin Recorded \cup {"result", "failed"} => ran[c] = NoRev
    BY <2>1 DEF StepFits
  <2>4. keyRow[Owner(c)].by = c => keyRow[Owner(c)].state \in {"succeeded", "failed"}
    BY <2>1 DEF KeyFits
  <2> QED
    BY <2>2, <2>3, <2>4
<1>5. ProcessesEnd
  BY DEF ProcessesEnd, ExtInv, StepFits
<1> QED
  BY <1>1, <1>2, <1>3, <1>4, <1>5 DEF ExtensionsHold

\* In every state of every instance a tool of an upstream server, and a skill that
\* nobody changed meanwhile, is carried out as its preflight found it and as its
\* session was shown it; under one key at most once, unless the call that began it
\* died; a call answered from the record, or refused, carries nothing out, and a
\* refused one leaves its key free; no process and no heartbeat outlives its call
\* (preflightMCPToolCallOnSession, skillDefinitionRevision, withCleanIdempotency).
THEOREM ExtensionsKeepTheirWord == ExtensionsSpec => []ExtensionsHold
<1>1. ASSUME ExtInv, ExtensionsNext PROVE ExtInv'
  <2>1. CASE \E c \in ExtCalls : ExtCallSteps(c)
    BY <1>1, <2>1, CallStepsFit
  <2>2. CASE ChangeUpstream \/ ChangeSkills
    BY <1>1, <2>2, WorldStepsFit
  <2>3. CASE RestartServer
    BY <1>1, <2>3, RestartFits
  <2> QED
    BY <1>1, <2>1, <2>2, <2>3 DEF ExtensionsNext, ExtCallSteps
<1>2. ExtInv /\ [ExtensionsNext]_extVars => ExtInv'
  BY <1>1, WorldStepsFit
<1> QED
  BY <1>2, ExtInitially, ExtPromises, PTL DEF ExtensionsSpec
===============================================================================
