--------------------------- MODULE OperationProofs ---------------------------
(***************************************************************************)
(* Proofs about the operation service, for every value of the constants:   *)
(* that an operation which is over stays so and leaves nothing at work,    *)
(* that a step runs once for each time it is admitted, what runs when, and *)
(* what is said of an operation that is over.                              *)
(*                                                                         *)
(* The last part is about the same operations seen from outside            *)
(* (OperationTools): what a poll or a wait answers while they move.        *)
(***************************************************************************)
EXTENDS Operation, OperationTools, FiniteSetTheorems, SequenceTheorems, WellFoundedInduction, TLAPS

-----------------------------------------------------------------------------
(* The operators the model is built from. *)

\* The aggregate of any set of step states is a state of an operation.
LEMMA AggregateType == \A S : AggregateState(S) \in OpStates \ {"none"}
BY DEF AggregateState, OpStates, Unfinished, Terminal

\* A running step keeps its operation running, whatever the others did.
LEMMA AggregateRunning == \A S : "running" \in S => AggregateState(S) = "running"
BY DEF AggregateState, Unfinished

\* A terminal aggregate leaves no step unfinished.
LEMMA AggregateTerminal ==
  \A S : AggregateState(S) \in Terminal => S \cap Unfinished = {}
BY DEF AggregateState, Unfinished, Terminal

\* finishStep records an outcome the schema knows, never queued or running.
LEMMA OutcomeType ==
  \A o, r : StepOutcome(o, r) \in {"interrupted", "cancelled", "waiting", "failed", "succeeded"}
BY DEF StepOutcome

\* Scheduling the steps S of o appends jobs of o to pending.
LEMMA PushType ==
  ASSUME NEW o \in Ops, NEW S \in SUBSET Steps, pending \in Seq(Job), Push(o, S)
  PROVE  pending' \in Seq(Job) /\ wake' \in BOOLEAN /\ jobs' = jobs /\ disp' = disp
<1>1. IsFiniteSet(S)
  BY ConstantsAssumption, FS_Subset
<1>2. Cardinality(S) \in Nat
  BY <1>1, FS_CardinalityType
<1>3. PICK q \in [1..Cardinality(S) -> S] :
        pending' = pending \o [i \in 1..Cardinality(S) |-> [op |-> o, step |-> q[i]]]
  BY DEF Push
<1> DEFINE new == [i \in 1..Cardinality(S) |-> [op |-> o, step |-> q[i]]]
<1>4. new \in [1..Cardinality(S) -> Job]
  BY DEF Job
<1> HIDE DEF new
<1>5. new \in Seq(Job)
  BY <1>2, <1>4, IsASeq
<1>6. pending \o new \in Seq(Job)
  BY <1>5
<1>7. pending' = pending \o new
  BY <1>3 DEF new
<1>8. wake' = TRUE /\ jobs' = jobs /\ disp' = disp
  BY DEF Push, Woken
<1> QED
  BY <1>6, <1>7, <1>8

-----------------------------------------------------------------------------
(* Type correctness, one group of variables at a time. *)

\* A new process starts with well typed rows, queues and goroutines.
LEMMA InitType == Init => TypeOK
<1> SUFFICES ASSUME Init PROVE TypeOK
  OBVIOUS
<1>1. DurableType
  BY DEF Init, DurableType, OpStates, StepStates
<1>2. HandlesType /\ ControlType
  BY DEF Init, HandlesType, ControlType
<1>3. QueuesType
  <2>1. pending \in Seq(Job) /\ jobs \in Seq(Job)
    BY DEF Init
  <2>2. wake = FALSE /\ disp = "top"
    BY DEF Init
  <2> QED
    BY <2>1, <2>2 DEF QueuesType
<1>4. ThreadsType
  BY DEF Init, ThreadsType, PC
<1>5. HistoryType
  BY DEF Init, HistoryType
<1> QED
  BY <1>1, <1>2, <1>3, <1>4, <1>5 DEF TypeOK

\* What is left alone keeps its type.
LEMMA StutterType ==
  ASSUME TypeOK
  PROVE  /\ UNCHANGED durable => DurableType'
         /\ UNCHANGED handles => HandlesType'
         /\ UNCHANGED queues => QueuesType'
         /\ UNCHANGED threads => ThreadsType'
         /\ UNCHANGED control => ControlType'
         /\ UNCHANGED history => HistoryType'
BY DEF TypeOK, DurableType, HandlesType, QueuesType, ThreadsType, ControlType, HistoryType,
       durable, handles, queues, threads, control, history

\* A goroutine that returns from or enters the service stays well typed.
LEMMA ThreadTypes ==
  ASSUME TypeOK, NEW t \in Threads
  PROVE  /\ Return(t) => ThreadsType'
         /\ \A o \in Ops, l \in PC : Enter(t, o, l) => ThreadsType'
         /\ \A l \in PC : Goto(t, l) => pc' \in [Threads -> PC]
<1>1. Return(t) => ThreadsType'
  <2> SUFFICES ASSUME Return(t) PROVE ThreadsType'
    OBVIOUS
  <2>1. pc' \in [Threads -> PC] /\ snap' \in [Threads -> SUBSET Steps]
    BY DEF TypeOK, ThreadsType, Return, Goto, PC
  <2>2. /\ curOp' \in [Threads -> Ops \cup {None}]
        /\ curStep' \in [Threads -> Steps \cup {None}]
        /\ result' \in [Threads -> Results \cup {None}]
    BY DEF TypeOK, ThreadsType, Return
  <2>3. lockKey' \in [Threads -> BOOLEAN]
    BY DEF TypeOK, ThreadsType, Return
  <2> QED
    BY <2>1, <2>2, <2>3 DEF ThreadsType
<1>2. \A o \in Ops, l \in PC : Enter(t, o, l) => ThreadsType'
  BY DEF TypeOK, ThreadsType, Enter, Goto
<1>3. \A l \in PC : Goto(t, l) => pc' \in [Threads -> PC]
  BY DEF TypeOK, ThreadsType, Goto
<1> QED
  BY <1>1, <1>2, <1>3

\* persistState writes a state of the schema.
LEMMA PersistType ==
  ASSUME TypeOK, NEW o, NEW st \in OpStates, Persist(o, st)
  PROVE  opState' \in [Ops -> OpStates]
BY DEF Persist, TypeOK, DurableType

\* Writing one step row of one operation.
LEMMA SetStepType ==
  ASSUME TypeOK, NEW o \in Ops, NEW s \in Steps, NEW st \in StepStates
  PROVE  [stepState EXCEPT ![o][s] = st] \in [Ops -> [Steps -> StepStates]]
BY DEF TypeOK, DurableType

\* finishActive and the event it sends.
LEMMA FinishType ==
  ASSUME TypeOK, NEW o \in Ops, NEW st \in Terminal, FinishActive(o, st),
         runs' = runs, grants' = grants
  PROVE  HandlesType' /\ HistoryType'
<1>1. HandlesType'
  BY DEF FinishActive, TypeOK, HandlesType
<1>2. \A b \in BOOLEAN : \A q \in Seq(Terminal) : (IF b THEN Append(q, st) ELSE q) \in Seq(Terminal)
  OBVIOUS
<1>3. announced' \in [Ops -> Seq(Terminal)]
  BY <1>2 DEF FinishActive, TypeOK, HistoryType
<1> QED
  BY <1>1, <1>3 DEF TypeOK, HistoryType

\* The job a worker takes names an operation and a step.
LEMMA ClaimedJob ==
  ASSUME TypeOK, NEW w \in Workers, Claim(w)
  PROVE  Head(jobs).op \in Ops /\ Head(jobs).step \in Steps
<1>1. Head(jobs) \in Job
  BY DEF Claim, TypeOK, QueuesType
<1> QED
  BY <1>1 DEF Job

\* No action writes a value outside the schema or the declared ranges.
LEMMA NextType ==
  ASSUME TypeOK, ThreadsOK, [Next]_vars
  PROVE  TypeOK'
<1>0. /\ UNCHANGED durable => DurableType'
      /\ UNCHANGED handles => HandlesType'
      /\ UNCHANGED queues => QueuesType'
      /\ UNCHANGED threads => ThreadsType'
      /\ UNCHANGED control => ControlType'
      /\ UNCHANGED history => HistoryType'
  BY StutterType
<1>1. ASSUME NEW c \in Clients, NEW o \in Ops, NEW sp \in SubmitSpecs, Submit(c, o, sp)
      PROVE  TypeOK'
  <2>1. DurableType'
    BY <1>1 DEF Submit, TypeOK, DurableType, OpStates, StepStates, Unfinished
  <2>2. ThreadsType'
    BY <1>1, ThreadTypes DEF Submit, Threads, PC
  <2> QED
    BY <1>0, <1>1, <2>1, <2>2 DEF Submit, TypeOK
<1>2. ASSUME NEW c \in Clients, Register(c)
      PROVE  TypeOK'
  <2>1. HandlesType'
    BY <1>2 DEF Register, TypeOK, HandlesType, ThreadsOK, Threads
  <2>2. ThreadsType'
    BY <1>2 DEF Register, Goto, TypeOK, ThreadsType, Threads, PC
  <2> QED
    BY <1>0, <1>2, <2>1, <2>2 DEF Register, TypeOK
<1>3. ASSUME NEW t \in Threads, Snapshot(t)
      PROVE  TypeOK'
  <2>1. ThreadsType'
    <3>1. CASE Return(t)
      BY <3>1, ThreadTypes
    <3>2. CASE ~Return(t)
      BY <1>3, <3>2 DEF Snapshot, Goto, Ready, TypeOK, ThreadsType, PC
    <3> QED
      BY <3>1, <3>2
  <2> QED
    BY <1>0, <1>3, <2>1 DEF Snapshot, TypeOK
<1>4. ASSUME NEW t \in Threads, Enqueue(t)
      PROVE  TypeOK'
  <2> DEFINE o == curOp[t]
             S == snap[t] \ enqueued[o]
  <2>1. S \in SUBSET Steps /\ ThreadsType'
    BY <1>4, ThreadTypes DEF Enqueue, TypeOK, ThreadsType
  <2>2. o \in Ops
    BY <1>4 DEF Enqueue, ThreadsOK
  <2>3. HandlesType' /\ QueuesType'
    <3>1. CASE o \in active \ cancelReq
      <4>1. enqueued' = [enqueued EXCEPT ![o] = @ \cup S] /\ Push(o, S)
        BY <1>4, <3>1 DEF Enqueue
      <4>2. HandlesType'
        BY <1>4, <4>1, <2>1 DEF Enqueue, TypeOK, HandlesType
      <4>3. QueuesType'
        BY <2>1, <2>2, <4>1, PushType DEF TypeOK, QueuesType
      <4> QED
        BY <4>2, <4>3
    <3>2. CASE o \notin active \ cancelReq
      BY <1>0, <1>4, <3>2 DEF Enqueue, handles
    <3> QED
      BY <3>1, <3>2
  <2> QED
    BY <1>0, <1>4, <2>1, <2>3 DEF Enqueue, TypeOK
<1>5. ASSUME Dispatch
      PROVE  TypeOK'
  <2>1. QueuesType'
    <3>1. CASE DispatchPeek
      BY <3>1 DEF DispatchPeek, TypeOK, QueuesType
    <3>2. CASE DispatchSend
      BY <3>2 DEF DispatchSend, TypeOK, QueuesType
    <3>3. CASE DispatchWake
      BY <3>3 DEF DispatchWake, TypeOK, QueuesType
    <3> QED
      BY <1>5, <3>1, <3>2, <3>3 DEF Dispatch
  <2> QED
    BY <1>0, <1>5, <2>1 DEF Dispatch, DispatchPeek, DispatchSend, DispatchWake, TypeOK
<1>6. ASSUME NEW w \in Workers, Claim(w)
      PROVE  TypeOK'
  <2>1. Head(jobs).op \in Ops /\ Head(jobs).step \in Steps
    BY <1>6, ClaimedJob
  <2>2. QueuesType'
    BY <1>6 DEF Claim, TypeOK, QueuesType
  <2> DEFINE o == Head(jobs).op
             s == Head(jobs).step
  <2>3. CASE o \in active \ cancelReq /\ stepState[o][s] = "queued"
    <3>1. DurableType'
      <4>1. opState' \in [Ops -> OpStates]
        BY <1>6, <2>1, <2>3 DEF Claim, TypeOK, DurableType, OpStates, Unfinished
      <4>2. stepState' = [stepState EXCEPT ![o][s] = "running"]
        BY <1>6, <2>3 DEF Claim
      <4>3. stepState' \in [Ops -> [Steps -> StepStates]]
        BY <2>1, <4>2, SetStepType DEF StepStates, OpStates, Unfinished
      <4> QED
        BY <1>6, <4>1, <4>3 DEF Claim, TypeOK, DurableType
    <3>2. HandlesType'
      BY <1>6, <2>1, <2>3 DEF Claim, TypeOK, HandlesType
    <3>3. ThreadsType'
      BY <1>6, <2>1, <2>3 DEF Claim, Goto, TypeOK, ThreadsType, Threads, PC
    <3> QED
      BY <1>0, <1>6, <2>2, <3>1, <3>2, <3>3 DEF Claim, TypeOK
  <2>4. CASE ~(o \in active \ cancelReq /\ stepState[o][s] = "queued")
    <3>1. UNCHANGED <<durable, handles, threads>>
      BY <1>6, <2>4 DEF Claim, durable, handles
    <3> QED
      BY <1>0, <1>6, <2>2, <3>1 DEF Claim, TypeOK
  <2> QED
    BY <2>3, <2>4
<1>7. ASSUME NEW w \in Workers, StartStep(w)
      PROVE  TypeOK'
  <2>1. ThreadsType'
    BY <1>7 DEF StartStep, Goto, TypeOK, ThreadsType, Threads, PC, Results
  <2>2. HistoryType'
    <3>1. curOp[w] \in Ops /\ curStep[w] \in Steps
      BY <1>7 DEF StartStep, ThreadsOK, InFlight, Threads
    <3>2. CASE runs' = runs
      BY <1>7, <3>2 DEF StartStep, TypeOK, HistoryType
    <3>3. CASE runs' = [runs EXCEPT ![curOp[w]][curStep[w]] = @ + 1]
      BY <1>7, <3>1, <3>3 DEF StartStep, TypeOK, HistoryType
    <3> QED
      BY <1>7, <3>2, <3>3 DEF StartStep
  <2> QED
    BY <1>0, <1>7, <2>1, <2>2 DEF StartStep, TypeOK
<1>8. ASSUME NEW w \in Workers, ExecReturn(w)
      PROVE  TypeOK'
  <2>1. ThreadsType'
    BY <1>8 DEF ExecReturn, Goto, TypeOK, ThreadsType, Threads, PC
  <2> QED
    BY <1>0, <1>8, <2>1 DEF ExecReturn, TypeOK
<1>9. ASSUME NEW w \in Workers, FinishStep(w)
      PROVE  TypeOK'
  <2>1. StepOutcome(curOp[w], result[w]) \in StepStates
    BY OutcomeType DEF StepStates, OpStates, Unfinished, Terminal
  <2>0. curOp[w] \in Ops /\ curStep[w] \in Steps
    BY <1>9 DEF FinishStep, ThreadsOK, InFlight, Threads
  <2>2. DurableType'
    <3>1. stepState' \in [Ops -> [Steps -> StepStates]]
      BY <1>9, <2>0, <2>1, SetStepType DEF FinishStep
    <3>2. token' \in [Ops -> [Steps -> Tokens \cup {None}]]
      BY <1>9, <2>0 DEF FinishStep, TypeOK, DurableType
    <3> QED
      BY <1>9, <3>1, <3>2 DEF FinishStep, TypeOK, DurableType
  <2>3. HandlesType'
    BY <1>9 DEF FinishStep, Deregister, TypeOK, HandlesType
  <2>4. ThreadsType'
    BY <1>9 DEF FinishStep, Goto, TypeOK, ThreadsType, Threads, PC
  <2> QED
    BY <1>0, <1>9, <2>2, <2>3, <2>4 DEF FinishStep, TypeOK
<1>10. ASSUME NEW t \in Threads, ReconcileCancelled(t)
       PROVE  TypeOK'
  <2> DEFINE o == curOp[t]
             st == IF "interrupted" \in StatesOf(stepState[o]) THEN "interrupted" ELSE "cancelled"
  <2>1. o \in Ops /\ st \in Terminal /\ st \in OpStates
    BY <1>10 DEF ReconcileCancelled, ThreadsOK, Terminal, OpStates
  <2>2. ThreadsType'
    BY <1>10, ThreadTypes DEF ReconcileCancelled
  <2> HIDE DEF st
  <2>3. CASE CancelSettled(o)
    <3>1. Persist(o, st) /\ FinishActive(o, st)
      BY <1>10, <2>3 DEF ReconcileCancelled, st
    <3>2. DurableType'
      BY <1>10, <2>1, <3>1, PersistType DEF ReconcileCancelled, TypeOK, DurableType
    <3>3. HandlesType' /\ HistoryType'
      BY <1>10, <2>1, <3>1, FinishType DEF ReconcileCancelled
    <3> QED
      BY <1>0, <1>10, <2>2, <3>2, <3>3 DEF ReconcileCancelled, TypeOK
  <2>4. CASE ~CancelSettled(o)
    <3>1. UNCHANGED <<durable, handles, history>>
      BY <1>10, <2>4 DEF ReconcileCancelled, durable, history
    <3> QED
      BY <1>0, <1>10, <2>2, <3>1 DEF ReconcileCancelled, TypeOK
  <2> QED
    BY <2>3, <2>4
<1>11. ASSUME NEW t \in Threads, Reconcile(t)
       PROVE  TypeOK'
  <2> DEFINE o == curOp[t]
             steps == [s \in Steps |-> IF s \in Doomed(o) THEN "skipped" ELSE stepState[o][s]]
             st == AggregateState(StatesOf(steps))
  <2>1. o \in Ops /\ st \in OpStates
    BY <1>11, AggregateType DEF Reconcile, ThreadsOK
  <2>2. steps \in [Steps -> StepStates]
    BY <2>1 DEF StepStates, TypeOK, DurableType
  <2>3. stepState' = [stepState EXCEPT ![o] = steps] /\ Persist(o, st)
    BY <1>11 DEF Reconcile
  <2>4. IF Ends(st) THEN FinishActive(o, st) /\ Return(t)
        ELSE Goto(t, "snap") /\ UNCHANGED <<handles, announced, curOp, curStep, result, snap, lockKey>>
    BY <1>11 DEF Reconcile
  <2> HIDE DEF steps, st
  <2>5. DurableType'
    BY <1>11, <2>1, <2>2, <2>3, PersistType DEF Reconcile, TypeOK, DurableType
  <2>6. CASE st \in Terminal
    BY <1>0, <1>11, <2>1, <2>4, <2>5, <2>6, FinishType, ThreadTypes DEF Reconcile, Ends, TypeOK
  <2>7. CASE st \notin Terminal
    <3>1. ThreadsType'
      BY <2>4, <2>7 DEF Ends, Goto, TypeOK, ThreadsType, PC
    <3>2. UNCHANGED <<handles, history>>
      BY <1>11, <2>4, <2>7 DEF Reconcile, Ends, history
    <3> QED
      BY <1>0, <1>11, <2>5, <3>1, <3>2 DEF Reconcile, TypeOK
  <2> QED
    BY <2>6, <2>7
<1>12. ASSUME NEW t \in Threads, ReconcileNothing(t)
       PROVE  TypeOK'
  BY <1>0, <1>12, ThreadTypes DEF ReconcileNothing, TypeOK
<1>13. ASSUME NEW c \in Clients, NEW o \in Ops, Cancel(c, o) \/ CancelDropped(c, o)
       PROVE  TypeOK'
  <2>1. ThreadsType'
    BY <1>13, ThreadTypes DEF Cancel, CancelDropped, Threads, PC
  <2>2. HandlesType' /\ ControlType'
    BY <1>13 DEF Cancel, CancelDropped, TypeOK, HandlesType, ControlType, control
  <2>3. DurableType'
    <3>1. stepState' \in [Ops -> [Steps -> StepStates]]
      BY <1>13 DEF Cancel, CancelDropped, TypeOK, DurableType, durable, OpStates, StepStates, Terminal
    <3>2. opState' \in [Ops -> OpStates]
      BY <1>13, PersistType DEF Cancel, CancelDropped, TypeOK, DurableType, durable, OpStates, Terminal
    <3> QED
      BY <1>13, <3>1, <3>2 DEF Cancel, CancelDropped, TypeOK, DurableType, durable
  <2> QED
    BY <1>0, <1>13, <2>1, <2>2, <2>3 DEF Cancel, CancelDropped, TypeOK
<1>14. ASSUME NEW c \in Clients, NEW o \in Ops, NEW s \in Steps, NEW tk \in Tokens, Resume(c, o, s, tk)
       PROVE  TypeOK'
  <2> DEFINE rows == [stepState[o] EXCEPT ![s] = "queued"]
             held == IF o \in active THEN enqueued[o] \ {s} ELSE {}
             S == {r \in Steps : /\ rows[r] = "queued"
                                 /\ r \notin held
                                 /\ \A d \in DepsOf(o, r) : rows[d] = "succeeded"}
  <2>1. rows \in [Steps -> StepStates] /\ held \in SUBSET Steps /\ S \in SUBSET Steps
    BY DEF StepStates, OpStates, Unfinished, TypeOK, DurableType, HandlesType
  <2>2. Push(o, S)
    BY <1>14 DEF Resume
  <2>3. stepState' = [stepState EXCEPT ![o] = rows] /\ enqueued' = [enqueued EXCEPT ![o] = held \cup S]
    BY <1>14 DEF Resume
  <2> HIDE DEF rows, held, S
  <2>4. QueuesType'
    BY <2>1, <2>2, PushType DEF TypeOK, QueuesType
  <2>5. DurableType'
    BY <1>14, <2>1, <2>3 DEF Resume, TypeOK, DurableType, OpStates, Unfinished
  <2>6. HandlesType'
    BY <1>14, <2>1, <2>3 DEF Resume, TypeOK, HandlesType
  <2>7. HistoryType'
    BY <1>14 DEF Resume, TypeOK, HistoryType
  <2> QED
    BY <1>0, <1>14, <2>4, <2>5, <2>6, <2>7 DEF Resume, TypeOK
<1>15. ASSUME NEW c \in Clients, (\E o \in Ops : WaitBegin(c, o)) \/ WaitReturn(c)
       PROVE  TypeOK'
  BY <1>0, <1>15, ThreadTypes DEF WaitBegin, WaitReturn, TypeOK, Threads, PC
<1>16. ASSUME Crash \/ Close \/ CloseDone \/ Restart
       PROVE  TypeOK'
  <2>1. RecoverInterrupted => DurableType'
    BY DEF RecoverInterrupted, TypeOK, DurableType, OpStates, StepStates, Terminal
  <2>2. FreshProcess => HandlesType' /\ QueuesType' /\ ThreadsType'
    <3> SUFFICES ASSUME FreshProcess PROVE HandlesType' /\ QueuesType' /\ ThreadsType'
      OBVIOUS
    <3>1. HandlesType'
      BY DEF FreshProcess, HandlesType
    <3>2. pending' \in Seq(Job) /\ jobs' \in Seq(Job)
      BY DEF FreshProcess
    <3>3. wake' = FALSE /\ disp' = "top"
      BY DEF FreshProcess
    <3>4. QueuesType'
      BY <3>2, <3>3 DEF QueuesType
    <3>5. ThreadsType'
      BY DEF FreshProcess, ThreadsType, PC
    <3> QED
      BY <3>1, <3>4, <3>5
  <2>3. ControlType'
    BY <1>16 DEF Crash, Close, CloseDone, Restart, TypeOK, ControlType
  <2>4. Close => HandlesType'
    BY DEF Close, TypeOK, HandlesType
  <2> QED
    BY <1>0, <1>16, <2>1, <2>2, <2>3, <2>4 DEF Crash, Close, CloseDone, Restart, TypeOK
<1>17. ASSUME NEW o \in Ops, Expire(o)
       PROVE  TypeOK'
  <2>1. DurableType'
    BY <1>17 DEF Expire, TypeOK, DurableType, OpStates, StepStates
  <2> QED
    BY <1>0, <1>17, <2>1 DEF Expire, TypeOK
<1>18. ASSUME NEW t \in Threads, GiveUp(t)
       PROVE  TypeOK'
  <2>1. ControlType'
    BY <1>18 DEF GiveUp, TypeOK, ControlType
  <2> QED
    BY <1>0, <1>18, <2>1, ThreadTypes DEF GiveUp, TypeOK
<1>19. ASSUME NEW w \in Workers, DropJob(w) \/ MisreadWorkspace(w)
       PROVE  TypeOK'
  <2>1. ControlType'
    BY <1>19 DEF DropJob, MisreadWorkspace, TypeOK, ControlType
  <2>2. QueuesType'
    BY <1>0, <1>19 DEF DropJob, MisreadWorkspace, TypeOK, QueuesType
  <2>3. ThreadsType'
    BY <1>0, <1>19 DEF DropJob, MisreadWorkspace, TypeOK, ThreadsType, Threads
  <2> QED
    BY <1>0, <1>19, <2>1, <2>2, <2>3 DEF DropJob, MisreadWorkspace, TypeOK
<1>20. CASE UNCHANGED vars
  BY <1>0, <1>20 DEF vars, TypeOK
<1>21. ASSUME NEW c \in Clients, ClientCall(c)
       PROVE  TypeOK'
  BY <1>1, <1>13, <1>14, <1>15, <1>21 DEF ClientCall
<1>22. ASSUME NEW t \in Threads, Progress(t)
       PROVE  TypeOK'
  BY <1>3, <1>4, <1>10, <1>11, <1>12, <1>22 DEF Progress
<1>23. ASSUME NEW w \in Workers, WorkerStep(w)
       PROVE  TypeOK'
  BY <1>6, <1>7, <1>8, <1>9, <1>23 DEF WorkerStep
<1>24. CASE Environment
  BY <1>16, <1>17, <1>18, <1>19, <1>24 DEF Environment
<1> QED
  BY <1>2, <1>5, <1>20, <1>21, <1>22, <1>23, <1>24 DEF Next
-----------------------------------------------------------------------------
(* The inductive invariant. *)

\* Goroutine t moves to a label at which it owns no step.
Leaves(t) ==
  /\ \A u \in Threads \ {t} : UNCHANGED <<pc[u], curOp[u], curStep[u], result[u]>>
  /\ pc'[t] \in {"idle", "snap", "enqueue", "reconcile", "wait"}
  /\ pc'[t] # "idle" => curOp'[t] \in Ops

\* The goroutines that own or register something after such a move did so
\* before it.
LEMMA LeavesFacts ==
  ASSUME ThreadsOK, Distinct, NEW t \in Threads, Leaves(t)
  PROVE  /\ ThreadsOK' /\ Distinct'
         /\ \A u \in Threads : InFlight(u)' =>
              InFlight(u) /\ pc'[u] = pc[u] /\ curOp'[u] = curOp[u] /\ curStep'[u] = curStep[u]
         /\ \A u \in Threads : pc'[u] = "register" => pc[u] = "register" /\ curOp'[u] = curOp[u]
BY DEF Leaves, ThreadsOK, Distinct, InFlight

\* The moves of the model that are of this kind.
LEMMA MovesLeave ==
  ASSUME TypeOK, ThreadsOK, NEW t \in Threads
  PROVE  /\ Return(t) => Leaves(t)
         /\ \A o \in Ops : Enter(t, o, "wait") \/ Enter(t, o, "reconcile") => Leaves(t)
         /\ pc[t] # "idle" /\ UNCHANGED <<curOp, curStep, result>>
              /\ (Goto(t, "snap") \/ Goto(t, "enqueue")) => Leaves(t)
BY DEF Return, Enter, Goto, Leaves, TypeOK, ThreadsType, ThreadsOK

\* A move that leaves the rows, the handles and the counters alone.
LEMMA LeavesOnly ==
  ASSUME IInv, NEW t \in Threads, Leaves(t),
         UNCHANGED <<opState, spec, stepState, active, stepCancel, runs, grants>>
  PROVE  ThreadsOK' /\ Owned' /\ Distinct' /\ Fresh' /\ Registering' /\ Stranded' /\ Credit'
<1>0. /\ ThreadsOK' /\ Distinct'
      /\ \A u \in Threads : InFlight(u)' =>
           InFlight(u) /\ pc'[u] = pc[u] /\ curOp'[u] = curOp[u] /\ curStep'[u] = curStep[u]
      /\ \A u \in Threads : pc'[u] = "register" => pc[u] = "register" /\ curOp'[u] = curOp[u]
  BY LeavesFacts DEF IInv
<1>1. Owned'
  BY <1>0 DEF IInv, Owned
<1>2. Fresh' /\ Stranded'
  BY <1>0 DEF IInv, Fresh, Stranded
<1>3. Registering'
  BY <1>0 DEF IInv, Registering
<1>4. Credit'
  BY <1>0 DEF IInv, Credit, InFlight
<1> QED
  BY <1>0, <1>1, <1>2, <1>3, <1>4

\* Nothing the invariant speaks of changes.
LEMMA IdleOnly ==
  ASSUME IInv,
         UNCHANGED <<opState, spec, stepState, active, stepCancel, runs, grants, pc, curOp, curStep, result>>
  PROVE  ThreadsOK' /\ Owned' /\ Distinct' /\ Fresh' /\ Registering' /\ Stranded' /\ Credit'
BY DEF IInv, ThreadsOK, Owned, Distinct, Fresh, Registering, Stranded, Credit, InFlight

\* Submit: the ledger has no entry, so nothing of the operation exists yet.
LEMMA SubmitInv ==
  ASSUME IInv, NEW c \in Clients, NEW o \in Ops, NEW sp \in SubmitSpecs, Submit(c, o, sp)
  PROVE  ThreadsOK' /\ Owned' /\ Distinct' /\ Fresh' /\ Registering' /\ Stranded' /\ Credit'
<1> USE DEF IInv, TypeOK, DurableType, ThreadsType, HistoryType
<1>1. /\ spec[o] = None /\ o \notin active /\ \A s \in Steps : runs[o][s] = 0
      /\ pc[c] = "idle" /\ c \in Threads /\ sp # None
      /\ pc' = [pc EXCEPT ![c] = "register"] /\ curOp' = [curOp EXCEPT ![c] = o]
      /\ UNCHANGED <<active, stepCancel, runs, grants, curStep, result>>
      /\ spec' = [spec EXCEPT ![o] = sp]
      /\ opState' = [opState EXCEPT ![o] = "queued"]
      /\ \A p \in Ops, s \in Steps : p # o => stepState'[p][s] = stepState[p][s]
      /\ \A s \in Steps : stepState'[o][s] \in {"queued", "none"}
  BY ConstantsAssumption DEF Submit, Unsubmitted, Fresh, Enter, Goto, handles, history, Threads
<1>2. \A u \in Threads : u # c => pc'[u] = pc[u] /\ curOp'[u] = curOp[u]
  BY <1>1
<1>3. \A u \in Threads : InFlight(u)' =>
        u # c /\ InFlight(u) /\ pc'[u] = pc[u] /\ curOp'[u] = curOp[u] /\ curOp[u] # o /\ curOp[u] \in Ops
  BY <1>1, <1>2 DEF InFlight, Owned, ThreadsOK
<1>4. ThreadsOK' /\ Distinct'
  BY <1>1, <1>2, <1>3 DEF ThreadsOK, Distinct, InFlight
<1>5. Owned'
  BY <1>1, <1>3 DEF Owned, ThreadsOK
<1>6. Fresh'
  BY <1>1 DEF Fresh
<1>7. Registering'
  <2>1. \A u \in Threads : pc'[u] = "register" /\ u # c =>
          pc[u] = "register" /\ curOp'[u] = curOp[u] /\ curOp[u] \in Ops /\ curOp[u] # o
    BY <1>1, <1>2 DEF Registering, ThreadsOK
  <2>2. curOp'[c] = o
    BY <1>1
  <2>3. \A p \in Ops : p # o => spec'[p] = spec[p]
    BY <1>1
  <2>4. spec'[o] # None
    BY <1>1
  <2> HIDE DEF IInv, TypeOK
  <2> QED
    BY <1>1, <2>1, <2>2, <2>3, <2>4 DEF IInv, Registering
<1>8. Stranded'
  <2>1. \A p \in Ops : p # o => opState'[p] = opState[p]
    BY <1>1
  <2>2. opState'[o] \in Unfinished
    BY <1>1 DEF Unfinished
  <2>3. \A u \in Threads : pc'[u] = "register" => (pc[u] = "register" /\ curOp'[u] = curOp[u]) \/ curOp'[u] = o
    BY <1>1, <1>2
  <2> HIDE DEF IInv, TypeOK
  <2> QED
    BY <1>1, <2>1, <2>2, <2>3 DEF IInv, Stranded
<1>9. Credit'
  <2>1. \A p \in Ops, s \in Steps : stepState'[p][s] = "queued" => runs[p][s] <= grants[p][s]
    <3>1. \A s \in Steps : runs[o][s] <= grants[o][s]
      BY <1>1
    <3> QED
      BY <1>1, <3>1 DEF Credit
  <2>2. \A u \in Threads : pc'[u] = "lock" => pc[u] = "lock" /\ curOp'[u] = curOp[u]
    BY <1>3 DEF InFlight
  <2> QED
    BY <1>1, <2>1, <2>2 DEF Credit
<1> QED
  BY <1>4, <1>5, <1>6, <1>7, <1>8, <1>9

\* Register: nobody else can have created a handle for this operation.
LEMMA RegisterInv ==
  ASSUME IInv, NEW c \in Clients, Register(c)
  PROVE  ThreadsOK' /\ Owned' /\ Distinct' /\ Fresh' /\ Registering' /\ Stranded' /\ Credit'
<1>0. c \in Threads /\ pc[c] = "register" /\ UNCHANGED <<curOp, curStep, result>> /\ Goto(c, "snap")
  BY DEF Register, Threads
<1>1. Leaves(c)
  BY <1>0, MovesLeave DEF IInv
<1>2. /\ ThreadsOK' /\ Distinct'
      /\ \A u \in Threads : InFlight(u)' =>
           InFlight(u) /\ pc'[u] = pc[u] /\ curOp'[u] = curOp[u] /\ curStep'[u] = curStep[u]
      /\ \A u \in Threads : pc'[u] = "register" => pc[u] = "register" /\ curOp'[u] = curOp[u]
  BY <1>0, <1>1, LeavesFacts DEF IInv
<1>3. /\ active' = active \cup {curOp[c]} /\ spec[curOp[c]] # None /\ curOp[c] \in Ops
      /\ UNCHANGED <<opState, spec, stepState, stepCancel, runs, grants>>
  BY <1>0 DEF Register, durable, history, IInv, Registering, ThreadsOK
<1>4. \A u \in Threads : pc'[u] = "register" => u # c
  BY <1>0 DEF Goto, IInv, TypeOK, ThreadsType
<1>5. Owned' /\ Fresh'
  BY <1>2, <1>3 DEF IInv, Owned, Fresh
<1>6. Registering'
  BY <1>0, <1>2, <1>3, <1>4 DEF IInv, Registering
<1>7. Stranded'
  BY <1>0, <1>2, <1>3 DEF IInv, Stranded
<1>8. Credit'
  BY <1>2, <1>3 DEF IInv, Credit, InFlight
<1> QED
  BY <1>2, <1>5, <1>6, <1>7, <1>8

\* Claim: only a queued step of a live handle is taken, so its operation is
\* unfinished and no other worker has it.
LEMMA ClaimInv ==
  ASSUME IInv, NEW w \in Workers, Claim(w)
  PROVE  ThreadsOK' /\ Owned' /\ Distinct' /\ Fresh' /\ Registering' /\ Stranded' /\ Credit'
<1> DEFINE o == Head(jobs).op
           s == Head(jobs).step
<1>1. o \in Ops /\ s \in Steps /\ w \in Threads /\ pc[w] = "idle"
  BY ClaimedJob DEF IInv, Claim, Threads
<1> HIDE DEF o, s
<1>2. CASE ~(o \in active \ cancelReq /\ stepState[o][s] = "queued")
  <2>1. UNCHANGED <<opState, spec, stepState, active, stepCancel, runs, grants, pc, curOp, curStep, result>>
    BY <1>2 DEF Claim, o, s, threads, history
  <2> QED
    BY <2>1, IdleOnly
<1>3. CASE o \in active \ cancelReq /\ stepState[o][s] = "queued"
  <2> USE DEF IInv, TypeOK, DurableType, HandlesType, ThreadsType, HistoryType
  <2>1. /\ stepState' = [stepState EXCEPT ![o][s] = "running"]
        /\ opState' = [opState EXCEPT ![o] = IF @ \in {"queued", "waiting"} THEN "running" ELSE @]
        /\ stepCancel' = [stepCancel EXCEPT ![o] = @ \cup {s}]
        /\ pc' = [pc EXCEPT ![w] = "lock"]
        /\ curOp' = [curOp EXCEPT ![w] = o]
        /\ curStep' = [curStep EXCEPT ![w] = s]
        /\ UNCHANGED <<spec, active, runs, grants, result>>
    BY <1>3 DEF Claim, Goto, o, s, history
  <2>2. opState[o] \in Unfinished /\ opState'[o] \in Unfinished
    BY <1>1, <1>3, <2>1 DEF Stranded, Unfinished
  <2>3. \A u \in Threads : u # w => pc'[u] = pc[u] /\ curOp'[u] = curOp[u] /\ curStep'[u] = curStep[u]
    BY <2>1
  <2>4. pc'[w] = "lock" /\ curOp'[w] = o /\ curStep'[w] = s
    BY <1>1, <2>1
  <2>5. \A u \in Threads : u # w /\ InFlight(u) => curOp[u] \in Ops /\ curStep[u] \in Steps /\ (curOp[u] # o \/ curStep[u] # s)
    BY <1>3 DEF Owned, ThreadsOK, InFlight
  <2>6. \A p \in Ops, r \in Steps : p # o \/ r # s => stepState'[p][r] = stepState[p][r]
    BY <1>1, <2>1
  <2>7. stepState'[o][s] = "running" /\ stepCancel'[o] = stepCancel[o] \cup {s}
    BY <1>1, <2>1
  <2>8. \A p \in Ops : p # o => opState'[p] = opState[p] /\ stepCancel'[p] = stepCancel[p]
    BY <2>1
  <2>9. ThreadsOK'
    BY <1>1, <2>1, <2>3, <2>4 DEF ThreadsOK, InFlight
  <2>10. Distinct'
    BY <2>3, <2>4, <2>5, ZenonT(40) DEF Distinct, InFlight
  <2>11. Owned'
    <3> SUFFICES ASSUME NEW u \in Threads, InFlight(u)'
                 PROVE  /\ curOp'[u] \in active'
                        /\ curStep'[u] \in stepCancel'[curOp'[u]]
                        /\ stepState'[curOp'[u]][curStep'[u]] = "running"
                        /\ opState'[curOp'[u]] \in Unfinished
      BY DEF Owned
    <3>1. CASE u = w
      BY <1>3, <2>1, <2>2, <2>4, <2>7, <3>1
    <3>2. CASE u # w
      <4>1. InFlight(u) /\ curOp'[u] = curOp[u] /\ curStep'[u] = curStep[u]
        BY <2>3, <3>2 DEF InFlight
      <4>2. CASE curOp[u] = o
        BY <2>1, <2>2, <2>5, <2>6, <2>7, <3>2, <4>1, <4>2 DEF Owned
      <4>3. CASE curOp[u] # o
        BY <2>1, <2>5, <2>6, <2>8, <3>2, <4>1, <4>3 DEF Owned
      <4> QED
        BY <4>2, <4>3
    <3> QED
      BY <3>1, <3>2
  <2>12. Fresh'
    BY <1>3, <2>1, <2>8 DEF Fresh
  <2>13. \A u \in Threads : pc'[u] = "register" => pc[u] = "register" /\ curOp'[u] = curOp[u] /\ curOp[u] # o /\ curOp[u] \in Ops
    BY <1>3, <2>3, <2>4 DEF Registering, ThreadsOK
  <2>14. Registering'
    BY <2>1, <2>6, <2>13 DEF Registering
  <2>15. Stranded'
    <3>1. \A p \in Ops, r \in Steps : stepState'[p][r] = "queued" => stepState[p][r] = "queued"
      BY <2>6, <2>7
    <3> QED
      BY <2>1, <2>2, <2>8, <2>13, <3>1 DEF Stranded
  <2>16. Credit'
    <3>1. \A p \in Ops, r \in Steps : stepState'[p][r] = "queued" => stepState[p][r] = "queued"
      BY <2>6, <2>7
    <3>2. runs[o][s] <= grants[o][s]
      BY <1>1, <1>3 DEF Credit
    <3> QED
      BY <2>1, <2>3, <2>4, <3>1, <3>2 DEF Credit
  <2> QED
    BY <2>9, <2>10, <2>11, <2>12, <2>14, <2>15, <2>16
<1> QED
  BY <1>2, <1>3
\* StartStep: the run is paid for by the credit of the claimed step.
LEMMA StartStepInv ==
  ASSUME IInv, NEW w \in Workers, StartStep(w)
  PROVE  ThreadsOK' /\ Owned' /\ Distinct' /\ Fresh' /\ Registering' /\ Stranded' /\ Credit'
<1> DEFINE o == curOp[w]
           s == curStep[w]
<1> USE DEF IInv, TypeOK, ThreadsType, HistoryType
<1>1. /\ w \in Threads /\ pc[w] = "lock" /\ o \in Ops /\ s \in Steps
      /\ pc' \in {[pc EXCEPT ![w] = "exec"], [pc EXCEPT ![w] = "finish"]}
      /\ runs' \in {runs, [runs EXCEPT ![o][s] = @ + 1]}
      /\ UNCHANGED <<opState, spec, stepState, active, stepCancel, grants, curOp, curStep>>
      /\ pc'[w] = "finish" => result'[w] \in Results
      /\ \A u \in Threads : u # w => result'[u] = result[u]
  BY DEF StartStep, Goto, durable, handles, Threads, ThreadsOK, InFlight, Results
<1>2. /\ \A u \in Threads : u # w => pc'[u] = pc[u]
      /\ pc'[w] \in {"exec", "finish"}
      /\ \A u \in Threads : InFlight(u)' <=> InFlight(u)
      /\ \A u \in Threads : pc'[u] = "register" => pc[u] = "register"
  BY <1>1 DEF InFlight
<1>3. ThreadsOK' /\ Distinct' /\ Owned'
  BY <1>1, <1>2 DEF ThreadsOK, Distinct, Owned
<1>4. Registering' /\ Stranded'
  BY <1>1, <1>2 DEF Registering, Stranded
<1>5. \A p \in Ops, r \in Steps : p # o \/ r # s => runs'[p][r] = runs[p][r]
  BY <1>1
<1>6. runs'[o][s] \in {runs[o][s], runs[o][s] + 1}
  BY <1>1
<1>7. o \in active /\ stepState[o][s] = "running" /\ runs[o][s] <= grants[o][s]
  BY <1>1 DEF Owned, InFlight, Credit
<1>8. Fresh'
  <2>1. \A p \in Ops : spec[p] = None => p # o
    BY <1>7 DEF Fresh
  <2>2. \A p \in Ops : spec[p] = None => \A r \in Steps : runs'[p][r] = 0
    BY <1>5, <2>1, ZenonT(40) DEF Fresh
  <2> QED
    BY <1>1, <2>2 DEF Fresh
<1>9. Credit'
  <2>1. \A u \in Threads : pc'[u] = "lock" =>
          u # w /\ pc[u] = "lock" /\ curOp[u] \in Ops /\ curStep[u] \in Steps /\ (curOp[u] # o \/ curStep[u] # s)
    BY <1>1, <1>2 DEF Distinct, InFlight, ThreadsOK
  <2>2. \A p \in Ops, r \in Steps : runs'[p][r] <= 1 + grants[p][r]
    <3>1. runs[o][s] \in Nat /\ grants[o][s] \in Nat
      BY <1>1
    <3>2. runs'[o][s] <= 1 + grants[o][s]
      BY <1>6, <1>7, <3>1
    <3> QED
      BY <1>5, <3>2 DEF Credit
  <2>3. \A p \in Ops, r \in Steps : stepState[p][r] = "queued" => runs'[p][r] <= grants[p][r]
    BY <1>5, <1>7 DEF Credit
  <2>4. \A u \in Threads : pc'[u] = "lock" => runs'[curOp[u]][curStep[u]] <= grants[curOp[u]][curStep[u]]
    BY <1>5, <2>1 DEF Credit
  <2> QED
    BY <1>1, <2>2, <2>3, <2>4 DEF Credit
<1> QED
  BY <1>3, <1>4, <1>8, <1>9

\* ExecReturn only moves the worker on.
LEMMA ExecReturnInv ==
  ASSUME IInv, NEW w \in Workers, ExecReturn(w)
  PROVE  ThreadsOK' /\ Owned' /\ Distinct' /\ Fresh' /\ Registering' /\ Stranded' /\ Credit'
<1> USE DEF IInv, TypeOK, ThreadsType
<1>1. /\ w \in Threads /\ pc[w] = "exec"
      /\ pc' = [pc EXCEPT ![w] = "finish"]
      /\ UNCHANGED <<opState, spec, stepState, active, stepCancel, runs, grants, curOp, curStep>>
      /\ result'[w] \in Results
      /\ \A u \in Threads : u # w => result'[u] = result[u]
  BY DEF ExecReturn, Goto, durable, handles, history, Threads
<1>2. /\ \A u \in Threads : u # w => pc'[u] = pc[u]
      /\ pc'[w] = "finish"
      /\ \A u \in Threads : InFlight(u)' <=> InFlight(u)
      /\ \A u \in Threads : pc'[u] = "register" => pc[u] = "register"
  BY <1>1 DEF InFlight
<1>3. ThreadsOK' /\ Distinct' /\ Owned'
  BY <1>1, <1>2 DEF ThreadsOK, Distinct, Owned
<1>4. Registering' /\ Stranded' /\ Fresh'
  BY <1>1, <1>2 DEF Registering, Stranded, Fresh
<1>5. Credit'
  BY <1>1, <1>2 DEF Credit
<1> QED
  BY <1>3, <1>4, <1>5

\* FinishStep: the step is recorded and deregistered; those of the other
\* workers are different ones.
LEMMA FinishStepInv ==
  ASSUME IInv, NEW w \in Workers, FinishStep(w)
  PROVE  ThreadsOK' /\ Owned' /\ Distinct' /\ Fresh' /\ Registering' /\ Stranded' /\ Credit'
<1> DEFINE o == curOp[w]
           s == curStep[w]
<1> USE DEF IInv, TypeOK, ThreadsType, DurableType, HandlesType
<1>1. /\ w \in Threads /\ InFlight(w) /\ o \in Ops /\ s \in Steps
      /\ pc' = [pc EXCEPT ![w] = "reconcile"]
      /\ UNCHANGED <<opState, spec, active, runs, grants, curOp>>
      /\ stepCancel' = [stepCancel EXCEPT ![o] = @ \ {s}]
      /\ \A u \in Threads : u # w => curStep'[u] = curStep[u] /\ result'[u] = result[u]
  BY DEF FinishStep, Deregister, Goto, history, Threads, ThreadsOK, InFlight
<1>2. /\ \A p \in Ops, r \in Steps : p # o \/ r # s => stepState'[p][r] = stepState[p][r]
      /\ stepState'[o][s] \in {"interrupted", "cancelled", "waiting", "failed", "succeeded"}
  BY <1>1, OutcomeType DEF FinishStep
<1>3. /\ \A u \in Threads : u # w => pc'[u] = pc[u]
      /\ pc'[w] = "reconcile"
  BY <1>1
<1>4. Leaves(w)
  BY <1>1, <1>3 DEF Leaves
<1>5. /\ ThreadsOK' /\ Distinct'
      /\ \A u \in Threads : InFlight(u)' =>
           InFlight(u) /\ pc'[u] = pc[u] /\ curOp'[u] = curOp[u] /\ curStep'[u] = curStep[u]
      /\ \A u \in Threads : pc'[u] = "register" => pc[u] = "register" /\ curOp'[u] = curOp[u]
  BY <1>1, <1>4, LeavesFacts
<1>6. \A u \in Threads : InFlight(u)' =>
        u # w /\ curOp[u] \in Ops /\ curStep[u] \in Steps /\ (curOp[u] # o \/ curStep[u] # s)
  BY <1>1, <1>3, <1>5 DEF Distinct, InFlight, ThreadsOK
<1>7. Owned'
  BY <1>1, <1>2, <1>5, <1>6 DEF Owned
<1>8. Fresh'
  BY <1>1 DEF Fresh
<1>9. o \in active
  BY <1>1 DEF Owned
<1>10. Registering'
  <2>1. \A u \in Threads : pc'[u] = "register" => curOp[u] \in Ops /\ curOp[u] # o
    BY <1>5, <1>9 DEF Registering, ThreadsOK
  <2> QED
    BY <1>1, <1>2, <1>5, <2>1 DEF Registering
<1>11. \A p \in Ops, r \in Steps : stepState'[p][r] = "queued" => stepState[p][r] = "queued"
  BY <1>2
<1>12. Stranded'
  BY <1>1, <1>5, <1>11 DEF Stranded
<1>13. Credit'
  BY <1>1, <1>5, <1>11 DEF Credit, InFlight
<1> QED
  BY <1>5, <1>7, <1>8, <1>10, <1>12, <1>13

\* ReconcileCancelled ends an operation only when no step of it is in flight.
LEMMA ReconcileCancelledInv ==
  ASSUME IInv, NEW t \in Threads, ReconcileCancelled(t)
  PROVE  ThreadsOK' /\ Owned' /\ Distinct' /\ Fresh' /\ Registering' /\ Stranded' /\ Credit'
<1> DEFINE o == curOp[t]
           st == IF "interrupted" \in StatesOf(stepState[o]) THEN "interrupted" ELSE "cancelled"
<1> USE DEF IInv, TypeOK, DurableType, HandlesType
<1>1. /\ o \in Ops /\ o \in active /\ Leaves(t) /\ st \notin Unfinished
      /\ UNCHANGED <<spec, stepState, runs, grants>>
  BY MovesLeave DEF ReconcileCancelled, ThreadsOK, Unfinished
<1> HIDE DEF st
<1>2. /\ ThreadsOK' /\ Distinct'
      /\ \A u \in Threads : InFlight(u)' =>
           InFlight(u) /\ pc'[u] = pc[u] /\ curOp'[u] = curOp[u] /\ curStep'[u] = curStep[u]
      /\ \A u \in Threads : pc'[u] = "register" => pc[u] = "register" /\ curOp'[u] = curOp[u]
  BY <1>1, LeavesFacts
<1>3. CASE ~CancelSettled(o)
  <2>1. UNCHANGED <<opState, active, stepCancel>>
    BY <1>3 DEF ReconcileCancelled, handles
  <2> QED
    BY <1>1, <2>1, LeavesOnly
<1>4. CASE CancelSettled(o)
  <2>1. /\ opState' = [opState EXCEPT ![o] = IF @ \in Terminal THEN @ ELSE st]
        /\ active' = active \ {o}
        /\ stepCancel' = [stepCancel EXCEPT ![o] = {}]
    BY <1>4 DEF ReconcileCancelled, Persist, FinishActive, st
  <2>2. \A u \in Threads : InFlight(u) => curOp[u] \in Ops /\ curOp[u] # o
    BY <1>4 DEF CancelSettled, Owned, ThreadsOK, InFlight
  <2>3. \A p \in Ops : p # o => opState'[p] = opState[p] /\ stepCancel'[p] = stepCancel[p]
    BY <2>1
  <2>4. opState'[o] \notin Unfinished
    BY <1>1, <2>1 DEF Terminal, Unfinished
  <2>5. \A u \in Threads : pc[u] = "register" => curOp[u] # o
    BY <1>1 DEF Registering
  <2>6. Owned'
    BY <1>1, <1>2, <2>1, <2>2, <2>3, SMTT(40) DEF Owned
  <2>7. Fresh'
    BY <1>1, <2>1, <2>3 DEF Fresh
  <2>8. Registering'
    BY <1>1, <1>2, <2>1 DEF Registering
  <2>9. Stranded'
    BY <1>1, <1>2, <2>1, <2>3, <2>5 DEF Stranded
  <2>10. Credit'
    BY <1>1, <1>2 DEF Credit, InFlight
  <2> QED
    BY <1>2, <2>6, <2>7, <2>8, <2>9, <2>10
<1> QED
  BY <1>3, <1>4

\* Reconcile: a running step keeps its operation running, and a terminal
\* aggregate leaves no step queued.
LEMMA ReconcileInv ==
  ASSUME IInv, NEW t \in Threads, Reconcile(t)
  PROVE  ThreadsOK' /\ Owned' /\ Distinct' /\ Fresh' /\ Registering' /\ Stranded' /\ Credit'
<1> DEFINE o == curOp[t]
           steps == [s \in Steps |-> IF s \in Doomed(o) THEN "skipped" ELSE stepState[o][s]]
           st == AggregateState(StatesOf(steps))
<1> USE DEF IInv, TypeOK, DurableType, HandlesType
<1>1. /\ o \in Ops /\ opState[o] # "none" /\ pc[t] = "reconcile"
      /\ stepState' = [stepState EXCEPT ![o] = steps]
      /\ opState' = [opState EXCEPT ![o] = IF @ \in Terminal THEN @ ELSE st]
      /\ UNCHANGED <<spec, runs, grants>>
      /\ IF Ends(st) THEN FinishActive(o, st) /\ Return(t)
         ELSE Goto(t, "snap") /\ UNCHANGED <<handles, announced, curOp, curStep, result, snap, lockKey>>
  BY DEF Reconcile, Persist, ThreadsOK
<1>2. \A s \in Steps : /\ steps[s] = "queued" => stepState[o][s] = "queued"
                       /\ steps[s] \in {"waiting", "running"} => stepState[o][s] = steps[s]
                       /\ stepState[o][s] = "running" => steps[s] = "running"
  BY DEF Doomed
<1>3. \A s \in Steps : stepState[o][s] = "running" => st = "running"
  <2> SUFFICES ASSUME NEW s \in Steps, stepState[o][s] = "running" PROVE st = "running"
    OBVIOUS
  <2>1. "running" \in StatesOf(steps)
    BY <1>2 DEF StatesOf
  <2> QED
    BY <2>1, AggregateRunning
<1>4. st \in Terminal => \A s \in Steps : steps[s] # "queued"
  <2>1. \A s \in Steps : steps[s] = "queued" => "queued" \in StatesOf(steps)
    BY DEF StatesOf
  <2> QED
    BY <2>1, AggregateTerminal DEF Unfinished
<1>5. st \in Terminal \cup Unfinished
  BY AggregateType DEF OpStates
<1> HIDE DEF steps, st
<1>6. Leaves(t) /\ active' \in {active, active \ {o}} /\ stepCancel' \in {stepCancel, [stepCancel EXCEPT ![o] = {}]}
  BY <1>1, MovesLeave DEF FinishActive, handles
<1>7. /\ ThreadsOK' /\ Distinct'
      /\ \A u \in Threads : InFlight(u)' =>
           InFlight(u) /\ pc'[u] = pc[u] /\ curOp'[u] = curOp[u] /\ curStep'[u] = curStep[u]
      /\ \A u \in Threads : pc'[u] = "register" => pc[u] = "register" /\ curOp'[u] = curOp[u]
  BY <1>6, LeavesFacts
<1>8. \A p \in Ops : p # o => /\ opState'[p] = opState[p] /\ stepState'[p] = stepState[p]
                              /\ stepCancel'[p] = stepCancel[p] /\ (p \in active => p \in active')
  BY <1>1, <1>6
<1>9. stepState'[o] = steps /\ opState'[o] = (IF opState[o] \in Terminal THEN opState[o] ELSE st)
  BY <1>1
<1>10. \A p \in Ops, s \in Steps : stepState'[p][s] = "queued" => stepState[p][s] = "queued"
  BY <1>2, <1>8, <1>9
<1>11. active' \subseteq active
  BY <1>6
<1>12. Owned'
  <2> SUFFICES ASSUME NEW u \in Threads, InFlight(u)'
               PROVE  /\ curOp'[u] \in active'
                      /\ curStep'[u] \in stepCancel'[curOp'[u]]
                      /\ stepState'[curOp'[u]][curStep'[u]] = "running"
                      /\ opState'[curOp'[u]] \in Unfinished
    BY DEF Owned
  <2>1. InFlight(u) /\ curOp'[u] = curOp[u] /\ curStep'[u] = curStep[u] /\ curOp[u] \in Ops /\ curStep[u] \in Steps
    BY <1>7 DEF InFlight, ThreadsOK
  <2>2. CASE curOp[u] # o
    BY <1>8, <2>1, <2>2 DEF Owned
  <2>3. CASE curOp[u] = o
    <3>1. st = "running" /\ steps[curStep[u]] = "running" /\ opState[o] \in Unfinished
      BY <1>2, <1>3, <2>1, <2>3 DEF Owned
    <3>2. UNCHANGED <<active, stepCancel>>
      BY <1>1, <3>1 DEF Ends, Terminal, handles
    <3> QED
      BY <1>9, <2>1, <2>3, <3>1, <3>2 DEF Owned, Unfinished
  <2> QED
    BY <2>2, <2>3
<1>13. Fresh'
  BY <1>1, <1>8, <1>11 DEF Fresh
<1>14. Registering'
  <2>1. \A p \in Ops, s \in Steps : stepState'[p][s] \in {"waiting", "running"} => stepState[p][s] \in {"waiting", "running"}
    BY <1>2, <1>8, <1>9
  <2> QED
    BY <1>1, <1>7, <1>11, <2>1, SMTT(40) DEF Registering, ThreadsOK
<1>15. Stranded'
  <2> SUFFICES ASSUME NEW p \in Ops, NEW s \in Steps, opState'[p] \notin Unfinished, stepState'[p][s] = "queued"
               PROVE  p \notin active' /\ \A u \in Threads : pc'[u] = "register" => curOp'[u] # p
    BY DEF Stranded
  <2>1. stepState[p][s] = "queued"
    BY <1>10
  <2>2. opState[p] \notin Unfinished
    <3>1. CASE p # o
      BY <1>8, <3>1
    <3>2. CASE p = o
      BY <1>4, <1>5, <1>9, <3>2 DEF Terminal, Unfinished
    <3> QED
      BY <3>1, <3>2
  <2> QED
    BY <1>7, <1>11, <2>1, <2>2 DEF Stranded
<1>16. Credit'
  BY <1>1, <1>7, <1>10 DEF Credit, InFlight
<1> QED
  BY <1>7, <1>12, <1>13, <1>14, <1>15, <1>16

\* Cancel: with a handle the running steps are left to their workers; without
\* one there is none.
LEMMA CancelInv ==
  ASSUME IInv, NEW c \in Clients, NEW o \in Ops, Cancel(c, o) \/ CancelDropped(c, o)
  PROVE  ThreadsOK' /\ Owned' /\ Distinct' /\ Fresh' /\ Registering' /\ Stranded' /\ Credit'
<1> USE DEF IInv, TypeOK, DurableType
<1>1. /\ c \in Threads /\ Leaves(c) /\ opState[o] # "none"
      /\ UNCHANGED <<spec, active, stepCancel, runs, grants>>
  BY MovesLeave DEF Cancel, CancelDropped, durable, history, Threads, Unfinished
<1>2. /\ ThreadsOK' /\ Distinct'
      /\ \A u \in Threads : InFlight(u)' =>
           InFlight(u) /\ pc'[u] = pc[u] /\ curOp'[u] = curOp[u] /\ curStep'[u] = curStep[u]
      /\ \A u \in Threads : pc'[u] = "register" => pc[u] = "register" /\ curOp'[u] = curOp[u]
  BY <1>1, LeavesFacts
<1>3. CASE UNCHANGED <<opState, stepState>>
  BY <1>1, <1>3, LeavesOnly
<1>4. CASE ~UNCHANGED <<opState, stepState>>
  <2>1. /\ stepState' = [stepState EXCEPT
             ![o] = [s \in Steps |-> IF @[s] \in {"queued", "waiting"} THEN "cancelled" ELSE @[s]]]
        /\ IF o \in active THEN UNCHANGED opState ELSE Persist(o, "cancelled")
    BY <1>4 DEF Cancel, CancelDropped, durable
  <2>2. /\ \A p \in Ops : p # o => opState'[p] = opState[p] /\ stepState'[p] = stepState[p]
        /\ o \in active => opState'[o] = opState[o]
        /\ \A s \in Steps : stepState'[o][s] # "queued" /\ stepState'[o][s] # "waiting"
        /\ \A s \in Steps : stepState'[o][s] = "running" <=> stepState[o][s] = "running"
    BY <2>1 DEF Persist
  <2>3. Owned'
    <3>1. \A u \in Threads : InFlight(u) => curOp[u] \in Ops /\ curStep[u] \in Steps /\ curOp[u] \in active
      BY DEF Owned, ThreadsOK, InFlight
    <3>2. \A p \in Ops : p \in active => opState'[p] = opState[p]
      BY <2>2
    <3>3. \A p \in Ops, s \in Steps : stepState[p][s] = "running" => stepState'[p][s] = "running"
      BY <2>2
    <3> QED
      BY <1>1, <1>2, <3>1, <3>2, <3>3 DEF Owned
  <2>4. Fresh'
    <3>1. spec[o] # None
      BY <1>1 DEF Fresh
    <3> QED
      BY <1>1, <2>2, <3>1 DEF Fresh
  <2>5. Registering'
    <3>1. \A p \in Ops, s \in Steps : stepState'[p][s] \in {"waiting", "running"} => stepState[p][s] \in {"waiting", "running"}
      BY <2>2
    <3> QED
      BY <1>1, <1>2, <3>1 DEF Registering, ThreadsOK
  <2>6. \A p \in Ops, s \in Steps : stepState'[p][s] = "queued" => p # o /\ stepState[p][s] = "queued"
    BY <2>2
  <2>7. Stranded'
    BY <1>1, <1>2, <2>2, <2>6 DEF Stranded
  <2>8. Credit'
    BY <1>1, <1>2, <2>6 DEF Credit, InFlight
  <2> QED
    BY <1>2, <2>3, <2>4, <2>5, <2>7, <2>8
<1> QED
  BY <1>3, <1>4

\* Resume: the confirmed step is waiting, so the operation is unfinished, has
\* no Submit that still registers it, and the step earns one more run.
LEMMA ResumeInv ==
  ASSUME IInv, NEW c \in Clients, NEW o \in Ops, NEW s \in Steps, NEW tk \in Tokens, Resume(c, o, s, tk)
  PROVE  ThreadsOK' /\ Owned' /\ Distinct' /\ Fresh' /\ Registering' /\ Stranded' /\ Credit'
<1> USE DEF IInv, TypeOK, DurableType, HandlesType, HistoryType
<1>1. /\ opState[o] \in Unfinished /\ stepState[o][s] = "waiting"
      /\ stepState' = [stepState EXCEPT ![o] = [stepState[o] EXCEPT ![s] = "queued"]]
      /\ opState' = [opState EXCEPT ![o] = "queued"]
      /\ grants' = [grants EXCEPT ![o][s] = @ + 1]
      /\ active' \in {active, active \cup {o}}
      /\ o \in active => stepCancel' = stepCancel
      /\ o \notin active => stepCancel' = [stepCancel EXCEPT ![o] = {}]
      /\ UNCHANGED <<spec, runs, pc, curOp, curStep, result>>
  BY DEF Resume, threads
<1>2. /\ \A p \in Ops, r \in Steps : p # o \/ r # s => /\ stepState'[p][r] = stepState[p][r]
                                                      /\ grants'[p][r] = grants[p][r]
      /\ \A p \in Ops : p # o => opState'[p] = opState[p]
      /\ stepState'[o][s] = "queued" /\ opState'[o] \in Unfinished
      /\ grants'[o][s] = grants[o][s] + 1
  BY <1>1 DEF Unfinished
<1>3. \A u \in Threads : pc[u] = "register" => curOp[u] \in Ops /\ curOp[u] # o
  BY <1>1 DEF Registering, ThreadsOK
<1>4. ThreadsOK' /\ Distinct'
  BY <1>1 DEF ThreadsOK, Distinct, InFlight
<1>5. Owned'
  <2> SUFFICES ASSUME NEW u \in Threads, InFlight(u)
               PROVE  /\ curOp[u] \in active'
                      /\ curStep[u] \in stepCancel'[curOp[u]]
                      /\ stepState'[curOp[u]][curStep[u]] = "running"
                      /\ opState'[curOp[u]] \in Unfinished
    BY <1>1 DEF Owned, InFlight
  <2>1. /\ curOp[u] \in Ops /\ curStep[u] \in Steps /\ curOp[u] \in active
        /\ curStep[u] \in stepCancel[curOp[u]]
        /\ stepState[curOp[u]][curStep[u]] = "running" /\ opState[curOp[u]] \in Unfinished
    BY DEF Owned, ThreadsOK, InFlight
  <2>2. curOp[u] # o \/ curStep[u] # s
    BY <1>1, <2>1
  <2>3. stepCancel'[curOp[u]] = stepCancel[curOp[u]]
    BY <1>1, <2>1
  <2> QED
    BY <1>1, <1>2, <2>1, <2>2, <2>3
<1>6. Fresh'
  <2>1. spec[o] # None
    BY <1>1 DEF Fresh, Unfinished
  <2> QED
    BY <1>1, <1>2, <2>1 DEF Fresh
<1>7. Registering'
  BY <1>1, <1>2, <1>3 DEF Registering
<1>8. Stranded'
  BY <1>1, <1>2 DEF Stranded
<1>9. Credit'
  <2>1. \A p \in Ops, r \in Steps : grants[p][r] \in Nat /\ runs[p][r] \in Nat
    BY DEF Credit
  <2>2. \A p \in Ops, r \in Steps : \A n \in Nat : n <= grants[p][r] => n <= grants'[p][r]
    <3> SUFFICES ASSUME NEW p \in Ops, NEW r \in Steps, NEW n \in Nat, n <= grants[p][r]
                 PROVE  n <= grants'[p][r]
      OBVIOUS
    <3>1. CASE p = o /\ r = s
      BY <1>2, <2>1, <3>1
    <3>2. CASE p # o \/ r # s
      BY <1>2, <3>2
    <3> QED
      BY <3>1, <3>2
  <2>3. \A p \in Ops, r \in Steps : runs[p][r] <= 1 + grants'[p][r]
    <3> SUFFICES ASSUME NEW p \in Ops, NEW r \in Steps
                 PROVE  runs[p][r] <= 1 + grants'[p][r]
      OBVIOUS
    <3>1. runs[p][r] <= 1 + grants[p][r]
      BY DEF Credit
    <3>2. grants'[p][r] \in {grants[p][r], grants[p][r] + 1}
      BY <1>2
    <3> QED
      BY <2>1, <3>1, <3>2
  <2>4. runs[o][s] <= grants'[o][s]
    BY <1>2, <2>1 DEF Credit
  <2>5. \A p \in Ops, r \in Steps : stepState'[p][r] = "queued" => runs[p][r] <= grants'[p][r]
    BY <1>2, <2>4 DEF Credit
  <2>6. \A u \in Threads : pc[u] = "lock" =>
          /\ curOp[u] \in Ops /\ curStep[u] \in Steps
          /\ runs[curOp[u]][curStep[u]] <= grants[curOp[u]][curStep[u]]
    BY DEF Credit, ThreadsOK, InFlight
  <2>7. \A u \in Threads : pc[u] = "lock" => runs[curOp[u]][curStep[u]] <= grants'[curOp[u]][curStep[u]]
    BY <2>1, <2>2, <2>6 DEF HistoryType
  <2> QED
    BY <1>1, <2>3, <2>5, <2>7 DEF Credit
<1> QED
  BY <1>4, <1>5, <1>6, <1>7, <1>8, <1>9

\* Recovery interrupts; it queues nothing and invents no operation.
LEMMA RecoverFacts ==
  ASSUME IInv, RecoverInterrupted
  PROVE  /\ spec' = spec
         /\ \A o \in Ops, s \in Steps :
              stepState'[o][s] \in {"queued", "waiting", "running"} => stepState'[o][s] = stepState[o][s]
         /\ \A o \in Ops, s \in Steps :
              opState'[o] \notin Unfinished /\ stepState'[o][s] = "queued" => opState[o] \notin Unfinished
         /\ \A o \in Ops : opState[o] = "none" => opState'[o] = "none"
BY DEF RecoverInterrupted, Lost, Unfinished, IInv, TypeOK, DurableType

\* Crash, Restart and CloseDone: recovery runs while no step is in flight.
LEMMA RecoverInv ==
  ASSUME IInv, Crash \/ Restart \/ CloseDone
  PROVE  ThreadsOK' /\ Owned' /\ Distinct' /\ Fresh' /\ Registering' /\ Stranded' /\ Credit'
<1>1. RecoverInterrupted /\ UNCHANGED <<runs, grants>>
  BY DEF Crash, Restart, CloseDone, history
<1>2. /\ spec' = spec
      /\ \A o \in Ops, s \in Steps :
           stepState'[o][s] \in {"queued", "waiting", "running"} => stepState'[o][s] = stepState[o][s]
      /\ \A o \in Ops, s \in Steps :
           opState'[o] \notin Unfinished /\ stepState'[o][s] = "queued" => opState[o] \notin Unfinished
      /\ \A o \in Ops : opState[o] = "none" => opState'[o] = "none"
  BY <1>1, RecoverFacts
<1>3. \/ active' = {} /\ \A t \in Threads : pc'[t] = "idle"
      \/ UNCHANGED <<active, pc, curOp, curStep, result>> /\ \A t \in Threads : ~InFlight(t)
  BY DEF Crash, Restart, CloseDone, FreshProcess, handles, threads, IInv, ThreadsOK, InFlight, Threads
<1>4. active' \subseteq active /\ \A t \in Threads : ~InFlight(t)'
  BY <1>3 DEF InFlight
<1>5. \A t \in Threads : pc'[t] # "idle" => pc'[t] = pc[t] /\ curOp'[t] = curOp[t] /\ curOp[t] \in Ops
  BY <1>3 DEF IInv, ThreadsOK
<1>6. ThreadsOK' /\ Owned' /\ Distinct'
  BY <1>4, <1>5 DEF ThreadsOK, Owned, Distinct, InFlight
<1>7. Fresh'
  BY <1>1, <1>2, <1>4 DEF IInv, Fresh
<1>8. Registering'
  BY <1>2, <1>4, <1>5 DEF IInv, Registering
<1>9. Stranded'
  BY <1>2, <1>4, <1>5 DEF IInv, Stranded
<1>10. Credit'
  BY <1>1, <1>2, <1>4 DEF IInv, Credit, InFlight
<1> QED
  BY <1>6, <1>7, <1>8, <1>9, <1>10

\* Expire takes the rows of an operation nobody works on.
LEMMA ExpireInv ==
  ASSUME IInv, NEW o \in Ops, Expire(o)
  PROVE  ThreadsOK' /\ Owned' /\ Distinct' /\ Fresh' /\ Registering' /\ Stranded' /\ Credit'
<1> USE DEF IInv, TypeOK, DurableType
<1>1. /\ opState[o] \in Terminal
      /\ opState' = [opState EXCEPT ![o] = "none"]
      /\ UNCHANGED <<spec, active, stepCancel, runs, grants, pc, curOp, curStep, result>>
      /\ \A p \in Ops : p # o => stepState'[p] = stepState[p] /\ opState'[p] = opState[p]
      /\ \A s \in Steps : stepState'[o][s] = "none"
  BY DEF Expire, handles, threads, history
<1>2. \A u \in Threads : InFlight(u) => curOp[u] \in Ops /\ curOp[u] # o
  BY <1>1 DEF Owned, ThreadsOK, InFlight, Terminal, Unfinished
<1>3. ThreadsOK' /\ Distinct'
  BY <1>1 DEF ThreadsOK, Distinct, InFlight
<1>4. Owned'
  BY <1>1, <1>2 DEF Owned, InFlight
<1>5. Fresh'
  BY <1>1 DEF Fresh
<1>6. \A p \in Ops, s \in Steps : stepState'[p][s] \in {"queued", "waiting", "running"} => p # o /\ stepState[p][s] = stepState'[p][s]
  BY <1>1
<1>7. Registering'
  BY <1>1, <1>6 DEF Registering, ThreadsOK
<1>8. Stranded'
  BY <1>1, <1>6 DEF Stranded
<1>9. Credit'
  BY <1>1, <1>6 DEF Credit
<1> QED
  BY <1>3, <1>4, <1>5, <1>7, <1>8, <1>9

\* Every step of the service preserves the inductive invariant.
LEMMA NextInv ==
  ASSUME IInv, [Next]_vars
  PROVE  IInv'
<1> DEFINE Rest == ThreadsOK /\ Owned /\ Distinct /\ Fresh /\ Registering /\ Stranded /\ Credit
<1>1. TypeOK'
  BY NextType DEF IInv
<1>2. ASSUME NEW c \in Clients, ClientCall(c)
      PROVE  Rest'
  <2>1. ASSUME (\E o \in Ops : WaitBegin(c, o)) \/ WaitReturn(c)
        PROVE  Rest'
    <3>1. c \in Threads /\ Leaves(c)
      BY <2>1, MovesLeave DEF WaitBegin, WaitReturn, Threads, IInv
    <3>2. UNCHANGED <<opState, spec, stepState, active, stepCancel, runs, grants>>
      BY <2>1 DEF WaitBegin, WaitReturn, durable, handles, history
    <3> QED
      BY <3>1, <3>2, LeavesOnly
  <2> QED
    BY <1>2, <2>1, SubmitInv, CancelInv, ResumeInv DEF ClientCall
<1>3. ASSUME NEW t \in Threads, Progress(t)
      PROVE  Rest'
  <2>1. ASSUME Snapshot(t) \/ Enqueue(t) \/ ReconcileNothing(t)
        PROVE  Rest'
    <3>1. Leaves(t)
      BY <2>1, MovesLeave DEF Snapshot, Enqueue, ReconcileNothing, IInv
    <3>2. UNCHANGED <<opState, spec, stepState, active, stepCancel, runs, grants>>
      BY <2>1 DEF Snapshot, Enqueue, ReconcileNothing, durable, handles, history
    <3> QED
      BY <3>1, <3>2, LeavesOnly
  <2> QED
    BY <1>3, <2>1, ReconcileCancelledInv, ReconcileInv DEF Progress
<1>4. ASSUME NEW w \in Workers, WorkerStep(w)
      PROVE  Rest'
  BY <1>4, ClaimInv, StartStepInv, ExecReturnInv, FinishStepInv DEF WorkerStep
<1>5. ASSUME NEW c \in Clients, Register(c)
      PROVE  Rest'
  BY <1>5, RegisterInv
<1>6. ASSUME Dispatch
      PROVE  Rest'
  <2>1. UNCHANGED <<opState, spec, stepState, active, stepCancel, runs, grants, pc, curOp, curStep, result>>
    BY <1>6 DEF Dispatch, DispatchPeek, DispatchSend, DispatchWake, durable, handles, threads, history
  <2> QED
    BY <2>1, IdleOnly
<1>7. ASSUME Environment
      PROVE  Rest'
  <2>1. ASSUME NEW t \in Threads, GiveUp(t)
        PROVE  Rest'
    <3>1. Leaves(t)
      BY <2>1, MovesLeave DEF GiveUp, IInv
    <3>2. UNCHANGED <<opState, spec, stepState, active, stepCancel, runs, grants>>
      BY <2>1 DEF GiveUp, durable, handles, history
    <3> QED
      BY <3>1, <3>2, LeavesOnly
  <2>2. ASSUME Close \/ \E w \in Workers : DropJob(w) \/ MisreadWorkspace(w)
        PROVE  Rest'
    <3>1. UNCHANGED <<opState, spec, stepState, active, stepCancel, runs, grants, pc, curOp, curStep, result>>
      BY <2>2 DEF Close, DropJob, MisreadWorkspace, durable, handles, threads, history
    <3> QED
      BY <3>1, IdleOnly
  <2> QED
    BY <1>7, <2>1, <2>2, RecoverInv, ExpireInv DEF Environment
<1>8. ASSUME UNCHANGED vars
      PROVE  Rest'
  BY <1>8, IdleOnly DEF vars, durable, handles, threads, history
<1>9. Rest'
  BY <1>2, <1>3, <1>4, <1>5, <1>6, <1>7, <1>8 DEF Next
<1> QED
  BY <1>1, <1>9 DEF IInv

\* A new installation satisfies it.
LEMMA InitInv == Init => IInv
<1> SUFFICES ASSUME Init PROVE IInv
  OBVIOUS
<1>1. TypeOK
  BY InitType
<1>2. ThreadsOK /\ Owned /\ Distinct /\ Registering
  BY DEF Init, ThreadsOK, Owned, Distinct, Registering, InFlight
<1>3. Fresh /\ Stranded /\ Credit
  BY DEF Init, Fresh, Stranded, Credit
<1> QED
  BY <1>1, <1>2, <1>3 DEF IInv

-----------------------------------------------------------------------------
(* The theorems. *)

\* The inductive invariant holds in every state of the service, for any DAGs,
\* any number of workers, clients and operations, and any crashes and faults.
THEOREM Invariant == Spec => []IInv
<1>1. Init => IInv
  BY InitInv
<1>2. IInv /\ [Next]_vars => IInv'
  BY NextInv
<1> QED
  BY <1>1, <1>2, PTL DEF Spec

\* Rows, handles, queues and goroutines keep to their types.
THEOREM TypeCorrect == Spec => []TypeOK
<1>1. IInv => TypeOK
  BY DEF IInv
<1> QED
  BY <1>1, Invariant, PTL

\* No terminal state is stored while a worker owns a step of the operation.
THEOREM TerminalQuiet == Spec => []TerminalMeansQuiet
<1>1. IInv => TerminalMeansQuiet
  BY DEF IInv, Owned, TerminalMeansQuiet
<1> QED
  BY <1>1, Invariant, PTL

\* A tool call runs at most once, and once more per confirmation.
THEOREM AtMostOnce == Spec => []AtMostOncePerGrant
<1>1. IInv => AtMostOncePerGrant
  BY DEF IInv, Credit, AtMostOncePerGrant
<1> QED
  BY <1>1, Invariant, PTL

\* One step never revives a settled operation.
LEMMA NoRevival ==
  ASSUME IInv, [Next]_vars, NEW o \in Ops, spec[o] # None, opState[o] \notin Unfinished
  PROVE  opState'[o] \in {opState[o], "none"} /\ runs'[o] = runs[o]
<1> DEFINE Same == opState'[o] \in {opState[o], "none"} /\ runs'[o] = runs[o]
<1> USE DEF IInv, TypeOK, DurableType, HistoryType
<1>0. opState[o] \in Terminal \cup {"none"} /\ runs[o] = runs[o]
  BY DEF OpStates
<1>1. UNCHANGED <<opState, runs>> => Same
  OBVIOUS
<1>2. \A p, st : Persist(p, st) /\ opState[p] # "none" /\ UNCHANGED runs => Same
  BY <1>0 DEF Persist
<1>3. ASSUME NEW c \in Clients, ClientCall(c)
      PROVE  Same
  <2>1. ASSUME NEW p \in Ops, NEW sp \in SubmitSpecs, Submit(c, p, sp)
        PROVE  Same
    BY <2>1 DEF Submit, Unsubmitted, history
  <2>2. ASSUME NEW p \in Ops, Cancel(c, p) \/ CancelDropped(c, p)
        PROVE  Same
    BY <1>1, <1>2, <2>2 DEF Cancel, CancelDropped, durable, history
  <2>3. ASSUME NEW p \in Ops, NEW s \in Steps, NEW tk \in Tokens, Resume(c, p, s, tk)
        PROVE  Same
    BY <2>3 DEF Resume
  <2>4. (\E p \in Ops : WaitBegin(c, p)) \/ WaitReturn(c) => Same
    BY <1>1 DEF WaitBegin, WaitReturn, durable, history
  <2> QED
    BY <1>3, <2>1, <2>2, <2>3, <2>4 DEF ClientCall
<1>4. ASSUME NEW t \in Threads, Progress(t)
      PROVE  Same
  BY <1>1, <1>2, <1>4 DEF Progress, Snapshot, Enqueue, ReconcileCancelled, Reconcile, ReconcileNothing, durable, history
<1>5. ASSUME NEW w \in Workers, WorkerStep(w)
      PROVE  Same
  <2>1. CASE Claim(w)
    BY <2>1 DEF Claim, Unfinished, history
  <2>2. CASE StartStep(w)
    <3>1. curOp[w] \in Ops /\ curOp[w] # o
      BY <2>2 DEF StartStep, Owned, ThreadsOK, InFlight, Threads
    <3> QED
      BY <2>2, <3>1 DEF StartStep, durable
  <2>3. CASE ExecReturn(w) \/ FinishStep(w)
    BY <1>1, <2>3 DEF ExecReturn, FinishStep, durable, history
  <2> QED
    BY <1>5, <2>1, <2>2, <2>3 DEF WorkerStep
<1>6. ASSUME Environment
      PROVE  Same
  <2>1. RecoverInterrupted /\ UNCHANGED history => Same
    BY <1>0 DEF RecoverInterrupted, Lost, Unfinished, Terminal, history
  <2>2. ASSUME NEW p \in Ops, Expire(p)
        PROVE  Same
    BY <2>2 DEF Expire, history
  <2> QED
    BY <1>1, <1>6, <2>1, <2>2
    DEF Environment, Crash, Close, CloseDone, Restart, GiveUp, DropJob, MisreadWorkspace, durable, history
<1>7. (\E c \in Clients : Register(c)) \/ Dispatch \/ UNCHANGED vars => Same
  BY <1>1 DEF Register, Dispatch, DispatchPeek, DispatchSend, DispatchWake, vars, durable, history
<1> QED
  BY <1>3, <1>4, <1>5, <1>6, <1>7 DEF Next

\* A settled operation stays as it is until its rows expire, and its ID can
\* never start anything again.
THEOREM Settled == Spec => NeverRevived
<1>1. IInv /\ [Next]_vars =>
        [\A o \in Ops : spec[o] # None /\ opState[o] \notin Unfinished =>
           /\ opState'[o] \in {opState[o], "none"}
           /\ runs'[o] = runs[o]]_vars
  BY NoRevival
<1> QED
  BY <1>1, Invariant, PTL DEF Spec, NeverRevived

-----------------------------------------------------------------------------
(* The second inductive invariant, beside IInv. *)

\* Step s of o is named by a job, or by a read enqueueReady has yet to use.
InHand(o, s) ==
  \/ \E i \in 1..Len(pending) : pending[i] = [op |-> o, step |-> s]
  \/ \E i \in 1..Len(jobs) : jobs[i] = [op |-> o, step |-> s]
  \/ \E t \in Threads : pc[t] = "enqueue" /\ curOp[t] = o /\ s \in snap[t]

DepsDone(o, s) == \A d \in DepsOf(o, s) : stepState[o][d] = "succeeded"

\* Only submitted operations have rows, jobs or goroutines.
Submitted ==
  /\ \A t \in Threads : pc[t] # "idle" => spec[curOp[t]] # None
  /\ \A o \in Ops, s \in Steps : InHand(o, s) => spec[o] # None
  /\ \A o \in Ops : spec[o] = None => \A s \in Steps : stepState[o][s] = "none"
  /\ \A o \in Ops : spec[o] # None => ValidSpec(spec[o])

\* An operation has the rows of all its steps and of no other.
RowsComplete ==
  \A o \in Ops : opState[o] # "none" =>
    \A s \in Steps : stepState[o][s] = "none" <=> s \notin spec[o].steps

\* A step that runs, waits for the user or is about to run has its
\* dependencies behind it: a stale job or read names no other queued step.
Justified ==
  \A o \in Ops, s \in Steps :
    \/ stepState[o][s] \in {"running", "waiting"}
    \/ stepState[o][s] = "queued" /\ InHand(o, s)
    => DepsDone(o, s)

\* A skipped step has a dependency that ended without success.
Caused ==
  \A o \in Ops, s \in Steps : stepState[o][s] = "skipped" =>
    \E d \in DepsOf(o, s) :
      stepState[o][d] \in {"failed", "cancelled", "interrupted", "skipped"}

\* While no query failed, a worker holds the lock of the right workspace.
LockHeld ==
  faults = 0 => \A w \in Workers : pc[w] \in {"lock", "exec"} => lockKey[w]

\* An operation that was announced is over for good.
Said ==
  \A o \in Ops : announced[o] # <<>> =>
    /\ Len(announced[o]) = 1
    /\ opState[o] \in {announced[o][1], "none"}
    /\ o \notin active
    /\ spec[o] # None
    /\ \A t \in Threads : pc[t] = "register" => curOp[t] # o

TInv ==
  /\ Submitted /\ RowsComplete /\ Justified /\ Caused
  /\ LockHeld /\ ExclusiveStepsRunAlone
  /\ Said /\ DoneMeansTerminal /\ SuccessIsComplete

-----------------------------------------------------------------------------
(* How one step moves the rows of an operation. *)

\* The submission that creates operation o.
Born(o) ==
  /\ spec[o] = None /\ spec'[o] \in SubmitSpecs /\ ValidSpec(spec'[o])
  /\ opState'[o] = "queued"
  /\ \A s \in Steps : stepState'[o][s] = IF s \in spec'[o].steps THEN "queued" ELSE "none"

\* The expiry of its rows.
Gone(o) ==
  /\ spec'[o] = spec[o]
  /\ opState'[o] = "none"
  /\ \A s \in Steps : stepState'[o][s] = "none"

\* Any other step: a row stays, or goes on along its life.
Kept(o) ==
  /\ spec'[o] = spec[o]
  /\ opState'[o] = "none" <=> opState[o] = "none"
  /\ \A s \in Steps :
       \/ stepState'[o][s] = stepState[o][s]
       \/ stepState[o][s] = "queued" /\ InHand(o, s) /\ stepState'[o][s] = "running"
       \/ /\ stepState[o][s] = "running"
          /\ stepState'[o][s] \in {"interrupted", "cancelled", "waiting", "failed", "succeeded"}
       \/ stepState[o][s] = "waiting" /\ stepState'[o][s] = "queued"
       \/ s \in Doomed(o) /\ stepState'[o][s] = "skipped"
       \/ stepState[o][s] \in {"queued", "waiting"} /\ stepState'[o][s] = "cancelled"
       \/ stepState[o][s] \in Unfinished /\ stepState'[o][s] = "interrupted"

\* Every step of the service is one of the three for every operation.
LEMMA RowMoves ==
  ASSUME IInv, [Next]_vars, NEW o \in Ops
  PROVE  Born(o) \/ Gone(o) \/ Kept(o)
<1> DEFINE Moves == Born(o) \/ Gone(o) \/ Kept(o)
<1> USE DEF IInv, TypeOK, DurableType
<1>1. UNCHANGED <<opState, spec, stepState>> => Kept(o)
  BY DEF Kept
<1>2. ASSUME NEW p \in Ops, NEW st \in Unfinished \cup Terminal,
             opState[p] # "none", Persist(p, st), UNCHANGED <<spec, stepState>>
      PROVE  Kept(o)
  BY <1>2 DEF Kept, Persist, Unfinished, Terminal
<1>3. ASSUME NEW c \in Clients, ClientCall(c)
      PROVE  Moves
  <2>1. ASSUME NEW p \in Ops, NEW sp \in SubmitSpecs, Submit(c, p, sp)
        PROVE  Moves
    <3>1. CASE p = o
      BY <2>1, <3>1 DEF Submit, Unsubmitted, Born
    <3>2. CASE p # o
      BY <2>1, <3>2 DEF Submit, Kept
    <3> QED
      BY <3>1, <3>2
  <2>2. ASSUME NEW p \in Ops, Cancel(c, p)
        PROVE  Moves
    <3>1. CASE UNCHANGED <<opState, stepState>>
      BY <1>1, <2>2, <3>1 DEF Cancel
    <3>2. CASE ~UNCHANGED <<opState, stepState>>
      <4>1. stepState' = [stepState EXCEPT
             ![p] = [s \in Steps |-> IF @[s] \in {"queued", "waiting"} THEN "cancelled" ELSE @[s]]]
        BY <2>2, <3>2 DEF Cancel
      <4>2. opState'[o] = "none" <=> opState[o] = "none"
        BY <2>2 DEF Cancel, Persist
      <4>3. spec' = spec
        BY <2>2 DEF Cancel
      <4> QED
        BY <4>1, <4>2, <4>3 DEF Kept
    <3> QED
      BY <3>1, <3>2
  <2>3. ASSUME NEW p \in Ops, NEW s \in Steps, NEW tk \in Tokens, Resume(c, p, s, tk)
        PROVE  Moves
    <3>1. /\ stepState' = [stepState EXCEPT ![p] = [stepState[p] EXCEPT ![s] = "queued"]]
          /\ opState' = [opState EXCEPT ![p] = "queued"]
          /\ stepState[p][s] = "waiting" /\ opState[p] # "none" /\ spec' = spec
      BY <2>3 DEF Resume, Unfinished
    <3> QED
      BY <3>1 DEF Kept
  <2>4. ASSUME (\E p \in Ops : CancelDropped(c, p) \/ WaitBegin(c, p)) \/ WaitReturn(c)
        PROVE  Moves
    BY <1>1, <2>4 DEF CancelDropped, WaitBegin, WaitReturn, durable
  <2> QED
    BY <1>3, <2>1, <2>2, <2>3, <2>4 DEF ClientCall
<1>4. ASSUME NEW t \in Threads, Progress(t)
      PROVE  Moves
  <2>1. ASSUME Snapshot(t) \/ Enqueue(t) \/ ReconcileNothing(t)
        PROVE  Moves
    BY <1>1, <2>1 DEF Snapshot, Enqueue, ReconcileNothing, durable
  <2>2. ASSUME ReconcileCancelled(t)
        PROVE  Moves
    <3>1. curOp[t] \in Ops /\ opState[curOp[t]] # "none" /\ UNCHANGED <<spec, stepState>>
      BY <2>2 DEF ReconcileCancelled, ThreadsOK
    <3>2. opState' = opState \/ Persist(curOp[t], "interrupted") \/ Persist(curOp[t], "cancelled")
      BY <2>2 DEF ReconcileCancelled
    <3> QED
      BY <1>1, <1>2, <3>1, <3>2 DEF Terminal
  <2>3. ASSUME Reconcile(t)
        PROVE  Moves
    <3> DEFINE p == curOp[t]
               steps == [s \in Steps |-> IF s \in Doomed(p) THEN "skipped" ELSE stepState[p][s]]
               st == AggregateState(StatesOf(steps))
    <3>1. p \in Ops /\ opState[p] # "none" /\ spec' = spec
      BY <2>3 DEF Reconcile, ThreadsOK
    <3>2. stepState' = [stepState EXCEPT ![p] = steps] /\ Persist(p, st) /\ st # "none"
      BY <2>3, AggregateType DEF Reconcile
    <3>3. opState'[o] = "none" <=> opState[o] = "none"
      BY <3>1, <3>2 DEF Persist
    <3>4. CASE p = o
      <4>1. \A s \in Steps : stepState'[o][s] = IF s \in Doomed(o) THEN "skipped" ELSE stepState[o][s]
        BY <3>1, <3>2, <3>4
      <4> QED
        BY <3>1, <3>3, <4>1 DEF Kept
    <3>5. CASE p # o
      <4>1. stepState'[o] = stepState[o]
        BY <3>1, <3>2, <3>5
      <4> QED
        BY <3>1, <3>3, <4>1 DEF Kept
    <3> QED
      BY <3>4, <3>5
  <2> QED
    BY <1>4, <2>1, <2>2, <2>3 DEF Progress
<1>5. ASSUME NEW w \in Workers, WorkerStep(w)
      PROVE  Moves
  <2>1. ASSUME Claim(w)
        PROVE  Moves
    <3> DEFINE p == Head(jobs).op
               s == Head(jobs).step
    <3>1. CASE UNCHANGED <<opState, stepState>>
      BY <1>1, <2>1, <3>1 DEF Claim
    <3>2. CASE ~UNCHANGED <<opState, stepState>>
      <4>1. /\ stepState[p][s] = "queued" /\ spec' = spec
            /\ stepState' = [stepState EXCEPT ![p][s] = "running"]
            /\ opState' = [opState EXCEPT ![p] = IF @ \in {"queued", "waiting"} THEN "running" ELSE @]
        BY <2>1, <3>2 DEF Claim
      <4>2. jobs \in Seq(Job) /\ jobs # <<>>
        BY <2>1 DEF Claim, QueuesType
      <4>3. 1 \in 1..Len(jobs) /\ jobs[1] = [op |-> p, step |-> s]
        <5>1. 1 \in 1..Len(jobs) /\ Head(jobs) = jobs[1] /\ Head(jobs) \in Job
          BY <4>2
        <5>2. \A j \in Job : j = [op |-> j.op, step |-> j.step]
          BY DEF Job
        <5> QED
          BY <5>1, <5>2
      <4>4. InHand(p, s)
        BY <4>3 DEF InHand
      <4> HIDE DEF p, s
      <4> QED
        BY <4>1, <4>4 DEF Kept
    <3> QED
      BY <3>1, <3>2
  <2>2. ASSUME StartStep(w) \/ ExecReturn(w)
        PROVE  Moves
    BY <1>1, <2>2 DEF StartStep, ExecReturn, durable
  <2>3. ASSUME FinishStep(w)
        PROVE  Moves
    <3>1. /\ stepState[curOp[w]][curStep[w]] = "running"
          /\ stepState' = [stepState EXCEPT ![curOp[w]][curStep[w]] = StepOutcome(curOp[w], result[w])]
          /\ UNCHANGED <<opState, spec>>
      BY <2>3 DEF FinishStep, Owned, InFlight, Threads
    <3> QED
      BY <3>1, OutcomeType DEF Kept
  <2> QED
    BY <1>5, <2>1, <2>2, <2>3 DEF WorkerStep
<1>6. ASSUME Environment
      PROVE  Moves
  <2>1. ASSUME RecoverInterrupted
        PROVE  Moves
    <3>1. /\ spec' = spec
          /\ opState'[o] = "none" <=> opState[o] = "none"
          /\ \A s \in Steps : \/ stepState'[o][s] = stepState[o][s]
                              \/ stepState[o][s] \in Unfinished /\ stepState'[o][s] = "interrupted"
      BY <2>1 DEF RecoverInterrupted, Lost
    <3> QED
      BY <3>1 DEF Kept
  <2>2. ASSUME NEW p \in Ops, Expire(p)
        PROVE  Moves
    <3>1. CASE p = o
      BY <2>2, <3>1 DEF Expire, Gone
    <3>2. CASE p # o
      BY <2>2, <3>2 DEF Expire, Kept
    <3> QED
      BY <3>1, <3>2
  <2>3. ASSUME Close \/ (\E t \in Threads : GiveUp(t)) \/ \E w \in Workers : DropJob(w) \/ MisreadWorkspace(w)
        PROVE  Moves
    BY <1>1, <2>3 DEF Close, GiveUp, DropJob, MisreadWorkspace, durable
  <2> QED
    BY <1>6, <2>1, <2>2, <2>3 DEF Environment, Crash, CloseDone, Restart
<1>7. (\E c \in Clients : Register(c)) \/ Dispatch \/ UNCHANGED vars => Kept(o)
  BY <1>1 DEF Register, Dispatch, DispatchPeek, DispatchSend, DispatchWake, vars, durable
<1> QED
  BY <1>3, <1>4, <1>5, <1>6, <1>7 DEF Next

\* What a submission owes its shape.
LEMMA Shape ==
  ASSUME TypeOK, Submitted, NEW o \in Ops, spec[o] # None
  PROVE  /\ spec[o] \in SubmitSpecs /\ ValidSpec(spec[o])
         /\ spec[o].steps \subseteq Steps
         /\ \A s \in Steps : DepsOf(o, s) \subseteq Steps
<1>1. spec[o] \in SubmitSpecs /\ ValidSpec(spec[o])
  BY DEF TypeOK, DurableType, Submitted
<1>2. SpecShape(spec[o])
  BY <1>1, ConstantsAssumption
<1> QED
  BY <1>1, <1>2 DEF SpecShape, DepsOf

\* The search for cycles in validateSpec is what makes success complete: were
\* some steps skipped, one of them would have no skipped dependency to blame.
LEMMA NothingSkipped ==
  ASSUME NEW sp \in SubmitSpecs, ValidSpec(sp), NEW f \in [Steps -> StepStates],
         \A s \in Steps : f[s] = "none" <=> s \notin sp.steps,
         \A s \in Steps : f[s] = "skipped" =>
           \E d \in sp.deps[s] : f[d] \in {"failed", "cancelled", "interrupted", "skipped"},
         \A s \in Steps : f[s] \in {"succeeded", "skipped", "none"}
  PROVE  StatesOf(f) = {"succeeded"}
<1> DEFINE X == {s \in Steps : f[s] = "skipped"}
<1>1. sp.steps \subseteq Steps /\ \A s \in Steps : sp.deps[s] \subseteq Steps
  BY ConstantsAssumption DEF SpecShape
<1>2. X \in SUBSET sp.steps
  OBVIOUS
<1>3. X = {}
  <2> SUFFICES ASSUME X # {} PROVE FALSE
    OBVIOUS
  <2>1. PICK s \in X : sp.deps[s] \cap X = {}
    BY <1>2 DEF ValidSpec
  <2>2. PICK d \in sp.deps[s] : f[d] \in {"failed", "cancelled", "interrupted", "skipped"}
    BY <2>1
  <2>3. d \in X
    BY <1>1, <2>1, <2>2
  <2> QED
    BY <2>1, <2>2, <2>3
<1>4. \A s \in Steps : f[s] \in {"succeeded", "none"}
  BY <1>3
<1>5. PICK s \in Steps : f[s] # "none"
  BY <1>1 DEF ValidSpec
<1> QED
  BY <1>4, <1>5 DEF StatesOf

-----------------------------------------------------------------------------
(* How one step moves the jobs and the reads. *)

\* What is in hand after a step was in hand before it or has its dependencies
\* behind it: enqueueReady and Resume look before they schedule.
LEMMA HandMoves ==
  ASSUME IInv, Submitted, [Next]_vars, NEW o \in Ops, NEW s \in Steps, InHand(o, s)'
  PROVE  spec[o] # None /\ (InHand(o, s) \/ DepsDone(o, s))
<1> DEFINE Goal == spec[o] # None /\ (InHand(o, s) \/ DepsDone(o, s))
           job == [op |-> o, step |-> s]
           In(q) == \E i \in 1..Len(q) : q[i] = job
           Read(t) == pc[t] = "enqueue" /\ curOp[t] = o /\ s \in snap[t]
<1> USE DEF IInv, TypeOK, QueuesType, ThreadsType
<1>0. In(pending) \/ In(jobs) \/ (\E t \in Threads : Read(t)) => Goal
  BY DEF InHand, Submitted
<1>1. ASSUME In(pending)' => In(pending) \/ In(jobs),
             In(jobs)' => In(pending) \/ In(jobs),
             \A t \in Threads : Read(t)' => Read(t)
      PROVE  Goal
  BY <1>0, <1>1 DEF InHand
<1>2. ASSUME UNCHANGED <<pending, jobs>>, NEW t \in Threads, pc'[t] # "enqueue",
             \A u \in Threads \ {t} : UNCHANGED <<pc[u], curOp[u], snap[u]>>
      PROVE  Goal
  BY <1>1, <1>2
<1>3. ASSUME NEW q \in Seq(Job), q # <<>>, In(Tail(q))
      PROVE  In(q)
  <2>1. PICK i \in 1..Len(Tail(q)) : Tail(q)[i] = job
    BY <1>3
  <2>2. i + 1 \in 1..Len(q) /\ q[i + 1] = job
    BY <1>3, <2>1
  <2> QED
    BY <2>2
<1>4. ASSUME NEW p \in Ops, NEW S \in SUBSET Steps, Push(p, S), In(pending)'
      PROVE  In(pending) \/ (p = o /\ s \in S)
  <2>1. PICK q \in [1..Cardinality(S) -> S] :
          pending' = pending \o [i \in 1..Cardinality(S) |-> [op |-> p, step |-> q[i]]]
    BY <1>4 DEF Push
  <2>2. Cardinality(S) \in Nat
    BY ConstantsAssumption, FS_Subset, FS_CardinalityType
  <2> DEFINE n == Cardinality(S)
             new == [i \in 1..n |-> [op |-> p, step |-> q[i]]]
  <2> HIDE DEF n
  <2>3. new \in Seq(Job) /\ Len(new) = n
    <3>1. new \in [1..n -> Job]
      BY <2>1 DEF Job, n
    <3>2. n \in Nat
      BY <2>2 DEF n
    <3> HIDE DEF new
    <3> QED
      BY <3>1, <3>2, IsASeq, LenProperties
  <2>4. \A i \in 1..n : new[i] = [op |-> p, step |-> q[i]] /\ q[i] \in S
    BY <2>1 DEF n
  <2>5. pending' = pending \o new
    BY <2>1 DEF n
  <2> HIDE DEF new
  <2>6. PICK i \in 1..Len(pending \o new) : (pending \o new)[i] = job
    BY <1>4, <2>5
  <2>7. CASE i \in 1..Len(pending)
    BY <2>3, <2>6, <2>7
  <2>8. CASE i \notin 1..Len(pending)
    <3> DEFINE k == i - Len(pending)
    <3>1. k \in 1..n /\ new[k] = job
      BY <2>3, <2>6, <2>8
    <3> HIDE DEF k
    <3>2. [op |-> p, step |-> q[k]] = job /\ q[k] \in S
      BY <2>4, <3>1
    <3>3. [op |-> p, step |-> q[k]].op = o /\ [op |-> p, step |-> q[k]].step = s
      BY <3>2
    <3> QED
      BY <3>2, <3>3
  <2> QED
    BY <2>7, <2>8
<1>5. ASSUME NEW c \in Clients, ClientCall(c) \/ Register(c)
      PROVE  Goal
  <2>1. c \in Threads
    BY DEF Threads
  <2>2. ASSUME NEW p \in Ops, NEW l \in {"register", "reconcile", "wait"}, Enter(c, p, l), UNCHANGED queues
        PROVE  Goal
    BY <1>2, <2>1, <2>2 DEF Enter, Goto, queues
  <2>3. ASSUME NEW p \in Ops, NEW r \in Steps, NEW tk \in Tokens, Resume(c, p, r, tk)
        PROVE  Goal
    <3> DEFINE rows == [stepState[p] EXCEPT ![r] = "queued"]
               held == IF p \in active THEN enqueued[p] \ {r} ELSE {}
               S == {q \in Steps : /\ rows[q] = "queued"
                                   /\ q \notin held
                                   /\ \A d \in DepsOf(p, q) : rows[d] = "succeeded"}
    <3>1. Push(p, S) /\ S \in SUBSET Steps /\ UNCHANGED <<pc, curOp, snap>> /\ spec[p] # None
      BY <2>3 DEF Resume, threads, Fresh, Unfinished
    <3>2. \A q \in S : \A d \in DepsOf(p, q) : stepState[p][d] = "succeeded"
      <4>1. \A q \in S : DepsOf(p, q) \subseteq Steps
        BY <3>1, Shape
      <4>2. stepState[p] \in [Steps -> StepStates]
        BY DEF DurableType
      <4> QED
        BY <4>1, <4>2
    <3>3. jobs' = jobs
      BY <3>1 DEF Push
    <3> HIDE DEF S
    <3>4. In(pending)' => In(pending) \/ (DepsDone(o, s) /\ spec[o] # None)
      <4>1. In(pending)' => In(pending) \/ (p = o /\ s \in S)
        BY <1>4, <3>1
      <4> QED
        BY <3>1, <3>2, <4>1 DEF DepsDone
    <3> QED
      BY <1>0, <3>1, <3>3, <3>4 DEF InHand
  <2>4. ASSUME WaitReturn(c) \/ Register(c)
        PROVE  Goal
    <3>1. UNCHANGED queues /\ (Return(c) \/ (Goto(c, "snap") /\ UNCHANGED <<curOp, snap>>))
      BY <2>4 DEF WaitReturn, Register
    <3> QED
      BY <1>2, <2>1, <3>1 DEF Return, Goto, queues
  <2>5. ASSUME NEW p \in Ops, NEW sp \in SubmitSpecs, Submit(c, p, sp)
        PROVE  Goal
    BY <2>2, <2>5 DEF Submit
  <2>6. ASSUME NEW p \in Ops, Cancel(c, p) \/ CancelDropped(c, p) \/ WaitBegin(c, p)
        PROVE  Goal
    BY <2>2, <2>6 DEF Cancel, CancelDropped, WaitBegin
  <2> QED
    BY <1>5, <2>3, <2>4, <2>5, <2>6 DEF ClientCall
<1>6. ASSUME NEW t \in Threads, Return(t), UNCHANGED queues
      PROVE  Goal
  BY <1>2, <1>6 DEF Return, Goto, queues
<1>7. ASSUME NEW t \in Threads, Progress(t)
      PROVE  Goal
  <2>1. ASSUME Snapshot(t)
        PROVE  Goal
    <3>1. CASE Return(t)
      BY <1>6, <2>1, <3>1 DEF Snapshot
    <3>2. CASE ~Return(t)
      <4>1. /\ snap' = [snap EXCEPT ![t] = Ready(curOp[t])] /\ Goto(t, "enqueue")
            /\ UNCHANGED <<curOp, pending, jobs>> /\ pc[t] = "snap"
        BY <2>1, <3>2 DEF Snapshot, queues
      <4>2. Read(t)' => Goal
        BY <4>1 DEF Ready, DepsDone, Submitted
      <4>3. \A u \in Threads \ {t} : Read(u)' => Read(u)
        BY <4>1 DEF Goto
      <4> QED
        BY <1>0, <4>1, <4>2, <4>3 DEF InHand
    <3> QED
      BY <3>1, <3>2
  <2>2. ASSUME Enqueue(t)
        PROVE  Goal
    <3> DEFINE p == curOp[t]
               S == snap[t] \ enqueued[p]
    <3>1. p \in Ops /\ S \in SUBSET Steps /\ pc[t] = "enqueue"
      BY <2>2 DEF Enqueue, ThreadsOK
    <3>2. CASE UNCHANGED queues
      BY <1>6, <2>2, <3>2 DEF Enqueue
    <3>3. CASE ~UNCHANGED queues
      <4>1. Push(p, S) /\ Return(t)
        BY <2>2, <3>3 DEF Enqueue
      <4>2. p = o /\ s \in S => Read(t)
        BY <3>1
      <4>3. jobs' = jobs
        BY <4>1 DEF Push
      <4>4. \A u \in Threads : Read(u)' => Read(u)
        BY <4>1 DEF Return, Goto
      <4> HIDE DEF S, p
      <4> QED
        BY <1>0, <1>4, <3>1, <4>1, <4>2, <4>3, <4>4 DEF InHand
    <3> QED
      BY <3>2, <3>3
  <2>3. ASSUME ReconcileCancelled(t) \/ ReconcileNothing(t)
        PROVE  Goal
    BY <1>6, <2>3 DEF ReconcileCancelled, ReconcileNothing
  <2>4. ASSUME Reconcile(t)
        PROVE  Goal
    <3>1. UNCHANGED queues /\ (Return(t) \/ (Goto(t, "snap") /\ UNCHANGED <<curOp, snap>>))
      BY <2>4 DEF Reconcile
    <3> QED
      BY <1>2, <1>6, <3>1 DEF Goto, queues
  <2> QED
    BY <1>7, <2>1, <2>2, <2>3, <2>4 DEF Progress
<1>8. ASSUME NEW w \in Workers, WorkerStep(w) \/ DropJob(w) \/ MisreadWorkspace(w)
      PROVE  Goal
  <2>1. w \in Threads
    BY DEF Threads
  <2>2. ASSUME StartStep(w) \/ ExecReturn(w) \/ FinishStep(w)
        PROVE  Goal
    <3>1. UNCHANGED queues /\ UNCHANGED <<curOp, snap>> /\ \E l \in PC \ {"enqueue"} : Goto(w, l)
      BY <2>2 DEF StartStep, ExecReturn, FinishStep, PC
    <3> QED
      BY <1>2, <2>1, <3>1 DEF Goto, queues
  <2>3. ASSUME Claim(w) \/ DropJob(w)
        PROVE  Goal
    <3>1. jobs # <<>> /\ jobs' = Tail(jobs) /\ pending' = pending
      BY <2>3 DEF Claim, DropJob
    <3>2. \A u \in Threads : Read(u)' => Read(u)
      BY <2>3 DEF Claim, DropJob, Goto, threads
    <3> QED
      BY <1>1, <1>3, <3>1, <3>2
  <2>4. ASSUME MisreadWorkspace(w)
        PROVE  Goal
    BY <1>1, <2>4 DEF MisreadWorkspace, queues
  <2> QED
    BY <1>8, <2>2, <2>3, <2>4 DEF WorkerStep
<1>9. ASSUME Dispatch
      PROVE  Goal
  <2>1. UNCHANGED <<pc, curOp, snap>>
    BY <1>9 DEF Dispatch, DispatchPeek, DispatchSend, DispatchWake, threads
  <2>2. CASE UNCHANGED <<pending, jobs>>
    BY <1>1, <2>1, <2>2
  <2>3. CASE ~UNCHANGED <<pending, jobs>>
    <3>1. pending # <<>> /\ pending' = Tail(pending) /\ jobs' = Append(jobs, Head(pending))
      BY <1>9, <2>3 DEF Dispatch, DispatchPeek, DispatchSend, DispatchWake
    <3>2. In(jobs)' => In(jobs) \/ Head(pending) = job
      BY <3>1
    <3>3. Head(pending) = job => In(pending)
      <4>1. 1 \in 1..Len(pending) /\ Head(pending) = pending[1]
        BY <3>1
      <4> QED
        BY <4>1
    <3> QED
      BY <1>1, <1>3, <2>1, <3>1, <3>2, <3>3
  <2> QED
    BY <2>2, <2>3
<1>10. ASSUME Crash \/ Close \/ CloseDone \/ Restart \/ (\E p \in Ops : Expire(p)) \/ UNCHANGED vars
       PROVE  Goal
  <2>1. CASE FreshProcess
    BY <2>1 DEF FreshProcess, InHand
  <2>2. CASE UNCHANGED <<queues, threads>>
    BY <1>1, <2>2 DEF queues, threads
  <2> QED
    BY <1>10, <2>1, <2>2 DEF Crash, Close, CloseDone, Restart, Expire, vars
<1>11. ASSUME NEW t \in Threads, GiveUp(t)
       PROVE  Goal
  BY <1>6, <1>11 DEF GiveUp
<1> QED
  BY <1>5, <1>7, <1>8, <1>9, <1>10, <1>11 DEF Next, Environment

-----------------------------------------------------------------------------
(* How one step moves the handles, the goroutines and the announcements. *)

\* A handle comes from Register or Resume, and goes with the end of its
\* operation or of the process.
HandleMove(o) ==
  /\ o \in active' => \/ o \in active
                      \/ \E t \in Threads : pc[t] = "register" /\ curOp[t] = o
                      \/ opState[o] \in Unfinished
  /\ o \in active /\ o \notin active' =>
       opState'[o] \in Terminal \/ \A t \in Threads : pc'[t] = "idle"
  /\ \/ announced'[o] = announced[o]
     \/ /\ o \in active /\ o \notin active'
        /\ opState'[o] \in Terminal
        /\ announced'[o] = Append(announced[o], opState'[o])

\* A goroutine registers what it has just submitted, and waits for a handle
\* it has seen.
ThreadMove(t) ==
  /\ pc'[t] # "idle" => \/ pc[t] # "idle" /\ curOp'[t] = curOp[t]
                        \/ curOp'[t] \in Ops /\ spec'[curOp'[t]] # None
  /\ pc'[t] = "register" => \/ pc[t] = "register" /\ curOp'[t] = curOp[t]
                            \/ curOp'[t] \in Ops /\ spec[curOp'[t]] = None
  /\ pc'[t] = "wait" => \/ pc[t] = "wait" /\ curOp'[t] = curOp[t]
                        \/ curOp'[t] \in active

\* Every step moves every handle so.
LEMMA HandleMoves ==
  ASSUME IInv, [Next]_vars, NEW o \in Ops
  PROVE  HandleMove(o)
<1> USE DEF IInv, TypeOK, DurableType, HandlesType, HistoryType
<1>1. UNCHANGED <<active, announced>> => HandleMove(o)
  BY DEF HandleMove
<1>2. ASSUME NEW p \in Ops, NEW st \in Terminal, Persist(p, st), FinishActive(p, st)
      PROVE  HandleMove(o)
  <2>1. active' = active \ {p}
    BY <1>2 DEF FinishActive
  <2>2. announced' = [announced EXCEPT ![p] = IF Announces(p, st) THEN Append(@, st) ELSE @]
    BY <1>2 DEF FinishActive
  <2>3. opState'[p] \in Terminal /\ (Announces(p, st) => p \in active /\ opState'[p] = st)
    BY <1>2 DEF Persist, Announces
  <2>4. CASE p = o
    BY <2>1, <2>2, <2>3, <2>4 DEF HandleMove
  <2>5. CASE p # o
    BY <2>1, <2>2, <2>5 DEF HandleMove
  <2> QED
    BY <2>4, <2>5
<1>3. ASSUME NEW c \in Clients, ClientCall(c) \/ Register(c)
      PROVE  HandleMove(o)
  <2>1. ASSUME Register(c)
        PROVE  HandleMove(o)
    BY <2>1 DEF Register, HandleMove, history, Threads
  <2>2. ASSUME NEW p \in Ops, NEW s \in Steps, NEW tk \in Tokens, Resume(c, p, s, tk)
        PROVE  HandleMove(o)
    BY <2>2 DEF Resume, HandleMove
  <2> QED
    BY <1>1, <1>3, <2>1, <2>2
    DEF ClientCall, Submit, Cancel, CancelDropped, WaitBegin, WaitReturn, handles, history
<1>4. ASSUME NEW t \in Threads, Progress(t)
      PROVE  HandleMove(o)
  <2>1. ASSUME ReconcileCancelled(t)
        PROVE  HandleMove(o)
    <3> DEFINE st == IF "interrupted" \in StatesOf(stepState[curOp[t]]) THEN "interrupted" ELSE "cancelled"
    <3>1. curOp[t] \in Ops /\ st \in Terminal
      BY <2>1 DEF ReconcileCancelled, ThreadsOK, Terminal
    <3>2. \/ Persist(curOp[t], st) /\ FinishActive(curOp[t], st)
          \/ UNCHANGED <<active, announced>>
      BY <2>1 DEF ReconcileCancelled, handles
    <3> HIDE DEF st
    <3> QED
      BY <1>1, <1>2, <3>1, <3>2
  <2>2. ASSUME Reconcile(t)
        PROVE  HandleMove(o)
    <3> DEFINE p == curOp[t]
               steps == [s \in Steps |-> IF s \in Doomed(p) THEN "skipped" ELSE stepState[p][s]]
               st == AggregateState(StatesOf(steps))
    <3>1. p \in Ops
      BY <2>2 DEF Reconcile, ThreadsOK
    <3>2. \/ st \in Terminal /\ Persist(p, st) /\ FinishActive(p, st)
          \/ UNCHANGED <<active, announced>>
      BY <2>2 DEF Reconcile, Ends, handles
    <3> HIDE DEF st
    <3> QED
      BY <1>1, <1>2, <3>1, <3>2
  <2> QED
    BY <1>1, <1>4, <2>1, <2>2 DEF Progress, Snapshot, Enqueue, ReconcileNothing, handles, history
<1>5. ASSUME NEW w \in Workers, WorkerStep(w)
      PROVE  HandleMove(o)
  BY <1>1, <1>5 DEF WorkerStep, Claim, StartStep, ExecReturn, FinishStep, handles, history
<1>6. ASSUME Environment
      PROVE  HandleMove(o)
  <2>1. ASSUME FreshProcess, UNCHANGED announced
        PROVE  HandleMove(o)
    BY <2>1 DEF FreshProcess, HandleMove
  <2> QED
    BY <1>1, <1>6, <2>1
    DEF Environment, Crash, Close, CloseDone, Restart, Expire, GiveUp, DropJob, MisreadWorkspace,
        handles, history
<1>7. Dispatch \/ UNCHANGED vars => HandleMove(o)
  BY <1>1 DEF Dispatch, DispatchPeek, DispatchSend, DispatchWake, vars, handles, history
<1> QED
  BY <1>3, <1>4, <1>5, <1>6, <1>7 DEF Next

\* Every step moves every goroutine so.
LEMMA ThreadMoves ==
  ASSUME IInv, Submitted, [Next]_vars, NEW t \in Threads
  PROVE  ThreadMove(t)
<1> USE DEF IInv, TypeOK, ThreadsType
<1>1. UNCHANGED <<pc, curOp>> => ThreadMove(t)
  BY DEF ThreadMove
<1>2. ASSUME NEW u \in Threads, Return(u)
      PROVE  ThreadMove(t)
  BY <1>2 DEF Return, Goto, ThreadMove
<1>3. ASSUME NEW u \in Threads, NEW l \in PC \ {"register", "wait"}, Goto(u, l), pc[u] # "idle", curOp' = curOp
      PROVE  ThreadMove(t)
  BY <1>3 DEF Goto, ThreadMove
<1>4. \A p \in Ops : opState[p] # "none" => spec[p] # None
  BY DEF Fresh
<1>5. ASSUME NEW c \in Clients, ClientCall(c) \/ Register(c)
      PROVE  ThreadMove(t)
  <2>1. c \in Threads
    BY DEF Threads
  <2>2. ASSUME NEW p \in Ops, NEW l \in PC, Enter(c, p, l), spec'[p] # None,
               l = "register" => spec[p] = None, l = "wait" => p \in active
        PROVE  ThreadMove(t)
    BY <2>1, <2>2 DEF Enter, Goto, ThreadMove
  <2>3. ASSUME NEW p \in Ops, NEW sp \in SubmitSpecs, Submit(c, p, sp)
        PROVE  ThreadMove(t)
    <3>1. spec[p] = None /\ spec'[p] # None /\ Enter(c, p, "register")
      BY <2>3, ConstantsAssumption DEF Submit, Unsubmitted, DurableType
    <3> QED
      BY <2>2, <3>1 DEF PC
  <2>4. ASSUME NEW p \in Ops, Cancel(c, p) \/ CancelDropped(c, p) \/ WaitBegin(c, p)
        PROVE  ThreadMove(t)
    <3>1. spec'[p] # None
      BY <1>4, <2>4 DEF Cancel, CancelDropped, WaitBegin, durable, Unfinished
    <3>2. Enter(c, p, "reconcile") \/ (Enter(c, p, "wait") /\ p \in active)
      BY <2>4 DEF Cancel, CancelDropped, WaitBegin
    <3> QED
      BY <2>2, <3>1, <3>2 DEF PC
  <2>5. ASSUME NEW p \in Ops, NEW s \in Steps, NEW tk \in Tokens, Resume(c, p, s, tk)
        PROVE  ThreadMove(t)
    BY <1>1, <2>5 DEF Resume, threads
  <2>6. ASSUME WaitReturn(c) \/ Register(c)
        PROVE  ThreadMove(t)
    BY <1>2, <1>3, <2>1, <2>6 DEF WaitReturn, Register, PC
  <2> QED
    BY <1>5, <2>3, <2>4, <2>5, <2>6 DEF ClientCall
<1>6. ASSUME NEW u \in Threads, Progress(u)
      PROVE  ThreadMove(t)
  <2>1. Return(u) \/ (pc[u] # "idle" /\ curOp' = curOp /\ (Goto(u, "snap") \/ Goto(u, "enqueue")))
    BY <1>6 DEF Progress, Snapshot, Enqueue, ReconcileCancelled, Reconcile, ReconcileNothing
  <2> QED
    BY <1>2, <1>3, <2>1 DEF PC
<1>7. ASSUME NEW w \in Workers, WorkerStep(w)
      PROVE  ThreadMove(t)
  <2>1. w \in Threads
    BY DEF Threads
  <2>2. ASSUME Claim(w)
        PROVE  ThreadMove(t)
    <3> DEFINE p == Head(jobs).op
               s == Head(jobs).step
    <3>1. CASE UNCHANGED threads
      BY <1>1, <3>1 DEF threads
    <3>2. CASE ~UNCHANGED threads
      <4>1. /\ pc' = [pc EXCEPT ![w] = "lock"] /\ curOp' = [curOp EXCEPT ![w] = p]
            /\ stepState[p][s] = "queued" /\ spec' = spec
        BY <2>2, <3>2 DEF Claim, Goto
      <4>2. p \in Ops /\ s \in Steps
        BY <2>2, ClaimedJob
      <4>3. spec[p] # None
        BY <4>1, <4>2 DEF Submitted
      <4> HIDE DEF p, s
      <4> QED
        BY <2>1, <4>1, <4>2, <4>3 DEF ThreadMove
    <3> QED
      BY <3>1, <3>2
  <2>3. ASSUME StartStep(w) \/ ExecReturn(w) \/ FinishStep(w)
        PROVE  ThreadMove(t)
    <3>1. pc[w] # "idle" /\ curOp' = curOp /\ \E l \in {"exec", "finish", "reconcile"} : Goto(w, l)
      BY <2>3 DEF StartStep, ExecReturn, FinishStep
    <3> QED
      BY <1>3, <2>1, <3>1 DEF PC
  <2> QED
    BY <1>7, <2>2, <2>3 DEF WorkerStep
<1>8. ASSUME Environment
      PROVE  ThreadMove(t)
  <2>1. ASSUME NEW u \in Threads, GiveUp(u)
        PROVE  ThreadMove(t)
    BY <1>2, <2>1 DEF GiveUp
  <2>2. FreshProcess => ThreadMove(t)
    BY DEF FreshProcess, ThreadMove
  <2> QED
    BY <1>1, <1>8, <2>1, <2>2
    DEF Environment, Crash, Close, CloseDone, Restart, Expire, DropJob, MisreadWorkspace, threads
<1>9. Dispatch \/ UNCHANGED vars => ThreadMove(t)
  BY <1>1 DEF Dispatch, DispatchPeek, DispatchSend, DispatchWake, vars, threads
<1> QED
  BY <1>5, <1>6, <1>7, <1>8, <1>9 DEF Next

\* Only reconcile reports success, when no row says otherwise.
LEMMA SuccessMoves ==
  ASSUME IInv, [Next]_vars, NEW o \in Ops, opState'[o] = "succeeded"
  PROVE  \/ opState[o] = "succeeded"
         \/ \A s \in Steps : stepState'[o][s] \in {"succeeded", "skipped", "none"}
<1> DEFINE Goal == \/ opState[o] = "succeeded"
                   \/ \A s \in Steps : stepState'[o][s] \in {"succeeded", "skipped", "none"}
<1> USE DEF IInv, TypeOK, DurableType
<1>1. opState' = opState => Goal
  OBVIOUS
<1>2. \A p, st : Persist(p, st) /\ st # "succeeded" => Goal
  BY DEF Persist
<1>3. ASSUME NEW t \in Threads, Progress(t)
      PROVE  Goal
  <2>1. ASSUME Reconcile(t)
        PROVE  Goal
    <3> DEFINE p == curOp[t]
               steps == [s \in Steps |-> IF s \in Doomed(p) THEN "skipped" ELSE stepState[p][s]]
               st == AggregateState(StatesOf(steps))
    <3>1. p \in Ops /\ stepState' = [stepState EXCEPT ![p] = steps] /\ Persist(p, st)
      BY <2>1 DEF Reconcile, ThreadsOK
    <3>2. steps \in [Steps -> StepStates]
      BY <3>1 DEF StepStates
    <3>3. ASSUME st = "succeeded", NEW s \in Steps
          PROVE  steps[s] \in {"succeeded", "skipped", "none"}
      <4>1. steps[s] \in StatesOf(steps) \/ steps[s] = "none"
        BY <3>2 DEF StatesOf
      <4>2. \A S : AggregateState(S) = "succeeded" =>
              S \cap (Unfinished \cup {"interrupted", "failed", "cancelled"}) = {}
        BY DEF AggregateState
      <4>3. steps[s] \notin Unfinished \cup {"interrupted", "failed", "cancelled"}
        BY <3>3, <4>1, <4>2 DEF Unfinished
      <4> QED
        BY <3>2, <4>3 DEF StepStates, OpStates, Unfinished, Terminal
    <3> HIDE DEF steps, st
    <3>4. CASE st = "succeeded" /\ p = o
      BY <3>1, <3>3, <3>4
    <3>5. CASE ~(st = "succeeded" /\ p = o)
      BY <3>1, <3>5 DEF Persist
    <3> QED
      BY <3>4, <3>5
  <2> QED
    BY <1>1, <1>2, <1>3, <2>1 DEF Progress, Snapshot, Enqueue, ReconcileCancelled, ReconcileNothing, durable
<1>4. ASSUME NEW c \in Clients, ClientCall(c) \/ Register(c)
      PROVE  Goal
  <2>1. ASSUME NEW p \in Ops, NEW sp \in SubmitSpecs, Submit(c, p, sp)
        PROVE  Goal
    BY <2>1 DEF Submit
  <2>2. ASSUME NEW p \in Ops, NEW s \in Steps, NEW tk \in Tokens, Resume(c, p, s, tk)
        PROVE  Goal
    BY <2>2 DEF Resume
  <2>3. ASSUME NEW p \in Ops, Cancel(c, p) \/ CancelDropped(c, p) \/ WaitBegin(c, p)
        PROVE  Goal
    BY <1>1, <1>2, <2>3 DEF Cancel, CancelDropped, WaitBegin, durable
  <2>4. WaitReturn(c) \/ Register(c) => Goal
    BY <1>1 DEF WaitReturn, Register, durable
  <2> QED
    BY <1>4, <2>1, <2>2, <2>3, <2>4 DEF ClientCall
<1>5. ASSUME NEW w \in Workers, WorkerStep(w)
      PROVE  Goal
  BY <1>1, <1>5 DEF WorkerStep, Claim, StartStep, ExecReturn, FinishStep, durable
<1>6. ASSUME Environment
      PROVE  Goal
  BY <1>1, <1>6
  DEF Environment, Crash, Close, CloseDone, Restart, RecoverInterrupted, Expire, GiveUp, DropJob,
      MisreadWorkspace, durable
<1>7. Dispatch \/ UNCHANGED vars => Goal
  BY <1>1 DEF Dispatch, DispatchPeek, DispatchSend, DispatchWake, vars, durable
<1> QED
  BY <1>3, <1>4, <1>5, <1>6, <1>7 DEF Next

-----------------------------------------------------------------------------
(* The second invariant is inductive. *)

\* Submitted is kept: a row leaves empty only when Submit wrote the whole operation.
LEMMA SubmittedNext ==
  ASSUME IInv, TInv, [Next]_vars
  PROVE  Submitted'
<1> USE DEF IInv, TInv
<1>1. \A o \in Ops : Born(o) \/ Gone(o) \/ Kept(o)
  BY RowMoves
<1>2. \A o \in Ops : spec[o] # None => spec'[o] = spec[o]
  BY <1>1 DEF Born, Gone, Kept
<1>3. \A o \in Ops : spec[o] = None => spec'[o] = spec[o] \/ (spec'[o] # None /\ ValidSpec(spec'[o]))
  BY <1>1, ConstantsAssumption DEF Born, Gone, Kept
<1>4. \A t \in Threads : pc'[t] # "idle" => spec'[curOp'[t]] # None
  <2> SUFFICES ASSUME NEW t \in Threads, pc'[t] # "idle" PROVE spec'[curOp'[t]] # None
    OBVIOUS
  <2>1. ThreadMove(t)
    BY ThreadMoves
  <2> QED
    BY <1>2, <2>1 DEF ThreadMove, Submitted, ThreadsOK
<1>5. \A o \in Ops, s \in Steps : InHand(o, s)' => spec'[o] # None
  BY <1>2, HandMoves
<1>6. \A o \in Ops : spec'[o] = None => \A s \in Steps : stepState'[o][s] = "none"
  <2> SUFFICES ASSUME NEW o \in Ops, spec'[o] = None, NEW s \in Steps PROVE stepState'[o][s] = "none"
    OBVIOUS
  <2>1. spec[o] = None
    BY <1>2
  <2>2. stepState[o][s] = "none" /\ ~Born(o)
    BY <2>1, ConstantsAssumption DEF Submitted, Born
  <2> QED
    BY <1>1, <2>2 DEF Gone, Kept, Doomed, Unfinished
<1>7. \A o \in Ops : spec'[o] # None => ValidSpec(spec'[o])
  BY <1>2, <1>3 DEF Submitted
<1> QED
  BY <1>4, <1>5, <1>6, <1>7 DEF Submitted

\* Every step of a submitted operation keeps a row: nothing deletes one.
LEMMA RowsCompleteNext ==
  ASSUME IInv, TInv, [Next]_vars
  PROVE  RowsComplete'
<1> SUFFICES ASSUME NEW o \in Ops, opState'[o] # "none", NEW s \in Steps
             PROVE  stepState'[o][s] = "none" <=> s \notin spec'[o].steps
  BY DEF RowsComplete
<1>1. CASE Born(o)
  BY <1>1 DEF Born
<1>2. CASE Kept(o)
  BY <1>2 DEF Kept, TInv, RowsComplete, Doomed, Unfinished
<1> QED
  BY <1>1, <1>2, RowMoves DEF Gone

\* A row that runs or ran had its dependencies succeeded, and they stay so.
LEMMA JustifiedNext ==
  ASSUME IInv, TInv, [Next]_vars
  PROVE  Justified'
<1> USE DEF IInv, TInv
<1> SUFFICES ASSUME NEW o \in Ops, NEW s \in Steps,
                    \/ stepState'[o][s] \in {"running", "waiting"}
                    \/ stepState'[o][s] = "queued" /\ InHand(o, s)'
             PROVE  DepsDone(o, s)'
  BY DEF Justified
<1>1. ~Gone(o)
  BY DEF Gone
<1>2. ~Born(o)
  BY HandMoves DEF Born
<1>3. Kept(o)
  BY <1>1, <1>2, RowMoves
<1>4. DepsDone(o, s)
  <2>1. InHand(o, s)' => InHand(o, s) \/ DepsDone(o, s)
    BY HandMoves
  <2> QED
    BY <1>3, <2>1 DEF Kept, Justified, Doomed
<1>5. spec[o] # None /\ spec'[o] = spec[o]
  <2>1. stepState[o][s] # "none"
    BY <1>3 DEF Kept, Doomed, Unfinished
  <2> QED
    BY <1>3, <2>1 DEF Kept, Submitted
<1>6. \A d \in Steps : stepState[o][d] = "succeeded" => stepState'[o][d] = "succeeded"
  BY <1>3 DEF Kept, Doomed, Unfinished
<1> QED
  BY <1>4, <1>5, <1>6, Shape DEF DepsDone, DepsOf

\* What was skipped has a dependency that did not succeed, and that stays so.
LEMMA CausedNext ==
  ASSUME IInv, TInv, [Next]_vars
  PROVE  Caused'
<1> USE DEF IInv, TInv
<1> SUFFICES ASSUME NEW o \in Ops, NEW s \in Steps, stepState'[o][s] = "skipped"
             PROVE  \E d \in DepsOf(o, s)' :
                      stepState'[o][d] \in {"failed", "cancelled", "interrupted", "skipped"}
  BY DEF Caused
<1>1. Kept(o)
  BY RowMoves DEF Born, Gone
<1>2. stepState[o][s] = "skipped" \/ s \in Doomed(o)
  BY <1>1 DEF Kept
<1>3. PICK d \in DepsOf(o, s) :
        stepState[o][d] \in {"failed", "cancelled", "interrupted", "skipped"}
  BY <1>2 DEF Caused, Doomed
<1>4. spec[o] # None /\ spec'[o] = spec[o]
  BY <1>1, <1>2 DEF Kept, Submitted, Doomed
<1>5. d \in Steps
  BY <1>3, <1>4, Shape
<1>6. stepState'[o][d] = stepState[o][d]
  BY <1>1, <1>3, <1>5 DEF Kept, Doomed, Unfinished
<1> QED
  BY <1>3, <1>4, <1>6 DEF DepsOf

\* A worker enters the lock only past everyone it conflicts with.
LEMMA LockNext ==
  ASSUME IInv, TInv, [Next]_vars
  PROVE  LockHeld' /\ ExclusiveStepsRunAlone'
<1> DEFINE Held(w) == pc[w] \in {"lock", "exec"} => lockKey[w]
           Apart(v, w) ==
             /\ pc[v] = "exec" /\ pc[w] = "exec"
             /\ spec[curOp[v]].ws = spec[curOp[w]].ws
             => ~Exclusive(v) /\ ~Exclusive(w)
           Goal == LockHeld' /\ ExclusiveStepsRunAlone'
<1> USE DEF IInv, TypeOK, ThreadsType
<1>1. \A o \in Ops : spec[o] # None => spec'[o] = spec[o]
  BY RowMoves DEF Born, Gone, Kept
<1>2. \A w \in Workers : w \in Threads /\ (pc[w] # "idle" => curOp[w] \in Ops /\ spec'[curOp[w]] = spec[curOp[w]])
  BY <1>1 DEF Threads, ThreadsOK, TInv, Submitted
<1>3. faults' = 0 => faults = 0
  <2> DEFINE Counted == faults' = faults \/ faults' = faults + 1
  <2>1. ASSUME NEW c \in Clients, ClientCall(c) \/ Register(c)
        PROVE  Counted
    <3>1. \A o \in Ops, sp \in SubmitSpecs : Submit(c, o, sp) => Counted
      BY DEF Submit, control
    <3>2. \A o \in Ops : Cancel(c, o) \/ CancelDropped(c, o) \/ WaitBegin(c, o) => Counted
      BY DEF Cancel, CancelDropped, WaitBegin, control
    <3>3. \A o \in Ops, s \in Steps, tk \in Tokens : Resume(c, o, s, tk) => Counted
      BY DEF Resume, control
    <3>4. WaitReturn(c) \/ Register(c) => Counted
      BY DEF WaitReturn, Register, control
    <3> QED
      BY <2>1, <3>1, <3>2, <3>3, <3>4 DEF ClientCall
  <2>2. \A t \in Threads : Progress(t) => Counted
    BY DEF Progress, Snapshot, Enqueue, ReconcileCancelled, Reconcile, ReconcileNothing, control
  <2>3. \A w \in Workers : WorkerStep(w) => Counted
    BY DEF WorkerStep, Claim, StartStep, ExecReturn, FinishStep, control
  <2>4. Environment => Counted
    BY DEF Environment, Crash, Close, CloseDone, Restart, Expire, GiveUp, DropJob, MisreadWorkspace, control
  <2>5. Dispatch \/ UNCHANGED vars => Counted
    BY DEF Dispatch, DispatchPeek, DispatchSend, DispatchWake, vars, control
  <2>6. Counted
    BY <2>1, <2>2, <2>3, <2>4, <2>5 DEF Next
  <2> QED
    BY <2>6 DEF ControlType
<1>4. ASSUME \A w \in Workers : pc'[w] \in {"lock", "exec"} =>
               pc'[w] = pc[w] /\ curOp'[w] = curOp[w] /\ curStep'[w] = curStep[w] /\ lockKey'[w] = lockKey[w]
      PROVE  Goal
  <2>1. LockHeld'
    BY <1>3, <1>4 DEF TInv, LockHeld
  <2>2. ASSUME NEW v \in Workers, NEW w \in Workers, faults' = 0, v # w, pc'[v] = "exec", pc'[w] = "exec",
               spec'[curOp'[v]].ws = spec'[curOp'[w]].ws
        PROVE  ~Exclusive(v)' /\ ~Exclusive(w)'
    <3>1. /\ pc[v] = "exec" /\ curOp'[v] = curOp[v] /\ curStep'[v] = curStep[v] /\ spec'[curOp[v]] = spec[curOp[v]]
          /\ pc[w] = "exec" /\ curOp'[w] = curOp[w] /\ curStep'[w] = curStep[w] /\ spec'[curOp[w]] = spec[curOp[w]]
      BY <1>2, <1>4, <2>2
    <3>2. ~Exclusive(v) /\ ~Exclusive(w)
      BY <1>3, <2>2, <3>1 DEF TInv, ExclusiveStepsRunAlone
    <3> QED
      BY <3>1, <3>2 DEF Exclusive
  <2>3. ExclusiveStepsRunAlone'
    BY <2>2 DEF ExclusiveStepsRunAlone
  <2> QED
    BY <2>1, <2>3
<1>5. ASSUME NEW u \in Threads, Return(u)
      PROVE  Goal
  BY <1>2, <1>4, <1>5 DEF Return, Goto
<1>6. ASSUME NEW u \in Threads, NEW l \in PC \ {"lock", "exec"}, Goto(u, l),
             \A w \in Threads \ {u} : UNCHANGED <<curOp[w], curStep[w], lockKey[w]>>
      PROVE  Goal
  BY <1>2, <1>4, <1>6 DEF Goto
<1>7. UNCHANGED threads => Goal
  BY <1>4 DEF threads
<1>8. ASSUME NEW w \in Workers, Claim(w)
      PROVE  Goal
  <2>1. CASE UNCHANGED threads
    BY <1>7, <2>1
  <2>2. CASE ~UNCHANGED threads
    <3>1. /\ pc[w] = "idle" /\ pc' = [pc EXCEPT ![w] = "lock"]
          /\ lockKey' = [lockKey EXCEPT ![w] = TRUE]
          /\ \A v \in Workers \ {w} : curOp'[v] = curOp[v] /\ curStep'[v] = curStep[v]
      BY <1>2, <1>8, <2>2 DEF Claim, Goto
    <3>2. LockHeld'
      BY <1>2, <1>3, <3>1 DEF TInv, LockHeld
    <3>3. \A v \in Workers : pc'[v] = "exec" =>
            /\ v # w /\ pc[v] = "exec" /\ curOp'[v] = curOp[v] /\ curStep'[v] = curStep[v]
            /\ spec'[curOp[v]] = spec[curOp[v]]
      BY <1>2, <3>1
    <3>4. ExclusiveStepsRunAlone'
      BY <1>3, <3>3 DEF TInv, ExclusiveStepsRunAlone, Exclusive
    <3> QED
      BY <3>2, <3>4
  <2> QED
    BY <2>1, <2>2
<1>9. ASSUME NEW w \in Workers, StartStep(w)
      PROVE  Goal
  <2>1. /\ pc[w] = "lock" /\ UNCHANGED <<curOp, curStep, lockKey, spec>>
        /\ \A v \in Workers \ {w} : ~Blocks(v, w)
        /\ pc' \in {[pc EXCEPT ![w] = "exec"], [pc EXCEPT ![w] = "finish"]}
    BY <1>9 DEF StartStep, Goto, durable
  <2>2. LockHeld'
    <3>1. \A v \in Workers : pc'[v] \in {"lock", "exec"} => pc[v] \in {"lock", "exec"}
      BY <1>2, <2>1
    <3> QED
      BY <1>3, <2>1, <3>1 DEF TInv, LockHeld
  <2>3. \A v \in Workers : v # w => pc'[v] = pc[v]
    BY <1>2, <2>1
  <2>4. \A v \in Workers : Exclusive(v)' = Exclusive(v)
    BY <2>1 DEF Exclusive
  <2>5. ASSUME NEW v \in Workers, faults = 0, v # w, pc[v] = "exec", spec[curOp[v]].ws = spec[curOp[w]].ws
        PROVE  ~Exclusive(v) /\ ~Exclusive(w)
    <3>1. lockKey[v] /\ lockKey[w]
      BY <2>1, <2>5 DEF TInv, LockHeld
    <3> QED
      BY <2>1, <2>5, <3>1 DEF Blocks
  <2>6. ASSUME NEW v \in Workers, NEW u \in Workers, faults = 0, v # u, pc'[v] = "exec", pc'[u] = "exec",
               spec[curOp[v]].ws = spec[curOp[u]].ws
        PROVE  ~Exclusive(v) /\ ~Exclusive(u)
    <3>1. CASE v = w \/ u = w
      BY <2>3, <2>5, <2>6, <3>1
    <3>2. CASE v # w /\ u # w
      BY <2>3, <2>6, <3>2 DEF TInv, ExclusiveStepsRunAlone
    <3> QED
      BY <3>1, <3>2
  <2>7. ExclusiveStepsRunAlone'
    BY <1>3, <2>1, <2>4, <2>6 DEF ExclusiveStepsRunAlone
  <2> QED
    BY <2>2, <2>7
<1>10. ASSUME NEW c \in Clients, ClientCall(c) \/ Register(c)
       PROVE  Goal
  <2>1. c \in Threads
    BY DEF Threads
  <2>2. ASSUME NEW o \in Ops, NEW l \in {"register", "reconcile", "wait"}, Enter(c, o, l)
        PROVE  Goal
    BY <1>6, <2>1, <2>2 DEF Enter, PC
  <2>3. ASSUME NEW o \in Ops, \/ \E sp \in SubmitSpecs : Submit(c, o, sp)
                             \/ Cancel(c, o) \/ CancelDropped(c, o) \/ WaitBegin(c, o)
        PROVE  Goal
    BY <2>2, <2>3 DEF Submit, Cancel, CancelDropped, WaitBegin
  <2>4. ASSUME NEW o \in Ops, NEW s \in Steps, NEW tk \in Tokens, Resume(c, o, s, tk)
        PROVE  Goal
    BY <1>7, <2>4 DEF Resume
  <2>5. WaitReturn(c) => Goal
    BY <1>5, <2>1 DEF WaitReturn
  <2>6. Register(c) => Goal
    BY <1>6, <2>1 DEF Register, PC
  <2> QED
    BY <1>10, <2>3, <2>4, <2>5, <2>6 DEF ClientCall
<1>11. ASSUME NEW t \in Threads, Progress(t)
       PROVE  Goal
  <2>1. \/ Return(t)
        \/ /\ UNCHANGED <<curOp, curStep, lockKey>>
           /\ Goto(t, "snap") \/ Goto(t, "enqueue")
    BY <1>11 DEF Progress, Snapshot, Enqueue, ReconcileCancelled, Reconcile, ReconcileNothing
  <2> QED
    BY <1>5, <1>6, <2>1 DEF PC
<1>12. ASSUME NEW w \in Workers, ExecReturn(w) \/ FinishStep(w)
       PROVE  Goal
  <2>1. /\ \A v \in Threads \ {w} : UNCHANGED <<curOp[v], curStep[v], lockKey[v]>>
        /\ Goto(w, "finish") \/ Goto(w, "reconcile")
    BY <1>12 DEF ExecReturn, FinishStep
  <2> QED
    BY <1>2, <1>6, <2>1 DEF PC
<1>13. ASSUME NEW w \in Workers, MisreadWorkspace(w)
       PROVE  Goal
  <2>1. faults' # 0
    BY <1>13 DEF MisreadWorkspace, ControlType
  <2> QED
    BY <2>1 DEF LockHeld, ExclusiveStepsRunAlone
<1>14. ASSUME Environment
       PROVE  Goal
  <2>1. FreshProcess => Goal
    BY <1>2, <1>4 DEF FreshProcess
  <2>2. ASSUME NEW t \in Threads, GiveUp(t)
        PROVE  Goal
    BY <1>5, <2>2 DEF GiveUp
  <2> QED
    BY <1>7, <1>13, <1>14, <2>1, <2>2
    DEF Environment, Crash, Close, CloseDone, Restart, Expire, DropJob
<1>15. Dispatch \/ UNCHANGED vars => Goal
  BY <1>7 DEF Dispatch, DispatchPeek, DispatchSend, DispatchWake, vars
<1> QED
  BY <1>8, <1>9, <1>10, <1>11, <1>12, <1>14, <1>15 DEF Next, WorkerStep

\* What a Wait was told and what was announced stay the stored state.
LEMMA OutcomeNext ==
  ASSUME IInv, TInv, [Next]_vars
  PROVE  Said' /\ DoneMeansTerminal' /\ SuccessIsComplete'
<1> USE DEF IInv, TInv
<1>1. \A o \in Ops : HandleMove(o)
  BY HandleMoves
<1>2. \A t \in Threads : ThreadMove(t)
  BY ThreadMoves
<1>3. \A o \in Ops : Born(o) \/ Gone(o) \/ Kept(o)
  BY RowMoves
<1>4. \A o \in Ops : spec[o] # None => spec'[o] # None
  BY <1>3 DEF Born, Gone, Kept
<1>5. \A o \in Ops : spec[o] # None /\ opState[o] \notin Unfinished => opState'[o] \in {opState[o], "none"}
  BY NoRevival
<1>6. Said'
  <2> SUFFICES ASSUME NEW o \in Ops, announced'[o] # <<>>
               PROVE  /\ Len(announced'[o]) = 1
                      /\ opState'[o] \in {announced'[o][1], "none"}
                      /\ o \notin active'
                      /\ spec'[o] # None
                      /\ \A t \in Threads : pc'[t] = "register" => curOp'[t] # o
    BY DEF Said
  <2>1. announced[o] \in Seq(Terminal)
    BY DEF TypeOK, HistoryType
  <2>2. CASE announced'[o] = announced[o]
    <3>1. /\ Len(announced[o]) = 1 /\ announced[o][1] \in Terminal
          /\ opState[o] \in {announced[o][1], "none"} /\ o \notin active /\ spec[o] # None
          /\ \A t \in Threads : pc[t] = "register" => curOp[t] # o
      BY <2>1, <2>2 DEF Said
    <3>2. opState[o] \notin Unfinished
      BY <3>1 DEF Terminal, Unfinished
    <3>3. o \notin active'
      BY <1>1, <3>1, <3>2 DEF HandleMove
    <3>4. \A t \in Threads : pc'[t] = "register" => curOp'[t] # o
      BY <1>2, <3>1 DEF ThreadMove
    <3> QED
      BY <1>4, <1>5, <2>2, <3>1, <3>2, <3>3, <3>4
  <2>3. CASE announced'[o] # announced[o]
    <3>1. /\ o \in active /\ o \notin active' /\ opState'[o] \in Terminal
          /\ announced'[o] = Append(announced[o], opState'[o])
      BY <1>1, <2>3 DEF HandleMove
    <3>2. announced[o] = <<>> /\ spec[o] # None
      BY <3>1 DEF Said, Fresh
    <3>3. announced'[o] = <<opState'[o]>>
      BY <3>1, <3>2
    <3>4. \A t \in Threads : pc'[t] = "register" => curOp'[t] # o
      BY <1>2, <3>1, <3>2 DEF ThreadMove, Registering
    <3> QED
      BY <1>4, <3>1, <3>2, <3>3, <3>4
  <2> QED
    BY <2>2, <2>3
<1>7. DoneMeansTerminal'
  <2> SUFFICES ASSUME NEW c \in Clients, pc'[c] = "wait", curOp'[c] \notin active'
               PROVE  opState'[curOp'[c]] \in Terminal \cup {"none"}
    BY DEF DoneMeansTerminal
  <2>1. c \in Threads
    BY DEF Threads
  <2> DEFINE o == curOp'[c]
  <2>2. CASE o \in active
    <3>1. o \in Ops
      BY <2>2 DEF TypeOK, HandlesType
    <3> QED
      BY <1>1, <2>1, <2>2, <3>1 DEF HandleMove
  <2>3. CASE o \notin active
    <3>1. pc[c] = "wait" /\ o = curOp[c]
      BY <1>2, <2>1, <2>3 DEF ThreadMove
    <3>2. o \in Ops /\ spec[o] # None /\ opState[o] \in Terminal \cup {"none"}
      BY <2>1, <2>3, <3>1 DEF DoneMeansTerminal, ThreadsOK, Submitted
    <3> QED
      BY <1>5, <3>2 DEF Terminal, Unfinished
  <2> QED
    BY <2>2, <2>3
<1>8. SuccessIsComplete'
  <2> SUFFICES ASSUME NEW o \in Ops, opState'[o] = "succeeded"
               PROVE  StatesOf(stepState'[o]) = {"succeeded"}
    BY DEF SuccessIsComplete
  <2>1. CASE opState[o] = "succeeded"
    <3>1. \A s \in Steps : stepState[o][s] \in {"succeeded", "none"}
      BY <2>1 DEF SuccessIsComplete, StatesOf
    <3>2. Kept(o)
      BY <1>3 DEF Born, Gone
    <3>3. \A s \in Steps : stepState'[o][s] = stepState[o][s]
      BY <3>1, <3>2 DEF Kept, Doomed, Unfinished
    <3> QED
      BY <2>1, <3>3 DEF SuccessIsComplete, StatesOf
  <2>2. CASE \A s \in Steps : stepState'[o][s] \in {"succeeded", "skipped", "none"}
    <3>1. TypeOK' /\ Submitted' /\ RowsComplete' /\ Caused'
      BY NextType, SubmittedNext, RowsCompleteNext, CausedNext
    <3>2. spec'[o] # None
      <4>1. opState'[o] # "none"
        OBVIOUS
      <4>2. IInv'
        BY NextInv
      <4> QED
        BY <4>1, <4>2 DEF IInv, Fresh
    <3>3. spec'[o] \in SubmitSpecs /\ ValidSpec(spec'[o]) /\ stepState'[o] \in [Steps -> StepStates]
      BY <3>1, <3>2 DEF TypeOK, DurableType, Submitted
    <3>4. /\ \A s \in Steps : stepState'[o][s] = "none" <=> s \notin spec'[o].steps
          /\ \A s \in Steps : stepState'[o][s] = "skipped" =>
               \E d \in spec'[o].deps[s] :
                 stepState'[o][d] \in {"failed", "cancelled", "interrupted", "skipped"}
      BY <3>1 DEF RowsComplete, Caused, DepsOf
    <3> QED
      BY <2>2, <3>3, <3>4, NothingSkipped
  <2> QED
    BY <2>1, <2>2, SuccessMoves
<1> QED
  BY <1>6, <1>7, <1>8

\* The second invariant is kept by every step.
LEMMA TInvNext ==
  ASSUME IInv, TInv, [Next]_vars
  PROVE  TInv'
BY SubmittedNext, RowsCompleteNext, JustifiedNext, CausedNext, LockNext, OutcomeNext DEF TInv

\* It holds before anything was submitted.
LEMMA TInvInit == Init => TInv
<1> SUFFICES ASSUME Init PROVE TInv
  OBVIOUS
<1>1. Submitted /\ RowsComplete /\ Justified /\ Caused
  BY DEF Init, Submitted, RowsComplete, Justified, Caused, InHand
<1>2. LockHeld /\ ExclusiveStepsRunAlone /\ Said /\ DoneMeansTerminal /\ SuccessIsComplete
  BY DEF Init, LockHeld, ExclusiveStepsRunAlone, Said, DoneMeansTerminal, SuccessIsComplete, Threads
<1> QED
  BY <1>1, <1>2 DEF TInv

\* Both invariants together, for every value of the constants.
THEOREM TurnInvariant == Spec => [](IInv /\ TInv)
<1>1. Init => IInv /\ TInv
  BY InitInv, TInvInit
<1>2. IInv /\ TInv /\ [Next]_vars => (IInv /\ TInv)'
  BY NextInv, TInvNext
<1> QED
  BY <1>1, <1>2, PTL DEF Spec

\* A step starts with every dependency succeeded, and an exclusive one alone in
\* its workspace, although enqueueReady reads without a lock and jobs go stale.
THEOREM TurnsKept == Spec => []StepsRunInTurn
<1>1. IInv /\ TInv => StepsRunInTurn
  <2> SUFFICES ASSUME IInv, TInv PROVE RunsFollowDependencies
    BY DEF TInv, StepsRunInTurn
  <2> SUFFICES ASSUME NEW t \in Threads, InFlight(t)
               PROVE  \A d \in DepsOf(curOp[t], curStep[t]) : stepState[curOp[t]][d] = "succeeded"
    BY DEF RunsFollowDependencies
  <2>1. curOp[t] \in Ops /\ curStep[t] \in Steps /\ stepState[curOp[t]][curStep[t]] = "running"
    BY DEF IInv, ThreadsOK, Owned, InFlight
  <2> QED
    BY <2>1 DEF TInv, Justified, DepsDone
<1> QED
  BY <1>1, TurnInvariant, PTL

\* An operation is announced once, with the state its row has from then on; a
\* Wait is let go only when that state is stored; and success means every step.
THEOREM OutcomesTrue == Spec => []OutcomeIsTrue
<1>1. TInv => OutcomeIsTrue
  BY DEF TInv, Said, OutcomeIsTrue, CompletionAnnouncedOnce
<1> QED
  BY <1>1, TurnInvariant, PTL

-----------------------------------------------------------------------------
(* Operations seen from outside, while they move: AskInv is inductive. *)

States == WaitEnds \cup Moving

\* What a call that goes on has asked, and that it may see what it has passed.
AskFits ==
  /\ ask = NoAsk \/ ask \in OperationAsks
  /\ askAt = "idle" \/ ask \in OperationAsks
  /\ askAt \in {"check", "wait", "read"} => AskIsValid(ask)
  /\ askAt = "check" => \A i \in 1..Len(askRead) : ask.targets[i] \in OwnOps
  /\ askAt \in {"wait", "read"} => \A i \in 1..Len(ask.targets) : ask.targets[i] \in OwnOps
  /\ askAt = "wait" => ask.action = "wait"
  /\ askAt = "read" => ask.action = "result"

\* What was read of an operation that was over is still so, or its record is gone.
ReadStays ==
  \A i \in 1..Len(askRead) : askRead[i] \in LifeOver => life[ask.targets[i]] \in {askRead[i], "gone"}

\* The handle somebody waits for is open, or its operation is over.
HandleFits ==
  askAt = "wait" /\ askHandle # 0 =>
    Len(askRead) = 1 /\ (handle[ask.targets[1]] = askHandle \/ life[ask.targets[1]] \in LifeOver \cup {"gone"})

\* An answer that sounds final was made of final states, of all targets.
AnswerFits ==
  askAt = "answered" /\ reply.status \in {"ok", "error", "interrupted"} =>
    /\ Len(askRead) = Len(ask.targets)
    /\ \A i \in 1..Len(askRead) : askRead[i] \in LifeOver /\ (reply.status = "ok" => askRead[i] = "succeeded")

AskInv ==
  OperationToolsTypeOK /\ AskFits /\ ReadStays /\ HandleFits /\ AnswerFits /\ WaitGivesTheEnd /\ OnlyOwn

\* The variables of a call, by their types.
LEMMA AskTypes ==
  ASSUME OperationToolsTypeOK
  PROVE  /\ life \in [PolledOps -> States \cup {"gone"}] /\ askRead \in Seq(States)
         /\ ask \in OperationAsks => ask.targets \in Seq(PolledOps) /\ ask.action \in {"status", "result", "wait"}
  BY OperationToolsAssumption DEF OperationToolsTypeOK, States

\* What is over stays over.
OverStays == \A o \in PolledOps : life[o] \in LifeOver \cup {"gone"} => life'[o] \in {life[o], "gone"}

\* A step of the operations leaves calls alone.
OperationsMove ==
  \/ \E o \in PolledOps : StateMoves(o) \/ HandleCloses(o) \/ StepResumed(o) \/ RecordDeleted(o)
  \/ ServerRestarts

LEMMA BecomesState ==
  ASSUME NEW st \in States \cup {"gone"}
  PROVE  /\ BecomesOf(st) \subseteq States
         /\ st \in LifeOver \cup {"gone"} => BecomesOf(st) = {}
  BY DEF BecomesOf, States, WaitEnds, LifeOver, Moving

LEMMA OperationsKeep ==
  ASSUME OperationToolsTypeOK, OperationsMove
  PROVE  /\ OverStays /\ life' \in [PolledOps -> States \cup {"gone"}]
         /\ handle' \in [PolledOps -> 0..MaxHandles] /\ lastHandle' \in [PolledOps -> 0..MaxHandles]
         /\ UNCHANGED askVars /\ UNCHANGED <<batch, timing>>
<1>1. /\ life \in [PolledOps -> States \cup {"gone"}] /\ handle \in [PolledOps -> 0..MaxHandles]
      /\ lastHandle \in [PolledOps -> 0..MaxHandles] /\ MaxHandles \in Nat \ {0}
  BY OperationToolsAssumption DEF OperationToolsTypeOK, States
<1>2. ASSUME NEW o \in PolledOps, StateMoves(o)
      PROVE  OverStays /\ life' \in [PolledOps -> States \cup {"gone"}] /\ UNCHANGED <<handle, lastHandle>>
  <2>1. PICK st \in BecomesOf(life[o]) : life' = [life EXCEPT ![o] = st]
    BY <1>2 DEF StateMoves
  <2>2. st \in States /\ life[o] \notin LifeOver \cup {"gone"}
    BY <1>1, <2>1, BecomesState
  <2> QED
    BY <1>1, <1>2, <2>1, <2>2 DEF StateMoves, OverStays
<1>3. ASSUME NEW o \in PolledOps, HandleCloses(o)
      PROVE  OverStays /\ UNCHANGED <<life, lastHandle>> /\ handle' \in [PolledOps -> 0..MaxHandles]
  BY <1>1, <1>3 DEF HandleCloses, OverStays
<1>4. ASSUME NEW o \in PolledOps, StepResumed(o)
      PROVE  /\ OverStays /\ life' \in [PolledOps -> States \cup {"gone"}]
             /\ handle' \in [PolledOps -> 0..MaxHandles] /\ lastHandle' \in [PolledOps -> 0..MaxHandles]
  <2>1. life' = [life EXCEPT ![o] = "queued"] /\ life[o] = "waiting" /\ "queued" \in States
    BY <1>4 DEF StepResumed, States, Moving
  <2>2. OverStays /\ life' \in [PolledOps -> States \cup {"gone"}]
    BY <1>1, <2>1 DEF OverStays, LifeOver
  <2>3. CASE handle[o] # 0
    BY <1>1, <1>4, <2>2, <2>3 DEF StepResumed
  <2>4. CASE handle[o] = 0
    <3>1. lastHandle[o] + 1 \in 0..MaxHandles
      BY <1>1, <1>4, <2>4 DEF StepResumed
    <3>2. handle' = [handle EXCEPT ![o] = lastHandle[o] + 1] /\ lastHandle' = [lastHandle EXCEPT ![o] = lastHandle[o] + 1]
      BY <1>4, <2>4 DEF StepResumed
    <3> QED
      BY <1>1, <2>2, <3>1, <3>2
  <2> QED
    BY <2>3, <2>4
<1>5. ASSUME NEW o \in PolledOps, RecordDeleted(o)
      PROVE  OverStays /\ life' \in [PolledOps -> States \cup {"gone"}] /\ UNCHANGED <<handle, lastHandle>>
  BY <1>1, <1>5 DEF RecordDeleted, OverStays
<1>6. ASSUME ServerRestarts
      PROVE  /\ OverStays /\ life' \in [PolledOps -> States \cup {"gone"}] /\ UNCHANGED lastHandle
             /\ handle' \in [PolledOps -> 0..MaxHandles]
  <2>1. PICK alsoRan \in SUBSET {o \in PolledOps : life[o] = "waiting"} :
          life' = [o \in PolledOps |-> IF life[o] \in Moving \/ o \in alsoRan THEN "interrupted" ELSE life[o]]
    BY <1>6 DEF ServerRestarts
  <2>2. "interrupted" \in States
    BY DEF States, WaitEnds, LifeOver
  <2>3. life' \in [PolledOps -> States \cup {"gone"}]
    BY <1>1, <2>1, <2>2
  <2>4. OverStays
    BY <2>1 DEF OverStays, LifeOver, Moving
  <2> QED
    BY <1>1, <1>6, <2>3, <2>4 DEF ServerRestarts
<1>7. UNCHANGED askVars /\ UNCHANGED <<batch, timing>>
  BY DEF OperationsMove, StateMoves, HandleCloses, StepResumed, RecordDeleted, ServerRestarts
<1> QED
  BY <1>1, <1>2, <1>3, <1>4, <1>5, <1>6, <1>7 DEF OperationsMove

\* A handle that is open closes only after its operation is over, as long as
\* somebody asks.
LEMMA HandlesKeep ==
  ASSUME OperationToolsTypeOK, OperationsMove, askAt \notin {"idle", "answered"}, NEW o \in PolledOps, handle[o] # 0
  PROVE  handle'[o] = handle[o] \/ life'[o] \in LifeOver
  BY DEF OperationsMove, StateMoves, HandleCloses, StepResumed, RecordDeleted, ServerRestarts, OperationToolsTypeOK

LEMMA WorldKeepsAsks ==
  ASSUME AskInv, OperationsMove
  PROVE  AskInv'
<1>1. /\ OverStays /\ life' \in [PolledOps -> States \cup {"gone"}]
      /\ handle' \in [PolledOps -> 0..MaxHandles] /\ lastHandle' \in [PolledOps -> 0..MaxHandles]
      /\ UNCHANGED <<ask, askAt, askRead, askHandle, reply, batch, timing>>
  BY OperationsKeep DEF AskInv, askVars
<1>2. OperationToolsTypeOK'
  BY <1>1 DEF AskInv, OperationToolsTypeOK, States
<1>3. AskFits' /\ AnswerFits' /\ WaitGivesTheEnd' /\ OnlyOwn'
  BY <1>1 DEF AskInv, AskFits, AnswerFits, WaitGivesTheEnd, OnlyOwn, AskIsValid
<1>4. ASSUME NEW i \in 1..Len(ask.targets), ask \in OperationAsks PROVE ask.targets[i] \in PolledOps
  BY <1>4, AskTypes DEF AskInv
<1>5. ReadStays'
  <2> SUFFICES ASSUME NEW i \in 1..Len(askRead), askRead[i] \in LifeOver
               PROVE  life'[ask.targets[i]] \in {askRead[i], "gone"}
    BY <1>1 DEF ReadStays
  <2>1. life[ask.targets[i]] \in {askRead[i], "gone"}
    BY DEF AskInv, ReadStays
  <2>2. ask \in OperationAsks /\ i \in 1..Len(ask.targets)
    <3>1. askRead \in Seq(States) /\ Len(askRead) <= Len(ask.targets) /\ (ask = NoAsk \/ ask \in OperationAsks)
      BY AskTypes DEF AskInv, AskFits, OperationToolsTypeOK
    <3>2. ask # NoAsk
      BY <3>1 DEF NoAsk
    <3>3. ask.targets \in Seq(PolledOps)
      BY <3>1, <3>2, OperationToolsAssumption
    <3> QED
      BY <3>1, <3>2, <3>3
  <2> QED
    BY <1>1, <1>4, <2>1, <2>2 DEF OverStays
<1>6. HandleFits'
  <2> SUFFICES ASSUME askAt = "wait", askHandle # 0
               PROVE  Len(askRead) = 1
                      /\ (handle'[ask.targets[1]] = askHandle \/ life'[ask.targets[1]] \in LifeOver \cup {"gone"})
    BY <1>1 DEF HandleFits
  <2>1. Len(askRead) = 1 /\ (handle[ask.targets[1]] = askHandle \/ life[ask.targets[1]] \in LifeOver \cup {"gone"})
    BY DEF AskInv, HandleFits
  <2>2. ask.targets[1] \in PolledOps
    <3>1. ask \in OperationAsks /\ Len(ask.targets) >= 1
      BY <2>1, AskTypes DEF AskInv, AskFits, OperationToolsTypeOK
    <3> QED
      BY <1>4, <3>1, AskTypes DEF AskInv
  <2> QED
    BY <1>1, <2>1, <2>2, HandlesKeep DEF AskInv, OverStays
<1> QED
  BY <1>2, <1>3, <1>5, <1>6 DEF AskInv

\* A call that goes on asks for something, and several at once only without waiting.
LEMMA SomeTarget ==
  ASSUME NEW a \in OperationAsks, AskIsValid(a)
  PROVE  Len(a.targets) \in Nat /\ Len(a.targets) >= 1 /\ (a.action = "wait" => Len(a.targets) = 1)
<1>1. a.targets \in Seq(PolledOps) /\ a.targets # <<>>
  BY OperationToolsAssumption DEF AskIsValid
<1>2. a.action = "wait" => ~(Len(a.targets) > 1)
  BY DEF AskIsValid
<1> DEFINE n == Len(a.targets)
<1>3. n \in Nat /\ n # 0
  BY <1>1, EmptySeq
<1> HIDE DEF n
<1>4. n \in Nat /\ n >= 1 /\ (~(n > 1) => n = 1)
  BY <1>3
<1> QED
  BY <1>2, <1>4 DEF n

\* What an answer tells of the states it is made of.
LEMMA ReplyTells ==
  ASSUME NEW st \in States
  PROVE  /\ ReplyTo(st, FALSE) = "ok" => st = "succeeded"
         /\ ReplyTo(st, FALSE) \in {"error", "interrupted"} => st \in LifeOver
         /\ ReplyTo(st, FALSE) = "accepted" => st \in Moving
         /\ st \in Moving => ReplyTo(st, TRUE) = "accepted"
  BY DEF ReplyTo, States, WaitEnds, LifeOver, Moving

LEMMA ReplyToAllTells ==
  ASSUME NEW states \in Seq(States), NEW i \in 1..Len(states)
  PROVE  /\ ReplyToAll(states) = "ok" => states[i] = "succeeded"
         /\ ReplyToAll(states) \in {"error", "interrupted"} => states[i] \in LifeOver
<1>1. states[i] \in ToSet(states) /\ states[i] \in States
  BY DEF ToSet
<1> DEFINE read == ToSet(states)
<1>2. ReplyToAll(states) =
        IF "waiting" \in read THEN "confirm"
        ELSE IF read \cap Moving # {} THEN "accepted"
        ELSE IF "failed" \in read THEN "error"
        ELSE IF read \cap {"interrupted", "cancelled"} # {} THEN "interrupted"
        ELSE "ok"
  BY DEF ReplyToAll
<1> HIDE DEF read
<1>3. ReplyToAll(states) \in {"ok", "error", "interrupted"} => "waiting" \notin read /\ read \cap Moving = {}
  BY <1>2
<1>4. ReplyToAll(states) = "ok" => "failed" \notin read /\ read \cap {"interrupted", "cancelled"} = {}
  BY <1>2
<1>5. states[i] \in read
  BY <1>1 DEF read
<1> QED
  BY <1>1, <1>3, <1>4, <1>5 DEF States, WaitEnds, LifeOver

\* A call that is refused tells nothing.
LEMMA RefusalFits ==
  ASSUME AskInv, NEW reason \in {"bad_request", "not_found", "forbidden"}, RefuseAsk(reason),
         UNCHANGED <<life, handle, lastHandle, ask, askRead, timing>>, askHandle' \in 0..MaxHandles, ask \in OperationAsks
  PROVE  AskInv'
<1>1. askAt' = "answered" /\ reply' = [status |-> reason, results |-> FALSE]
  BY DEF RefuseAsk, AnswerAsk
<1>2. reply'.status = reason /\ reply'.results = FALSE
  BY <1>1
<1>3. OperationToolsTypeOK' /\ AskFits' /\ ReadStays' /\ HandleFits'
  BY <1>1 DEF AskInv, OperationToolsTypeOK, AskFits, ReadStays, HandleFits
<1>4. AnswerFits' /\ WaitGivesTheEnd' /\ OnlyOwn'
  BY <1>2 DEF AnswerFits, WaitGivesTheEnd, OnlyOwn
<1> QED
  BY <1>3, <1>4 DEF AskInv

LEMMA StartsFit == ASSUME AskInv, AskStarts PROVE AskInv'
<1>1. PICK a \in OperationAsks :
        /\ ask' = a /\ askRead' = <<>> /\ askHandle' = 0
        /\ \/ AskIsValid(a) /\ askAt' = "check" /\ reply' = NoReply
           \/ askAt' = "answered" /\ reply' = [status |-> "bad_request", results |-> FALSE]
  BY DEF AskStarts, RefuseAsk, AnswerAsk
<1>2. a.targets \in Seq(PolledOps) /\ MaxHandles \in Nat \ {0}
  BY OperationToolsAssumption
<1>3. UNCHANGED <<life, handle, lastHandle, timing>> /\ askRead' \in Seq(WaitEnds \cup Moving) /\ Len(askRead') = 0
  BY <1>1 DEF AskStarts
<1>4. OperationToolsTypeOK'
  BY <1>1, <1>2, <1>3 DEF AskInv, OperationToolsTypeOK
<1>5. AskFits' /\ ReadStays' /\ HandleFits'
  BY <1>1, <1>3 DEF AskFits, ReadStays, HandleFits, AskIsValid
<1>6. reply'.status \notin {"ok", "error", "interrupted", "confirm", "accepted"} /\ reply'.results = FALSE
  <2>1. CASE reply' = [status |-> "", results |-> FALSE]
    BY <2>1
  <2>2. CASE reply' = [status |-> "bad_request", results |-> FALSE]
    BY <2>2
  <2> QED
    BY <1>1, <2>1, <2>2 DEF NoReply
<1>7. AnswerFits' /\ WaitGivesTheEnd' /\ OnlyOwn'
  BY <1>6 DEF AnswerFits, WaitGivesTheEnd, OnlyOwn
<1> QED
  BY <1>4, <1>5, <1>7 DEF AskInv

\* One more state is read: of a target that has not been passed.
LEMMA ReadsOneMore ==
  ASSUME AskInv, NEW t, t = ask.targets[Len(askRead) + 1], Len(askRead) < Len(ask.targets), ask \in OperationAsks,
         life[t] # "gone", askRead' = Append(askRead, life[t]), UNCHANGED <<life, ask>>
  PROVE  /\ askRead' \in Seq(States) /\ Len(askRead') = Len(askRead) + 1 /\ Len(askRead') <= Len(ask.targets)
         /\ ReadStays' /\ askRead'[Len(askRead')] = life[t]
<1>1. /\ life \in [PolledOps -> States \cup {"gone"}] /\ askRead \in Seq(States) /\ ask.targets \in Seq(PolledOps)
  BY AskTypes DEF AskInv
<1>2. t \in PolledOps /\ life[t] \in States
  BY <1>1
<1>3. askRead' \in Seq(States) /\ Len(askRead') = Len(askRead) + 1 /\ Len(askRead') <= Len(ask.targets)
      /\ askRead'[Len(askRead')] = life[t]
  BY <1>1, <1>2
<1>4. ReadStays'
  <2> SUFFICES ASSUME NEW i \in 1..Len(askRead'), askRead'[i] \in LifeOver
               PROVE  life[ask.targets[i]] \in {askRead'[i], "gone"}
    BY DEF ReadStays
  <2>1. CASE i \in 1..Len(askRead)
    <3>1. askRead'[i] = askRead[i]
      BY <1>1, <1>2, <2>1
    <3> QED
      BY <2>1, <3>1 DEF AskInv, ReadStays
  <2>2. CASE i = Len(askRead) + 1
    BY <1>1, <1>2, <2>2
  <2> QED
    BY <1>1, <1>3, <2>1, <2>2
<1> QED
  BY <1>3, <1>4

LEMMA CheckFits == ASSUME AskInv, CheckTarget PROVE AskInv'
<1>1. /\ askAt = "check" /\ Len(askRead) < Len(ask.targets) /\ ask \in OperationAsks
      /\ UNCHANGED <<life, handle, lastHandle, ask, timing>> /\ UNCHANGED askHandle
      /\ Target = ask.targets[Len(askRead) + 1]
      /\ Len(askRead) \in Nat
  BY AskTypes DEF AskInv, AskFits, CheckTarget, Passed, Target
<1>2. CASE RefuseAsk("not_found") \/ RefuseAsk("forbidden")
  <2>1. askRead' = askRead \/ (askRead' = Append(askRead, life[Target]) /\ UNCHANGED askAt)
    BY DEF CheckTarget
  <2>2. askRead' = askRead /\ askHandle' \in 0..MaxHandles
    BY <1>1, <1>2, <2>1 DEF RefuseAsk, AnswerAsk, AskInv, OperationToolsTypeOK
  <2> QED
    BY <1>1, <1>2, <2>2, RefusalFits
<1>3. CASE /\ life[Target] # "gone" /\ Target \in OwnOps /\ askRead' = Append(askRead, life[Target])
           /\ UNCHANGED <<askAt, askHandle, reply>>
  <2>1. /\ askRead' \in Seq(States) /\ Len(askRead') = Len(askRead) + 1 /\ Len(askRead') <= Len(ask.targets)
        /\ ReadStays'
    BY <1>1, <1>3, ReadsOneMore
  <2>2. OperationToolsTypeOK'
    BY <1>1, <1>3, <2>1 DEF AskInv, OperationToolsTypeOK, States
  <2>3. AskFits'
    <3>1. ASSUME NEW i \in 1..Len(askRead') PROVE ask.targets[i] \in OwnOps
      <4>1. i \in 1..Len(askRead) \/ i = Len(askRead) + 1
        BY <1>1, <2>1
      <4> QED
        BY <1>1, <1>3, <4>1 DEF AskInv, AskFits
    <3> QED
      BY <1>1, <1>3, <3>1 DEF AskInv, AskFits, AskIsValid
  <2>4. HandleFits' /\ AnswerFits' /\ WaitGivesTheEnd' /\ OnlyOwn'
    BY <1>1, <1>3 DEF HandleFits, AnswerFits, WaitGivesTheEnd, OnlyOwn
  <2> QED
    BY <2>1, <2>2, <2>3, <2>4 DEF AskInv
<1> QED
  BY <1>2, <1>3 DEF CheckTarget

LEMMA ShowFits == ASSUME AskInv, ShowAll PROVE AskInv'
<1>1. /\ askAt = "check" /\ Len(askRead) = Len(ask.targets) /\ ask \in OperationAsks
      /\ UNCHANGED <<life, handle, lastHandle, ask, timing>> /\ askHandle' = 0 /\ AskIsValid(ask)
      /\ Len(askRead) \in Nat /\ askRead \in Seq(States) /\ MaxHandles \in Nat \ {0}
      /\ ask.action \in {"status", "result", "wait"} /\ ask.targets \in Seq(PolledOps)
  BY AskTypes, OperationToolsAssumption DEF AskInv, AskFits, ShowAll, Passed
<1>2. \A i \in 1..Len(ask.targets) : ask.targets[i] \in OwnOps
  BY <1>1 DEF AskInv, AskFits
<1>3. Len(ask.targets) >= 1
  BY <1>1, SomeTarget
<1>4. CASE ask.action = "status"
  <2> DEFINE s == IF IsBatch THEN ReplyToAll(askRead) ELSE ReplyTo(askRead[1], FALSE)
  <2>1. askAt' = "answered" /\ reply' = [status |-> s, results |-> FALSE] /\ UNCHANGED askRead
    BY <1>1, <1>4 DEF ShowAll, AnswerAsk
  <2>2. /\ s = "ok" => \A i \in 1..Len(askRead) : askRead[i] = "succeeded"
        /\ s \in {"error", "interrupted"} => \A i \in 1..Len(askRead) : askRead[i] \in LifeOver
    <3>1. CASE IsBatch
      BY <1>1, <3>1, ReplyToAllTells
    <3>2. CASE ~IsBatch
      <4>1. askRead[1] \in States /\ \A i \in 1..Len(askRead) : askRead[i] = askRead[1]
        BY <1>1, <1>3, <3>2 DEF IsBatch
      <4> QED
        BY <3>2, <4>1, ReplyTells
    <3> QED
      BY <3>1, <3>2
  <2> HIDE DEF s
  <2>3. reply'.status = s
    BY <2>1
  <2>4. OperationToolsTypeOK' /\ AskFits' /\ ReadStays' /\ HandleFits'
    BY <1>1, <2>1 DEF AskInv, OperationToolsTypeOK, AskFits, ReadStays, HandleFits
  <2>5. AnswerFits'
    BY <1>1, <2>1, <2>2, <2>3 DEF AnswerFits, LifeOver
  <2>6. WaitGivesTheEnd' /\ OnlyOwn'
    BY <1>1, <1>2, <1>4 DEF WaitGivesTheEnd, OnlyOwn, ToSet
  <2> QED
    BY <2>4, <2>5, <2>6 DEF AskInv
<1>5. CASE ask.action \in {"result", "wait"}
  <2>1. /\ ask.action = "result" => askAt' = "read"
        /\ ask.action = "wait" => askAt' = "wait"
        /\ askRead' = <<>>
    BY <1>1, <1>5 DEF ShowAll
  <2>2. OperationToolsTypeOK'
    BY <1>1, <1>5, <2>1 DEF AskInv, OperationToolsTypeOK
  <2>3. AskFits'
    BY <1>1, <1>2, <1>5, <2>1 DEF AskInv, AskFits, AskIsValid
  <2>4. ReadStays' /\ HandleFits' /\ AnswerFits' /\ WaitGivesTheEnd' /\ OnlyOwn'
    BY <1>1, <1>5, <2>1 DEF ReadStays, HandleFits, AnswerFits, WaitGivesTheEnd, OnlyOwn
  <2> QED
    BY <2>2, <2>3, <2>4 DEF AskInv
<1> QED
  BY <1>1, <1>4, <1>5

LEMMA ReadFits == ASSUME AskInv, ReadResult PROVE AskInv'
<1>1. /\ askAt = "read" /\ Len(askRead) < Len(ask.targets) /\ ask \in OperationAsks
      /\ UNCHANGED <<life, handle, lastHandle, ask, timing>> /\ UNCHANGED askHandle
      /\ Target = ask.targets[Len(askRead) + 1]
      /\ askHandle \in 0..MaxHandles
  BY DEF AskInv, AskFits, ReadResult, Passed, Target, OperationToolsTypeOK
<1>2. CASE RefuseAsk("not_found") /\ UNCHANGED askRead
  BY <1>1, <1>2, RefusalFits
<1>3. CASE life[Target] # "gone" /\ askRead' = Append(askRead, life[Target]) /\ UNCHANGED <<askAt, reply>>
  <2>1. /\ askRead' \in Seq(States) /\ Len(askRead') = Len(askRead) + 1 /\ Len(askRead') <= Len(ask.targets)
        /\ ReadStays'
    BY <1>1, <1>3, ReadsOneMore
  <2>2. OperationToolsTypeOK'
    BY <1>1, <1>3, <2>1 DEF AskInv, OperationToolsTypeOK, States
  <2>3. AskFits' /\ HandleFits' /\ AnswerFits' /\ WaitGivesTheEnd' /\ OnlyOwn'
    BY <1>1, <1>3 DEF AskInv, AskFits, AskIsValid, HandleFits, AnswerFits, WaitGivesTheEnd, OnlyOwn
  <2> QED
    BY <2>1, <2>2, <2>3 DEF AskInv
<1> QED
  BY <1>2, <1>3 DEF ReadResult

LEMMA ResultsFit == ASSUME AskInv, ShowResults PROVE AskInv'
<1>1. /\ askAt = "read" /\ Len(askRead) = Len(ask.targets) /\ ask \in OperationAsks /\ ask.action = "result"
      /\ UNCHANGED <<life, handle, lastHandle, ask, askRead, askHandle, timing>> /\ AskIsValid(ask)
      /\ askRead \in Seq(States) /\ ask.targets \in Seq(PolledOps)
  BY AskTypes DEF AskInv, AskFits, ShowResults, Passed
<1>2. \A i \in 1..Len(ask.targets) : ask.targets[i] \in OwnOps
  BY <1>1 DEF AskInv, AskFits
<1>3. Len(ask.targets) >= 1
  BY <1>1, SomeTarget
<1> DEFINE s == IF IsBatch THEN ReplyToAll(askRead) ELSE ReplyTo(askRead[1], FALSE)
<1>4. askAt' = "answered" /\ reply' = [status |-> s, results |-> TRUE]
  BY <1>1 DEF ShowResults, AnswerAsk
<1>5. /\ s = "ok" => \A i \in 1..Len(askRead) : askRead[i] = "succeeded"
      /\ s \in {"error", "interrupted"} => \A i \in 1..Len(askRead) : askRead[i] \in LifeOver
  <2>1. CASE IsBatch
    BY <1>1, <2>1, ReplyToAllTells
  <2>2. CASE ~IsBatch
    <3>1. askRead[1] \in States /\ \A i \in 1..Len(askRead) : askRead[i] = askRead[1]
      BY <1>1, <1>3, <2>2 DEF IsBatch
    <3> QED
      BY <2>2, <3>1, ReplyTells
  <2> QED
    BY <2>1, <2>2
<1> HIDE DEF s
<1>6. reply'.status = s
  BY <1>4
<1>7. OperationToolsTypeOK' /\ AskFits' /\ ReadStays' /\ HandleFits'
  BY <1>1, <1>4 DEF AskInv, OperationToolsTypeOK, AskFits, ReadStays, HandleFits
<1>8. AnswerFits'
  BY <1>1, <1>4, <1>5, <1>6 DEF AnswerFits, LifeOver
<1>9. WaitGivesTheEnd' /\ OnlyOwn'
  BY <1>1, <1>2 DEF WaitGivesTheEnd, OnlyOwn, ToSet
<1> QED
  BY <1>7, <1>8, <1>9 DEF AskInv

\* A waiter is told of one operation, by the state it read last.
LEMMA WaiterFits ==
  ASSUME AskInv, askAt = "wait", NEW st \in States, NEW timedOut \in BOOLEAN, st \in Moving <=> timedOut,
         life[ask.targets[1]] = st, askRead' = <<st>>,
         AnswerAsk(ReplyTo(st, timedOut), ~timedOut), UNCHANGED <<life, handle, lastHandle, ask, askHandle, timing>>
  PROVE  AskInv'
<1>1. /\ ask \in OperationAsks /\ ask.targets \in Seq(PolledOps) /\ AskIsValid(ask) /\ ask.action = "wait"
      /\ \A i \in 1..Len(ask.targets) : ask.targets[i] \in OwnOps
      /\ askRead' \in Seq(States) /\ Len(askRead') = 1 /\ askRead'[1] = st
  BY AskTypes DEF AskInv, AskFits
<1>2. Len(ask.targets) = 1
  BY <1>1, SomeTarget
<1> DEFINE s == ReplyTo(st, timedOut)
<1>3. askAt' = "answered" /\ reply' = [status |-> s, results |-> ~timedOut]
  BY DEF AnswerAsk
<1>4. /\ s = "ok" => st = "succeeded"
      /\ s \in {"error", "interrupted"} => st \in LifeOver
      /\ s = "accepted" <=> timedOut
      /\ ~timedOut => st \in WaitEnds
  <2>1. CASE timedOut
    <3>1. s = "accepted"
      BY <2>1, ReplyTells
    <3> QED
      BY <2>1, <3>1
  <2>2. CASE ~timedOut
    <3>1. timedOut = FALSE /\ st \notin Moving /\ st \in WaitEnds
      BY <2>2 DEF States
    <3>2. s = ReplyTo(st, FALSE)
      BY <3>1
    <3> HIDE DEF s
    <3> QED
      BY <2>2, <3>1, <3>2, ReplyTells
  <2> QED
    BY <2>1, <2>2
<1> HIDE DEF s
<1>5. reply'.status = s /\ reply'.results = ~timedOut
  BY <1>3
<1>6. OperationToolsTypeOK'
  BY <1>1, <1>2, <1>3 DEF AskInv, OperationToolsTypeOK, States
<1>7. AskFits' /\ ReadStays' /\ HandleFits'
  BY <1>1, <1>2, <1>3 DEF AskInv, AskFits, ReadStays, HandleFits
<1>8. AnswerFits'
  BY <1>1, <1>2, <1>4, <1>5 DEF AnswerFits, LifeOver
<1>9. WaitGivesTheEnd' /\ OnlyOwn'
  <2>1. WaitGivesTheEnd'
    BY <1>1, <1>4, <1>5 DEF WaitGivesTheEnd
  <2>2. OnlyOwn'
    BY <1>1 DEF OnlyOwn, ToSet
  <2> QED
    BY <2>1, <2>2
<1> QED
  BY <1>6, <1>7, <1>8, <1>9 DEF AskInv

LEMMA WaitingFits ==
  ASSUME AskInv, WaitReads \/ WaitFindsHandle \/ WaitWoken \/ WaitTimesOut
  PROVE  AskInv'
<1> DEFINE st == life[ask.targets[1]]
<1>1. /\ askAt = "wait" /\ UNCHANGED <<life, handle, lastHandle, ask, timing>> /\ ask \in OperationAsks
      /\ ask.action = "wait" /\ AskIsValid(ask) /\ ask.targets \in Seq(PolledOps) /\ askRead \in Seq(States)
      /\ askHandle \in 0..MaxHandles /\ handle \in [PolledOps -> 0..MaxHandles]
  BY AskTypes DEF AskInv, AskFits, WaitReads, WaitFindsHandle, WaitWoken, WaitTimesOut, OperationToolsTypeOK
<1>2. Len(ask.targets) = 1
  BY <1>1, SomeTarget
<1>3. ask.targets[1] \in PolledOps /\ st \in States \cup {"gone"}
  BY <1>1, <1>2, AskTypes DEF AskInv
<1> HIDE DEF st
<1>4. CASE RefuseAsk("not_found") /\ UNCHANGED <<askRead, askHandle>>
  BY <1>1, <1>4, RefusalFits
<1>5. ASSUME st # "gone", askRead' = <<st>>, UNCHANGED askHandle, NEW timedOut \in BOOLEAN, st \in Moving <=> timedOut,
             AnswerAsk(ReplyTo(st, timedOut), ~timedOut)
      PROVE  AskInv'
  BY <1>1, <1>3, <1>5, WaiterFits DEF st
<1>6. ASSUME st \in WaitEnds, askRead' = <<st>>, UNCHANGED askHandle, AnswerAsk(ReplyTo(st, FALSE), TRUE) PROVE AskInv'
  <2>1. st # "gone" /\ st \notin Moving /\ (~FALSE) = TRUE
    BY <1>6 DEF WaitEnds, LifeOver, Moving
  <2> QED
    BY <1>5, <1>6, <2>1
<1>7. ASSUME AnswerWaiter(st), UNCHANGED askHandle PROVE AskInv'
  <2>1. CASE st = "gone"
    BY <1>4, <1>7, <2>1 DEF AnswerWaiter
  <2>2. CASE st # "gone"
    <3> DEFINE timedOut == st \in Moving
    <3>1. askRead' = <<st>> /\ AnswerAsk(ReplyTo(st, timedOut), ~timedOut) /\ timedOut \in BOOLEAN
      BY <1>7, <2>2 DEF AnswerWaiter
    <3>2. st \in Moving <=> timedOut
      OBVIOUS
    <3> HIDE DEF timedOut
    <3> QED
      BY <1>5, <1>7, <2>2, <3>1, <3>2
  <2> QED
    BY <2>1, <2>2
<1>8. CASE WaitReads
  <2>1. \/ RefuseAsk("not_found") /\ UNCHANGED <<askRead, askHandle>>
        \/ st \in WaitEnds /\ askRead' = <<st>> /\ AnswerAsk(ReplyTo(st, FALSE), TRUE) /\ UNCHANGED askHandle
        \/ /\ st \notin WaitEnds \cup {"gone"} /\ askRead' = <<st>> /\ UNCHANGED <<askAt, reply, askHandle>>
           /\ Len(askRead) = 0
    BY <1>8 DEF WaitReads, Passed, st
  <2>2. CASE /\ st \notin WaitEnds \cup {"gone"} /\ askRead' = <<st>> /\ UNCHANGED <<askAt, reply, askHandle>>
             /\ Len(askRead) = 0
    <3>1. st \in Moving /\ st \notin LifeOver /\ askRead' \in Seq(States) /\ Len(askRead') = 1 /\ askRead'[1] = st
      BY <1>3, <2>2 DEF States, WaitEnds
    <3>2. OperationToolsTypeOK' /\ AskFits'
      BY <1>1, <1>2, <2>2, <3>1 DEF AskInv, OperationToolsTypeOK, AskFits, AskIsValid, States
    <3>3. ReadStays'
      BY <3>1 DEF ReadStays
    <3>4. HandleFits' /\ AnswerFits' /\ WaitGivesTheEnd' /\ OnlyOwn'
      BY <1>1, <2>2 DEF AskInv, HandleFits, AnswerFits, WaitGivesTheEnd, OnlyOwn
    <3> QED
      BY <3>2, <3>3, <3>4 DEF AskInv
  <2> QED
    BY <1>4, <1>6, <2>1, <2>2
<1>9. CASE WaitFindsHandle
  <2>1. \/ AnswerWaiter(st) /\ UNCHANGED askHandle
        \/ /\ handle[ask.targets[1]] # 0 /\ askHandle' = handle[ask.targets[1]] /\ UNCHANGED <<askAt, askRead, reply>>
           /\ Len(askRead) = 1
    BY <1>9 DEF WaitFindsHandle, WithoutHandle, Passed, st
  <2>2. CASE /\ handle[ask.targets[1]] # 0 /\ askHandle' = handle[ask.targets[1]] /\ UNCHANGED <<askAt, askRead, reply>>
             /\ Len(askRead) = 1
    <3>1. OperationToolsTypeOK' /\ AskFits'
      BY <1>1, <1>3, <2>2 DEF AskInv, OperationToolsTypeOK, AskFits, AskIsValid
    <3>2. ReadStays' /\ HandleFits' /\ AnswerFits' /\ WaitGivesTheEnd' /\ OnlyOwn'
      BY <1>1, <2>2 DEF AskInv, ReadStays, HandleFits, AnswerFits, WaitGivesTheEnd, OnlyOwn
    <3> QED
      BY <3>1, <3>2 DEF AskInv
  <2> QED
    BY <1>7, <2>1, <2>2
<1>10. CASE WaitWoken
  <2>1. st \in LifeOver \cup {"gone"}
    BY <1>1, <1>10 DEF WaitWoken, AskInv, HandleFits, st
  <2>2. \/ RefuseAsk("not_found") /\ UNCHANGED <<askRead, askHandle>>
        \/ st # "gone" /\ askRead' = <<st>> /\ AnswerAsk(ReplyTo(st, FALSE), TRUE) /\ UNCHANGED askHandle
    BY <1>10 DEF WaitWoken, st
  <2> QED
    BY <1>4, <1>6, <2>1, <2>2 DEF WaitEnds
<1>11. CASE WaitTimesOut
  BY <1>7, <1>11 DEF WaitTimesOut, st
<1> QED
  BY <1>8, <1>9, <1>10, <1>11

\* The first item that does not do is one of those, so that an accepted batch has none.
LEMMA FirstWrongIsWrong ==
  ASSUME NEW items \in BatchItems, NEW wrong \in SUBSET DOMAIN items, wrong # {}
  PROVE  Min(wrong) \in wrong
<1>1. wrong \in SUBSET Nat
  <2>1. items \in Seq(ToSet(items))
    BY OperationToolsAssumption
  <2>2. DOMAIN items = 1..Len(items) /\ Len(items) \in Nat
    BY <2>1
  <2> QED
    BY <2>2
<1>2. PICK r \in wrong : \A o \in wrong : <<o, r>> \notin OpToRel(<, Nat)
  BY <1>1, WFMin, NatLessThanWellFounded, Zenon
<1>3. \A o \in wrong : ~(o < r)
  BY <1>1, <1>2, Zenon DEF OpToRel
<1>4. \A o \in wrong : r <= o
  BY <1>1, <1>3
<1> QED
  BY <1>4 DEF Min

LEMMA BatchFits == ASSUME BatchCanRun, SubmitBatch PROVE BatchCanRun'
<1>1. PICK items \in BatchItems :
        LET wrong == {i \in DOMAIN items : ItemVerdict(items[i]) # "accepted"}
        IN batch' = [items |-> [i \in DOMAIN items |-> [of |-> items[i], exclusive |-> ~Shares(items[i])]],
                     verdict |-> IF items = <<>> THEN "empty"
                                 ELSE IF wrong = {} THEN "accepted" ELSE ItemVerdict(items[Min(wrong)])]
  BY DEF SubmitBatch
<1> DEFINE wrong == {i \in DOMAIN items : ItemVerdict(items[i]) # "accepted"}
           shown == [i \in DOMAIN items |-> [of |-> items[i], exclusive |-> ~Shares(items[i])]]
           verdict == IF items = <<>> THEN "empty"
                      ELSE IF wrong = {} THEN "accepted" ELSE ItemVerdict(items[Min(wrong)])
<1>2. batch' = [items |-> shown, verdict |-> verdict]
  BY <1>1
<1>3. verdict = "accepted" => wrong = {}
  <2>1. wrong # {} => Min(wrong) \in wrong
    BY FirstWrongIsWrong
  <2> QED
    BY <2>1
<1> SUFFICES ASSUME verdict = "accepted", NEW i \in DOMAIN shown
             PROVE  LET item == shown[i].of
                    IN /\ item.tool \in item.registered \ Nested
                       /\ item.required \subseteq item.fields \cup {"remote_session_id", "purpose"}
                       /\ ~shown[i].exclusive => item.readOnly /\ ~item.openWorld
  <2> HIDE DEF shown, verdict
  <2>1. batch'.items = shown /\ batch'.verdict = verdict
    BY <1>2
  <2> QED
    BY <2>1 DEF BatchCanRun
<1>4. i \in DOMAIN items /\ ItemVerdict(items[i]) = "accepted"
  BY <1>3
<1>5. shown[i].of = items[i] /\ shown[i].exclusive = ~Shares(items[i])
  OBVIOUS
<1> HIDE DEF shown
<1> QED
  BY <1>4, <1>5 DEF ItemVerdict, ArgumentsFit, Shares

LEMMA AskInitially == OperationToolsInit => AskInv /\ BatchCanRun
<1> SUFFICES ASSUME OperationToolsInit PROVE AskInv /\ BatchCanRun
  OBVIOUS
<1>1. MaxHandles \in Nat \ {0} /\ Len(ask.targets) = 0 /\ "queued" \in States
  BY OperationToolsAssumption DEF OperationToolsInit, NoAsk, States, Moving
<1>2. OperationToolsTypeOK
  BY <1>1 DEF OperationToolsInit, OperationToolsTypeOK, States
<1>3. AskFits /\ ReadStays /\ HandleFits /\ AnswerFits /\ WaitGivesTheEnd /\ OnlyOwn
  BY DEF OperationToolsInit, AskFits, ReadStays, HandleFits, AnswerFits, WaitGivesTheEnd, OnlyOwn
<1>4. BatchCanRun
  BY DEF OperationToolsInit, NoBatch, BatchCanRun
<1> QED
  BY <1>2, <1>3, <1>4 DEF AskInv

\* Nothing else touches a batch, and a batch touches no call.
LEMMA AskStep ==
  ASSUME AskInv /\ BatchCanRun, [OperationToolsNext]_operationToolVars
  PROVE  (AskInv /\ BatchCanRun)'
<1>1. CASE OperationsMove
  <2>1. batch' = batch
    BY <1>1, OperationsKeep DEF AskInv
  <2> QED
    BY <1>1, <2>1, WorldKeepsAsks DEF BatchCanRun
<1>2. CASE SubmitBatch
  <2>1. UNCHANGED <<life, handle, lastHandle, ask, askAt, askRead, askHandle, reply, timing>>
    BY <1>2 DEF SubmitBatch, askVars
  <2>2. AskInv'
    BY <2>1 DEF AskInv, OperationToolsTypeOK, AskFits, AskIsValid, ReadStays, HandleFits, AnswerFits, WaitGivesTheEnd,
                OnlyOwn
  <2> QED
    BY <1>2, <2>2, BatchFits
<1>3. CASE UNCHANGED operationToolVars
  BY <1>3 DEF operationToolVars, BatchCanRun, AskInv, OperationToolsTypeOK, AskFits, AskIsValid, ReadStays, HandleFits,
              AnswerFits, WaitGivesTheEnd, OnlyOwn
<1>4. CASE \/ AskStarts \/ CheckTarget \/ ShowAll \/ ReadResult \/ ShowResults
           \/ WaitReads \/ WaitFindsHandle \/ WaitWoken \/ WaitTimesOut
  <2>1. AskInv'
    BY <1>4, StartsFit, CheckFits, ShowFits, ReadFits, ResultsFit, WaitingFits
  <2>2. batch' = batch
    BY <1>4 DEF AskStarts, CheckTarget, ShowAll, ReadResult, ShowResults, WaitReads, WaitFindsHandle, WaitWoken,
                WaitTimesOut
  <2> QED
    BY <2>1, <2>2 DEF BatchCanRun
<1> QED
  BY <1>1, <1>2, <1>3, <1>4 DEF OperationToolsNext, OperationsMove

\* What was read and is final is what there still is.
LEMMA AskMeans == AskInv => FinalIsFinal
<1> SUFFICES ASSUME AskInv, askAt = "answered", reply.status \in {"ok", "error", "interrupted"},
                    NEW o \in ToSet(ask.targets)
             PROVE  /\ reply.status = "ok" => life[o] \in {"succeeded", "gone"}
                    /\ reply.status \in {"error", "interrupted"} => life[o] \in LifeOver \cup {"gone"}
  BY DEF FinalIsFinal
<1>1. /\ ask \in OperationAsks /\ ask.targets \in Seq(PolledOps) /\ askRead \in Seq(States)
      /\ Len(askRead) = Len(ask.targets)
  BY AskTypes DEF AskInv, AskFits, AnswerFits
<1>2. PICK i \in 1..Len(askRead) : o = ask.targets[i]
  BY <1>1 DEF ToSet
<1>3. askRead[i] \in LifeOver /\ (reply.status = "ok" => askRead[i] = "succeeded")
  BY <1>2 DEF AskInv, AnswerFits
<1>4. life[o] \in {askRead[i], "gone"}
  BY <1>2, <1>3 DEF AskInv, ReadStays
<1> QED
  BY <1>3, <1>4

\* In every state of every instance, while operations move, end, are resumed and
\* forgotten between two reads of one call, an answer that sounds final is final for
\* all that was asked, a wait gives results only of what it read as settled, nobody
\* is told of an operation of another session, and an accepted batch can run
\* (toolOperationManage, Wait, toolOperationBatch).  The statistics are left to TLC:
\* they are folds.
THEOREM AnswersAboutOperations ==
  OperationToolsSpec => [](FinalIsFinal /\ WaitGivesTheEnd /\ OnlyOwn /\ BatchCanRun)
<1>1. AskInv /\ BatchCanRun => FinalIsFinal /\ WaitGivesTheEnd /\ OnlyOwn /\ BatchCanRun
  BY AskMeans DEF AskInv
<1> QED
  BY <1>1, AskInitially, AskStep, PTL DEF OperationToolsSpec
===============================================================================
