------------------------------ MODULE Operation ------------------------------
(***************************************************************************)
(* The asynchronous operation service (internal/operation/service.go).     *)
(*                                                                         *)
(* An operation is a DAG of tool steps.  Its row, the rows of its steps    *)
(* and the submission ledger are durable (SQLite); the active handle, the  *)
(* job queues and the goroutines live in the process and die with it.      *)
(*                                                                         *)
(* Atomicity.  A section under reconcileMu or s.mu is one action.  What    *)
(* the code does outside these locks is split: the commit of Submit, the   *)
(* registration of its handle, the read and the commit of enqueueReady,    *)
(* the wait for the workspace lock, the tool call, and the deferred        *)
(* reconcile of Cancel are separate actions of the calling thread.         *)
(***************************************************************************)
EXTENDS Integers, Sequences, FiniteSets

CONSTANTS
  Ops,          \* operation IDs
  Steps,        \* step IDs; ordered, since queries ORDER BY step_id
  SubmitSpecs,  \* the submissions clients try
  Tokens,       \* confirmation tokens a tool call may return
  Workers,      \* worker goroutines
  Clients,      \* request goroutines (Submit, Cancel, Resume, Wait)
  None,         \* no operation, step, submission or token
  MaxSteps,     \* limit of validateSpec (32 in the code)
  MaxGrants,    \* bound: confirmations accepted per step
  MaxCrashes,   \* bound: process crashes and shutdowns
  MaxFaults     \* bound: failing database calls and dropped requests

Threads == Workers \cup Clients

(***************************************************************************)
(* A submission: its steps, their dependencies, the exclusive ones and     *)
(* the workspace whose lock they take.                                     *)
(***************************************************************************)
SpecShape(sp) ==
  /\ sp.steps \subseteq Steps
  /\ sp.deps \in [Steps -> SUBSET Steps]
  /\ sp.excl \subseteq Steps

ASSUME ConstantsAssumption ==
  /\ Steps \subseteq Nat
  /\ IsFiniteSet(Steps)
  /\ IsFiniteSet(Workers)
  /\ Workers \cap Clients = {}
  /\ None \notin Ops /\ None \notin Steps
  /\ None \notin SubmitSpecs /\ None \notin Tokens
  /\ \A sp \in SubmitSpecs : SpecShape(sp)
  /\ MaxSteps \in Nat /\ MaxGrants \in Nat /\ MaxCrashes \in Nat /\ MaxFaults \in Nat

Terminal == {"succeeded", "failed", "interrupted", "cancelled"}
Unfinished == {"queued", "running", "waiting"}

OpStates == {"none"} \cup Unfinished \cup Terminal
StepStates == OpStates \cup {"skipped"}

PC == {"idle", "register", "snap", "enqueue", "reconcile",
       "lock", "exec", "finish", "wait"}

\* What an executor returns: a result, an error, a request for confirmation,
\* the error of its cancelled context, or ErrEffectsUnconfirmed.
Results == {"ok", "error", "confirm", "canceled", "unconfirmed"}

Job == [op : Ops, step : Steps]

VARIABLES
  \* durable
  opState,     \* operations.state; "none" when there is no row
  spec,        \* operation_submissions and the immutable columns of the steps
  stepState,   \* operation_steps.state
  token,       \* operation_steps.confirmation_token
  \* process memory
  active,      \* operations with an activeOperation handle
  cancelReq,   \* handles with cancelRequested
  ctxDone,     \* handles whose context is cancelled
  enqueued,    \* activeOperation.enqueued
  stepCancel,  \* steps with an entry in activeOperation.stepCancel
  pending,     \* Service.pending
  jobs,        \* the bounded channel Service.jobs
  wake,        \* a value is in the channel Service.wake
  disp,        \* the dispatcher: at the loop top, or in its select
  pc, curOp, curStep, result, snap, lockKey,  \* the goroutines
  mode,        \* "open", "closing" (Close is waiting), "closed"
  \* bounds and history
  crashes, faults,
  runs,        \* executor calls started, per step
  grants,      \* confirmations accepted by Resume, per step
  announced    \* states of the operation.completed events sent

durable == <<opState, spec, stepState, token>>
handles == <<active, cancelReq, ctxDone, enqueued, stepCancel>>
queues == <<pending, jobs, wake, disp>>
threads == <<pc, curOp, curStep, result, snap, lockKey>>
control == <<mode, crashes, faults>>
history == <<runs, grants, announced>>
vars == <<durable, handles, queues, threads, control, history>>

DurableType ==
  /\ opState \in [Ops -> OpStates]
  /\ spec \in [Ops -> SubmitSpecs \cup {None}]
  /\ stepState \in [Ops -> [Steps -> StepStates]]
  /\ token \in [Ops -> [Steps -> Tokens \cup {None}]]

HandlesType ==
  /\ active \subseteq Ops /\ cancelReq \subseteq Ops /\ ctxDone \subseteq Ops
  /\ enqueued \in [Ops -> SUBSET Steps]
  /\ stepCancel \in [Ops -> SUBSET Steps]

QueuesType ==
  /\ pending \in Seq(Job) /\ jobs \in Seq(Job)
  /\ wake \in BOOLEAN /\ disp \in {"top", "idle", "armed"}

ThreadsType ==
  /\ pc \in [Threads -> PC]
  /\ curOp \in [Threads -> Ops \cup {None}]
  /\ curStep \in [Threads -> Steps \cup {None}]
  /\ result \in [Threads -> Results \cup {None}]
  /\ snap \in [Threads -> SUBSET Steps]
  /\ lockKey \in [Threads -> BOOLEAN]

ControlType ==
  /\ mode \in {"open", "closing", "closed"}
  /\ crashes \in Nat /\ faults \in Nat

HistoryType ==
  /\ runs \in [Ops -> [Steps -> Nat]]
  /\ grants \in [Ops -> [Steps -> Nat]]
  /\ announced \in [Ops -> Seq(Terminal)]

\* The rows keep to the schema and the goroutines to their labels.
TypeOK ==
  /\ DurableType /\ HandlesType /\ QueuesType
  /\ ThreadsType /\ ControlType /\ HistoryType

Init ==
  /\ opState = [o \in Ops |-> "none"]
  /\ spec = [o \in Ops |-> None]
  /\ stepState = [o \in Ops |-> [s \in Steps |-> "none"]]
  /\ token = [o \in Ops |-> [s \in Steps |-> None]]
  /\ active = {} /\ cancelReq = {} /\ ctxDone = {}
  /\ enqueued = [o \in Ops |-> {}]
  /\ stepCancel = [o \in Ops |-> {}]
  /\ pending = <<>> /\ jobs = <<>> /\ wake = FALSE /\ disp = "top"
  /\ pc = [t \in Threads |-> "idle"]
  /\ curOp = [t \in Threads |-> None]
  /\ curStep = [t \in Threads |-> None]
  /\ result = [t \in Threads |-> None]
  /\ snap = [t \in Threads |-> {}]
  /\ lockKey = [t \in Threads |-> FALSE]
  /\ mode = "open" /\ crashes = 0 /\ faults = 0
  /\ runs = [o \in Ops |-> [s \in Steps |-> 0]]
  /\ grants = [o \in Ops |-> [s \in Steps |-> 0]]
  /\ announced = [o \in Ops |-> <<>>]

-----------------------------------------------------------------------------
(* Pure parts: validation, readiness, aggregation. *)

\* A submission is accepted when it has 1..MaxSteps steps, every dependency
\* is one of them and the depth-first search finds no cycle.
ValidSpec(sp) ==
  /\ sp.steps # {}
  /\ Cardinality(sp.steps) <= MaxSteps
  /\ \A s \in sp.steps : sp.deps[s] \subseteq sp.steps
  /\ \A X \in SUBSET sp.steps : X # {} => \E s \in X : sp.deps[s] \cap X = {}

DepsOf(o, s) == spec[o].deps[s]

\* Mutant: a dependency that ended in any way counts.
ReadyAfterAnyEnd(o) ==
  {s \in Steps : /\ stepState[o][s] = "queued"
                 /\ \A d \in DepsOf(o, s) : stepState[o][d] \in Terminal}

\* The steps enqueueReady would schedule for the rows it has read.
Ready(o) ==
  {s \in Steps : /\ stepState[o][s] = "queued"
                 /\ \A d \in DepsOf(o, s) : stepState[o][d] = "succeeded"}

\* The queued steps one pass of reconcile marks skipped: a dependency had
\* ended without success in the rows read before the pass.
Doomed(o) ==
  {s \in Steps : /\ stepState[o][s] = "queued"
                 /\ \E d \in DepsOf(o, s) :
                       stepState[o][d] \in {"failed", "cancelled", "interrupted", "skipped"}}

\* Mutant: a cancelled step does not count as a failure.
AggregateLenient(S) ==
  IF S \cap Unfinished # {} THEN "running"
  ELSE IF "failed" \in S THEN "failed" ELSE "succeeded"

\* The state of an operation whose step rows have the states S: while a step
\* is unfinished, running unless the only thing left to do is to confirm.
AggregateState(S) ==
  IF S \cap Unfinished # {}
  THEN IF "waiting" \in S /\ "running" \notin S THEN "waiting" ELSE "running"
  ELSE IF "interrupted" \in S THEN "interrupted"
  ELSE IF S \cap {"failed", "cancelled"} # {} THEN "failed" ELSE "succeeded"

StatesOf(f) == {f[s] : s \in Steps} \ {"none"}

\* The state finishStep records for a step whose executor returned r.
StepOutcome(o, r) ==
  IF r = "unconfirmed" THEN "interrupted"
  ELSE IF o \in cancelReq \/ r = "canceled" THEN "cancelled"
  ELSE IF r = "confirm" THEN "waiting"
  ELSE IF r = "error" THEN "failed" ELSE "succeeded"

-----------------------------------------------------------------------------
(* Threads. *)

Goto(t, label) == pc' = [pc EXCEPT ![t] = label]

\* The goroutine leaves the service; its locals are gone.
Return(t) ==
  /\ Goto(t, "idle")
  /\ curOp' = [curOp EXCEPT ![t] = None]
  /\ curStep' = [curStep EXCEPT ![t] = None]
  /\ result' = [result EXCEPT ![t] = None]
  /\ snap' = [snap EXCEPT ![t] = {}]
  /\ lockKey' = [lockKey EXCEPT ![t] = FALSE]

\* A request goroutine enters the service for operation o.
Enter(c, o, label) ==
  /\ pc[c] = "idle"
  /\ Goto(c, label)
  /\ curOp' = [curOp EXCEPT ![c] = o]
  /\ UNCHANGED <<curStep, result, snap, lockKey>>

\* Mutant: enqueueReady does not signal the dispatcher.
NotWoken == wake

\* The dispatcher is signalled; the channel holds one value and a second send
\* is dropped.
Woken == TRUE

\* jobs for the steps S of o appended to pending in step order, and the
\* dispatcher woken.
Push(o, S) ==
  /\ wake' = Woken
  /\ \E q \in [1..Cardinality(S) -> S] :
       /\ \A i, j \in 1..Cardinality(S) : i < j => q[i] < q[j]
       /\ pending' = pending \o [i \in 1..Cardinality(S) |-> [op |-> o, step |-> q[i]]]
  /\ UNCHANGED <<jobs, disp>>

\* Mutant: the WHERE clause that spares terminal rows is missing.
PersistAlways(o, st) == opState' = [opState EXCEPT ![o] = st]

\* persistState: terminal rows are left alone.
Persist(o, st) ==
  opState' = [opState EXCEPT ![o] = IF @ \in Terminal THEN @ ELSE st]

\* emit sends operation.completed only if the row it announces, as persistState
\* leaves it, is in the announced state.
Announces(o, st) ==
  o \in active /\ (opState[o] = st \/ opState[o] \notin Terminal)

\* finishActive closes done and drops the handle; then the event is sent.
FinishActive(o, st) ==
  /\ active' = active \ {o}
  /\ cancelReq' = cancelReq \ {o}
  /\ ctxDone' = ctxDone \ {o}
  /\ enqueued' = [enqueued EXCEPT ![o] = {}]
  /\ stepCancel' = [stepCancel EXCEPT ![o] = {}]
  /\ announced' = [announced EXCEPT ![o] = IF Announces(o, st) THEN Append(@, st) ELSE @]

-----------------------------------------------------------------------------
(* Submit, enqueueReady and the dispatcher. *)

\* Mutant: the operations table is asked instead of the submission ledger.
UnknownRow(o) == opState[o] = "none"

\* The submission ledger has no entry: it outlives the rows of the operation.
Unsubmitted(o) == spec[o] = None

\* Submit up to its commit.  A retry of a known operation ID changes nothing:
\* it returns the row, ErrResultExpired, or an error for another digest.
Submit(c, o, sp) ==
  /\ mode # "closed"
  /\ ValidSpec(sp)
  /\ Unsubmitted(o)
  /\ Enter(c, o, "register")
  /\ spec' = [spec EXCEPT ![o] = sp]
  /\ opState' = [opState EXCEPT ![o] = "queued"]
  /\ stepState' = [stepState EXCEPT
       ![o] = [s \in Steps |-> IF s \in sp.steps THEN "queued" ELSE "none"]]
  /\ UNCHANGED <<token, handles, queues, control, history>>

\* Submit stores the handle of the operation it committed.
Register(c) ==
  /\ mode # "closed"
  /\ pc[c] = "register"
  /\ active' = active \cup {curOp[c]}
  /\ Goto(c, "snap")
  /\ UNCHANGED <<durable, cancelReq, ctxDone, enqueued, stepCancel, queues,
                 curOp, curStep, result, snap, lockKey, control, history>>

\* enqueueReady reads the rows without holding a lock.
Snapshot(t) ==
  /\ mode # "closed"
  /\ pc[t] = "snap"
  /\ IF opState[curOp[t]] = "none"
     THEN Return(t)
     ELSE /\ snap' = [snap EXCEPT ![t] = Ready(curOp[t])]
          /\ Goto(t, "enqueue")
          /\ UNCHANGED <<curOp, curStep, result, lockKey>>
  /\ UNCHANGED <<durable, handles, queues, control, history>>

\* enqueueReady schedules what it has read under s.mu.
Enqueue(t) ==
  LET o == curOp[t]
      S == snap[t] \ enqueued[o]
  IN /\ mode # "closed"
     /\ pc[t] = "enqueue"
     /\ Return(t)
     /\ IF o \in active \ cancelReq
        THEN /\ enqueued' = [enqueued EXCEPT ![o] = @ \cup S]
             /\ Push(o, S)
        ELSE UNCHANGED <<enqueued, queues>>
     /\ UNCHANGED <<durable, active, cancelReq, ctxDone, stepCancel, control, history>>

\* The dispatcher reads the head of pending, then selects.
DispatchPeek ==
  /\ mode # "closed"
  /\ disp = "top"
  /\ disp' = IF pending = <<>> THEN "idle" ELSE "armed"
  /\ UNCHANGED <<durable, handles, pending, jobs, wake, threads, control, history>>

DispatchSend ==
  /\ mode # "closed"
  /\ disp = "armed" /\ pending # <<>>
  /\ Len(jobs) < 2 * Cardinality(Workers)
  /\ jobs' = Append(jobs, Head(pending))
  /\ pending' = Tail(pending)
  /\ disp' = "top"
  /\ UNCHANGED <<durable, handles, wake, threads, control, history>>

DispatchWake ==
  /\ mode # "closed"
  /\ disp \in {"idle", "armed"}
  /\ wake
  /\ wake' = FALSE
  /\ disp' = "top"
  /\ UNCHANGED <<durable, handles, pending, jobs, threads, control, history>>

-----------------------------------------------------------------------------
(* runStep and reconcile. *)

\* A worker takes a job and, under reconcileMu, marks its step running.  A
\* job whose handle is gone or cancelled, or whose step is not queued, is
\* dropped.
Claim(w) ==
  LET j == Head(jobs)
      o == j.op
      s == j.step
  IN /\ mode # "closed"
     /\ pc[w] = "idle"
     /\ jobs # <<>>
     /\ jobs' = Tail(jobs)
     /\ IF o \in active \ cancelReq /\ stepState[o][s] = "queued"
        THEN /\ stepState' = [stepState EXCEPT ![o][s] = "running"]
             /\ opState' = [opState EXCEPT
                  ![o] = IF @ \in {"queued", "waiting"} THEN "running" ELSE @]
             /\ stepCancel' = [stepCancel EXCEPT ![o] = @ \cup {s}]
             /\ Goto(w, "lock")
             /\ curOp' = [curOp EXCEPT ![w] = o]
             /\ curStep' = [curStep EXCEPT ![w] = s]
             /\ lockKey' = [lockKey EXCEPT ![w] = TRUE]
             /\ UNCHANGED <<result, snap>>
        ELSE UNCHANGED <<stepState, opState, stepCancel, threads>>
     /\ UNCHANGED <<spec, token, active, cancelReq, ctxDone, enqueued,
                    pending, wake, disp, control, history>>

Exclusive(w) == curStep[w] \in spec[curOp[w]].excl

\* v holds the RWMutex w asks for in a conflicting mode.
Blocks(v, w) ==
  /\ pc[v] = "exec"
  /\ lockKey[v] = lockKey[w]
  /\ lockKey[w] => spec[curOp[v]].ws = spec[curOp[w]].ws
  /\ Exclusive(v) \/ Exclusive(w)

\* The workspace lock is taken.  A step whose context is already cancelled
\* is not executed.
StartStep(w) ==
  LET o == curOp[w]
      s == curStep[w]
  IN /\ pc[w] = "lock"
     /\ \A v \in Workers \ {w} : ~Blocks(v, w)
     /\ IF o \in ctxDone
        THEN /\ Goto(w, "finish")
             /\ result' = [result EXCEPT ![w] = "canceled"]
             /\ UNCHANGED runs
        ELSE /\ Goto(w, "exec")
             /\ runs' = [runs EXCEPT ![o][s] = @ + 1]
             /\ UNCHANGED result
     /\ UNCHANGED <<durable, handles, queues, curOp, curStep, snap, lockKey,
                    control, grants, announced>>

\* The executor returns (a panic is an error) and the lock is released.
ExecReturn(w) ==
  /\ pc[w] = "exec"
  /\ \E r \in Results :
       /\ r = "canceled" => curOp[w] \in ctxDone
       /\ result' = [result EXCEPT ![w] = r]
  /\ Goto(w, "finish")
  /\ UNCHANGED <<durable, handles, queues, curOp, curStep, snap, lockKey,
                 control, history>>

\* Mutant: the cancel function of the step stays registered.
KeepRegistered(o, s) == UNCHANGED stepCancel

Deregister(o, s) == stepCancel' = [stepCancel EXCEPT ![o] = @ \ {s}]

\* The outcome is recorded under reconcileMu.
FinishStep(w) ==
  LET o == curOp[w]
      s == curStep[w]
      st == StepOutcome(o, result[w])
  IN /\ pc[w] = "finish"
     /\ stepState' = [stepState EXCEPT ![o][s] = st]
     /\ \E tk \in Tokens \cup {None} :
          /\ (tk = None) <=> (result[w] # "confirm")
          /\ token' = [token EXCEPT ![o][s] = tk]
     /\ Deregister(o, s)
     /\ Goto(w, "reconcile")
     /\ curStep' = [curStep EXCEPT ![w] = None]
     /\ result' = [result EXCEPT ![w] = None]
     /\ lockKey' = [lockKey EXCEPT ![w] = FALSE]
     /\ UNCHANGED <<opState, spec, active, cancelReq, ctxDone, enqueued, queues,
                    curOp, snap, control, history>>

\* Mutant: cancellation does not wait for the running steps.
CancelAtOnce(o) == TRUE

\* No step of the handle is registered any more.
CancelSettled(o) == stepCancel[o] = {}

\* reconcile of a cancelled operation: it ends once no step is registered.
ReconcileCancelled(t) ==
  LET o == curOp[t]
      st == IF "interrupted" \in StatesOf(stepState[o]) THEN "interrupted" ELSE "cancelled"
  IN /\ mode # "closed"
     /\ pc[t] = "reconcile"
     /\ opState[o] # "none"
     /\ o \in active \cap cancelReq
     /\ IF CancelSettled(o)
        THEN Persist(o, st) /\ FinishActive(o, st)
        ELSE UNCHANGED <<opState, handles, announced>>
     /\ Return(t)
     /\ UNCHANGED <<spec, stepState, token, queues, control, runs, grants>>

Ends(st) == st \in Terminal

\* reconcile otherwise: one pass of skipping, then the aggregate is stored.
Reconcile(t) ==
  LET o == curOp[t]
      steps == [s \in Steps |-> IF s \in Doomed(o) THEN "skipped" ELSE stepState[o][s]]
      st == AggregateState(StatesOf(steps))
  IN /\ mode # "closed"
     /\ pc[t] = "reconcile"
     /\ opState[o] # "none"
     /\ o \notin active \cap cancelReq
     /\ stepState' = [stepState EXCEPT ![o] = steps]
     /\ Persist(o, st)
     /\ IF Ends(st)
        THEN FinishActive(o, st) /\ Return(t)
        ELSE /\ Goto(t, "snap")
             /\ UNCHANGED <<handles, announced, curOp, curStep, result, snap, lockKey>>
     /\ UNCHANGED <<spec, token, queues, control, runs, grants>>

\* The row is gone.
ReconcileNothing(t) ==
  /\ mode # "closed"
  /\ pc[t] = "reconcile"
  /\ opState[curOp[t]] = "none"
  /\ Return(t)
  /\ UNCHANGED <<durable, handles, queues, control, history>>

-----------------------------------------------------------------------------
(* Cancel, Resume, Wait. *)

\* Cancel under reconcileMu; its deferred reconcile is a later step.  Without
\* a handle the operation is ended at once.
Cancel(c, o) ==
  /\ mode # "closed"
  /\ opState[o] # "none"
  /\ Enter(c, o, "reconcile")
  /\ IF opState[o] \in Terminal
     THEN UNCHANGED <<opState, stepState, cancelReq, ctxDone>>
     ELSE /\ stepState' = [stepState EXCEPT
               ![o] = [s \in Steps |-> IF @[s] \in {"queued", "waiting"}
                                       THEN "cancelled" ELSE @[s]]]
          /\ IF o \in active
             THEN /\ cancelReq' = cancelReq \cup {o}
                  /\ ctxDone' = ctxDone \cup {o}
                  /\ UNCHANGED opState
             ELSE /\ Persist(o, "cancelled")
                  /\ UNCHANGED <<cancelReq, ctxDone>>
  /\ UNCHANGED <<spec, token, active, enqueued, stepCancel, queues, control, history>>

\* The request context ends after the handle was marked: the update of the
\* step rows fails, the deferred reconcile still runs.
CancelDropped(c, o) ==
  /\ mode # "closed"
  /\ faults < MaxFaults
  /\ faults' = faults + 1
  /\ opState[o] \in Unfinished
  /\ o \in active
  /\ Enter(c, o, "reconcile")
  /\ cancelReq' = cancelReq \cup {o}
  /\ ctxDone' = ctxDone \cup {o}
  /\ UNCHANGED <<durable, active, enqueued, stepCancel, queues,
                 mode, crashes, history>>

\* Resume, whole under reconcileMu: the token is checked and spent, the step
\* and the operation go back to queued, a missing handle is rebuilt and the
\* ready steps are scheduled.
Resume(c, o, s, tk) ==
  LET rows == [stepState[o] EXCEPT ![s] = "queued"]
      held == IF o \in active THEN enqueued[o] \ {s} ELSE {}
      S == {r \in Steps : /\ rows[r] = "queued"
                          /\ r \notin held
                          /\ \A d \in DepsOf(o, r) : rows[d] = "succeeded"}
  IN /\ mode # "closed"
     /\ pc[c] = "idle"
     /\ opState[o] \in Unfinished
     /\ stepState[o][s] = "waiting"
     /\ token[o][s] = tk
     /\ o \notin active \cap cancelReq
     /\ grants[o][s] < MaxGrants
     /\ stepState' = [stepState EXCEPT ![o] = rows]
     /\ token' = [token EXCEPT ![o][s] = None]
     /\ opState' = [opState EXCEPT ![o] = "queued"]
     /\ grants' = [grants EXCEPT ![o][s] = @ + 1]
     /\ IF o \in active
        THEN UNCHANGED <<active, cancelReq, ctxDone, stepCancel>>
        ELSE /\ active' = active \cup {o}
             /\ cancelReq' = cancelReq \ {o}
             /\ ctxDone' = ctxDone \ {o}
             /\ stepCancel' = [stepCancel EXCEPT ![o] = {}]
     /\ enqueued' = [enqueued EXCEPT ![o] = held \cup S]
     /\ Push(o, S)
     /\ UNCHANGED <<spec, threads, control, runs, announced>>

\* Wait blocks on the done channel of a live handle ...
WaitBegin(c, o) ==
  /\ mode # "closed"
  /\ opState[o] \in {"queued", "running"}
  /\ o \in active
  /\ Enter(c, o, "wait")
  /\ UNCHANGED <<durable, handles, queues, control, history>>

\* ... until done is closed, the timer fires or the request ends.
WaitReturn(c) ==
  /\ pc[c] = "wait"
  /\ Return(c)
  /\ UNCHANGED <<durable, handles, queues, control, history>>

-----------------------------------------------------------------------------
(* Shutdown, crash and restart; retention; database faults. *)

\* recoverInterrupted: only a waiting operation with no running step survives.
Lost(o) ==
  \/ opState[o] \in {"queued", "running"}
  \/ opState[o] = "waiting" /\ "running" \in StatesOf(stepState[o])

RecoverInterrupted ==
  /\ opState' = [o \in Ops |-> IF Lost(o) THEN "interrupted" ELSE opState[o]]
  /\ stepState' = [o \in Ops |->
       IF Lost(o) \/ opState[o] = "interrupted"
       THEN [s \in Steps |-> IF stepState[o][s] \in Unfinished
                             THEN "interrupted" ELSE stepState[o][s]]
       ELSE stepState[o]]
  /\ UNCHANGED <<spec, token>>

\* A new process: New starts with empty memory.
FreshProcess ==
  /\ active' = {} /\ cancelReq' = {} /\ ctxDone' = {}
  /\ enqueued' = [o \in Ops |-> {}]
  /\ stepCancel' = [o \in Ops |-> {}]
  /\ pending' = <<>> /\ jobs' = <<>> /\ wake' = FALSE /\ disp' = "top"
  /\ pc' = [t \in Threads |-> "idle"]
  /\ curOp' = [t \in Threads |-> None]
  /\ curStep' = [t \in Threads |-> None]
  /\ result' = [t \in Threads |-> None]
  /\ snap' = [t \in Threads |-> {}]
  /\ lockKey' = [t \in Threads |-> FALSE]

\* The process dies anywhere; the next one runs New.
Crash ==
  /\ mode # "closed"
  /\ crashes < MaxCrashes
  /\ crashes' = crashes + 1
  /\ mode' = "open"
  /\ RecoverInterrupted
  /\ FreshProcess
  /\ UNCHANGED <<faults, history>>

\* Close cancels every handle and waits for the workers.
Close ==
  /\ mode = "open"
  /\ crashes < MaxCrashes
  /\ crashes' = crashes + 1
  /\ mode' = "closing"
  /\ ctxDone' = ctxDone \cup active
  /\ UNCHANGED <<durable, active, cancelReq, enqueued, stepCancel, queues,
                 threads, faults, history>>

CloseDone ==
  /\ mode = "closing"
  /\ \A w \in Workers : pc[w] = "idle"
  /\ mode' = "closed"
  /\ RecoverInterrupted
  /\ UNCHANGED <<handles, queues, threads, crashes, faults, history>>

Restart ==
  /\ mode = "closed"
  /\ mode' = "open"
  /\ RecoverInterrupted
  /\ FreshProcess
  /\ UNCHANGED <<crashes, faults, history>>

\* deleteExpiredOperations: a finished operation past its retention loses its
\* rows; the submission stays.
Expire(o) ==
  /\ mode = "open"
  /\ opState[o] \in Terminal
  /\ opState' = [opState EXCEPT ![o] = "none"]
  /\ stepState' = [stepState EXCEPT ![o] = [s \in Steps |-> "none"]]
  /\ token' = [token EXCEPT ![o] = [s \in Steps |-> None]]
  /\ UNCHANGED <<spec, handles, queues, threads, control, history>>

\* A database call of finishStep, reconcile or enqueueReady fails: the
\* goroutine gives up and nothing is retried.
GiveUp(t) ==
  /\ mode # "closed"
  /\ faults < MaxFaults
  /\ faults' = faults + 1
  /\ pc[t] \in {"finish", "reconcile", "snap"}
  /\ Return(t)
  /\ UNCHANGED <<durable, handles, queues, mode, crashes, history>>

\* markStepRunning fails: the job is lost.
DropJob(w) ==
  /\ mode # "closed"
  /\ faults < MaxFaults
  /\ faults' = faults + 1
  /\ pc[w] = "idle"
  /\ jobs # <<>>
  /\ jobs' = Tail(jobs)
  /\ UNCHANGED <<durable, handles, pending, wake, disp, threads,
                 mode, crashes, history>>

\* activeSpecWorkspace fails: the step takes the lock of workspace "".
MisreadWorkspace(w) ==
  /\ faults < MaxFaults
  /\ faults' = faults + 1
  /\ pc[w] = "lock"
  /\ lockKey[w]
  /\ lockKey' = [lockKey EXCEPT ![w] = FALSE]
  /\ UNCHANGED <<durable, handles, queues, pc, curOp, curStep, result, snap,
                 mode, crashes, history>>

-----------------------------------------------------------------------------
ClientCall(c) ==
  \/ \E o \in Ops : \/ \E sp \in SubmitSpecs : Submit(c, o, sp)
                    \/ Cancel(c, o)
                    \/ CancelDropped(c, o)
                    \/ \E s \in Steps, tk \in Tokens : Resume(c, o, s, tk)
                    \/ WaitBegin(c, o)
  \/ WaitReturn(c)

\* The steps of a goroutine that has work to do.
Progress(t) ==
  \/ Snapshot(t)
  \/ Enqueue(t)
  \/ ReconcileCancelled(t)
  \/ Reconcile(t)
  \/ ReconcileNothing(t)

WorkerStep(w) == Claim(w) \/ StartStep(w) \/ ExecReturn(w) \/ FinishStep(w)

Dispatch == DispatchPeek \/ DispatchSend \/ DispatchWake

Environment ==
  \/ Crash \/ Close \/ CloseDone \/ Restart
  \/ \E o \in Ops : Expire(o)
  \/ \E t \in Threads : GiveUp(t)
  \/ \E w \in Workers : DropJob(w) \/ MisreadWorkspace(w)

Next ==
  \/ \E c \in Clients : ClientCall(c) \/ Register(c)
  \/ \E t \in Threads : Progress(t)
  \/ \E w \in Workers : WorkerStep(w)
  \/ Dispatch
  \/ Environment

Spec == Init /\ [][Next]_vars

\* Goroutines that can run eventually do: the Go scheduler is fair, the
\* mutexes and channels are starvation free, and executors return.  Clients,
\* crashes and faults owe nothing.
Fairness ==
  /\ WF_vars(Dispatch)
  /\ \A w \in Workers : WF_vars(WorkerStep(w))
  /\ \A t \in Threads : WF_vars(Progress(t))
  /\ \A c \in Clients : WF_vars(Register(c))

FairSpec == Spec /\ Fairness
-----------------------------------------------------------------------------
(* What makes the service correct. *)

InFlight(t) == pc[t] \in {"lock", "exec", "finish"}

\* A terminal row is never written while a worker still owns one of its
\* steps: cancellation, failure and shutdown wait for the executors.
TerminalMeansQuiet ==
  \A t \in Threads : InFlight(t) => opState[curOp[t]] \in Unfinished

\* A tool call is started at most once per submission and once more per
\* accepted confirmation, whatever retries, stale enqueueReady reads,
\* crashes and expiries happen in between.
AtMostOncePerGrant ==
  \A o \in Ops, s \in Steps : runs[o][s] <= 1 + grants[o][s]

\* A step a worker has claimed has only succeeded dependencies, although
\* enqueueReady decides on rows it read without a lock.
RunsFollowDependencies ==
  \A t \in Threads : InFlight(t) =>
    \A d \in DepsOf(curOp[t], curStep[t]) : stepState[curOp[t]][d] = "succeeded"

\* An exclusive step shares its workspace with no other executing step, as long
\* as no query failed: activeSpecWorkspace takes a failing one for workspace "".
ExclusiveStepsRunAlone ==
  faults = 0 => \A v, w \in Workers :
    /\ v # w /\ pc[v] = "exec" /\ pc[w] = "exec"
    /\ spec[curOp[v]].ws = spec[curOp[w]].ws
    => ~Exclusive(v) /\ ~Exclusive(w)

\* operation.completed is sent at most once and announces the state the row
\* has from then on.
CompletionAnnouncedOnce ==
  \A o \in Ops : announced[o] # <<>> =>
    /\ Len(announced[o]) = 1
    /\ opState[o] \in {announced[o][1], "none"}

\* The done channel Wait blocks on is closed only after the terminal state
\* is durable.
DoneMeansTerminal ==
  \A c \in Clients : pc[c] = "wait" /\ curOp[c] \notin active =>
    opState[curOp[c]] \in Terminal \cup {"none"}

\* An operation reported succeeded has run every step to success.
SuccessIsComplete ==
  \A o \in Ops : opState[o] = "succeeded" =>
    StatesOf(stepState[o]) = {"succeeded"}

\* A step runs in its turn: after its dependencies, and alone where it has to.
StepsRunInTurn == RunsFollowDependencies /\ ExclusiveStepsRunAlone

\* What is said of an operation that is over is what its rows say.
OutcomeIsTrue == CompletionAnnouncedOnce /\ DoneMeansTerminal /\ SuccessIsComplete

\* A settled operation is never revived, and nothing of it runs again: not
\* after a late Cancel or Resume, a restart, or a retry of an expired ID.
NeverRevived ==
  [][\A o \in Ops : spec[o] # None /\ opState[o] \notin Unfinished =>
       /\ opState'[o] \in {opState[o], "none"}
       /\ runs'[o] = runs[o]]_vars

\* An operation that is queued or running does not stay so: each of its
\* steps is dispatched, run or skipped until it settles or asks the user.
Settles ==
  \A o \in Ops :
    opState[o] \in {"queued", "running"} ~> opState[o] \notin {"queued", "running"}

\* A requested cancellation ends the operation.
CancelEnds ==
  \A o \in Ops : o \in cancelReq ~> opState[o] \in Terminal \cup {"none"}

-----------------------------------------------------------------------------
(* The inductive invariant behind the theorems of OperationProofs. *)

\* Every goroutine inside the service works on an operation; only workers
\* run steps.
ThreadsOK ==
  /\ \A t \in Threads : pc[t] # "idle" => curOp[t] \in Ops
  /\ \A t \in Threads : InFlight(t) => t \in Workers /\ curStep[t] \in Steps
  /\ \A t \in Threads : pc[t] = "finish" => result[t] \in Results

\* A step in flight is running in the table, its cancel function is
\* registered in a live handle, and its operation is unfinished.
Owned ==
  \A t \in Threads : InFlight(t) =>
    /\ curOp[t] \in active
    /\ curStep[t] \in stepCancel[curOp[t]]
    /\ stepState[curOp[t]][curStep[t]] = "running"
    /\ opState[curOp[t]] \in Unfinished

\* No step is in flight twice.
Distinct ==
  \A t, u \in Threads :
    t # u /\ InFlight(t) /\ InFlight(u) =>
      curOp[t] # curOp[u] \/ curStep[t] # curStep[u]

\* An operation nobody submitted has left no trace.
Fresh ==
  \A o \in Ops : spec[o] = None =>
    /\ opState[o] = "none"
    /\ o \notin active
    /\ \A s \in Steps : runs[o][s] = 0

\* Between the commit of Submit and the registration of its handle, only that
\* Submit can create a handle: there is none and no step waits or runs.
Registering ==
  /\ \A t \in Threads : pc[t] = "register" =>
       /\ spec[curOp[t]] # None
       /\ curOp[t] \notin active
       /\ \A s \in Steps : stepState[curOp[t]][s] \notin {"waiting", "running"}
  /\ \A t, u \in Threads :
       t # u /\ pc[t] = "register" /\ pc[u] = "register" => curOp[t] # curOp[u]

\* A terminal operation that kept queued steps (a dropped Cancel) has no
\* handle and will not get one.
Stranded ==
  \A o \in Ops, s \in Steps :
    opState[o] \notin Unfinished /\ stepState[o][s] = "queued" =>
      /\ o \notin active
      /\ \A t \in Threads : pc[t] = "register" => curOp[t] # o

\* A queued step, and one in flight that has not started, may still run once.
Credit ==
  /\ \A o \in Ops, s \in Steps : runs[o][s] <= 1 + grants[o][s]
  /\ \A o \in Ops, s \in Steps : stepState[o][s] = "queued" => runs[o][s] <= grants[o][s]
  /\ \A t \in Threads : pc[t] = "lock" => runs[curOp[t]][curStep[t]] <= grants[curOp[t]][curStep[t]]

IInv ==
  /\ TypeOK /\ ThreadsOK /\ Owned /\ Distinct
  /\ Fresh /\ Registering /\ Stranded /\ Credit
=============================================================================
