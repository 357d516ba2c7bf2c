------------------------------- MODULE Retention -------------------------------
(***************************************************************************)
(* Housekeeping of the state database (internal/state/retention.go) and    *)
(* what depends on its rows: the evidence of plan tasks, checked when a    *)
(* task is completed (internal/plan/service.go) and again when the plan is *)
(* delivered (internal/plan/delivery.go).                                  *)
(*                                                                         *)
(* Rows are of the tables housekeeping deletes from: terminal tasks with   *)
(* their logs, edit records and other short-lived records, operations, and *)
(* snapshots.  One session, one plan.  A row is "aged" once its time to    *)
(* live has passed; rows age in any order.                                 *)
(***************************************************************************)
EXTENDS Integers, FiniteSets

CONSTANTS
  TaskRows,            \* terminal_tasks, oldest first
  EditRows,            \* clean_edit_records and other records with expires_at
  OperationRows,       \* operations
  SnapshotRows,        \* file and environment snapshots of the session
  PlanTasks,           \* tasks of the plan
  StuckLogs,           \* task rows whose log cannot be removed
  Batch,               \* retentionBatchSize
  MaxRetentionFaults   \* bound: failing statements

NoEvidence == 0
Rows == TaskRows \cup EditRows \cup OperationRows \cup SnapshotRows

ASSUME RetentionConstants ==
  /\ Rows \subseteq Nat \ {NoEvidence} /\ StuckLogs \subseteq TaskRows
  /\ EditRows \cap OperationRows = {} /\ SnapshotRows \cap (EditRows \cup OperationRows) = {}
  /\ TaskRows \cap (EditRows \cup OperationRows \cup SnapshotRows) = {}
  /\ Batch \in Nat \ {0} /\ MaxRetentionFaults \in Nat

VARIABLES
  rows,        \* state of a row: none, running, succeeded, failed, deleted
  aged,        \* rows whose time to live has passed
  logs,        \* task rows whose log files are there
  session,     \* active or closed
  current,     \* snapshots the session refers to
  evidence,    \* plan_task_evidence: the row each completed plan task refers to
  plan,        \* active, delivered
  pass,        \* what the pass is about to do, and its candidates
  retentionFaults

retentionVars == <<rows, aged, logs, session, current, evidence, plan, pass, retentionFaults>>

RetentionTypeOK ==
  /\ rows \in [Rows -> {"none", "running", "succeeded", "failed", "deleted"}]
  /\ aged \subseteq Rows /\ logs \subseteq TaskRows /\ current \subseteq SnapshotRows
  /\ session \in {"active", "closed"} /\ plan \in {"active", "delivered"}
  /\ evidence \in [PlanTasks -> TaskRows \cup EditRows \cup OperationRows \cup {NoEvidence}]
  /\ pass.step \in {"idle", "records", "candidates", "logs", "row", "operations", "snapshots"}
  /\ pass.candidates \subseteq TaskRows
  /\ retentionFaults \in 0..MaxRetentionFaults

RetentionInit ==
  /\ rows = [r \in Rows |-> IF r \in SnapshotRows THEN "succeeded" ELSE "none"]
  /\ aged = {} /\ logs = {} /\ session = "active"
  /\ current \in {{}} \cup {{s} : s \in SnapshotRows}
  /\ evidence = [p \in PlanTasks |-> NoEvidence] /\ plan = "active"
  /\ pass = [step |-> "idle", candidates |-> {}]
  /\ retentionFaults = 0

-----------------------------------------------------------------------------
\* Helpers

Present(r) == rows[r] \notin {"none", "deleted"}
Deleted(set) == [r \in Rows |-> IF r \in set THEN "deleted" ELSE rows[r]]
InUse == {evidence[p] : p \in PlanTasks}

PassGoes(step) == pass' = [pass EXCEPT !.step = step]

\* Any statement may fail: the pass ends there, the next tick starts another.
PassFails ==
  /\ retentionFaults < MaxRetentionFaults /\ retentionFaults' = retentionFaults + 1
  /\ pass' = [step |-> "idle", candidates |-> {}]

\* At most a batch of a set, the oldest or those that expired first.
Batches(set) == {b \in SUBSET set : Cardinality(b) = IF Cardinality(set) < Batch THEN Cardinality(set) ELSE Batch}

OldestRow(set) == CHOOSE r \in set : \A o \in set : r <= o

-----------------------------------------------------------------------------
\* RetentionService.RunOnce, started by the ticker of the server

StartPass ==
  /\ pass.step = "idle" /\ PassGoes("records")
  /\ UNCHANGED <<rows, aged, logs, session, current, evidence, plan, retentionFaults>>

\* deleteExpiredEphemeral: every table by its expires_at alone
DeleteRecords ==
  /\ pass.step = "records"
  /\ \/ /\ \E b \in Batches({r \in EditRows \cap aged : Present(r)}) : rows' = Deleted(b)
        /\ PassGoes("candidates") /\ UNCHANGED retentionFaults
     \/ PassFails /\ UNCHANGED rows
  /\ UNCHANGED <<aged, logs, session, current, evidence, plan>>

\* deleteTerminalTasks reads the candidates first: not running, aged, and no
\* execute evidence refers to them.
SelectCandidates ==
  /\ pass.step = "candidates"
  /\ \/ LET able == {r \in TaskRows \cap aged : rows[r] \in {"succeeded", "failed"} /\ r \notin InUse}
        IN /\ pass' = [step |-> "logs", candidates |-> {r \in able : Cardinality({o \in able : o < r}) < Batch}]
           /\ UNCHANGED retentionFaults
     \/ PassFails
  /\ UNCHANGED <<rows, aged, logs, session, current, evidence, plan>>

\* the first log that cannot be removed ends the pass
RemoveLogOrGiveUp ==
  LET r == OldestRow(pass.candidates) IN
  /\ pass.step = "logs" /\ pass.candidates # {}
  /\ IF r \in StuckLogs
     THEN pass' = [step |-> "idle", candidates |-> {}] /\ UNCHANGED logs
     ELSE logs' = logs \ {r} /\ PassGoes("row")
  /\ UNCHANGED <<rows, aged, session, current, evidence, plan, retentionFaults>>

\* One candidate after the other: its log files, then its row.  A log that
\* cannot be removed is reported and its row is left for the next pass.
RemoveLog ==
  LET r == OldestRow(pass.candidates) IN
  /\ pass.step = "logs" /\ pass.candidates # {}
  /\ IF r \in StuckLogs
     THEN pass' = [pass EXCEPT !.candidates = @ \ {r}] /\ UNCHANGED logs
     ELSE logs' = logs \ {r} /\ PassGoes("row")
  /\ UNCHANGED <<rows, aged, session, current, evidence, plan, retentionFaults>>

DeleteRow ==
  LET r == OldestRow(pass.candidates) IN
  /\ pass.step = "row"
  /\ \/ /\ rows' = Deleted({r})
        /\ pass' = [step |-> "logs", candidates |-> pass.candidates \ {r}] /\ UNCHANGED retentionFaults
     \/ PassFails /\ UNCHANGED rows
  /\ UNCHANGED <<aged, logs, session, current, evidence, plan>>

\* the operations of any session go
DeleteAnyOperations ==
  /\ pass.step = "logs" /\ pass.candidates = {}
  /\ \E b \in Batches({r \in OperationRows \cap aged : rows[r] \in {"succeeded", "failed"}}) : rows' = Deleted(b)
  /\ PassGoes("snapshots")
  /\ UNCHANGED <<aged, logs, session, current, evidence, plan, retentionFaults>>

\* deleteExpiredOperations: terminal ones of a closed session
DeleteOperations ==
  /\ pass.step = "logs" /\ pass.candidates = {}
  /\ \/ /\ \E b \in Batches(IF session = "closed" THEN {r \in OperationRows \cap aged : rows[r] \in {"succeeded", "failed"}} ELSE {}) :
             rows' = Deleted(b)
        /\ PassGoes("snapshots") /\ UNCHANGED retentionFaults
     \/ PassFails /\ UNCHANGED rows
  /\ UNCHANGED <<aged, logs, session, current, evidence, plan>>

\* deleteClosedSessionSnapshots: those no session refers to; then the checkpoint.
DeleteSnapshots ==
  /\ pass.step = "snapshots"
  /\ \/ /\ \E b \in Batches(IF session = "closed" THEN {r \in (SnapshotRows \cap aged) \ current : Present(r)} ELSE {}) :
             rows' = Deleted(b)
        /\ PassGoes("idle") /\ UNCHANGED retentionFaults
     \/ PassFails /\ UNCHANGED rows
  /\ UNCHANGED <<aged, logs, session, current, evidence, plan>>

-----------------------------------------------------------------------------
\* What the rows are for

Started(r) ==
  /\ rows[r] = "none" /\ session = "active"
  /\ rows' = [rows EXCEPT ![r] = IF r \in TaskRows \cup OperationRows THEN "running" ELSE "succeeded"]
  /\ logs' = IF r \in TaskRows THEN logs \cup {r} ELSE logs
  /\ UNCHANGED <<aged, session, current, evidence, plan, pass, retentionFaults>>

Ended(r) ==
  /\ rows[r] = "running"
  /\ \E outcome \in {"succeeded", "failed"} : rows' = [rows EXCEPT ![r] = outcome]
  /\ UNCHANGED <<aged, logs, session, current, evidence, plan, pass, retentionFaults>>

\* A row ages; the time of a task counts from its end.
Ages(r) ==
  /\ Present(r) /\ (r \in TaskRows => rows[r] # "running") /\ r \notin aged
  /\ aged' = aged \cup {r}
  /\ UNCHANGED <<rows, logs, session, current, evidence, plan, pass, retentionFaults>>

CloseSession ==
  /\ session = "active" /\ session' = "closed"
  /\ UNCHANGED <<rows, aged, logs, current, evidence, plan, pass, retentionFaults>>

\* validateEvidenceRef: the row must be there, ended, and, but for the exit code
\* of a task, successful; the evidence is inserted in the same transaction.
Accepts(r) ==
  \/ r \in TaskRows /\ rows[r] \in {"succeeded", "failed"}
  \/ r \in EditRows \cup OperationRows /\ rows[r] = "succeeded"

CompletePlanTask(p) ==
  /\ plan = "active" /\ evidence[p] = NoEvidence
  /\ \E r \in TaskRows \cup EditRows \cup OperationRows :
       Accepts(r) /\ evidence' = [evidence EXCEPT ![p] = r]
  /\ UNCHANGED <<rows, aged, logs, session, current, plan, pass, retentionFaults>>

\* deliveryChecks: every task is completed, its task row is there and has exited
\* with 0, its edit record is there and has succeeded; operations are not looked
\* at again.
Passes(r) == r \in OperationRows \/ rows[r] = "succeeded"

DeliverPlan ==
  /\ plan = "active"
  /\ \A p \in PlanTasks : evidence[p] # NoEvidence /\ Passes(evidence[p])
  /\ plan' = "delivered"
  /\ UNCHANGED <<rows, aged, logs, session, current, evidence, pass, retentionFaults>>

PassStep ==
  \/ StartPass \/ DeleteRecords \/ SelectCandidates \/ RemoveLog \/ DeleteRow \/ DeleteOperations \/ DeleteSnapshots

RetentionNext ==
  \/ PassStep
  \/ \E r \in Rows : Started(r) \/ Ended(r) \/ Ages(r)
  \/ CloseSession
  \/ \E p \in PlanTasks : CompletePlanTask(p)
  \/ DeliverPlan

RetentionSpec == RetentionInit /\ [][RetentionNext]_retentionVars

\* The ticker starts a pass again and again, and a pass goes on by itself.
RetentionFairness == WF_retentionVars(PassStep)
RetentionFairSpec == RetentionSpec /\ RetentionFairness

-----------------------------------------------------------------------------
\* Properties

\* Housekeeping never takes a row that is still good for something: one within
\* its time, a running task or operation, an operation or a snapshot of an open
\* session, the snapshot a session refers to.
KeepsWhatIsAlive ==
  [][\A r \in Rows : rows[r] # "deleted" /\ rows'[r] = "deleted" =>
       /\ r \in aged /\ rows[r] # "running"
       /\ r \in OperationRows \cup SnapshotRows => session = "closed"
       /\ r \notin current]_retentionVars

\* Every aged row of a task whose log can be removed is collected in the end,
\* unless evidence refers to it, though a pass takes only a batch and leaves what
\* it cannot remove at the head of the next one.
AgedIsCollected ==
  \A r \in TaskRows \ StuckLogs : (r \in aged /\ r \notin InUse) ~> (rows[r] = "deleted" \/ r \in InUse)

\* What the evidence of an undelivered plan refers to is kept ("It never deletes
\* Remote Sessions, Plans, or their source evidence", retention.go).  It does not
\* hold: edit records expire after a day whatever refers to them, and a task may
\* become evidence after it was chosen.
EvidenceKept == plan = "active" => \A p \in PlanTasks : evidence[p] # NoEvidence => rows[evidence[p]] # "deleted"
=============================================================================
