--------------------------------- MODULE Plan ---------------------------------
(***************************************************************************)
(* One plan and its tasks: the plan service (internal/plan/service.go,     *)
(* delivery.go).  Every call is one transaction of SQLite and one action   *)
(* here.                                                                   *)
(***************************************************************************)
EXTENDS Integers, FiniteSets

CONSTANTS
  Tasks,       \* plan_tasks.id
  Refs,        \* what evidence refers to: events, edits, executions, artifacts
  None,
  MaxReplans   \* bound: replans of the plan

ASSUME PlanAssumption == None \notin Tasks /\ MaxReplans \in Nat

PlanStates == {"none", "ready", "in_progress", "blocked", "completed"}
TaskStates == {"none", "todo", "in_progress", "blocked", "completed"}
RefStates == {"missing", "failed", "ok"}

VARIABLES
  plan,       \* plans.status
  task,       \* plan_tasks.status, "none" without a row
  deps,       \* plan_tasks.depends_on_json
  evidence,   \* plan_task_evidence
  ref,        \* the state of what evidence refers to
  removed,    \* history: tasks a replan has removed
  replans

planVars == <<plan, task, deps, evidence, ref, removed, replans>>

PlanTypeOK ==
  /\ plan \in PlanStates /\ task \in [Tasks -> TaskStates]
  /\ deps \in [Tasks -> SUBSET Tasks]
  /\ evidence \in [Tasks -> SUBSET Refs]
  /\ ref \in [Refs -> RefStates]
  /\ removed \subseteq Tasks /\ replans \in Nat

PlanInit ==
  /\ plan = "none" /\ task = [t \in Tasks |-> "none"]
  /\ deps = [t \in Tasks |-> {}]
  /\ evidence = [t \in Tasks |-> {}]
  /\ ref = [e \in Refs |-> "missing"]
  /\ removed = {} /\ replans = 0

-----------------------------------------------------------------------------
\* Helpers

Present == {t \in Tasks : task[t] # "none"}
Completed == {t \in Tasks : task[t] = "completed"}

\* Bug: cycles are not looked for.
GraphOKCyclic(S, d) == \A t \in S : d[t] \subseteq S

\* validateTaskGraph: every dependency is a task of S, and there is no cycle.
GraphOK(S, d) ==
  /\ \A t \in S : d[t] \subseteq S
  /\ \A C \in (SUBSET S) \ {{}} : \E t \in C : d[t] \cap C = {}

\* dependenciesComplete
Unlocked(t) == deps[t] \subseteq Completed

\* The status of the plan after work on it begins.
Resumed == IF plan \in {"ready", "blocked"} THEN "in_progress" ELSE plan

\* deliveryChecks finds no blocker.
Deliverable ==
  /\ Present \subseteq Completed
  /\ \A t \in Present : \A e \in evidence[t] : ref[e] = "ok"

\* Bug: a completed task may be removed or given other dependencies.
ChangeableAll == Present

\* Tasks a replan may remove or change.
Changeable == Present \ Completed

-----------------------------------------------------------------------------
\* The calls

Create ==
  /\ plan = "none" /\ plan' = "ready"
  /\ \E S \in (SUBSET Tasks) \ {{}}, d \in [Tasks -> SUBSET Tasks] :
       /\ \A t \in Tasks \ S : d[t] = {}
       /\ GraphOK(S, d)
       /\ task' = [t \in Tasks |-> IF t \in S THEN "todo" ELSE "none"]
       /\ deps' = d
  /\ UNCHANGED <<evidence, ref, removed, replans>>

\* transitionTask: the update of task, evidence and plan, in one transaction.
Transition(t, from, to, E) ==
  /\ plan \notin {"none", "completed"}
  /\ task[t] \in from
  /\ \A e \in E : ref[e] # "missing" /\ e \notin evidence[t]
  /\ task' = [task EXCEPT ![t] = to]
  /\ evidence' = [evidence EXCEPT ![t] = @ \cup E]
  /\ UNCHANGED <<deps, ref, removed, replans>>

StartTask(t) ==
  /\ Unlocked(t)
  /\ Transition(t, {"todo", "blocked"}, "in_progress", {})
  /\ plan' = Resumed

CompleteTask(t) ==
  /\ \E E \in (SUBSET Refs) \ {{}} : Transition(t, {"in_progress"}, "completed", E)
  /\ plan' = plan

BlockTask(t) ==
  /\ \E E \in SUBSET Refs : Transition(t, {"in_progress"}, "blocked", E)
  /\ plan' = "blocked"

\* Replan: the net effect of a list of operations.  Every list applyOperations
\* and validateTaskGraph accept has such an effect, and the list that updates,
\* adds, and removes dependents first has it.
Replan ==
  /\ plan \notin {"none", "completed"}
  /\ replans < MaxReplans /\ replans' = replans + 1
  /\ \E gone \in SUBSET Changeable, new \in SUBSET (Tasks \ Present),
        d \in [Tasks -> SUBSET Tasks] :
       LET S == (Present \ gone) \cup new IN
       /\ S # {}
       /\ \A t \in Tasks : t \notin new \cup (Changeable \ gone) =>
            d[t] = IF t \in gone THEN {} ELSE deps[t]
       /\ GraphOK(S, d)
       /\ deps' = d
       /\ task' = [t \in Tasks |-> IF t \in gone THEN "none"
                                   ELSE IF t \in new THEN "todo" ELSE task[t]]
       /\ evidence' = [t \in Tasks |-> IF t \in gone THEN {} ELSE evidence[t]]
       /\ removed' = removed \cup gone
  /\ plan' = Resumed
  /\ UNCHANGED ref

\* Deliver, of a plan that was delivered before as well; an approval pending in
\* the session prevents it too.
Deliver ==
  /\ plan # "none"
  /\ \/ Deliverable /\ plan' = "completed"
     \/ plan' = "blocked"
  /\ UNCHANGED <<task, deps, evidence, ref, removed, replans>>

-----------------------------------------------------------------------------
\* The rest of the program: work is done, retention deletes its record.  The id
\* of a record is not used again.
RefChanges(e) ==
  /\ \E s \in RefStates \ {ref[e]} :
       /\ "missing" \in {ref[e], s}
       /\ ref[e] = "missing" => \A t \in Tasks : e \notin evidence[t]
       /\ ref' = [ref EXCEPT ![e] = s]
  /\ UNCHANGED <<plan, task, deps, evidence, removed, replans>>

PlanNext ==
  \/ Create \/ Replan \/ Deliver
  \/ \E t \in Tasks : StartTask(t) \/ CompleteTask(t) \/ BlockTask(t)
  \/ \E e \in Refs : RefChanges(e)
==============================================================================
