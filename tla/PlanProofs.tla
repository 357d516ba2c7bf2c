------------------------------ MODULE PlanProofs ------------------------------
(***************************************************************************)
(* Proofs about PlanDispatch, for any set of tasks, calls, keys and        *)
(* grants, any number of replans and of calls that die.                    *)
(*                                                                         *)
(* A plan stays free of cycles (Graph), so that the open tasks have one    *)
(* that waits for none of them: NeverStuck.  That a task has one Issue     *)
(* rests on the row of its claim: whoever may create the Issue made that   *)
(* row (Sole, Claimed), which only the removal of the task takes away.     *)
(*                                                                         *)
(* That the Issues nobody confirmed never exceed the attempts of their     *)
(* grant rests on what a grant was charged for (Charged): its tasks, no    *)
(* more than the attempts it used, and one of them for every Issue.        *)
(*                                                                         *)
(* The last parts are about other places where what was promised is done   *)
(* by a program outside.  The browser tool (Browser): one child process    *)
(* carries out the commands of all calls, and an answer must reach the     *)
(* request it belongs to.  The multica program (Tracker): the forms of a   *)
(* command are tried in turn, and only an answer that is misread makes an  *)
(* action happen once more.                                                *)
(***************************************************************************)
EXTENDS PlanDispatch, Browser, Tracker, SequenceTheorems, FiniteSetTheorems, TLAPS

\* The tasks of a plan depend on each other without a cycle.
Graph == GraphOK(Present, deps)

\* Without a plan there are no tasks.
Blank == plan = "none" => Present = {}

\* Calls between claim and link.
Busy == {c \in Calls : pc[c] \in {"create", "find", "link"}}

\* Only a plan that exists has calls at work; before any replan they work on
\* tasks whose dependencies are completed.
Ready ==
  /\ plan = "none" => Busy = {}
  /\ replans = 0 => \A c \in Busy : Unlocked(Target[c])

\* Calls that have created an Issue, or may.
Makers(t) == {c \in Calls : Target[c] = t /\ (pc[c] = "create" \/ c \in issues)}

\* A call creates its Issue once; what a call links is an Issue of its task.
Held ==
  /\ \A c \in Calls : pc[c] \in {"idle", "claim", "create"} => c \notin issues
  /\ \A c \in Calls : pc[c] = "link" =>
       holds[c] \in issues /\ Target[holds[c]] = Target[c]

Sole == \A t \in Tasks \ removed : \A c, d \in Makers(t) : c = d

Claimed ==
  /\ \A t \in Tasks \ Present : link[t] = "none"
  /\ \A c \in Calls : Target[c] \notin removed =>
       /\ pc[c] = "create" => link[Target[c]] = "creating"
       /\ c \in issues => link[Target[c]] = "creating"
                          \/ (link[Target[c]] = "dispatched" /\ issueOf[Target[c]] = c)

-----------------------------------------------------------------------------
\* Types

LEMMA TargetType == \A c \in Calls : Target[c] \in Tasks /\ Route[c] \in Routes
BY DispatchAssumption

\* The types of the plan are kept by each of its calls.
LEMMA PlanTypeStep == ASSUME PlanTypeOK, PlanNext PROVE PlanTypeOK'
<1> USE PlanAssumption DEF PlanTypeOK, PlanStates, TaskStates, RefStates
<1>1. ASSUME Create PROVE PlanTypeOK'
  BY <1>1 DEF Create
<1>2. ASSUME Replan PROVE PlanTypeOK'
  <2>1. PICK gone \in SUBSET Changeable, new \in SUBSET (Tasks \ Present),
             d \in [Tasks -> SUBSET Tasks] :
          /\ deps' = d
          /\ task' = [t \in Tasks |-> IF t \in gone THEN "none"
                                      ELSE IF t \in new THEN "todo" ELSE task[t]]
          /\ evidence' = [t \in Tasks |-> IF t \in gone THEN {} ELSE evidence[t]]
          /\ removed' = removed \cup gone
    BY <1>2 DEF Replan
  <2>2. gone \subseteq Tasks
    BY DEF Changeable, Present
  <2> QED BY <1>2, <2>1, <2>2 DEF Replan, Resumed
<1>3. ASSUME Deliver PROVE PlanTypeOK'
  BY <1>3 DEF Deliver
<1>4. ASSUME NEW t \in Tasks, StartTask(t) PROVE PlanTypeOK'
  BY <1>4 DEF StartTask, Transition, Resumed
<1>5. ASSUME NEW t \in Tasks, CompleteTask(t) PROVE PlanTypeOK'
  BY <1>5 DEF CompleteTask, Transition
<1>6. ASSUME NEW t \in Tasks, BlockTask(t) PROVE PlanTypeOK'
  BY <1>6 DEF BlockTask, Transition
<1>7. ASSUME NEW e \in Refs, RefChanges(e) PROVE PlanTypeOK'
  BY <1>7 DEF RefChanges
<1> QED BY <1>1, <1>2, <1>3, <1>4, <1>5, <1>6, <1>7 DEF PlanNext

\* The types hold initially and are kept by every step.
LEMMA TypeInit == Init => TypeOK
BY PlanAssumption, DispatchAssumption
   DEF Init, PlanInit, TypeOK, PlanTypeOK, PlanStates, TaskStates, RefStates,
       PC, Grants, GrantStates

LEMMA TypeStep == ASSUME TypeOK, [Next]_vars PROVE TypeOK'
<1> USE DispatchAssumption, TargetType DEF TypeOK, PC
<1>1. ASSUME PlanStep PROVE TypeOK'
  <2>1. PlanTypeOK'
    BY <1>1, PlanTypeStep DEF PlanStep
  <2>2. UNCHANGED <<pc, key, by, holds, issues, grant, attempts, uses, deaths>>
    BY <1>1 DEF PlanStep, calls, grants
  <2>3. link' \in [Tasks -> {"none", "creating", "dispatched"}]
    BY <1>1 DEF PlanStep
  <2>4. route' \in [Tasks -> Routes \cup {None}]
    BY <1>1 DEF PlanStep
  <2>5. issueOf' \in [Tasks -> Calls \cup {None}] /\ recent' \subseteq Tasks
    BY <1>1 DEF PlanStep
  <2> QED BY <2>1, <2>2, <2>3, <2>4, <2>5
<1>2. ASSUME NEW c \in Calls, Confirm(c) PROVE TypeOK'
  BY <1>2 DEF Confirm, Enter, PlanTypeOK, planVars, rows, grants
<1>3. ASSUME NEW c \in Calls, NEW g \in Grants, NEW k \in Keys, Authorize(c, g, k)
      PROVE  TypeOK'
  <2>1. attempts' \in [Grants -> 0..MaxAttempts]
    BY <1>3 DEF Authorize, EnoughAttempts
  <2>2. by' \in [Calls -> 0..MaxGrants] /\ uses' \subseteq Grants \X Tasks \X Keys
    BY <1>3 DEF Authorize, Grants
  <2> QED BY <1>3, <2>1, <2>2 DEF Authorize, Enter, PlanTypeOK, planVars, rows
<1>4. ASSUME NEW c \in Calls, Replay(c) \/ ClaimNew(c) \/ ClaimStale(c) \/ EndClaim(c)
      PROVE  TypeOK'
  <2>1. CASE Replay(c) \/ EndClaim(c)
    BY <2>1 DEF Replay, EndClaim, PlanTypeOK, planVars, rows, grants
  <2>2. CASE ClaimNew(c)
    BY <2>2 DEF ClaimNew, PlanTypeOK, planVars, grants
  <2>3. CASE ClaimStale(c)
    BY <2>3 DEF ClaimStale, PlanTypeOK, planVars, grants
  <2> QED BY <1>4, <2>1, <2>2, <2>3
<1>5. ASSUME NEW c \in Calls, CreateIssue(c) \/ FindIssue(c) PROVE TypeOK'
  BY <1>5, SMTT(40) DEF CreateIssue, FindIssue, PlanTypeOK, planVars, rows, grants
<1>6. ASSUME NEW c \in Calls, LinkIssue(c) PROVE TypeOK'
  <2>1. task' \in [Tasks -> TaskStates] /\ plan' \in PlanStates
    BY <1>6 DEF LinkIssue, StartLinked, Resumed, PlanTypeOK, PlanStates, TaskStates
  <2> QED BY <1>6, <2>1 DEF LinkIssue, PlanTypeOK, grants
<1>7. ASSUME NEW c \in Calls, Die(c) PROVE TypeOK'
  BY <1>7 DEF Die, PlanTypeOK, planVars, rows, grants
<1>8. ASSUME NEW t \in Tasks, LeaseEnds(t) PROVE TypeOK'
  BY <1>8 DEF LeaseEnds, PlanTypeOK, planVars, calls, grants
<1>9. ASSUME NEW g \in Grants, CreateRunGrant(g) \/ GrantEnds(g) PROVE TypeOK'
  BY <1>9 DEF CreateRunGrant, GrantEnds, GrantStates, PlanTypeOK, planVars, calls, rows
<1>10. CASE UNCHANGED vars
  BY <1>10 DEF vars, PlanTypeOK, planVars, calls, rows, grants
<1> QED BY <1>1, <1>2, <1>3, <1>4, <1>5, <1>6, <1>7, <1>8, <1>9, <1>10
        DEF Next, CallStep

\* The rows of plans, tasks, dispatches and grants keep to the schema.
THEOREM TypeCorrect == Spec => []TypeOK
BY TypeInit, TypeStep, PTL DEF Spec

-----------------------------------------------------------------------------
\* The plan alone

\* Create, Replan and Deliver aside, a call of the plan moves one task, and what
\* was completed stays so.
LEMMA Moves ==
  ASSUME TypeOK, [Next]_vars
  PROVE  \/ Create \/ Replan \/ Deliver
         \/ /\ deps' = deps /\ removed' = removed /\ replans' = replans
            /\ Present' = Present /\ Completed \subseteq Completed'
            /\ (plan = "completed") = (plan' = "completed")
            /\ plan' = "none" => plan = "none"
            /\ plan = "completed" => task' = task
            /\ \A t \in Tasks : evidence[t] \subseteq evidence'[t]
<1> USE DEF TypeOK, PlanTypeOK, Present, Completed
<1>1. ASSUME NEW t \in Tasks, StartTask(t) \/ CompleteTask(t) \/ BlockTask(t)
      PROVE  /\ deps' = deps /\ removed' = removed /\ replans' = replans
             /\ Present' = Present /\ Completed \subseteq Completed'
             /\ plan \notin {"none", "completed"} /\ plan' \notin {"none", "completed"}
             /\ \A u \in Tasks : evidence[u] \subseteq evidence'[u]
  <2>1. PICK from \in {{"todo", "blocked"}, {"in_progress"}},
             to \in {"in_progress", "completed", "blocked"}, E \in SUBSET Refs :
               Transition(t, from, to, E)
    BY <1>1 DEF StartTask, CompleteTask, BlockTask
  <2>2. task[t] \notin {"none", "completed"} /\ to # "none"
    BY <2>1 DEF Transition
  <2>3. plan' \notin {"none", "completed"}
    BY <1>1, <2>1 DEF StartTask, CompleteTask, BlockTask, Transition, Resumed
  <2>4. task' = [task EXCEPT ![t] = to] /\ evidence' = [evidence EXCEPT ![t] = @ \cup E]
        /\ deps' = deps /\ removed' = removed /\ replans' = replans
        /\ plan \notin {"none", "completed"}
    BY <2>1 DEF Transition
  <2>5. Present' = Present /\ Completed \subseteq Completed'
    BY <2>2, <2>4
  <2>6. \A u \in Tasks : evidence[u] \subseteq evidence'[u]
    BY <2>4
  <2> QED BY <2>3, <2>4, <2>5, <2>6
<1>2. ASSUME NEW c \in Calls, LinkIssue(c)
      PROVE  /\ deps' = deps /\ removed' = removed /\ replans' = replans
             /\ evidence' = evidence
             /\ Present' = Present /\ Completed \subseteq Completed'
             /\ plan = "completed" => plan' = plan /\ task' = task
             /\ plan # "completed" => plan' # "completed"
             /\ plan' = "none" => plan = "none"
  BY <1>2, TargetType DEF LinkIssue, StartLinked, Resumed
<1>3. ASSUME NEW e \in Refs, RefChanges(e)
      PROVE  UNCHANGED <<plan, task, deps, evidence, removed, replans>>
  BY <1>3 DEF RefChanges
<1>4. CASE PlanStep
  BY <1>1, <1>3, <1>4 DEF PlanStep, PlanNext
<1>5. ASSUME NEW c \in Calls, CallStep(c), ~LinkIssue(c) PROVE UNCHANGED planVars
  BY <1>5 DEF CallStep, Confirm, Authorize, Replay, ClaimNew, ClaimStale, EndClaim,
              CreateIssue, FindIssue, Die
<1>6. CASE (\E t \in Tasks : LeaseEnds(t)) \/ UNCHANGED vars
           \/ \E g \in Grants : CreateRunGrant(g) \/ GrantEnds(g)
  BY <1>6 DEF LeaseEnds, CreateRunGrant, GrantEnds, vars, planVars
<1>7. ASSUME UNCHANGED planVars
      PROVE  UNCHANGED <<plan, task, deps, evidence, removed, replans>>
  BY <1>7 DEF planVars
<1> QED BY <1>2, <1>4, <1>5, <1>6, <1>7 DEF Next

\* A replan: the tasks of the new graph, what is gone and what stays.
LEMMA ReplanEffect ==
  ASSUME TypeOK, Replan
  PROVE  /\ GraphOK(Present', deps')
         /\ Completed' = Completed
         /\ Present \ Present' \subseteq removed' /\ removed \subseteq removed'
         /\ \A t \in Completed : deps'[t] = deps[t] /\ evidence'[t] = evidence[t]
         /\ plan \notin {"none", "completed"} /\ plan' \notin {"none", "completed"}
         /\ replans' # 0
<1> USE DEF TypeOK, PlanTypeOK
<1>0. \E gone \in SUBSET Changeable, new \in SUBSET (Tasks \ Present),
         d \in [Tasks -> SUBSET Tasks] :
        /\ (Present \ gone) \cup new # {}
        /\ \A t \in Tasks : t \notin new \cup (Changeable \ gone) =>
             d[t] = IF t \in gone THEN {} ELSE deps[t]
        /\ GraphOK((Present \ gone) \cup new, d)
        /\ deps' = d
        /\ task' = [t \in Tasks |-> IF t \in gone THEN "none"
                                    ELSE IF t \in new THEN "todo" ELSE task[t]]
        /\ evidence' = [t \in Tasks |-> IF t \in gone THEN {} ELSE evidence[t]]
        /\ removed' = removed \cup gone
  BY ZenonT(30) DEF Replan
<1>1. PICK gone \in SUBSET Changeable, new \in SUBSET (Tasks \ Present),
           d \in [Tasks -> SUBSET Tasks] :
        /\ (Present \ gone) \cup new # {}
        /\ \A t \in Tasks : t \notin new \cup (Changeable \ gone) =>
             d[t] = IF t \in gone THEN {} ELSE deps[t]
        /\ GraphOK((Present \ gone) \cup new, d)
        /\ deps' = d
        /\ task' = [t \in Tasks |-> IF t \in gone THEN "none"
                                    ELSE IF t \in new THEN "todo" ELSE task[t]]
        /\ evidence' = [t \in Tasks |-> IF t \in gone THEN {} ELSE evidence[t]]
        /\ removed' = removed \cup gone
  BY <1>0
<1>2. Present' = (Present \ gone) \cup new
  <2>1. gone \subseteq Present /\ new \cap Present = {} /\ new \subseteq Tasks
    BY DEF Changeable
  <2>2. \A t \in Tasks : task'[t] = IF t \in gone THEN "none"
                                  ELSE IF t \in new THEN "todo" ELSE task[t]
    BY <1>1
  <2> QED BY <2>1, <2>2 DEF Present
<1>3. Completed' = Completed
  BY <1>1 DEF Present, Completed, Changeable
<1>4. Completed \cap (new \cup Changeable) = {} /\ Completed \subseteq Tasks
  BY DEF Present, Completed, Changeable
<1>5. \A t \in Completed : deps'[t] = deps[t] /\ evidence'[t] = evidence[t]
  BY <1>1, <1>4
<1>6. /\ plan \notin {"none", "completed"} /\ plan' \notin {"none", "completed"}
      /\ replans' # 0
  BY DEF Replan, Resumed, PlanStates
<1> QED BY <1>1, <1>2, <1>3, <1>5, <1>6

\* A replan begins no task.
LEMMA ReplanTasks ==
  ASSUME TypeOK, Replan, NEW t \in Tasks
  PROVE  task'[t] \in {"none", "todo", task[t]}
<1>1. \E gone \in SUBSET Changeable, new \in SUBSET (Tasks \ Present) :
        task' = [u \in Tasks |-> IF u \in gone THEN "none"
                                 ELSE IF u \in new THEN "todo" ELSE task[u]]
  BY ZenonT(30) DEF Replan
<1> QED BY <1>1

\* No call makes a cycle.
LEMMA GraphStep == ASSUME TypeOK, Graph, [Next]_vars PROVE Graph'
<1>1. CASE Create
  <2>1. PICK S \in (SUBSET Tasks) \ {{}}, d \in [Tasks -> SUBSET Tasks] :
          /\ GraphOK(S, d) /\ deps' = d
          /\ task' = [t \in Tasks |-> IF t \in S THEN "todo" ELSE "none"]
    BY <1>1 DEF Create
  <2>2. Present' = S
    BY <2>1 DEF Present
  <2> QED BY <2>1, <2>2 DEF Graph
<1>2. CASE Replan
  BY <1>2, ReplanEffect DEF Graph
<1>3. CASE Deliver
  BY <1>3 DEF Deliver, Graph, Present
<1>4. CASE Present' = Present /\ deps' = deps
  BY <1>4 DEF Graph
<1> QED BY <1>1, <1>2, <1>3, <1>4, Moves

LEMMA BlankStep == ASSUME TypeOK, Blank, [Next]_vars PROVE Blank'
<1> USE DEF Blank
<1>1. CASE Create \/ Replan
  BY <1>1, ReplanEffect DEF Create
<1>2. CASE Deliver
  BY <1>2 DEF Deliver
<1>3. CASE Present' = Present /\ (plan' = "none" => plan = "none")
  BY <1>3
<1> QED BY <1>1, <1>2, <1>3, Moves

LEMMA DeliveredStep == ASSUME TypeOK, DeliveredIsDone, [Next]_vars PROVE DeliveredIsDone'
<1> USE DEF DeliveredIsDone
<1>1. CASE Create \/ Replan
  BY <1>1, ReplanEffect DEF Create
<1>2. CASE Deliver
  BY <1>2 DEF Deliver, Deliverable, Present, Completed
<1>3. CASE /\ Present' = Present /\ Completed \subseteq Completed'
           /\ (plan = "completed") = (plan' = "completed")
  BY <1>3
<1> QED BY <1>1, <1>2, <1>3, Moves

\* An open plan can go on: among the tasks that are not completed one waits for
\* none of them, and every task it waits for is one of the plan.
LEMMA GraphGoesOn == ASSUME TypeOK, Graph PROVE NeverStuck
<1> DEFINE Open == Present \ Completed
<1> SUFFICES ASSUME Open # {} PROVE \E t \in Open : Unlocked(t)
  BY DEF NeverStuck
<1>1. Open \in (SUBSET Present) \ {{}}
  OBVIOUS
<1>2. PICK t \in Open : deps[t] \cap Open = {}
  BY <1>1 DEF Graph, GraphOK
<1>3. deps[t] \subseteq Present
  BY DEF Graph, GraphOK
<1> QED BY <1>2, <1>3 DEF Unlocked

\* What is completed stays completed, with its dependencies and its evidence.
LEMMA FinalStep ==
  ASSUME TypeOK, Blank, [Next]_vars
  PROVE  \A t \in Completed :
           task'[t] = "completed" /\ deps'[t] = deps[t] /\ evidence[t] \subseteq evidence'[t]
<1> USE DEF TypeOK, PlanTypeOK
<1> SUFFICES ASSUME NEW t \in Completed
             PROVE  task'[t] = "completed" /\ deps'[t] = deps[t]
                    /\ evidence[t] \subseteq evidence'[t]
  OBVIOUS
<1>1. t \in Tasks /\ task[t] = "completed"
  BY DEF Completed
<1>2. CASE Replan
  BY <1>2, ReplanEffect DEF Completed
<1>3. CASE Deliver
  BY <1>1, <1>3 DEF Deliver
<1>4. CASE deps' = deps /\ Completed \subseteq Completed'
           /\ \A u \in Tasks : evidence[u] \subseteq evidence'[u]
  BY <1>1, <1>4 DEF Completed
<1>5. CASE Create
  BY <1>1, <1>5 DEF Create, Blank, Present
<1> QED BY <1>2, <1>3, <1>4, <1>5, Moves

\* A delivered plan has no open task.
THEOREM DeliveredCorrect == Spec => []DeliveredIsDone
<1>1. Init => DeliveredIsDone
  BY DEF Init, PlanInit, DeliveredIsDone
<1>2. TypeOK /\ DeliveredIsDone /\ [Next]_vars => DeliveredIsDone'
  BY DeliveredStep
<1> QED BY <1>1, <1>2, TypeCorrect, PTL DEF Spec

\* An open plan is never stuck, whatever it is replanned to.
THEOREM NeverStuckCorrect == Spec => []NeverStuck
<1>1. Init => Graph
  BY DEF Init, PlanInit, Graph, GraphOK, Present
<1>2. TypeOK /\ Graph /\ [Next]_vars => Graph'
  BY GraphStep
<1>3. TypeOK /\ Graph => NeverStuck
  BY GraphGoesOn
<1> QED BY <1>1, <1>2, <1>3, TypeCorrect, PTL DEF Spec

\* What is completed stays as it is.
THEOREM CompletedCorrect == Spec => CompletedIsFinal
<1>1. Init => Blank
  BY DEF Init, PlanInit, Blank, Present
<1>2. TypeOK /\ Blank /\ [Next]_vars => Blank'
  BY BlankStep
<1>3. TypeOK /\ Blank /\ [Next]_vars =>
        [\A t \in Completed :
           task'[t] = "completed" /\ deps'[t] = deps[t]
             /\ evidence[t] \subseteq evidence'[t]]_vars
  BY FinalStep
<1> QED BY <1>1, <1>2, <1>3, TypeCorrect, PTL DEF Spec, CompletedIsFinal

-----------------------------------------------------------------------------
\* Calls and the plan

\* A call starts work on a task that is ready for it; nothing of the plan changes.
LEMMA BusyStep ==
  ASSUME TypeOK, [Next]_vars, NEW c \in Calls, c \in Busy', c \notin Busy
  PROVE  Claimable(Target[c]) /\ UNCHANGED planVars
<1> USE DEF TypeOK, PC, Busy
<1>1. ASSUME NEW d \in Calls, ClaimNew(d) \/ ClaimStale(d)
      PROVE  Claimable(Target[c]) /\ UNCHANGED planVars
  <2>1. pc' = [pc EXCEPT ![d] = pc'[d]] /\ Claimable(Target[d]) /\ UNCHANGED planVars
    BY <1>1 DEF ClaimNew, ClaimStale
  <2>2. c = d
    BY <2>1
  <2> QED BY <2>1, <2>2
<1>2. ASSUME NEW d \in Calls, CallStep(d), ~ClaimNew(d), ~ClaimStale(d) PROVE FALSE
  <2>1. CASE Confirm(d) \/ \E g \in Grants, k \in Keys : Authorize(d, g, k)
    BY <2>1 DEF Confirm, Authorize, Enter
  <2>2. CASE Replay(d) \/ EndClaim(d) \/ Die(d)
    BY <2>2 DEF Replay, EndClaim, Die
  <2>3. CASE CreateIssue(d) \/ FindIssue(d)
    BY <2>3 DEF CreateIssue, FindIssue
  <2>4. CASE LinkIssue(d)
    BY <2>4 DEF LinkIssue
  <2> QED BY <1>2, <2>1, <2>2, <2>3, <2>4 DEF CallStep
<1>3. CASE UNCHANGED pc
  BY <1>3
<1>4. CASE PlanStep \/ (\E t \in Tasks : LeaseEnds(t)) \/ UNCHANGED vars
           \/ \E g \in Grants : CreateRunGrant(g) \/ GrantEnds(g)
  BY <1>3, <1>4 DEF PlanStep, LeaseEnds, CreateRunGrant, GrantEnds, vars, calls
<1> QED BY <1>1, <1>2, <1>4 DEF Next

\* No replan, and no other call, takes a dependency of a busy call's task back.
LEMMA ReadyStep == ASSUME TypeOK, Blank, Ready, [Next]_vars PROVE Ready'
<1> USE DEF Ready
<1>1. ASSUME NEW c \in Busy', c \notin Busy
      PROVE  plan' # "none" /\ Unlocked(Target[c])'
  <2>1. Claimable(Target[c]) /\ UNCHANGED planVars
    BY <1>1, BusyStep DEF Busy
  <2> QED BY <2>1 DEF Claimable, Unlocked, planVars, Completed
<1>2. ASSUME NEW c \in Busy', c \in Busy
      PROVE  plan' # "none" /\ (replans' = 0 => Unlocked(Target[c])')
  <2>1. plan # "none"
    BY <1>2
  <2>2. CASE Replan
    BY <2>2, ReplanEffect
  <2>3. CASE Deliver
    BY <1>2, <2>3 DEF Deliver, Unlocked, Completed
  <2>4. CASE /\ deps' = deps /\ replans' = replans /\ Completed \subseteq Completed'
             /\ (plan' = "none" => plan = "none")
    BY <1>2, <2>1, <2>4 DEF Unlocked
  <2>5. ~Create
    BY <2>1 DEF Create
  <2> QED BY <2>2, <2>3, <2>4, <2>5, Moves
<1> QED BY <1>1, <1>2

\* A task that begins has its dependencies completed.
LEMMA StartStep ==
  ASSUME TypeOK, Ready, [Next]_vars, replans = 0,
         NEW t \in Tasks, task[t] = "todo", task'[t] = "in_progress"
  PROVE  Unlocked(t)
<1> USE DEF TypeOK, PlanTypeOK
<1>1. CASE Create
  BY <1>1 DEF Create
<1>2. CASE Replan
  BY <1>2, ReplanTasks
<1>3. ASSUME NEW u \in Tasks, StartTask(u) \/ CompleteTask(u) \/ BlockTask(u)
      PROVE  Unlocked(t)
  BY <1>3 DEF StartTask, CompleteTask, BlockTask, Transition
<1>4. ASSUME NEW c \in Calls, LinkIssue(c) PROVE Unlocked(t)
  <2>1. t = Target[c]
    BY <1>4, TargetType DEF LinkIssue, StartLinked
  <2>2. c \in Busy
    BY <1>4 DEF LinkIssue, Busy
  <2> QED BY <2>1, <2>2 DEF Ready
<1>5. CASE Deliver \/ \E e \in Refs : RefChanges(e)
  BY <1>5 DEF Deliver, RefChanges
<1>6. ASSUME NEW c \in Calls, CallStep(c), ~LinkIssue(c) PROVE UNCHANGED task
  BY <1>6 DEF CallStep, Confirm, Authorize, Replay, ClaimNew, ClaimStale, EndClaim,
              CreateIssue, FindIssue, Die, planVars
<1>7. CASE (\E u \in Tasks : LeaseEnds(u)) \/ UNCHANGED vars
           \/ \E g \in Grants : CreateRunGrant(g) \/ GrantEnds(g)
  BY <1>7 DEF LeaseEnds, CreateRunGrant, GrantEnds, vars, planVars
<1> QED BY <1>1, <1>2, <1>3, <1>4, <1>5, <1>6, <1>7 DEF Next, PlanStep, PlanNext

\* Until the first replan, a task begins after what it depends on.
THEOREM StartsCorrect == Spec => StartsAfterDependencies
<1>1. Init => Blank /\ Ready
  BY DEF Init, PlanInit, Blank, Present, Ready, Busy
<1>2. TypeOK /\ Blank /\ Ready /\ [Next]_vars => Blank' /\ Ready'
  BY BlankStep, ReadyStep
<1>3. TypeOK /\ Ready /\ [Next]_vars =>
        [replans = 0 => \A t \in Tasks :
           task[t] = "todo" /\ task'[t] = "in_progress" => Unlocked(t)]_vars
  BY StartStep
<1> QED BY <1>1, <1>2, <1>3, TypeCorrect, PTL DEF Spec, StartsAfterDependencies

-----------------------------------------------------------------------------
\* One Issue

\* A task leaves its plan by a removal, which history keeps.
LEMMA Removal ==
  ASSUME TypeOK, Blank, [Next]_vars
  PROVE  Present \ Present' \subseteq removed' /\ removed \subseteq removed'
<1>1. CASE Create
  BY <1>1 DEF Create, Blank
<1>2. CASE Deliver
  BY <1>2 DEF Deliver, Present
<1> QED BY <1>1, <1>2, ReplanEffect, Moves

\* A call leaves claim, create and link once.
LEMMA HeldStep == ASSUME TypeOK, Held, [Next]_vars PROVE Held'
<1> USE DEF TypeOK, PC, Held
<1>1. CASE UNCHANGED <<pc, holds, issues>>
  BY <1>1
<1>2. CASE PlanStep \/ (\E t \in Tasks : LeaseEnds(t)) \/ UNCHANGED vars
           \/ \E g \in Grants : CreateRunGrant(g) \/ GrantEnds(g)
  BY <1>1, <1>2 DEF PlanStep, LeaseEnds, CreateRunGrant, GrantEnds, vars, calls
<1>3. ASSUME NEW c \in Calls, CreateIssue(c) PROVE Held'
  <2>1. \A d \in Calls \ {c} : pc'[d] = pc[d] /\ holds'[d] = holds[d]
                              /\ (d \in issues') = (d \in issues)
    BY <1>3 DEF CreateIssue
  <2>2. pc'[c] \in {"link", "done"} /\ (pc'[c] = "link" => holds'[c] = c /\ c \in issues')
    BY <1>3 DEF CreateIssue
  <2>3. issues \subseteq issues'
    BY <1>3 DEF CreateIssue
  <2> QED BY <2>1, <2>2, <2>3
<1>4. ASSUME NEW c \in Calls, FindIssue(c) PROVE Held'
  <2>1. \A d \in Calls \ {c} : pc'[d] = pc[d] /\ holds'[d] = holds[d]
    BY <1>4 DEF FindIssue
  <2>2. pc'[c] \in {"link", "done"} /\ issues' = issues
        /\ (pc'[c] = "link" => holds'[c] \in issues /\ Target[holds'[c]] = Target[c])
    BY <1>4 DEF FindIssue
  <2> QED BY <2>1, <2>2
<1>5. ASSUME NEW c \in Calls, CallStep(c), ~CreateIssue(c), ~FindIssue(c) PROVE Held'
  <2>1. /\ issues' = issues
        /\ \A d \in Calls \ {c} : pc'[d] = pc[d] /\ holds'[d] = holds[d]
        /\ pc'[c] # "link"
        /\ pc'[c] \in {"idle", "claim", "create"} => pc[c] \in {"idle", "claim"}
    <3>1. CASE Confirm(c) \/ \E g \in Grants, k \in Keys : Authorize(c, g, k)
      BY <3>1 DEF Confirm, Authorize, Enter
    <3>2. CASE Replay(c) \/ EndClaim(c) \/ Die(c)
      BY <3>2 DEF Replay, EndClaim, Die
    <3>3. CASE ClaimNew(c) \/ ClaimStale(c)
      BY <3>3 DEF ClaimNew, ClaimStale
    <3>4. CASE LinkIssue(c)
      BY <3>4 DEF LinkIssue
    <3> QED BY <1>5, <3>1, <3>2, <3>3, <3>4 DEF CallStep
  <2> QED BY <2>1
<1> QED BY <1>2, <1>3, <1>4, <1>5 DEF Next

\* A step that makes no new maker and leaves the rows alone.
LEMMA QuietStep ==
  ASSUME Sole, Claimed, UNCHANGED <<link, issueOf, issues>>, Present' = Present,
         removed' = removed,
         \A c \in Calls : pc'[c] = "create" => pc[c] = "create"
  PROVE  Sole' /\ Claimed'
<1>1. \A t \in Tasks : Makers(t)' \subseteq Makers(t)
  BY DEF Makers
<1>2. Sole'
  BY <1>1 DEF Sole
<1>3. Claimed'
  BY DEF Claimed
<1> QED BY <1>2, <1>3

\* Who may create the Issue of a task, or has, made its row: only the first call
\* finds none.
LEMMA SoleStep ==
  ASSUME TypeOK, Blank, Held, Sole, Claimed, [Next]_vars
  PROVE  Sole' /\ Claimed'
<1> USE TargetType DEF TypeOK, PC
<1>1. CASE PlanStep
  <2>1. UNCHANGED <<pc, issues>>
    BY <1>1 DEF PlanStep, calls
  <2>2. \A t \in Tasks : Makers(t)' = Makers(t)
    BY <2>1 DEF Makers
  <2>3. Present \ Present' \subseteq removed' /\ removed \subseteq removed'
    BY Removal
  <2>4. Sole'
    BY <2>2, <2>3 DEF Sole
  <2>5. \A t \in Tasks : link'[t] = (IF task'[t] = "none" THEN "none" ELSE link[t])
                        /\ (task'[t] # "none" => issueOf'[t] = issueOf[t])
    BY <1>1 DEF PlanStep
  <2>6. \A t \in Tasks \ removed' : task'[t] = "none" => link[t] = "none"
    BY <2>3 DEF Claimed, Present
  <2>7. Claimed'
    BY <2>1, <2>3, <2>5, <2>6 DEF Claimed, Present
  <2> QED BY <2>4, <2>7
<1>2. ASSUME NEW c \in Calls, ClaimNew(c) PROVE Sole' /\ Claimed'
  <2> DEFINE t == Target[c]
  <2>1. /\ link[t] = "none" /\ t \in Present /\ link' = [link EXCEPT ![t] = "creating"]
        /\ pc' = [pc EXCEPT ![c] = "create"]
        /\ UNCHANGED <<issues, issueOf, removed, task>>
    BY <1>2 DEF ClaimNew, planVars
  <2>2. t \notin removed => Makers(t) = {}
    BY <2>1 DEF Claimed, Makers
  <2>3. \A u \in Tasks : Makers(u)' \subseteq Makers(u) \cup (IF u = t THEN {c} ELSE {})
    BY <2>1 DEF Makers
  <2>4. Sole'
    BY <2>1, <2>2, <2>3 DEF Sole
  <2>5. Present' = Present
    BY <2>1 DEF Present
  <2>6. \A u \in Tasks \ {t} : link'[u] = link[u]
    BY <2>1
  <2>7. link'[t] = "creating" /\ t \in Tasks
    BY <2>1
  <2>8. \A d \in Calls \ {c} : pc'[d] = pc[d]
    BY <2>1
  <2>9. Claimed'
    BY <2>1, <2>5, <2>6, <2>7, <2>8 DEF Claimed
  <2> QED BY <2>4, <2>9
<1>3. ASSUME NEW c \in Calls, CreateIssue(c) PROVE Sole' /\ Claimed'
  <2>1. /\ pc[c] = "create" /\ issues' \subseteq issues \cup {c}
        /\ \A d \in Calls : pc'[d] = "create" => pc[d] = "create"
        /\ UNCHANGED <<link, issueOf, removed, task>>
    BY <1>3 DEF CreateIssue, planVars, rows
  <2>2. \A u \in Tasks : Makers(u)' \subseteq Makers(u)
    BY <2>1 DEF Makers
  <2>3. Sole'
    BY <2>1, <2>2 DEF Sole
  <2>4. Present' = Present
    BY <2>1 DEF Present
  <2>5. Claimed'
    BY <2>1, <2>4 DEF Claimed
  <2> QED BY <2>3, <2>5
<1>4. ASSUME NEW c \in Calls, LinkIssue(c) PROVE Sole' /\ Claimed'
  <2> DEFINE t == Target[c]
  <2>1. /\ pc[c] = "link" /\ pc' = [pc EXCEPT ![c] = "done"]
        /\ UNCHANGED <<issues, removed>>
    BY <1>4 DEF LinkIssue
  <2>2. Present' = Present
    BY <1>4 DEF LinkIssue, StartLinked, Present, PlanTypeOK
  <2>3. \A d \in Calls : pc'[d] = "create" => pc[d] = "create" /\ d # c
    BY <2>1
  <2>4. CASE UNCHANGED <<link, issueOf>>
    BY <2>1, <2>2, <2>3, <2>4, QuietStep
  <2>5. CASE /\ t \in Present
             /\ link' = [link EXCEPT ![t] = "dispatched"]
             /\ issueOf' = [issueOf EXCEPT ![t] = holds[c]]
    <3>1. \A u \in Tasks : Makers(u)' \subseteq Makers(u)
      BY <2>1, <2>3 DEF Makers
    <3>2. Sole'
      BY <2>1, <3>1 DEF Sole
    <3>3. holds[c] \in Makers(t)
      BY <2>1 DEF Held, Makers
    <3>4. \A d \in Calls : Target[d] = t /\ t \notin removed =>
            pc[d] # "create" /\ (d \in issues => d = holds[c])
      BY <2>1, <3>3 DEF Sole, Makers, Held
    <3>5. link'[t] = "dispatched" /\ issueOf'[t] = holds[c]
      BY <2>5
    <3>6. \A u \in Tasks \ {t} : link'[u] = link[u] /\ issueOf'[u] = issueOf[u]
      BY <2>5
    <3>7. Claimed'
      BY <2>1, <2>2, <2>3, <2>5, <3>4, <3>5, <3>6 DEF Claimed
    <3> QED BY <3>2, <3>7
  <2> QED BY <1>4, <2>4, <2>5 DEF LinkIssue
<1>5. ASSUME NEW c \in Calls, CallStep(c), ~ClaimNew(c), ~CreateIssue(c), ~LinkIssue(c)
      PROVE  Sole' /\ Claimed'
  <2>1. /\ UNCHANGED <<link, issueOf, issues, task, removed>>
        /\ \A d \in Calls : pc'[d] = "create" => pc[d] = "create"
    <3>1. CASE Confirm(c) \/ \E g \in Grants, k \in Keys : Authorize(c, g, k)
      BY <3>1 DEF Confirm, Authorize, Enter, planVars, rows
    <3>2. CASE Replay(c) \/ EndClaim(c) \/ Die(c)
      BY <3>2 DEF Replay, EndClaim, Die, planVars, rows
    <3>3. CASE ClaimStale(c) \/ FindIssue(c)
      BY <3>3 DEF ClaimStale, FindIssue, planVars, rows
    <3> QED BY <1>5, <3>1, <3>2, <3>3 DEF CallStep
  <2> QED BY <2>1, QuietStep DEF Present
<1>6. CASE (\E t \in Tasks : LeaseEnds(t)) \/ UNCHANGED vars
           \/ \E g \in Grants : CreateRunGrant(g) \/ GrantEnds(g)
  <2>1. UNCHANGED <<link, issueOf, issues, task, removed, pc>>
    BY <1>6 DEF LeaseEnds, CreateRunGrant, GrantEnds, vars, planVars, calls, rows
  <2> QED BY <2>1, QuietStep DEF Present
<1> QED BY <1>1, <1>2, <1>3, <1>4, <1>5, <1>6 DEF Next

LEMMA SoleIssue == ASSUME TypeOK, Sole, Claimed PROVE OneIssue
<1> SUFFICES ASSUME NEW t \in Tasks \ removed
             PROVE  /\ Cardinality(IssuesOf(t)) <= 1
                    /\ \A i \in IssuesOf(t) : link[t] = "creating"
                         \/ (link[t] = "dispatched" /\ issueOf[t] = i)
  BY DEF OneIssue
<1>1. IssuesOf(t) \subseteq Makers(t)
  BY DEF IssuesOf, Makers, TypeOK
<1>2. IssuesOf(t) = {} \/ \E i : IssuesOf(t) = {i}
  BY <1>1 DEF Sole
<1>3. Cardinality(IssuesOf(t)) \in {0, 1}
  <2>1. Cardinality({}) = 0 /\ \A i : Cardinality({i}) = 1
    BY FS_EmptySet, FS_Singleton, Zenon
  <2> QED BY <1>2, <2>1
<1> QED BY <1>3 DEF Claimed, IssuesOf, TypeOK

\* A task that stays has one Issue at most, and its row leads to it.
THEOREM OneIssueCorrect == Spec => []OneIssue
<1>1. Init => Blank /\ Held /\ Sole /\ Claimed
  BY DEF Init, PlanInit, Blank, Present, Held, Sole, Makers, Claimed
<1>2. TypeOK /\ Blank /\ Held /\ Sole /\ Claimed /\ [Next]_vars
        => Blank' /\ Held' /\ Sole' /\ Claimed'
  BY BlankStep, HeldStep, SoleStep
<1>3. TypeOK /\ Sole /\ Claimed => OneIssue
  BY SoleIssue
<1> QED BY <1>1, <1>2, <1>3, TypeCorrect, PTL DEF Spec

-----------------------------------------------------------------------------
\* Authorization

\* What a call does under a grant, it has noted as a use of its key.
Used ==
  \A c \in Calls :
    /\ pc[c] = "idle" => by[c] = 0
    /\ by[c] # 0 => key[c] \in Keys /\ <<by[c], Target[c], key[c]>> \in uses

\* The tasks whose Issue was created under a grant, or may still be: as long as
\* a task is not dispatched, a key that was used for it was charged.
Charged(g) ==
  {t \in Tasks \ removed :
     \/ link[t] # "dispatched" /\ \E k \in Keys : <<g, t, k>> \in uses
     \/ \E c \in issues : Target[c] = t /\ by[c] = g}

Paid == \A g \in Grants : IsFiniteSet(Charged(g)) /\ Cardinality(Charged(g)) <= attempts[g]

\* A call authorizes itself once, and notes the use with it.
LEMMA UsedStep == ASSUME TypeOK, Used, [Next]_vars PROVE Used'
<1> USE TargetType DEF TypeOK, PC, Used
<1>1. CASE UNCHANGED <<pc, by, key, uses>>
  BY <1>1
<1>2. CASE PlanStep \/ (\E t \in Tasks : LeaseEnds(t)) \/ UNCHANGED vars
           \/ \E g \in Grants : CreateRunGrant(g) \/ GrantEnds(g)
  BY <1>1, <1>2 DEF PlanStep, LeaseEnds, CreateRunGrant, GrantEnds, vars, calls, grants
<1>3. ASSUME NEW c \in Calls, NEW k \in Keys, Enter(c, k), UNCHANGED <<by, uses>> PROVE Used'
  BY <1>3 DEF Enter
<1>4. ASSUME NEW c \in Calls, NEW g \in Grants, NEW k \in Keys, Authorize(c, g, k) PROVE Used'
  <2>1. /\ pc' = [pc EXCEPT ![c] = "claim"] /\ key' = [key EXCEPT ![c] = k] /\ by' = [by EXCEPT ![c] = g]
        /\ uses' = uses \cup {<<g, Target[c], k>>}
    BY <1>4 DEF Authorize, Enter
  <2>2. \A d \in Calls \ {c} : pc'[d] = pc[d] /\ by'[d] = by[d] /\ key'[d] = key[d]
    BY <2>1
  <2>3. pc'[c] = "claim" /\ by'[c] = g /\ key'[c] = k
    BY <2>1
  <2> QED
    BY <2>1, <2>2, <2>3
<1>5. ASSUME NEW c \in Calls, CallStep(c), ~Confirm(c), ~\E g \in Grants, k \in Keys : Authorize(c, g, k) PROVE Used'
  <2>1. UNCHANGED <<by, key, uses>> /\ \A d \in Calls : pc'[d] = "idle" => pc[d] = "idle"
    <3>1. CASE Replay(c) \/ EndClaim(c) \/ Die(c)
      BY <3>1 DEF Replay, EndClaim, Die, grants
    <3>2. CASE ClaimNew(c) \/ ClaimStale(c)
      BY <3>2 DEF ClaimNew, ClaimStale, grants
    <3>3. CASE CreateIssue(c) \/ FindIssue(c) \/ LinkIssue(c)
      BY <3>3 DEF CreateIssue, FindIssue, LinkIssue, grants
    <3> QED
      BY <1>5, <3>1, <3>2, <3>3 DEF CallStep
  <2> QED
    BY <2>1
<1> QED
  BY <1>2, <1>3, <1>4, <1>5 DEF Next, Confirm, CallStep, grants

\* No step but an attempt adds to what a grant is charged for.
LEMMA ChargedStep ==
  ASSUME TypeOK, Blank, Held, Claimed, Used, [Next]_vars, NEW g \in Grants
  PROVE  \/ Charged(g)' \subseteq Charged(g) /\ attempts'[g] = attempts[g]
         \/ \E t \in Tasks : Charged(g)' \subseteq Charged(g) \cup {t} /\ attempts'[g] = attempts[g] + 1
<1> DEFINE Goal == \/ Charged(g)' \subseteq Charged(g) /\ attempts'[g] = attempts[g]
                   \/ \E t \in Tasks : Charged(g)' \subseteq Charged(g) \cup {t} /\ attempts'[g] = attempts[g] + 1
<1> USE TargetType DEF TypeOK, PC
\* A step that creates no Issue, dispatches or removes tasks at most.
<1>1. ASSUME removed \subseteq removed', UNCHANGED <<uses, by, issues, attempts>>,
             \A t \in Tasks \ removed' : link[t] = "dispatched" => link'[t] = "dispatched"
      PROVE  Goal
  BY <1>1 DEF Charged
<1>2. ASSUME PlanStep PROVE Goal
  <2>1. Present \ Present' \subseteq removed' /\ removed \subseteq removed'
    BY Removal
  <2>2. UNCHANGED <<uses, by, issues, attempts>>
    BY <1>2 DEF PlanStep, calls, grants
  <2>3. \A t \in Tasks \ removed' : link[t] = "dispatched" => link'[t] = "dispatched"
    <3>1. \A t \in Tasks : link'[t] = (IF task'[t] = "none" THEN "none" ELSE link[t])
      BY <1>2 DEF PlanStep
    <3>2. \A t \in Tasks \ removed' : task'[t] = "none" => link[t] = "none"
      BY <2>1 DEF Claimed, Present
    <3> QED
      BY <3>1, <3>2
  <2> QED
    BY <1>1, <2>1, <2>2, <2>3
<1>3. ASSUME NEW c \in Calls, NEW h \in Grants, NEW k \in Keys, Authorize(c, h, k) PROVE Goal
  <2> DEFINE t == Target[c]
             use == <<h, t, k>>
  <2>1. /\ pc[c] = "idle" /\ uses' = uses \cup {use} /\ by' = [by EXCEPT ![c] = h]
        /\ UNCHANGED <<link, issues, removed>>
    BY <1>3 DEF Authorize, Enter, rows, planVars
  <2>2. c \notin issues
    BY <2>1 DEF Held
  <2>3. \A d \in issues : by'[d] = by[d]
    BY <2>1, <2>2
  <2>4. Charged(g)' \subseteq Charged(g) \cup {t}
    BY <2>1, <2>3 DEF Charged
  <2>5. h # g \/ use \in uses \/ link[t] = "dispatched" => Charged(g)' \subseteq Charged(g)
    BY <2>1, <2>3 DEF Charged
  <2>6. \/ attempts' = attempts /\ (use \in uses \/ link[t] = "dispatched")
        \/ attempts' = [attempts EXCEPT ![h] = @ + 1]
    BY <1>3 DEF Authorize, Replayed
  <2>7. CASE attempts' = attempts /\ (use \in uses \/ link[t] = "dispatched")
    BY <2>5, <2>7
  <2>8. CASE attempts' = [attempts EXCEPT ![h] = @ + 1]
    <3>1. CASE h = g
      BY <2>4, <2>8, <3>1
    <3>2. CASE h # g
      BY <2>5, <2>8, <3>2
    <3> QED
      BY <3>1, <3>2
  <2> QED
    BY <2>6, <2>7, <2>8
<1>4. ASSUME NEW c \in Calls, CreateIssue(c) PROVE Goal
  <2>1. pc[c] = "create" /\ issues' \subseteq issues \cup {c} /\ UNCHANGED <<link, removed, by, uses, attempts>>
    BY <1>4 DEF CreateIssue, rows, grants, planVars
  <2>2. Target[c] \notin removed => link[Target[c]] = "creating"
    BY <2>1 DEF Claimed
  <2>3. by[c] = g => \E k \in Keys : <<g, Target[c], k>> \in uses
    BY DEF Used, Grants
  <2> QED
    BY <2>1, <2>2, <2>3 DEF Charged
<1>5. ASSUME NEW c \in Calls, ClaimNew(c) PROVE Goal
  <2>1. link' = [link EXCEPT ![Target[c]] = "creating"] /\ link[Target[c]] = "none"
        /\ UNCHANGED <<uses, by, issues, attempts, removed>>
    BY <1>5 DEF ClaimNew, planVars, grants
  <2> QED
    BY <1>1, <2>1
<1>6. ASSUME NEW c \in Calls, LinkIssue(c) PROVE Goal
  <2>1. UNCHANGED <<uses, by, issues, attempts, removed>> /\ link' \in {link, [link EXCEPT ![Target[c]] = "dispatched"]}
    BY <1>6 DEF LinkIssue, grants
  <2> QED
    BY <1>1, <2>1
<1>7. ASSUME NEW c \in Calls, Confirm(c) \/ Replay(c) \/ ClaimStale(c) \/ EndClaim(c) \/ FindIssue(c) \/ Die(c) PROVE Goal
  <2>1. UNCHANGED <<uses, by, issues, attempts, removed, link>>
    BY <1>7 DEF Confirm, Replay, ClaimStale, EndClaim, FindIssue, Die, planVars, rows, grants
  <2> QED
    BY <1>1, <2>1
<1>8. ASSUME (\E t \in Tasks : LeaseEnds(t)) \/ UNCHANGED vars \/ \E h \in Grants : CreateRunGrant(h) \/ GrantEnds(h)
      PROVE  Goal
  <2>1. UNCHANGED <<uses, by, issues, attempts, removed, link>>
    BY <1>8 DEF LeaseEnds, CreateRunGrant, GrantEnds, vars, planVars, calls, rows, grants
  <2> QED
    BY <1>1, <2>1
<1> HIDE DEF Goal
<1>9. ASSUME NEW c \in Calls, CallStep(c) PROVE Goal
  <2>1. CASE \E h \in Grants, k \in Keys : Authorize(c, h, k)
    BY <1>3, <2>1
  <2> QED
    BY <1>4, <1>5, <1>6, <1>7, <1>9, <2>1 DEF CallStep
<1>10. Goal
  BY <1>2, <1>8, <1>9, Zenon DEF Next
<1> QED
  BY <1>10 DEF Goal

\* What a grant is charged for stays within its attempts.
LEMMA PaidStep ==
  ASSUME TypeOK, Blank, Held, Claimed, Used, Paid, [Next]_vars PROVE Paid'
<1> SUFFICES ASSUME NEW g \in Grants
             PROVE  IsFiniteSet(Charged(g)') /\ Cardinality(Charged(g)') <= attempts'[g]
  BY DEF Paid
<1> DEFINE old == Charged(g)
           new == Charged(g)'
<1>1. IsFiniteSet(old) /\ Cardinality(old) \in Nat /\ Cardinality(old) <= attempts[g]
  BY FS_CardinalityType DEF Paid
<1>2. attempts[g] \in Nat
  BY DEF TypeOK
<1>3. \/ new \subseteq old /\ attempts'[g] = attempts[g]
      \/ \E t \in Tasks : new \subseteq old \cup {t} /\ attempts'[g] = attempts[g] + 1
  BY ChargedStep
<1> HIDE DEF old, new
<1>4. CASE new \subseteq old /\ attempts'[g] = attempts[g]
  <2>1. IsFiniteSet(new) /\ Cardinality(new) <= Cardinality(old) /\ Cardinality(new) \in Nat
    BY <1>1, <1>4, FS_Subset, FS_CardinalityType
  <2> QED
    BY <1>1, <1>2, <1>4, <2>1 DEF new
<1>5. ASSUME NEW t \in Tasks, new \subseteq old \cup {t}, attempts'[g] = attempts[g] + 1
      PROVE  IsFiniteSet(Charged(g)') /\ Cardinality(Charged(g)') <= attempts'[g]
  <2>1. IsFiniteSet(old \cup {t}) /\ Cardinality(old \cup {t}) \in {Cardinality(old), Cardinality(old) + 1}
    BY <1>1, FS_AddElement
  <2>2. IsFiniteSet(new) /\ Cardinality(new) <= Cardinality(old \cup {t}) /\ Cardinality(new) \in Nat
    BY <1>5, <2>1, FS_Subset, FS_CardinalityType
  <2> QED
    BY <1>1, <1>2, <1>5, <2>1, <2>2 DEF new
<1> QED
  BY <1>3, <1>4, <1>5 DEF new

\* The Issues of a grant are of different tasks, each of which it was charged for.
LEMMA PaidIssues == ASSUME TypeOK, Sole, Paid PROVE DispatchAuthorized
<1> SUFFICES ASSUME NEW g \in Grants
             PROVE  Cardinality({i \in issues : by[i] = g /\ Target[i] \notin removed}) <= attempts[g]
  BY DEF DispatchAuthorized
<1> DEFINE made == {i \in issues : by[i] = g /\ Target[i] \notin removed}
           task1 == [i \in made |-> Target[i]]
<1>1. made \subseteq Calls /\ \A i \in made : Target[i] \in Charged(g)
  BY TargetType DEF TypeOK, Charged
<1>2. \A i, j \in made : Target[i] = Target[j] => i = j
  BY <1>1, TargetType DEF Sole, Makers
<1>3. task1 \in Injection(made, Charged(g))
  BY <1>1, <1>2 DEF Injection, IsInjective
<1>4. IsFiniteSet(Charged(g)) /\ Cardinality(Charged(g)) <= attempts[g]
  BY DEF Paid
<1> HIDE DEF made, task1
<1>5. IsFiniteSet(made) /\ Cardinality(made) <= Cardinality(Charged(g))
  BY <1>3, <1>4, FS_Injection
<1>6. Cardinality(made) \in Nat /\ Cardinality(Charged(g)) \in Nat /\ attempts[g] \in Nat
  BY <1>4, <1>5, FS_CardinalityType DEF TypeOK
<1> QED
  BY <1>4, <1>5, <1>6 DEF made

\* The Issues the user did not confirm never exceed the attempts of their grant,
\* whatever calls retry, die, take over or use a key again (AuthorizeRunGrantUse).
THEOREM AuthorizedCorrect == Spec => []DispatchAuthorized
<1>1. Init => Blank /\ Held /\ Sole /\ Claimed /\ Used /\ Paid
  <2> SUFFICES ASSUME Init PROVE Blank /\ Held /\ Sole /\ Claimed /\ Used /\ Paid
    OBVIOUS
  <2>1. Blank /\ Held /\ Sole /\ Claimed /\ Used
    BY DEF Init, PlanInit, Blank, Present, Held, Sole, Makers, Claimed, Used
  <2>2. \A g \in Grants : Charged(g) = {} /\ attempts[g] = 0
    BY DEF Init, Charged
  <2>3. IsFiniteSet({}) /\ Cardinality({}) = 0
    BY FS_EmptySet
  <2>4. Paid
    BY <2>2, <2>3 DEF Paid
  <2> QED
    BY <2>1, <2>4
<1>2. TypeOK /\ Blank /\ Held /\ Sole /\ Claimed /\ Used /\ Paid /\ [Next]_vars
        => Blank' /\ Held' /\ Sole' /\ Claimed' /\ Used' /\ Paid'
  BY BlankStep, HeldStep, SoleStep, UsedStep, PaidStep
<1>3. TypeOK /\ Sole /\ Paid => DispatchAuthorized
  BY PaidIssues
<1> QED BY <1>1, <1>2, <1>3, TypeCorrect, PTL DEF Spec

-----------------------------------------------------------------------------
(* The browser tool: BrowserInv is inductive. *)

Lines == DOMAIN lines
Work(c) == {<<c, "run">>, <<c, "again">>}

\* A request that was sent is of the call that waits for it, or of one that has
\* ended or goes on without the URL.
Issued(c, at) ==
  \/ browserCall[c].step = at /\ browserCall[c].sent
  \/ browserCall[c].step = "done"
  \/ at = "before" /\ browserCall[c].step \notin {"inspect", "look", "before"}

\* One call at a time waits.
InTurn ==
  /\ \A c \in BrowserCalls :
       (browserCall[c].sent <=> inService = c) /\ (browserCall[c].sent => browserCall[c].step \in Executes)
  /\ inService # Nobody => request \in {<<>>, <<inService, browserCall[inService].step>>}

\* Every request has one answer at most, and one that nobody waits for is not
\* asked beside another.
AnsweredOnce ==
  /\ \A c \in BrowserCalls, at \in Executes :
       /\ request = <<c, at>> => Issued(c, at)
       /\ \A i \in Lines : lines[i].of = <<c, at>> => Issued(c, at) /\ request # <<c, at>>
  /\ \A i, j \in Lines : lines[i].of = lines[j].of => i = j \/ lines[i].of = <<>>
  /\ \A c \in BrowserCalls : request \in Work(c) => \A i \in Lines : lines[i].of \notin Work(c)

\* What a command is answered with is an outcome.
OutcomesTold == \A c \in BrowserCalls, i \in Lines : lines[i].of \in Work(c) => lines[i].what \in BrowserOutcomes

\* What was carried out, as the steps of a call and the answers on their way say.
Counted ==
  \A c \in BrowserCalls :
    /\ performed[c] \in {0, 1}
    /\ browserCall[c].step \in {"inspect", "look", "before", "close"} => performed[c] = 0
    /\ browserCall[c].step \in {"run", "again"} /\ ~browserCall[c].sent => performed[c] = 0
    /\ request \in Work(c) => performed[c] = 0
    /\ \A i \in Lines :
         lines[i].of \in Work(c) =>
           (lines[i].what = "ok" => performed[c] = 1) /\ (lines[i].what = "detached" => performed[c] = 0)
    /\ browserCall[c].step = "consume" /\ browserCall[c].result = "ok" => performed[c] = 1

\* A tab has the URL a call has seen there, unless the call or another changed it.
Own(c) == performed[c] = 1 \/ c \in crossed
SeenBy(c) ==
  /\ browserCall[c].before # Nobody =>
       /\ browserCall[c].step \notin {"inspect", "look", "before"}
       /\ Own(c) \/ tab[browserCall[c].instance] = browserCall[c].before
  /\ browserCall[c].step = "before" =>
       \A i \in Lines : lines[i].of = <<c, "before">> => lines[i].what \in {"refused", tab[browserCall[c].instance]}
  /\ \A i \in Lines :
       lines[i].of = <<c, "after">> => Own(c) \/ lines[i].what \in {"refused", browserCall[c].before}
  /\ browserCall[c].step \in {"after", "judge"} \/ request = <<c, "after">> => browserCall[c].before # Nobody
  /\ browserCall[c].step \notin {"inspect", "done"} \/ browserCall[c].before # Nobody => browserCall[c].instance \in Instances
  /\ browserCall[c].step = "judge" => Own(c) \/ browserCall[c].after \in {Nobody, browserCall[c].before}
Seen == \A c \in BrowserCalls : SeenBy(c)

\* The child knows of a permission what the user has given.
Permits ==
  /\ child.granted \subseteq permitted
  /\ \A c \in BrowserCalls : browserCall[c].approval # Nobody => BrowserSession[c] \in permitted

BrowserInv == BrowserTypeOK /\ InTurn /\ AnsweredOnce /\ OutcomesTold /\ Counted /\ Seen /\ Permits /\ SuccessIsOwn /\ OnlyPermitted
-----------------------------------------------------------------------------
(* The pipe as a sequence. *)

LineRecords == [of : Ids \cup {<<>>}, what : Told]

LEMMA FirstLine ==
  ASSUME NEW S, lines \in Seq(S), lines # <<>>
  PROVE  1 \in DOMAIN lines /\ Head(lines) = lines[1] /\ lines[1] \in S
  OBVIOUS

LEMMA FirstLineRead ==
  ASSUME NEW S, lines \in Seq(S), lines # <<>>, lines' = Tail(lines)
  PROVE  /\ 1 \in DOMAIN lines /\ Head(lines) = lines[1] /\ lines' \in Seq(S)
         /\ \A i \in DOMAIN lines' : i + 1 \in DOMAIN lines /\ i + 1 # 1 /\ lines'[i] = lines[i + 1] /\ i \in Nat
  OBVIOUS

LEMMA LineWritten ==
  ASSUME NEW S, NEW line \in S, lines \in Seq(S), lines' = Append(lines, line)
  PROVE  /\ lines' \in Seq(S)
         /\ \A i \in DOMAIN lines' : \/ i \in DOMAIN lines /\ lines'[i] = lines[i]
                                     \/ i = Len(lines) + 1 /\ i \notin DOMAIN lines /\ lines'[i] = line
         /\ \A i \in DOMAIN lines : i \in DOMAIN lines' /\ lines'[i] = lines[i]
  OBVIOUS

LEMMA NothingWritten == lines' = <<>> => DOMAIN lines' = {} /\ \A S : lines' \in Seq(S)
  OBVIOUS

-----------------------------------------------------------------------------
(* What a step does to the call it is of. *)

CallRecords ==
  [step : BrowserSteps, sent : BOOLEAN, instance : Instances \cup {Nobody}, result : BrowserResults,
   approval : BrowserCalls \cup {Nobody}, before : Told \cup {Nobody}, after : Told \cup {Nobody}]

\* No other call moves.
OnlyCall(c) ==
  /\ browserCall' \in [BrowserCalls -> CallRecords]
  /\ \A o \in BrowserCalls \ {c} : browserCall'[o] = browserCall[o]

Comes(c, step, sent, result) ==
  browserCall'[c].step = step /\ browserCall'[c].sent = sent /\ browserCall'[c].result = result

\* What a call works with.
SamePlace(c) == browserCall'[c].instance = browserCall[c].instance
SameApproval(c) == browserCall'[c].approval = browserCall[c].approval
SameUrls(c) == browserCall'[c].before = browserCall[c].before /\ browserCall'[c].after = browserCall[c].after
SameWork(c) == SamePlace(c) /\ SameApproval(c) /\ SameUrls(c)

ChildRecords == [state : {"none", "up", "dead"}, granted : SUBSET BrowserSessions]

LEMMA NewChild == NoChild \in ChildRecords /\ [state |-> "up", granted |-> {}] \in ChildRecords
  BY DEF NoChild, ChildRecords

LEMMA CallPut ==
  ASSUME BrowserTypeOK, NEW c \in BrowserCalls, NEW next \in CallRecords, PutCall(c, next)
  PROVE  OnlyCall(c) /\ browserCall'[c] = next
  BY DEF BrowserTypeOK, CallRecords, PutCall, OnlyCall

LEMMA CallGoes ==
  ASSUME BrowserTypeOK, NEW c \in BrowserCalls, NEW step \in BrowserSteps, GoesTo(c, step)
  PROVE  OnlyCall(c) /\ Comes(c, step, FALSE, browserCall[c].result) /\ SameWork(c)
<1> DEFINE next == [browserCall[c] EXCEPT !.step = step, !.sent = FALSE]
<1>1. browserCall[c] \in CallRecords
  BY DEF BrowserTypeOK, CallRecords
<1>2. next \in CallRecords
  BY <1>1 DEF CallRecords
<1>3. /\ next.step = step /\ next.sent = FALSE /\ next.result = browserCall[c].result
      /\ next.instance = browserCall[c].instance /\ next.approval = browserCall[c].approval
      /\ next.before = browserCall[c].before /\ next.after = browserCall[c].after
  BY <1>1 DEF CallRecords
<1>4. PutCall(c, next)
  BY DEF GoesTo
<1> HIDE DEF next
<1> QED
  BY <1>2, <1>3, <1>4, CallPut DEF Comes, SameWork, SamePlace, SameApproval, SameUrls

LEMMA CallDone ==
  ASSUME BrowserTypeOK, NEW c \in BrowserCalls, NEW result \in BrowserResults, CallEnds(c, result)
  PROVE  OnlyCall(c) /\ Comes(c, "done", FALSE, result) /\ SameWork(c)
<1> DEFINE next == [browserCall[c] EXCEPT !.step = "done", !.sent = FALSE, !.result = result]
<1>1. browserCall[c] \in CallRecords
  BY DEF BrowserTypeOK, CallRecords
<1>2. next \in CallRecords
  BY <1>1 DEF CallRecords, BrowserSteps
<1>3. /\ next.step = "done" /\ next.sent = FALSE /\ next.result = result
      /\ next.instance = browserCall[c].instance /\ next.approval = browserCall[c].approval
      /\ next.before = browserCall[c].before /\ next.after = browserCall[c].after
  BY <1>1 DEF CallRecords
<1>4. PutCall(c, next)
  BY DEF CallEnds
<1> HIDE DEF next
<1> QED
  BY <1>2, <1>3, <1>4, CallPut DEF Comes, SameWork, SamePlace, SameApproval, SameUrls

\* A command that failed: the call goes on without the URL, or ends.
Fails(c) ==
  /\ OnlyCall(c) /\ SameWork(c)
  /\ \/ browserCall[c].step = "before" /\ Comes(c, "run", FALSE, browserCall[c].result)
     \/ browserCall[c].step # "before" /\ Comes(c, "done", FALSE, "error")

LEMMA ExecuteFails ==
  ASSUME BrowserTypeOK, NEW c \in BrowserCalls, FailedExecute(c)
  PROVE  Fails(c)
<1>1. "run" \in BrowserSteps /\ "error" \in BrowserResults
  BY DEF BrowserSteps, Executes, BrowserResults
<1> QED
  BY <1>1, CallGoes, CallDone DEF FailedExecute, Fails

LEMMA InspectDoes ==
  ASSUME BrowserTypeOK, NEW c \in BrowserCalls, Inspect(c)
  PROVE  /\ browserCall[c].step = "inspect" /\ OnlyCall(c) /\ SameApproval(c) /\ SameUrls(c)
         /\ \/ Comes(c, "look", browserCall[c].sent, browserCall[c].result) /\ browserCall'[c].instance \in Instances
            \/ Comes(c, "done", FALSE, "error") /\ SamePlace(c)
         /\ UNCHANGED <<serviceVars, confirmation, connected, worldVars, permitted, browserBounds>>
<1>1. browserCall[c] \in CallRecords /\ "error" \in BrowserResults
  BY DEF BrowserTypeOK, CallRecords, BrowserResults
<1>2. /\ browserCall[c].step = "inspect"
      /\ UNCHANGED <<serviceVars, confirmation, connected, worldVars, permitted, browserBounds>>
  BY DEF Inspect, BrowserAt
<1>3. CASE Cardinality(connected) = 1
  <2> DEFINE i == CHOOSE i \in connected : TRUE
  <2> DEFINE next == [browserCall[c] EXCEPT !.step = "look", !.instance = i]
  <2>1. i \in Instances
    <3>1. connected # {}
      BY <1>3, FS_EmptySet
    <3> QED
      BY <3>1 DEF BrowserTypeOK
  <2>2. PutCall(c, next)
    BY <1>3 DEF Inspect
  <2> HIDE DEF i
  <2>3. next \in CallRecords
    BY <1>1, <2>1 DEF CallRecords, BrowserSteps
  <2>4. /\ next.step = "look" /\ next.sent = browserCall[c].sent /\ next.result = browserCall[c].result
        /\ next.approval = browserCall[c].approval /\ next.before = browserCall[c].before
        /\ next.after = browserCall[c].after /\ next.instance = i
    BY <1>1 DEF CallRecords
  <2> HIDE DEF next
  <2>5. OnlyCall(c) /\ browserCall'[c] = next
    BY <2>2, <2>3, CallPut
  <2>6. Comes(c, "look", browserCall[c].sent, browserCall[c].result) /\ SameApproval(c) /\ SameUrls(c)
    BY <2>4, <2>5 DEF Comes, SameApproval, SameUrls
  <2> QED
    BY <1>2, <2>1, <2>4, <2>5, <2>6
<1>4. CASE Cardinality(connected) # 1
  <2>1. CallEnds(c, "error")
    BY <1>4 DEF Inspect
  <2> QED
    BY <1>1, <1>2, <2>1, CallDone DEF SameWork
<1> QED
  BY <1>3, <1>4

LEMMA LookDoes ==
  ASSUME BrowserTypeOK, NEW c \in BrowserCalls, LookForApproval(c)
  PROVE  /\ browserCall[c].step = "look" /\ OnlyCall(c) /\ SamePlace(c) /\ SameUrls(c)
         /\ \E step \in {"before", "run"} : Comes(c, step, browserCall[c].sent, browserCall[c].result)
         /\ permitted' \subseteq BrowserSessions /\ permitted \subseteq permitted'
         /\ browserCall'[c].approval # Nobody => BrowserSession[c] \in permitted'
         /\ UNCHANGED <<serviceVars, confirmation, connected, worldVars, browserBounds>>
<1> DEFINE approval == IF c \in Acknowledged THEN confirmation[BrowserCommand[c]] ELSE Nobody
           step == IF c \in Navigating THEN "before" ELSE "run"
           next == [browserCall[c] EXCEPT !.step = step, !.approval = approval]
<1>1. browserCall[c] \in CallRecords
  BY DEF BrowserTypeOK, CallRecords
<1>2. approval \in BrowserCalls \cup {Nobody} /\ step \in {"before", "run"}
  BY DEF BrowserTypeOK, BrowserCommands
<1>3. /\ browserCall[c].step = "look" /\ PutCall(c, next)
      /\ permitted' = IF approval # Nobody THEN permitted \cup {BrowserSession[c]} ELSE permitted
      /\ UNCHANGED <<serviceVars, confirmation, connected, worldVars, browserBounds>>
  BY DEF LookForApproval, BrowserAt
<1> HIDE DEF approval, step
<1>4. next \in CallRecords
  BY <1>1, <1>2 DEF CallRecords, BrowserSteps, Executes
<1>5. /\ next.step = step /\ next.sent = browserCall[c].sent /\ next.result = browserCall[c].result
      /\ next.approval = approval /\ next.instance = browserCall[c].instance
      /\ next.before = browserCall[c].before /\ next.after = browserCall[c].after
  BY <1>1 DEF CallRecords
<1>6. BrowserSession[c] \in BrowserSessions /\ permitted \subseteq BrowserSessions
  BY DEF BrowserSessions, BrowserTypeOK
<1> HIDE DEF next
<1>7. OnlyCall(c) /\ browserCall'[c] = next
  BY <1>3, <1>4, CallPut
<1> QED
  BY <1>2, <1>3, <1>5, <1>6, <1>7 DEF Comes, SamePlace, SameUrls

LEMMA FaultCounted == BrowserTypeOK /\ (BrowserFault \/ UNCHANGED browserFaults) => browserFaults' \in 0..MaxBrowserFaults
  BY BrowserConstants DEF BrowserTypeOK, BrowserFault

LEMMA ExecuteDoes ==
  ASSUME BrowserTypeOK, NEW c \in BrowserCalls, Execute(c)
  PROVE  /\ browserCall[c].step \in Executes /\ ~browserCall[c].sent /\ inService = Nobody
         /\ \/ /\ inService' = c /\ request' = <<c, browserCall[c].step>>
               /\ child' \in {child, [state |-> "up", granted |-> {}]} /\ lines' \in {lines, <<>>}
               /\ OnlyCall(c) /\ Comes(c, browserCall[c].step, TRUE, browserCall[c].result) /\ SameWork(c)
            \/ Resets /\ Fails(c) /\ UNCHANGED inService
         /\ UNCHANGED <<confirmation, connected, worldVars, permitted, browserMoves>>
         /\ browserFaults' \in 0..MaxBrowserFaults
<1> DEFINE next == [browserCall[c] EXCEPT !.sent = TRUE]
<1>1. /\ browserCall[c].step \in Executes /\ ~browserCall[c].sent /\ inService = Nobody
      /\ UNCHANGED <<confirmation, connected, worldVars, permitted, browserMoves>>
      /\ browserFaults' \in 0..MaxBrowserFaults
  BY FaultCounted DEF Execute
<1>2. CASE /\ inService' = c /\ request' = <<c, browserCall[c].step>> /\ PutCall(c, next)
           /\ child' = IF child.state = "up" THEN child ELSE [state |-> "up", granted |-> {}]
           /\ lines' = IF child.state = "up" THEN lines ELSE <<>>
  <2>1. browserCall[c] \in CallRecords
    BY DEF BrowserTypeOK, CallRecords
  <2>2. next \in CallRecords
    BY <2>1 DEF CallRecords
  <2>3. /\ next.step = browserCall[c].step /\ next.sent = TRUE /\ next.result = browserCall[c].result
        /\ next.instance = browserCall[c].instance /\ next.approval = browserCall[c].approval
        /\ next.before = browserCall[c].before /\ next.after = browserCall[c].after
    BY <2>1 DEF CallRecords
  <2> HIDE DEF next
  <2>4. OnlyCall(c) /\ browserCall'[c] = next
    BY <1>2, <2>2, CallPut
  <2>5. Comes(c, browserCall[c].step, TRUE, browserCall[c].result) /\ SameWork(c)
    BY <2>3, <2>4 DEF Comes, SameWork, SamePlace, SameApproval, SameUrls
  <2> QED
    BY <1>1, <1>2, <2>4, <2>5
<1>3. CASE Resets /\ FailedExecute(c) /\ UNCHANGED inService
  BY <1>1, <1>3, ExecuteFails
<1> QED
  BY <1>2, <1>3 DEF Execute

\* What a call has learnt from the answer to its command.
Learns(c, what) ==
  /\ OnlyCall(c) /\ SamePlace(c) /\ SameApproval(c)
  /\ \/ /\ browserCall[c].step = "before" /\ Comes(c, "run", FALSE, browserCall[c].result)
        /\ browserCall'[c].before = IF what = "refused" THEN Nobody ELSE what
     \/ browserCall[c].step = "run" /\ what = "detached" /\ Comes(c, "close", FALSE, browserCall[c].result) /\ SameUrls(c)
     \/ /\ browserCall[c].step = "after" /\ Comes(c, "judge", FALSE, browserCall[c].result)
        /\ browserCall'[c].before = browserCall[c].before
        /\ browserCall'[c].after = IF what = "refused" THEN Nobody ELSE what
     \/ /\ <<c, browserCall[c].step>> \in Work(c) /\ ~(browserCall[c].step = "run" /\ what = "detached")
        /\ Comes(c, "consume", FALSE, what) /\ SameUrls(c)

LEMMA AnswerJudged ==
  ASSUME BrowserTypeOK, NEW c \in BrowserCalls, NEW what \in Told, PutCall(c, Judged(c, what)),
         browserCall[c].step \in Executes, <<c, browserCall[c].step>> \in Work(c) => what \in BrowserOutcomes
  PROVE  Learns(c, what)
<1> DEFINE next == Judged(c, what)
           url == IF what = "refused" THEN Nobody ELSE what
<1>1. browserCall[c] \in CallRecords
  BY DEF BrowserTypeOK, CallRecords
<1>2. CASE browserCall[c].step = "before"
  <2>1. next = [browserCall[c] EXCEPT !.sent = FALSE, !.step = "run", !.before = url]
    BY <1>1, <1>2 DEF Judged, CallRecords
  <2>2. next \in CallRecords
    BY <1>1, <2>1 DEF CallRecords, BrowserSteps, Executes
  <2>3. /\ next.step = "run" /\ next.sent = FALSE /\ next.result = browserCall[c].result
        /\ next.instance = browserCall[c].instance /\ next.approval = browserCall[c].approval /\ next.before = url
    BY <1>1, <2>1 DEF CallRecords
  <2>4. OnlyCall(c) /\ browserCall'[c] = next
    BY <2>2, CallPut
  <2> QED
    BY <1>2, <2>3, <2>4 DEF Learns, Comes, SamePlace, SameApproval
<1>3. CASE browserCall[c].step = "run" /\ what = "detached"
  <2>1. next = [browserCall[c] EXCEPT !.sent = FALSE, !.step = "close"]
    BY <1>1, <1>3 DEF Judged, CallRecords
  <2>2. next \in CallRecords
    BY <1>1, <2>1 DEF CallRecords, BrowserSteps, Executes
  <2>3. /\ next.step = "close" /\ next.sent = FALSE /\ next.result = browserCall[c].result
        /\ next.instance = browserCall[c].instance /\ next.approval = browserCall[c].approval
        /\ next.before = browserCall[c].before /\ next.after = browserCall[c].after
    BY <1>1, <2>1 DEF CallRecords
  <2>4. OnlyCall(c) /\ browserCall'[c] = next
    BY <2>2, CallPut
  <2> QED
    BY <1>3, <2>3, <2>4 DEF Learns, Comes, SamePlace, SameApproval, SameUrls
<1>4. CASE browserCall[c].step = "after"
  <2>1. next = [browserCall[c] EXCEPT !.sent = FALSE, !.step = "judge", !.after = url]
    BY <1>1, <1>4 DEF Judged, CallRecords
  <2>2. next \in CallRecords
    BY <1>1, <2>1 DEF CallRecords, BrowserSteps, Executes
  <2>3. /\ next.step = "judge" /\ next.sent = FALSE /\ next.result = browserCall[c].result
        /\ next.instance = browserCall[c].instance /\ next.approval = browserCall[c].approval
        /\ next.before = browserCall[c].before /\ next.after = url
    BY <1>1, <2>1 DEF CallRecords
  <2>4. OnlyCall(c) /\ browserCall'[c] = next
    BY <2>2, CallPut
  <2> QED
    BY <1>4, <2>3, <2>4 DEF Learns, Comes, SamePlace, SameApproval
<1>5. CASE browserCall[c].step \in {"run", "again"} /\ ~(browserCall[c].step = "run" /\ what = "detached")
  <2>1. next = [browserCall[c] EXCEPT !.sent = FALSE, !.step = "consume", !.result = what]
    BY <1>1, <1>5 DEF Judged, CallRecords
  <2>2. <<c, browserCall[c].step>> \in Work(c) /\ what \in BrowserResults
    BY <1>5 DEF Work, BrowserResults
  <2>3. next \in CallRecords
    BY <1>1, <2>1, <2>2 DEF CallRecords, BrowserSteps, Executes
  <2>4. /\ next.step = "consume" /\ next.sent = FALSE /\ next.result = what
        /\ next.instance = browserCall[c].instance /\ next.approval = browserCall[c].approval
        /\ next.before = browserCall[c].before /\ next.after = browserCall[c].after
    BY <1>1, <2>1 DEF CallRecords
  <2>5. OnlyCall(c) /\ browserCall'[c] = next
    BY <2>3, CallPut
  <2> QED
    BY <1>5, <2>2, <2>4, <2>5 DEF Learns, Comes, SamePlace, SameApproval, SameUrls
<1> QED
  BY <1>2, <1>3, <1>4, <1>5 DEF Executes

LEMMA ReceiveDoes ==
  ASSUME BrowserTypeOK, InTurn, OutcomesTold, NEW c \in BrowserCalls, Receive(c)
  PROVE  /\ inService = c /\ inService' = Nobody /\ browserCall[c].sent /\ lines # <<>>
         /\ \/ lines' = Tail(lines) /\ UNCHANGED <<child, request>> /\ Fails(c)
            \/ /\ lines[1].of = <<c, browserCall[c].step>>
               /\ lines' = Tail(lines) /\ UNCHANGED <<child, request>> /\ Learns(c, lines[1].what)
            \/ Resets /\ Fails(c)
         /\ UNCHANGED <<confirmation, connected, worldVars, permitted, browserBounds>>
<1>1. /\ inService = c /\ inService' = Nobody /\ lines # <<>>
      /\ UNCHANGED <<confirmation, connected, worldVars, permitted, browserBounds>>
  BY DEF Receive
<1>2. browserCall[c].sent /\ browserCall[c].step \in Executes
  BY <1>1 DEF InTurn
<1>3. Head(lines) = lines[1] /\ 1 \in Lines /\ lines[1].what \in Told
  <2>1. lines \in Seq(LineRecords)
    BY DEF BrowserTypeOK, LineRecords
  <2>2. 1 \in DOMAIN lines /\ Head(lines) = lines[1] /\ lines[1] \in LineRecords
    BY <1>1, <2>1, FirstLine
  <2> QED
    BY <2>2 DEF Lines, LineRecords
<1>4. CASE lines' = Tail(lines) /\ FailedExecute(c) /\ UNCHANGED <<child, request>>
  BY <1>1, <1>2, <1>4, ExecuteFails
<1>5. CASE /\ Head(lines).of = <<c, browserCall[c].step>> /\ lines' = Tail(lines) /\ UNCHANGED <<child, request>>
           /\ PutCall(c, Judged(c, Head(lines).what))
  <2>1. <<c, browserCall[c].step>> \in Work(c) => lines[1].what \in BrowserOutcomes
    BY <1>3, <1>5 DEF OutcomesTold
  <2>2. Learns(c, lines[1].what)
    BY <1>2, <1>3, <1>5, <2>1, AnswerJudged
  <2> QED
    BY <1>1, <1>2, <1>3, <1>5, <2>2
<1>6. CASE Resets /\ FailedExecute(c)
  BY <1>1, <1>2, <1>6, ExecuteFails
<1> QED
  BY <1>4, <1>5, <1>6 DEF Receive

LEMMA AbandonDoes ==
  ASSUME BrowserTypeOK, NEW c \in BrowserCalls, AbandonCall(c)
  PROVE  /\ inService = c /\ inService' = Nobody /\ Resets /\ Fails(c)
         /\ UNCHANGED <<confirmation, connected, worldVars, permitted, browserMoves>>
         /\ browserFaults' \in 0..MaxBrowserFaults
  BY ExecuteFails, FaultCounted DEF AbandonCall

LEMMA CloseDoes ==
  ASSUME BrowserTypeOK, NEW c \in BrowserCalls, CloseService(c)
  PROVE  /\ browserCall[c].step = "close" /\ inService = Nobody /\ Resets
         /\ OnlyCall(c) /\ Comes(c, "again", FALSE, browserCall[c].result) /\ SameWork(c)
         /\ UNCHANGED <<inService, confirmation, connected, worldVars, permitted, browserBounds>>
<1>1. "again" \in BrowserSteps
  BY DEF BrowserSteps, Executes
<1> QED
  BY <1>1, CallGoes DEF CloseService, BrowserAt

LEMMA ConsumeDoes ==
  ASSUME BrowserTypeOK, NEW c \in BrowserCalls, ConsumeUsed(c)
  PROVE  /\ browserCall[c].step = "consume" /\ OnlyCall(c) /\ SameWork(c)
         /\ \/ Comes(c, "ask", FALSE, browserCall[c].result)
            \/ browserCall[c].before # Nobody /\ Comes(c, "after", FALSE, browserCall[c].result)
            \/ browserCall[c].result = "ok" /\ Comes(c, "done", FALSE, "ok")
            \/ Comes(c, "done", FALSE, "error")
         /\ UNCHANGED <<serviceVars, connected, worldVars, permitted, browserMoves>>
         /\ confirmation' \in [BrowserCommands -> BrowserCalls \cup {Nobody}] /\ browserFaults' \in 0..MaxBrowserFaults
<1>1. /\ browserCall[c].step = "consume" /\ UNCHANGED <<serviceVars, connected, worldVars, permitted, browserMoves>>
      /\ browserFaults' \in 0..MaxBrowserFaults
  BY FaultCounted DEF ConsumeUsed, BrowserAt
<1>2. confirmation' \in [BrowserCommands -> BrowserCalls \cup {Nobody}]
  BY DEF ConsumeUsed, BrowserTypeOK, BrowserCommands
<1>3. {"ask", "after"} \subseteq BrowserSteps /\ {"ok", "error"} \subseteq BrowserResults
  BY DEF BrowserSteps, Executes, BrowserResults, BrowserOutcomes
<1>4. \/ GoesTo(c, "ask")
      \/ browserCall[c].before # Nobody /\ GoesTo(c, "after")
      \/ browserCall[c].result = "ok" /\ CallEnds(c, "ok")
      \/ CallEnds(c, "error")
  BY DEF ConsumeUsed
<1> QED
  BY <1>1, <1>2, <1>3, <1>4, CallGoes, CallDone

LEMMA AskDoes ==
  ASSUME BrowserTypeOK, NEW c \in BrowserCalls, Ask(c)
  PROVE  /\ browserCall[c].step = "ask" /\ OnlyCall(c) /\ SameWork(c)
         /\ \E result \in {"need_confirmation", "error"} : Comes(c, "done", FALSE, result)
         /\ UNCHANGED <<serviceVars, connected, worldVars, permitted, browserMoves>>
         /\ confirmation' \in [BrowserCommands -> BrowserCalls \cup {Nobody}] /\ browserFaults' \in 0..MaxBrowserFaults
<1>1. /\ browserCall[c].step = "ask" /\ UNCHANGED <<serviceVars, connected, worldVars, permitted, browserMoves>>
      /\ browserFaults' \in 0..MaxBrowserFaults
  BY FaultCounted DEF Ask, BrowserAt
<1>2. confirmation' \in [BrowserCommands -> BrowserCalls \cup {Nobody}]
  BY DEF Ask, BrowserTypeOK, BrowserCommands
<1>3. {"need_confirmation", "error"} \subseteq BrowserResults
  BY DEF BrowserResults
<1>4. CallEnds(c, "need_confirmation") \/ CallEnds(c, "error")
  BY DEF Ask
<1> QED
  BY <1>1, <1>2, <1>3, <1>4, CallDone

LEMMA JudgeDoes ==
  ASSUME BrowserTypeOK, NEW c \in BrowserCalls, Judge(c)
  PROVE  /\ browserCall[c].step = "judge" /\ OnlyCall(c) /\ SameWork(c)
         /\ \/ browserCall[c].after \notin {Nobody, browserCall[c].before} /\ Comes(c, "done", FALSE, "ok")
            \/ Comes(c, "done", FALSE, "error")
         /\ UNCHANGED <<serviceVars, confirmation, connected, worldVars, permitted, browserBounds>>
<1>1. /\ browserCall[c].step = "judge"
      /\ UNCHANGED <<serviceVars, confirmation, connected, worldVars, permitted, browserBounds>>
  BY DEF Judge, BrowserAt
<1>2. {"ok", "error"} \subseteq BrowserResults
  BY DEF BrowserResults, BrowserOutcomes
<1>3. \/ browserCall[c].after \notin {Nobody, browserCall[c].before} /\ CallEnds(c, "ok")
      \/ CallEnds(c, "error")
  BY DEF Judge
<1> QED
  BY <1>1, <1>2, <1>3, CallDone


\* The command of a request is carried out.
LEMMA AnswerDoes ==
  ASSUME BrowserTypeOK, Permits, AnswerRequest
  PROVE  \E c \in BrowserCalls, at \in Executes, what \in Told :
           /\ request = <<c, at>> /\ request' = <<>> /\ lines' = Append(lines, [of |-> <<c, at>>, what |-> what])
           /\ \/ /\ at \in {"before", "after"} /\ UNCHANGED worldVars
                 /\ what = "refused" \/ (browserCall[c].instance \in Instances /\ what = tab[browserCall[c].instance])
              \/ at \in {"run", "again"} /\ what \in BrowserOutcomes \ {"ok"} /\ UNCHANGED worldVars
              \/ /\ at \in {"run", "again"} /\ what \in {"ok", "late"} /\ CarriesOut(c)
                 /\ browserCall[c].instance \in Instances
                 /\ c \in Prompted => BrowserSession[c] \in permitted
           /\ child' \in [state : {"up", "dead"}, granted : SUBSET BrowserSessions] /\ child'.granted \subseteq permitted
           /\ UNCHANGED <<browserCall, inService, confirmation, connected, permitted, browserMoves>>
           /\ browserFaults' \in 0..MaxBrowserFaults
<1>1. PICK c \in BrowserCalls, at \in Executes :
        LET call == browserCall[c]
            may == c \notin Prompted \/ BrowserSession[c] \in child.granted \/ call.approval # Nobody
            Says(what) == lines' = Append(lines, [of |-> request, what |-> what]) IN
        /\ request = <<c, at>> /\ child.state = "up" /\ request' = <<>>
        /\ child' \in [state : {"up", "dead"},
                       granted : {IF c \in Prompted /\ may /\ at \in {"run", "again"}
                                  THEN child.granted \cup {BrowserSession[c]} ELSE child.granted}]
        /\ IF child'.state = "dead" THEN BrowserFault ELSE UNCHANGED browserFaults
        /\ CASE call.instance \notin connected -> Says("refused") /\ UNCHANGED worldVars
             [] call.instance \in connected /\ at \in {"before", "after"} -> Says(tab[call.instance]) /\ UNCHANGED worldVars
             [] call.instance \in connected /\ at \in {"run", "again"} /\ ~may -> Says("prompt") /\ UNCHANGED worldVars
             [] OTHER ->
                  \/ CarriesOut(c) /\ \E what \in {"ok"} \cup Late(c) : Says(what)
                  \/ UNCHANGED worldVars /\ \E what \in {"detached", "failed"} \cup Late(c) : Says(what)
        /\ UNCHANGED <<browserCall, inService, confirmation, connected, permitted, browserMoves>>
  BY DEF AnswerRequest
<1> DEFINE may == c \notin Prompted \/ BrowserSession[c] \in child.granted \/ browserCall[c].approval # Nobody
           Says(what) == lines' = Append(lines, [of |-> request, what |-> what])
<1>2. /\ request = <<c, at>> /\ request' = <<>>
      /\ child' \in [state : {"up", "dead"},
                     granted : {IF c \in Prompted /\ may /\ at \in {"run", "again"}
                                THEN child.granted \cup {BrowserSession[c]} ELSE child.granted}]
      /\ UNCHANGED <<browserCall, inService, confirmation, connected, permitted, browserMoves>>
  BY <1>1
<1>3. browserFaults' \in 0..MaxBrowserFaults
  BY <1>1, FaultCounted
<1>4. /\ BrowserSession[c] \in BrowserSessions /\ connected \subseteq Instances /\ child.granted \subseteq BrowserSessions
      /\ \A i \in Instances : tab[i] \in Told
  BY DEF BrowserTypeOK, BrowserSessions, Told
<1>5. may /\ c \in Prompted => BrowserSession[c] \in permitted
  BY DEF Permits
<1>6. child' \in [state : {"up", "dead"}, granted : SUBSET BrowserSessions] /\ child'.granted \subseteq permitted
  <2> HIDE DEF may
  <2> DEFINE granted == IF c \in Prompted /\ may /\ at \in {"run", "again"}
                        THEN child.granted \cup {BrowserSession[c]} ELSE child.granted
  <2>1. granted \subseteq BrowserSessions /\ granted \subseteq permitted
    BY <1>4, <1>5 DEF Permits
  <2>2. child' \in [state : {"up", "dead"}, granted : {granted}]
    BY <1>2
  <2> HIDE DEF granted
  <2> QED
    BY <2>1, <2>2
<1>7. \E what \in Told :
        /\ lines' = Append(lines, [of |-> <<c, at>>, what |-> what])
        /\ \/ /\ at \in {"before", "after"} /\ UNCHANGED worldVars
              /\ what = "refused" \/ (browserCall[c].instance \in Instances /\ what = tab[browserCall[c].instance])
           \/ at \in {"run", "again"} /\ what \in BrowserOutcomes \ {"ok"} /\ UNCHANGED worldVars
           \/ /\ at \in {"run", "again"} /\ what \in {"ok", "late"} /\ CarriesOut(c)
              /\ browserCall[c].instance \in Instances
              /\ c \in Prompted => BrowserSession[c] \in permitted
  <2>1. {"refused", "ok", "late", "prompt", "detached", "failed"} \subseteq Told
    BY DEF Told, BrowserOutcomes
  <2>2. CASE browserCall[c].instance \notin connected
    <3>1. Says("refused") /\ UNCHANGED worldVars
      BY <1>1, <2>2
    <3> QED
      BY <1>2, <2>1, <3>1 DEF BrowserOutcomes, Executes
  <2>3. CASE browserCall[c].instance \in connected /\ at \in {"before", "after"}
    <3>1. Says(tab[browserCall[c].instance]) /\ UNCHANGED worldVars
      BY <1>1, <2>3
    <3> QED
      BY <1>2, <1>4, <2>3, <3>1
  <2>4. CASE browserCall[c].instance \in connected /\ at \in {"run", "again"} /\ ~may
    <3>1. Says("prompt") /\ UNCHANGED worldVars
      BY <1>1, <2>4
    <3> QED
      BY <1>2, <2>1, <2>4, <3>1 DEF BrowserOutcomes
  <2>5. CASE browserCall[c].instance \in connected /\ at \in {"run", "again"} /\ may
    <3>1. Late(c) \subseteq {"late"}
      BY DEF Late
    <3>2. \/ CarriesOut(c) /\ \E what \in {"ok"} \cup Late(c) : Says(what)
          \/ UNCHANGED worldVars /\ \E what \in {"detached", "failed"} \cup Late(c) : Says(what)
      BY <1>1, <2>5
    <3>3. CASE CarriesOut(c) /\ \E what \in {"ok"} \cup Late(c) : Says(what)
      <4>1. PICK what \in {"ok", "late"} : Says(what)
        BY <3>1, <3>3
      <4> QED
        BY <1>2, <1>4, <1>5, <2>1, <2>5, <3>3, <4>1
    <3>4. CASE UNCHANGED worldVars /\ \E what \in {"detached", "failed"} \cup Late(c) : Says(what)
      <4>1. PICK what \in {"detached", "failed", "late"} : Says(what)
        BY <3>1, <3>4
      <4> QED
        BY <1>2, <2>1, <2>5, <3>4, <4>1 DEF BrowserOutcomes
    <3> QED
      BY <3>2, <3>3, <3>4
  <2> QED
    BY <2>2, <2>3, <2>4, <2>5 DEF Executes
<1> HIDE DEF may, Says
<1> QED
  BY <1>2, <1>3, <1>6, <1>7

-----------------------------------------------------------------------------
(* One call at a time uses the child. *)

\* A call moves that does not wait for the child.
LEMMA AsideKeepsTurn ==
  ASSUME BrowserTypeOK, InTurn, NEW c \in BrowserCalls, OnlyCall(c), ~browserCall[c].sent, ~browserCall'[c].sent,
         inService' = inService, request' \in {request, <<>>}
  PROVE  InTurn'
<1>1. \A o \in BrowserCalls : o = c \/ browserCall'[o] = browserCall[o]
  BY DEF OnlyCall
<1>2. inService # c /\ inService \in BrowserCalls \cup {Nobody}
  BY DEF InTurn, BrowserTypeOK
<1>3. \A o \in BrowserCalls : (browserCall'[o].sent <=> inService' = o) /\ (browserCall'[o].sent => browserCall'[o].step \in Executes)
  BY <1>1, <1>2 DEF InTurn
<1>4. inService' # Nobody => request' \in {<<>>, <<inService', browserCall'[inService'].step>>}
  BY <1>1, <1>2 DEF InTurn
<1> QED
  BY <1>3, <1>4 DEF InTurn

\* The call that waits stops to wait.
LEMMA LeavingKeepsTurn ==
  ASSUME BrowserTypeOK, InTurn, NEW c \in BrowserCalls, OnlyCall(c), ~browserCall'[c].sent, inService = c, inService' = Nobody
  PROVE  InTurn'
<1>1. \A o \in BrowserCalls : o = c \/ browserCall'[o] = browserCall[o]
  BY DEF OnlyCall
<1>2. \A o \in BrowserCalls : (browserCall'[o].sent <=> inService' = o) /\ (browserCall'[o].sent => browserCall'[o].step \in Executes)
  BY <1>1, BrowserConstants DEF InTurn
<1> QED
  BY <1>2 DEF InTurn

\* A call begins to wait.
LEMMA SendingKeepsTurn ==
  ASSUME BrowserTypeOK, InTurn, NEW c \in BrowserCalls, OnlyCall(c), browserCall[c].step \in Executes,
         Comes(c, browserCall[c].step, TRUE, browserCall[c].result), inService = Nobody, inService' = c,
         request' = <<c, browserCall[c].step>>
  PROVE  InTurn'
<1>1. \A o \in BrowserCalls : o = c \/ browserCall'[o] = browserCall[o]
  BY DEF OnlyCall
<1>2. browserCall'[c].sent /\ browserCall'[c].step = browserCall[c].step
  BY DEF Comes
<1>3. \A o \in BrowserCalls : (browserCall'[o].sent <=> inService' = o) /\ (browserCall'[o].sent => browserCall'[o].step \in Executes)
  BY <1>1, <1>2, BrowserConstants DEF InTurn
<1>4. request' \in {<<>>, <<inService', browserCall'[inService'].step>>}
  BY <1>2
<1> QED
  BY <1>3, <1>4 DEF InTurn

\* Who is at a step that asks nothing of the child does not wait for it.
LEMMA NotSent == BrowserTypeOK /\ InTurn => \A c \in BrowserCalls : browserCall[c].step \notin Executes => ~browserCall[c].sent
  BY DEF InTurn

-----------------------------------------------------------------------------
(* Requests and their answers. *)

\* What was asked stays asked when a call moves on.
LEMMA IssuedStays ==
  ASSUME BrowserTypeOK, NEW c \in BrowserCalls, OnlyCall(c), browserCall[c].step # "done",
         browserCall[c].step \notin {"inspect", "look", "before"} =>
           browserCall'[c].step \notin {"inspect", "look", "before"},
         NEW o \in BrowserCalls, NEW at \in Executes, Issued(o, at),
         o = c /\ at = browserCall[c].step /\ browserCall[c].sent =>
           browserCall'[c].step = "done" \/ (at = "before" /\ browserCall'[c].step \notin {"inspect", "look", "before"})
  PROVE  Issued(o, at)'
<1>1. CASE o # c
  <2>1. browserCall'[o] = browserCall[o]
    BY <1>1 DEF OnlyCall
  <2> QED
    BY <2>1 DEF Issued
<1>2. CASE o = c
  BY <1>2 DEF Issued
<1> QED
  BY <1>1, <1>2

LEMMA NothingAsked ==
  ASSUME request' = <<>>, lines' = <<>>
  PROVE  AnsweredOnce' /\ OutcomesTold'
<1>1. Lines' = {}
  BY DEF Lines
<1>2. \A c, at : request' # <<c, at>>
  OBVIOUS
<1>3. \A c \in BrowserCalls : request' \notin Work(c)
  BY <1>2 DEF Work
<1> QED
  BY <1>1, <1>2, <1>3 DEF AnsweredOnce, OutcomesTold

\* A call moves while the child has what it had.
LEMMA AsideKeepsAnswers ==
  ASSUME BrowserTypeOK, AnsweredOnce, NEW c \in BrowserCalls, OnlyCall(c), ~browserCall[c].sent,
         browserCall[c].step # "done",
         browserCall[c].step \notin {"inspect", "look", "before"} =>
           browserCall'[c].step \notin {"inspect", "look", "before"},
         request' = request, lines' = lines
  PROVE  AnsweredOnce'
<1>1. \A o \in BrowserCalls, at \in Executes : Issued(o, at) => Issued(o, at)'
  BY IssuedStays
<1>2. Lines' = Lines
  BY DEF Lines
<1> HIDE DEF Lines
<1>3. \A o \in BrowserCalls, at \in Executes :
       /\ request' = <<o, at>> => Issued(o, at)'
       /\ \A i \in Lines' : lines'[i].of = <<o, at>> => Issued(o, at)' /\ request' # <<o, at>>
  BY <1>1, <1>2 DEF AnsweredOnce
<1>4. /\ \A i, j \in Lines' : lines'[i].of = lines'[j].of => i = j \/ lines'[i].of = <<>>
      /\ \A o \in BrowserCalls : request' \in Work(o) => \A i \in Lines' : lines'[i].of \notin Work(o)
  BY <1>2 DEF AnsweredOnce
<1> QED
  BY <1>3, <1>4 DEF AnsweredOnce

\* The first line is read: nobody waits for another one of its request.
LEMMA TailKeepsAnswers ==
  ASSUME BrowserTypeOK, AnsweredOnce, NEW c \in BrowserCalls, lines # <<>>, lines' = Tail(lines), request' = request,
         \A o \in BrowserCalls, at \in Executes :
           Issued(o, at) => Issued(o, at)' \/ (<<o, at>> = lines[1].of /\ request # <<o, at>>)
  PROVE  AnsweredOnce'
<1>1. lines \in Seq(LineRecords)
  BY DEF BrowserTypeOK, LineRecords
<1>2. /\ 1 \in DOMAIN lines
      /\ \A i \in DOMAIN lines' : i + 1 \in DOMAIN lines /\ i + 1 # 1 /\ lines'[i] = lines[i + 1] /\ i \in Nat
  BY <1>1, FirstLineRead
<1>3. ASSUME NEW o \in BrowserCalls, NEW at \in Executes, request' = <<o, at>>
      PROVE  Issued(o, at)'
  BY <1>3 DEF AnsweredOnce
<1>4. ASSUME NEW o \in BrowserCalls, NEW at \in Executes, NEW i \in Lines', lines'[i].of = <<o, at>>
      PROVE  Issued(o, at)' /\ request' # <<o, at>>
  <2>1. i + 1 \in Lines /\ lines[i + 1].of = <<o, at>> /\ i + 1 # 1 /\ 1 \in Lines
    BY <1>2, <1>4 DEF Lines
  <2>2. Issued(o, at) /\ request # <<o, at>>
    BY <2>1 DEF AnsweredOnce
  <2>3. lines[1].of # <<o, at>>
    <3>1. <<o, at>> # <<>> /\ \A k, j \in Lines : lines[k].of = lines[j].of => k = j \/ lines[k].of = <<>>
      BY DEF AnsweredOnce
    <3> QED
      BY <2>1, <3>1
  <2> QED
    BY <2>2, <2>3
<1>5. ASSUME NEW i \in Lines', NEW j \in Lines', lines'[i].of = lines'[j].of
      PROVE  i = j \/ lines'[i].of = <<>>
  <2>1. i + 1 \in Lines /\ j + 1 \in Lines /\ lines[i + 1].of = lines[j + 1].of /\ i \in Nat /\ j \in Nat
    BY <1>2, <1>5 DEF Lines
  <2>2. i + 1 = j + 1 \/ lines[i + 1].of = <<>>
    BY <2>1 DEF AnsweredOnce
  <2> QED
    BY <1>2, <2>1, <2>2 DEF Lines
<1>6. ASSUME NEW o \in BrowserCalls, request' \in Work(o), NEW i \in Lines'
      PROVE  lines'[i].of \notin Work(o)
  <2>1. i + 1 \in Lines /\ lines'[i] = lines[i + 1]
    BY <1>2 DEF Lines
  <2> QED
    BY <1>6, <2>1 DEF AnsweredOnce
<1> QED
  BY <1>3, <1>4, <1>5, <1>6 DEF AnsweredOnce

LEMMA AppendKeepsAnswers ==
  ASSUME BrowserTypeOK, AnsweredOnce, NEW line \in LineRecords, lines' = Append(lines, line), UNCHANGED browserCall,
         \/ line.of = <<>> /\ request' = request
         \/ line.of = request /\ request' = <<>> /\ request # <<>>
  PROVE  AnsweredOnce'
<1>1. lines \in Seq(LineRecords)
  BY DEF BrowserTypeOK, LineRecords
<1>2. \A i \in Lines' : (i \in Lines /\ lines'[i] = lines[i]) \/ (i = Len(lines) + 1 /\ lines'[i] = line)
  BY <1>1, LineWritten DEF Lines
<1>3. \A o, at : Issued(o, at)' <=> Issued(o, at)
  BY DEF Issued
<1>4. \A o, at : <<o, at>> # <<>>
  OBVIOUS
<1>5. ASSUME NEW o \in BrowserCalls, NEW at \in Executes, request' = <<o, at>>
      PROVE  Issued(o, at)'
  BY <1>3, <1>4, <1>5 DEF AnsweredOnce
<1>6. ASSUME NEW o \in BrowserCalls, NEW at \in Executes, NEW i \in Lines', lines'[i].of = <<o, at>>
      PROVE  Issued(o, at)' /\ request' # <<o, at>>
  <2>1. CASE i \in Lines /\ lines'[i] = lines[i]
    BY <1>3, <1>4, <1>6, <2>1 DEF AnsweredOnce
  <2>2. CASE lines'[i] = line
    BY <1>3, <1>4, <1>6, <2>2 DEF AnsweredOnce
  <2> QED
    BY <1>2, <2>1, <2>2
<1>7. ASSUME NEW i \in Lines', NEW j \in Lines', lines'[i].of = lines'[j].of
      PROVE  i = j \/ lines'[i].of = <<>>
  <2>1. CASE line.of = <<>>
    BY <1>2, <1>7, <2>1 DEF AnsweredOnce
  <2>2. CASE line.of = request /\ request # <<>>
    <3>1. \A k \in Lines : lines[k].of # request
      <4>1. PICK o \in BrowserCalls, at \in Executes : request = <<o, at>>
        BY <2>2 DEF BrowserTypeOK, Ids
      <4> QED
        BY <4>1 DEF AnsweredOnce
    <3> QED
      BY <1>2, <1>7, <2>2, <3>1 DEF AnsweredOnce
  <2> QED
    BY <2>1, <2>2
<1>8. ASSUME NEW o \in BrowserCalls, request' \in Work(o), NEW i \in Lines'
      PROVE  lines'[i].of \notin Work(o)
  <2>1. <<>> \notin Work(o)
    BY DEF Work
  <2>2. request' = request /\ line.of = <<>>
    BY <1>8, <2>1
  <2> QED
    BY <1>2, <1>8, <2>1, <2>2 DEF AnsweredOnce
<1> QED
  BY <1>5, <1>6, <1>7, <1>8 DEF AnsweredOnce

\* A call asks: nothing it asked at this step is left, and nothing it asked with
\* its command before.
LEMMA SendingKeepsAnswers ==
  ASSUME BrowserTypeOK, AnsweredOnce, NEW c \in BrowserCalls, OnlyCall(c), NEW step \in Executes, browserCall[c].step = step,
         ~browserCall[c].sent, Comes(c, step, TRUE, browserCall[c].result),
         request' = <<c, step>>, lines' \in {lines, <<>>}
  PROVE  AnsweredOnce'
<1>1. step # "done" /\ browserCall'[c].step = step /\ browserCall'[c].sent
  BY DEF Comes, Executes
<1>2. \A o \in BrowserCalls, at \in Executes : Issued(o, at) => Issued(o, at)'
  BY <1>1, IssuedStays
<1>3. Issued(c, step)'
  BY <1>1 DEF Issued
<1>4. ~Issued(c, step) /\ (step = "run" => ~Issued(c, "again")) /\ (step = "again" => ~Issued(c, "run"))
  BY <1>1 DEF Issued
<1>5. Lines' \subseteq Lines /\ \A i \in Lines' : lines'[i] = lines[i]
  BY DEF Lines
<1>6. \A i \in Lines : lines[i].of # <<c, step>>
  BY <1>4 DEF AnsweredOnce
<1>7. ASSUME NEW o \in BrowserCalls, NEW at \in Executes
      PROVE  /\ request' = <<o, at>> => Issued(o, at)'
             /\ \A i \in Lines' : lines'[i].of = <<o, at>> => Issued(o, at)' /\ request' # <<o, at>>
  <2>1. request' = <<o, at>> => Issued(o, at)'
    BY <1>3
  <2>2. ASSUME NEW i \in Lines', lines'[i].of = <<o, at>>
        PROVE  Issued(o, at)' /\ request' # <<o, at>>
    <3>1. i \in Lines /\ lines[i].of = <<o, at>>
      BY <1>5, <2>2
    <3>2. Issued(o, at)'
      BY <1>2, <3>1 DEF AnsweredOnce
    <3>3. <<o, at>> # <<c, step>>
      BY <1>6, <3>1
    <3> QED
      BY <3>2, <3>3
  <2> QED
    BY <2>1, <2>2
<1>8. \A i, j \in Lines' : lines'[i].of = lines'[j].of => i = j \/ lines'[i].of = <<>>
  BY <1>5 DEF AnsweredOnce
<1>9. ASSUME NEW o \in BrowserCalls, request' \in Work(o), NEW i \in Lines'
      PROVE  lines'[i].of \notin Work(o)
  <2>1. o = c /\ step \in {"run", "again"}
    BY <1>9 DEF Work
  <2>2. \A at \in {"run", "again"} : ~Issued(c, at)
    BY <1>4, <2>1
  <2>3. \A at \in {"run", "again"} : lines[i].of # <<c, at>>
    BY <1>5, <2>2 DEF AnsweredOnce, Executes
  <2> QED
    BY <1>5, <2>1, <2>3 DEF Work
<1> QED
  BY <1>7, <1>8, <1>9 DEF AnsweredOnce

-----------------------------------------------------------------------------
(* What is left in the pipe, and what it says. *)

LinesLeft == \A i \in Lines' : \E k \in Lines : lines'[i] = lines[k]

LEMMA TailLeaves == BrowserTypeOK /\ lines # <<>> /\ lines' = Tail(lines) => LinesLeft
<1> SUFFICES ASSUME BrowserTypeOK, lines # <<>>, lines' = Tail(lines), NEW i \in Lines'
             PROVE  \E k \in Lines : lines'[i] = lines[k]
  BY DEF LinesLeft
<1>1. lines \in Seq(LineRecords)
  BY DEF BrowserTypeOK, LineRecords
<1>2. i + 1 \in Lines /\ lines'[i] = lines[i + 1]
  BY <1>1, FirstLineRead DEF Lines
<1> QED
  BY <1>2

LEMMA SomeLeave == lines' = lines \/ lines' = <<>> => LinesLeft
  BY DEF LinesLeft, Lines

LEMMA AppendAdds ==
  ASSUME BrowserTypeOK, NEW line \in LineRecords, lines' = Append(lines, line), NEW i \in Lines'
  PROVE  (i \in Lines /\ lines'[i] = lines[i]) \/ lines'[i] = line
<1>1. lines \in Seq(LineRecords)
  BY DEF BrowserTypeOK, LineRecords
<1> QED
  BY <1>1, LineWritten DEF Lines

\* What a call finds, and what it does not do.
LEMMA CallsLeave ==
  ASSUME BrowserInv, NEW c \in BrowserCalls,
         \/ Inspect(c) \/ LookForApproval(c) \/ Execute(c) \/ Receive(c) \/ AbandonCall(c)
         \/ CloseService(c) \/ ConsumeUsed(c) \/ Ask(c) \/ Judge(c)
  PROVE  OnlyCall(c) /\ LinesLeft /\ UNCHANGED worldVars
<1> USE DEF BrowserInv
<1>1. ASSUME Inspect(c) PROVE OnlyCall(c) /\ LinesLeft /\ UNCHANGED worldVars
  BY <1>1, InspectDoes, SomeLeave DEF serviceVars
<1>2. ASSUME LookForApproval(c) PROVE OnlyCall(c) /\ LinesLeft /\ UNCHANGED worldVars
  BY <1>2, LookDoes, SomeLeave DEF serviceVars
<1>3. ASSUME Execute(c) PROVE OnlyCall(c) /\ LinesLeft /\ UNCHANGED worldVars
  BY <1>3, ExecuteDoes, SomeLeave DEF Resets, Fails
<1>4. ASSUME Receive(c) PROVE OnlyCall(c) /\ LinesLeft /\ UNCHANGED worldVars
  BY <1>4, ReceiveDoes, SomeLeave, TailLeaves DEF Resets, Fails, Learns
<1>5. ASSUME AbandonCall(c) PROVE OnlyCall(c) /\ LinesLeft /\ UNCHANGED worldVars
  BY <1>5, AbandonDoes, SomeLeave DEF Resets, Fails
<1>6. ASSUME CloseService(c) PROVE OnlyCall(c) /\ LinesLeft /\ UNCHANGED worldVars
  BY <1>6, CloseDoes, SomeLeave DEF Resets
<1>7. ASSUME ConsumeUsed(c) PROVE OnlyCall(c) /\ LinesLeft /\ UNCHANGED worldVars
  BY <1>7, ConsumeDoes, SomeLeave DEF serviceVars
<1>8. ASSUME Ask(c) PROVE OnlyCall(c) /\ LinesLeft /\ UNCHANGED worldVars
  BY <1>8, AskDoes, SomeLeave DEF serviceVars
<1>9. ASSUME Judge(c) PROVE OnlyCall(c) /\ LinesLeft /\ UNCHANGED worldVars
  BY <1>9, JudgeDoes, SomeLeave DEF serviceVars
<1> QED
  BY <1>1, <1>2, <1>3, <1>4, <1>5, <1>6, <1>7, <1>8, <1>9

LEMMA LeftAreTold == OutcomesTold /\ LinesLeft => OutcomesTold'
  BY DEF OutcomesTold, LinesLeft, Work

LEMMA ToldKept ==
  ASSUME BrowserInv, BrowserNext \/ UNCHANGED browserVars
  PROVE  OutcomesTold'
<1> USE DEF BrowserInv
<1>1. ASSUME NEW c \in BrowserCalls,
             \/ Inspect(c) \/ LookForApproval(c) \/ Execute(c) \/ Receive(c) \/ AbandonCall(c)
             \/ CloseService(c) \/ ConsumeUsed(c) \/ Ask(c) \/ Judge(c)
      PROVE  OutcomesTold'
  BY <1>1, CallsLeave, LeftAreTold
<1>2. CASE AnswerRequest
  <2>1. PICK c \in BrowserCalls, at \in Executes, what \in Told :
          /\ lines' = Append(lines, [of |-> <<c, at>>, what |-> what])
          /\ at \in {"run", "again"} => what \in BrowserOutcomes
    BY <1>2, AnswerDoes DEF BrowserOutcomes
  <2> DEFINE line == [of |-> <<c, at>>, what |-> what]
  <2>2. line \in LineRecords /\ line.of = <<c, at>> /\ line.what = what /\ lines' = Append(lines, line)
    BY <2>1 DEF LineRecords, Ids
  <2> HIDE DEF line
  <2>3. \A o \in BrowserCalls : line.of \in Work(o) => line.what \in BrowserOutcomes
    <3>1. at \in {"run", "again"} => what \in BrowserOutcomes
      BY <2>1
    <3> QED
      BY <2>2, <3>1 DEF Work
  <2>4. ASSUME NEW o \in BrowserCalls, NEW i \in Lines', lines'[i].of \in Work(o)
        PROVE  lines'[i].what \in BrowserOutcomes
    <3>1. CASE i \in Lines /\ lines'[i] = lines[i]
      BY <2>4, <3>1 DEF OutcomesTold
    <3>2. CASE lines'[i] = line
      BY <2>3, <2>4, <3>2
    <3> QED
      BY <2>2, <3>1, <3>2, AppendAdds
  <2> QED
    BY <2>4 DEF OutcomesTold, Work
<1>3. CASE Noise
  <2> DEFINE line == [of |-> <<>>, what |-> "noise"]
  <2>1. lines' = Append(lines, line) /\ line \in LineRecords /\ line.of = <<>>
    BY <1>3 DEF Noise, LineRecords, Told
  <2> HIDE DEF line
  <2>2. ASSUME NEW o \in BrowserCalls, NEW i \in Lines', lines'[i].of \in Work(o)
        PROVE  lines'[i].what \in BrowserOutcomes
    <3>1. CASE i \in Lines /\ lines'[i] = lines[i]
      BY <2>2, <3>1 DEF OutcomesTold
    <3>2. lines'[i] # line
      <4>1. <<>> \notin Work(o)
        BY DEF Work
      <4> QED
        BY <2>1, <2>2, <4>1
    <3> QED
      BY <2>1, <3>1, <3>2, AppendAdds
  <2> QED
    BY <2>2 DEF OutcomesTold, Work
<1>4. CASE ChildDies
  BY <1>4, SomeLeave, LeftAreTold DEF ChildDies
<1>5. ASSUME NEW i \in Instances, Reconnect(i) PROVE OutcomesTold'
  BY <1>5, SomeLeave, LeftAreTold DEF Reconnect, serviceVars
<1>6. CASE UNCHANGED browserVars
  BY <1>6, SomeLeave, LeftAreTold DEF browserVars, serviceVars
<1> QED
  BY <1>1, <1>2, <1>3, <1>4, <1>5, <1>6 DEF BrowserNext

-----------------------------------------------------------------------------
(* How often a command is carried out. *)

LEMMA CallKeepsCount ==
  ASSUME BrowserTypeOK, Counted, NEW c \in BrowserCalls, OnlyCall(c), LinesLeft, UNCHANGED performed,
         \A o \in BrowserCalls \ {c} : request' \in Work(o) => request \in Work(o),
         \/ performed[c] = 0
         \/ /\ browserCall'[c].step \notin {"inspect", "look", "before", "close"} /\ request' \notin Work(c)
            /\ browserCall'[c].step \in {"run", "again"} => browserCall'[c].sent,
         browserCall'[c].step = "consume" /\ browserCall'[c].result = "ok" => performed[c] = 1
  PROVE  Counted'
<1> SUFFICES ASSUME NEW o \in BrowserCalls
             PROVE  /\ performed[o] \in {0, 1}
                    /\ browserCall'[o].step \in {"inspect", "look", "before", "close"} => performed[o] = 0
                    /\ browserCall'[o].step \in {"run", "again"} /\ ~browserCall'[o].sent => performed[o] = 0
                    /\ request' \in Work(o) => performed[o] = 0
                    /\ \A i \in Lines' :
                         lines'[i].of \in Work(o) =>
                           (lines'[i].what = "ok" => performed[o] = 1) /\ (lines'[i].what = "detached" => performed[o] = 0)
                    /\ browserCall'[o].step = "consume" /\ browserCall'[o].result = "ok" => performed[o] = 1
  BY DEF Counted, Work
<1>1. /\ performed[o] \in {0, 1}
      /\ \A i \in Lines' :
           lines'[i].of \in Work(o) =>
             (lines'[i].what = "ok" => performed[o] = 1) /\ (lines'[i].what = "detached" => performed[o] = 0)
  BY DEF Counted, LinesLeft
<1>2. CASE o = c
  BY <1>1, <1>2
<1>3. CASE o # c
  <2>1. browserCall'[o] = browserCall[o]
    BY <1>3 DEF OnlyCall
  <2> QED
    BY <1>1, <1>3, <2>1 DEF Counted
<1> QED
  BY <1>2, <1>3

\* A step between calls that carries out nothing.
LEMMA StillCounted ==
  ASSUME Counted, LinesLeft, UNCHANGED <<performed, browserCall>>, request' \in {request, <<>>}
  PROVE  Counted'
<1>1. \A c \in BrowserCalls : request' \in Work(c) => request \in Work(c)
  BY DEF Work
<1> QED
  BY <1>1 DEF Counted, LinesLeft, Work

\* The line that answers a request says what became of its command.
LEMMA AnswerCounts ==
  ASSUME BrowserInv, AnswerRequest
  PROVE  Counted'
<1> USE DEF BrowserInv
<1>1. PICK c \in BrowserCalls, at \in Executes, what \in Told :
        /\ request = <<c, at>> /\ request' = <<>> /\ lines' = Append(lines, [of |-> <<c, at>>, what |-> what])
        /\ \/ at \in {"before", "after"} /\ UNCHANGED worldVars
           \/ at \in {"run", "again"} /\ what \in BrowserOutcomes \ {"ok"} /\ UNCHANGED worldVars
           \/ at \in {"run", "again"} /\ what \in {"ok", "late"} /\ CarriesOut(c)
        /\ UNCHANGED browserCall
  BY AnswerDoes
<1> DEFINE line == [of |-> <<c, at>>, what |-> what]
<1>2. line \in LineRecords /\ \A i \in Lines' : (i \in Lines /\ lines'[i] = lines[i]) \/ lines'[i] = line
  <2>1. line \in LineRecords
    BY DEF LineRecords, Ids
  <2> QED
    BY <1>1, <2>1, AppendAdds
<1>3. \A o \in BrowserCalls : request' \notin Work(o)
  BY <1>1 DEF Work
<1>4. line.of = <<c, at>> /\ line.what = what
  OBVIOUS
<1>5. CASE at \in {"before", "after"} /\ UNCHANGED worldVars
  <2>1. \A o \in BrowserCalls : line.of \notin Work(o)
    BY <1>4, <1>5 DEF Work
  <2> HIDE DEF line
  <2> QED
    BY <1>1, <1>2, <1>3, <1>5, <2>1 DEF Counted, Work, worldVars
<1>6. CASE at \in {"run", "again"} /\ what \in BrowserOutcomes \ {"ok"} /\ UNCHANGED worldVars
  <2>1. performed[c] = 0
    BY <1>1, <1>6 DEF Counted, Work
  <2>2. \A o \in BrowserCalls : line.of \in Work(o) => o = c
    BY <1>4 DEF Work
  <2> HIDE DEF line
  <2>3. UNCHANGED <<performed, browserCall>>
    BY <1>1, <1>6 DEF worldVars
  <2>4. ASSUME NEW o \in BrowserCalls, NEW i \in Lines', lines'[i].of \in Work(o)
        PROVE  (lines'[i].what = "ok" => performed[o] = 1) /\ (lines'[i].what = "detached" => performed[o] = 0)
    <3>1. CASE i \in Lines /\ lines'[i] = lines[i]
      BY <2>4, <3>1 DEF Counted
    <3>2. CASE lines'[i] = line
      BY <1>4, <1>6, <2>1, <2>2, <2>4, <3>2
    <3> QED
      BY <1>2, <3>1, <3>2
  <2> QED
    BY <1>3, <2>3, <2>4 DEF Counted, Work
<1>7. CASE at \in {"run", "again"} /\ what \in {"ok", "late"} /\ CarriesOut(c)
  <2>1. performed[c] = 0 /\ request \in Work(c)
    BY <1>1, <1>7 DEF Counted, Work
  <2>2. performed'[c] = 1 /\ \A o \in BrowserCalls \ {c} : performed'[o] = performed[o]
    BY <1>7, <2>1 DEF CarriesOut, BrowserTypeOK
  <2>3. \/ browserCall[c].step = at /\ browserCall[c].sent
        \/ browserCall[c].step = "done"
    BY <1>1, <1>7 DEF AnsweredOnce, Issued
  <2>4. \A i \in Lines : lines[i].of \notin Work(c)
    BY <2>1 DEF AnsweredOnce
  <2>5. \A o \in BrowserCalls : line.of \in Work(o) => o = c
    BY <1>4 DEF Work
  <2> HIDE DEF line
  <2>6. ASSUME NEW o \in BrowserCalls
        PROVE  /\ performed'[o] \in {0, 1}
               /\ browserCall'[o].step \in {"inspect", "look", "before", "close"} => performed'[o] = 0
               /\ browserCall'[o].step \in {"run", "again"} /\ ~browserCall'[o].sent => performed'[o] = 0
               /\ request' \in Work(o) => performed'[o] = 0
               /\ \A i \in Lines' :
                    lines'[i].of \in Work(o) =>
                      (lines'[i].what = "ok" => performed'[o] = 1) /\ (lines'[i].what = "detached" => performed'[o] = 0)
               /\ browserCall'[o].step = "consume" /\ browserCall'[o].result = "ok" => performed'[o] = 1
    <3>1. CASE o = c
      <4>1. \A i \in Lines' : lines'[i].of \in Work(c) => lines'[i].what \in {"ok", "late"}
        BY <1>2, <1>4, <1>7, <2>4
      <4>2. browserCall'[c].step \notin {"inspect", "look", "before", "close", "consume"}
        BY <1>1, <1>7, <2>3
      <4>3. browserCall'[c].step \in {"run", "again"} => browserCall'[c].sent
        BY <1>1, <2>3
      <4> QED
        BY <1>3, <2>2, <3>1, <4>1, <4>2, <4>3
    <3>2. CASE o # c
      <4>1. performed'[o] = performed[o] /\ browserCall'[o] = browserCall[o]
        BY <1>1, <2>2, <3>2
      <4>2. \A i \in Lines' : lines'[i].of \in Work(o) => i \in Lines /\ lines'[i] = lines[i]
        BY <1>2, <2>5, <3>2
      <4> QED
        BY <1>3, <4>1, <4>2 DEF Counted
    <3> QED
      BY <3>1, <3>2
  <2> QED
    BY <2>6 DEF Counted, Work
<1> QED
  BY <1>1, <1>5, <1>6, <1>7

LEMMA ResetForgets == Resets => child'.granted = {} /\ \A o, x : request' # <<o, x>>
  BY DEF Resets, NoChild

-----------------------------------------------------------------------------
(* What calls have seen of the tabs. *)

\* A step of one call, or of the child, as the others see it.
LEMMA OthersSee ==
  ASSUME NEW o \in BrowserCalls, SeenBy(o), browserCall'[o] = browserCall[o], LinesLeft, UNCHANGED worldVars,
         request' = <<o, "after">> => request = <<o, "after">>
  PROVE  SeenBy(o)'
<1>1. (Own(o)' <=> Own(o)) /\ tab' = tab
  BY DEF Own, worldVars
<1>2. \A i \in Lines' : lines'[i].of = <<o, "after">> => Own(o) \/ lines'[i].what \in {"refused", browserCall[o].before}
  BY DEF LinesLeft, SeenBy
<1>3. browserCall[o].step = "before" =>
        \A i \in Lines' : lines'[i].of = <<o, "before">> => lines'[i].what \in {"refused", tab[browserCall[o].instance]}
  BY DEF LinesLeft, SeenBy
<1> HIDE DEF Own
<1> QED
  BY <1>1, <1>2, <1>3 DEF SeenBy

\* A call that works with what it has.
LEMMA SameSight ==
  ASSUME BrowserTypeOK, Seen, NEW c \in BrowserCalls, OnlyCall(c), LinesLeft, UNCHANGED worldVars, SameUrls(c),
         browserCall'[c].instance # browserCall[c].instance =>
           browserCall[c].step = "inspect" /\ browserCall'[c].instance \in Instances,
         browserCall[c].step \in {"inspect", "done"} =>
           browserCall'[c].step \in {"inspect", "done"} \/ browserCall'[c].instance \in Instances,
         browserCall'[c].step \in {"inspect", "look", "before"} =>
           browserCall[c].step \in {"inspect", "look", "before"},
         browserCall'[c].step = "before" => browserCall[c].step = "before" \/ \A i \in Lines : lines[i].of # <<c, "before">>,
         browserCall'[c].step # "judge",
         browserCall'[c].step = "after" => browserCall[c].before # Nobody,
         \A o \in BrowserCalls \ {c} : request' = <<o, "after">> => request = <<o, "after">>,
         request' = <<c, "after">> => browserCall[c].step = "after" \/ request = <<c, "after">>
  PROVE  Seen'
<1>1. ASSUME NEW o \in BrowserCalls \ {c} PROVE SeenBy(o)'
  BY OthersSee DEF Seen, OnlyCall
<1>2. (Own(c)' <=> Own(c)) /\ tab' = tab /\ browserCall'[c].before = browserCall[c].before
  BY DEF Own, worldVars, SameUrls
<1>3. SeenBy(c)
  BY DEF Seen
<1>4. \A i \in Lines' : lines'[i].of = <<c, "after">> => Own(c) \/ lines'[i].what \in {"refused", browserCall[c].before}
  BY <1>3 DEF LinesLeft, SeenBy
<1>5. browserCall[c].before # Nobody =>
        /\ browserCall'[c].step \notin {"inspect", "look", "before"}
        /\ browserCall'[c].instance = browserCall[c].instance
  BY <1>3 DEF SeenBy
<1>6. browserCall'[c].step = "before" =>
        \A i \in Lines' : lines'[i].of = <<c, "before">> => lines'[i].what \in {"refused", tab[browserCall'[c].instance]}
  <2>1. CASE browserCall[c].step = "before"
    <3>1. browserCall'[c].instance = browserCall[c].instance
      BY <2>1
    <3> QED
      BY <1>3, <2>1, <3>1 DEF SeenBy, LinesLeft
  <2>2. CASE \A i \in Lines : lines[i].of # <<c, "before">>
    BY <2>2 DEF LinesLeft
  <2> QED
    BY <2>1, <2>2
<1>7. browserCall'[c].step \in {"after", "judge"} \/ request' = <<c, "after">> => browserCall[c].before # Nobody
  BY <1>3 DEF SeenBy
<1>8. browserCall'[c].step \notin {"inspect", "done"} \/ browserCall'[c].before # Nobody => browserCall'[c].instance \in Instances
  BY <1>2, <1>3, <1>5 DEF SeenBy
<1> HIDE DEF Own
<1>9. SeenBy(c)'
  BY <1>2, <1>3, <1>4, <1>5, <1>6, <1>7, <1>8 DEF SeenBy
<1> QED
  BY <1>1, <1>9 DEF Seen

\* A call looks at the URL it was told.
LEMMA TheUrlIsSeen ==
  ASSUME BrowserInv, NEW c \in BrowserCalls, Receive(c), Learns(c, lines[1].what), UNCHANGED request,
         lines[1].of = <<c, browserCall[c].step>>, browserCall[c].step \in {"before", "after"}
  PROVE  Seen'
<1> USE DEF BrowserInv
<1>1. OnlyCall(c) /\ LinesLeft /\ UNCHANGED worldVars
  BY CallsLeave
<1>2. ASSUME NEW o \in BrowserCalls \ {c} PROVE SeenBy(o)'
  BY <1>1, OthersSee DEF Seen, OnlyCall
<1>3. (Own(c)' <=> Own(c)) /\ tab' = tab /\ browserCall'[c].instance = browserCall[c].instance
  BY <1>1 DEF Own, worldVars, Learns, SamePlace
<1>4. SeenBy(c) /\ 1 \in Lines
  BY ReceiveDoes DEF Seen, Lines, BrowserTypeOK
<1>5. CASE browserCall[c].step = "before"
  <2>1. /\ browserCall'[c].step = "run" /\ browserCall'[c].before \in {Nobody, tab[browserCall[c].instance]}
        /\ browserCall[c].instance \in Instances
    <3>1. /\ browserCall'[c].step = "run"
          /\ browserCall'[c].before = IF lines[1].what = "refused" THEN Nobody ELSE lines[1].what
      BY <1>5 DEF Learns, Comes, Work
    <3>2. lines[1].what \in {"refused", tab[browserCall[c].instance]} /\ browserCall[c].instance \in Instances
      BY <1>4, <1>5 DEF SeenBy
    <3> QED
      BY <3>1, <3>2
  <2>2. request # <<c, "after">> /\ \A i \in Lines : lines[i].of # <<c, "after">>
    <3>1. ~Issued(c, "after")
      BY <1>5 DEF Issued
    <3> QED
      BY <3>1 DEF AnsweredOnce, Executes
  <2>3. \A i \in Lines' : lines'[i].of # <<c, "after">>
    BY <1>1, <2>2 DEF LinesLeft
  <2> HIDE DEF Own
  <2>4. SeenBy(c)'
    BY <1>3, <2>1, <2>2, <2>3 DEF SeenBy
  <2> QED
    BY <1>2, <2>4 DEF Seen
<1>6. CASE browserCall[c].step = "after"
  <2>1. /\ browserCall'[c].step = "judge" /\ browserCall'[c].before = browserCall[c].before
        /\ browserCall'[c].after = IF lines[1].what = "refused" THEN Nobody ELSE lines[1].what
    BY <1>6 DEF Learns, Comes, Work
  <2>2. Own(c) \/ lines[1].what \in {"refused", browserCall[c].before}
    BY <1>4, <1>6 DEF SeenBy
  <2>3. Own(c) \/ browserCall'[c].after \in {Nobody, browserCall[c].before}
    BY <2>1, <2>2
  <2>4. \A i \in Lines' : lines'[i].of = <<c, "after">> => Own(c) \/ lines'[i].what \in {"refused", browserCall[c].before}
    BY <1>1, <1>4 DEF SeenBy, LinesLeft
  <2>5. /\ browserCall[c].before # Nobody /\ browserCall[c].instance \in Instances
        /\ Own(c) \/ tab[browserCall[c].instance] = browserCall[c].before
    BY <1>4, <1>6 DEF SeenBy
  <2> HIDE DEF Own
  <2>6. SeenBy(c)'
    BY <1>3, <2>1, <2>3, <2>4, <2>5 DEF SeenBy
  <2> QED
    BY <1>2, <2>6 DEF Seen
<1> QED
  BY <1>5, <1>6

\* The child reports the URL of a tab, or what became of a command.
LEMMA AnswerSees ==
  ASSUME BrowserInv, AnswerRequest
  PROVE  Seen'
<1> USE DEF BrowserInv
<1>1. PICK c \in BrowserCalls, at \in Executes, what \in Told :
        /\ request = <<c, at>> /\ request' = <<>> /\ lines' = Append(lines, [of |-> <<c, at>>, what |-> what])
        /\ \/ /\ at \in {"before", "after"} /\ UNCHANGED worldVars
              /\ what = "refused" \/ (browserCall[c].instance \in Instances /\ what = tab[browserCall[c].instance])
           \/ at \in {"run", "again"} /\ UNCHANGED worldVars
           \/ at \in {"run", "again"} /\ CarriesOut(c) /\ browserCall[c].instance \in Instances
        /\ UNCHANGED browserCall
  BY AnswerDoes
<1> DEFINE line == [of |-> <<c, at>>, what |-> what]
<1>2. /\ line \in LineRecords /\ line.of = <<c, at>> /\ line.what = what
      /\ \A i \in Lines' : (i \in Lines /\ lines'[i] = lines[i]) \/ lines'[i] = line
  <2>1. line \in LineRecords
    BY DEF LineRecords, Ids
  <2> QED
    BY <1>1, <2>1, AppendAdds
<1> HIDE DEF line
<1>3. \A o, x : request' # <<o, x>>
  BY <1>1
<1>4. CASE UNCHANGED worldVars
  <2>1. ASSUME NEW o \in BrowserCalls PROVE SeenBy(o)'
    <3>1. SeenBy(o) /\ (Own(o)' <=> Own(o)) /\ tab' = tab /\ browserCall' = browserCall
      BY <1>1, <1>4 DEF Seen, Own, worldVars
    <3>2. ASSUME browserCall[o].step = "before", NEW i \in Lines', lines'[i].of = <<o, "before">>
          PROVE  lines'[i].what \in {"refused", tab[browserCall[o].instance]}
      <4>1. CASE i \in Lines /\ lines'[i] = lines[i]
        BY <3>1, <3>2, <4>1 DEF SeenBy
      <4>2. CASE lines'[i] = line
        <5>1. o = c /\ at = "before"
          BY <1>2, <3>2, <4>2
        <5> QED
          BY <1>1, <1>2, <4>2, <5>1
      <4> QED
        BY <1>2, <4>1, <4>2
    <3>3. ASSUME NEW i \in Lines', lines'[i].of = <<o, "after">>
          PROVE  Own(o) \/ lines'[i].what \in {"refused", browserCall[o].before}
      <4>1. CASE i \in Lines /\ lines'[i] = lines[i]
        BY <3>1, <3>3, <4>1 DEF SeenBy
      <4>2. CASE lines'[i] = line
        <5>1. o = c /\ at = "after"
          BY <1>2, <3>3, <4>2
        <5>2. Own(c) \/ tab[browserCall[c].instance] = browserCall[c].before
          BY <1>1, <3>1, <5>1 DEF SeenBy
        <5>3. what \in {"refused", tab[browserCall[c].instance]}
          BY <1>1, <5>1
        <5> QED
          BY <1>2, <4>2, <5>1, <5>2, <5>3
      <4> QED
        BY <1>2, <4>1, <4>2
    <3> HIDE DEF Own
    <3> QED
      BY <1>3, <3>1, <3>2, <3>3 DEF SeenBy
  <2> QED
    BY <2>1 DEF Seen
<1>5. CASE at \in {"run", "again"} /\ CarriesOut(c) /\ browserCall[c].instance \in Instances
  <2>1. performed[c] = 0 /\ request \in Work(c)
    BY <1>1, <1>5 DEF Counted, Work
  <2>2. performed'[c] = 1 /\ \A o \in BrowserCalls \ {c} : performed'[o] = performed[o]
    BY <1>5, <2>1 DEF CarriesOut, BrowserTypeOK
  <2>3. /\ crossed \subseteq crossed'
        /\ \/ tab' = tab
           \/ /\ tab' = [tab EXCEPT ![browserCall[c].instance] = c]
              /\ \A o \in BrowserCalls \ {c} :
                   browserCall[o].instance = browserCall[c].instance /\ browserCall[o].before # Nobody => o \in crossed'
    BY <1>5 DEF CarriesOut
  <2>4. \A i \in Lines', o \in BrowserCalls, x \in {"before", "after"} :
          lines'[i].of = <<o, x>> => i \in Lines /\ lines'[i] = lines[i]
    <3>1. \A o \in BrowserCalls, x \in {"before", "after"} : line.of # <<o, x>>
      BY <1>2, <1>5
    <3> QED
      BY <1>2, <3>1
  <2>5. ASSUME NEW o \in BrowserCalls PROVE SeenBy(o)'
    <3>1. SeenBy(o) /\ browserCall' = browserCall
      BY <1>1 DEF Seen
    <3>2. CASE o = c
      <4>1. Own(c)'
        BY <2>2 DEF Own
      <4>2. browserCall[c].step \notin {"inspect", "look", "before"}
        BY <1>1, <1>5 DEF AnsweredOnce, Issued
      <4> HIDE DEF Own
      <4> QED
        BY <1>3, <3>1, <3>2, <4>1, <4>2 DEF SeenBy
    <3>3. CASE o # c
      <4>1. Own(o) => Own(o)'
        BY <2>2, <2>3, <3>3 DEF Own
      <4>2. browserCall[o].before # Nobody => Own(o)' \/ tab'[browserCall[o].instance] = browserCall[o].before
        <5>1. SUFFICES ASSUME browserCall[o].before # Nobody, ~Own(o)'
                       PROVE  tab'[browserCall[o].instance] = browserCall[o].before
          OBVIOUS
        <5>2. browserCall[o].instance \in Instances /\ tab[browserCall[o].instance] = browserCall[o].before
          BY <3>1, <4>1, <5>1 DEF SeenBy
        <5>3. tab' = tab \/ browserCall[o].instance # browserCall[c].instance
          BY <2>3, <3>3, <5>1 DEF Own
        <5> QED
          BY <2>3, <5>2, <5>3 DEF BrowserTypeOK
      <4>3. browserCall[o].step = "before" => \A i \in Lines : lines[i].of # <<o, "before">>
        <5>1. SUFFICES ASSUME browserCall[o].step = "before", NEW i \in Lines, lines[i].of = <<o, "before">> PROVE FALSE
          OBVIOUS
        <5>2. browserCall[o].sent
          BY <5>1 DEF AnsweredOnce, Executes, Issued
        <5>3. inService = o /\ o # Nobody
          BY <5>2, BrowserConstants DEF InTurn
        <5>4. request \in {<<>>, <<o, browserCall[o].step>>}
          BY <5>3 DEF InTurn
        <5> QED
          BY <1>1, <3>3, <5>4
      <4>4. \A i \in Lines' : lines'[i].of = <<o, "after">> => Own(o)' \/ lines'[i].what \in {"refused", browserCall[o].before}
        <5>1. \A i \in Lines : lines[i].of = <<o, "after">> => Own(o) \/ lines[i].what \in {"refused", browserCall[o].before}
          BY <3>1 DEF SeenBy
        <5> QED
          BY <2>4, <4>1, <5>1
      <4>5. browserCall[o].step = "before" => \A i \in Lines' : lines'[i].of # <<o, "before">>
        BY <2>4, <4>3
      <4>6. browserCall[o].step = "judge" => Own(o)' \/ browserCall[o].after \in {Nobody, browserCall[o].before}
        BY <3>1, <4>1 DEF SeenBy
      <4> HIDE DEF Own
      <4> QED
        BY <1>3, <3>1, <4>2, <4>4, <4>5, <4>6 DEF SeenBy
    <3> QED
      BY <3>2, <3>3
  <2> QED
    BY <2>5 DEF Seen
<1> QED
  BY <1>1, <1>4, <1>5

LEMMA SightStays ==
  ASSUME Seen, LinesLeft, UNCHANGED <<worldVars, browserCall>>, request' \in {request, <<>>}
  PROVE  Seen'
  BY OthersSee DEF Seen

\* What one step carries out, and what calls say afterwards.
LEMMA SuccessStays ==
  ASSUME BrowserTypeOK, SuccessIsOwn, NEW c \in BrowserCalls, OnlyCall(c), UNCHANGED worldVars,
         browserCall'[c].step = "done" /\ browserCall'[c].result = "ok" => Own(c)
  PROVE  SuccessIsOwn'
<1> SUFFICES ASSUME NEW o \in BrowserCalls, browserCall'[o].step = "done", browserCall'[o].result = "ok"
             PROVE  performed[o] = 1 \/ o \in crossed
  BY DEF SuccessIsOwn, BrowserAt, worldVars
<1>1. CASE o = c
  BY <1>1 DEF Own
<1>2. CASE o # c
  <2>1. browserCall'[o] = browserCall[o]
    BY <1>2 DEF OnlyCall
  <2> QED
    BY <2>1 DEF SuccessIsOwn, BrowserAt
<1> QED
  BY <1>1, <1>2

LEMMA CarriedOut ==
  ASSUME BrowserInv, AnswerRequest
  PROVE  SuccessIsOwn' /\ OnlyPermitted'
<1> USE DEF BrowserInv
<1>1. PICK c \in BrowserCalls, at \in Executes :
        /\ request = <<c, at>>
        /\ \/ UNCHANGED worldVars
           \/ at \in {"run", "again"} /\ CarriesOut(c) /\ (c \in Prompted => BrowserSession[c] \in permitted)
        /\ UNCHANGED <<browserCall, permitted>>
  BY AnswerDoes
<1>2. CASE UNCHANGED worldVars
  BY <1>1, <1>2 DEF worldVars, SuccessIsOwn, OnlyPermitted, BrowserAt
<1>3. CASE at \in {"run", "again"} /\ CarriesOut(c) /\ (c \in Prompted => BrowserSession[c] \in permitted)
  <2>1. performed[c] = 0
    BY <1>1, <1>3 DEF Counted, Work
  <2>2. /\ performed'[c] = 1 /\ \A o \in BrowserCalls \ {c} : performed'[o] = performed[o]
        /\ crossed \subseteq crossed'
    BY <1>3, <2>1 DEF CarriesOut, BrowserTypeOK
  <2>3. SuccessIsOwn'
    BY <1>1, <2>2 DEF SuccessIsOwn, BrowserAt
  <2>4. OnlyPermitted'
    BY <1>1, <1>3, <2>2, BrowserConstants DEF OnlyPermitted
  <2> QED
    BY <2>3, <2>4
<1> QED
  BY <1>1, <1>2, <1>3

-----------------------------------------------------------------------------
(* One lemma for each part of BrowserInv. *)

\* Every step keeps the types.
LEMMA BrowserTypeKept ==
  ASSUME BrowserInv, BrowserNext \/ UNCHANGED browserVars
  PROVE  BrowserTypeOK'
<1> USE BrowserConstants DEF BrowserInv
<1>1. ASSUME NEW c \in BrowserCalls, Inspect(c) PROVE BrowserTypeOK'
  BY <1>1, InspectDoes DEF OnlyCall, serviceVars, worldVars, browserBounds, BrowserTypeOK, CallRecords
<1>2. ASSUME NEW c \in BrowserCalls, LookForApproval(c) PROVE BrowserTypeOK'
  BY <1>2, LookDoes DEF OnlyCall, serviceVars, worldVars, browserBounds, BrowserTypeOK, CallRecords
<1>3. ASSUME NEW c \in BrowserCalls, Execute(c) PROVE BrowserTypeOK'
  <2>1. lines' \in Seq(LineRecords)
    BY <1>3, ExecuteDoes, NothingWritten DEF Resets, BrowserTypeOK, LineRecords
  <2>2. request' \in Ids \cup {<<>>}
    <3>1. <<c, browserCall[c].step>> \in Ids
      BY <1>3, ExecuteDoes DEF Ids
    <3> QED
      BY <1>3, <3>1, ExecuteDoes DEF Resets
  <2>3. child' \in ChildRecords
    <3>1. child \in ChildRecords
      BY DEF BrowserTypeOK, ChildRecords
    <3> QED
      BY <1>3, <3>1, ExecuteDoes, NewChild DEF Resets
  <2> QED
    BY <1>3, <2>1, <2>2, <2>3, ExecuteDoes DEF OnlyCall, Fails, worldVars, BrowserTypeOK, CallRecords, LineRecords, ChildRecords
<1>4. ASSUME NEW c \in BrowserCalls, Receive(c) PROVE BrowserTypeOK'
  <2>1. lines' \in Seq(LineRecords)
    <3>1. lines \in Seq(LineRecords)
      BY DEF BrowserTypeOK, LineRecords
    <3> QED
      BY <1>4, <3>1, ReceiveDoes, NothingWritten, FirstLineRead DEF Resets
  <2>2. request' \in Ids \cup {<<>>} /\ child' \in [state : {"none", "up", "dead"}, granted : SUBSET BrowserSessions]
    BY <1>4, ReceiveDoes DEF Resets, NoChild, BrowserTypeOK
  <2> QED
    BY <1>4, <2>1, <2>2, ReceiveDoes
       DEF OnlyCall, Fails, Learns, worldVars, browserBounds, BrowserTypeOK, CallRecords, LineRecords
<1>5. ASSUME NEW c \in BrowserCalls, AbandonCall(c) PROVE BrowserTypeOK'
  <2>1. /\ lines' \in Seq(LineRecords) /\ request' = <<>>
        /\ child' \in ChildRecords
    BY <1>5, AbandonDoes, NothingWritten, NewChild DEF Resets
  <2> QED
    BY <1>5, <2>1, AbandonDoes
       DEF OnlyCall, Fails, worldVars, browserBounds, BrowserTypeOK, CallRecords, LineRecords, ChildRecords
<1>6. ASSUME NEW c \in BrowserCalls, CloseService(c) PROVE BrowserTypeOK'
  <2>1. /\ lines' \in Seq(LineRecords) /\ request' = <<>>
        /\ child' \in ChildRecords
    BY <1>6, CloseDoes, NothingWritten, NewChild DEF Resets
  <2> QED
    BY <1>6, <2>1, CloseDoes
       DEF OnlyCall, Fails, worldVars, browserBounds, BrowserTypeOK, CallRecords, LineRecords, ChildRecords
<1>7. ASSUME NEW c \in BrowserCalls, ConsumeUsed(c) PROVE BrowserTypeOK'
  BY <1>7, ConsumeDoes DEF OnlyCall, serviceVars, worldVars, browserBounds, BrowserTypeOK, CallRecords
<1>8. ASSUME NEW c \in BrowserCalls, Ask(c) PROVE BrowserTypeOK'
  BY <1>8, AskDoes DEF OnlyCall, serviceVars, worldVars, browserBounds, BrowserTypeOK, CallRecords
<1>9. ASSUME NEW c \in BrowserCalls, Judge(c) PROVE BrowserTypeOK'
  BY <1>9, JudgeDoes DEF OnlyCall, serviceVars, worldVars, browserBounds, BrowserTypeOK, CallRecords
<1>10. CASE AnswerRequest
  <2>1. PICK c \in BrowserCalls, at \in Executes, what \in Told :
          /\ request = <<c, at>> /\ request' = <<>> /\ lines' = Append(lines, [of |-> <<c, at>>, what |-> what])
          /\ \/ UNCHANGED worldVars
             \/ at \in {"run", "again"} /\ CarriesOut(c)
          /\ child' \in [state : {"up", "dead"}, granted : SUBSET BrowserSessions]
          /\ UNCHANGED <<browserCall, inService, confirmation, connected, permitted, browserMoves>>
          /\ browserFaults' \in 0..MaxBrowserFaults
    BY <1>10, AnswerDoes
  <2>2. lines' \in Seq(LineRecords)
    <3>1. lines \in Seq(LineRecords) /\ [of |-> <<c, at>>, what |-> what] \in LineRecords
      BY DEF BrowserTypeOK, LineRecords, Ids
    <3> QED
      BY <2>1, <3>1, LineWritten
  <2>3. /\ tab' \in [Instances -> BrowserCalls \cup {"start"}] /\ performed' \in [BrowserCalls -> 0..2]
        /\ crossed' \subseteq BrowserCalls
    <3>1. CASE UNCHANGED worldVars
      BY <3>1 DEF worldVars, BrowserTypeOK
    <3>2. CASE at \in {"run", "again"} /\ CarriesOut(c)
      <4>1. performed[c] = 0
        BY <2>1, <3>2 DEF Counted, Work
      <4>2. performed' \in [BrowserCalls -> 0..2]
        BY <3>2, <4>1 DEF CarriesOut, BrowserTypeOK
      <4> QED
        BY <3>2, <4>2 DEF CarriesOut, BrowserTypeOK
    <3> QED
      BY <2>1, <3>1, <3>2
  <2>4. child' \in [state : {"none", "up", "dead"}, granted : SUBSET BrowserSessions]
    BY <2>1
  <2> QED
    BY <2>1, <2>2, <2>3, <2>4 DEF BrowserTypeOK, LineRecords
<1>11. CASE ChildDies
  BY <1>11, FaultCounted DEF ChildDies, worldVars, BrowserTypeOK, CallRecords
<1>12. CASE Noise
  <2>1. lines' \in Seq(LineRecords)
    <3>1. lines \in Seq(LineRecords) /\ [of |-> <<>>, what |-> "noise"] \in LineRecords
      BY DEF BrowserTypeOK, LineRecords, Told
    <3> QED
      BY <1>12, <3>1, LineWritten DEF Noise
  <2> QED
    BY <1>12, <2>1, FaultCounted DEF Noise, worldVars, BrowserTypeOK, LineRecords
<1>13. ASSUME NEW i \in Instances, Reconnect(i) PROVE BrowserTypeOK'
  BY <1>13 DEF Reconnect, serviceVars, worldVars, BrowserTypeOK, CallRecords
<1>14. CASE UNCHANGED browserVars
  BY <1>14 DEF browserVars, serviceVars, worldVars, browserBounds, BrowserTypeOK, CallRecords
<1> QED
  BY <1>1, <1>2, <1>3, <1>4, <1>5, <1>6, <1>7, <1>8, <1>9, <1>10, <1>11, <1>12, <1>13, <1>14 DEF BrowserNext

\* One call at a time uses the child.
LEMMA TurnKept ==
  ASSUME BrowserInv, BrowserNext \/ UNCHANGED browserVars
  PROVE  InTurn'
<1> USE BrowserConstants DEF BrowserInv
<1>1. ASSUME NEW c \in BrowserCalls, Inspect(c) PROVE InTurn'
  <2>1. OnlyCall(c) /\ ~browserCall[c].sent /\ ~browserCall'[c].sent /\ inService' = inService /\ request' \in {request, <<>>}
    BY <1>1, InspectDoes, NotSent DEF Executes, Comes, serviceVars, Resets
  <2> QED
    BY <2>1, AsideKeepsTurn
<1>2. ASSUME NEW c \in BrowserCalls, LookForApproval(c) PROVE InTurn'
  <2>1. OnlyCall(c) /\ ~browserCall[c].sent /\ ~browserCall'[c].sent /\ inService' = inService /\ request' \in {request, <<>>}
    BY <1>2, LookDoes, NotSent DEF Executes, Comes, serviceVars, Resets
  <2> QED
    BY <2>1, AsideKeepsTurn
<1>3. ASSUME NEW c \in BrowserCalls, Execute(c) PROVE InTurn'
  <2>1. CASE Resets /\ Fails(c) /\ UNCHANGED inService
    <3>1. OnlyCall(c) /\ ~browserCall[c].sent /\ ~browserCall'[c].sent /\ inService' = inService /\ request' \in {request, <<>>}
      BY <1>3, <2>1, ExecuteDoes DEF Comes, Fails, Resets
    <3> QED
      BY <3>1, AsideKeepsTurn
  <2> QED
    BY <1>3, <2>1, ExecuteDoes, SendingKeepsTurn
<1>4. ASSUME NEW c \in BrowserCalls, Receive(c) PROVE InTurn'
  <2>1. OnlyCall(c) /\ ~browserCall'[c].sent /\ inService = c /\ inService' = Nobody
    BY <1>4, ReceiveDoes DEF Comes, Fails, Learns
  <2> QED
    BY <2>1, LeavingKeepsTurn
<1>5. ASSUME NEW c \in BrowserCalls, AbandonCall(c) PROVE InTurn'
  <2>1. OnlyCall(c) /\ ~browserCall'[c].sent /\ inService = c /\ inService' = Nobody
    BY <1>5, AbandonDoes DEF Comes, Fails, Learns
  <2> QED
    BY <2>1, LeavingKeepsTurn
<1>6. ASSUME NEW c \in BrowserCalls, CloseService(c) PROVE InTurn'
  <2>1. OnlyCall(c) /\ ~browserCall[c].sent /\ ~browserCall'[c].sent /\ inService' = inService /\ request' \in {request, <<>>}
    BY <1>6, CloseDoes, NotSent DEF Executes, Comes, serviceVars, Resets
  <2> QED
    BY <2>1, AsideKeepsTurn
<1>7. ASSUME NEW c \in BrowserCalls, ConsumeUsed(c) PROVE InTurn'
  <2>1. OnlyCall(c) /\ ~browserCall[c].sent /\ ~browserCall'[c].sent /\ inService' = inService /\ request' \in {request, <<>>}
    BY <1>7, ConsumeDoes, NotSent DEF Executes, Comes, serviceVars, Resets
  <2> QED
    BY <2>1, AsideKeepsTurn
<1>8. ASSUME NEW c \in BrowserCalls, Ask(c) PROVE InTurn'
  <2>1. OnlyCall(c) /\ ~browserCall[c].sent /\ ~browserCall'[c].sent /\ inService' = inService /\ request' \in {request, <<>>}
    BY <1>8, AskDoes, NotSent DEF Executes, Comes, serviceVars, Resets
  <2> QED
    BY <2>1, AsideKeepsTurn
<1>9. ASSUME NEW c \in BrowserCalls, Judge(c) PROVE InTurn'
  <2>1. OnlyCall(c) /\ ~browserCall[c].sent /\ ~browserCall'[c].sent /\ inService' = inService /\ request' \in {request, <<>>}
    BY <1>9, JudgeDoes, NotSent DEF Executes, Comes, serviceVars, Resets
  <2> QED
    BY <2>1, AsideKeepsTurn
<1>10. CASE AnswerRequest
  BY <1>10, AnswerDoes DEF InTurn
<1>11. CASE ChildDies
  BY <1>11 DEF ChildDies, InTurn
<1>12. CASE Noise
  BY <1>12 DEF Noise, InTurn
<1>13. ASSUME NEW i \in Instances, Reconnect(i) PROVE InTurn'
  BY <1>13 DEF Reconnect, serviceVars, worldVars, InTurn
<1>14. CASE UNCHANGED browserVars
  BY <1>14 DEF browserVars, serviceVars, worldVars, browserBounds, InTurn
<1> QED
  BY <1>1, <1>2, <1>3, <1>4, <1>5, <1>6, <1>7, <1>8, <1>9, <1>10, <1>11, <1>12, <1>13, <1>14 DEF BrowserNext

\* Every request is answered once.
LEMMA AnswersKept ==
  ASSUME BrowserInv, BrowserNext \/ UNCHANGED browserVars
  PROVE  AnsweredOnce'
<1> USE BrowserConstants DEF BrowserInv
<1>1. ASSUME NEW c \in BrowserCalls, Inspect(c) PROVE AnsweredOnce'
  <2>1. /\ OnlyCall(c) /\ ~browserCall[c].sent /\ browserCall[c].step # "done"
        /\ browserCall[c].step \notin {"inspect", "look", "before"} => browserCall'[c].step \notin {"inspect", "look", "before"}
        /\ request' = request /\ lines' = lines
    BY <1>1, InspectDoes, NotSent DEF Executes, Comes, serviceVars
  <2> QED
    BY <2>1, AsideKeepsAnswers
<1>2. ASSUME NEW c \in BrowserCalls, LookForApproval(c) PROVE AnsweredOnce'
  <2>1. /\ OnlyCall(c) /\ ~browserCall[c].sent /\ browserCall[c].step # "done"
        /\ browserCall[c].step \notin {"inspect", "look", "before"} => browserCall'[c].step \notin {"inspect", "look", "before"}
        /\ request' = request /\ lines' = lines
    BY <1>2, LookDoes, NotSent DEF Executes, Comes, serviceVars
  <2> QED
    BY <2>1, AsideKeepsAnswers
<1>3. ASSUME NEW c \in BrowserCalls, Execute(c) PROVE AnsweredOnce'
  <2>1. CASE Resets /\ Fails(c) /\ UNCHANGED inService
    BY <2>1, NothingAsked DEF Resets
  <2>2. CASE ~(Resets /\ Fails(c) /\ UNCHANGED inService)
    <3>1. PICK step \in Executes : browserCall[c].step = step
      BY <1>3, ExecuteDoes
    <3>2. /\ OnlyCall(c) /\ ~browserCall[c].sent /\ Comes(c, step, TRUE, browserCall[c].result)
          /\ request' = <<c, step>> /\ lines' \in {lines, <<>>}
      BY <1>3, <2>2, <3>1, ExecuteDoes
    <3> QED
      BY <3>1, <3>2, SendingKeepsAnswers
  <2> QED
    BY <2>1, <2>2
<1>4. ASSUME NEW c \in BrowserCalls, Receive(c) PROVE AnsweredOnce'
  <2>1. CASE Resets /\ Fails(c)
    BY <2>1, NothingAsked DEF Resets
  <2>2. CASE lines' = Tail(lines) /\ UNCHANGED <<child, request>> /\ Fails(c)
    <3>1. \A o \in BrowserCalls, at \in Executes : Issued(o, at) => Issued(o, at)'
      <4>1. browserCall[c].step \in Executes
        BY <1>4, ReceiveDoes DEF InTurn
      <4> QED
        BY <2>2, <4>1, IssuedStays DEF Fails, Comes, Executes
    <3> QED
      BY <1>4, <2>2, <3>1, ReceiveDoes, TailKeepsAnswers
  <2>3. CASE /\ lines[1].of = <<c, browserCall[c].step>>
             /\ lines' = Tail(lines) /\ UNCHANGED <<child, request>> /\ Learns(c, lines[1].what)
    <3>1. browserCall[c].step \in Executes /\ 1 \in Lines /\ lines # <<>>
      BY <1>4, ReceiveDoes DEF InTurn, Lines, BrowserTypeOK
    <3>2. request # <<c, browserCall[c].step>>
      BY <2>3, <3>1 DEF AnsweredOnce
    <3>3. \A o \in BrowserCalls, at \in Executes :
            Issued(o, at) => Issued(o, at)' \/ (<<o, at>> = lines[1].of /\ request # <<o, at>>)
      <4>1. /\ OnlyCall(c) /\ browserCall[c].step # "done"
            /\ browserCall[c].step \notin {"inspect", "look", "before"} =>
                 browserCall'[c].step \notin {"inspect", "look", "before"}
        BY <2>3, <3>1 DEF Learns, Comes, Executes
      <4> QED
        BY <2>3, <3>2, <4>1, IssuedStays
    <3> QED
      BY <2>3, <3>1, <3>3, TailKeepsAnswers
  <2> QED
    BY <1>4, <2>1, <2>2, <2>3, ReceiveDoes
<1>5. ASSUME NEW c \in BrowserCalls, AbandonCall(c) PROVE AnsweredOnce'
  BY <1>5, AbandonDoes, NothingAsked DEF Resets
<1>6. ASSUME NEW c \in BrowserCalls, CloseService(c) PROVE AnsweredOnce'
  BY <1>6, CloseDoes, NothingAsked DEF Resets
<1>7. ASSUME NEW c \in BrowserCalls, ConsumeUsed(c) PROVE AnsweredOnce'
  <2>1. /\ OnlyCall(c) /\ ~browserCall[c].sent /\ browserCall[c].step # "done"
        /\ browserCall[c].step \notin {"inspect", "look", "before"} => browserCall'[c].step \notin {"inspect", "look", "before"}
        /\ request' = request /\ lines' = lines
    BY <1>7, ConsumeDoes, NotSent DEF Executes, Comes, serviceVars
  <2> QED
    BY <2>1, AsideKeepsAnswers
<1>8. ASSUME NEW c \in BrowserCalls, Ask(c) PROVE AnsweredOnce'
  <2>1. /\ OnlyCall(c) /\ ~browserCall[c].sent /\ browserCall[c].step # "done"
        /\ browserCall[c].step \notin {"inspect", "look", "before"} => browserCall'[c].step \notin {"inspect", "look", "before"}
        /\ request' = request /\ lines' = lines
    BY <1>8, AskDoes, NotSent DEF Executes, Comes, serviceVars
  <2> QED
    BY <2>1, AsideKeepsAnswers
<1>9. ASSUME NEW c \in BrowserCalls, Judge(c) PROVE AnsweredOnce'
  <2>1. /\ OnlyCall(c) /\ ~browserCall[c].sent /\ browserCall[c].step # "done"
        /\ browserCall[c].step \notin {"inspect", "look", "before"} => browserCall'[c].step \notin {"inspect", "look", "before"}
        /\ request' = request /\ lines' = lines
    BY <1>9, JudgeDoes, NotSent DEF Executes, Comes, serviceVars
  <2> QED
    BY <2>1, AsideKeepsAnswers
<1>10. CASE AnswerRequest
  <2>1. PICK c \in BrowserCalls, at \in Executes, what \in Told :
          /\ request = <<c, at>> /\ request' = <<>> /\ lines' = Append(lines, [of |-> <<c, at>>, what |-> what])
          /\ UNCHANGED browserCall
    BY <1>10, AnswerDoes
  <2>2. [of |-> <<c, at>>, what |-> what] \in LineRecords /\ request # <<>>
    BY <2>1 DEF LineRecords, Ids
  <2> QED
    BY <2>1, <2>2, AppendKeepsAnswers
<1>11. CASE ChildDies
  <2>1. request' = <<>> /\ UNCHANGED <<browserCall, lines>>
    BY <1>11 DEF ChildDies
  <2>2. \A o, at : Issued(o, at)' <=> Issued(o, at)
    BY <2>1 DEF Issued
  <2>3. \A o, at : request' # <<o, at>>
    BY <2>1
  <2>4. Lines' = Lines
    BY <2>1 DEF Lines
  <2> QED
    BY <2>1, <2>2, <2>3, <2>4 DEF AnsweredOnce, Work
<1>12. CASE Noise
  <2>1. [of |-> <<>>, what |-> "noise"] \in LineRecords
    BY DEF LineRecords, Told
  <2> QED
    BY <1>12, <2>1, AppendKeepsAnswers DEF Noise
<1>13. ASSUME NEW i \in Instances, Reconnect(i) PROVE AnsweredOnce'
  BY <1>13 DEF Reconnect, serviceVars, AnsweredOnce, Issued, Lines
<1>14. CASE UNCHANGED browserVars
  BY <1>14 DEF browserVars, serviceVars, AnsweredOnce, Issued, Lines
<1> QED
  BY <1>1, <1>2, <1>3, <1>4, <1>5, <1>6, <1>7, <1>8, <1>9, <1>10, <1>11, <1>12, <1>13, <1>14 DEF BrowserNext

\* No command is carried out twice for one call.
LEMMA CountKept ==
  ASSUME BrowserInv, BrowserNext \/ UNCHANGED browserVars
  PROVE  Counted'
<1> USE BrowserConstants DEF BrowserInv
<1>1. ASSUME NEW c \in BrowserCalls, Inspect(c) PROVE Counted'
  <2>1. /\ \A o \in BrowserCalls \ {c} : request' \in Work(o) => request \in Work(o)
        /\ \/ performed[c] = 0
           \/ /\ browserCall'[c].step \notin {"inspect", "look", "before", "close"} /\ request' \notin Work(c)
              /\ browserCall'[c].step \in {"run", "again"} => browserCall'[c].sent
        /\ browserCall'[c].step = "consume" /\ browserCall'[c].result = "ok" => performed[c] = 1
    <3>1. browserCall[c].step \notin {"inspect", "look"} => request \notin Work(c) \/ performed[c] = 0
      BY DEF Counted
    <3> QED
      BY <1>1, <3>1, InspectDoes DEF Comes, serviceVars, Counted
  <2> QED
    BY <1>1, <2>1, CallsLeave, CallKeepsCount DEF worldVars
<1>2. ASSUME NEW c \in BrowserCalls, LookForApproval(c) PROVE Counted'
  <2>1. /\ \A o \in BrowserCalls \ {c} : request' \in Work(o) => request \in Work(o)
        /\ \/ performed[c] = 0
           \/ /\ browserCall'[c].step \notin {"inspect", "look", "before", "close"} /\ request' \notin Work(c)
              /\ browserCall'[c].step \in {"run", "again"} => browserCall'[c].sent
        /\ browserCall'[c].step = "consume" /\ browserCall'[c].result = "ok" => performed[c] = 1
    <3>1. browserCall[c].step \notin {"inspect", "look"} => request \notin Work(c) \/ performed[c] = 0
      BY DEF Counted
    <3> QED
      BY <1>2, <3>1, LookDoes DEF Comes, serviceVars, Counted
  <2> QED
    BY <1>2, <2>1, CallsLeave, CallKeepsCount DEF worldVars
<1>3. ASSUME NEW c \in BrowserCalls, Execute(c) PROVE Counted'
  <2>1. /\ \A o \in BrowserCalls \ {c} : request' \in Work(o) => request \in Work(o)
        /\ \/ performed[c] = 0
           \/ /\ browserCall'[c].step \notin {"inspect", "look", "before", "close"} /\ request' \notin Work(c)
              /\ browserCall'[c].step \in {"run", "again"} => browserCall'[c].sent
        /\ browserCall'[c].step = "consume" /\ browserCall'[c].result = "ok" => performed[c] = 1
    <3>1. CASE Resets /\ Fails(c)
      <4>1. \A o \in BrowserCalls : request' \notin Work(o)
        BY <3>1 DEF Resets, Work
      <4> QED
        BY <3>1, <4>1 DEF Fails, Comes, Counted
    <3>2. CASE request' = <<c, browserCall[c].step>> /\ Comes(c, browserCall[c].step, TRUE, browserCall[c].result)
      <4>1. \A o \in BrowserCalls \ {c} : request' \notin Work(o)
        BY <3>2 DEF Work
      <4>2. performed[c] = 0 \/ browserCall[c].step = "after"
        BY <1>3, ExecuteDoes DEF Counted, Executes
      <4>3. CASE performed[c] = 0
        BY <1>3, <3>2, <4>1, <4>3, ExecuteDoes DEF Comes, Executes
      <4>4. CASE browserCall[c].step = "after"
        <5>1. request' \notin Work(c)
          BY <3>2, <4>4 DEF Work
        <5> QED
          BY <3>2, <4>1, <4>4, <5>1 DEF Comes
      <4> QED
        BY <4>2, <4>3, <4>4
    <3> QED
      BY <1>3, <3>1, <3>2, ExecuteDoes
  <2> QED
    BY <1>3, <2>1, CallsLeave, CallKeepsCount DEF worldVars
<1>4. ASSUME NEW c \in BrowserCalls, Receive(c) PROVE Counted'
  <2>1. /\ \A o \in BrowserCalls \ {c} : request' \in Work(o) => request \in Work(o)
        /\ \/ performed[c] = 0
           \/ /\ browserCall'[c].step \notin {"inspect", "look", "before", "close"} /\ request' \notin Work(c)
              /\ browserCall'[c].step \in {"run", "again"} => browserCall'[c].sent
        /\ browserCall'[c].step = "consume" /\ browserCall'[c].result = "ok" => performed[c] = 1
    <3>1. CASE Resets /\ Fails(c)
      <4>1. \A o \in BrowserCalls : request' \notin Work(o)
        BY <3>1 DEF Resets, Work
      <4> QED
        BY <3>1, <4>1 DEF Fails, Comes, Counted
    <3>2. CASE UNCHANGED request /\ Fails(c)
      BY <3>2 DEF Fails, Comes, Counted
    <3>3. CASE lines[1].of = <<c, browserCall[c].step>> /\ UNCHANGED request /\ Learns(c, lines[1].what)
      <4>1. 1 \in Lines
        BY <1>4, ReceiveDoes DEF Lines, BrowserTypeOK
      <4>2. CASE browserCall[c].step = "before"
        BY <3>3, <4>2 DEF Learns, Comes, Counted, Work
      <4>3. CASE browserCall[c].step = "run" /\ lines[1].what = "detached"
        <5>1. lines[1].of \in Work(c)
          BY <3>3, <4>3 DEF Work
        <5>2. performed[c] = 0
          BY <4>1, <4>3, <5>1 DEF Counted
        <5> QED
          BY <3>3, <4>3, <5>2 DEF Learns, Comes, Work
      <4>4. CASE browserCall[c].step = "after"
        BY <3>3, <4>4 DEF Learns, Comes, Counted, Work
      <4>5. CASE <<c, browserCall[c].step>> \in Work(c) /\ Comes(c, "consume", FALSE, lines[1].what)
        <5>1. lines[1].what = "ok" => performed[c] = 1
          BY <3>3, <4>1, <4>5 DEF Counted
        <5>2. request \in Work(c) => performed[c] = 0
          BY DEF Counted
        <5> QED
          BY <3>3, <4>5, <5>1, <5>2 DEF Comes
      <4> QED
        BY <3>3, <4>2, <4>3, <4>4, <4>5 DEF Learns
    <3> QED
      BY <1>4, <3>1, <3>2, <3>3, ReceiveDoes
  <2> QED
    BY <1>4, <2>1, CallsLeave, CallKeepsCount DEF worldVars
<1>5. ASSUME NEW c \in BrowserCalls, AbandonCall(c) PROVE Counted'
  <2>1. /\ \A o \in BrowserCalls \ {c} : request' \in Work(o) => request \in Work(o)
        /\ \/ performed[c] = 0
           \/ /\ browserCall'[c].step \notin {"inspect", "look", "before", "close"} /\ request' \notin Work(c)
              /\ browserCall'[c].step \in {"run", "again"} => browserCall'[c].sent
        /\ browserCall'[c].step = "consume" /\ browserCall'[c].result = "ok" => performed[c] = 1
    <3>1. \A o \in BrowserCalls : request' \notin Work(o)
      <4>1. request' = <<>>
        BY <1>5, AbandonDoes DEF Resets
      <4> QED
        BY <4>1 DEF Work
    <3> QED
      BY <1>5, <3>1, AbandonDoes DEF Fails, Comes, Counted
  <2> QED
    BY <1>5, <2>1, CallsLeave, CallKeepsCount DEF worldVars
<1>6. ASSUME NEW c \in BrowserCalls, CloseService(c) PROVE Counted'
  <2>1. /\ \A o \in BrowserCalls \ {c} : request' \in Work(o) => request \in Work(o)
        /\ \/ performed[c] = 0
           \/ /\ browserCall'[c].step \notin {"inspect", "look", "before", "close"} /\ request' \notin Work(c)
              /\ browserCall'[c].step \in {"run", "again"} => browserCall'[c].sent
        /\ browserCall'[c].step = "consume" /\ browserCall'[c].result = "ok" => performed[c] = 1
    <3>1. \A o \in BrowserCalls : request' \notin Work(o)
      <4>1. request' = <<>>
        BY <1>6, CloseDoes DEF Resets
      <4> QED
        BY <4>1 DEF Work
    <3> QED
      BY <1>6, <3>1, CloseDoes DEF Fails, Comes, Counted
  <2> QED
    BY <1>6, <2>1, CallsLeave, CallKeepsCount DEF worldVars
<1>7. ASSUME NEW c \in BrowserCalls, ConsumeUsed(c) PROVE Counted'
  <2>1. /\ \A o \in BrowserCalls \ {c} : request' \in Work(o) => request \in Work(o)
        /\ \/ performed[c] = 0
           \/ /\ browserCall'[c].step \notin {"inspect", "look", "before", "close"} /\ request' \notin Work(c)
              /\ browserCall'[c].step \in {"run", "again"} => browserCall'[c].sent
        /\ browserCall'[c].step = "consume" /\ browserCall'[c].result = "ok" => performed[c] = 1
    <3>1. browserCall[c].step \notin {"inspect", "look"} => request \notin Work(c) \/ performed[c] = 0
      BY DEF Counted
    <3> QED
      BY <1>7, <3>1, ConsumeDoes DEF Comes, serviceVars, Counted
  <2> QED
    BY <1>7, <2>1, CallsLeave, CallKeepsCount DEF worldVars
<1>8. ASSUME NEW c \in BrowserCalls, Ask(c) PROVE Counted'
  <2>1. /\ \A o \in BrowserCalls \ {c} : request' \in Work(o) => request \in Work(o)
        /\ \/ performed[c] = 0
           \/ /\ browserCall'[c].step \notin {"inspect", "look", "before", "close"} /\ request' \notin Work(c)
              /\ browserCall'[c].step \in {"run", "again"} => browserCall'[c].sent
        /\ browserCall'[c].step = "consume" /\ browserCall'[c].result = "ok" => performed[c] = 1
    <3>1. browserCall[c].step \notin {"inspect", "look"} => request \notin Work(c) \/ performed[c] = 0
      BY DEF Counted
    <3> QED
      BY <1>8, <3>1, AskDoes DEF Comes, serviceVars, Counted
  <2> QED
    BY <1>8, <2>1, CallsLeave, CallKeepsCount DEF worldVars
<1>9. ASSUME NEW c \in BrowserCalls, Judge(c) PROVE Counted'
  <2>1. /\ \A o \in BrowserCalls \ {c} : request' \in Work(o) => request \in Work(o)
        /\ \/ performed[c] = 0
           \/ /\ browserCall'[c].step \notin {"inspect", "look", "before", "close"} /\ request' \notin Work(c)
              /\ browserCall'[c].step \in {"run", "again"} => browserCall'[c].sent
        /\ browserCall'[c].step = "consume" /\ browserCall'[c].result = "ok" => performed[c] = 1
    <3>1. browserCall[c].step \notin {"inspect", "look"} => request \notin Work(c) \/ performed[c] = 0
      BY DEF Counted
    <3> QED
      BY <1>9, <3>1, JudgeDoes DEF Comes, serviceVars, Counted
  <2> QED
    BY <1>9, <2>1, CallsLeave, CallKeepsCount DEF worldVars
<1>10. CASE AnswerRequest
  BY <1>10, AnswerCounts
<1>11. CASE ChildDies
  BY <1>11, SomeLeave, StillCounted DEF ChildDies, worldVars
<1>12. CASE Noise
  <2> DEFINE line == [of |-> <<>>, what |-> "noise"]
  <2>1. /\ lines' = Append(lines, line) /\ line \in LineRecords /\ line.of = <<>>
        /\ UNCHANGED <<performed, browserCall, request>>
    BY <1>12 DEF Noise, LineRecords, Told, worldVars
  <2> HIDE DEF line
  <2>2. \A o \in BrowserCalls, i \in Lines' : lines'[i].of \in Work(o) => i \in Lines /\ lines'[i] = lines[i]
    <3>1. \A o \in BrowserCalls : <<>> \notin Work(o)
      BY DEF Work
    <3> QED
      BY <2>1, <3>1, AppendAdds
  <2> QED
    BY <2>1, <2>2 DEF Counted, Work
<1>13. ASSUME NEW i \in Instances, Reconnect(i) PROVE Counted'
  BY <1>13, SomeLeave, StillCounted DEF Reconnect, serviceVars, worldVars
<1>14. CASE UNCHANGED browserVars
  BY <1>14, SomeLeave, StillCounted DEF browserVars, serviceVars, worldVars
<1> QED
  BY <1>1, <1>2, <1>3, <1>4, <1>5, <1>6, <1>7, <1>8, <1>9, <1>10, <1>11, <1>12, <1>13, <1>14 DEF BrowserNext

\* What a call has seen of its tab.
LEMMA SightKept ==
  ASSUME BrowserInv, BrowserNext \/ UNCHANGED browserVars
  PROVE  Seen'
<1> USE BrowserConstants DEF BrowserInv
<1>1. ASSUME NEW c \in BrowserCalls, Inspect(c) PROVE Seen'
  <2>1. /\ SameUrls(c)
        /\ browserCall'[c].instance # browserCall[c].instance =>
             browserCall[c].step = "inspect" /\ browserCall'[c].instance \in Instances
        /\ browserCall[c].step \in {"inspect", "done"} =>
             browserCall'[c].step \in {"inspect", "done"} \/ browserCall'[c].instance \in Instances
        /\ browserCall'[c].step \in {"inspect", "look", "before"} =>
             browserCall[c].step \in {"inspect", "look", "before"}
        /\ browserCall'[c].step = "before" => browserCall[c].step = "before" \/ \A i \in Lines : lines[i].of # <<c, "before">>
        /\ browserCall'[c].step # "judge"
        /\ browserCall'[c].step = "after" => browserCall[c].before # Nobody
        /\ \A o \in BrowserCalls \ {c} : request' = <<o, "after">> => request = <<o, "after">>
        /\ request' = <<c, "after">> => browserCall[c].step = "after" \/ request = <<c, "after">>
    BY <1>1, InspectDoes DEF Comes, SameWork, SamePlace, serviceVars
  <2> QED
    BY <1>1, <2>1, CallsLeave, SameSight
<1>2. ASSUME NEW c \in BrowserCalls, LookForApproval(c) PROVE Seen'
  <2>1. /\ SameUrls(c)
        /\ browserCall'[c].instance # browserCall[c].instance =>
             browserCall[c].step = "inspect" /\ browserCall'[c].instance \in Instances
        /\ browserCall[c].step \in {"inspect", "done"} =>
             browserCall'[c].step \in {"inspect", "done"} \/ browserCall'[c].instance \in Instances
        /\ browserCall'[c].step \in {"inspect", "look", "before"} =>
             browserCall[c].step \in {"inspect", "look", "before"}
        /\ browserCall'[c].step = "before" => browserCall[c].step = "before" \/ \A i \in Lines : lines[i].of # <<c, "before">>
        /\ browserCall'[c].step # "judge"
        /\ browserCall'[c].step = "after" => browserCall[c].before # Nobody
        /\ \A o \in BrowserCalls \ {c} : request' = <<o, "after">> => request = <<o, "after">>
        /\ request' = <<c, "after">> => browserCall[c].step = "after" \/ request = <<c, "after">>
    <3>1. \A i \in Lines : lines[i].of # <<c, "before">>
      <4>1. browserCall[c].step = "look" /\ ~browserCall[c].sent
        BY <1>2, LookDoes, NotSent DEF Executes
      <4>2. ~Issued(c, "before")
        BY <4>1 DEF Issued
      <4> QED
        BY <4>2 DEF AnsweredOnce, Executes
    <3> QED
      BY <1>2, <3>1, LookDoes DEF Comes, SamePlace, serviceVars
  <2> QED
    BY <1>2, <2>1, CallsLeave, SameSight
<1>3. ASSUME NEW c \in BrowserCalls, Execute(c) PROVE Seen'
  <2>1. /\ SameUrls(c)
        /\ browserCall'[c].instance # browserCall[c].instance =>
             browserCall[c].step = "inspect" /\ browserCall'[c].instance \in Instances
        /\ browserCall[c].step \in {"inspect", "done"} =>
             browserCall'[c].step \in {"inspect", "done"} \/ browserCall'[c].instance \in Instances
        /\ browserCall'[c].step \in {"inspect", "look", "before"} =>
             browserCall[c].step \in {"inspect", "look", "before"}
        /\ browserCall'[c].step = "before" => browserCall[c].step = "before" \/ \A i \in Lines : lines[i].of # <<c, "before">>
        /\ browserCall'[c].step # "judge"
        /\ browserCall'[c].step = "after" => browserCall[c].before # Nobody
        /\ \A o \in BrowserCalls \ {c} : request' = <<o, "after">> => request = <<o, "after">>
        /\ request' = <<c, "after">> => browserCall[c].step = "after" \/ request = <<c, "after">>
    <3>1. CASE Resets /\ Fails(c)
      BY <1>3, <3>1, ExecuteDoes DEF Fails, Comes, SameWork, SamePlace, Resets, Executes
    <3>2. CASE request' = <<c, browserCall[c].step>> /\ Comes(c, browserCall[c].step, TRUE, browserCall[c].result) /\ SameWork(c)
      <4>1. browserCall[c].step \in Executes /\ SeenBy(c)
        BY <1>3, ExecuteDoes DEF Seen
      <4>2. /\ browserCall[c].step # "judge" /\ browserCall[c].step # "done" /\ browserCall[c].step # "inspect"
            /\ browserCall[c].step = "after" => browserCall[c].before # Nobody
        BY <4>1 DEF Executes, SeenBy
      <4>3. /\ \A o \in BrowserCalls \ {c} : request' = <<o, "after">> => request = <<o, "after">>
            /\ request' = <<c, "after">> => browserCall[c].step = "after"
        BY <3>2
      <4> QED
        BY <3>2, <4>2, <4>3 DEF Comes, SameWork, SamePlace
    <3> QED
      BY <1>3, <3>1, <3>2, ExecuteDoes
  <2> QED
    BY <1>3, <2>1, CallsLeave, SameSight
<1>4. ASSUME NEW c \in BrowserCalls, Receive(c) PROVE Seen'
  <2>1. CASE Resets /\ Fails(c)
    <3>1. browserCall[c].step \in Executes
      BY <1>4, ReceiveDoes DEF InTurn
    <3>2. /\ SameUrls(c) /\ browserCall'[c].instance = browserCall[c].instance
          /\ browserCall'[c].step \in {"run", "done"} /\ browserCall[c].step \notin {"inspect", "done"}
          /\ \A o : request' # <<o, "after">>
      BY <2>1, <3>1 DEF Fails, Comes, SameWork, SamePlace, Resets, Executes
    <3> QED
      BY <1>4, <3>2, CallsLeave, SameSight
  <2>2. CASE UNCHANGED request /\ Fails(c)
    <3>1. browserCall[c].step \in Executes
      BY <1>4, ReceiveDoes DEF InTurn
    <3>2. /\ SameUrls(c) /\ browserCall'[c].instance = browserCall[c].instance
          /\ browserCall'[c].step \in {"run", "done"} /\ browserCall[c].step \notin {"inspect", "done"}
          /\ request' = request
      BY <2>2, <3>1 DEF Fails, Comes, SameWork, SamePlace, Executes
    <3> QED
      BY <1>4, <3>2, CallsLeave, SameSight
  <2>3. CASE lines[1].of = <<c, browserCall[c].step>> /\ UNCHANGED request /\ Learns(c, lines[1].what)
    <3>1. CASE browserCall[c].step \in {"before", "after"}
      BY <1>4, <2>3, <3>1, TheUrlIsSeen
    <3>2. CASE browserCall[c].step \notin {"before", "after"}
      <4>1. browserCall[c].step \in {"run", "again"}
        BY <1>4, <3>2, ReceiveDoes DEF InTurn, Executes
      <4>2. /\ SameUrls(c) /\ browserCall'[c].instance = browserCall[c].instance
            /\ browserCall'[c].step \in {"close", "consume"} /\ request' = request
        BY <2>3, <4>1 DEF Learns, Comes, SamePlace
      <4> QED
        BY <1>4, <4>1, <4>2, CallsLeave, SameSight
    <3> QED
      BY <3>1, <3>2
  <2> QED
    BY <1>4, <2>1, <2>2, <2>3, ReceiveDoes
<1>5. ASSUME NEW c \in BrowserCalls, AbandonCall(c) PROVE Seen'
  <2>1. browserCall[c].step \in Executes
    BY <1>5, AbandonDoes DEF InTurn
  <2>2. /\ SameUrls(c) /\ browserCall'[c].instance = browserCall[c].instance
        /\ browserCall'[c].step \in {"run", "done"} /\ browserCall[c].step \notin {"inspect", "done"}
    BY <1>5, <2>1, AbandonDoes DEF Fails, Comes, SameWork, SamePlace, Executes
  <2>3. \A o : request' # <<o, "after">>
    BY <1>5, AbandonDoes, ResetForgets
  <2> QED
    BY <1>5, <2>2, <2>3, CallsLeave, SameSight
<1>6. ASSUME NEW c \in BrowserCalls, CloseService(c) PROVE Seen'
  <2>1. /\ SameUrls(c) /\ browserCall'[c].instance = browserCall[c].instance
        /\ browserCall'[c].step = "again" /\ browserCall[c].step = "close"
    BY <1>6, CloseDoes DEF Comes, SameWork, SamePlace
  <2>2. \A o : request' # <<o, "after">>
    BY <1>6, CloseDoes, ResetForgets
  <2> QED
    BY <1>6, <2>1, <2>2, CallsLeave, SameSight
<1>7. ASSUME NEW c \in BrowserCalls, ConsumeUsed(c) PROVE Seen'
  <2>1. /\ SameUrls(c)
        /\ browserCall'[c].instance # browserCall[c].instance =>
             browserCall[c].step = "inspect" /\ browserCall'[c].instance \in Instances
        /\ browserCall[c].step \in {"inspect", "done"} =>
             browserCall'[c].step \in {"inspect", "done"} \/ browserCall'[c].instance \in Instances
        /\ browserCall'[c].step \in {"inspect", "look", "before"} =>
             browserCall[c].step \in {"inspect", "look", "before"}
        /\ browserCall'[c].step = "before" => browserCall[c].step = "before" \/ \A i \in Lines : lines[i].of # <<c, "before">>
        /\ browserCall'[c].step # "judge"
        /\ browserCall'[c].step = "after" => browserCall[c].before # Nobody
        /\ \A o \in BrowserCalls \ {c} : request' = <<o, "after">> => request = <<o, "after">>
        /\ request' = <<c, "after">> => browserCall[c].step = "after" \/ request = <<c, "after">>
    BY <1>7, ConsumeDoes DEF Comes, SameWork, SamePlace, serviceVars
  <2> QED
    BY <1>7, <2>1, CallsLeave, SameSight
<1>8. ASSUME NEW c \in BrowserCalls, Ask(c) PROVE Seen'
  <2>1. /\ SameUrls(c)
        /\ browserCall'[c].instance # browserCall[c].instance =>
             browserCall[c].step = "inspect" /\ browserCall'[c].instance \in Instances
        /\ browserCall[c].step \in {"inspect", "done"} =>
             browserCall'[c].step \in {"inspect", "done"} \/ browserCall'[c].instance \in Instances
        /\ browserCall'[c].step \in {"inspect", "look", "before"} =>
             browserCall[c].step \in {"inspect", "look", "before"}
        /\ browserCall'[c].step = "before" => browserCall[c].step = "before" \/ \A i \in Lines : lines[i].of # <<c, "before">>
        /\ browserCall'[c].step # "judge"
        /\ browserCall'[c].step = "after" => browserCall[c].before # Nobody
        /\ \A o \in BrowserCalls \ {c} : request' = <<o, "after">> => request = <<o, "after">>
        /\ request' = <<c, "after">> => browserCall[c].step = "after" \/ request = <<c, "after">>
    BY <1>8, AskDoes DEF Comes, SameWork, SamePlace, serviceVars
  <2> QED
    BY <1>8, <2>1, CallsLeave, SameSight
<1>9. ASSUME NEW c \in BrowserCalls, Judge(c) PROVE Seen'
  <2>1. /\ SameUrls(c)
        /\ browserCall'[c].instance # browserCall[c].instance =>
             browserCall[c].step = "inspect" /\ browserCall'[c].instance \in Instances
        /\ browserCall[c].step \in {"inspect", "done"} =>
             browserCall'[c].step \in {"inspect", "done"} \/ browserCall'[c].instance \in Instances
        /\ browserCall'[c].step \in {"inspect", "look", "before"} =>
             browserCall[c].step \in {"inspect", "look", "before"}
        /\ browserCall'[c].step = "before" => browserCall[c].step = "before" \/ \A i \in Lines : lines[i].of # <<c, "before">>
        /\ browserCall'[c].step # "judge"
        /\ browserCall'[c].step = "after" => browserCall[c].before # Nobody
        /\ \A o \in BrowserCalls \ {c} : request' = <<o, "after">> => request = <<o, "after">>
        /\ request' = <<c, "after">> => browserCall[c].step = "after" \/ request = <<c, "after">>
    BY <1>9, JudgeDoes DEF Comes, SameWork, SamePlace, serviceVars
  <2> QED
    BY <1>9, <2>1, CallsLeave, SameSight
<1>10. CASE AnswerRequest
  BY <1>10, AnswerSees
<1>11. CASE ChildDies
  BY <1>11, SomeLeave, SightStays DEF ChildDies
<1>12. CASE Noise
  <2> DEFINE line == [of |-> <<>>, what |-> "noise"]
  <2>1. /\ lines' = Append(lines, line) /\ line \in LineRecords /\ line.of = <<>>
        /\ UNCHANGED <<worldVars, browserCall, request>>
    BY <1>12 DEF Noise, LineRecords, Told
  <2> HIDE DEF line
  <2>2. ASSUME NEW o \in BrowserCalls PROVE SeenBy(o)'
    <3>1. SeenBy(o) /\ (Own(o)' <=> Own(o)) /\ tab' = tab /\ browserCall' = browserCall /\ request' = request
      BY <2>1 DEF Seen, Own, worldVars
    <3>2. \A x : \A i \in Lines' : lines'[i].of = <<o, x>> => i \in Lines /\ lines'[i] = lines[i]
      <4>1. \A x : line.of # <<o, x>>
        BY <2>1
      <4> QED
        BY <2>1, <4>1, AppendAdds
    <3> HIDE DEF Own
    <3> QED
      BY <3>1, <3>2 DEF SeenBy
  <2> QED
    BY <2>2 DEF Seen
<1>13. ASSUME NEW i \in Instances, Reconnect(i) PROVE Seen'
  BY <1>13, SomeLeave, SightStays DEF Reconnect, serviceVars
<1>14. CASE UNCHANGED browserVars
  BY <1>14, SomeLeave, SightStays DEF browserVars, serviceVars
<1> QED
  BY <1>1, <1>2, <1>3, <1>4, <1>5, <1>6, <1>7, <1>8, <1>9, <1>10, <1>11, <1>12, <1>13, <1>14 DEF BrowserNext

\* The child knows of a permission what the user has given.
LEMMA PermitsKept ==
  ASSUME BrowserInv, BrowserNext \/ UNCHANGED browserVars
  PROVE  Permits'
<1> USE BrowserConstants DEF BrowserInv
<1>1. ASSUME NEW c \in BrowserCalls, Inspect(c) PROVE Permits'
  <2>1. /\ OnlyCall(c) /\ SameApproval(c) /\ permitted' = permitted
        /\ child'.granted \subseteq child.granted
    BY <1>1, InspectDoes DEF SameWork, serviceVars, Resets, NoChild, Fails, Learns
  <2> QED
    BY <2>1 DEF OnlyCall, SameApproval, Permits
<1>2. ASSUME NEW c \in BrowserCalls, LookForApproval(c) PROVE Permits'
  <2>1. /\ OnlyCall(c) /\ permitted \subseteq permitted' /\ child' = child
        /\ browserCall'[c].approval # Nobody => BrowserSession[c] \in permitted'
    BY <1>2, LookDoes DEF serviceVars
  <2> QED
    BY <2>1 DEF OnlyCall, Permits
<1>3. ASSUME NEW c \in BrowserCalls, Execute(c) PROVE Permits'
  <2>1. /\ OnlyCall(c) /\ SameApproval(c) /\ permitted' = permitted
        /\ child' = child \/ child' = [state |-> "up", granted |-> {}] \/ Resets
    BY <1>3, ExecuteDoes DEF SameWork, Fails
  <2>2. child'.granted \in {child.granted, {}}
    BY <2>1, ResetForgets
  <2> QED
    BY <2>1, <2>2 DEF OnlyCall, SameApproval, Permits
<1>4. ASSUME NEW c \in BrowserCalls, Receive(c) PROVE Permits'
  <2>1. OnlyCall(c) /\ SameApproval(c) /\ permitted' = permitted /\ (child' = child \/ Resets)
    BY <1>4, ReceiveDoes DEF SameWork, Fails, Learns
  <2> QED
    BY <2>1, ResetForgets DEF OnlyCall, SameApproval, Permits
<1>5. ASSUME NEW c \in BrowserCalls, AbandonCall(c) PROVE Permits'
  <2>1. OnlyCall(c) /\ SameApproval(c) /\ permitted' = permitted /\ (child' = child \/ Resets)
    BY <1>5, AbandonDoes DEF SameWork, Fails, Learns
  <2> QED
    BY <2>1, ResetForgets DEF OnlyCall, SameApproval, Permits
<1>6. ASSUME NEW c \in BrowserCalls, CloseService(c) PROVE Permits'
  <2>1. OnlyCall(c) /\ SameApproval(c) /\ permitted' = permitted /\ (child' = child \/ Resets)
    BY <1>6, CloseDoes DEF SameWork, Fails, Learns
  <2> QED
    BY <2>1, ResetForgets DEF OnlyCall, SameApproval, Permits
<1>7. ASSUME NEW c \in BrowserCalls, ConsumeUsed(c) PROVE Permits'
  <2>1. /\ OnlyCall(c) /\ SameApproval(c) /\ permitted' = permitted
        /\ child'.granted \subseteq child.granted
    BY <1>7, ConsumeDoes DEF SameWork, serviceVars, Resets, NoChild, Fails, Learns
  <2> QED
    BY <2>1 DEF OnlyCall, SameApproval, Permits
<1>8. ASSUME NEW c \in BrowserCalls, Ask(c) PROVE Permits'
  <2>1. /\ OnlyCall(c) /\ SameApproval(c) /\ permitted' = permitted
        /\ child'.granted \subseteq child.granted
    BY <1>8, AskDoes DEF SameWork, serviceVars, Resets, NoChild, Fails, Learns
  <2> QED
    BY <2>1 DEF OnlyCall, SameApproval, Permits
<1>9. ASSUME NEW c \in BrowserCalls, Judge(c) PROVE Permits'
  <2>1. /\ OnlyCall(c) /\ SameApproval(c) /\ permitted' = permitted
        /\ child'.granted \subseteq child.granted
    BY <1>9, JudgeDoes DEF SameWork, serviceVars, Resets, NoChild, Fails, Learns
  <2> QED
    BY <2>1 DEF OnlyCall, SameApproval, Permits
<1>10. CASE AnswerRequest
  <2>1. child'.granted \subseteq permitted /\ UNCHANGED <<browserCall, permitted>>
    BY <1>10, AnswerDoes
  <2> QED
    BY <2>1 DEF Permits
<1>11. CASE ChildDies
  BY <1>11 DEF ChildDies, Permits, BrowserTypeOK
<1>12. CASE Noise
  BY <1>12 DEF Noise, Permits
<1>13. ASSUME NEW i \in Instances, Reconnect(i) PROVE Permits'
  BY <1>13 DEF Reconnect, serviceVars, worldVars, Permits
<1>14. CASE UNCHANGED browserVars
  BY <1>14 DEF browserVars, serviceVars, worldVars, browserBounds, Permits
<1> QED
  BY <1>1, <1>2, <1>3, <1>4, <1>5, <1>6, <1>7, <1>8, <1>9, <1>10, <1>11, <1>12, <1>13, <1>14 DEF BrowserNext

\* A call says that it succeeded when it was carried out.
LEMMA SuccessKept ==
  ASSUME BrowserInv, BrowserNext \/ UNCHANGED browserVars
  PROVE  SuccessIsOwn' /\ OnlyPermitted'
<1> USE DEF BrowserInv
<1>1. ASSUME NEW c \in BrowserCalls,
             \/ Inspect(c) \/ LookForApproval(c) \/ Execute(c) \/ Receive(c) \/ AbandonCall(c)
             \/ CloseService(c) \/ ConsumeUsed(c) \/ Ask(c) \/ Judge(c)
      PROVE  SuccessIsOwn' /\ OnlyPermitted'
  <2>1. OnlyCall(c) /\ UNCHANGED worldVars
    BY <1>1, CallsLeave
  <2>2. permitted \subseteq permitted'
    BY <1>1, InspectDoes, LookDoes, ExecuteDoes, ReceiveDoes, AbandonDoes, CloseDoes, ConsumeDoes, AskDoes, JudgeDoes
  <2>3. browserCall'[c].step = "done" /\ browserCall'[c].result = "ok" => Own(c)
    <3>1. CASE Inspect(c)
      BY <3>1, InspectDoes DEF Comes
    <3>2. CASE LookForApproval(c)
      BY <3>2, LookDoes DEF Comes
    <3>3. CASE Execute(c)
      BY <3>3, ExecuteDoes DEF Comes, Fails, Executes
    <3>4. CASE Receive(c)
      <4>1. \/ Fails(c)
            \/ Learns(c, lines[1].what)
        BY <3>4, ReceiveDoes
      <4> QED
        BY <4>1 DEF Comes, Fails, Learns
    <3>5. CASE AbandonCall(c)
      BY <3>5, AbandonDoes DEF Comes, Fails
    <3>6. CASE CloseService(c)
      BY <3>6, CloseDoes DEF Comes
    <3>7. CASE ConsumeUsed(c)
      <4>1. browserCall[c].step = "consume" /\ browserCall[c].result = "ok" => performed[c] = 1
        BY DEF Counted
      <4> QED
        BY <3>7, <4>1, ConsumeDoes DEF Comes, Own
    <3>8. CASE Ask(c)
      BY <3>8, AskDoes DEF Comes
    <3>9. CASE Judge(c)
      <4>1. browserCall[c].step = "judge" => Own(c) \/ browserCall[c].after \in {Nobody, browserCall[c].before}
        BY DEF Seen, SeenBy
      <4> QED
        BY <3>9, <4>1, JudgeDoes DEF Comes
    <3> QED
      BY <1>1, <3>1, <3>2, <3>3, <3>4, <3>5, <3>6, <3>7, <3>8, <3>9
  <2>4. OnlyPermitted'
    BY <2>1, <2>2 DEF worldVars, OnlyPermitted
  <2> QED
    BY <2>1, <2>3, <2>4, SuccessStays
<1>2. CASE AnswerRequest
  BY <1>2, CarriedOut
<1>3. CASE UNCHANGED <<browserCall, worldVars, permitted>>
  BY <1>3 DEF worldVars, SuccessIsOwn, OnlyPermitted, BrowserAt
<1>4. ChildDies \/ Noise \/ (\E i \in Instances : Reconnect(i)) \/ UNCHANGED browserVars
        => UNCHANGED <<browserCall, worldVars, permitted>>
  BY DEF ChildDies, Noise, Reconnect, browserVars
<1> QED
  BY <1>1, <1>2, <1>3, <1>4 DEF BrowserNext

LEMMA BrowserInitially == BrowserInit => BrowserInv
<1> SUFFICES ASSUME BrowserInit PROVE BrowserInv
  OBVIOUS
<1> USE BrowserConstants
<1>1. /\ lines = <<>> /\ Lines = {} /\ lines \in Seq([of : Ids \cup {<<>>}, what : Told])
      /\ request = <<>> /\ inService = Nobody
  BY DEF BrowserInit, Lines
<1>2. \A c, x : request # <<c, x>>
  BY <1>1
<1>3. \A c \in BrowserCalls : browserCall[c] = NewCall
  BY DEF BrowserInit
<1>4. BrowserTypeOK
  <2>1. NewCall \in CallRecords
    BY DEF NewCall, CallRecords, BrowserSteps, BrowserResults
  <2>2. browserCall \in [BrowserCalls -> CallRecords]
    BY <2>1 DEF BrowserInit
  <2>3. child \in ChildRecords
    BY NewChild DEF BrowserInit
  <2>4. connected \subseteq Instances
    BY DEF BrowserInit
  <2> QED
    BY <1>1, <2>2, <2>3, <2>4 DEF BrowserInit, BrowserTypeOK, CallRecords, ChildRecords, BrowserCommands
<1>5. InTurn
  BY <1>1, <1>3 DEF InTurn, NewCall
<1>6. AnsweredOnce /\ OutcomesTold
  BY <1>1, <1>2 DEF AnsweredOnce, OutcomesTold, Work
<1>7. Counted
  BY <1>1, <1>2, <1>3 DEF BrowserInit, Counted, NewCall, Work
<1>8. Seen
  BY <1>1, <1>2, <1>3 DEF Seen, SeenBy, NewCall
<1>9. Permits /\ SuccessIsOwn /\ OnlyPermitted
  BY <1>3 DEF BrowserInit, Permits, SuccessIsOwn, OnlyPermitted, BrowserAt, NewCall, NoChild
<1> QED
  BY <1>4, <1>5, <1>6, <1>7, <1>8, <1>9 DEF BrowserInv

LEMMA BrowserStep == BrowserInv /\ [BrowserNext]_browserVars => BrowserInv'
  BY BrowserTypeKept, TurnKept, AnswersKept, ToldKept, CountKept, SightKept, PermitsKept, SuccessKept DEF BrowserInv

\* A command of the browser is carried out once for a call, at most, and only in
\* a session whose user has permitted it when it needs a permission; and a call
\* that reports success was carried out, or its tab was changed by another.
THEOREM BrowserKeepsItsWord == BrowserSpec => []BrowserHolds
<1>1. BrowserInv => BrowserHolds
  BY DEF BrowserInv, BrowserHolds, CarriedOutOnce, Counted
<1> QED
  BY <1>1, BrowserInitially, BrowserStep, PTL DEF BrowserSpec

-----------------------------------------------------------------------------
(* Tools that act on a tracker: TrackerInv is inductive. *)

\* Which forms a tool may try.
Readers == {"comment", "get_execution", "get_agent", "get_issue"}
Suits(p, f) ==
  /\ f.verb \in Reading <=> p.tool \in Readers
  /\ p.tool = "assign" => (f.who = "id" /\ p.byId) \/ (f.who = "name" /\ p.byName)

\* What a call still tries is of its tool; a plain tool tries one form.
FormsSuit ==
  \A c \in TrackerCalls :
    /\ \A i \in DOMAIN forms[c] : Suits(trackerPlan[c], forms[c][i])
    /\ Len(forms[c]) <= Len(FormsOf(trackerPlan[c]))
    /\ trackerStep[c] = "run" /\ trackerPlan[c].tool \in Plain => forms[c] # <<>>

\* How far a call is, and what that says.
StepsFit ==
  \A c \in TrackerCalls :
    /\ trackerStep[c] = "answered" <=> trackerAnswer[c] # "none"
    /\ trackerStep[c] \notin {"out", "answered"} => MayWrite(trackerPlan[c])
    /\ trackerStep[c] \in {"aim", "token", "identity", "post"} => trackerPlan[c].tool = "comment"
    /\ trackerStep[c] \in {"token", "identity", "post"} => aim[c].number # 0
    /\ trackerStep[c] = "post" => token[c] = Bot

\* Whoever had something carried out was allowed to, and is still at it or has
\* been told of it.
ActorsMay ==
  \A i \in DOMAIN effects :
    LET c == effects[i].call
    IN /\ Suits(trackerPlan[c], effects[i].form) /\ trackerPlan[c].tool \notin Readers /\ MayWrite(trackerPlan[c])
       /\ trackerStep[c] = "run" \/ trackerAnswer[c] \in {"failed", "done", "raw"}

\* While a call tries its forms, each that was carried out was misread.
ActsCounted ==
  \A c \in TrackerCalls :
    /\ Cardinality(EffectsOf(c)) <= 1 + misread[c]
    /\ trackerStep[c] = "run" => Cardinality(EffectsOf(c)) <= misread[c]

\* Who has commented is done, with the one comment.
CommentersMay ==
  /\ \A i \in DOMAIN comments :
       LET c == comments[i].call
       IN /\ MayWrite(trackerPlan[c]) /\ trackerAnswer[c] \in {"commented", "unsure"}
          /\ comments[i].author = Bot /\ comments[i].target = aim[c] /\ aim[c].number # 0
  /\ \A i, j \in DOMAIN comments : comments[i].call = comments[j].call => i = j
  /\ \A c \in TrackerCalls : trackerAnswer[c] = "commented" => CommentsOf(c) # {}

\* Who is told that it is done has had it done by the last form it tried.
LastFormActed ==
  \A c \in TrackerCalls :
    /\ trackerAnswer[c] = "done" => trackerPlan[c].tool # "comment"
    /\ trackerAnswer[c] = "done" /\ trackerPlan[c].tool \notin Readers =>
         /\ Len(forms[c]) < Len(FormsOf(trackerPlan[c]))
         /\ \E i \in EffectsOf(c) : \A j \in EffectsOf(c) : j <= i

TrackerInv ==
  TrackerTypeOK /\ FormsSuit /\ StepsFit /\ ActorsMay /\ ActsCounted /\ CommentersMay /\ LastFormActed

Fitting(p) == {f \in FormRecords : Suits(p, f)}

\* The words of a command, for one person, are a sequence of forms.
LEMMA FormsWith ==
  ASSUME NEW p, NEW who \in {"id", "name", "none"}, NEW V, V \subseteq Verbs, NEW verbs \in Seq(V),
         \A v \in V : Suits(p, Form(v, who))
  PROVE  With(who, verbs) \in Seq(Fitting(p))
<1>1. \A v \in V : Form(v, who) \in Fitting(p)
  BY DEF Fitting, Form, FormRecords
<1>2. \A i \in 1..Len(verbs) : verbs[i] \in V
  OBVIOUS
<1> QED
  BY <1>1, <1>2 DEF With

\* Every form a tool tries is one of its own.
LEMMA FormsOfSuit ==
  ASSUME NEW p, p.tool \in Gated \cup Plain \cup {"get_execution"}, {p.byId, p.byName} \subseteq BOOLEAN
  PROVE  FormsOf(p) \in Seq(Fitting(p)) /\ (p.tool \in Plain => FormsOf(p) # <<>>)
<1> DEFINE S == Seq(Fitting(p))
<1>0. <<>> \in S /\ (\A s, t \in S : s \o t \in S)
  OBVIOUS
<1>1. ASSUME p.tool = "assign" PROVE FormsOf(p) \in S
  <2> DEFINE V == {"update", "assign"}
  <2>1. V \subseteq Verbs /\ <<"update", "assign">> \in Seq(V)
    BY DEF Verbs
  <2>2. ASSUME p.byId PROVE With("id", <<"update", "assign">>) \in S
    <3>1. \A v \in V : Suits(p, Form(v, "id"))
      BY <1>1, <2>2 DEF Suits, Form, Readers, Reading
    <3> HIDE DEF V
    <3> QED
      BY <2>1, <3>1, FormsWith
  <2>3. ASSUME p.byName PROVE With("name", <<"update", "assign">>) \in S
    <3>1. \A v \in V : Suits(p, Form(v, "name"))
      BY <1>1, <2>3 DEF Suits, Form, Readers, Reading
    <3> HIDE DEF V
    <3> QED
      BY <2>1, <3>1, FormsWith
  <2>4. By(p.byId, "id", <<"update", "assign">>) \in S /\ By(p.byName, "name", <<"update", "assign">>) \in S
    BY <1>0, <2>2, <2>3 DEF By
  <2>5. AssignForms(p) \in S
    BY <1>0, <2>4 DEF AssignForms
  <2> QED
    BY <1>1, <2>5 DEF FormsOf
<1>2. ASSUME p.tool = "retry" PROVE FormsOf(p) \in S
  <2> DEFINE V == {"retry", "rerun", "run retry", "resume"}
  <2>1. V \subseteq Verbs /\ <<"retry", "rerun", "run retry", "resume">> \in Seq(V)
    BY DEF Verbs
  <2>2. \A v \in V : Suits(p, Form(v, "none"))
    BY <1>2 DEF Suits, Form, Readers, Reading
  <2> HIDE DEF V
  <2>3. RetryForms \in S
    BY <2>1, <2>2, FormsWith DEF RetryForms
  <2> QED
    BY <1>2, <2>3 DEF FormsOf
<1>3. ASSUME p.tool = "review" PROVE FormsOf(p) \in S
  <2> DEFINE V == {"review", "request-review", "update"}
  <2>1. V \subseteq Verbs /\ <<"review", "update">> \in Seq(V) /\ <<"review", "request-review", "update">> \in Seq(V)
    BY DEF Verbs
  <2>2. \A v \in V, who \in {"id", "name", "none"} : Suits(p, Form(v, who))
    BY <1>3 DEF Suits, Form, Readers, Reading
  <2> HIDE DEF V
  <2>3. /\ \A who \in {"id", "name", "none"} : With(who, <<"review", "update">>) \in S
        /\ With("none", <<"review", "request-review", "update">>) \in S
    BY <2>1, <2>2, FormsWith
  <2>4. By(p.byName, "name", <<"review", "update">>) \in S /\ By(p.byId, "id", <<"review", "update">>) \in S
    BY <1>0, <2>3 DEF By
  <2>5. ReviewForms(p) \in S
    BY <1>0, <2>3, <2>4 DEF ReviewForms
  <2> QED
    BY <1>3, <2>5 DEF FormsOf
<1>4. ASSUME p.tool = "status" PROVE FormsOf(p) \in S
  <2> DEFINE V == {"update", "status"}
  <2>1. V \subseteq Verbs /\ <<"update", "status">> \in Seq(V)
    BY DEF Verbs
  <2>2. \A v \in V : Suits(p, Form(v, "none"))
    BY <1>4 DEF Suits, Form, Readers, Reading
  <2> HIDE DEF V
  <2>3. StatusForms \in S
    BY <2>1, <2>2, FormsWith DEF StatusForms
  <2> QED
    BY <1>4, <2>3 DEF FormsOf
<1>5. ASSUME p.tool \in {"comment", "get_execution"} PROVE FormsOf(p) \in S
  <2> DEFINE V == {"get", "view", "show"}
  <2>1. V \subseteq Verbs /\ <<"get", "view", "show">> \in Seq(V)
    BY DEF Verbs
  <2>2. \A v \in V : Suits(p, Form(v, "none"))
    BY <1>5 DEF Suits, Form, Readers, Reading
  <2> HIDE DEF V
  <2>3. GetForms \in S
    BY <2>1, <2>2, FormsWith DEF GetForms
  <2> QED
    BY <1>5, <2>3 DEF FormsOf
<1>6. ASSUME p.tool \in Plain PROVE FormsOf(p) \in S /\ FormsOf(p) # <<>>
  <2> DEFINE v == CASE p.tool = "update_agent" -> "update" [] p.tool = "dispatch_task" -> "create" [] OTHER -> "get"
             V == {v}
  <2>1. v \in Verbs /\ Suits(p, Form(v, "none"))
    BY <1>6 DEF Suits, Form, Readers, Reading, Plain, AgentTools, IssueTools, Verbs
  <2>2. FormsOf(p) = With("none", <<v>>)
    BY <1>6 DEF FormsOf, PlainForms, Plain, AgentTools, IssueTools
  <2> HIDE DEF v
  <2>3. <<v>> \in Seq(V) /\ Len(<<v>>) = 1
    OBVIOUS
  <2>4. With("none", <<v>>) # <<>>
    BY <2>3 DEF With
  <2> QED
    BY <2>1, <2>2, <2>3, <2>4, FormsWith
<1> QED
  BY <1>1, <1>2, <1>3, <1>4, <1>5, <1>6 DEF Gated, Plain, AgentTools, IssueTools

LEMMA PlanFits ==
  ASSUME trackerPlan \in TrackerPlans, NEW c \in TrackerCalls
  PROVE  /\ trackerPlan[c].tool \in Gated \cup Plain \cup {"get_execution"}
         /\ {trackerPlan[c].byId, trackerPlan[c].byName} \subseteq BOOLEAN
         /\ trackerPlan[c].repo \in Nat /\ trackerPlan[c].number \in Nat
         /\ trackerPlan[c].target \in {"auto", "issue", "pr"}
  BY TrackerAssumption

\* Everybody else is where it was.
LEMMA OneGoes ==
  ASSUME NEW c \in TrackerCalls, NEW x, NEW y, TrackerGoes(c, x, y),
         trackerStep \in [TrackerCalls -> {"out", "run", "aim", "token", "identity", "post", "answered"}]
  PROVE  trackerStep[c] = x /\ trackerStep'[c] = y /\ \A o \in TrackerCalls : o # c => trackerStep'[o] = trackerStep[o]
  BY DEF TrackerGoes
LEMMA OneReports ==
  ASSUME NEW c \in TrackerCalls, NEW x, NEW a, Reports(c, x, a), TrackerTypeOK
  PROVE  /\ trackerStep[c] = x /\ trackerStep'[c] = "answered" /\ trackerAnswer'[c] = a
         /\ \A o \in TrackerCalls : o # c => trackerStep'[o] = trackerStep[o] /\ trackerAnswer'[o] = trackerAnswer[o]
  BY DEF TrackerTypeOK, Reports, TrackerGoes

LEMMA FormsFitting ==
  ASSUME TrackerInv, NEW c \in TrackerCalls, forms[c] # <<>>
  PROVE  /\ Head(forms[c]) \in FormRecords /\ Suits(trackerPlan[c], Head(forms[c])) /\ Len(forms[c]) \in Nat \ {0}
         /\ Tail(forms[c]) \in Seq(FormRecords) /\ Len(Tail(forms[c])) = Len(forms[c]) - 1
         /\ \A i \in DOMAIN Tail(forms[c]) : Suits(trackerPlan[c], Tail(forms[c])[i])
<1>1. forms[c] \in Seq(FormRecords) /\ \A i \in DOMAIN forms[c] : Suits(trackerPlan[c], forms[c][i])
  BY DEF TrackerInv, TrackerTypeOK, FormsSuit
<1>2. 1 \in DOMAIN forms[c] /\ Head(forms[c]) = forms[c][1]
  BY <1>1
<1>3. \A i \in DOMAIN Tail(forms[c]) : i + 1 \in DOMAIN forms[c] /\ Tail(forms[c])[i] = forms[c][i + 1]
  BY <1>1
<1> QED
  BY <1>1, <1>2, <1>3

\* What trying a form comes to, for both kinds of tools.
LEMMA FormTried ==
  ASSUME TrackerInv, NEW c \in TrackerCalls, RunForm(c) \/ RunPlain(c)
  PROVE  /\ forms[c] # <<>> /\ trackerStep[c] = "run" /\ forms' = [forms EXCEPT ![c] = Tail(@)]
         /\ UNCHANGED <<around, aim, token, comments>>
         /\ misread' \in [TrackerCalls -> Nat] /\ misread'[c] >= misread[c]
         /\ \A o \in TrackerCalls : o # c => misread'[o] = misread[o]
         /\ \E acts \in BOOLEAN :
              /\ effects' = IF acts THEN Append(effects, [call |-> c, form |-> Head(forms[c])]) ELSE effects
              /\ acts => Head(forms[c]).verb \notin Reading
              /\ \/ /\ Reports(c, "run", "done") /\ trackerPlan[c].tool # "comment"
                    /\ trackerPlan[c].tool \notin Readers => acts
                 \/ Reports(c, "run", "failed") \/ Reports(c, "run", "raw")
                 \/ trackerPlan[c].tool = "comment" /\ TrackerGoes(c, "run", "aim") /\ UNCHANGED trackerAnswer
                 \/ /\ UNCHANGED <<trackerStep, trackerAnswer>> /\ trackerPlan[c].tool \notin Plain
                    /\ acts => misread'[c] = misread[c] + 1
<1>1. trackerStep[c] = "run" /\ forms[c] # <<>>
  BY DEF RunForm, RunPlain, TrackerInv, FormsSuit
<1>2. misread \in [TrackerCalls -> Nat] /\ forms \in [TrackerCalls -> Seq(FormRecords)]
  BY DEF TrackerInv, TrackerTypeOK
<1> DEFINE f == Head(forms[c])
<1>3. Suits(trackerPlan[c], f)
  BY <1>1, FormsFitting
<1>4. \A o \in Outcomes(f) : o.acts \in BOOLEAN /\ (o.reads = "json" => o.acts)
  <2>1. ASSUME NEW o \in Outcomes(f)
        PROVE  \/ o = [acts |-> FALSE, reads |-> "unknown"] \/ o = [acts |-> TRUE, reads |-> "json"]
               \/ o = [acts |-> TRUE, reads |-> "unknown"] \/ o = [acts |-> TRUE, reads |-> "other"]
               \/ o = [acts |-> FALSE, reads |-> "other"]
    BY <2>1, Zenon DEF Outcomes
  <2>2. ASSUME NEW o \in Outcomes(f) PROVE o.acts \in BOOLEAN /\ (o.reads = "json" => o.acts)
    <3>1. CASE o = [acts |-> TRUE, reads |-> "json"] \/ o = [acts |-> TRUE, reads |-> "unknown"]
               \/ o = [acts |-> TRUE, reads |-> "other"]
      <4>1. o.acts = TRUE
        BY <3>1
      <4> QED
        BY <4>1
    <3>2. CASE o = [acts |-> FALSE, reads |-> "unknown"] \/ o = [acts |-> FALSE, reads |-> "other"]
      <4>1. o.acts = FALSE /\ o.reads # "json"
        BY <3>2
      <4> QED
        BY <4>1
    <3> QED
      BY <2>1, <2>2, <3>1, <3>2
  <2> QED
    BY <2>2
<1> HIDE DEF f
<1>5. CASE RunForm(c)
  <2>1. /\ trackerPlan[c].tool \notin Plain /\ forms' = [forms EXCEPT ![c] = Tail(@)]
        /\ UNCHANGED <<around, aim, token, comments>>
    BY <1>5 DEF RunForm
  <2>2. PICK o \in Outcomes(f) :
          /\ effects' = IF o.acts /\ f.verb \notin Reading THEN Append(effects, [call |-> c, form |-> f]) ELSE effects
          /\ misread' = [misread EXCEPT ![c] = IF (o.acts /\ f.verb \notin Reading) /\ o.reads = "unknown"
                                               THEN @ + 1 ELSE @]
          /\ IF o.reads = "json" THEN
               IF trackerPlan[c].tool = "comment"
               THEN TrackerGoes(c, "run", "aim") /\ UNCHANGED trackerAnswer
               ELSE Reports(c, "run", "done")
             ELSE IF EndsAttempts(o.reads) \/ Len(forms[c]) = 1 THEN Reports(c, "run", "failed")
             ELSE UNCHANGED <<trackerStep, trackerAnswer>>
    BY <1>5 DEF RunForm, f
  <2> DEFINE acts == o.acts /\ f.verb \notin Reading
  <2>3. acts \in BOOLEAN /\ (acts => f.verb \notin Reading)
    OBVIOUS
  <2>4. /\ misread' \in [TrackerCalls -> Nat] /\ misread'[c] >= misread[c]
        /\ \A x \in TrackerCalls : x # c => misread'[x] = misread[x]
        /\ acts /\ o.reads = "unknown" => misread'[c] = misread[c] + 1
    BY <1>2, <2>2
  <2>5. \/ /\ Reports(c, "run", "done") /\ trackerPlan[c].tool # "comment"
           /\ trackerPlan[c].tool \notin Readers => acts
        \/ Reports(c, "run", "failed") \/ Reports(c, "run", "raw")
        \/ trackerPlan[c].tool = "comment" /\ TrackerGoes(c, "run", "aim") /\ UNCHANGED trackerAnswer
        \/ /\ UNCHANGED <<trackerStep, trackerAnswer>> /\ trackerPlan[c].tool \notin Plain
           /\ acts => misread'[c] = misread[c] + 1
    BY <1>3, <1>4, <2>1, <2>2, <2>4 DEF EndsAttempts, Suits
  <2>6. effects' = IF acts THEN Append(effects, [call |-> c, form |-> f]) ELSE effects
    BY <2>2
  <2> HIDE DEF acts
  <2> QED
    BY <1>1, <2>1, <2>3, <2>4, <2>5, <2>6 DEF f
<1>6. CASE RunPlain(c)
  <2>1. /\ forms' = [forms EXCEPT ![c] = Tail(@)] /\ UNCHANGED <<around, misread, aim, token, comments>>
    BY <1>6 DEF RunPlain
  <2>2. PICK o \in Outcomes(f) :
          /\ effects' = IF o.acts /\ f.verb \notin Reading THEN Append(effects, [call |-> c, form |-> f]) ELSE effects
          /\ \/ o.reads = "json" /\ Reports(c, "run", "done")
             \/ o.reads = "other" /\ o.acts /\ Reports(c, "run", "raw")
             \/ o.reads # "json" /\ Reports(c, "run", "failed")
    BY <1>6 DEF RunPlain, f
  <2> DEFINE acts == o.acts /\ f.verb \notin Reading
  <2>3. acts \in BOOLEAN /\ (acts => f.verb \notin Reading)
    OBVIOUS
  <2>4. trackerPlan[c].tool # "comment"
    BY <1>6 DEF RunPlain, Plain, AgentTools, IssueTools
  <2>5. \/ /\ Reports(c, "run", "done") /\ trackerPlan[c].tool # "comment"
           /\ trackerPlan[c].tool \notin Readers => acts
        \/ Reports(c, "run", "failed") \/ Reports(c, "run", "raw")
    BY <1>3, <1>4, <2>2, <2>4 DEF Suits
  <2>6. effects' = IF acts THEN Append(effects, [call |-> c, form |-> f]) ELSE effects
    BY <2>2
  <2> HIDE DEF acts
  <2> QED
    BY <1>1, <1>2, <2>1, <2>3, <2>5, <2>6 DEF f
<1> QED
  BY <1>5, <1>6

\* What else was carried out stays, and what is carried out now comes last.
LEMMA EffectAppended ==
  ASSUME NEW S, effects \in Seq(S), NEW e \in S, effects' = Append(effects, e)
  PROVE  /\ effects' \in Seq(S) /\ Len(effects) \in Nat /\ DOMAIN effects = 1..Len(effects)
         /\ DOMAIN effects' = DOMAIN effects \cup {Len(effects) + 1}
         /\ \A i \in DOMAIN effects : effects'[i] = effects[i] /\ i <= Len(effects) /\ i \in Nat
         /\ effects'[Len(effects) + 1] = e
  OBVIOUS
LEMMA CommentAppended ==
  ASSUME NEW S, comments \in Seq(S), NEW e \in S, comments' = Append(comments, e)
  PROVE  /\ comments' \in Seq(S) /\ Len(comments) \in Nat
         /\ DOMAIN comments' = DOMAIN comments \cup {Len(comments) + 1}
         /\ \A i \in DOMAIN comments : comments'[i] = comments[i] /\ i <= Len(comments) /\ i \in Nat
         /\ comments'[Len(comments) + 1] = e
  OBVIOUS

\* The effects of a call are finitely many; one more counts for one.
LEMMA EffectsCounted ==
  ASSUME TrackerTypeOK, NEW c
  PROVE  IsFiniteSet(EffectsOf(c)) /\ Cardinality(EffectsOf(c)) \in Nat
<1>1. DOMAIN effects = 1..Len(effects) /\ Len(effects) \in Nat
  BY DEF TrackerTypeOK
<1>2. IsFiniteSet(1..Len(effects))
  BY <1>1, FS_Interval
<1> QED
  BY <1>1, <1>2, FS_Subset, FS_CardinalityType DEF EffectsOf

LEMMA EffectsGrow ==
  ASSUME TrackerTypeOK, NEW c \in TrackerCalls, NEW f \in FormRecords, effects' = Append(effects, [call |-> c, form |-> f])
  PROVE  /\ EffectsOf(c)' = EffectsOf(c) \cup {Len(effects) + 1} /\ Len(effects) + 1 \notin EffectsOf(c)
         /\ Cardinality(EffectsOf(c)') = Cardinality(EffectsOf(c)) + 1
         /\ \A o \in TrackerCalls : o # c => EffectsOf(o)' = EffectsOf(o)
<1> DEFINE e == [call |-> c, form |-> f]
<1>1. e \in [call : TrackerCalls, form : FormRecords] /\ e.call = c
  OBVIOUS
<1> HIDE DEF e
<1>2. effects' = Append(effects, e)
  BY DEF e
<1>3. /\ DOMAIN effects' = DOMAIN effects \cup {Len(effects) + 1} /\ DOMAIN effects = 1..Len(effects)
      /\ \A i \in DOMAIN effects : effects'[i] = effects[i] /\ i <= Len(effects) /\ i \in Nat
      /\ effects'[Len(effects) + 1] = e /\ Len(effects) \in Nat
  BY <1>1, <1>2, EffectAppended DEF TrackerTypeOK
<1>4. \A o : EffectsOf(o)' = {i \in DOMAIN effects' : effects'[i].call = o}
  BY DEF EffectsOf
<1>5. Len(effects) + 1 \notin DOMAIN effects
  BY <1>3
<1>6. EffectsOf(c)' = EffectsOf(c) \cup {Len(effects) + 1} /\ Len(effects) + 1 \notin EffectsOf(c)
  BY <1>1, <1>3, <1>4, <1>5 DEF EffectsOf
<1>7. \A o \in TrackerCalls : o # c => EffectsOf(o)' = EffectsOf(o)
  BY <1>1, <1>3, <1>4, <1>5 DEF EffectsOf
<1> QED
  BY <1>6, <1>7, EffectsCounted, FS_AddElement

LEMMA Records ==
  ASSUME TrackerTypeOK
  PROVE  /\ \A i \in DOMAIN effects : effects[i].call \in TrackerCalls /\ effects[i].form \in FormRecords
         /\ \A i \in DOMAIN comments : comments[i].call \in TrackerCalls
<1>1. ASSUME NEW i \in DOMAIN effects PROVE effects[i].call \in TrackerCalls /\ effects[i].form \in FormRecords
  <2> DEFINE R == [call : TrackerCalls, form : FormRecords]
  <2>1. effects \in Seq(R)
    BY DEF TrackerTypeOK
  <2>2. \A r \in R : r.call \in TrackerCalls /\ r.form \in FormRecords
    OBVIOUS
  <2> HIDE DEF R
  <2>3. effects[i] \in R
    BY <1>1, <2>1
  <2> QED
    BY <2>2, <2>3
<1>2. ASSUME NEW i \in DOMAIN comments PROVE comments[i].call \in TrackerCalls
  <2> DEFINE R == [call : TrackerCalls, target : Targets, author : Accounts]
  <2>1. comments \in Seq(R)
    BY DEF TrackerTypeOK
  <2>2. \A r \in R : r.call \in TrackerCalls
    OBVIOUS
  <2> HIDE DEF R
  <2>3. comments[i] \in R
    BY <1>2, <2>1
  <2> QED
    BY <2>2, <2>3
<1> QED
  BY <1>1, <1>2

LEMMA ArrivesKeeps ==
  ASSUME TrackerInv, NEW c \in TrackerCalls, TrackerCallArrives(c)
  PROVE  TrackerInv'
<1> DEFINE p == trackerPlan[c]
<1>1. TrackerTypeOK
  BY DEF TrackerInv
<1>2. UNCHANGED <<trackerPlan, dialect, execution, keyring, moves, effects, misread, aim, token, comments>>
  BY DEF TrackerCallArrives, around
<1>3. FormsOf(p) \in Seq(Fitting(p)) /\ (p.tool \in Plain => FormsOf(p) # <<>>)
  BY <1>1, PlanFits, FormsOfSuit DEF TrackerTypeOK
<1>4. /\ FormsOf(p) \in Seq(FormRecords) /\ Len(FormsOf(p)) \in Nat
      /\ \A i \in DOMAIN FormsOf(p) : Suits(p, FormsOf(p)[i])
  BY <1>3 DEF Fitting
<1>5. trackerStep[c] = "out" /\ \A o \in TrackerCalls : o # c => trackerStep'[o] = trackerStep[o]
  BY <1>1, OneGoes DEF TrackerCallArrives, Reports, TrackerTypeOK
<1>6. trackerAnswer[c] = "none"
  BY <1>5 DEF TrackerInv, StepsFit
<1>7. EffectsOf(c) = {} /\ CommentsOf(c) = {}
  BY <1>5, <1>6 DEF TrackerInv, ActorsMay, CommentersMay, EffectsOf, CommentsOf
<1>8. \A o : EffectsOf(o)' = EffectsOf(o) /\ CommentsOf(o)' = CommentsOf(o)
  BY <1>2 DEF EffectsOf, CommentsOf
<1>9. \/ /\ trackerStep'[c] = "answered" /\ trackerAnswer'[c] \in {"confirm", "bad_request"} /\ forms' = forms
         /\ \A o \in TrackerCalls : o # c => trackerAnswer'[o] = trackerAnswer[o]
         /\ trackerAnswer' \in [TrackerCalls ->
              {"none", "confirm", "bad_request", "failed", "done", "raw", "commented", "unsure"}]
      \/ /\ MayWrite(p) /\ trackerStep'[c] \in {"run", "aim"} /\ trackerAnswer' = trackerAnswer
         /\ trackerStep'[c] = "aim" => p.tool = "comment"
         /\ forms' = [forms EXCEPT ![c] = FormsOf(p)]
  <2>1. ASSUME NEW a \in {"confirm", "bad_request"}, Reports(c, "out", a), UNCHANGED forms
        PROVE  /\ trackerStep'[c] = "answered" /\ trackerAnswer'[c] = a /\ forms' = forms
               /\ \A o \in TrackerCalls : o # c => trackerAnswer'[o] = trackerAnswer[o]
               /\ trackerAnswer' \in [TrackerCalls ->
                    {"none", "confirm", "bad_request", "failed", "done", "raw", "commented", "unsure"}]
    BY <1>1, <2>1, OneReports DEF Reports, TrackerTypeOK
  <2> DEFINE needsLink == p.tool = "comment" /\ p.linked /\ (p.repo = 0 \/ p.number = 0)
             goes == IF p.tool = "comment" /\ ~needsLink THEN "aim" ELSE "run"
  <2>2. ASSUME MayWrite(p), TrackerGoes(c, "out", goes), forms' = [forms EXCEPT ![c] = FormsOf(p)], UNCHANGED trackerAnswer
        PROVE  MayWrite(p) /\ trackerStep'[c] \in {"run", "aim"} /\ (trackerStep'[c] = "aim" => p.tool = "comment")
    <3>1. goes \in {"run", "aim"} /\ (goes = "aim" => p.tool = "comment")
      OBVIOUS
    <3> HIDE DEF goes
    <3> QED
      BY <1>1, <2>2, <3>1, OneGoes DEF TrackerTypeOK
  <2> QED
    BY <2>1, <2>2 DEF TrackerCallArrives
<1>10. TrackerTypeOK'
  <2>1. trackerStep' \in [TrackerCalls -> {"out", "run", "aim", "token", "identity", "post", "answered"}]
    BY <1>1 DEF TrackerCallArrives, Reports, TrackerGoes, TrackerTypeOK
  <2>2. forms' \in [TrackerCalls -> Seq(FormRecords)]
    BY <1>1, <1>4, <1>9 DEF TrackerTypeOK
  <2>3. trackerAnswer' \in [TrackerCalls ->
          {"none", "confirm", "bad_request", "failed", "done", "raw", "commented", "unsure"}]
    BY <1>1, <1>9 DEF TrackerTypeOK
  <2> QED
    BY <1>1, <1>2, <2>1, <2>2, <2>3 DEF TrackerTypeOK
<1>11. /\ forms'[c] = forms[c] \/ forms'[c] = FormsOf(p)
       /\ trackerStep'[c] = "run" => forms'[c] = FormsOf(p)
       /\ \A o \in TrackerCalls : o # c => forms'[o] = forms[o] /\ trackerAnswer'[o] = trackerAnswer[o]
       /\ trackerAnswer'[c] # "done" /\ trackerAnswer'[c] # "commented"
  BY <1>1, <1>6, <1>9 DEF TrackerTypeOK
<1>12. FormsSuit'
  <2>1. ASSUME NEW o \in TrackerCalls
        PROVE  /\ \A i \in DOMAIN forms'[o] : Suits(trackerPlan[o], forms'[o][i])
               /\ Len(forms'[o]) <= Len(FormsOf(trackerPlan[o]))
               /\ trackerStep'[o] = "run" /\ trackerPlan[o].tool \in Plain => forms'[o] # <<>>
    <3>1. CASE o # c
      BY <1>5, <1>11, <3>1 DEF TrackerInv, FormsSuit
    <3>2. CASE o = c
      BY <1>3, <1>4, <1>11, <3>2 DEF TrackerInv, FormsSuit
    <3> QED
      BY <3>1, <3>2
  <2> QED
    BY <1>2, <2>1 DEF FormsSuit
<1>13. StepsFit'
  BY <1>2, <1>5, <1>6, <1>9 DEF TrackerInv, StepsFit
<1>14. ActorsMay'
  <2>1. ASSUME NEW i \in DOMAIN effects PROVE effects[i].call # c /\ effects[i].call \in TrackerCalls
    BY <1>1, <1>7, <2>1, Records DEF EffectsOf
  <2> QED
    BY <1>2, <1>5, <1>11, <2>1 DEF TrackerInv, ActorsMay
<1>15. ActsCounted'
  <2>1. Cardinality(EffectsOf(c)) = 0 /\ misread[c] \in Nat
    BY <1>1, <1>7, FS_EmptySet DEF TrackerTypeOK
  <2> QED
    BY <1>2, <1>5, <1>8, <2>1 DEF TrackerInv, ActsCounted
<1>16. CommentersMay'
  <2>1. ASSUME NEW i \in DOMAIN comments PROVE comments[i].call # c /\ comments[i].call \in TrackerCalls
    BY <1>1, <1>7, <2>1, Records DEF CommentsOf
  <2> QED
    BY <1>2, <1>8, <1>11, <2>1 DEF TrackerInv, CommentersMay
<1>17. LastFormActed'
  <2>1. \A o \in TrackerCalls : trackerAnswer'[o] = "done" =>
          o # c /\ trackerAnswer[o] = "done" /\ forms'[o] = forms[o] /\ EffectsOf(o)' = EffectsOf(o)
    BY <1>8, <1>11
  <2> QED
    BY <1>2, <2>1 DEF TrackerInv, LastFormActed
<1> QED
  BY <1>10, <1>12, <1>13, <1>14, <1>15, <1>16, <1>17 DEF TrackerInv

LEMMA TryKeeps ==
  ASSUME TrackerInv, NEW c \in TrackerCalls, RunForm(c) \/ RunPlain(c)
  PROVE  TrackerInv'
<1> DEFINE p == trackerPlan[c]
           f == Head(forms[c])
<1>1. /\ forms[c] # <<>> /\ trackerStep[c] = "run" /\ forms' = [forms EXCEPT ![c] = Tail(@)]
      /\ UNCHANGED <<trackerPlan, dialect, execution, keyring, moves, aim, token, comments>>
      /\ misread' \in [TrackerCalls -> Nat] /\ misread'[c] >= misread[c]
      /\ \A o \in TrackerCalls : o # c => misread'[o] = misread[o]
  BY FormTried DEF around
<1>2. PICK acts \in BOOLEAN :
        /\ effects' = IF acts THEN Append(effects, [call |-> c, form |-> f]) ELSE effects
        /\ acts => f.verb \notin Reading
        /\ \/ /\ Reports(c, "run", "done") /\ p.tool # "comment"
              /\ p.tool \notin Readers => acts
           \/ Reports(c, "run", "failed") \/ Reports(c, "run", "raw")
           \/ p.tool = "comment" /\ TrackerGoes(c, "run", "aim") /\ UNCHANGED trackerAnswer
           \/ /\ UNCHANGED <<trackerStep, trackerAnswer>> /\ p.tool \notin Plain
              /\ acts => misread'[c] = misread[c] + 1
  BY FormTried
<1>3. TrackerTypeOK /\ misread[c] \in Nat /\ misread'[c] \in Nat
  BY <1>1 DEF TrackerInv, TrackerTypeOK
<1>4. f \in FormRecords /\ Suits(p, f) /\ Tail(forms[c]) \in Seq(FormRecords)
  BY <1>1, FormsFitting
<1>5. /\ forms'[c] = Tail(forms[c]) /\ Len(forms'[c]) = Len(forms[c]) - 1 /\ Len(forms[c]) \in Nat \ {0}
      /\ \A i \in DOMAIN forms'[c] : Suits(p, forms'[c][i])
      /\ Len(forms[c]) <= Len(FormsOf(p))
  BY <1>1, <1>3, FormsFitting DEF TrackerTypeOK, TrackerInv, FormsSuit
<1>6. \A o \in TrackerCalls : o # c =>
        trackerStep'[o] = trackerStep[o] /\ trackerAnswer'[o] = trackerAnswer[o] /\ forms'[o] = forms[o]
  <2>1. \A o \in TrackerCalls : o # c => forms'[o] = forms[o]
    BY <1>1, <1>3 DEF TrackerTypeOK
  <2>2. ASSUME NEW a, Reports(c, "run", a)
        PROVE  \A o \in TrackerCalls : o # c => trackerStep'[o] = trackerStep[o] /\ trackerAnswer'[o] = trackerAnswer[o]
    BY <1>3, <2>2, OneReports
  <2>3. ASSUME TrackerGoes(c, "run", "aim"), UNCHANGED trackerAnswer
        PROVE  \A o \in TrackerCalls : o # c => trackerStep'[o] = trackerStep[o] /\ trackerAnswer'[o] = trackerAnswer[o]
    BY <1>3, <2>3, OneGoes DEF TrackerTypeOK
  <2> QED
    BY <1>2, <2>1, <2>2, <2>3
<1>7. /\ trackerStep' \in [TrackerCalls -> {"out", "run", "aim", "token", "identity", "post", "answered"}]
      /\ trackerAnswer' \in [TrackerCalls ->
           {"none", "confirm", "bad_request", "failed", "done", "raw", "commented", "unsure"}]
  BY <1>2, <1>3 DEF TrackerTypeOK, Reports, TrackerGoes
<1>8. \/ /\ trackerStep'[c] = "answered" /\ trackerAnswer'[c] = "done"
         /\ p.tool # "comment" /\ (p.tool \notin Readers => acts)
      \/ trackerStep'[c] = "answered" /\ trackerAnswer'[c] \in {"failed", "raw"}
      \/ trackerStep'[c] = "aim" /\ trackerAnswer'[c] = trackerAnswer[c] /\ p.tool = "comment"
      \/ /\ trackerStep'[c] = "run" /\ trackerAnswer'[c] = trackerAnswer[c] /\ p.tool \notin Plain
         /\ acts => misread'[c] = misread[c] + 1
  <2>1. ASSUME NEW a, Reports(c, "run", a) PROVE trackerStep'[c] = "answered" /\ trackerAnswer'[c] = a
    BY <1>3, <2>1, OneReports
  <2>2. ASSUME TrackerGoes(c, "run", "aim") PROVE trackerStep'[c] = "aim"
    BY <1>3, <2>2, OneGoes DEF TrackerTypeOK
  <2> QED
    BY <1>1, <1>2, <2>1, <2>2
<1>9. trackerAnswer[c] = "none" /\ MayWrite(p) /\ (acts => p.tool \notin Readers)
  BY <1>1, <1>2, <1>4 DEF TrackerInv, StepsFit, Suits
<1> HIDE DEF f
<1>10. /\ acts => /\ EffectsOf(c)' = EffectsOf(c) \cup {Len(effects) + 1}
                  /\ Cardinality(EffectsOf(c)') = Cardinality(EffectsOf(c)) + 1
       /\ ~acts => EffectsOf(c)' = EffectsOf(c)
       /\ \A o \in TrackerCalls : o # c => EffectsOf(o)' = EffectsOf(o)
  <2>1. CASE acts
    BY <1>2, <1>3, <1>4, <2>1, EffectsGrow
  <2>2. CASE ~acts
    BY <1>2, <2>2 DEF EffectsOf
  <2> QED
    BY <2>1, <2>2
<1>11. acts => /\ effects' \in Seq([call : TrackerCalls, form : FormRecords])
               /\ DOMAIN effects' = DOMAIN effects \cup {Len(effects) + 1} /\ Len(effects) \in Nat
               /\ \A i \in DOMAIN effects : effects'[i] = effects[i] /\ i <= Len(effects) /\ i \in Nat
               /\ effects'[Len(effects) + 1].call = c /\ effects'[Len(effects) + 1].form = f
  <2> DEFINE e == [call |-> c, form |-> f]
             S == [call : TrackerCalls, form : FormRecords]
  <2>1. e \in S /\ e.call = c /\ e.form = f
    BY <1>4
  <2>2. effects \in Seq(S) /\ (acts => effects' = Append(effects, e))
    BY <1>2, <1>3 DEF TrackerTypeOK
  <2> HIDE DEF e, S
  <2>3. acts => /\ effects' \in Seq(S)
                /\ DOMAIN effects' = DOMAIN effects \cup {Len(effects) + 1} /\ Len(effects) \in Nat
                /\ \A i \in DOMAIN effects : effects'[i] = effects[i] /\ i <= Len(effects) /\ i \in Nat
                /\ effects'[Len(effects) + 1] = e
    BY <2>1, <2>2, EffectAppended
  <2> QED
    BY <2>1, <2>3 DEF S
<1>12. \A o : CommentsOf(o)' = CommentsOf(o)
  BY <1>1 DEF CommentsOf
<1>13. TrackerTypeOK'
  <2>1. forms' \in [TrackerCalls -> Seq(FormRecords)]
    BY <1>1, <1>3, <1>4 DEF TrackerTypeOK
  <2>2. effects' \in Seq([call : TrackerCalls, form : FormRecords])
    BY <1>2, <1>3, <1>11 DEF TrackerTypeOK
  <2> QED
    BY <1>1, <1>3, <1>7, <2>1, <2>2 DEF TrackerTypeOK
<1>14. FormsSuit'
  <2>1. ASSUME NEW o \in TrackerCalls
        PROVE  /\ \A i \in DOMAIN forms'[o] : Suits(trackerPlan[o], forms'[o][i])
               /\ Len(forms'[o]) <= Len(FormsOf(trackerPlan[o]))
               /\ trackerStep'[o] = "run" /\ trackerPlan[o].tool \in Plain => forms'[o] # <<>>
    <3>1. CASE o # c
      BY <1>6, <3>1 DEF TrackerInv, FormsSuit
    <3>2. CASE o = c
      <4>1. Len(FormsOf(p)) \in Nat
        BY <1>3, PlanFits, FormsOfSuit DEF TrackerTypeOK
      <4>2. Len(forms'[c]) <= Len(FormsOf(p))
        BY <1>5, <4>1
      <4>3. trackerStep'[c] = "run" => p.tool \notin Plain
        BY <1>8
      <4> QED
        BY <1>5, <3>2, <4>2, <4>3
    <3> QED
      BY <3>1, <3>2
  <2> QED
    BY <1>1, <2>1 DEF FormsSuit
<1>15. StepsFit'
  BY <1>1, <1>6, <1>8, <1>9 DEF TrackerInv, StepsFit
<1>16. ActorsMay'
  <2>1. ASSUME NEW i \in DOMAIN effects
        PROVE  LET o == effects[i].call
               IN /\ Suits(trackerPlan[o], effects[i].form) /\ trackerPlan[o].tool \notin Readers /\ MayWrite(trackerPlan[o])
                  /\ trackerStep'[o] = "run" \/ trackerAnswer'[o] \in {"failed", "done", "raw"}
    <3>1. effects[i].call \in TrackerCalls
      BY <1>3, Records
    <3>2. effects[i].call = c => trackerPlan[c].tool \notin Readers
      BY DEF TrackerInv, ActorsMay
    <3>3. effects[i].call = c => trackerStep'[c] = "run" \/ trackerAnswer'[c] \in {"failed", "done", "raw"}
      BY <1>8, <3>2 DEF Readers
    <3> QED
      BY <1>6, <3>1, <3>3 DEF TrackerInv, ActorsMay
  <2>2. acts => trackerStep'[c] = "run" \/ trackerAnswer'[c] \in {"failed", "done", "raw"}
    BY <1>8, <1>9 DEF Readers
  <2>3. CASE acts
    BY <1>1, <1>4, <1>9, <1>11, <2>1, <2>2, <2>3 DEF ActorsMay
  <2>4. CASE ~acts
    BY <1>1, <1>2, <2>1, <2>4 DEF ActorsMay
  <2> QED
    BY <2>3, <2>4
<1>17. ActsCounted'
  <2>1. Cardinality(EffectsOf(c)) \in Nat /\ Cardinality(EffectsOf(c)) <= misread[c]
    BY <1>1, <1>3, EffectsCounted DEF TrackerInv, ActsCounted
  <2>2. /\ Cardinality(EffectsOf(c)') <= 1 + misread'[c]
        /\ trackerStep'[c] = "run" => Cardinality(EffectsOf(c)') <= misread'[c]
    BY <1>1, <1>3, <1>8, <1>10, <2>1
  <2>3. ASSUME NEW o \in TrackerCalls, o # c
        PROVE  /\ Cardinality(EffectsOf(o)') <= 1 + misread'[o]
               /\ trackerStep'[o] = "run" => Cardinality(EffectsOf(o)') <= misread'[o]
    BY <1>1, <1>6, <1>10, <2>3 DEF TrackerInv, ActsCounted
  <2> QED
    BY <2>2, <2>3 DEF ActsCounted
<1>18. CommentersMay'
  <2>1. ASSUME NEW i \in DOMAIN comments PROVE comments[i].call # c /\ comments[i].call \in TrackerCalls
    BY <1>3, <1>9, Records DEF TrackerInv, CommentersMay
  <2>2. trackerAnswer'[c] # "commented"
    BY <1>8, <1>9
  <2> QED
    BY <1>1, <1>6, <1>12, <2>1, <2>2 DEF TrackerInv, CommentersMay
<1>19. LastFormActed'
  <2>1. ASSUME trackerAnswer'[c] = "done", p.tool \notin Readers
        PROVE  /\ Len(forms'[c]) < Len(FormsOf(p))
               /\ \E i \in EffectsOf(c)' : \A j \in EffectsOf(c)' : j <= i
    <3>1. acts
      BY <1>8, <1>9, <2>1
    <3>2. Len(effects) + 1 \in EffectsOf(c)' /\ \A j \in EffectsOf(c)' : j <= Len(effects) + 1
      BY <1>10, <1>11, <3>1 DEF EffectsOf
    <3>3. Len(FormsOf(p)) \in Nat
      BY <1>3, PlanFits, FormsOfSuit DEF TrackerTypeOK
    <3> QED
      BY <1>5, <3>2, <3>3
  <2>2. ASSUME NEW o \in TrackerCalls, o # c, trackerAnswer'[o] = "done", trackerPlan[o].tool \notin Readers
        PROVE  /\ Len(forms'[o]) < Len(FormsOf(trackerPlan[o]))
               /\ \E i \in EffectsOf(o)' : \A j \in EffectsOf(o)' : j <= i
    BY <1>6, <1>10, <2>2 DEF TrackerInv, LastFormActed
  <2>3. ASSUME NEW o \in TrackerCalls, trackerAnswer'[o] = "done" PROVE trackerPlan[o].tool # "comment"
    BY <1>6, <1>8, <1>9, <2>3 DEF TrackerInv, LastFormActed
  <2> QED
    BY <1>1, <2>1, <2>2, <2>3 DEF LastFormActed
<1> QED
  BY <1>13, <1>14, <1>15, <1>16, <1>17, <1>18, <1>19 DEF TrackerInv

\* The steps of a comment.
CommentSteps == {"aim", "token", "identity", "post"}

\* They leave alone what is carried out on the tracker.
LEMMA CommentingKeeps ==
  ASSUME TrackerInv, NEW c \in TrackerCalls, UNCHANGED <<around, forms, effects, misread>>, trackerStep[c] \in CommentSteps,
         trackerStep'[c] # "run", trackerAnswer'[c] # "done",
         \A o \in TrackerCalls : o # c => trackerStep'[o] = trackerStep[o] /\ trackerAnswer'[o] = trackerAnswer[o]
  PROVE  FormsSuit' /\ ActorsMay' /\ ActsCounted' /\ LastFormActed'
<1>1. trackerPlan[c].tool \in Readers
  BY DEF TrackerInv, StepsFit, CommentSteps, Readers
<1>2. \A o : EffectsOf(o)' = EffectsOf(o)
  BY DEF EffectsOf
<1>3. trackerPlan' = trackerPlan
  BY DEF around
<1>4. FormsSuit'
  BY <1>3 DEF TrackerInv, FormsSuit
<1>5. ActorsMay'
  <2>1. \A i \in DOMAIN effects : effects[i].call \in TrackerCalls /\ effects[i].call # c
    BY <1>1, Records DEF TrackerInv, ActorsMay
  <2> QED
    BY <1>3, <2>1 DEF TrackerInv, ActorsMay
<1>6. ActsCounted'
  BY <1>2 DEF TrackerInv, ActsCounted
<1>7. LastFormActed'
  <2>1. \A o \in TrackerCalls : trackerAnswer'[o] = "done" => o # c /\ trackerAnswer[o] = "done"
    OBVIOUS
  <2> QED
    BY <1>2, <1>3, <2>1 DEF TrackerInv, LastFormActed
<1> QED
  BY <1>4, <1>5, <1>6, <1>7

\* A step of a comment that makes none: everybody's comments are where they were.
LEMMA NoCommentKeeps ==
  ASSUME TrackerInv, NEW c \in TrackerCalls, UNCHANGED <<around, comments>>, trackerStep[c] \in CommentSteps,
         trackerAnswer'[c] # "commented",
         \A o \in TrackerCalls : o # c => trackerAnswer'[o] = trackerAnswer[o] /\ aim'[o] = aim[o]
  PROVE  CommentersMay'
<1>1. \A i \in DOMAIN comments : comments[i].call \in TrackerCalls /\ comments[i].call # c
  <2>1. trackerAnswer[c] = "none"
    BY DEF TrackerInv, StepsFit, CommentSteps
  <2> QED
    BY <2>1, Records DEF TrackerInv, CommentersMay
<1>2. \A o : CommentsOf(o)' = CommentsOf(o)
  BY DEF CommentsOf
<1>3. trackerPlan' = trackerPlan
  BY DEF around
<1>4. \A o \in TrackerCalls : trackerAnswer'[o] = "commented" => o # c /\ trackerAnswer[o] = "commented"
  OBVIOUS
<1> QED
  BY <1>1, <1>2, <1>3, <1>4 DEF TrackerInv, CommentersMay

LEMMA AnsweredTypes ==
  ASSUME TrackerTypeOK, NEW c \in TrackerCalls, NEW x, NEW a \in {"bad_request", "failed", "commented", "unsure"},
         Reports(c, x, a)
  PROVE  /\ trackerStep' \in [TrackerCalls -> {"out", "run", "aim", "token", "identity", "post", "answered"}]
         /\ trackerAnswer' \in [TrackerCalls ->
              {"none", "confirm", "bad_request", "failed", "done", "raw", "commented", "unsure"}]
  BY DEF TrackerTypeOK, Reports, TrackerGoes
LEMMA GoingTypes ==
  ASSUME TrackerTypeOK, NEW c \in TrackerCalls, NEW x, NEW y \in CommentSteps, TrackerGoes(c, x, y)
  PROVE  trackerStep' \in [TrackerCalls -> {"out", "run", "aim", "token", "identity", "post", "answered"}]
  BY DEF TrackerTypeOK, TrackerGoes, CommentSteps

LEMMA ResolveKeeps ==
  ASSUME TrackerInv, NEW c \in TrackerCalls, ResolveTarget(c)
  PROVE  TrackerInv'
<1> DEFINE p == trackerPlan[c]
           looked == p.linked /\ (p.repo = 0 \/ p.number = 0)
           goal == Resolved(p, IF looked THEN execution ELSE NoAim)
<1>1. TrackerTypeOK /\ UNCHANGED <<around, forms, effects, misread, token, comments>>
  BY DEF TrackerInv, ResolveTarget
<1>2. goal \in Targets
  <2>1. NoAim \in Targets /\ execution \in Targets
    BY <1>1 DEF NoAim, Targets, TrackerTypeOK
  <2>2. \A l \in Targets : Resolved(p, l) \in Targets
    BY <1>1, PlanFits DEF Resolved, Targets, TrackerTypeOK
  <2> QED
    BY <2>1, <2>2
<1>3. \/ Reports(c, "aim", "bad_request") /\ UNCHANGED aim
      \/ /\ goal.number # 0 /\ TrackerGoes(c, "aim", "token") /\ aim' = [aim EXCEPT ![c] = goal]
         /\ UNCHANGED trackerAnswer
  BY DEF ResolveTarget
<1> HIDE DEF goal
<1>4. CASE Reports(c, "aim", "bad_request") /\ UNCHANGED aim
  <2>1. /\ trackerStep[c] = "aim" /\ trackerStep'[c] = "answered" /\ trackerAnswer'[c] = "bad_request"
        /\ \A o \in TrackerCalls : o # c => trackerStep'[o] = trackerStep[o] /\ trackerAnswer'[o] = trackerAnswer[o]
    BY <1>1, <1>4, OneReports
  <2>2. TrackerTypeOK'
    BY <1>1, <1>4, AnsweredTypes DEF TrackerTypeOK, around
  <2>3. StepsFit'
    BY <1>1, <1>4, <2>1 DEF TrackerInv, StepsFit, around
  <2> QED
    BY <1>1, <1>4, <2>1, <2>2, <2>3, CommentingKeeps, NoCommentKeeps DEF TrackerInv, CommentSteps
<1>5. CASE goal.number # 0 /\ TrackerGoes(c, "aim", "token") /\ aim' = [aim EXCEPT ![c] = goal] /\ UNCHANGED trackerAnswer
  <2>1. /\ trackerStep[c] = "aim" /\ trackerStep'[c] = "token"
        /\ \A o \in TrackerCalls : o # c => trackerStep'[o] = trackerStep[o]
    BY <1>1, <1>5, OneGoes DEF TrackerTypeOK
  <2>2. aim'[c] = goal /\ \A o \in TrackerCalls : o # c => aim'[o] = aim[o]
    BY <1>1, <1>5 DEF TrackerTypeOK
  <2>3. TrackerTypeOK'
    <3>1. trackerStep' \in [TrackerCalls -> {"out", "run", "aim", "token", "identity", "post", "answered"}]
      BY <1>1, <1>5, GoingTypes DEF CommentSteps
    <3>2. aim' \in [TrackerCalls -> Targets]
      BY <1>1, <1>2, <1>5 DEF TrackerTypeOK
    <3> QED
      BY <1>1, <1>5, <3>1, <3>2 DEF TrackerTypeOK, around
  <2>4. trackerAnswer[c] = "none" /\ trackerAnswer' = trackerAnswer
    BY <1>5, <2>1 DEF TrackerInv, StepsFit
  <2>5. StepsFit'
    BY <1>1, <1>5, <2>1, <2>2, <2>4 DEF TrackerInv, StepsFit, around
  <2> QED
    BY <1>1, <2>1, <2>2, <2>3, <2>4, <2>5, CommentingKeeps, NoCommentKeeps DEF TrackerInv, CommentSteps
<1> QED
  BY <1>3, <1>4, <1>5

LEMMA TakeTokenKeeps ==
  ASSUME TrackerInv, NEW c \in TrackerCalls, TakeToken(c)
  PROVE  TrackerInv'
<1>1. TrackerTypeOK /\ UNCHANGED <<around, forms, effects, misread, aim, comments>> /\ keyring \in Accounts
  BY DEF TrackerInv, TakeToken, TrackerTypeOK
<1>2. CASE Reports(c, "token", "failed") /\ UNCHANGED token
  <2>1. /\ trackerStep[c] = "token" /\ trackerStep'[c] = "answered" /\ trackerAnswer'[c] = "failed"
        /\ \A o \in TrackerCalls : o # c => trackerStep'[o] = trackerStep[o] /\ trackerAnswer'[o] = trackerAnswer[o]
    BY <1>1, <1>2, OneReports
  <2>2. TrackerTypeOK'
    BY <1>1, <1>2, AnsweredTypes DEF TrackerTypeOK, around
  <2>3. StepsFit'
    BY <1>1, <1>2, <2>1 DEF TrackerInv, StepsFit, around
  <2> QED
    BY <1>1, <2>1, <2>2, <2>3, CommentingKeeps, NoCommentKeeps DEF TrackerInv, CommentSteps
<1>3. CASE TrackerGoes(c, "token", "identity") /\ token' = [token EXCEPT ![c] = keyring] /\ UNCHANGED trackerAnswer
  <2>1. /\ trackerStep[c] = "token" /\ trackerStep'[c] = "identity"
        /\ \A o \in TrackerCalls : o # c => trackerStep'[o] = trackerStep[o]
    BY <1>1, <1>3, OneGoes DEF TrackerTypeOK
  <2>2. \A o \in TrackerCalls : o # c => token'[o] = token[o]
    BY <1>1, <1>3 DEF TrackerTypeOK
  <2>3. TrackerTypeOK'
    <3>1. trackerStep' \in [TrackerCalls -> {"out", "run", "aim", "token", "identity", "post", "answered"}]
      BY <1>1, <1>3, GoingTypes DEF CommentSteps
    <3>2. token' \in [TrackerCalls -> Accounts]
      BY <1>1, <1>3 DEF TrackerTypeOK
    <3> QED
      BY <1>1, <1>3, <3>1, <3>2 DEF TrackerTypeOK, around
  <2>4. trackerAnswer[c] = "none" /\ trackerAnswer' = trackerAnswer
    BY <1>3, <2>1 DEF TrackerInv, StepsFit
  <2>5. StepsFit'
    BY <1>1, <2>1, <2>2, <2>4 DEF TrackerInv, StepsFit, around
  <2> QED
    BY <1>1, <2>1, <2>3, <2>4, <2>5, CommentingKeeps, NoCommentKeeps DEF TrackerInv, CommentSteps
<1> QED
  BY <1>2, <1>3 DEF TakeToken

LEMMA CheckIdentityKeeps ==
  ASSUME TrackerInv, NEW c \in TrackerCalls, CheckIdentity(c)
  PROVE  TrackerInv'
<1>1. TrackerTypeOK /\ UNCHANGED <<around, forms, effects, misread, aim, token, comments>>
  BY DEF TrackerInv, CheckIdentity
<1>2. CASE Reports(c, "identity", "failed")
  <2>1. /\ trackerStep[c] = "identity" /\ trackerStep'[c] = "answered" /\ trackerAnswer'[c] = "failed"
        /\ \A o \in TrackerCalls : o # c => trackerStep'[o] = trackerStep[o] /\ trackerAnswer'[o] = trackerAnswer[o]
    BY <1>1, <1>2, OneReports
  <2>2. TrackerTypeOK'
    BY <1>1, <1>2, AnsweredTypes DEF TrackerTypeOK, around
  <2>3. StepsFit'
    BY <1>1, <2>1 DEF TrackerInv, StepsFit, around
  <2> QED
    BY <1>1, <2>1, <2>2, <2>3, CommentingKeeps, NoCommentKeeps DEF TrackerInv, CommentSteps
<1>3. CASE IsBot(token[c]) /\ TrackerGoes(c, "identity", "post") /\ UNCHANGED trackerAnswer
  <2>1. /\ trackerStep[c] = "identity" /\ trackerStep'[c] = "post" /\ token[c] = Bot
        /\ \A o \in TrackerCalls : o # c => trackerStep'[o] = trackerStep[o]
    BY <1>1, <1>3, OneGoes DEF TrackerTypeOK, IsBot
  <2>2. TrackerTypeOK'
    <3>1. trackerStep' \in [TrackerCalls -> {"out", "run", "aim", "token", "identity", "post", "answered"}]
      BY <1>1, <1>3, GoingTypes DEF CommentSteps
    <3> QED
      BY <1>1, <1>3, <3>1 DEF TrackerTypeOK, around
  <2>3. trackerAnswer[c] = "none" /\ trackerAnswer' = trackerAnswer
    BY <1>3, <2>1 DEF TrackerInv, StepsFit
  <2>4. StepsFit'
    BY <1>1, <2>1, <2>3 DEF TrackerInv, StepsFit, around
  <2> QED
    BY <1>1, <2>1, <2>2, <2>3, <2>4, CommentingKeeps, NoCommentKeeps DEF TrackerInv, CommentSteps
<1> QED
  BY <1>2, <1>3 DEF CheckIdentity

LEMMA PostCommentKeeps ==
  ASSUME TrackerInv, NEW c \in TrackerCalls, PostComment(c)
  PROVE  TrackerInv'
<1>1. TrackerTypeOK /\ UNCHANGED <<around, forms, effects, misread, aim, token>>
  BY DEF TrackerInv, PostComment
<1> DEFINE e == [call |-> c, target |-> aim[c], author |-> token[c]]
           R == [call : TrackerCalls, target : Targets, author : Accounts]
<1>2. PICK made \in BOOLEAN, a \in {"commented", "unsure"} :
        /\ comments' = IF made THEN Append(comments, e) ELSE comments
        /\ Reports(c, "post", a) /\ (a = "commented" => made)
  BY DEF PostComment
<1>3. /\ trackerStep[c] = "post" /\ trackerStep'[c] = "answered" /\ trackerAnswer'[c] \in {"commented", "unsure"}
      /\ trackerAnswer'[c] = "commented" => made
      /\ \A o \in TrackerCalls : o # c => trackerStep'[o] = trackerStep[o] /\ trackerAnswer'[o] = trackerAnswer[o]
  BY <1>1, <1>2, OneReports
<1>4. /\ trackerAnswer[c] = "none" /\ MayWrite(trackerPlan[c]) /\ aim[c].number # 0 /\ token[c] = Bot
  BY <1>3 DEF TrackerInv, StepsFit
<1>5. \A i \in DOMAIN comments : comments[i].call \in TrackerCalls /\ comments[i].call # c
  BY <1>1, <1>4, Records DEF TrackerInv, CommentersMay
<1>6. /\ e \in R /\ e.call = c /\ e.author = Bot /\ e.target = aim[c] /\ comments \in Seq(R)
  BY <1>1, <1>4 DEF TrackerTypeOK
<1> HIDE DEF e, R
<1>7. made => /\ comments' \in Seq(R)
              /\ DOMAIN comments' = DOMAIN comments \cup {Len(comments) + 1} /\ Len(comments) \in Nat
              /\ \A i \in DOMAIN comments : comments'[i] = comments[i]
              /\ comments'[Len(comments) + 1] = e
  BY <1>2, <1>6, CommentAppended
<1>8. TrackerTypeOK'
  <2>1. comments' \in Seq([call : TrackerCalls, target : Targets, author : Accounts])
    BY <1>2, <1>6, <1>7 DEF R
  <2>2. /\ trackerStep' \in [TrackerCalls -> {"out", "run", "aim", "token", "identity", "post", "answered"}]
        /\ trackerAnswer' \in [TrackerCalls ->
             {"none", "confirm", "bad_request", "failed", "done", "raw", "commented", "unsure"}]
    BY <1>1, <1>2, AnsweredTypes
  <2> QED
    BY <1>1, <2>1, <2>2 DEF TrackerTypeOK, around
<1>9. StepsFit'
  BY <1>1, <1>3 DEF TrackerInv, StepsFit, around
<1>10. CommentersMay'
  <2>1. trackerPlan' = trackerPlan /\ aim' = aim
    BY <1>1 DEF around
  <2>2. ASSUME NEW i \in DOMAIN comments
        PROVE  LET o == comments[i].call
               IN /\ MayWrite(trackerPlan[o]) /\ trackerAnswer'[o] \in {"commented", "unsure"}
                  /\ comments[i].author = Bot /\ comments[i].target = aim[o] /\ aim[o].number # 0
    BY <1>3, <1>5 DEF TrackerInv, CommentersMay
  <2>3. CASE made
    <3>1. \A i \in DOMAIN comments' :
            LET o == comments'[i].call
            IN /\ MayWrite(trackerPlan[o]) /\ trackerAnswer'[o] \in {"commented", "unsure"}
               /\ comments'[i].author = Bot /\ comments'[i].target = aim[o] /\ aim[o].number # 0
      BY <1>3, <1>4, <1>6, <1>7, <2>2, <2>3
    <3>2. \A i, j \in DOMAIN comments' : comments'[i].call = comments'[j].call => i = j
      BY <1>5, <1>6, <1>7, <2>3 DEF TrackerInv, CommentersMay
    <3>3. ASSUME NEW o \in TrackerCalls, trackerAnswer'[o] = "commented" PROVE CommentsOf(o)' # {}
      <4>1. CASE o = c
        BY <1>6, <1>7, <2>3, <4>1 DEF CommentsOf
      <4>2. CASE o # c
        <5>1. PICK i \in DOMAIN comments : comments[i].call = o
          BY <1>3, <3>3, <4>2 DEF TrackerInv, CommentersMay, CommentsOf
        <5> QED
          BY <1>7, <2>3, <5>1 DEF CommentsOf
      <4> QED
        BY <4>1, <4>2
    <3> QED
      BY <2>1, <3>1, <3>2, <3>3 DEF CommentersMay
  <2>4. CASE ~made
    <3>1. comments' = comments /\ trackerAnswer'[c] # "commented" /\ \A o : CommentsOf(o)' = CommentsOf(o)
      BY <1>2, <1>3, <2>4 DEF CommentsOf
    <3> QED
      BY <1>3, <2>1, <2>2, <3>1 DEF TrackerInv, CommentersMay
  <2> QED
    BY <2>3, <2>4
<1> QED
  BY <1>1, <1>3, <1>8, <1>9, <1>10, CommentingKeeps DEF TrackerInv, CommentSteps

LEMMA WorldKeeps ==
  ASSUME TrackerInv, MoveWorld \/ UNCHANGED trackerVars
  PROVE  TrackerInv'
<1>1. UNCHANGED <<trackerPlan, trackerStep, trackerAnswer, forms, effects, misread, aim, token, comments>>
  BY DEF MoveWorld, trackerVars
<1>2. \A o : EffectsOf(o)' = EffectsOf(o) /\ CommentsOf(o)' = CommentsOf(o)
  BY <1>1 DEF EffectsOf, CommentsOf
<1>3. TrackerTypeOK'
  <2>1. [repo |-> 2, number |-> 2, kind |-> "issue"] \in Targets /\ [repo |-> 2, number |-> 2, kind |-> "issue"].kind # "auto"
    BY DEF Targets
  <2>2. dialect' \in Dialects /\ keyring' \in Accounts /\ execution' \in Targets /\ execution'.kind # "auto"
        /\ moves' \in 0..MaxMoves
    <3>1. CASE MoveWorld
      BY <2>1, <3>1, TrackerAssumption DEF TrackerInv, TrackerTypeOK, MoveWorld
    <3>2. CASE UNCHANGED trackerVars
      BY <3>2 DEF TrackerInv, TrackerTypeOK, trackerVars
    <3> QED
      BY <3>1, <3>2
  <2> QED
    BY <1>1, <2>2 DEF TrackerInv, TrackerTypeOK
<1>4. FormsSuit' /\ StepsFit' /\ ActorsMay'
  BY <1>1 DEF TrackerInv, FormsSuit, StepsFit, ActorsMay
<1>5. ActsCounted' /\ CommentersMay' /\ LastFormActed'
  BY <1>1, <1>2 DEF TrackerInv, ActsCounted, CommentersMay, LastFormActed
<1> QED
  BY <1>3, <1>4, <1>5 DEF TrackerInv

LEMMA TrackerInitially == TrackerInit => TrackerInv
<1> SUFFICES ASSUME TrackerInit PROVE TrackerInv
  OBVIOUS
<1>1. effects = <<>> /\ comments = <<>> /\ DOMAIN effects = {} /\ DOMAIN comments = {}
  BY DEF TrackerInit
<1>2. \A o : EffectsOf(o) = {} /\ CommentsOf(o) = {}
  BY <1>1 DEF EffectsOf, CommentsOf
<1>3. TrackerTypeOK
  <2>1. NoAim \in Targets /\ NoLink \in Targets /\ Linked \in Targets /\ NoLink.kind # "auto" /\ Linked.kind # "auto"
    BY DEF NoAim, NoLink, Linked, Targets
  <2>2. execution \in Targets /\ execution.kind # "auto" /\ aim \in [TrackerCalls -> Targets]
    BY <2>1 DEF TrackerInit
  <2> QED
    BY <1>1, <2>2, TrackerAssumption DEF TrackerInit, TrackerTypeOK, Accounts
<1>4. FormsSuit
  <2>1. \A c \in TrackerCalls : Len(FormsOf(trackerPlan[c])) \in Nat
    BY <1>3, PlanFits, FormsOfSuit DEF TrackerTypeOK
  <2> QED
    BY <2>1 DEF TrackerInit, FormsSuit
<1>5. StepsFit /\ LastFormActed
  BY DEF TrackerInit, StepsFit, LastFormActed
<1>6. ActorsMay /\ CommentersMay
  BY <1>1 DEF TrackerInit, ActorsMay, CommentersMay
<1>7. ActsCounted
  <2>1. \A c \in TrackerCalls : misread[c] = 0 /\ Cardinality(EffectsOf(c)) = 0
    BY <1>2, FS_EmptySet DEF TrackerInit
  <2> QED
    BY <2>1 DEF ActsCounted
<1> QED
  BY <1>3, <1>4, <1>5, <1>6, <1>7 DEF TrackerInv

LEMMA TrackerStep == TrackerInv /\ [TrackerNext]_trackerVars => TrackerInv'
  BY ArrivesKeeps, TryKeeps, ResolveKeeps, TakeTokenKeeps, CheckIdentityKeeps, PostCommentKeeps, WorldKeeps DEF TrackerNext

LEMMA TrackerInvHolds == TrackerInv => TrackerHolds
<1> SUFFICES ASSUME TrackerInv PROVE TrackerHolds
  OBVIOUS
<1>1. TrackerTypeOK
  BY DEF TrackerInv
<1>2. ConfirmedBeforeWrite
  <2>1. ASSUME NEW c \in TrackerCalls, EffectsOf(c) # {} \/ CommentsOf(c) # {}
        PROVE  MayWrite(trackerPlan[c]) /\ trackerAnswer[c] \notin {"confirm", "bad_request"}
    <3>1. CASE EffectsOf(c) # {}
      <4>1. PICK i \in DOMAIN effects : effects[i].call = c
        BY <3>1 DEF EffectsOf
      <4> QED
        BY <4>1 DEF TrackerInv, ActorsMay, StepsFit
    <3>2. CASE CommentsOf(c) # {}
      <4>1. PICK i \in DOMAIN comments : comments[i].call = c
        BY <3>2 DEF CommentsOf
      <4> QED
        BY <4>1 DEF TrackerInv, CommentersMay
    <3> QED
      BY <2>1, <3>1, <3>2
  <2> QED
    BY <2>1 DEF ConfirmedBeforeWrite, MayWrite
<1>3. OneFormActs
  <2>1. \A c \in TrackerCalls : Cardinality(EffectsOf(c)) <= 1 + misread[c]
    BY DEF TrackerInv, ActsCounted
  <2> QED
    BY <2>1 DEF TrackerInv, LastFormActed, OneFormActs, Readers
<1>4. AssignedAsAsked
  BY DEF TrackerInv, ActorsMay, Suits, AssignedAsAsked
<1>5. CommentsAreTheBots
  <2>1. \A i \in DOMAIN comments :
          comments[i].author = Bot /\ comments[i].target = aim[comments[i].call] /\ comments[i].target.number # 0
    BY DEF TrackerInv, CommentersMay
  <2>2. ASSUME NEW c \in TrackerCalls PROVE Cardinality(CommentsOf(c)) <= 1
    <3>1. CASE CommentsOf(c) = {}
      BY <3>1, FS_EmptySet
    <3>2. CASE CommentsOf(c) # {}
      <4>1. PICK i : CommentsOf(c) = {i}
        BY <3>2 DEF TrackerInv, CommentersMay, CommentsOf
      <4> QED
        BY <4>1, FS_Singleton
    <3> QED
      BY <3>1, <3>2
  <2> QED
    BY <2>1, <2>2 DEF TrackerInv, CommentersMay, CommentsAreTheBots
<1> QED
  BY <1>2, <1>3, <1>4, <1>5 DEF TrackerHolds

\* The tools that act on a tracker do nothing that was not confirmed, carry a
\* command out once more only when an answer was misread, and comment once, as
\* the bot, where the call resolved (tools_multica_control.go,
\* github_comment_identity.go).
THEOREM TrackerKeepsItsWord == TrackerSpec => []TrackerHolds
  BY TrackerInitially, TrackerStep, TrackerInvHolds, PTL DEF TrackerSpec
==============================================================================
