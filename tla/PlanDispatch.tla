----------------------------- MODULE PlanDispatch -----------------------------
(***************************************************************************)
(* Dispatch of plan tasks to Multica, an external tracker, which keeps one *)
(* Issue per task: the tool multica_materialize_plan_task                  *)
(* (internal/server/tools_multica_plan.go), the claim of the task          *)
(* (internal/plan/multica_dispatch.go) and the run grant that replaces     *)
(* the user's confirmation (internal/plan/run_grant.go).                   *)
(*                                                                         *)
(* A call authorizes itself, claims the task, creates the Issue or finds   *)
(* the one an earlier call left, and links it.  Each is a transaction or a *)
(* run of the CLI; replans, transitions and other calls act in between,    *)
(* and a call may die after any of them.  An Issue is named by the call    *)
(* that creates it.                                                        *)
(***************************************************************************)
EXTENDS Plan

CONSTANTS
  Calls,        \* calls of multica_materialize_plan_task
  Keys,         \* idempotency keys
  Target,       \* the plan task of a call
  Route, Routes, \* its assignee, project and priority
  MaxGrants,    \* bound: run grants created
  MaxAttempts,  \* max_attempts of a grant
  MaxDeaths     \* bound: calls that die half-way

Grants == 1..MaxGrants

ASSUME DispatchAssumption ==
  /\ Target \in [Calls -> Tasks] /\ Route \in [Calls -> Routes]
  /\ None \notin Calls \cup Routes \cup Keys
  /\ MaxGrants \in Nat /\ MaxAttempts \in Nat \ {0} /\ MaxDeaths \in Nat

GrantStates == {"none", "active", "ended"}
PC == {"idle", "claim", "create", "find", "link", "done", "dead"}

VARIABLES
  pc, key,     \* where a call is, and its idempotency key
  by,          \* the grant that authorized it, 0 for the user
  holds,       \* the Issue a call has created or found
  link,        \* plan_task_multica_dispatches.status, "none" without a row
  route,       \* its assignee, project and priority
  issueOf,     \* its issue_id
  recent,      \* claims younger than the lease
  issues,      \* Issues of the tracker
  grant,       \* the effective status of plan_run_grants
  attempts,    \* attempts_used
  uses,        \* plan_run_grant_uses
  deaths

rows == <<link, route, issueOf, recent>>
grants == <<grant, attempts, uses>>
calls == <<pc, key, by, holds>>
vars == <<planVars, calls, rows, issues, grants, deaths>>

TypeOK ==
  /\ PlanTypeOK
  /\ pc \in [Calls -> PC] /\ by \in [Calls -> 0..MaxGrants]
  /\ key \in [Calls -> Keys \cup {None}]
  /\ holds \in [Calls -> Calls \cup {None}]
  /\ link \in [Tasks -> {"none", "creating", "dispatched"}]
  /\ route \in [Tasks -> Routes \cup {None}]
  /\ issueOf \in [Tasks -> Calls \cup {None}]
  /\ recent \subseteq Tasks
  /\ issues \subseteq Calls
  /\ grant \in [Grants -> GrantStates]
  /\ attempts \in [Grants -> 0..MaxAttempts]
  /\ uses \subseteq Grants \X Tasks \X Keys
  /\ deaths \in Nat

Init ==
  /\ PlanInit
  /\ pc = [c \in Calls |-> "idle"] /\ by = [c \in Calls |-> 0]
  /\ key = [c \in Calls |-> None] /\ holds = [c \in Calls |-> None]
  /\ link = [t \in Tasks |-> "none"] /\ route = [t \in Tasks |-> None]
  /\ issueOf = [t \in Tasks |-> None]
  /\ recent = {} /\ issues = {}
  /\ grant = [g \in Grants |-> "none"]
  /\ attempts = [g \in Grants |-> 0] /\ uses = {}
  /\ deaths = 0

-----------------------------------------------------------------------------
\* Run grants

Active == {g \in Grants : grant[g] = "active"}

\* The active grant is superseded.
CreateRunGrant(g) ==
  /\ plan \notin {"none", "completed"}
  /\ grant[g] = "none" /\ \A h \in 1..(g - 1) : grant[h] # "none"
  /\ grant' = [h \in Grants |-> IF h = g THEN "active"
                                ELSE IF h \in Active THEN "ended" ELSE grant[h]]
  /\ UNCHANGED <<planVars, calls, rows, issues, attempts, uses, deaths>>

\* The user revokes it, or its lifetime, its runtime since the first use or the
\* tokens reported are over.
GrantEnds(g) ==
  /\ g \in Active
  /\ grant' = [grant EXCEPT ![g] = "ended"]
  /\ UNCHANGED <<planVars, calls, rows, issues, attempts, uses, deaths>>

Enter(c, k) ==
  /\ pc[c] = "idle" /\ pc' = [pc EXCEPT ![c] = "claim"]
  /\ key' = [key EXCEPT ![c] = k]

\* A call with user_confirmed=true needs no grant.
Confirm(c) ==
  /\ \E k \in Keys : Enter(c, k)
  /\ UNCHANGED <<planVars, by, holds, rows, issues, grants, deaths>>

\* Bug: the use of a key under an earlier grant is replayed.
ReplayedUnderAny(use) == \E h \in Grants : [use EXCEPT ![1] = h] \in uses

Replayed(use) == use \in uses
EnoughAttempts(g) == attempts[g] < MaxAttempts

\* AuthorizeRunGrantUse: a used key is replayed, a new one is an attempt unless
\* the task is dispatched already.  A call outside the grant's repositories
\* ends here.
Authorize(c, g, k) ==
  LET use == <<g, Target[c], k>> IN
  /\ Enter(c, k)
  /\ g \in Active /\ plan \notin {"none", "completed"}
  /\ Target[c] \in Present
  /\ \/ Replayed(use) /\ UNCHANGED attempts
     \/ ~Replayed(use) /\ link[Target[c]] = "dispatched" /\ UNCHANGED attempts
     \/ /\ ~Replayed(use) /\ link[Target[c]] # "dispatched"
        /\ EnoughAttempts(g)
        /\ attempts' = [attempts EXCEPT ![g] = @ + 1]
  /\ uses' = uses \cup {use}
  /\ by' = [by EXCEPT ![c] = g]
  /\ UNCHANGED <<planVars, holds, rows, issues, grant, deaths>>

\* withCleanIdempotency: the result of an earlier call with the key is the
\* answer, or its request another one.  The handler runs otherwise, and while
\* an earlier call still does when its lease is over (Idempotency).
Replay(c) ==
  /\ pc[c] = "claim"
  /\ \E b \in Calls \ {c} : key[b] = key[c] /\ pc[b] = "done"
  /\ pc' = [pc EXCEPT ![c] = "done"]
  /\ UNCHANGED <<planVars, key, by, holds, rows, issues, grants, deaths>>

-----------------------------------------------------------------------------
\* Bugs the properties must notice

\* A stale claim is taken over and the Issue created again.
ClaimStaleCreates(c) ==
  LET t == Target[c] IN
  /\ pc[c] = "claim" /\ t \in Present /\ link[t] = "creating" /\ task[t] = "todo"
  /\ route[t] = Route[c] /\ t \notin recent
  /\ recent' = recent \cup {t}
  /\ pc' = [pc EXCEPT ![c] = "create"]
  /\ UNCHANGED <<planVars, key, by, holds, link, route, issueOf, issues, grants, deaths>>

\* The claim does not look at the dependencies.
ClaimableLocked(t) == plan \notin {"none", "completed"} /\ task[t] = "todo"

\* The link sets the task in progress in a delivered plan as well.
StartLinkedAlways(t) ==
  /\ task' = [task EXCEPT ![t] = "in_progress"]
  /\ plan' = plan

-----------------------------------------------------------------------------
\* The call

Claimable(t) == plan \notin {"none", "completed"} /\ task[t] = "todo" /\ Unlocked(t)

\* ClaimMulticaDispatch without a row.
ClaimNew(c) ==
  LET t == Target[c] IN
  /\ pc[c] = "claim" /\ t \in Present /\ link[t] = "none" /\ Claimable(t)
  /\ link' = [link EXCEPT ![t] = "creating"]
  /\ route' = [route EXCEPT ![t] = Route[c]]
  /\ recent' = recent \cup {t}
  /\ pc' = [pc EXCEPT ![c] = "create"]
  /\ UNCHANGED <<planVars, key, by, holds, issueOf, issues, grants, deaths>>

\* ClaimMulticaDispatch of a claim that has outlived its lease.
ClaimStale(c) ==
  LET t == Target[c] IN
  /\ pc[c] = "claim" /\ t \in Present /\ link[t] = "creating" /\ Claimable(t)
  /\ route[t] = Route[c] /\ t \notin recent
  /\ recent' = recent \cup {t}
  /\ pc' = [pc EXCEPT ![c] = "find"]
  /\ UNCHANGED <<planVars, key, by, holds, link, route, issueOf, issues, grants, deaths>>

\* The call ends: the task is gone, dispatched, routed elsewhere, not ready or
\* claimed by another call.
EndClaim(c) ==
  LET t == Target[c] IN
  /\ pc[c] = "claim"
  /\ \/ t \notin Present \/ link[t] = "dispatched" \/ ~Claimable(t)
     \/ link[t] = "creating" /\ (route[t] # Route[c] \/ t \in recent)
  /\ pc' = [pc EXCEPT ![c] = "done"]
  /\ UNCHANGED <<planVars, key, by, holds, rows, issues, grants, deaths>>

\* `multica issue create`; it may fail, before the Issue is made or after.
CreateIssue(c) ==
  /\ pc[c] = "create"
  /\ \/ /\ issues' = issues \cup {c}
        /\ \/ holds' = [holds EXCEPT ![c] = c] /\ pc' = [pc EXCEPT ![c] = "link"]
           \/ UNCHANGED holds /\ pc' = [pc EXCEPT ![c] = "done"]
     \/ pc' = [pc EXCEPT ![c] = "done"] /\ UNCHANGED <<issues, holds>>
  /\ UNCHANGED <<planVars, key, by, rows, grants, deaths>>

\* findMulticaPlanTaskIssue: by the marker of the task.  Without an Issue the
\* call ends; it never creates one.
FindIssue(c) ==
  /\ pc[c] = "find"
  /\ \/ \E i \in issues :
          /\ Target[i] = Target[c]
          /\ holds' = [holds EXCEPT ![c] = i] /\ pc' = [pc EXCEPT ![c] = "link"]
     \/ pc' = [pc EXCEPT ![c] = "done"] /\ UNCHANGED holds
  /\ UNCHANGED <<planVars, key, by, rows, issues, grants, deaths>>

\* What the link does to the task and its plan.
StartLinked(t) ==
  IF plan = "completed" THEN UNCHANGED <<task, plan>>
  ELSE /\ task' = [task EXCEPT ![t] = IF @ = "todo" THEN "in_progress" ELSE @]
       /\ plan' = Resumed

\* CompleteMulticaDispatch
LinkIssue(c) ==
  LET t == Target[c] IN
  /\ pc[c] = "link"
  /\ pc' = [pc EXCEPT ![c] = "done"] /\ holds' = [holds EXCEPT ![c] = None]
  /\ IF t \in Present /\ link[t] = "creating"
     THEN /\ link' = [link EXCEPT ![t] = "dispatched"]
          /\ issueOf' = [issueOf EXCEPT ![t] = holds[c]]
          /\ recent' = recent \ {t}
          /\ StartLinked(t)
     ELSE UNCHANGED <<link, issueOf, recent, task, plan>>
  /\ UNCHANGED <<deps, evidence, ref, removed, replans,
                 key, by, route, issues, grants, deaths>>

\* The call dies with its process.
Die(c) ==
  /\ pc[c] \notin {"idle", "done", "dead"}
  /\ deaths < MaxDeaths /\ deaths' = deaths + 1
  /\ pc' = [pc EXCEPT ![c] = "dead"] /\ holds' = [holds EXCEPT ![c] = None]
  /\ UNCHANGED <<planVars, key, by, rows, issues, grants>>

\* multicaDispatchLease is over.
LeaseEnds(t) ==
  /\ t \in recent /\ recent' = recent \ {t}
  /\ UNCHANGED <<planVars, calls, link, route, issueOf, issues, grants, deaths>>

\* The rows of a removed task go with it (ON DELETE CASCADE).
PlanStep ==
  LET gone == {t \in Tasks : task'[t] = "none"} IN
  /\ PlanNext
  /\ link' = [t \in Tasks |-> IF t \in gone THEN "none" ELSE link[t]]
  /\ route' = [t \in Tasks |-> IF t \in gone THEN None ELSE route[t]]
  /\ issueOf' = [t \in Tasks |-> IF t \in gone THEN None ELSE issueOf[t]]
  /\ recent' = recent \ gone
  /\ UNCHANGED <<calls, issues, grants, deaths>>

CallStep(c) ==
  \/ Confirm(c) \/ (\E g \in Grants, k \in Keys : Authorize(c, g, k)) \/ Replay(c)
  \/ ClaimNew(c) \/ ClaimStale(c) \/ EndClaim(c)
  \/ CreateIssue(c) \/ FindIssue(c) \/ LinkIssue(c) \/ Die(c)

Next ==
  \/ PlanStep
  \/ \E c \in Calls : CallStep(c)
  \/ \E t \in Tasks : LeaseEnds(t)
  \/ \E g \in Grants : CreateRunGrant(g) \/ GrantEnds(g)

Spec == Init /\ [][Next]_vars

-----------------------------------------------------------------------------
\* Properties

IssuesOf(t) == {i \in issues : Target[i] = t}

\* A delivered plan has no open task, whatever calls link their Issues, answer
\* or retry after the delivery (Deliver, CompleteMulticaDispatch).
DeliveredIsDone == plan = "completed" => Present \subseteq Completed

\* A plan that is open is never stuck: a task can go on, or all are completed,
\* whatever replans add, remove and make depend on each other
\* (validateTaskGraph, applyOperations).
NeverStuck ==
  plan \in {"none", "completed"} \/ Present \subseteq Completed
    \/ \E t \in Present \ Completed : task[t] = "in_progress" \/ Unlocked(t)

\* A completed task keeps its status, its dependencies and its evidence: no
\* replan, retry or late link of an Issue opens it again (applyOperations).
CompletedIsFinal ==
  [][\A t \in Completed :
       task'[t] = "completed" /\ deps'[t] = deps[t] /\ evidence[t] \subseteq evidence'[t]]_vars

\* Without a replan no task begins, by hand or by the link of its Issue, before
\* its dependencies are completed (dependenciesComplete).
StartsAfterDependencies ==
  [][replans = 0 => \A t \in Tasks :
       task[t] = "todo" /\ task'[t] = "in_progress" => Unlocked(t)]_vars

\* A task that stays in its plan has one Issue at most, and never loses it: its
\* row is there to find the Issue again, or links it (ClaimMulticaDispatch).
OneIssue ==
  \A t \in Tasks \ removed :
    /\ Cardinality(IssuesOf(t)) <= 1
    /\ \A i \in IssuesOf(t) :
         link[t] = "creating" \/ (link[t] = "dispatched" /\ issueOf[t] = i)

\* An Issue the user did not confirm rests on an attempt of its grant: retries,
\* deaths and newer grants do not stretch the attempts (AuthorizeRunGrantUse).
DispatchAuthorized ==
  \A g \in Grants :
    Cardinality({i \in issues : by[i] = g /\ Target[i] \notin removed}) <= attempts[g]

\* Exactly one Issue for a task: violated with two replans, of which the first
\* removes a task while it is dispatched and the next adds the id again.
OneIssuePerTask == \A t \in Tasks : Cardinality(IssuesOf(t)) <= 1
==============================================================================
