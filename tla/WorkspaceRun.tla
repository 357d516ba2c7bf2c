------------------------------ MODULE WorkspaceRun ------------------------------
(***************************************************************************)
(* The Git identity of a run: internal/workspace/identity.go and           *)
(* identity_store.go freeze it when a session is opened for the run,       *)
(* internal/server/execute_workspace_identity.go holds every command of    *)
(* the run to it, and workspace_transition.go advances it, from a commit   *)
(* to a commit named beforehand, by a conditional update of the branch.    *)
(*                                                                         *)
(* An identity is abstracted to the commit the branch is at: the paths,    *)
(* the remote and the branch are fixed, and each commit has one tree.      *)
(***************************************************************************)
EXTENDS Integers

CONSTANTS
  Commits, Parent,   \* the commit objects, and [Commits -> Commits \cup {NoCommit}]
  NoCommit,
  Depth,             \* [Commits -> Nat]: commits before it; no commit is its own ancestor
  RunOpens,          \* sessions opened for the run
  RunCommands,       \* commands of the run
  Expected,          \* [RunCommands -> Commits]: expected_workspace
  Candidate,         \* [RunCommands -> Commits]: the commit the command moves the branch to
  TransitionOf,      \* [RunCommands -> operation_id], NoTransition for an ordinary command
  NoTransition,
  MaxForeignMoves,   \* bound: moves of the branch by others
  MaxRunFaults,      \* bound: failing statements and starts
  MaxRunCrashes      \* bound: crashes

RunCalls == RunOpens \cup RunCommands
Transitions == {TransitionOf[c] : c \in RunCommands} \ {NoTransition}

ASSUME RunConstants ==
  /\ Parent \in [Commits -> Commits \cup {NoCommit}] /\ NoCommit \notin Commits
  /\ Depth \in [Commits -> Nat] /\ \A k \in Commits : Parent[k] # NoCommit => Depth[Parent[k]] < Depth[k]
  /\ RunOpens \cap RunCommands = {}
  /\ Expected \in [RunCommands -> Commits] /\ Candidate \in [RunCommands -> Commits]
  /\ DOMAIN TransitionOf = RunCommands
  /\ {MaxForeignMoves, MaxRunFaults, MaxRunCrashes} \subseteq Nat

VARIABLES
  branch,       \* the commit the branch is at
  frozen,       \* workspace_run_identities: the commit, NoCommit before the first open
  frozenVersion,
  transition,   \* workspace_identity_transitions: phase, before, after, task
  receipt,      \* terminal_tasks: status of the task of a command
  process,      \* the process of a command: whether it has moved the branch
  runAt,        \* what a call is about to do
  runSeen,      \* the commit an open has captured
  runRow,       \* the pending row a call has read
  runAnswer,    \* how a call has ended
  foreignMoves, runFaults, runCrashes

runStore == <<frozen, frozenVersion, transition>>
runWorld == <<branch, receipt, process>>
runCall == <<runAt, runSeen, runRow, runAnswer>>
runBounds == <<foreignMoves, runFaults, runCrashes>>
runVars == <<runStore, runWorld, runCall, runBounds>>

Pending == {t \in Transitions : transition[t].phase = "pending"}
NoTransitionRow == [phase |-> "none", before |-> NoCommit, after |-> NoCommit, task |-> NoTransition]

RunTypeOK ==
  /\ branch \in Commits /\ frozen \in Commits \cup {NoCommit} /\ frozenVersion \in Nat
  /\ transition \in [Transitions -> [phase : {"none", "pending", "confirmed"}, before : Commits \cup {NoCommit},
                                     after : Commits \cup {NoCommit}, task : RunCommands \cup {NoTransition}]]
  /\ receipt \in [RunCommands -> {"none", "running", "succeeded", "failed", "interrupted"}]
  /\ process \in [RunCommands -> {"none", "started", "moved", "refused", "ended"}]
  /\ runAt \in [RunCalls -> {"idle", "advance", "capture", "freeze", "verify", "probe", "prepare", "start",
                             "attach", "wait", "reconcile", "conclude", "done"}]
  /\ runSeen \in [RunOpens -> Commits \cup {NoCommit}] /\ runRow \in [RunCalls -> Transitions \cup {NoTransition}]
  /\ runAnswer \in [RunCalls -> {"none", "opened", "mismatch", "unverified", "unstarted", "pending", "confirmed",
                                 "ended", "lost"}]
  /\ foreignMoves \in 0..MaxForeignMoves /\ runFaults \in 0..MaxRunFaults /\ runCrashes \in 0..MaxRunCrashes

RunInit ==
  /\ branch \in {k \in Commits : Parent[k] = NoCommit}
  /\ frozen = NoCommit /\ frozenVersion = 0
  /\ transition = [t \in Transitions |-> NoTransitionRow]
  /\ receipt = [c \in RunCommands |-> "none"] /\ process = [c \in RunCommands |-> "none"]
  /\ runAt = [c \in RunCalls |-> "idle"] /\ runSeen = [c \in RunOpens |-> NoCommit]
  /\ runRow = [c \in RunCalls |-> NoTransition]
  /\ runAnswer = [c \in RunCalls |-> "none"]
  /\ foreignMoves = 0 /\ runFaults = 0 /\ runCrashes = 0

-----------------------------------------------------------------------------
\* Helpers

RunFault == runFaults < MaxRunFaults /\ runFaults' = runFaults + 1 /\ UNCHANGED <<foreignMoves, runCrashes>>

\* A row that was read is of use in the next step only.
RunGo(c, step) ==
  runAt' = [runAt EXCEPT ![c] = step] /\ runRow' = [runRow EXCEPT ![c] = NoTransition] /\ UNCHANGED <<runSeen, runAnswer>>
RunReply(c, answer) ==
  /\ runAt' = [runAt EXCEPT ![c] = "done"] /\ runAnswer' = [runAnswer EXCEPT ![c] = answer]
  /\ runRow' = [runRow EXCEPT ![c] = NoTransition] /\ UNCHANGED runSeen

IsTransition(c) == TransitionOf[c] # NoTransition

-----------------------------------------------------------------------------
\* reconcileWorkspaceTransition: before an open and before a command, and after
\* a command of a transition that has completed with exit code 0.

\* no proof but the branch
ReceiptedByBranch(t) == branch = transition[t].after

\* The task of the row has exited with 0, its command is the one of the row, and
\* the branch is at the planned commit.
Receipted(t) ==
  /\ transition[t].task # NoTransition
  /\ receipt[transition[t].task] = "succeeded"
  /\ Candidate[transition[t].task] = transition[t].after
  /\ branch = transition[t].after

\* Nothing is pending, or not any more.
Reconciled(c) ==
  IF runAt[c] \in {"reconcile", "conclude"} THEN RunReply(c, "confirmed")
  ELSE RunGo(c, IF c \in RunOpens THEN "capture" ELSE "verify")

ReconcileTransition(c) ==
  /\ runAt[c] \in {"idle", "reconcile"}
  /\ \/ Pending = {} /\ Reconciled(c) /\ UNCHANGED runBounds
     \/ /\ \E t \in Pending :
             IF Receipted(t)
             THEN /\ runAt' = [runAt EXCEPT ![c] = IF @ = "idle" THEN "advance" ELSE "conclude"]
                  /\ runRow' = [runRow EXCEPT ![c] = t] /\ UNCHANGED <<runSeen, runAnswer>>
             ELSE RunReply(c, "unverified")
        /\ UNCHANGED runBounds
     \/ RunFault /\ RunReply(c, "unverified")
  /\ UNCHANGED <<runStore, runWorld>>

\* The identity and the row that was read change together, from what the row has
\* as before; whoever comes second finds both changed, unless the identity has gone
\* further already.
Advance(c) ==
  LET row == transition[runRow[c]] IN
  /\ runAt[c] \in {"advance", "conclude"}
  /\ \/ /\ frozen = row.before
        /\ frozen' = row.after /\ frozenVersion' = frozenVersion + 1
        /\ transition' = [transition EXCEPT ![runRow[c]].phase = "confirmed"]
        /\ Reconciled(c) /\ UNCHANGED runBounds
     \/ /\ frozen # row.before
        /\ IF frozen = row.after /\ row.phase = "confirmed" THEN Reconciled(c) ELSE RunReply(c, "unverified")
        /\ UNCHANGED <<runStore, runBounds>>
     \/ RunFault /\ RunReply(c, "unverified") /\ UNCHANGED runStore
  /\ UNCHANGED runWorld

-----------------------------------------------------------------------------
\* toolSessionOpen for a run

\* CaptureGitIdentity: the branch is read twice, a move in between is an error.
Capture(c) ==
  /\ runAt[c] = "capture"
  /\ runSeen' = [runSeen EXCEPT ![c] = branch]
  /\ runAt' = [runAt EXCEPT ![c] = "freeze"] /\ UNCHANGED <<runRow, runAnswer, runStore, runWorld, runBounds>>

\* FreezeGitIdentity: the first identity stays, another one is refused.
FreezeIdentity(c) ==
  /\ runAt[c] = "freeze"
  /\ IF frozen = NoCommit
     THEN frozen' = runSeen[c] /\ frozenVersion' = 1 /\ RunReply(c, "opened")
     ELSE UNCHANGED <<frozen, frozenVersion>> /\ RunReply(c, IF frozen = runSeen[c] THEN "opened" ELSE "mismatch")
  /\ UNCHANGED <<transition, runWorld, runBounds>>

-----------------------------------------------------------------------------
\* executeCommandTask.  The same checks run once before, ahead of the policy and
\* the approval; what they find there is looked at again here.

\* VerifyFrozenGitIdentity
VerifyFrozen(c) ==
  /\ runAt[c] = "verify"
  /\ IF frozen = Expected[c] THEN RunGo(c, "probe") ELSE RunReply(c, "mismatch")
  /\ UNCHANGED <<runStore, runWorld, runBounds>>

\* VerifyGitIdentity, then validateWorkspaceTransition: the candidate is a child
\* of the frozen commit, the command is the conditional update to it.
VerifyBranch(c) ==
  /\ runAt[c] = "probe"
  /\ IF branch = Expected[c] /\ (IsTransition(c) => Parent[Candidate[c]] = Expected[c])
     THEN RunGo(c, IF IsTransition(c) THEN "prepare" ELSE "start")
     ELSE RunReply(c, "mismatch")
  /\ UNCHANGED <<runStore, runWorld, runBounds>>

\* prepareWorkspaceTransition: one row per operation, one pending row per run,
\* and only while the identity is still the expected one.
PrepareTransition(c) ==
  LET t == TransitionOf[c] IN
  /\ runAt[c] = "prepare"
  /\ \/ /\ transition[t].phase = "none" /\ Pending = {} /\ frozen = Expected[c]
        /\ transition' = [transition EXCEPT ![t] = [phase |-> "pending", before |-> Expected[c], after |-> Candidate[c], task |-> NoTransition]]
        /\ RunGo(c, "start") /\ UNCHANGED runBounds
     \/ /\ transition[t].phase # "none" \/ Pending # {} \/ frozen # Expected[c]
        /\ RunReply(c, "unverified") /\ UNCHANGED <<transition, runBounds>>
     \/ RunFault /\ RunReply(c, "unverified") /\ UNCHANGED transition
  /\ UNCHANGED <<frozen, frozenVersion, runWorld>>

\* The task is persisted and its process starts, or neither.
StartTask(c) ==
  /\ runAt[c] = "start"
  /\ \/ /\ receipt' = [receipt EXCEPT ![c] = "running"] /\ process' = [process EXCEPT ![c] = "started"]
        /\ RunGo(c, IF IsTransition(c) THEN "attach" ELSE "wait") /\ UNCHANGED runBounds
     \/ RunFault /\ RunReply(c, "unstarted") /\ UNCHANGED <<receipt, process>>
  /\ UNCHANGED <<runStore, branch>>

\* The row gets the task that is its receipt.
AttachTask(c) ==
  /\ runAt[c] = "attach"
  /\ \/ /\ transition' = [transition EXCEPT ![TransitionOf[c]].task = IF @ = NoTransition THEN c ELSE @]
        /\ RunGo(c, "wait") /\ UNCHANGED runBounds
     \/ RunFault /\ RunReply(c, "unverified") /\ UNCHANGED transition
  /\ UNCHANGED <<frozen, frozenVersion, runWorld>>

\* The task has completed within the call or the call answers without it.
WaitTask(c) ==
  /\ runAt[c] = "wait"
  /\ \/ receipt[c] = "succeeded" /\ IsTransition(c) /\ RunGo(c, "reconcile")
     \/ receipt[c] # "running" /\ ~(receipt[c] = "succeeded" /\ IsTransition(c)) /\ RunReply(c, "ended")
     \/ receipt[c] = "running" /\ RunReply(c, "pending")
  /\ UNCHANGED <<runStore, runWorld, runBounds>>

-----------------------------------------------------------------------------
\* The processes, others, restarts

\* git update-ref with the old value, or a commit: from the parent to the candidate.
ProcessMoves(c) ==
  /\ process[c] = "started"
  /\ IF branch = Parent[Candidate[c]]
     THEN branch' = Candidate[c] /\ process' = [process EXCEPT ![c] = "moved"]
     ELSE UNCHANGED branch /\ process' = [process EXCEPT ![c] = "refused"]
  /\ UNCHANGED <<runStore, receipt, runCall, runBounds>>

\* The waiter of the task writes its row, unless the server that started it is gone.
ProcessEnds(c) ==
  /\ process[c] \in {"moved", "refused"}
  /\ process' = [process EXCEPT ![c] = "ended"]
  /\ receipt' = [receipt EXCEPT ![c] = IF @ = "running" THEN IF process[c] = "moved" THEN "succeeded" ELSE "failed" ELSE @]
  /\ UNCHANGED <<runStore, branch, runCall, runBounds>>

ForeignMove ==
  /\ foreignMoves < MaxForeignMoves /\ foreignMoves' = foreignMoves + 1
  /\ branch' \in Commits \ {branch}
  /\ UNCHANGED <<runStore, receipt, process, runCall, runFaults, runCrashes>>

\* A process may outlive the server; the rows of running tasks become interrupted.
RunCrash ==
  /\ runCrashes < MaxRunCrashes /\ runCrashes' = runCrashes + 1
  /\ receipt' = [c \in RunCommands |-> IF receipt[c] = "running" THEN "interrupted" ELSE receipt[c]]
  /\ \E survivors \in SUBSET RunCommands :
       process' = [c \in RunCommands |-> IF process[c] \in {"none", "ended"} \/ c \in survivors THEN process[c] ELSE "ended"]
  /\ runAt' = [c \in RunCalls |-> IF runAt[c] = "idle" THEN "idle" ELSE "done"]
  /\ runAnswer' = [c \in RunCalls |-> IF runAt[c] \in {"idle", "done"} THEN runAnswer[c] ELSE "lost"]
  /\ runRow' = [c \in RunCalls |-> NoTransition]
  /\ UNCHANGED <<runStore, branch, runSeen, foreignMoves, runFaults>>

RunCommand(c) ==
  \/ VerifyFrozen(c) \/ VerifyBranch(c) \/ PrepareTransition(c) \/ StartTask(c) \/ AttachTask(c) \/ WaitTask(c)
  \/ ProcessMoves(c) \/ ProcessEnds(c)

RunNext ==
  \/ \E c \in RunCalls : ReconcileTransition(c) \/ Advance(c)
  \/ \E c \in RunOpens : Capture(c) \/ FreezeIdentity(c)
  \/ \E c \in RunCommands : RunCommand(c)
  \/ ForeignMove
  \/ RunCrash

RunSpec == RunInit /\ [][RunNext]_runVars

-----------------------------------------------------------------------------
\* Properties

\* A transition is confirmed only by the process of its own operation, which has
\* moved the branch and exited with 0: a commit that got there some other way, or
\* whose receipt was lost, is never taken over.
ConfirmedByReceipt ==
  \A t \in Transitions : transition[t].phase = "confirmed" =>
    LET c == transition[t].task IN
    c \in RunCommands /\ receipt[c] = "succeeded" /\ TransitionOf[c] = t /\ Candidate[c] = transition[t].after

\* No operation is executed twice, whatever is retried ("do not replay").
TransitionExecutedOnce ==
  \A c, d \in RunCommands : c # d /\ IsTransition(c) /\ TransitionOf[c] = TransitionOf[d]
    => process[c] = "none" \/ process[d] = "none"

\* Whoever is told that a transition is confirmed is told the truth.
ConfirmedIsTrue == \A c \in RunCommands : runAnswer[c] = "confirmed" => transition[TransitionOf[c]].phase = "confirmed"

RunIdentityHolds == ConfirmedByReceipt /\ TransitionExecutedOnce /\ ConfirmedIsTrue

\* Once frozen, the identity of a run only ever goes from a commit to a child of
\* it that was named beforehand: observing another commit never replaces it.
IdentityAdvances ==
  frozen # NoCommit /\ frozen' # frozen =>
    \E t \in Pending : /\ transition[t].before = frozen /\ transition[t].after = frozen'
                       /\ Parent[frozen'] = frozen /\ transition'[t].phase = "confirmed"

\* The identity of a run is what its own confirmed operations made it.
RunIdentityKept == [][RunIdentityHolds' /\ IdentityAdvances]_runVars
=============================================================================
