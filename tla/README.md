# mcpx: verification project

TLA+ models of the stateful core of mcpx, the TLC runs that check them on small
instances, and TLAPS proofs of the most important results for every instance.

mcpx is a Go server that gives an AI client (over MCP) tools on a developer's
machine: run commands, edit files, dispatch work. Its client retries, times out
and runs several calls at once; the server restarts; several processes may share
one home directory and one SQLite database. What makes it correct is therefore
mostly a matter of protocols between a call, its retries, a few maps under mutexes
and a few tables: *do not run it twice, do not answer with somebody else's result,
do not lose what was started, do not run what was not confirmed*. These protocols
are what is modelled here.

## 1. The system

All services live in one process around one SQLite connection (`internal/state`; a
statement or a transaction is atomic and durable). Handlers in `internal/server` run
one goroutine per call. Around the server stand the command line (`cmd/mcpx-server`)
and a desktop application, which start and stop it and edit its configuration.

| Component | State | Operations | What is hard |
|---|---|---|---|
| Operation service `internal/operation` | tables `operations`, `operation_steps`, `operation_ledger`; handles, ready queue, job channel, workspace locks | Submit, Wait, Resume, Cancel, Close, recovery, expiry; dispatcher and workers | unlocked reads used later, commit before registration, cancellation against running steps, restart, wake-ups |
| Idempotency store `internal/idempotency`, `server/clean_idempotency.go` | `clean_idempotency_records` with `updated_at` as the owner's stamp; `inFlight`, `abandonedInDoubt` | Claim, Wait, Complete, MarkInDoubt, Abandon; retention | two claimants, takeover after the lease, owners that die, waiters that read late |
| Approvals `internal/approval`, `tools_command_execute.go` | table `approvals`, map `byID`, TTL | PutPending, look-up, Consume | check and consume are two steps; cache against database; two processes |
| Confirmed execution `tools_execute.go` | none of its own | `execute` with a key and a confirmation | readiness is judged before the key is claimed and the approval looked up again |
| Plans `internal/plan` | tables of plans, tasks, dependencies, evidence | create, start, block, complete, replan, deliver | replans under work in progress; delivery against the evidence there is *now* |
| Dispatch and run grants `multica_dispatch.go`, `run_grant.go` | tables of dispatches and grants | authorize, claim, search or create an Issue, link; create and end a grant | an external command between claim and link; grants that end meanwhile |
| File edits `tools_edit.go`, `internal/edit` | files, the row of the key | apply a batch, reconcile after a crash | writes that are partly done, other writers |
| Move-out `internal/deletion` | requests, files, trash | prepare, submit | crash between claim and completion; what was shown against what is there |
| Remote sessions `internal/remotesession` | sessions, creations, events, bindings | open under a key, update by version, close | retries that race, late readers of a version |
| Workspace identity `internal/workspace`, `workspace_transition.go` | frozen identity, pending transition, receipts | freeze, verify, prepare, attach, reconcile, advance | a crash between start and attachment; two reconcilers |
| Terminal tasks `internal/terminal` | rows, bounded table, process groups, logs, waiter and copying goroutines | start, kill, limits, prune, restart; answers and attaching clients | races for the end of a task; output after the end |
| Observation `internal/observation` | event table, queue, broker buffer, socket clients | enqueue, append, publish, connect, history, gap | loss and order between two channels and a database |
| Retention `internal/state/retention.go` | rows of six tables, logs | a pass in batches | rows chosen in one transaction and deleted in another |
| OAuth `internal/oauth` | key, clients, codes, refresh tokens and their files | register, authorize, exchange, refresh, save, load | one file shared by processes, failing saves, restarts |
| Background server `cmd/mcpx-server` | record file, processes | `mcpx -d`, `mcpx stop`, foreground start | reused process numbers, commands side by side |
| Desktop `internal/desktop` | tunnel configuration and record, processes | start, stop, restart, watchdog | the watchdog beside the user |
| Configuration `internal/config` | `config.yaml`, its backup | load-change-write by four programs | lost updates, torn writes |
| Self-update, browser tools, transcript of `mcpx observe`, start of servers, reading in windows, texts in pieces, call boundary, operation tools, skills and upstream tools, tracker tools | see section 2 | | |

How they interact: an `execute` call asks the policy, looks for an approval, claims
its idempotency key, looks for the approval again and consumes it, starts a terminal
task, and completes the key with the result. An operation's step runs the same
handlers as a direct call. A plan task is dispatched by claiming a row, authorizing
against a run grant, calling an external tracker and linking the result. A session
freezes the identity its commands are held to. Every handler hands events to the
observation queue. Retention deletes rows of all of them at any time. A restart loses
every map and channel, and each service has its own recovery of its rows.

`PROJECT.json` lists every component ("components") with what is modelled of it or why
nothing is, and the 40 places where most can go wrong ("hazards").

## 2. Modules

    component                    proofs                  instances for TLC
    Operation                    OperationProofs         MCOperation
    Idempotency, KeyPromise,     IdempotencyProofs       MCIdempotency, MCProcesses, MCServing,
      OnceKey                                            MCTools
    Approval, ConfirmedExecute   ApprovalProofs          MCConfirmedExecute, MCRequests
    EditApply, MoveOut, Home     FilesProofs             MCRequests
    Plan, PlanDispatch           PlanProofs              MCPlanDispatch
    OAuth, Daemon, Desktop       ProcessProofs           MCProcesses
    RemoteSession, Observation   SessionProofs           MCRuntime, MCServing
    Retention, WorkspaceRun,     RuntimeProofs           MCRuntime, MCServing
      Terminal
    Lifecycle, Update            ProcessProofs           MCTools
    Browser, Tracker             PlanProofs              MCTools
    Extensions                   ApprovalProofs          MCTools
    OperationTools               OperationProofs         MCTools
    Calls                        SessionProofs           MCTools
    Transcript, Reading, Chunks                          MCTools

FilesProofs, ProcessProofs and RuntimeProofs EXTEND MCRequests, MCProcesses and MCRuntime as
well: their last parts are about what these compose.

ConfirmedExecute EXTENDS Approval and instantiates Idempotency with the variables of its
key; PlanDispatch EXTENDS Plan. The other components share no variable in the models,
because what they share in the code is a row or a call that one of the two models has.

In all modules a process that crashes loses its maps and its calls and keeps its rows;
a call that dies with its process is recorded as lost, and its client may retry with
another call. Database statements may fail where the code has an error path. Counters
that exist only to bound a run (crashes, faults, lapses, deaths, replans) are named with
their bound in CONSTANTS. Definitions under a comment "Bug" or "Mutant" are altered
forms of the definition after them, which show that a property fails when the code it
is about is changed. A definition under "Violated" is something one would like to hold
and that does not; section 4 has them.

**Operation.** Actions follow the critical sections of `service.go`: Submit is two (the
transaction, then the registration of the handle), enqueueReady reads rows and schedules
in a later step, a worker goes through job -> lock -> exec -> finish, `reconcile` skips
blocked steps, aggregates and settles, Cancel and Resume update rows and leave the rest to
a deferred reconcile, Close and Crash interrupt. The tool is external: it returns any
outcome at any time, waiting for a confirmation included. `runs` and `announced` are
history variables. Left out: paging, progress text, `emit` and `Get` outside locks (read
only); the condition of expiry is nondeterministic; in `GiveUp` the partial database
failures of a worker are one action.

**Idempotency.** One key (keys do not interact), many calls, one or more processes:
look-up, read, insert or compare-and-swap take-over, wait on the flight, read after it,
preflight, handler, Complete / MarkInDoubt / Abandon with their deferred release,
retention, crash, and a panic of the handler: `callToolSafely` answers the call, while the
row stays pending and the flight registered. ConfirmedExecute, EditApply, Extensions and
PlanDispatch, which have tools under a key, have no panics of these tools. Lease and expiry are nondeterministic, with `SlowClaims` saying whether
a claim may be so slow that its own lease elapses; `updated_at` values are unique stamps.

**OnceKey, KeyPromise.** What a key is to its callers, without processes, flights, stamps or
tombstones: free, reserved, run once while it is reserved, freed only if it was not run, then
one final outcome (in doubt, or the response of a call) that everybody is told. A lease that
elapses and a row that expires are breaks of the promise, and each costs one run at most.
KeyPromise is the refinement mapping: the outcome is the state of the row, the runs are the
handler calls, what was told is what the calls answered.

**Approval, ConfirmedExecute.** An approval is named by the call that asked for it. Two
processes do not share the mutex: look-up and `INSERT OR REPLACE` of PutPending are two
actions, with the unique index of the table. The legacy token path, which no tool
reaches, is left out. ConfirmedExecute composes it with the key: readiness, claim,
command, completion; each step of a call is the conjunction of what the code does to both.

**Plan, PlanDispatch.** The tasks of one plan with status, dependencies and evidence;
replan as the net effect of its operations, guarded by `validateTaskGraph` on the result.
A dispatch is authorized (by the user or by a run grant with attempts left), claims the
row of its task and creates the Issue, or takes over a claim whose lease has lapsed and
then only looks for the Issue by its marker, and links it. Tokens and clocks of a grant
are "the grant may end at any time"; the tracker's search may miss an Issue.

**EditApply, MoveOut, Home.** A batch of edits under a key, with other writers, from the
claim to the reconciliation of a retry; a move-out from the frozen manifest to the trash,
target after target, and each target in the ways of its platform (MoveWays: two commands and a
rename on Linux), with a look at the path after each command and other writers between any two
of these steps; a command may be cut off after its two seconds and go on by itself; everybody who loads, changes and rewrites `config.yaml`.

**RemoteSession, WorkspaceRun.** Opening under a key with environment snapshot and Git
baseline, versioned close, bindings of connections; the identity a run is frozen to, its
pending transition, the task that moves the branch, the receipt and the conditional
advance. An identity is the commit of the branch. `runRow` is the row a reconciler has
read: it is written with what it read, not with what is there (see section 4).

**Terminal.** A process group is a leader and at most one child, which may have the pipes of
the output open (`holders`); so may a descendant that has left the group, which no kill of the
group reaches. `cmd.Wait` waits for the leader and for the end of both pipes, `group.wait` for
the rest of the group. Output is counted in chunks; one copying goroutine per stream writes a chunk to the
logs under `Task.mu` and hands it to the observer outside. The waiter, client stops, both
limits, the operation step that waits, the client that attaches until it is told that
there is no more, restarts and other processes' starts are actions of their own.

**Observation, Retention.** The recorder's queue, the one writer that appends and
publishes, the broker's bounded buffer, an observer that connects, reads a bounded history
and reconnects, and a reader of history pages; the pass of retention in its transactions
against evidence of plans, running tasks and open sessions.

**OAuth, Daemon, Desktop.** Processes of one home: the three files of the authorization
server, loaded at a start and saved on every change; the commands that replace and stop the
background server by the number in its record, where numbers are used again; clicks and the
watchdog of the desktop application as lists of steps that run beside each other.

**Update, Browser, Lifecycle.** Update from the choice of a release to the renamed
program; a file is a build and the version its program prints, and `verifyExecutable` accepts
a text that begins with the version of the release (TextBegins), so that the program of
1.10.0-rc.2 passes for 1.10.0; the calls of the browser tool over one child process with its
mutex, its late answers and its prompts (unix and CLI forms; a command the child reports as detached is
assumed not to have been carried out); servers that migrate, sweep, and take the socket
(the unix one) and the port.

**Transcript, Reading, Chunks.** What `mcpx observe` prints of interleaved events; windows
of files with their cursors and budgets while files are replaced; texts given in pieces.
These are algorithms as much as protocols: their helpers are folds and functions over
short sequences of character classes (a letter, a wide one, a line end).

**Calls, OperationTools, Extensions, Tracker.** The edge of the server (activity, events,
asynchronous mode, panics, heartbeat); what `operation_batch` accepts and
`operation_manage` answers while operations move; leases of described skills and upstream
tools and the calls under them; forms of tracker commands tried in turn, gated
confirmations and the account of a comment.

## 3. Runs

Twelve runs, one for each question. Components that share no variable are checked in one
run: the MC module chooses the *subject* of a behaviour in its initial state, the steps are
those of the subject, and the variables of all others stay as they are. TLC then visits the
sum of the state spaces, not their product, and a property of one component is checked
against the behaviours about it.

| Run | Instance | Checks |
|---|---|---|
| op_safety | one operation of two dependent steps (or of a rejected cycle) with one confirmation, one crash or Close, one failing statement; or two operations of one step in one workspace, exclusive or shared; 2 workers, 2 clients | TerminalMeansQuiet, AtMostOncePerGrant, StepsRunInTurn, OutcomeIsTrue, NeverRevived |
| op_liveness | fan-in, fan-out, three independent steps, a cycle; 1 worker, 1 confirmation | Settles, CancelEnds |
| op_chain | a -> b -> c | **finding**: Settles is violated |
| plan_safety | 2 tasks, 2 calls, 2 keys, 2 grants of one attempt, 1 replan, 1 death | DeliveredIsDone, NeverStuck, OneIssue, DispatchAuthorized, CompletedIsFinal, StartsAfterDependencies |
| requests_safety | approvals: 5 calls without a key in 2 processes; keyed, troubled: a plain and confirmed calls with and without the key; edit: a batch of an update and a rename, 3 tries in 2 processes; move: a file and a directory, 2 prepares, 2 submits; home: 3 editors, 2 workspaces | RequestsTypeOK, ApprovalsHold, AnsweredByRecord, ShownCanBeConfirmed, EditsHold, MovesHold, ConfigurationKept |
| runtime_safety | session: 2 opens with one key, a close, a command; run: 2 opens, 2 commands of one transition, one ordinary; task: a limited task with 3 chunks; step: the task of an operation step and a full table; observation: 4 events; retention: rows of four tables | RuntimeTypeOK, RunIdentityKept, TasksEndOnce, OutputComplete, ObserverServed, SessionsKept, KeepsWhatIsAlive |
| serving_liveness | key: 3 calls with a preflight in 1 process, one with other parameters, 2 failing statements or panics, 1 lapse; task: one limited task; observation: 3 events; retention: 3 rows, one log that stays | EveryCallAnswered, StoppedTaskEnds, CatchesUp, AgedIsCollected |
| processes_safety | key: 3 equal calls in 2 servers; oauth: 2 servers, a preregistered and a dynamic client, 3 codes, 3 tokens; daemon: two `mcpx -d` and a foreground start, 4 process numbers, a stranger; desktop: 2 clicks, the watchdog, 2 tunnels | ProcessesTypeOK, EffectsBounded, OneOwnerOneAnswer, PromiseKept, CredentialsHold, DaemonHolds, TunnelHolds |
| tools_safety | ten subjects, one for each module of MCTools; and key: 3 calls without a preflight in 1 process, one with other parameters, 2 lapses, 2 faults | ToolsHold, the promises of the subject's module; KeyedAnswersHold |
| idem_wrongreplay | 3 calls with preflight in 1 process, one with other parameters, no trouble | **finding**: ReplayMatchesRequest is violated |
| confirmed_replay | a plain and two confirmed calls with the key, one confirmed without | **finding**: ConfirmationNotReplayed is violated |
| retention_evidence | the instance of runtime_safety | **finding**: EvidenceKept is violated |

RequestsTypeOK, RuntimeTypeOK and ProcessesTypeOK are the type invariant of the subject's
module. TypeOK of Operation and of PlanDispatch are proved and are part of the invariants
of section 5.

### Bounds, and why they are enough

* Two steps with a dependency are the smallest DAG in which a step waits, is skipped, and
  is enqueued by another's end; two workers and two clients give every pair of concurrent
  sections; op_liveness has three steps because a fan needs them and one worker because the
  bounded job channel is then full. The chain of three is left out of op_liveness because it
  does not settle (finding). OneOfTwo: what an exclusive step needs is another step in its
  workspace, not a crash.
* Three calls of one key are an owner, one who takes over and a waiter; the second process
  is needed because its maps know nothing of the first. One that has a preflight (serving_liveness)
  has every path on which an owner ends; KeyedAnswersHold is false of it (finding 2) and is checked
  without one (tools_safety). Five calls of a command are a
  question, its repetition in another process, two confirmed ones that race, and one of
  another command.
* plan_safety has two calls for one task because calls for two tasks share nothing but the
  grant, whose attempts two calls for one task contend for as well.
* MoveWays is the list of Linux: two commands, so that one is tried after another, and a rename;
  that of macOS (a command and a rename) and that of Windows (two commands) are parts of it.
* A batch of an update and a rename has one item with one name and one with two; an item
  that is written and one that is not yet are what a crash can leave.
* Two opens with one key race for the creation; a third would be one of the two.
* A chain of three commits is needed to advance twice; two commands of one transition are
  the owner of the pending row and one who finds it; the ordinary one is held to what the
  other two made of the identity.
* Chunks: LogCap, ReadLimit and InlineCap are one or two, so that three chunks pass each of
  them. TableLimit 1 lets one task find the table full. QueueCap, BufferCap and HistoryCap
  are below the number of events for the same reason. In retention a batch is larger than
  the number of logs that cannot be removed (StuckLogs), as it is in the code unless five
  hundred logs are stuck; with a smaller one AgedIsCollected fails.
* Two servers, three commands and two clicks are one that ends, one that begins beside it,
  and for the background server one more that stops both. Process numbers are two more
  than the processes a behaviour needs, so that numbers are used again but need not be.
* Files, texts and scripts of MCTools are chosen so that every window, budget and mark falls
  inside a line, between two lines, inside a character and at the end; the comments of
  MCTools say which case each is for.

Where a run restricts combinations (`FewTroubles`, `FewEditTroubles`, `FewMoveTroubles`, `OneEditor`,
`FewSessionTroubles`, `FewRunTroubles`, `FewTaskTroubles`, `RowsInOrder`, `TwoTroubles`,
`OneServerAtATime`, `OneCommandAtATime`, `OneDesktopTrouble`, `UpdatesInTurn`,
`OneBrowserTrouble`, `FewEvents`, `ClockMatters`, `OneThing`, `OneExtensionTrouble`), it is
for one of three reasons, which the comment on it gives: a third trouble in one behaviour
multiplies the states without a new actor; equal actors begin in one order; or the property
excepts the behaviour anyway (two commands at a time, a configuration changed by two at
once), and following it further checks nothing. The theorems of section 5 hold without
any of these restrictions.

Symmetry is used in runs without liveness properties only, on sets whose elements the
specification does not distinguish. Deadlock is checked in plan_safety, where a plan can
always be delivered again. It is off elsewhere: when every call has been answered and every
bound is used up nothing is left to do. NeverStuck, Settles, CancelEnds, EveryCallAnswered,
StoppedTaskEnds, CatchesUp and AgedIsCollected say what must not stop before.

### Fairness

Used by op_liveness, op_chain and serving_liveness only. The Go scheduler runs every
runnable goroutine, and a mutex or channel operation that stays possible happens; so weak
fairness is assumed of each goroutine's next step: the dispatcher, each worker, each
deferred goroutine and each registration a client began (Operation); the next step of each
call (Idempotency); the copying, waiting and limit goroutines of a task, and the death of
each process that was sent a kill (Terminal); the recorder's writer, the connection and
the client of the observer (Observation), where `SendEvent` and `SendGap` each have their
own because they are cases of one `select`; and the next step of a pass of retention, which
a ticker starts again and again. A step of a worker or a call includes the return of the
tool it runs: tools have time limits. In MCServing each condition is restricted to
behaviours about its subject (`WF_vars(subject = "key" /\ ...)`).

There is no fairness of crashes, faults, submissions, confirmations, stops by clients,
lapses of leases, or of the end of a process nobody killed or that has left its group.
op_liveness has no crash: after one, an operation waits for a restart that nobody promises.

## 4. What the runs and the proofs found

Findings, each with its run:

1. **A chain behind a failed step never settles** (`operation/service.go:749`; op_chain).
   With a -> b -> c and a failed, b is skipped, c stays queued and the operation running.
2. **A waiter may be given the response of other parameters** (`idempotency/store.go:253`;
   idem_wrongreplay). Wait does not compare fingerprints after the flight ends.
3. **A request for confirmation may become the result of the key**
   (`tools_execute.go:97`; confirmed_replay). Readiness is judged before the claim.
4. **Evidence of a plan that is not delivered yet is deleted** (`state/retention.go:269`;
   retention_evidence), though the file says it never is; delivery then fails for good.

Observed while modelling. Where a definition is named, it stands in the module as something
one would like to hold; TLC violates it, and no passing run checks it:

* Idempotency: on three paths nobody closes the channel others wait on, so that calls of the same
  key in the process wait until their clients give up: a handler that panics
  (`withCleanIdempotency` has no defer); a DELETE of Abandon that fails, whose error is dropped, or
  finds no row; and a flight that is replaced, when a claimant inserts its row between the DELETE
  of Abandon and its release, although the comment says "a retry is not blocked by a stale pending
  state" (`clean_idempotency.go:204`; RetryNotBlocked in MCServing). The release by key then
  releases the next owner's flight (`store.go:342`). EveryCallAnswered excepts the calls that wait
  for an owner of one of the three (`stranded`), and holds for all others.
* Operation: Close stores the cancelled result of a running step where a restart would store
  interrupted.
* PlanDispatch: a later replan may reuse the id of a task whose dispatch is under way
  (OneIssuePerTask); the late link of an Issue starts a task whose new dependencies are open;
  a task whose dispatch died and that is then started by hand is never linked.
* MoveOut: what comes back to a path between two attempts is moved as well, or, if the rename
  fails, the answer is "failed" with the original in the trash; a command that was cut off may
  move its target after the answer. TakenOnce, ReportIsTrue and MovesWhatWasShown except the
  targets to which this may happen (`moveDisturbed`). A crash after the claim and before Complete
  leaves the request in committing for ever, and retries are told that somebody works on it
  (InProgressIsWorkedOn).
* EditApply: a retry that takes over the record of a crashed attempt and cannot read one of its
  files applies the batch again; that fails on the files the first attempt changed, and the key
  is "failed" although files were changed (UnknownIsInDoubt; `edit_idempotency.go:214`).
* RemoteSession: a command looks at no status, so a closed session may have a running task
  (ClosedIsQuiet); a replay does not take the baseline that a dead creator owed (BaselineKnown).
* WorkspaceRun: see the proof below. A reconciler that read the pending row before another
  one finished it, and comes when the identity has gone on further, is told "cannot replace
  another frozen identity", though its transition was confirmed.
* Terminal: a descendant that has left the group and keeps a pipe open keeps the waiter, the call
  and the operation step of a stopped task for as long as it likes (`task.go:310`;
  StoppedTaskEnds excepts it). An answer may claim to have all of a stream while the log was capped
  (TruncationStated); a row of a process that is alive is "interrupted" by another process's
  start, and a running task may be gone from the table after a restart (RestoredIsTerminal).
* Observation: what the history window does not hold is lost (NothingLost).
* OAuth: two processes that share the files lose each other's tokens, and a save that failed
  after it replaced the file too (RestartKeepsCredentials).
* Daemon: a process that cannot be identified is killed after the grace, against a comment
  (UnidentifiedIsNotKilled).
* Desktop: a recovery of the watchdog under way brings back the wish a stop has withdrawn
  (WatchdogRespectsStop); a tunnel may be public before the server has its proxy settings
  (PublicServerIsConfigured).
* Home: changes beside each other lose one of them (NoUpdateLost); during a write and after a
  torn one a server starts with the defaults, without the token (StartsAsConfigured).
* Update: a program whose version begins with that of the release passes for it
  (InstallsItsVersion); two updates at once may go back (NeverDowngraded).
* Browser: a late navigation may claim what another call did (SuccessIsNeverBorrowed); a call
  whose context ended while it waited for the mutex still sends its command; a failing
  Consume is ignored.
* Transcript: output of another call appears under the open span (OutputIsOwn), and a result
  repeats output that was streamed before.
* Lifecycle: a second server marks the work of the first as interrupted before it finds the
  port taken (LiveWorkIsKept); two that find a stale socket file may take it from each other
  (SocketIsAlwaysKept); no signal handler runs Close.
* Reading: a window is of the file it opened, not of the one it looked at (WindowIsTheFile,
  RevisionNamesTheText).
* Chunks: ResultTextSurvives, PageOfItsDigest, FollowingEnds, PairsSurvive, for texts that are
  replaced meanwhile or pieces smaller than a character; with a limit of one byte the second
  byte of a UTF-16 mark is never given.
* Calls: ErrorIsFailure, TurnsNeverRestart, EndsWhatBegan, OperationAfterItsCall. OperationTools:
  ConcurrencyIsReal, BatchIsOneMoment.
* Extensions: the process of an upstream is started under the 30 s context of the connection
  and ends with it, though a call may take two minutes (CallsMayTakeTheirTime); leases are in
  memory, so that after a restart a call is not compared with what was described, and are
  never removed; a skill is read again at its execution without a comparison.
* Tracker: the last forms tried drop the reviewer (ReviewerIsAsked); number and repository of a
  comment may be of two sources (TargetIsOfOneSource); the plain multica tools ask for no
  confirmation, and the words "unknown command" in the output of a command that was carried out
  make the next form run as well.

What the proofs changed in the models. RunInv (below) could not be proved of the first version
of WorkspaceRun: its reconciler advanced *any* pending transition where the code advances the
row it has read, with the values it has read. The model now keeps that row in `runRow`
between the read and the update, and attaches a task only to a row that has none, as the
statement's `WHERE task_id = ''` does. PlanDispatch's Charged and Idempotency's budget were
found the same way: the property alone was not inductive, and what was missing is what the
code relies on.

EditsHold was false as it was first stated, in behaviours beyond the bounds of the run. It said
that no two calls with a key are told "applied" and "failed". But a "failed" that could not be
recorded lets a retry try, and succeed, as it should; what must not happen is that a call hears
"failed" after another one has heard "applied", which is now an action property (OneVerdict).
And of two attempts that are at work at once one is taken for dead whichever of the two claims
later: the history variable `editBlind` now notes that in every step that lets it happen. The
model's PersistPlan lacked the case in which the failure itself cannot be recorded.

## 5. Proofs

Checked by TLAPS for all values of the constants that satisfy the modules' ASSUMEs. These
only say that constants have their types (sets of calls, a home process for each, natural
bounds, finitely many steps, workers and calls, DAGs as sets of steps with a dependency
function), that the rows of different tables differ, and that the ancestry of commits is
acyclic (`Depth`). Nothing is assumed about how many calls, processes, tasks, chunks,
crashes or faults there are.

**OperationProofs.** `Invariant`: Spec => []IInv. That a terminal row is quiet is not
inductive: it depends on which goroutine may still write it. IInv adds, as named conjuncts,
that a step in flight is `running` in the table, is registered in a live handle and is owned
by exactly one worker; that an ID which was never submitted has left no trace in tables,
queues and goroutines; and that every run of a step is covered by its submission or by one
accepted confirmation. One lemma per conjunct, in it one step per action. TypeCorrect,
TerminalQuiet, AtMostOnce and Settled (the action property NeverRevived) follow.

On top of IInv, TInv: a step that has been scheduled is justified by succeeded dependencies, a
lock in the table of locks is held by the worker that says so, and what was announced of an
operation is what its row has. TurnsKept (a step starts with every dependency succeeded, an
exclusive one alone) and OutcomesTrue (one announcement, with the final state; success means
every step) follow.

The same operations seen from outside (OperationTools) move between two reads of one call.
AskInv says that a state that was read as over is still so, or its record is gone (ReadStays),
that the handle a call waits for is open or its operation is over (HandleFits: a call that
waits on a handle that was closed and replaced would wait for ever, or for another run), and
that an answer that sounds final was made of final states of all targets (AnswerFits).
AnswersAboutOperations follows. That a batch is refused for an item that does not do needs that
the first such item is one of them, which is a well-founded minimum (FirstWrongIsWrong).

**IdempotencyProofs.** `Invariant`: a budget. Each handler call that was made, plus each call
that is on its way to one, is paid by the row's insertion, an elapsed lease or a deletion;
the stamp a call has seen bounds which compare-and-swap can succeed (SeenInv). Bounded
(EffectsBounded) is its arithmetic. OneOwner, Agreement, OwnedOnce and Final (CompletedFinal,
which the run checks as part of PromiseKept) rest on a second invariant that holds while no
lease elapsed and no row expired: the one owner's stamp is the row's.

PromiseIsKept is the refinement, Spec => Promise!Spec: the initial states map to initial states,
and every step of the store is a step of OnceKey or none (StepKeepsPromise). While nothing was
broken, the sole owner makes every change of the row, the budget says that an owner that has not
run the handler is the first to (RunsOnce), and PromiseInv adds that what runs was counted, that a
completed row has a response, and that a call is told nothing before its answer. Afterwards the
budget is all that is left.

KeyedAnswers states KeyedAnswersHold under three conditions on the constants: the operation has
no preflight, no claim is as slow as a lease, and no row expires. The first two are what
OwnersApart needs, by which a process has at most one owner, its flight is that owner's, and a
call that looked for flights before there was one finds the row just written and claims
nothing; TombstonesHold needs no more than these. The third is what AnswersFit needs: the row
keeps its parameters, and whoever waits for it, owns it or has a flight asked for them. With a
preflight the property is false (finding 2), and a row that expires under a waiter may be
replaced by one of other parameters.

**ApprovalProofs.** Reserved is inductive: a call that may run the command holds an approval
that is consumed, unused, and held by nobody else. With Backed (it is of the same command and
from another call) and Unanswered it gives Once, Bound, OneLive and Held. ShownCorrect rests on
ShownInv: the cache of a process has what its calls have stored, and a call stores only what it
did not find there; one process is its condition. RetryIsAnswered is about ConfirmedExecute: a
late retry reads the record, and only a missing row or an elapsed lease would make a reader an
owner (CInv). HeldUnderKeys and ShownUnderKeys carry Held and ShownCorrect over to
ConfirmedExecute: each of its steps is one of Approval, or a look that replaces no approval
(Looks).

The last part is about Extensions, where what is shown first and carried out later is a
definition. ExtInv says how far a call is and what it can have done by then (StepFits), that an
upstream call is about the process whose list its preflight read (UpstreamFits), that a skill is
what the preflight found as long as nobody changes skills (SkillFits), and that the row of a key
is that of its owner from the claim to the answer (KeyFits). A step of a call leaves what is said
of others alone (StepsApart, OtherKeysFit). ExtensionsKeepTheirWord follows. It says of
withCleanIdempotency what its contract says, one owner for a key; that the contract is kept is
IdempotencyProofs.

**PlanProofs.** Four arguments about plans. Every call keeps the graph of the tasks free of cycles (Graph),
so that of the open tasks one waits for no other open one: NeverStuckCorrect. A call of the
plan is a creation, a replan, a delivery, or moves one task (Moves), and a replan leaves
completed tasks alone: CompletedCorrect, DeliveredCorrect, StartsCorrect. Who may create the
Issue of a task, or has, is one call (Sole), because it made the row that keeps others from
creating (Claimed): OneIssueCorrect. What a grant was charged for is no more than its attempts
and has a charge for every Issue (Charged, Paid): AuthorizedCorrect.

Two more parts are about tools that have their work done outside. The browser tool uses one
child process for all calls. BrowserInv says that the call that waits for an answer is the one
in service (InTurn), that every request has at most one answer, in the pipe or still to come
(AnsweredOnce), how often a command was carried out, given the step of its call and the answers
on their way (Counted), and that a tab still has the URL a call has seen there, unless it or
another call has navigated there since (Seen). CarriedOutOnce and SuccessIsOwn follow from
these, OnlyPermitted from what the child knows of permissions (Permits): BrowserKeepsItsWord.

The tracker tools run another program, and try the forms of a command one after the other.
TrackerInv says that what a call still tries is a form of its tool (FormsSuit), that whoever has
acted was allowed to (ActorsMay), that while a call tries, every form that was carried out was
misread (ActsCounted: once it answers there is at most one effect more), and that a comment is
made once, by the bot, where the call has resolved it (CommentersMay). TrackerKeepsItsWord follows.

**FilesProofs.** What becomes of a user's files, one argument for each component.

* EditApply. EditInv adds to EditsHold what the record says of the files (RecordFits: "applied"
  when all are written, "failed" only when none is, and a pending record of a batch that has
  written has its plan) and what a call has seen of both between two of its steps (CallFits). An
  owner that nobody has taken for dead is the only call at work. BatchesOfEditsHold follows.
* MoveOut. MoveInv: one submit wins and the row says so (OneMover); what it reports of a target
  is what became of it (ReportsFollow), because between its attempts a target that nobody
  disturbed is where it was found, as it was shown, or in the trash (PathFits), and nothing of
  the targets to come has been taken (NothingTaken); answers are what was reported
  (AnswersFollow). ConfirmedMovesHold follows, for any list of ways a platform may have.
* Home. ConfigurationInv adds to ConfigurationKept what a job has loaded and the steps it has
  left (StepsInOrder): as long as one holds the file at a time, what it is about to write has
  every workspace that was promised but the one it removes (HoldersKnow), an empty file has been
  left by somebody, and if that was the desktop application its backup has it all (FilesKeep).
  ConfigurationStays follows.

**ProcessProofs.** What the processes of one home directory rely on.

* Daemon. DaemonInv adds to DaemonHolds what a command has read between two of its steps: the
  number it found, the child it started, and that the record is what the command at work expects
  of it. DaemonIsFound follows.
* Desktop. TunnelHolds says of a tunnel that runs that it can be found, and of a stop that it is
  final; what happens next depends on the steps that are left to each click and to the watchdog.
  TunnelInv adds the shape of these lists (Paired: a process is recorded right after it was
  spawned), that who is about to record a tunnel replaces the record of no other unless their
  starts overlapped (RecordsApart), and how far a stop is that works alone (StopsAlone). A step
  that neither spawns nor records is treated once (Elsewhere). TunnelIsFound follows.
* OAuth. CredentialsHold speaks of the process that serves; OAuthInv says the same of the files
  and of every process that has loaded them: what was given out is in both, what was used is in
  neither, who has a key has that of the file. A step is looked at four times, for codes, tokens,
  clients and the key; "Quiet" predicates say that it does not touch one of them.
  CredentialsOutliveTheProcess follows.
* Lifecycle. LifecycleInv says which migrations are behind a server at each step of its start
  (MigratedSoFar), that each of them made its change once and is recorded before anybody serves
  (SchemaIsWhole, ServesTheWholeSchema), that a server serves exactly as long as it has the port
  (PortIsServed), that one that lives alone still finds what it has looked at (AloneFindsItSo),
  and whose socket file it is while starts do not overlap (OwnSockets). ServersAreKept is all of
  LifecycleHolds.
* Update. That a program never goes back needs an argument about versions: VersionsCompare shows
  that `compareVersions`, which looks at the first place where two versions differ, is the order
  of semantic versioning as Update writes it down (Precedes), and NewerIsLater, that with
  releases published in that order (ReleasesInOrder, an ASSUME of Update) what is newer by it
  was published later. UpdateInv adds what an updater has fetched and checked so far (RunsKnow),
  and that while no two updates overlapped one is at work at a time. UpdatesGoForward follows.

**SessionProofs.** Sessions and those who look at them.

* RemoteSession. SessionsKept says that who retries an open finds the session of the first try
  (SessionsHold), and that a session is closed only by a call that has read its last version.
  SessionInv adds which sessions there can be: ids are handed out in order, to no more sessions
  than there are opens that began (IdsInOrder), and what a call between two of its steps works on
  exists (KnownSessions). SessionsAreKept follows.
* Observation. ObsInv follows every event from the table over the broker's buffer and the wire
  to the client: none of them skips an event but excused ones (WireComplete, BufferComplete), and
  what a connection counts as sent is on the wire or received (SentComplete).
  ObservationTypes and ObserversAreServed follow.
* Calls. The order of published activities is not inductive: CallsInv says which turn is the
  latest (LatestIsOne: no two turns have the same time, though the clock may be set back), who
  announces (OneAnnounces), and that what is published ends where what is accepted and still to
  be said begins (PublishedIsJoined, when no two calls have the same request id).
  CallsAreTold follows: order, the activity an answer names, silence after it, and steps that
  end as their tool did.

**RuntimeProofs.** Three components, one argument each.

* Retention. HousekeepingInv: between two transactions of a pass its candidates are aged rows
  of tasks that have ended, which nothing makes run again. AliveKept follows: no step deletes a
  row that is within its time, runs, or belongs to an open session.
* WorkspaceRun. RunInv has six parts: a call stands where the row of its transition says
  (CallsInOrder), each row has one owner (RowsOwned) and says what is true of its commits and
  its receipt (RowsTrue), at most one is pending (OnePending), what a call has read of a row is
  what the row was and can still become (RowsRead), and answers are true (AnswersTrue). That a
  frozen identity only advances needs RowsRead together with the acyclic ancestry: a second
  reconciler with an old row finds the identity at the old row's end or beyond, never at its
  beginning again.
* Terminal. TaskInv says of each task how far its start is, who has its processes, what its
  row says, where its output is and what was answered (StartInOrder, EndInOrder, OutputInOrder,
  AnswersInOrder). A step is of one task; the lemma OneTaskKeeps reduces it to that task, and a
  restart is looked at by itself. TasksEnd (one end, one reason, told truly, never rewritten) and
  OutputArrives (the final chunk comes last, and "no more" means all of the log) follow. The
  proof needs that a chunk is in the log before the observer has it, that the waiter comes
  after both copying goroutines, that after `cmd.Wait` nobody has the pipes open unless the copying
  has failed, and that a group is empty before its task is "exited".

**The compositions.** A run checks several components, and a theorem about a component alone
says nothing of the run's specification. RequestsAreParts, RuntimeIsParts and ProcessesAreParts
close the gap: a behaviour of the composition is one of the specification of every part.
RequestsTypes and RequestsHold, RuntimeTypes and RuntimeHolds, ProcessesTypes and ProcessesHold
are everything that requests_safety, runtime_safety and processes_safety check, for every value
of the constants. The properties of op_safety and plan_safety are theorems of Operation and
PlanDispatch themselves.

What is only model-checked:

* liveness (Settles, CancelEnds, EveryCallAnswered, StoppedTaskEnds, CatchesUp, AgedIsCollected):
  TLAPS does not reason about ENABLED, hence not about fairness;
* of ToolsHold, what is folded over sequences or selected from them: the subjects Transcript,
  Reading and Chunks, StreamTellsTheCall and StatsAreOfTheSteps. What a fold computes for every
  input needs induction over data, which the library's theorems state with operator parameters
  that no backend here instantiates. All the other parts are theorems, each of the
  specification of its subject. MCTools has no theorem of its own, as it fixes the versions,
  plans and files of its behaviours.

No module declares a RECURSIVE operator. The acyclicity of a DAG is stated as the absence of a
non-empty set of steps each of which waits for another one of the set, and that of commits by a
depth, so that no induction over data is needed.

## 6. What is next

1. Lemmas about selections from a queue that need no induction over data, for
   StreamTellsTheCall: a history of what was published, counted by kind.
2. Refinements of OnceKey by EditApply and Extensions, which have keys of their own and use
   them by its contract.

## 7. Not modelled

See "components" in PROJECT.json, each with its reason. In short: what has no state a later
step depends on (rendering, search, command policy, authentication, audit), what is another
program's (browser service, tracker, git, cloudflared: the models have their answers), the GUI,
and a cache of secrets under one mutex whose pending queue no production code calls. Within the
modelled components: the Windows variants of pipes and termination, labels and lists of
sessions, list actions and directory scans of extensions, continuation of reads from the end
of a file, and offsets a client makes up.

## 8. Running

    tlc -workers 2 -config MCRuntime_safety.cfg MCRuntime
    tlapm RuntimeProofs.tla

The configuration of a run is named after its MC module and the run's question; PROJECT.json has
the list. Each run takes at most about four minutes on two cores.
