------------------------------- MODULE Terminal -------------------------------
(***************************************************************************)
(* Terminal tasks: internal/terminal/task.go with the process groups of    *)
(* group_other.go and group_windows.go, and what the execute tool, an      *)
(* operation step and a client that attaches make of them.                 *)
(*                                                                         *)
(* A task is named by the call that starts it.  Its process group is a     *)
(* leader and at most one child; the child may have the pipes of the task  *)
(* open, and so may a descendant that has left the group (setsid), which   *)
(* no kill of the group reaches.  Output is counted in chunks; one copying *)
(* goroutine per stream writes a chunk to the logs under Task.mu and hands *)
(* it to the observer outside.                                             *)
(*                                                                         *)
(* Every name of this module starts with task or Task, or is a part of     *)
(* speech of its own, so that it can stand beside the other services.      *)
(***************************************************************************)
EXTENDS Integers, FiniteSets, FiniteSetsExt

CONSTANTS
  Tasks,           \* calls that start a task
  LimitedTasks,    \* ephemeral runtimes: tasks with a wall and a CPU limit
  OpTasks,         \* tasks of operation steps
  TableLimit,      \* tasks in the table: 256
  TablePruned,     \* what a prune leaves: 128
  LogCap,          \* chunks a log file holds (32 MiB)
  ReadLimit,       \* chunks one read of a log returns (256 KiB)
  InlineCap,       \* chunks of a stream an answer carries
  MaxOutput,       \* bound: chunks written by each stream of each task
  MaxTaskFaults,   \* bound: failing statements, writes and system calls
  MaxTaskCrashes   \* bound: crashes of this process, starts of another one

ASSUME TaskConstants ==
  /\ LimitedTasks \subseteq Tasks /\ OpTasks \subseteq Tasks
  /\ TablePruned \in Nat /\ TableLimit \in Nat /\ TablePruned < TableLimit
  /\ {LogCap, ReadLimit, InlineCap, MaxTaskFaults, MaxTaskCrashes} \subseteq Nat
  /\ MaxOutput \in [Tasks -> [{"stdout", "stderr"} -> Nat]]

VARIABLES
  taskStep,    \* progress of startPrepared
  taskTable,   \* TaskManager.tasks
  taskRow,     \* terminal_tasks: status and limit_reason
  task,        \* Task: Status, LimitReason, ExitCode
  procs,       \* living processes of the group
  doomed,      \* processes that have been sent a kill
  limitKill,   \* tasks a limit has marked and not killed yet
  waiter,      \* the goroutine that waits for the process
  holders,     \* who, the leader aside, has the pipes of the output open
  written,     \* chunks in the log of each stream, those over LogCap included
  copier,      \* what the copying goroutine of a stream is doing
  sunk,        \* chunks the observer has of each stream
  finals,      \* streams whose final chunk the observer has
  taskAnswer,  \* outcome and stated truncation of the call that started it
  opAnswer,    \* outcome of the operation step
  attached,    \* the client that attaches: label, offsets, verdict
  taskFaults, taskCrashes

taskOutput == <<holders, written, copier, sunk, finals>>
taskAnswers == <<taskAnswer, opAnswer, attached>>
taskBounds == <<taskFaults, taskCrashes>>
taskVars == <<taskStep, taskTable, taskRow, task, procs, doomed, limitKill, waiter,
              taskOutput, taskAnswers, taskBounds>>

Streams == {"stdout", "stderr"}
Processes == {"leader", "child"}
Holders == {"child", "outsider"}
Steps == {"idle", "admitted", "started", "undoing", "stored", "up", "refused", "lost"}
Statuses == {"none", "running", "exited", "killed", "failed", "interrupted"}
Reasons == {"none", "wall_time_limit", "cpu_time_limit"}
Outcomes == {"none", "running", "succeeded", "stopped", "limit", "error"}
OpOutcomes == {"none", "waiting", "stopping", "cancelled", "result", "unconfirmed", "error"}

NoRow == [status |-> "none", reason |-> "none"]
NoTask == [status |-> "none", reason |-> "none", code |-> 0]
NotAttached == [at |-> "none", via |-> "none", read |-> [s \in Streams |-> 0], verdict |-> "none"]

TaskTypeOK ==
  /\ taskStep \in [Tasks -> Steps] /\ taskTable \subseteq Tasks
  /\ taskRow \in [Tasks -> [status : Statuses, reason : Reasons]]
  /\ task \in [Tasks -> [status : Statuses, reason : Reasons, code : -1..1]]
  /\ procs \in [Tasks -> SUBSET Processes] /\ doomed \in [Tasks -> SUBSET Processes]
  /\ holders \in [Tasks -> SUBSET Holders] /\ limitKill \subseteq LimitedTasks
  /\ waiter \in [Tasks -> {"none", "copying", "group", "finals", "closed"}]
  /\ written \in [Tasks -> [Streams -> Nat]]
  /\ copier \in [Tasks -> [Streams -> {"reading", "sending", "broken"}]]
  /\ sunk \in [Tasks -> [Streams -> Nat]] /\ finals \in [Tasks -> SUBSET Streams]
  /\ taskAnswer \in [Tasks -> [outcome : Outcomes, whole : BOOLEAN]]
  /\ opAnswer \in [Tasks -> OpOutcomes]
  /\ attached \in [Tasks -> [at : {"none", "stdout", "stderr", "decide"}, via : Statuses,
                             read : [Streams -> Nat], verdict : Statuses \cup {"more"}]]
  /\ taskFaults \in 0..MaxTaskFaults /\ taskCrashes \in 0..MaxTaskCrashes

\* The calls of `calls` are to come, the others have been refused.
TaskInitOf(calls) ==
  /\ taskStep = [t \in Tasks |-> IF t \in calls THEN "idle" ELSE "refused"] /\ taskTable = {}
  /\ taskRow = [t \in Tasks |-> NoRow] /\ task = [t \in Tasks |-> NoTask]
  /\ procs = [t \in Tasks |-> {}] /\ doomed = [t \in Tasks |-> {}]
  /\ holders = [t \in Tasks |-> {}] /\ limitKill = {} /\ waiter = [t \in Tasks |-> "none"]
  /\ written = [t \in Tasks |-> [s \in Streams |-> 0]]
  /\ copier = [t \in Tasks |-> [s \in Streams |-> "reading"]]
  /\ sunk = [t \in Tasks |-> [s \in Streams |-> 0]] /\ finals = [t \in Tasks |-> {}]
  /\ taskAnswer = [t \in Tasks |-> [outcome |-> "none", whole |-> TRUE]]
  /\ opAnswer = [t \in Tasks |-> "none"] /\ attached = [t \in Tasks |-> NotAttached]
  /\ taskFaults = 0 /\ taskCrashes = 0

TaskInit == TaskInitOf(Tasks)

-----------------------------------------------------------------------------
\* Helpers

TaskFault == taskFaults < MaxTaskFaults /\ taskFaults' = taskFaults + 1

\* startPrepared goes on to `step`.
StartStep(t, step) == taskStep' = [taskStep EXCEPT ![t] = step]

\* Size of the log file of a stream, and of what a read from `from` returns.
Kept(t, s) == IF written[t][s] < LogCap THEN written[t][s] ELSE LogCap
ReadTo(t, s, from) == IF Kept(t, s) - from > ReadLimit THEN from + ReadLimit ELSE Kept(t, s)

\* What a prune may drop.
Finished == {t \in taskTable : task[t].status # "running"}

\* pruneFinishedLocked: finished tasks in the order of the map, until
\* TablePruned are left or none is finished.
PrunedTables ==
  IF Cardinality(taskTable \ Finished) >= TablePruned THEN {taskTable \ Finished}
  ELSE {taskTable \ d : d \in kSubset(Cardinality(taskTable) - TablePruned, Finished)}

\* Bug: the pipes are not waited for.
PipesIgnored(t) == TRUE

\* The copying of both streams is over: no process has the pipe open any more,
\* or the writing of the logs has failed.
StreamsEnded(t) ==
  \A s \in Streams : copier[t][s] # "sending" /\ (copier[t][s] = "broken" \/ holders[t] = {})

\* Bug: the kill is sent to the leader alone.
KillLeader(t) == doomed' = [doomed EXCEPT ![t] = procs[t] \cap {"leader"}]

\* The group is sent a kill.
KillGroup(t) == doomed' = [doomed EXCEPT ![t] = procs[t]]

\* annotateExecutionOutcome.
Outcome(t) ==
  CASE task[t].status = "running" -> "running"
    [] task[t].status # "running" /\ task[t].reason # "none" -> "limit"
    [] task[t].status = "killed" /\ task[t].reason = "none" -> "stopped"
    [] task[t].status \in {"exited", "failed"} /\ task[t].reason = "none" ->
         IF task[t].code = 0 THEN "succeeded" ELSE "error"

-----------------------------------------------------------------------------
\* startPrepared

\* The table has room, after a prune if need be.
Admit(t) ==
  /\ taskStep[t] = "idle"
  /\ IF Cardinality(taskTable) < TableLimit THEN UNCHANGED taskTable
                                            ELSE taskTable' \in PrunedTables
  /\ StartStep(t, IF Cardinality(taskTable') < TableLimit THEN "admitted" ELSE "refused")
  /\ UNCHANGED <<taskRow, task, procs, doomed, limitKill, waiter, taskOutput, taskAnswers, taskBounds>>

\* The logs are opened and the process starts, and writes; or one of them fails.
Launch(t) ==
  /\ taskStep[t] = "admitted"
  /\ \/ /\ StartStep(t, "started")
        /\ task' = [task EXCEPT ![t].status = "running"]
        /\ procs' = [procs EXCEPT ![t] = {"leader"}]
        /\ UNCHANGED taskFaults
     \/ TaskFault /\ StartStep(t, "refused") /\ UNCHANGED <<task, procs>>
  /\ UNCHANGED <<taskTable, taskRow, doomed, limitKill, waiter, taskOutput, taskAnswers, taskCrashes>>

\* INSERT of the row; when it fails the group is killed and waited for.
Persist(t) ==
  /\ taskStep[t] = "started"
  /\ \/ /\ StartStep(t, "stored")
        /\ taskRow' = [taskRow EXCEPT ![t].status = "running"]
        /\ UNCHANGED <<doomed, taskFaults>>
     \/ TaskFault /\ StartStep(t, "undoing") /\ KillGroup(t) /\ UNCHANGED taskRow
  /\ UNCHANGED <<taskTable, task, procs, limitKill, waiter, taskOutput, taskAnswers, taskCrashes>>

Undo(t) ==
  /\ taskStep[t] = "undoing" /\ procs[t] = {} /\ StreamsEnded(t)
  /\ StartStep(t, "refused")
  /\ UNCHANGED <<taskTable, taskRow, task, procs, doomed, limitKill, waiter, taskOutput, taskAnswers, taskBounds>>

\* The task enters the table; its goroutines start.
Register(t) ==
  /\ taskStep[t] = "stored"
  /\ StartStep(t, "up")
  /\ taskTable' = taskTable \cup {t}
  /\ waiter' = [waiter EXCEPT ![t] = "copying"]
  /\ UNCHANGED <<taskRow, task, procs, doomed, limitKill, taskOutput, taskAnswers, taskBounds>>

-----------------------------------------------------------------------------
\* The process

Fork(t) ==
  /\ procs[t] = {"leader"} /\ doomed[t] = {}
  /\ procs' = [procs EXCEPT ![t] = Processes]
  /\ holders' \in {holders, [holders EXCEPT ![t] = @ \cup {"child"}]}
  /\ UNCHANGED <<taskStep, taskTable, taskRow, task, doomed, limitKill, waiter, written, copier, sunk, finals,
                 taskAnswers, taskBounds>>

\* A process that has the pipes open starts one that leaves the group with them.
LeaveGroup(t) ==
  /\ "leader" \in procs[t] \ doomed[t] \/ "child" \in holders[t] \ doomed[t]
  /\ holders' = [holders EXCEPT ![t] = @ \cup {"outsider"}]
  /\ UNCHANGED <<taskStep, taskTable, taskRow, task, procs, doomed, limitKill, waiter, written, copier, sunk, finals,
                 taskAnswers, taskBounds>>

\* It ends, or closes the pipes.
OutsiderEnds(t) ==
  /\ "outsider" \in holders[t]
  /\ holders' = [holders EXCEPT ![t] = @ \ {"outsider"}]
  /\ UNCHANGED <<taskStep, taskTable, taskRow, task, procs, doomed, limitKill, waiter, written, copier, sunk, finals,
                 taskAnswers, taskBounds>>

ProcessDies(t, p) ==
  /\ p \in procs[t]
  /\ procs' = [procs EXCEPT ![t] = @ \ {p}]
  /\ holders' = [holders EXCEPT ![t] = @ \ {p}]
  /\ UNCHANGED <<taskStep, taskTable, taskRow, task, doomed, limitKill, waiter, written, copier, sunk, finals,
                 taskAnswers, taskBounds>>

-----------------------------------------------------------------------------
\* lockedWriter and the end of the output

\* The pipe of the stream is read: from the start of the process until cmd.Wait
\* has seen its end.
Copying(t) == taskStep[t] \in {"started", "undoing", "stored", "up"} /\ waiter[t] \in {"none", "copying"}

\* A chunk reaches the logs under Task.mu; a failing write ends the copying.
WriteChunk(t, s) ==
  /\ Copying(t) /\ copier[t][s] = "reading" /\ written[t][s] < MaxOutput[t][s]
  /\ \/ /\ written' = [written EXCEPT ![t][s] = @ + 1]
        /\ copier' = [copier EXCEPT ![t][s] = "sending"]
        /\ UNCHANGED taskFaults
     \/ TaskFault /\ copier' = [copier EXCEPT ![t][s] = "broken"] /\ UNCHANGED written
  /\ UNCHANGED <<taskStep, taskTable, taskRow, task, procs, doomed, limitKill, waiter, holders, sunk, finals,
                 taskAnswers, taskCrashes>>

\* The chunk is handed to the observer, outside the lock.
SinkChunk(t, s) ==
  /\ copier[t][s] = "sending"
  /\ copier' = [copier EXCEPT ![t][s] = "reading"]
  /\ sunk' = [sunk EXCEPT ![t][s] = @ + 1]
  /\ UNCHANGED <<taskStep, taskTable, taskRow, task, procs, doomed, limitKill, waiter, holders, written, finals,
                 taskAnswers, taskBounds>>

\* emitOutputFinal, close(done).
EmitFinal(t) ==
  /\ waiter[t] = "finals"
  /\ waiter' = [waiter EXCEPT ![t] = "closed"]
  /\ finals' = [finals EXCEPT ![t] = Streams]
  /\ UNCHANGED <<taskStep, taskTable, taskRow, task, procs, doomed, limitKill, holders, written, copier, sunk,
                 taskAnswers, taskBounds>>

-----------------------------------------------------------------------------
\* The waiter goroutine

\* cmd.Wait: the leader has ended and so has the copying of both streams (there is
\* no WaitDelay).  A failing copy is an error of its own when the leader has ended
\* well.
WaitLeader(t) ==
  /\ waiter[t] = "copying" /\ "leader" \notin procs[t] /\ StreamsEnded(t)
  /\ waiter' = [waiter EXCEPT ![t] = "group"]
  /\ \E code \in IF \E s \in Streams : copier[t][s] = "broken" THEN {-1, 1} ELSE {0, 1} :
       task' = [task EXCEPT ![t].code = code]
  /\ UNCHANGED <<taskStep, taskTable, taskRow, procs, doomed, limitKill, taskOutput, taskAnswers, taskBounds>>

\* finishLocked: the task and, unless the statement fails, its row.
FinishAs(t, status, code) ==
  /\ task' = [task EXCEPT ![t] = [@ EXCEPT !.status = status, !.code = code]]
  /\ waiter' = [waiter EXCEPT ![t] = "finals"]
  /\ \/ /\ taskRow' = [taskRow EXCEPT ![t] = [status |-> status, reason |-> task[t].reason]]
        /\ UNCHANGED taskFaults
     \/ TaskFault /\ UNCHANGED taskRow

\* Bug: the task ends with its leader.
FinishEarly(t) ==
  /\ waiter[t] = "group"
  /\ IF task[t].status = "killed" THEN FinishAs(t, "killed", -1) ELSE FinishAs(t, "exited", task[t].code)
  /\ UNCHANGED <<taskStep, taskTable, procs, doomed, limitKill, taskOutput, taskAnswers, taskCrashes>>

\* group.wait: no process of the group is left.
Finish(t) ==
  /\ waiter[t] = "group" /\ procs[t] = {}
  /\ IF task[t].status = "killed" THEN FinishAs(t, "killed", -1) ELSE FinishAs(t, "exited", task[t].code)
  /\ UNCHANGED <<taskStep, taskTable, procs, doomed, limitKill, taskOutput, taskAnswers, taskCrashes>>

\* group.wait cannot inspect the group: it is killed without confirmation.
FinishUnverified(t) ==
  /\ waiter[t] = "group"
  /\ TaskFault
  /\ task' = [task EXCEPT ![t] = [@ EXCEPT !.status = "failed", !.code = -1]]
  /\ waiter' = [waiter EXCEPT ![t] = "finals"]
  /\ taskRow' = [taskRow EXCEPT ![t] = [status |-> "failed", reason |-> task[t].reason]]
  /\ KillGroup(t)
  /\ UNCHANGED <<taskStep, taskTable, procs, limitKill, taskOutput, taskAnswers, taskCrashes>>

-----------------------------------------------------------------------------
\* Kill and the limits

\* Task.Kill of a live task, its effect on task, doomed and taskFaults.  A kill
\* that fails (Windows) changes nothing.
Killed(t) ==
  \/ /\ task[t].status = "running"
     /\ task' = [task EXCEPT ![t].status = "killed"]
     /\ KillGroup(t) /\ UNCHANGED taskFaults
  \/ /\ task[t].status # "running"
     /\ UNCHANGED <<task, doomed, taskFaults>>

KillFails(t) == task[t].status = "running" /\ TaskFault /\ UNCHANGED <<task, doomed>>

\* A client stops the task (task_manage action=stop), or TaskManager.Close does:
\* it kills the tasks of the table one after the other and waits for none, and
\* the process may end (TaskRestart) at any time.
Stop(t) ==
  /\ t \in taskTable /\ task[t].status = "running"
  /\ Killed(t)
  /\ UNCHANGED <<taskStep, taskTable, taskRow, procs, limitKill, waiter, taskOutput, taskAnswers, taskCrashes>>

\* terminateForLimit under Task.mu ...
Limit(t, reason) ==
  /\ t \in LimitedTasks /\ taskStep[t] = "up" /\ waiter[t] # "closed"
  /\ task[t].status = "running"
  /\ task' = [task EXCEPT ![t] = [@ EXCEPT !.status = "killed", !.reason = reason]]
  /\ limitKill' = limitKill \cup {t}
  /\ UNCHANGED <<taskStep, taskTable, taskRow, procs, doomed, waiter, taskOutput, taskAnswers, taskBounds>>

\* ... and after it; when the group cannot be killed, cancel kills the leader.
LimitKill(t) ==
  /\ t \in limitKill
  /\ limitKill' = limitKill \ {t}
  /\ \/ KillGroup(t) /\ UNCHANGED taskFaults
     \/ TaskFault /\ doomed' = [doomed EXCEPT ![t] = procs[t] \cap {"leader"}]
  /\ UNCHANGED <<taskStep, taskTable, taskRow, task, procs, waiter, taskOutput, taskAnswers, taskCrashes>>

-----------------------------------------------------------------------------
\* The call that started the task: executeCommandTask, executeRuntimeTask

\* capTaskExecutionOutput states a truncation when a stream is over InlineCap.
CutStated(t) == \E s \in Streams : ReadTo(t, s, 0) > InlineCap
\* The answer has all of the logs.
AllRead(t) == \A s \in Streams : Kept(t, s) <= ReadLimit /\ Kept(t, s) <= InlineCap

\* Task.Wait returns: the task is done, or the yield time is over.
AnswerTask(t) ==
  /\ taskStep[t] = "up" /\ taskAnswer[t].outcome = "none"
  /\ \/ /\ waiter[t] = "closed"
        /\ taskAnswer' = [taskAnswer EXCEPT ![t] = [outcome |-> Outcome(t), whole |-> ~CutStated(t)]]
     \/ taskAnswer' = [taskAnswer EXCEPT ![t] = [outcome |-> "running", whole |-> FALSE]]
  /\ UNCHANGED <<taskStep, taskTable, taskRow, task, procs, doomed, limitKill, waiter, taskOutput,
                 opAnswer, attached, taskBounds>>

\* executeCommandTask starts tasks without limits, executeRuntimeTask those with.
AnswerCommand(t) == t \notin LimitedTasks /\ AnswerTask(t)
AnswerRuntime(t) == t \in LimitedTasks /\ AnswerTask(t)

-----------------------------------------------------------------------------
\* A client that attaches until it is told that there is no more

Follow(t, record) ==
  /\ attached' = [attached EXCEPT ![t] = record]
  /\ UNCHANGED <<taskStep, taskTable, taskRow, task, procs, doomed, limitKill, waiter, taskOutput,
                 taskAnswer, opAnswer, taskBounds>>

\* Get: the live task, or a copy of its row.
Attach(t) ==
  /\ t \notin OpTasks /\ taskAnswer[t].outcome = "running"
  /\ attached[t].at = "none" /\ attached[t].verdict \in {"none", "more"}
  /\ Follow(t, [attached[t] EXCEPT !.at = "stdout",
                                   !.via = IF t \in taskTable THEN "none" ELSE taskRow[t].status])

\* taskResultData reads one log and then the other ...
AttachRead(t, s) ==
  /\ attached[t].at = s
  /\ Follow(t, [attached[t] EXCEPT !.at = IF s = "stdout" THEN "stderr" ELSE "decide",
                                   !.read[s] = ReadTo(t, s, @)])

\* What the client has of both logs.
HasAll(t) == \A s \in Streams : attached[t].read[s] = Kept(t, s)

\* Bug: the end of the task is taken for the end of its logs.
AttachByStatus(t) ==
  LET status == IF attached[t].via = "none" THEN task[t].status ELSE attached[t].via IN
  /\ attached[t].at = "decide"
  /\ Follow(t, [attached[t] EXCEPT !.at = "none", !.verdict = IF status = "running" THEN "more" ELSE status])

\* ... then the call looks at the status and the sizes, and says whether to go on.
AttachDecide(t) ==
  LET status == IF attached[t].via = "none" THEN task[t].status ELSE attached[t].via IN
  /\ attached[t].at = "decide"
  /\ Follow(t, [attached[t] EXCEPT !.at = "none",
                 !.verdict = IF status = "running" \/ ~HasAll(t) THEN "more" ELSE status])

-----------------------------------------------------------------------------
\* An operation step that waits for its task (waitForOperationTask)

OpAnswer(t, answer) == opAnswer' = [opAnswer EXCEPT ![t] = answer]

\* Get: a copy of the row has no process to wait for.
OpGet(t) ==
  /\ t \in OpTasks /\ taskAnswer[t].outcome = "running" /\ opAnswer[t] = "none"
  /\ IF t \in taskTable THEN OpAnswer(t, "waiting")
     ELSE \E answer \in {"error", "unconfirmed"} : OpAnswer(t, answer)
  /\ UNCHANGED <<taskStep, taskTable, taskRow, task, procs, doomed, limitKill, waiter, taskOutput,
                 taskAnswer, attached, taskBounds>>

\* The verdict on a task that is done.
OpDone(t) ==
  /\ opAnswer[t] = "waiting" /\ waiter[t] = "closed"
  /\ OpAnswer(t, IF task[t].status = "failed" THEN "unconfirmed" ELSE "result")
  /\ UNCHANGED <<taskStep, taskTable, taskRow, task, procs, doomed, limitKill, waiter, taskOutput,
                 taskAnswer, attached, taskBounds>>

\* The operation is cancelled: the task is killed ...
OpCancel(t) ==
  /\ opAnswer[t] = "waiting"
  /\ \/ Killed(t) /\ OpAnswer(t, "stopping")
     \/ KillFails(t) /\ OpAnswer(t, "unconfirmed")
  /\ UNCHANGED <<taskStep, taskTable, taskRow, procs, limitKill, waiter, taskOutput,
                 taskAnswer, attached, taskCrashes>>

\* ... and has five seconds to be done.
OpStopped(t) ==
  /\ opAnswer[t] = "stopping"
  /\ \/ /\ waiter[t] = "closed"
        /\ OpAnswer(t, IF task[t].status = "failed" THEN "unconfirmed" ELSE "cancelled")
     \/ waiter[t] # "closed" /\ OpAnswer(t, "unconfirmed")
  /\ UNCHANGED <<taskStep, taskTable, taskRow, task, procs, doomed, limitKill, waiter, taskOutput,
                 taskAnswer, attached, taskBounds>>

-----------------------------------------------------------------------------
\* Start and end of processes of mcpx

TaskCrash == taskCrashes < MaxTaskCrashes /\ taskCrashes' = taskCrashes + 1

\* NewPersistentTaskManager of any process: running rows become interrupted.
Recovered == [t \in Tasks |-> IF taskRow[t].status = "running"
                              THEN [taskRow[t] EXCEPT !.status = "interrupted"] ELSE taskRow[t]]

\* The process ends and starts again; the groups live on (not on Windows),
\* without a reader of their output.
TaskRestart ==
  /\ TaskCrash
  /\ taskStep' = [t \in Tasks |-> IF taskStep[t] \in {"idle", "refused"} THEN taskStep[t] ELSE "lost"]
  /\ taskTable' = {} /\ taskRow' = Recovered
  /\ doomed' \in {doomed, procs}
  /\ limitKill' = {} /\ waiter' = [t \in Tasks |-> "none"]
  /\ copier' = [t \in Tasks |-> [s \in Streams |-> "reading"]]
  /\ opAnswer' = [t \in Tasks |-> IF opAnswer[t] \in {"waiting", "stopping"} THEN "error" ELSE opAnswer[t]]
  /\ attached' = [t \in Tasks |-> [attached[t] EXCEPT !.at = "none"]]
  /\ UNCHANGED <<task, procs, holders, written, sunk, finals, taskAnswer, taskFaults>>

\* Another process starts on the same database.
OtherStart ==
  /\ TaskCrash
  /\ taskRow' = Recovered
  /\ UNCHANGED <<taskStep, taskTable, task, procs, doomed, limitKill, waiter, taskOutput, taskAnswers, taskFaults>>

TaskStarting(t) == Admit(t) \/ Launch(t) \/ Persist(t) \/ Undo(t) \/ Register(t)

TaskEnding(t) ==
  \/ WaitLeader(t) \/ Finish(t) \/ EmitFinal(t) \/ LimitKill(t)
  \/ \E s \in Streams : SinkChunk(t, s)

TaskFollowing(t) ==
  \/ AnswerCommand(t) \/ AnswerRuntime(t) \/ Attach(t) \/ AttachDecide(t) \/ \E s \in Streams : AttachRead(t, s)
  \/ OpGet(t) \/ OpDone(t) \/ OpCancel(t) \/ OpStopped(t)

TaskNext ==
  \/ \E t \in Tasks :
       \/ TaskStarting(t) \/ TaskEnding(t) \/ TaskFollowing(t) \/ FinishUnverified(t)
       \/ Stop(t) \/ Fork(t) \/ LeaveGroup(t) \/ OutsiderEnds(t) \/ \E p \in Processes : ProcessDies(t, p)
       \/ \E s \in Streams : WriteChunk(t, s)
       \/ \E reason \in Reasons \ {"none"} : Limit(t, reason)
  \/ TaskRestart \/ OtherStart

\* Goroutines run, and a process that was sent a kill dies.  That a task ends by
\* itself, that anybody stops it, or that a process outside its group ends, is
\* nobody's promise.
TaskFairness ==
  \A t \in Tasks :
    /\ WF_taskVars(TaskEnding(t))
    /\ \A p \in Processes : WF_taskVars(p \in doomed[t] /\ ProcessDies(t, p))

TaskSpec == TaskInit /\ [][TaskNext]_taskVars
TaskFairSpec == TaskSpec /\ TaskFairness

-----------------------------------------------------------------------------
\* Properties

\* A call is answered "succeeded" only when the whole group has ended by itself,
\* the leader with code 0, all its output went through the logs, and nobody, in
\* the group or outside it, has the pipes open.
SuccessIsQuiet ==
  \A t \in Tasks : taskAnswer[t].outcome = "succeeded" =>
    procs[t] = {} /\ holders[t] = {} /\ task[t].status = "exited" /\ \A s \in Streams : copier[t][s] # "broken"

\* Whoever was first to end the task, a client, a limit or the task itself, is
\* what the task and its row say; and the kill of the loser hits nobody.
FirstEndCounts ==
  \A t \in Tasks :
    /\ task[t].reason # "none" => task[t].status \in {"killed", "failed"}
    /\ waiter[t] = "closed" /\ taskFaults = 0 =>
         taskRow[t] = [status |-> task[t].status, reason |-> task[t].reason]
    /\ waiter[t] = "closed" /\ task[t].status = "exited" => doomed[t] = {}

\* An operation step is "cancelled", its effects confirmed, only when no process
\* of its task is left (ErrEffectsUnconfirmed otherwise).
CancelledIsQuiet == \A t \in Tasks : opAnswer[t] = "cancelled" => procs[t] = {}

\* The manager forgets no task that still runs undisturbed: a stop of a task it
\* does not hold any more, which stops nothing, is right to say "killed".
ForgottenIsStopped ==
  \A t \in Tasks : taskStep[t] = "up" /\ t \notin taskTable => task[t].status # "running"

TaskOutcomes == SuccessIsQuiet /\ FirstEndCounts /\ CancelledIsQuiet /\ ForgottenIsStopped

\* The final chunk of a stream comes after all others, and a client that is
\* told there is no more has all of the log; unless the task was stopped, then a
\* rest in the pipe may come later.
OutputComplete ==
  \A t \in Tasks :
    /\ finals[t] # {} => \A s \in Streams : sunk[t][s] = written[t][s] /\ copier[t][s] # "sending"
    /\ attached[t].verdict \in {"exited", "failed"} => HasAll(t)

\* "Truncated streams state the truncation": an answer that claims to be whole has
\* all of the logs.
TruncationStated ==
  \A t \in Tasks : taskAnswer[t].outcome \notin {"none", "running"} /\ taskAnswer[t].whole => AllRead(t)

\* "Restored tasks ... are already terminal or marked interrupted".
RestoredIsTerminal ==
  \A t \in Tasks : taskStep[t] = "up" /\ t \notin taskTable => taskRow[t].status # "running"

\* What a row says of a task that has ended stays, whoever finishes, restarts or
\* starts meanwhile.
EndedStaysEnded ==
  \A t \in Tasks : taskRow[t].status \in {"exited", "killed", "failed"} => taskRow'[t] = taskRow[t]

\* A task that was stopped, or has hit a limit, is done in the end; and if it is
\* not, a process that has left the group keeps its pipes open.
StoppedTaskEnds ==
  \A t \in Tasks : (task[t].status = "killed" /\ waiter[t] # "none") ~>
                     waiter[t] \in {"closed", "none"} \/ "outsider" \in holders[t]

\* A task ends once, for one reason, and what is said of its end is true and stays.
TasksEndOnce == [][TaskOutcomes' /\ EndedStaysEnded]_taskVars
=============================================================================
