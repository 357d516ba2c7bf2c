---------------------------- MODULE OperationTools ----------------------------
(***************************************************************************)
(* operation_batch and operation_manage: what a client is told of          *)
(* operations that go on while it asks (tools_operation.go, and Wait of    *)
(* operation/service.go), and what a submitted batch must be.  The         *)
(* operations themselves are those of the module Operation, seen from      *)
(* outside: their states, and the handle that a waiter holds.              *)
(***************************************************************************)
EXTENDS Integers, Sequences, SequencesExt, FiniteSets, FiniteSetsExt

CONSTANTS
  PolledOps,      \* operations
  OwnOps,         \* those of the remote session that asks
  OperationAsks,  \* [action, targets]: "status", "result" or "wait"
  BatchItems,     \* items a batch may have
  StepTimings,    \* sequences of [from, to], milliseconds of the steps of an operation
  MaxHandles      \* bound: handles of one operation

ASSUME OperationToolsAssumption ==
  /\ MaxHandles \in Nat \ {0} /\ \A items \in BatchItems : items \in Seq(ToSet(items))
  /\ \A a \in OperationAsks : a.action \in {"status", "result", "wait"} /\ a.targets \in Seq(PolledOps)

VARIABLES
  life,        \* operation -> its state, "gone" when its record was deleted
  handle,      \* operation -> number of its open handle, 0 if there is none
  lastHandle,  \* operation -> number of the newest handle it has had
  ask,         \* the call, or NoAsk
  askAt,       \* how far it is: "check", "wait", "read", "answered"
  askRead,     \* states it has read, one for each target it has passed
  askHandle,   \* handle it waits for
  reply,       \* what it answers
  batch,       \* items of a submitted batch and what became of it
  timing       \* timing of the steps of an operation that is shown

operationToolVars == <<life, handle, lastHandle, ask, askAt, askRead, askHandle, reply, batch, timing>>
askVars == <<ask, askAt, askRead, askHandle, reply>>

LifeOver == {"succeeded", "failed", "interrupted", "cancelled"}
WaitEnds == LifeOver \cup {"waiting"}
Moving == {"queued", "running"}
NoAsk == [action |-> "none", targets |-> <<>>]
NoReply == [status |-> "", results |-> FALSE]
NoBatch == [items |-> <<>>, verdict |-> "none"]

OperationToolsTypeOK ==
  /\ life \in [PolledOps -> WaitEnds \cup Moving \cup {"gone"}]
  /\ handle \in [PolledOps -> 0..MaxHandles] /\ lastHandle \in [PolledOps -> 0..MaxHandles]
  /\ ask \in OperationAsks \cup {NoAsk} /\ askAt \in {"idle", "check", "wait", "read", "answered"}
  /\ askRead \in Seq(WaitEnds \cup Moving) /\ Len(askRead) <= Len(ask.targets) /\ askHandle \in 0..MaxHandles
  /\ timing \in StepTimings

OperationToolsInit ==
  /\ life = [o \in PolledOps |-> "queued"] /\ handle = [o \in PolledOps |-> 1] /\ lastHandle = [o \in PolledOps |-> 1]
  /\ ask = NoAsk /\ askAt = "idle" /\ askRead = <<>> /\ askHandle = 0 /\ reply = NoReply
  /\ batch = NoBatch /\ timing \in StepTimings

(***************************************************************************)
(* The operations.                                                         *)
(***************************************************************************)
BecomesOf(st) ==
  CASE st = "queued" -> {"running", "cancelled", "interrupted"}
    [] st = "running" -> WaitEnds \cup {"queued"}
    [] st = "waiting" -> {"cancelled"}
    [] OTHER -> {}

\* A new state is written while the handle is still open.
StateMoves(o) ==
  /\ \E st \in BecomesOf(life[o]) : life' = [life EXCEPT ![o] = st]
  /\ UNCHANGED <<handle, lastHandle, batch, timing>> /\ UNCHANGED askVars

\* finishActive: the handle of what is over is closed and forgotten.
HandleCloses(o) ==
  /\ life[o] \in LifeOver /\ handle[o] # 0
  /\ handle' = [handle EXCEPT ![o] = 0]
  /\ UNCHANGED <<life, lastHandle, batch, timing>> /\ UNCHANGED askVars

\* Resume makes a handle when the process has none.
StepResumed(o) ==
  /\ life[o] = "waiting" /\ (handle[o] = 0 => lastHandle[o] < MaxHandles)
  /\ life' = [life EXCEPT ![o] = "queued"]
  /\ IF handle[o] # 0 THEN UNCHANGED <<handle, lastHandle>>
     ELSE handle' = [handle EXCEPT ![o] = lastHandle[o] + 1] /\ lastHandle' = [lastHandle EXCEPT ![o] = @ + 1]
  /\ UNCHANGED <<batch, timing>> /\ UNCHANGED askVars

RecordDeleted(o) ==
  /\ life[o] \in LifeOver /\ handle[o] = 0
  /\ life' = [life EXCEPT ![o] = "gone"]
  /\ UNCHANGED <<handle, lastHandle, batch, timing>> /\ UNCHANGED askVars

\* The process ends between two calls: what was going on is interrupted, what
\* waits stays unless a step of it ran, nothing has a handle.
ServerRestarts ==
  /\ askAt \in {"idle", "answered"}
  /\ \E alsoRan \in SUBSET {o \in PolledOps : life[o] = "waiting"} :
       life' = [o \in PolledOps |-> IF life[o] \in Moving \/ o \in alsoRan THEN "interrupted" ELSE life[o]]
  /\ handle' = [o \in PolledOps |-> 0]
  /\ UNCHANGED <<lastHandle, batch, timing>> /\ UNCHANGED askVars

(***************************************************************************)
(* operation_manage.                                                       *)
(***************************************************************************)
\* parseOperationTargets: several different ones for status and result only.
AskIsValid(a) ==
  /\ Cardinality(ToSet(a.targets)) = Len(a.targets) /\ a.targets # <<>>
  /\ Len(a.targets) > 1 => a.action \in {"status", "result"}

IsBatch == Len(ask.targets) > 1
AnswerAsk(status, results) == askAt' = "answered" /\ reply' = [status |-> status, results |-> results]
RefuseAsk(reason) == AnswerAsk(reason, FALSE)

AskStarts ==
  /\ askAt \in {"idle", "answered"}
  /\ \E a \in OperationAsks :
       /\ ask' = a /\ askRead' = <<>> /\ askHandle' = 0
       /\ IF AskIsValid(a) THEN askAt' = "check" /\ reply' = NoReply ELSE RefuseAsk("bad_request")
  /\ UNCHANGED <<life, handle, lastHandle, batch, timing>>

\* operationResponse of one record.
ReplyTo(st, timedOut) ==
  CASE timedOut \/ st \in Moving -> "accepted"
    [] st = "waiting" -> "confirm"
    [] st \in {"interrupted", "cancelled"} -> "interrupted"
    [] st = "failed" -> "error"
    [] OTHER -> "ok"

\* operationBatchStatus: what waits for the user comes first, then what goes on,
\* then failures, then interruptions.
ReplyToAll(states) ==
  LET read == ToSet(states)
  IN IF "waiting" \in read THEN "confirm"
     ELSE IF read \cap Moving # {} THEN "accepted"
     ELSE IF "failed" \in read THEN "error"
     ELSE IF read \cap {"interrupted", "cancelled"} # {} THEN "interrupted"
     ELSE "ok"

Passed == Len(askRead)
Target == ask.targets[Passed + 1]

\* Every record is read and checked, one after the other, before any is shown;
\* a result is read again, and its new state told.
CheckTarget ==
  /\ askAt = "check" /\ Passed < Len(ask.targets)
  /\ IF life[Target] = "gone" THEN RefuseAsk("not_found") /\ UNCHANGED <<askRead, askHandle>>
     ELSE IF Target \notin OwnOps THEN RefuseAsk("forbidden") /\ UNCHANGED <<askRead, askHandle>>
     ELSE /\ askRead' = Append(askRead, life[Target])
          /\ UNCHANGED <<askAt, askHandle, reply>>
  /\ UNCHANGED <<life, handle, lastHandle, ask, batch, timing>>

ShowAll ==
  /\ askAt = "check" /\ Passed = Len(ask.targets)
  /\ CASE ask.action = "status" ->
            /\ IF IsBatch THEN AnswerAsk(ReplyToAll(askRead), FALSE) ELSE AnswerAsk(ReplyTo(askRead[1], FALSE), FALSE)
            /\ UNCHANGED askRead
       [] ask.action = "result" -> askAt' = "read" /\ askRead' = <<>> /\ UNCHANGED reply
       [] OTHER -> askAt' = "wait" /\ askRead' = <<>> /\ UNCHANGED reply
  /\ askHandle' = 0
  /\ UNCHANGED <<life, handle, lastHandle, ask, batch, timing>>

ReadResult ==
  /\ askAt = "read" /\ Passed < Len(ask.targets)
  /\ IF life[Target] = "gone" THEN RefuseAsk("not_found") /\ UNCHANGED askRead
     ELSE askRead' = Append(askRead, life[Target]) /\ UNCHANGED <<askAt, reply>>
  /\ UNCHANGED <<life, handle, lastHandle, ask, askHandle, batch, timing>>

ShowResults ==
  /\ askAt = "read" /\ Passed = Len(ask.targets)
  /\ IF IsBatch THEN AnswerAsk(ReplyToAll(askRead), TRUE) ELSE AnswerAsk(ReplyTo(askRead[1], FALSE), TRUE)
  /\ UNCHANGED <<life, handle, lastHandle, ask, askRead, askHandle, batch, timing>>

\* Wait.  Without a handle the state read first is no proof that the operation
\* still goes on, and it is read again.
WaitReads ==
  /\ askAt = "wait" /\ Passed = 0
  /\ LET st == life[ask.targets[1]]
     IN IF st = "gone" THEN RefuseAsk("not_found") /\ UNCHANGED askRead
        ELSE /\ askRead' = <<st>>
             /\ IF st \in WaitEnds THEN AnswerAsk(ReplyTo(st, FALSE), TRUE) ELSE UNCHANGED <<askAt, reply>>
  /\ UNCHANGED <<life, handle, lastHandle, ask, askHandle, batch, timing>>

AnswerWaiter(st) ==
  IF st = "gone" THEN RefuseAsk("not_found") /\ UNCHANGED askRead
  ELSE LET timedOut == st \in Moving
       IN askRead' = <<st>> /\ AnswerAsk(ReplyTo(st, timedOut), ~timedOut)

\* What is not active is over: the state read first is told as it was.
NotActiveIsOver(st) == AnswerAsk(ReplyTo(askRead[1], FALSE), TRUE) /\ UNCHANGED askRead

WithoutHandle(st) == AnswerWaiter(st)

WaitFindsHandle ==
  /\ askAt = "wait" /\ Passed = 1 /\ askHandle = 0
  /\ IF handle[ask.targets[1]] = 0 THEN WithoutHandle(life[ask.targets[1]]) /\ UNCHANGED askHandle
     ELSE askHandle' = handle[ask.targets[1]] /\ UNCHANGED <<askAt, askRead, reply>>
  /\ UNCHANGED <<life, handle, lastHandle, ask, batch, timing>>

\* The handle is closed, and what is read then is never told to have timed out.
WaitWoken ==
  /\ askAt = "wait" /\ askHandle # 0 /\ handle[ask.targets[1]] # askHandle
  /\ LET st == life[ask.targets[1]]
     IN IF st = "gone" THEN RefuseAsk("not_found") /\ UNCHANGED askRead
        ELSE askRead' = <<st>> /\ AnswerAsk(ReplyTo(st, FALSE), TRUE)
  /\ UNCHANGED <<life, handle, lastHandle, ask, askHandle, batch, timing>>

WaitTimesOut ==
  /\ askAt = "wait" /\ askHandle # 0
  /\ AnswerWaiter(life[ask.targets[1]])
  /\ UNCHANGED <<life, handle, lastHandle, ask, askHandle, batch, timing>>

(***************************************************************************)
(* operation_batch.                                                        *)
(***************************************************************************)
\* validateOperationToolArguments: the session and the purpose are put into the
\* arguments first; fields every tool may get are let through a closed schema.
ArgumentsFit(item) ==
  LET given == item.fields \cup {"remote_session_id", "purpose"}
      injected == {"session_id", "remote_session_id", "goal", "purpose", "intent", "progress_summary", "execution_mode"}
  IN /\ item.required \subseteq given
     /\ item.closed => given \subseteq item.known \cup injected
     /\ item.illTyped \cap item.known = {}

Nested == {"operation_batch", "operation_manage", "secret_provide"}
ItemVerdict(item) ==
  IF item.tool = "" THEN "incomplete"
  ELSE IF item.tool \in Nested THEN "nested"
  ELSE IF item.tool \notin item.registered \/ ~ArgumentsFit(item) THEN "arguments"
  ELSE "accepted"

\* A step that only reads, and stays inside, shares the workspace.
Shares(item) == item.readOnly /\ ~item.openWorld

\* The first item that does not do decides; with none, or with none wrong, the
\* whole batch is refused or submitted.
SubmitBatch ==
  /\ batch.verdict = "none"
  /\ \E items \in BatchItems :
       LET wrong == {i \in DOMAIN items : ItemVerdict(items[i]) # "accepted"}
       IN batch' = [items |-> [i \in DOMAIN items |-> [of |-> items[i], exclusive |-> ~Shares(items[i])]],
                    verdict |-> IF items = <<>> THEN "empty"
                                ELSE IF wrong = {} THEN "accepted" ELSE ItemVerdict(items[Min(wrong)])]
  /\ UNCHANGED <<life, handle, lastHandle, timing>> /\ UNCHANGED askVars

(***************************************************************************)
(* operationStats.                                                         *)
(***************************************************************************)
\* A step that ended when it began, or before, counts for a millisecond.
Ended(t) == IF t.to > t.from THEN t.to ELSE t.from + 1

\* Starts and ends by their time, starts before the ends of the same moment.
SweepTimes(times) ==
  LET events == [i \in 1..(2 * Len(times)) |->
                   IF i <= Len(times) THEN [at |-> times[i].from, delta |-> 1]
                   ELSE [at |-> Ended(times[i - Len(times)]), delta |-> 0 - 1]]
      before(a, b) == a.at < b.at \/ (a.at = b.at /\ a.delta > b.delta)
  IN SortSeq(events, before)

MaxConcurrency(times) ==
  LET step(acc, e) == [now |-> acc.now + e.delta, most |-> Max({acc.most, acc.now + e.delta})]
  IN FoldLeft(step, [now |-> 0, most |-> 0], SweepTimes(times)).most

Durations(times) ==
  LET less(a, b) == a < b IN SortSeq([i \in DOMAIN times |-> Ended(times[i]) - times[i].from], less)

\* durationPercentile: the nearest rank.
Percentile(sorted, p) ==
  IF sorted = <<>> THEN 0 ELSE sorted[Min({Max({1, (Len(sorted) * p + 99) \div 100}), Len(sorted)})]

OperationToolsNext ==
  \/ \E o \in PolledOps : StateMoves(o) \/ HandleCloses(o) \/ StepResumed(o) \/ RecordDeleted(o)
  \/ ServerRestarts
  \/ AskStarts \/ CheckTarget \/ ShowAll \/ ReadResult \/ ShowResults
  \/ WaitReads \/ WaitFindsHandle \/ WaitWoken \/ WaitTimesOut
  \/ SubmitBatch

OperationToolsSpec == OperationToolsInit /\ [][OperationToolsNext]_operationToolVars

(***************************************************************************)
(* What the tools promise.                                                 *)
(***************************************************************************)
(* An answer that sounds final is final for all that was asked, although   *)
(* the operations moved while they were read one by one: with ok all have  *)
(* succeeded, with error or interrupted none goes on or can be resumed     *)
(* (operationBatchStatus, operationResponse).                              *)
FinalIsFinal ==
  askAt = "answered" =>
    LET now == {life[o] : o \in ToSet(ask.targets)}
    IN /\ reply.status = "ok" => now \subseteq {"succeeded", "gone"}
       /\ reply.status \in {"error", "interrupted"} => now \subseteq LifeOver \cup {"gone"}

(* A wait that did not time out gives results, and then the operation was  *)
(* read as settled, whether its handle was there, was closed, or was gone  *)
(* between the two reads (the comment in Wait: a missing handle "is no     *)
(* evidence of a final state").                                            *)
WaitGivesTheEnd ==
  askAt = "answered" /\ ask.action = "wait" =>
    /\ reply.results => askRead[1] \in WaitEnds
    /\ reply.status = "accepted" => ~reply.results /\ askRead[1] \in Moving

(* Nobody learns of an operation of another session, not even in a batch   *)
(* with own ones.                                                          *)
OnlyOwn ==
  askAt = "answered" /\ reply.status \in {"ok", "error", "interrupted", "confirm", "accepted"} =>
    ToSet(ask.targets) \subseteq OwnOps

(* A batch that is accepted has only tools that can be steps, with the     *)
(* fields they need, and what writes or reaches outside is exclusive.      *)
BatchCanRun ==
  batch.verdict = "accepted" =>
    \A i \in DOMAIN batch.items :
      LET item == batch.items[i].of
      IN /\ item.tool \in item.registered \ Nested
         /\ item.required \subseteq item.fields \cup {"remote_session_id", "purpose"}
         /\ ~batch.items[i].exclusive => item.readOnly /\ ~item.openWorld

(* The concurrency shown is the most steps at one instant, ends included,  *)
(* and at least half, or 95 in 100, of the steps took no longer than the   *)
(* percentile says (operationStats).                                       *)
StatsAreOfTheSteps ==
  LET instants == UNION {timing[i].from..Ended(timing[i]) : i \in DOMAIN timing}
      at(n) == Cardinality({i \in DOMAIN timing : timing[i].from <= n /\ n <= Ended(timing[i])})
      within(ms) == Cardinality({i \in DOMAIN timing : Ended(timing[i]) - timing[i].from <= ms})
  IN /\ MaxConcurrency(timing) = Max({0} \cup {at(n) : n \in instants})
     /\ \A p \in {50, 95} : within(Percentile(Durations(timing), p)) * 100 >= p * Len(timing)

OperationToolsHolds == FinalIsFinal /\ WaitGivesTheEnd /\ OnlyOwn /\ BatchCanRun /\ StatsAreOfTheSteps

(* Not so: the concurrency shown was real.  Steps that ran one after the   *)
(* other, without a millisecond between them, count as two at once.        *)
ConcurrencyIsReal ==
  LET at(n) == Cardinality({i \in DOMAIN timing : timing[i].from <= n /\ n < timing[i].to})
  IN MaxConcurrency(timing) <= Max({1} \cup {at(n) : n \in UNION {timing[i].from..timing[i].to : i \in DOMAIN timing}})

(* Not so: the states of a batch were all true at one moment.  Each is     *)
(* read by itself.                                                         *)
BatchIsOneMoment ==
  [][askAt = "check" /\ askAt' = "answered" /\ IsBatch /\ askRead' = askRead =>
       Len(askRead) < Len(ask.targets) \/ \A i \in DOMAIN askRead : askRead[i] = life[ask.targets[i]]]_operationToolVars

==============================================================================
