-------------------------------- MODULE Calls --------------------------------
(***************************************************************************)
(* A call of a tool at the server's edge (instrumentTool in                *)
(* observability.go), with what every call passes: the activity the agent  *)
(* reports with it, the events an observer gets, the asynchronous mode and *)
(* the step of an operation that runs the tool again, panics, the wrapping *)
(* of results and the heartbeat of a long call.                            *)
(***************************************************************************)
EXTENDS Integers, Sequences, SequencesExt, FiniteSets

CONSTANTS
  ToolCalls,     \* calls of one remote session
  CallPlans,     \* what the calls ask: functions from ToolCalls to plans
  LastRequest,   \* request ids are 1..LastRequest
  LastMs,        \* bound: the clock shows 1..LastMs milliseconds
  MaxBeats       \* bound: progress messages of a call

(* A plan: how many activity updates the call carries, whether one is its  *)
(* intent, whether one is too long, the mode, whether it asks for progress,*)
(* its request id and what the tool answers.                               *)
ToolAnswers == {"fine", "error", "confirm", "panic", "none", "upstream_error", "upstream_failed", "unrenderable"}

NoHolder == "nobody"

ASSUME CallsAssumption ==
  /\ NoHolder \notin ToolCalls /\ {LastRequest, LastMs} \subseteq Nat \ {0} /\ MaxBeats \in Nat
  /\ \A plans \in CallPlans : \A c \in ToolCalls :
       LET p == plans[c]
       IN p.updates \in Nat /\ p.request \in 1..LastRequest /\ p.answer \in ToolAnswers /\ p.mode \in {"sync", "async"}

VARIABLES
  planOf,       \* call -> its plan
  callStep,     \* call -> how far it is
  receivedMs,   \* call -> when it was received
  toAnnounce,   \* call -> activity updates committed and not published yet
  callResult,   \* call -> what it answers, and the activity it names
  activityMu,   \* the call that holds it, or NoHolder
  turns,        \* request id a turn is named after -> its row of agent_activity_turns
  recorderQueue,\* call -> its events waiting for the asynchronous recorder
  callSeen,         \* call -> its events published
  activities,   \* activities published, with their call
  stepState,    \* call -> state of the step that runs it as an operation, "none" if there is none
  beat,         \* call -> its heartbeat: "off", "waiting", "sending", "gone"
  beats,        \* call -> progress messages sent
  beatAfter,    \* a message was sent for a call that had answered
  clockMs

callsVars == <<planOf, callStep, receivedMs, toAnnounce, callResult, activityMu, turns, recorderQueue, callSeen, activities,
               stepState, beat, beats, beatAfter, clockMs>>

NoTurn == [turn |-> 0, sequence |-> 0]
NoResult == [isError |-> FALSE, status |-> "", transparent |-> FALSE, activity |-> NoTurn]

ActivityOf == [turn : Nat, sequence : Nat]
ResultOf ==
  [isError : BOOLEAN, status : {"", "accepted", "succeeded", "failed", "waiting_confirmation"}, transparent : BOOLEAN,
   activity : ActivityOf]

CallsTypeOK ==
  /\ planOf \in CallPlans
  /\ callStep \in [ToolCalls -> {"out", "received", "announcing", "observed", "running", "refused", "returned",
                                 "wrapped", "stopping", "answered"}]
  /\ receivedMs \in [ToolCalls -> 0..LastMs]
  /\ activityMu \in ToolCalls \cup {NoHolder}
  /\ toAnnounce \in [ToolCalls -> Seq(ActivityOf)] /\ activities \in Seq([call : ToolCalls, of : ActivityOf])
  /\ turns \in [1..LastRequest -> [sequence : Nat, seen : Nat]] /\ callResult \in [ToolCalls -> ResultOf]
  /\ stepState \in [ToolCalls -> {"none", "queued", "running", "succeeded", "failed", "waiting"}]
  /\ beat \in [ToolCalls -> {"off", "waiting", "sending", "gone"}]
  /\ beats \in [ToolCalls -> 0..MaxBeats] /\ beatAfter \in BOOLEAN /\ clockMs \in 1..LastMs

CallsInit ==
  /\ planOf \in CallPlans
  /\ callStep = [c \in ToolCalls |-> "out"] /\ receivedMs = [c \in ToolCalls |-> 0]
  /\ toAnnounce = [c \in ToolCalls |-> <<>>] /\ callResult = [c \in ToolCalls |-> NoResult]
  /\ activityMu = NoHolder /\ turns = [t \in 1..LastRequest |-> [sequence |-> 0, seen |-> 0]]
  /\ recorderQueue = [c \in ToolCalls |-> <<>>] /\ callSeen = [c \in ToolCalls |-> <<>>] /\ activities = <<>>
  /\ stepState = [c \in ToolCalls |-> "none"]
  /\ beat = [c \in ToolCalls |-> "off"] /\ beats = [c \in ToolCalls |-> 0] /\ beatAfter = FALSE
  /\ clockMs = 1

CallMoves(c, from, to) == callStep[c] = from /\ callStep' = [callStep EXCEPT ![c] = to]

(***************************************************************************)
(* The activity an agent reports with a call.                              *)
(***************************************************************************)
\* loadLatestAgentActivityState: ORDER BY seen_at DESC, turn_id DESC.
LatestTurn ==
  LET known == {t \in DOMAIN turns : turns[t].sequence > 0}
      later(t, u) == turns[t].seen > turns[u].seen \/ (turns[t].seen = turns[u].seen /\ t >= u)
  IN IF known = {} THEN 0 ELSE CHOOSE t \in known : \A u \in known : later(t, u)

CurrentActivity == IF LatestTurn = 0 THEN NoTurn ELSE [turn |-> LatestTurn, sequence |-> turns[LatestTurn].sequence]

SeenAsReceived(c) == receivedMs[c]

\* A turn never seems older than the one before it, to the millisecond.
SeenAt(c) == IF LatestTurn # 0 /\ receivedMs[c] <= turns[LatestTurn].seen
             THEN turns[LatestTurn].seen + 1 ELSE receivedMs[c]

CallReceived(c) ==
  /\ CallMoves(c, "out", "received")
  /\ receivedMs' = [receivedMs EXCEPT ![c] = clockMs]
  /\ beat' = [beat EXCEPT ![c] = IF planOf[c].progress THEN "waiting" ELSE "off"]
  /\ UNCHANGED <<planOf, toAnnounce, callResult, activityMu, turns, recorderQueue, callSeen, activities, stepState, beats, beatAfter, clockMs>>

\* An update that is too long refuses the call before anything runs; a call
\* without updates goes on.
NoActivity(c) ==
  /\ planOf[c].updates = 0 \/ planOf[c].oversize
  /\ CallMoves(c, "received", IF planOf[c].oversize THEN "refused" ELSE "observed")
  /\ UNCHANGED <<planOf, receivedMs, toAnnounce, callResult, activityMu, turns, recorderQueue, callSeen, activities, stepState, beat, beats, beatAfter, clockMs>>

\* acceptEmbeddedAgentActivities: the updates go on in the turn, or an intent
\* begins one; all are committed, then published under the same lock.
AcceptActivity(c) ==
  /\ planOf[c].updates > 0 /\ ~planOf[c].oversize /\ activityMu = NoHolder
  /\ CallMoves(c, "received", "announcing")
  /\ LET goesOn == ~planOf[c].intent /\ LatestTurn # 0
         turn == IF goesOn THEN LatestTurn ELSE planOf[c].request
         first == IF goesOn THEN turns[turn].sequence ELSE 0
     IN /\ turns' = [turns EXCEPT ![turn] = [sequence |-> first + planOf[c].updates, seen |-> SeenAt(c)]]
        /\ toAnnounce' = [toAnnounce EXCEPT ![c] = [i \in 1..planOf[c].updates |-> [turn |-> turn, sequence |-> first + i]]]
  /\ activityMu' = c
  /\ UNCHANGED <<planOf, receivedMs, callResult, recorderQueue, callSeen, activities, stepState, beat, beats, beatAfter, clockMs>>

AnnounceActivity(c) ==
  /\ callStep[c] = "announcing" /\ toAnnounce[c] # <<>>
  /\ activities' = Append(activities, [call |-> c, of |-> Head(toAnnounce[c])])
  /\ callSeen' = [callSeen EXCEPT ![c] = Append(@, "activity")]
  /\ toAnnounce' = [toAnnounce EXCEPT ![c] = Tail(@)]
  /\ IF Len(toAnnounce[c]) = 1
     THEN activityMu' = NoHolder /\ CallMoves(c, "announcing", "observed")
     ELSE UNCHANGED <<activityMu, callStep>>
  /\ UNCHANGED <<planOf, receivedMs, callResult, turns, recorderQueue, stepState, beat, beats, beatAfter, clockMs>>

(***************************************************************************)
(* The tool.                                                               *)
(***************************************************************************)
\* RecordToolStarted, and an asynchronous call submits an operation instead of
\* running the tool: its only step will.
CallStarts(c) ==
  /\ CallMoves(c, "observed", IF planOf[c].mode = "async" THEN "returned" ELSE "running")
  /\ recorderQueue' = [recorderQueue EXCEPT ![c] = Append(@, "started")]
  /\ IF planOf[c].mode = "async"
     THEN /\ stepState' = [stepState EXCEPT ![c] = "queued"]
          /\ callResult' = [callResult EXCEPT ![c] = [NoResult EXCEPT !.status = "accepted"]]
     ELSE UNCHANGED <<stepState, callResult>>
  /\ UNCHANGED <<planOf, receivedMs, toAnnounce, activityMu, turns, callSeen, activities, beat, beats, beatAfter, clockMs>>

\* What the tool says; callToolSafely makes an error of a panic, and no result
\* with an error becomes one that says so.  Upstream results of mcp_tool pass as
\* they are.
ToolAnswer(answer) ==
  [NoResult EXCEPT
     !.isError = answer \in {"error", "panic", "none", "upstream_error"},
     !.status = CASE answer = "confirm" -> "waiting_confirmation" [] answer = "upstream_failed" -> "failed" [] OTHER -> "",
     !.transparent = answer \in {"upstream_error", "upstream_failed"}]

\* arc.WrapToolResult gives every other result a status.
Wrapped(result) ==
  IF result.transparent \/ result.status # "" THEN result
  ELSE [result EXCEPT !.status = IF result.isError THEN "failed" ELSE "succeeded"]

RefusedResult(c) == [NoResult EXCEPT !.isError = TRUE]

ToolReturns(c) ==
  /\ CallMoves(c, "running", "returned")
  /\ callResult' = [callResult EXCEPT ![c] = ToolAnswer(planOf[c].answer)]
  /\ UNCHANGED <<planOf, receivedMs, toAnnounce, activityMu, turns, recorderQueue, callSeen, activities, stepState, beat, beats, beatAfter, clockMs>>

\* The result is wrapped with the activity that is current now; a panic here
\* is caught further out, where nothing is recorded.
WrapResult(c) ==
  /\ callStep[c] \in {"returned", "refused"} /\ (activityMu = NoHolder \/ callResult[c].transparent)
  /\ IF callStep[c] = "returned" /\ planOf[c].answer = "unrenderable" /\ planOf[c].mode = "sync"
     THEN /\ callStep' = [callStep EXCEPT ![c] = "stopping"]
          /\ callResult' = [callResult EXCEPT ![c] = RefusedResult(c)]
     ELSE /\ callStep' = [callStep EXCEPT ![c] = "wrapped"]
          /\ LET result == IF callStep[c] = "refused" THEN RefusedResult(c) ELSE callResult[c]
             IN callResult' = [callResult EXCEPT ![c] = [Wrapped(result) EXCEPT
                                 !.activity = IF result.transparent THEN NoTurn ELSE CurrentActivity]]
  /\ UNCHANGED <<planOf, receivedMs, toAnnounce, activityMu, turns, recorderQueue, callSeen, activities, stepState, beat, beats, beatAfter, clockMs>>

\* RecordToolCompleted: an error is a failure, whatever its status says.
ObservedStatus(result) == IF result.isError THEN "failed" ELSE IF result.status = "" THEN "succeeded" ELSE result.status

Complete(c) ==
  /\ CallMoves(c, "wrapped", "stopping")
  /\ recorderQueue' = [recorderQueue EXCEPT ![c] = Append(@, ObservedStatus(callResult[c]))]
  /\ UNCHANGED <<planOf, receivedMs, toAnnounce, callResult, activityMu, turns, callSeen, activities, stepState, beat, beats, beatAfter, clockMs>>

AnswerWithoutWaiting(c) ==
  /\ CallMoves(c, "stopping", "answered")
  /\ UNCHANGED <<planOf, receivedMs, toAnnounce, callResult, activityMu, turns, recorderQueue, callSeen, activities, stepState, beat, beats, beatAfter, clockMs>>

\* The deferred stop cancels the heartbeat and waits for it, also after a panic.
AnswerCall(c) ==
  /\ beat[c] \in {"off", "gone"}
  /\ CallMoves(c, "stopping", "answered")
  /\ UNCHANGED <<planOf, receivedMs, toAnnounce, callResult, activityMu, turns, recorderQueue, callSeen, activities, stepState, beat, beats, beatAfter, clockMs>>

\* The asynchronous recorder publishes in the order of the queue, which is the
\* same for every call.
PublishNext(c) ==
  /\ recorderQueue[c] # <<>>
  /\ callSeen' = [callSeen EXCEPT ![c] = Append(@, Head(recorderQueue[c]))]
  /\ recorderQueue' = [recorderQueue EXCEPT ![c] = Tail(@)]
  /\ UNCHANGED <<planOf, callStep, receivedMs, toAnnounce, callResult, activityMu, turns, activities, stepState, beat, beats, beatAfter, clockMs>>

(***************************************************************************)
(* The step of an operation: the same handler, as a child of the operation.*)
(***************************************************************************)
StepRunStarts(c) ==
  /\ stepState[c] = "queued"
  /\ stepState' = [stepState EXCEPT ![c] = "running"]
  /\ callSeen' = [callSeen EXCEPT ![c] = Append(@, "operation")]
  /\ UNCHANGED <<planOf, callStep, receivedMs, toAnnounce, callResult, activityMu, turns, recorderQueue, activities, beat, beats, beatAfter, clockMs>>

\* operationResult: no result is a failure, otherwise its status decides.
StepOutcome(answer) ==
  LET result == IF answer = "unrenderable" THEN [NoResult EXCEPT !.isError = TRUE] ELSE Wrapped(ToolAnswer(answer))
  IN IF answer = "none" THEN "failed"
     ELSE IF result.status = "waiting_confirmation" THEN "waiting"
     ELSE IF result.status = "failed" THEN "failed" ELSE "succeeded"

\* executeOperationStep overrides the mode, and a child records no activity and
\* no events of its own.
StepRunEnds(c) ==
  /\ stepState[c] = "running" /\ activityMu = NoHolder
  /\ stepState' = [stepState EXCEPT ![c] = StepOutcome(planOf[c].answer)]
  /\ callSeen' = [callSeen EXCEPT ![c] = Append(@, "operation_ended")]
  /\ UNCHANGED <<planOf, callStep, receivedMs, toAnnounce, callResult, activityMu, turns, recorderQueue, activities, beat, beats, beatAfter, clockMs>>

(***************************************************************************)
(* The heartbeat: a goroutine of the call.                                 *)
(***************************************************************************)
Cancelled(c) == callStep[c] \in {"stopping", "answered"}

\* The timer fires, also when the call is being stopped at the same time.
Beat(c) ==
  /\ beat[c] = "waiting" /\ beats[c] < MaxBeats
  /\ beat' = [beat EXCEPT ![c] = "sending"]
  /\ UNCHANGED <<planOf, callStep, receivedMs, toAnnounce, callResult, activityMu, turns, recorderQueue, callSeen, activities, stepState, beats, beatAfter, clockMs>>

\* The message goes out, or its context is done.
BeatSent(c) ==
  /\ beat[c] = "sending"
  /\ beat' = [beat EXCEPT ![c] = "waiting"]
  /\ \/ /\ beats' = [beats EXCEPT ![c] = @ + 1]
        /\ beatAfter' = (beatAfter \/ callStep[c] = "answered")
     \/ Cancelled(c) /\ UNCHANGED <<beats, beatAfter>>
  /\ UNCHANGED <<planOf, callStep, receivedMs, toAnnounce, callResult, activityMu, turns, recorderQueue, callSeen, activities, stepState, clockMs>>

BeatEnds(c) ==
  /\ beat[c] = "waiting" /\ Cancelled(c)
  /\ beat' = [beat EXCEPT ![c] = "gone"]
  /\ UNCHANGED <<planOf, callStep, receivedMs, toAnnounce, callResult, activityMu, turns, recorderQueue, callSeen, activities, stepState, beats, beatAfter, clockMs>>

\* The clock goes on, or is set back.
ClockMoves ==
  /\ \E ms \in 1..LastMs : ms # clockMs /\ ms <= clockMs + 1 /\ clockMs' = ms
  /\ UNCHANGED <<planOf, callStep, receivedMs, toAnnounce, callResult, activityMu, turns, recorderQueue, callSeen, activities, stepState, beat, beats, beatAfter>>

CallsNext ==
  \/ \E c \in ToolCalls :
       \/ CallReceived(c) \/ NoActivity(c) \/ AcceptActivity(c) \/ AnnounceActivity(c) \/ CallStarts(c)
       \/ ToolReturns(c) \/ WrapResult(c) \/ Complete(c) \/ AnswerCall(c)
       \/ StepRunStarts(c) \/ StepRunEnds(c) \/ Beat(c) \/ BeatSent(c) \/ BeatEnds(c) \/ PublishNext(c)
  \/ ClockMoves

CallsSpec == CallsInit /\ [][CallsNext]_callsVars

(***************************************************************************)
(* What a call promises.                                                   *)
(***************************************************************************)
ToolEnds == {"succeeded", "accepted", "failed", "waiting_confirmation"}
CallTold(c) == LET own(e) == e \in {"activity", "started"} \cup ToolEnds IN SelectSeq(callSeen[c] \o recorderQueue[c], own)

(* An observer sees what the agent said with a call, then that the call    *)
(* began, then how it ended, each once, whether the tool answered, failed, *)
(* panicked or runs as an operation later, whose step adds nothing (the    *)
(* order kept in instrumentTool: "preserving semantic -> tool ordering in  *)
(* the observer stream").                                                  *)
StreamTellsTheCall ==
  \A c \in ToolCalls :
    LET said == [i \in 1..(IF planOf[c].oversize THEN 0 ELSE planOf[c].updates) |-> "activity"]
        begun == IF planOf[c].oversize THEN said ELSE Append(said, "started")
        whole == {Append(begun, end) : end \in ToolEnds}
    IN /\ \E w \in whole : IsPrefix(CallTold(c), w)
       /\ callStep[c] = "answered" /\ ~(planOf[c].answer = "unrenderable" /\ planOf[c].mode = "sync") => CallTold(c) \in whole

(* The activities of the session are published in the order they were      *)
(* accepted: each goes on where the one before it stopped or begins a      *)
(* turn, whatever the clock shows (acceptEmbeddedAgentActivities).         *)
DistinctRequests == \A c, d \in ToolCalls : planOf[c].request = planOf[d].request => c = d
TurnsInOrder ==
  DistinctRequests =>
    \A i \in DOMAIN activities :
      \/ activities[i].of.sequence = 1 /\ \A j \in 1..(i - 1) : activities[j].of.turn # activities[i].of.turn
      \/ i > 1 /\ activities[i].of = [activities[i - 1].of EXCEPT !.sequence = @ + 1]

(* The activity an answer names is the call's own last one or one accepted *)
(* after it, never one from before the call (currentAgentActivity).        *)
AnswerKnowsItsActivity ==
  DistinctRequests =>
    \A c \in ToolCalls :
      LET own == {i \in DOMAIN activities : activities[i].call = c}
          named == {i \in DOMAIN activities : activities[i].of = callResult[c].activity}
      IN callStep[c] \in {"wrapped", "stopping", "answered"} /\ own # {}
         /\ ~callResult[c].transparent /\ ~(planOf[c].answer = "unrenderable") =>
           \E i \in named : \A j \in own : j <= i

(* No progress is sent for a call that has answered, not even by a timer   *)
(* that fires while the call ends (the deferred stopProgressHeartbeat).    *)
SilentAfterAnswer == ~beatAfter

(* A step counts as succeeded only if its tool neither failed, panicked nor*)
(* waits, its results wrapped as a caller's (operationResult); the step    *)
(* runs the tool and never submits an operation in turn.                   *)
StepIsItsTool ==
  \A c \in ToolCalls :
    /\ stepState[c] = "succeeded" =>
         planOf[c].answer = "fine" \/ planOf[c].answer \in {"upstream_error", "unrenderable"}
    /\ stepState[c] # "none" => planOf[c].mode = "async" /\ ~planOf[c].oversize

CallsHolds == StreamTellsTheCall /\ TurnsInOrder /\ AnswerKnowsItsActivity /\ SilentAfterAnswer /\ StepIsItsTool

(* Not so: a step succeeds only if its tool did.  An upstream error of     *)
(* mcp_tool is passed on without a status and only the status is asked;    *)
(* the event of a synchronous call says failed for the same result.        *)
ErrorIsFailure == \A c \in ToolCalls : stepState[c] = "succeeded" => planOf[c].answer = "fine"

(* Not so: a turn has one call that began it.  Its name is made of the     *)
(* request id, which the client may give, and give twice: the turn then    *)
(* starts again at its first sequence number.                              *)
TurnsNeverRestart ==
  \A i, j \in DOMAIN activities : i < j => activities[i].of # activities[j].of

(* Not so: what ends has begun.  A call refused for its activity is        *)
(* completed and was never started; a call whose result cannot be rendered *)
(* is started and never completed.                                         *)
EndsWhatBegan ==
  \A c \in ToolCalls : callStep[c] = "answered" =>
    ("started" \in ToSet(CallTold(c)) <=> ToSet(CallTold(c)) \cap ToolEnds # {})

(* Not so: an operation is seen after the call that submitted it.  Its     *)
(* events are written at once, the call's wait for the recorder.           *)
OperationAfterItsCall ==
  \A c \in ToolCalls : callSeen[c] # <<>> => callSeen[c][1] # "operation"

==============================================================================
