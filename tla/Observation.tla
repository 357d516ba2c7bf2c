----------------------------- MODULE Observation -----------------------------
(***************************************************************************)
(* The observation pipeline of one workspace: the recorder's queue         *)
(* (observation/async.go), the one writer that appends an event and then   *)
(* publishes it (observationBridge.Record), the broker's bounded buffer,   *)
(* the connection of a local observer (socket.go) and its client, which    *)
(* reconnects after the last event it has (client.go); and a reader that   *)
(* pages through the stored history (history.go).                          *)
(*                                                                         *)
(* An event is its sequence number in the table.  What a reader cannot     *)
(* tell from a lost event, a full queue or a failing append, loses it      *)
(* before it has a number.                                                 *)
(***************************************************************************)
EXTENDS Integers, Sequences, FiniteSets, FiniteSetsExt

CONSTANTS
  QueueCap,      \* events in the recorder's queue: 256
  BufferCap,     \* events in a subscription's buffer: 128
  HistoryCap,    \* events a (re)connecting observer is sent: 100
  PageCap,       \* events of a history page
  MaxEvents,     \* bound: stored events
  MaxCuts        \* bound: broken connections, restarts, failing statements

ASSUME ObservationConstants ==
  /\ {QueueCap, MaxEvents, MaxCuts} \subseteq Nat
  /\ {BufferCap, HistoryCap, PageCap} \subseteq Nat \ {0}

VARIABLES
  queue,      \* events that wait in AsyncRecorder.ch
  recorder,   \* its worker: idle, or holding an event; or closed to new events
  events,     \* observation_events: 1..events
  unpublished,\* the last one is stored and not published yet (recordMu is held)
  conn,       \* the server's side of the connection: label, lastSequence
  buffer,     \* the subscription's channel of events
  gap,        \* its channel of one gap: the event that was dropped, or 0
  wire,       \* frames under way
  client,     \* the observer: label, lastSequence
  lastSeen,       \* events the observer was given
  excused,    \* events that did not fit in the buffer or in a history window
  pager,      \* a reader of history: label, cursor, first event it could see
  paged,      \* the events it was given
  cuts

obsWriter == <<queue, recorder, events, unpublished>>
obsStream == <<conn, buffer, gap>>
obsReader == <<pager, paged>>
obsVars == <<obsWriter, obsStream, wire, client, lastSeen, excused, obsReader, cuts>>

Frames == [type : {"event", "gap", "eof", "error"}, seq : 0..MaxEvents]
Frame(type, e) == [type |-> type, seq |-> e]
NoConn == [at |-> "none", last |-> 0]

ObsTypeOK ==
  /\ queue \in 0..QueueCap
  /\ recorder \in [holds : BOOLEAN, open : BOOLEAN]
  /\ events \in 0..MaxEvents /\ unpublished \in BOOLEAN
  /\ conn \in [at : {"none", "subscribed", "live"}, last : 0..MaxEvents]
  /\ buffer \in Seq(1..MaxEvents) /\ Len(buffer) <= BufferCap
  /\ gap \in 0..MaxEvents /\ wire \in Seq(Frames)
  /\ client \in [at : {"dialing", "connected", "failed"}, last : 0..MaxEvents]
  /\ lastSeen \subseteq 1..MaxEvents /\ excused \subseteq 1..MaxEvents
  /\ pager \in [at : {"idle", "paging", "done"}, cursor : 0..MaxEvents, top : 0..MaxEvents]
  /\ paged \subseteq 1..MaxEvents /\ cuts \in 0..MaxCuts

ObsInit ==
  /\ queue = 0 /\ recorder = [holds |-> FALSE, open |-> TRUE]
  /\ events = 0 /\ unpublished = FALSE
  /\ conn = NoConn /\ buffer = <<>> /\ gap = 0 /\ wire = <<>>
  /\ client = [at |-> "dialing", last |-> 0] /\ lastSeen = {} /\ excused = {}
  /\ pager = [at |-> "idle", cursor |-> 0, top |-> 0] /\ paged = {}
  /\ cuts = 0

-----------------------------------------------------------------------------
\* Helpers

Cut == cuts < MaxCuts /\ cuts' = cuts + 1

\* The k smallest and the k greatest of a set of events.
Oldest(S, k) == {e \in S : Cardinality({f \in S : f < e}) < k}
Newest(S, k) == {e \in S : Cardinality({f \in S : f > e}) < k}

\* Store.History: the newest events for a new observer, or the next ones after
\* the last event of one that reconnects.
Window(after) == IF after > 0 THEN Oldest(after + 1 .. events, HistoryCap)
                              ELSE Newest(1..events, HistoryCap)

\* Frames of a set of events, in order.
EventFrames(S) ==
  [i \in 1..Cardinality(S) |->
     Frame("event", CHOOSE e \in S : Cardinality({f \in S : f < e}) = i - 1)]

\* The server ends the connection after the frames `sent`.
EndWith(sent) == wire' = Append(sent, Frame("eof", 0)) /\ conn' = NoConn

-----------------------------------------------------------------------------
\* The recorder and the bridge

\* Bug: the queue takes any number of events.
EnqueueAlways ==
  /\ recorder.open
  /\ queue' = queue + 1
  /\ UNCHANGED <<recorder, events, unpublished, obsStream, wire, client, lastSeen, excused, obsReader, cuts>>

\* AsyncRecorder.Enqueue; a full or closed queue drops the event.
Enqueue ==
  /\ recorder.open /\ queue < QueueCap
  /\ queue' = queue + 1
  /\ UNCHANGED <<recorder, events, unpublished, obsStream, wire, client, lastSeen, excused, obsReader, cuts>>

TakeQueued ==
  /\ queue > 0 /\ ~recorder.holds
  /\ queue' = queue - 1 /\ recorder' = [recorder EXCEPT !.holds = TRUE]
  /\ UNCHANGED <<events, unpublished, obsStream, wire, client, lastSeen, excused, obsReader, cuts>>

\* Record, first half: the worker, or a producer that records by itself
\* (operation and session events), appends the event.
Store ==
  /\ ~unpublished /\ events < MaxEvents
  /\ events' = events + 1 /\ unpublished' = TRUE

RecordQueued ==
  /\ recorder.holds
  /\ recorder' = [recorder EXCEPT !.holds = FALSE]
  /\ \/ Store /\ UNCHANGED cuts
     \/ Cut /\ ~unpublished /\ UNCHANGED <<events, unpublished>>
  /\ UNCHANGED <<queue, obsStream, wire, client, lastSeen, excused, obsReader>>

RecordDirect ==
  /\ Store
  /\ UNCHANGED <<queue, recorder, obsStream, wire, client, lastSeen, excused, obsReader, cuts>>

\* Bug: the oldest buffered event makes room and no gap is left.
PublishRing ==
  /\ unpublished /\ unpublished' = FALSE
  /\ IF conn.at = "none" THEN UNCHANGED buffer
     ELSE buffer' = Append(IF Len(buffer) < BufferCap THEN buffer ELSE Tail(buffer), events)
  /\ UNCHANGED <<queue, recorder, events, conn, gap, wire, client, lastSeen, excused, obsReader, cuts>>

\* Record, second half: Broker.Publish.  A full buffer leaves a gap instead.
Publish ==
  /\ unpublished /\ unpublished' = FALSE
  /\ \/ conn.at = "none" /\ UNCHANGED <<buffer, gap, excused>>
     \/ /\ conn.at # "none" /\ Len(buffer) < BufferCap
        /\ buffer' = Append(buffer, events) /\ UNCHANGED <<gap, excused>>
     \/ /\ conn.at # "none" /\ Len(buffer) = BufferCap
        /\ gap' = events /\ excused' = excused \cup {events} /\ UNCHANGED buffer
  /\ UNCHANGED <<queue, recorder, events, conn, wire, client, lastSeen, obsReader, cuts>>

\* AsyncRecorder.Close: what is queued is still recorded.
CloseRecorder ==
  /\ recorder.open
  /\ recorder' = [recorder EXCEPT !.open = FALSE]
  /\ UNCHANGED <<queue, events, unpublished, obsStream, wire, client, lastSeen, excused, obsReader, cuts>>

-----------------------------------------------------------------------------
\* The connection

\* The client dials and asks for what comes after its last event; the server
\* subscribes.
Connect ==
  /\ client.at = "dialing" /\ conn.at = "none" /\ recorder.open
  /\ client' = [client EXCEPT !.at = "connected"]
  /\ conn' = [at |-> "subscribed", last |-> client.last]
  /\ buffer' = <<>> /\ gap' = 0 /\ wire' = <<>>
  /\ UNCHANGED <<obsWriter, lastSeen, excused, obsReader, cuts>>

\* The history after the last event is read and sent.
SendHistory ==
  LET window == Window(conn.last) IN
  /\ conn.at = "subscribed"
  /\ wire' = wire \o EventFrames(window)
  /\ conn' = [at |-> "live", last |-> Max(window \cup {conn.last})]
  /\ excused' = excused \cup ((conn.last + 1 .. events) \ window)
  /\ UNCHANGED <<obsWriter, buffer, gap, client, lastSeen, obsReader, cuts>>

\* The history cannot be read: an error the client gives up on.
HistoryFails ==
  /\ conn.at = "subscribed" /\ Cut
  /\ EndWith(Append(wire, Frame("error", 0)))
  /\ UNCHANGED <<obsWriter, buffer, gap, client, lastSeen, excused, obsReader>>

\* An event of the buffer, unless the history had it.
SendEvent ==
  /\ conn.at = "live" /\ buffer # <<>>
  /\ buffer' = Tail(buffer)
  /\ IF Head(buffer) <= conn.last THEN UNCHANGED <<conn, wire>>
     ELSE /\ wire' = Append(wire, Frame("event", Head(buffer)))
          /\ conn' = [conn EXCEPT !.last = Head(buffer)]
  /\ UNCHANGED <<obsWriter, gap, client, lastSeen, excused, obsReader, cuts>>

\* A gap ends the connection, unless a later event has been sent already.
SendGap ==
  /\ conn.at = "live" /\ gap # 0
  /\ gap' = 0
  /\ \/ gap <= conn.last /\ UNCHANGED <<conn, wire>>
     \/ gap > conn.last /\ EndWith(Append(wire, Frame("gap", gap)))
  /\ UNCHANGED <<obsWriter, buffer, client, lastSeen, excused, obsReader, cuts>>

\* The connection breaks: the client may still read some of the frames.
Break ==
  /\ conn.at # "none" /\ Cut
  /\ \E k \in 0..Len(wire) : EndWith(SubSeq(wire, 1, k))
  /\ UNCHANGED <<obsWriter, buffer, gap, client, lastSeen, excused, obsReader>>

\* The process ends, orderly or not, and starts again.
ObsRestart ==
  /\ Cut
  /\ queue' = 0 /\ recorder' = [holds |-> FALSE, open |-> TRUE] /\ unpublished' = FALSE
  /\ conn' = NoConn /\ buffer' = <<>> /\ gap' = 0
  /\ IF conn.at = "none" THEN UNCHANGED wire
     ELSE \E k \in 0..Len(wire) : wire' = Append(SubSeq(wire, 1, k), Frame("eof", 0))
  /\ UNCHANGED <<events, client, lastSeen, excused, obsReader>>

-----------------------------------------------------------------------------
\* The client

\* Bug: the client goes on waiting when the stream has ended.
ReadFrameForever ==
  LET frame == Head(wire) IN
  /\ client.at = "connected" /\ wire # <<>>
  /\ wire' = Tail(wire)
  /\ IF frame.type = "event" /\ frame.seq > client.last
     THEN client' = [client EXCEPT !.last = frame.seq] /\ lastSeen' = lastSeen \cup {frame.seq}
     ELSE UNCHANGED <<client, lastSeen>>
  /\ UNCHANGED <<obsWriter, obsStream, excused, obsReader, cuts>>

\* Client.readConnection.
ReadFrame ==
  LET frame == Head(wire) IN
  /\ client.at = "connected" /\ wire # <<>>
  /\ wire' = Tail(wire)
  /\ \/ /\ frame.type = "event" /\ frame.seq > client.last
        /\ client' = [client EXCEPT !.last = frame.seq]
        /\ lastSeen' = lastSeen \cup {frame.seq}
     \/ frame.type = "event" /\ frame.seq <= client.last /\ UNCHANGED <<client, lastSeen>>
     \/ frame.type \in {"gap", "eof"} /\ client' = [client EXCEPT !.at = "dialing"] /\ UNCHANGED lastSeen
     \/ frame.type = "error" /\ client' = [client EXCEPT !.at = "failed"] /\ UNCHANGED lastSeen
  /\ UNCHANGED <<obsWriter, obsStream, excused, obsReader, cuts>>

-----------------------------------------------------------------------------
\* Pages of history

\* Store.Query: the newest events before the cursor; a full page has a next one.
ReadPage ==
  LET reachable == IF pager.at = "paging" THEN 1 .. pager.cursor - 1 ELSE 1..events
      page == Newest(reachable, PageCap)
  IN
  /\ pager.at \in {"idle", "paging"}
  /\ paged' = paged \cup page
  /\ pager' = [at |-> IF Cardinality(page) = PageCap THEN "paging" ELSE "done",
               cursor |-> IF page = {} THEN 0 ELSE Min(page),
               top |-> IF pager.at = "idle" THEN events ELSE pager.top]
  /\ UNCHANGED <<obsWriter, obsStream, wire, client, lastSeen, excused, cuts>>

-----------------------------------------------------------------------------
ObsServing == TakeQueued \/ RecordQueued \/ Publish \/ SendHistory
ObsNext ==
  \/ Enqueue \/ RecordDirect \/ CloseRecorder \/ ObsServing
  \/ Connect \/ HistoryFails \/ SendEvent \/ SendGap \/ Break \/ ObsRestart
  \/ ReadFrame \/ ReadPage

\* The goroutines of the server and the client run.  SendEvent and SendGap are
\* the ready cases of one select, which picks each of them in the end.
ObsFairness ==
  /\ WF_obsVars(ObsServing) /\ WF_obsVars(Connect) /\ WF_obsVars(ReadFrame)
  /\ WF_obsVars(SendEvent) /\ WF_obsVars(SendGap)

ObsSpec == ObsInit /\ [][ObsNext]_obsVars
ObsFairSpec == ObsSpec /\ ObsFairness

-----------------------------------------------------------------------------
\* Properties

\* Up to the last event an observer has, it was given every one, in spite of
\* reconnections, restarts and of events published while the history is read,
\* but for those that the bounds of buffer and history window have cut.
LossExplained == \A e \in 1..client.last : e \in lastSeen \cup excused

\* Nothing is shown that is not stored, for the observer to find it again.
ObservedIsStored == lastSeen \subseteq 1..events /\ \A i \in 1..Len(buffer) : buffer[i] <= events

\* The pages of history are what was stored when the first was read, each event
\* once, however many are stored meanwhile.
PagesComplete ==
  /\ pager.at = "done" => paged = 1..pager.top
  /\ pager.at = "paging" => paged = pager.cursor .. pager.top

ObserverServed == LossExplained /\ ObservedIsStored /\ PagesComplete

\* "A live observer can recover every event from SQLite after a disconnect or
\* buffer overflow" (observationBridge): with a history window that holds all
\* events there are, none is skipped.
NothingLost == \A e \in 1..client.last : e \in lastSeen

\* The observer gets what is stored, or something later: a gap at the end of the
\* stream makes it reconnect, and what is cut off is cut by the window.
CatchesUp ==
  \A e \in 1..MaxEvents :
    events >= e ~> (client.last >= e \/ e \in excused \/ client.at = "failed" \/ ~recorder.open)
=============================================================================
