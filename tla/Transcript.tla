------------------------------ MODULE Transcript -------------------------------
(***************************************************************************)
(* What "mcpx observe" prints: internal/observation/timeline.go            *)
(* (TextRenderer) behind cmd/mcpx-server/workspace.go                      *)
(* (renderWorkspaceFrame).  The events of several calls arrive interleaved *)
(* and become one transcript of rows; the rows of a call are kept together *)
(* in a span (an interactionBlock) that is closed by a blank line before   *)
(* another span starts.  The renderer holds a start back until its first   *)
(* result, folds repeated reads and repeated progress, cuts long spans,    *)
(* and forgets what it was doing when the connection was interrupted.      *)
(*                                                                         *)
(* A row is what it stands for ("action", "text", ...) with the event it   *)
(* comes from and the number of terminal lines it is wrapped to; wording,  *)
(* colour and widths are left out.  A call and the key of its block        *)
(* (eventKey) are the same thing; events without a call share one key,     *)
(* which no property tells apart from one key each.                        *)
(***************************************************************************)
EXTENDS Naturals, Sequences, FiniteSets, SequencesExt

CONSTANTS
  Scripts,      \* for every call, the sequences of events it may produce
  MaxBody,      \* maxInteractionBodyLines
  MaxGaps       \* bound: interruptions of the connection

VARIABLES
  script,       \* the events of each call in the order they are recorded
  position,     \* how many of them the observer was sent
  renderer      \* the TextRenderer and what it has printed

transcriptVars == <<script, position, renderer>>

ObservedCalls == DOMAIN Scripts
NoCall == "none"
NoFingerprint == "none"
Streams == {"stdout", "stderr"}
RowKinds == {"purpose", "action", "header", "text", "facts"}
EventKinds == {"started", "output", "changed", "completed", "activity", "notice"}

\* The event a row comes from.
EventOf(id) == script[id[1]][id[2]]

----------------------------------------------------------------------------
(* The renderer. *)

NoBlock ==
  [span |-> 0, opened |-> FALSE, closed |-> TRUE, activity |-> FALSE, pending |-> <<>>, body |-> 0,
   ellipsis |-> FALSE, output |-> FALSE, changed |-> FALSE, context |-> FALSE,
   printed |-> [s \in Streams |-> 0], headed |-> {}]

FreshBlock(span) == [NoBlock EXCEPT !.span = span, !.closed = FALSE]

\* A new renderer, and what is left of one after the connection was
\* interrupted: ResetAfterGap forgets the open interaction, the folding and the
\* separator; the session last announced is kept.
Forgotten(r) ==
  [r EXCEPT !.blocks = [c \in ObservedCalls |-> NoBlock], !.active = NoCall, !.progress = NoFingerprint,
            !.read = NoFingerprint, !.repeats = 0, !.separator = FALSE]

NewRenderer ==
  Forgotten([blocks |-> <<>>, active |-> NoCall, progress |-> NoFingerprint, read |-> NoFingerprint,
             repeats |-> 0, separator |-> FALSE, session |-> NoCall, spans |-> 0, gaps |-> 0, transcript |-> <<>>])

Put(r, line) == [r EXCEPT !.transcript = Append(@, line)]

Blank == [is |-> "blank"]
SessionLine(s) == [is |-> "session", session |-> s]
GapLine == [is |-> "gap"]
\* A repeated read; a progress report that says what the last one said and
\* leaves no line (the entry stands for the silence).
RepeatLine(e, count) == [is |-> "repeat", event |-> e.id, read |-> e.read, count |-> count]
FoldedLine(e) == [is |-> "folded", event |-> e.id, progress |-> e.progress]
EllipsisLine(span) == [is |-> "ellipsis", span |-> span]

\* The rows of the body that a row contributes: all that it wraps to, or the
\* part that fits.
RowLine(span, row, parts) ==
  [is |-> "row", span |-> span, event |-> row.event, kind |-> row.kind, session |-> row.session, read |-> row.read,
   progress |-> row.progress, activity |-> row.activity, stream |-> row.stream, number |-> row.number, parts |-> parts]

IsOpen(r, call) == call # NoCall /\ ~r.blocks[call].closed

----------------------------------------------------------------------------
(* The rows of an event. *)

Row(e, kind, number, width) ==
  [event |-> e.id, kind |-> kind, session |-> e.session, read |-> e.read, progress |-> e.progress,
   activity |-> e.kind = "activity", stream |-> e.stream, number |-> number, width |-> width]

One(e, kind, if) == IF if THEN <<Row(e, kind, 0, 1)>> ELSE <<>>

\* The lines of text of an event, numbered from the line after "printed".
TextRows(e, printed) == [i \in DOMAIN e.text |-> Row(e, "text", printed + i, e.text[i])]

\* The command is announced by the first output of a block and the stream by
\* its first line there, however the streams alternate.
OutputRows(b, e) ==
  IF e.text = <<>> THEN <<>>
  ELSE One(e, "action", ~b.output) \o One(e, "header", e.stream \notin b.headed) \o TextRows(e, b.printed[e.stream])

\* The end of a call repeats neither its action nor its purpose when the block
\* has them, and its text only as a summary when the block showed output.
CompletedRows(b, e) ==
  One(e, "action", ~b.output /\ ~b.changed) \o One(e, "facts", e.facts) \o One(e, "purpose", e.purpose /\ ~b.context)
    \o (IF b.output THEN One(e, "facts", e.text # <<>>) ELSE [i \in DOMAIN e.text |-> Row(e, "facts", 0, e.text[i])])

\* The files that changed and, line by line, how.
ChangedRows(e) == One(e, "action", TRUE) \o [i \in DOMAIN e.text |-> Row(e, "facts", 0, e.text[i])]

StartedRows(e) == One(e, "purpose", e.purpose)

\* A note of the agent or of the server.
NoteRows(e) == One(e, "action", TRUE)

EventRows(b, e) ==
  CASE e.kind = "started"   -> StartedRows(e)
    [] e.kind = "output"    -> OutputRows(b, e)
    [] e.kind = "completed" -> CompletedRows(b, e)
    [] e.kind = "changed"   -> ChangedRows(e)
    [] OTHER                -> NoteRows(e)

----------------------------------------------------------------------------
(* Writing a span. *)

\* Nothing but the flag is left of a tool's span; a note of the agent is
\* separated from what follows when something else follows.
Close(r, call) ==
  IF ~IsOpen(r, call) THEN r
  ELSE LET ended == [r EXCEPT !.blocks[call].closed = TRUE, !.active = IF @ = call THEN NoCall ELSE @]
       IN IF r.blocks[call].activity THEN [ended EXCEPT !.separator = TRUE] ELSE Put(ended, Blank)

\* A block that opens leaves the one that was active open.
ActivateBeside(r, call, e) ==
  [r EXCEPT !.blocks[call].activity = e.kind = "activity", !.blocks[call].opened = TRUE, !.active = call]

\* A block that prints becomes the active one; the one that was is closed.
Activate(r, call, e) ==
  LET marked == [r EXCEPT !.blocks[call].activity = e.kind = "activity"]
      alone == IF r.active # call THEN Close(marked, r.active) ELSE marked
  IN [alone EXCEPT !.blocks[call].opened = TRUE, !.active = call]

Ellipsis(r, call) ==
  Put([r EXCEPT !.blocks[call].ellipsis = TRUE, !.blocks[call].body = IF @ < MaxBody THEN @ + 1 ELSE @],
      EllipsisLine(r.blocks[call].span))

\* A block that shows a change of files in full has no limit.  Otherwise a row
\* that does not fit leaves the last line of the body to the mark, and nothing
\* follows the mark.
WriteBodyLine(r, call, row) ==
  LET b == r.blocks[call]
      room == MaxBody - b.body
      Write(parts) == Put([r EXCEPT !.blocks[call].body = @ + parts], RowLine(b.span, row, parts))
  IN CASE b.changed \/ (~b.ellipsis /\ row.width <= room) -> Write(row.width)
       [] ~b.changed /\ b.ellipsis -> r
       [] ~b.changed /\ ~b.ellipsis /\ row.width > room /\ room <= 1 -> Ellipsis(r, call)
       [] OTHER -> Ellipsis(Write(room - 1), call)

WriteRows(r, call, rows) == FoldLeft(LAMBDA s, row : WriteBodyLine(s, call, row), r, rows)

----------------------------------------------------------------------------
(* RenderEvent, step by step. *)

\* A line names the session when it is not that of the line before.
WriteTranscriptContext(r, e) ==
  IF e.session = NoCall \/ e.session = r.session THEN r
  ELSE Put([r EXCEPT !.session = e.session], SessionLine(e.session))

\* An intent of the agent ends the interaction before it.
EndForIntent(r, e) == IF e.intent THEN Close(r, r.active) ELSE r

WriteSeparator(r, e) ==
  IF e.kind \in {"activity", "started"} \/ ~r.separator THEN r ELSE Put([r EXCEPT !.separator = FALSE], Blank)

RepeatsProgress(r, e) == e.kind = "completed" /\ e.progress # NoFingerprint /\ e.progress = r.progress

NoteProgress(r, e) ==
  IF e.kind = "completed" /\ e.progressTool THEN [r EXCEPT !.progress = e.progress]
  ELSE IF e.progressTool /\ e.kind = "started" THEN r
  ELSE [r EXCEPT !.progress = NoFingerprint]

RepeatsRead(r, e) == e.read # NoFingerprint /\ e.read = r.read

\* The read is compared with the last one even when something was between.
NoteReadOnly(r, e) ==
  CASE RepeatsRead(r, e) -> [r EXCEPT !.repeats = @ + 1]
    [] e.read # NoFingerprint /\ ~RepeatsRead(r, e) -> [r EXCEPT !.read = e.read, !.repeats = 1]
    [] OTHER -> r

\* Only a start leaves the last read as it was.
NoteRead(r, e) ==
  CASE RepeatsRead(r, e) -> [r EXCEPT !.repeats = @ + 1]
    [] e.read # NoFingerprint /\ ~RepeatsRead(r, e) -> [r EXCEPT !.read = e.read, !.repeats = 1]
    [] e.read = NoFingerprint /\ e.kind = "started" -> r
    [] OTHER -> [r EXCEPT !.read = NoFingerprint, !.repeats = 0]

\* Output belongs to the interaction that is open, whatever call it is of.
BlockKey(r, e) == IF e.kind = "output" /\ IsOpen(r, r.active) THEN r.active ELSE e.call

WithBlock(r, call) ==
  IF IsOpen(r, call) THEN r ELSE [r EXCEPT !.blocks[call] = FreshBlock(r.spans + 1), !.spans = @ + 1]

\* What the block remembers of an event whatever it prints.
Remember(r, call, e) ==
  [r EXCEPT !.blocks[call].output = @ \/ e.kind = "output",
            !.blocks[call].changed = @ \/ e.kind = "changed",
            !.blocks[call].headed = IF e.kind = "output" THEN @ \cup {e.stream} ELSE @]

\* The start is held back until there is something to print after it.
HoldBack(r, call, rows) == [r EXCEPT !.blocks[call].pending = rows, !.blocks[call].context = TRUE]

FlushPending(r, call, e) ==
  LET rows == r.blocks[call].pending
  IN IF rows = <<>> THEN r
     ELSE [WriteRows(Activate(r, call, e), call, rows) EXCEPT !.blocks[call].pending = <<>>]

PrintRows(r, call, e, rows) ==
  LET written == WriteRows(Activate(FlushPending(r, call, e), call, e), call, rows)
  IN IF e.kind = "output" THEN [written EXCEPT !.blocks[call].printed[e.stream] = @ + Len(e.text)]
     ELSE IF e.kind = "changed" THEN written
     ELSE Close(written, call)

RenderInBlock(r, e) ==
  LET call == BlockKey(r, e)
      before == WithBlock(r, call)
      rows == EventRows(before.blocks[call], e)
      noted == IF e.kind = "started" THEN before ELSE Remember(before, call, e)
  IN CASE rows = <<>> -> noted
       [] rows # <<>> /\ e.kind = "started" -> HoldBack(noted, call, rows)
       [] OTHER -> PrintRows(noted, call, e, rows)

\* What the observer asked not to see, and what only repeats the calls' own
\* events: the steps of operations, their starts and ends.
Unwanted(e) == ~e.matches
CompactNoise(e) == e.noise

RenderEvent(r, e) ==
  IF Unwanted(e) \/ CompactNoise(e) THEN r
  ELSE LET ready == WriteSeparator(EndForIntent(WriteTranscriptContext(r, e), e), e)
           noted == NoteRead(NoteProgress(ready, e), e)
       IN CASE RepeatsProgress(ready, e) -> Put(ready, FoldedLine(e))
            [] ~RepeatsProgress(ready, e) /\ RepeatsRead(ready, e) -> Put(noted, RepeatLine(e, noted.repeats))
            [] OTHER -> RenderInBlock(noted, e)

----------------------------------------------------------------------------
(* The frames. *)

TranscriptInit ==
  /\ script \in {f \in [ObservedCalls -> UNION {Scripts[c] : c \in ObservedCalls}] :
                   \A c \in ObservedCalls : f[c] \in Scripts[c]}
  /\ position = [c \in ObservedCalls |-> 0]
  /\ renderer = NewRenderer

NextEvent(call) ==
  [script[call][position[call] + 1] EXCEPT !.id = <<call, position[call] + 1>>, !.call = call]

\* The next event of a call arrives.
EventFrame(call) ==
  /\ position[call] < Len(script[call])
  /\ position' = [position EXCEPT ![call] = @ + 1]
  /\ renderer' = RenderEvent(renderer, NextEvent(call))
  /\ UNCHANGED script

\* The client was cut off and is connected again; events of a call that the
\* replay no longer holds are never seen.
GapFrame ==
  /\ renderer.gaps < MaxGaps
  /\ renderer' = Put(Forgotten([renderer EXCEPT !.gaps = @ + 1]), GapLine)
  /\ \/ UNCHANGED position
     \/ \E c \in ObservedCalls :
          /\ position[c] < Len(script[c])
          /\ position' = [position EXCEPT ![c] = @ + 1]
  /\ UNCHANGED script

TranscriptNext == GapFrame \/ \E call \in ObservedCalls : EventFrame(call)

TranscriptSpec == TranscriptInit /\ [][TranscriptNext]_transcriptVars

----------------------------------------------------------------------------
(* Properties. *)

TranscriptTypeOK ==
  /\ \A c \in ObservedCalls : script[c] \in Scripts[c] /\ position[c] \in 0..Len(script[c])
  /\ renderer.active \in ObservedCalls \cup {NoCall}
  /\ renderer.spans \in Nat /\ renderer.gaps \in 0..MaxGaps
  /\ \A i \in DOMAIN renderer.transcript :
       renderer.transcript[i].is \in {"row", "blank", "session", "gap", "repeat", "folded", "ellipsis"}

Lines == renderer.transcript
IsRow(i) == Lines[i].is = "row"
RowsOfSpan(span) == {i \in DOMAIN Lines : IsRow(i) /\ Lines[i].span = span}
SpansShown == {Lines[i].span : i \in {j \in DOMAIN Lines : IsRow(j)}}
Between(i, j) == {k \in DOMAIN Lines : i < k /\ k < j}
\* The line before i that says something.
LastSaid(i) == {j \in 1..(i - 1) : Lines[j].is \in {"row", "repeat", "folded", "gap"}
                                    /\ \A k \in Between(j, i) : Lines[k].is \notin {"row", "repeat", "folded", "gap"}}

\* "Repeated x n" follows the very read it repeats, n - 1 of them: nothing else
\* was said in between.
RepeatsAreTrue ==
  \A i \in DOMAIN Lines : Lines[i].is = "repeat" =>
    \E j \in LastSaid(i) :
      \/ Lines[j].is = "repeat" /\ Lines[j].read = Lines[i].read /\ Lines[i].count = Lines[j].count + 1
      \/ Lines[j].is = "row" /\ Lines[j].read = Lines[i].read /\ Lines[i].count = 2

\* Progress that leaves no line says what the line before it says.
SilenceIsTrue ==
  \A i \in DOMAIN Lines : Lines[i].is = "folded" =>
    \E j \in LastSaid(i) : Lines[j].is \in {"row", "folded"} /\ Lines[j].progress = Lines[i].progress

\* The rows of a span stand together, and a blank line, an interruption, or
\* nothing between two notes of the agent separates it from the next.
SpansStandApart ==
  \A i, j \in {k \in DOMAIN Lines : IsRow(k)} :
    (i < j /\ \A k \in Between(i, j) : ~IsRow(k)) =>
      LET apart == \E k \in Between(i, j) : Lines[k].is \in {"blank", "gap"}
      IN IF Lines[i].span = Lines[j].span THEN ~apart
         ELSE apart \/ (Lines[i].activity /\ Lines[j].activity)

SpansAreWhole ==
  \A span \in SpansShown : \A i, j \in RowsOfSpan(span) :
    \A k \in Between(i, j) : IsRow(k) => Lines[k].span = span

\* Each row that has a session stands under the name of that session, also when
\* calls of two sessions are interleaved or the connection was interrupted.
SessionIsStated ==
  \A i \in DOMAIN Lines : (IsRow(i) /\ Lines[i].session # NoCall) =>
    \E j \in 1..(i - 1) :
      /\ Lines[j] = SessionLine(Lines[i].session)
      /\ \A k \in Between(j, i) : Lines[k].is # "session"

\* A span without a change of files never exceeds its body and one mark, and
\* nothing follows the mark.
SpansAreBounded ==
  \A span \in SpansShown :
    (\A i \in RowsOfSpan(span) : EventOf(Lines[i].event).kind # "changed") =>
      LET Parts(total, i) == IF IsRow(i) /\ Lines[i].span = span THEN total + Lines[i].parts ELSE total
          marks == {i \in DOMAIN Lines : Lines[i] = EllipsisLine(span)}
      IN /\ FoldLeft(Parts, 0, [i \in DOMAIN Lines |-> i]) <= MaxBody
         /\ Cardinality(marks) <= 1
         /\ \A i \in RowsOfSpan(span), j \in marks : i < j

\* The lines of a stream are numbered without a gap from the first, whatever
\* stream comes in between, up to the mark of a cut.
LinesAreNumbered ==
  \A span \in SpansShown, s \in Streams :
    LET texts == {i \in RowsOfSpan(span) : Lines[i].kind = "text" /\ Lines[i].stream = s}
    IN (\A i \in DOMAIN Lines : Lines[i] # EllipsisLine(span)) =>
         \A i \in texts : Lines[i].number = Cardinality({j \in texts : j <= i})

\* A purpose stands before everything else in its span, once.
PurposeComesFirst ==
  \A span \in SpansShown : \A i, j \in RowsOfSpan(span) :
    (Lines[i].kind = "purpose" /\ i # j /\ EventOf(Lines[i].event).kind = "started") => i < j

\* Every result that arrived and was not lost with its connection shows: by its
\* rows, by the mark of a cut, or as one more of the same.
Shows(call, index) ==
  \E i \in DOMAIN Lines :
    \/ Lines[i].is \in {"row", "repeat", "folded"} /\ Lines[i].event = <<call, index>>
    \/ Lines[i].is \in {"ellipsis", "gap"}

ResultsShow ==
  \A call \in ObservedCalls : \A index \in 1..position[call] :
    LET e == script[call][index]
    IN (e.kind = "completed" /\ ~Unwanted(e) /\ ~CompactNoise(e) /\ e.facts) => Shows(call, index)

\* Violated: output stands in a span with the rows of its own call only; the
\* code gives it to whatever interaction is open, also when it says whose it is.
OutputIsOwn ==
  \A span \in SpansShown : \A i, j \in RowsOfSpan(span) : Lines[i].event[1] = Lines[j].event[1]

TranscriptHolds ==
  /\ RepeatsAreTrue /\ SilenceIsTrue /\ SpansStandApart /\ SpansAreWhole /\ SessionIsStated
  /\ SpansAreBounded /\ LinesAreNumbered /\ PurposeComesFirst /\ ResultsShow
================================================================================
