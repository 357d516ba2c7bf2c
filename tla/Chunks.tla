------------------------------- MODULE Chunks -------------------------------
(***************************************************************************)
(* Long texts given in pieces of bytes: the diff of an edit (a preview in  *)
(* the answer, then observe view=diff), the result of an operation         *)
(* (operation_manage action=result) and an artifact (artifact action=read  *)
(* and its resource).  A client goes where each answer's continuation      *)
(* leads; meanwhile operations end more steps and files are replaced.      *)
(***************************************************************************)
EXTENDS Integers, Sequences, SequencesExt, FiniteSets

CONSTANTS
  ChunkSources,   \* what a client may read: see SourceShape
  PieceLimits,    \* limits a client may ask for; 0 asks for the default
  PreviewBytes,   \* cleanDiff{File,Total}PreviewMaxBytes (64 KiB)
  MarkerBytes,    \* length of the line that says a preview is cut
  DefaultBytes,   \* page size when none is asked for
  LargestBytes,   \* the largest page
  ResourceBytes,  \* the largest artifact served as a resource (8 MiB)
  MaxReplaced     \* bound: times the file of an artifact is replaced

(* A byte: "a" a character, "n" a line feed, "h" and "t" the two of a      *)
(* longer character; "B" of a byte order mark; "u" of a UTF-16 unit, "p"   *)
(* and "q" of the two units of a surrogate pair; "z" of no text.           *)
ByteKinds == {"a", "n", "h", "t", "B", "u", "p", "q", "z"}

(* A diff has one part per file; an operation one part per step; a file    *)
(* one part per version, a screenshot (kept as a blob) a single one.       *)
SourceShape(s) ==
  /\ s.kind \in {"diff", "result", "file", "blob"}
  /\ s.parts \in Seq(Seq(ByteKinds)) /\ s.parts # <<>>

ASSUME ChunksAssumption ==
  /\ \A s \in ChunkSources : SourceShape(s)
  /\ PieceLimits \subseteq Nat /\ {PreviewBytes, MarkerBytes, ResourceBytes, MaxReplaced} \subseteq Nat
  /\ DefaultBytes \in Nat \ {0} /\ LargestBytes \in Nat \ {0}

VARIABLES
  chunkSource,  \* what is read
  chunkAt,      \* "diff": unused; "result": steps that have ended; "file": the version on disk
  registered,   \* the artifact's row: size, version of the digest, version of the probe
  chunkClient,  \* what the client does: its step, the offset it continues from, the version it checked
  pieces,       \* what it got: [from, to, data, eof, version]
  filePreviews, \* per file of the diff: bytes shown and whether the rest is announced
  replacedIn    \* what was going on when the file was replaced: "registering", "reading"

chunkVars == <<chunkSource, chunkAt, registered, chunkClient, pieces, filePreviews, replacedIn>>

NoRow == [size |-> 0, digest |-> 0, probe |-> 0]
StoredText == FlattenSeq(chunkSource.parts)

ChunksTypeOK ==
  /\ chunkSource \in ChunkSources
  /\ chunkAt \in 0..Len(chunkSource.parts)
  /\ {registered.size, registered.digest, registered.probe, chunkClient.offset} \subseteq Nat
  /\ chunkClient.step \in {"start", "digest", "probe", "insert", "read", "checked", "whole", "done", "refused", "stuck"}
  /\ \A i \in DOMAIN pieces : pieces[i].data \in Seq(ByteKinds)
  /\ replacedIn \subseteq {"registering", "reading"}

ChunksInit ==
  /\ chunkSource \in ChunkSources
  /\ chunkAt = IF chunkSource.kind = "result" THEN 0 ELSE 1
  /\ registered = NoRow
  /\ chunkClient = [step |-> "start", offset |-> 0, limit |-> 0, version |-> 0]
  /\ pieces = <<>> /\ filePreviews = <<>> /\ replacedIn = {}

(***************************************************************************)
(* Windows.                                                                *)
(***************************************************************************)
\* utf8.ValidString: no character is cut.
WholeCharacters(text) ==
  /\ \A i \in DOMAIN text : text[i] = "h" => i < Len(text) /\ text[i + 1] = "t"
  /\ \A i \in DOMAIN text : text[i] = "t" => i > 1 /\ text[i - 1] = "h"
  /\ \A i \in DOMAIN text : text[i] \in {"a", "n", "h", "t"}

Largest(S) == CHOOSE n \in S : \A m \in S : m <= n

\* The longest prefix without a cut character, ended at its last line feed.
WholePrefix(text) == SubSeq(text, 1, Largest({n \in 0..Len(text) : WholeCharacters(SubSeq(text, 1, n))}))
WholeLines(text) ==
  LET feeds == {i \in DOMAIN text : text[i] = "n"}
  IN IF feeds = {} THEN text ELSE SubSeq(text, 1, Largest(feeds))

BytesAt(text, from, to) == SubSeq(text, from + 1, to)
Least(m, n) == IF m < n THEN m ELSE n
Clamped(limit) == Least(IF limit = 0 THEN DefaultBytes ELSE limit, LargestBytes)

\* boundedDiffPreview: the bytes shown, how many the marker makes of them, what is left out.
PreviewOf(diff, max) ==
  LET shown == WholeLines(WholePrefix(SubSeq(diff, 1, Least(max, Len(diff)))))
      marked == IF Len(shown) + MarkerBytes <= max THEN MarkerBytes ELSE 0
  IN IF diff = <<>> \/ max <= 0 THEN [text |-> <<>>, bytes |-> 0, cut |-> FALSE]
     ELSE IF Len(diff) <= max THEN [text |-> diff, bytes |-> Len(diff), cut |-> FALSE]
     ELSE IF shown = <<>> THEN [text |-> <<>>, bytes |-> MarkerBytes, cut |-> TRUE]
     ELSE [text |-> shown, bytes |-> Len(shown) + marked, cut |-> TRUE]

\* The next page starts after the window, not after what was given of it.
DiffPageAfterWindow(diff, offset, limit) ==
  LET from == IF offset > 0 /\ offset < Len(diff) /\ diff[offset + 1] = "t" THEN offset - 1 ELSE offset
      end == Least(from + Clamped(limit), Len(diff))
      whole == WholePrefix(BytesAt(diff, from, end))
      page == IF end < Len(diff) THEN WholeLines(whole) ELSE whole
      to == end
  IN [from |-> from, to |-> to, data |-> page, eof |-> to >= Len(diff), version |-> 0]

\* editDiffPage.
DiffPage(diff, offset, limit) ==
  LET from == IF offset > 0 /\ offset < Len(diff) /\ diff[offset + 1] = "t" THEN offset - 1 ELSE offset
      end == Least(from + Clamped(limit), Len(diff))
      whole == WholePrefix(BytesAt(diff, from, end))
      page == IF end < Len(diff) THEN WholeLines(whole) ELSE whole
      to == from + Len(page)
  IN [from |-> from, to |-> to, data |-> page, eof |-> to >= Len(diff), version |-> 0]

\* AlignSourceWindow: windows of UTF-16 hold whole units after the mark.
Marked(text) == text # <<>> /\ text[1] = "B"
AlignSourceWindow(offset, limit, size, utf16, mark) ==
  LET at == Least(offset, size)
      start == IF ~utf16 THEN at
               ELSE IF at > 0 /\ at < mark THEN mark
               ELSE IF at >= mark /\ (at - mark) % 2 # 0 THEN at + 1 ELSE at
      cut == Least(start + (IF limit = 0 THEN DefaultBytes ELSE limit), size)
      units == IF utf16 /\ cut > mark /\ (cut - mark) % 2 # 0 THEN cut - 1 ELSE cut
      end == IF utf16 /\ units <= start /\ start < size THEN Least(start + 2, size) ELSE units
  IN [start |-> start, end |-> end]

(***************************************************************************)
(* The diff of an edit.                                                    *)
(***************************************************************************)
\* strings.Join(diffParts, "\n") of the files that changed.
DiffSummary ==
  LET Join(sum, part) == IF part = <<>> THEN sum ELSE IF sum = <<>> THEN part ELSE sum \o <<"n">> \o part
  IN FoldLeft(Join, <<>>, chunkSource.parts)

\* editResponseData: the files share one budget.
PreviewFiles ==
  LET SumOf(shown) == FoldLeft(LAMBDA n, f : n + f.bytes, 0, shown)
      Show(shown, part) ==
        LET left == PreviewBytes - SumOf(shown)
            preview == PreviewOf(part, Least(PreviewBytes, left))
        IN Append(shown, [bytes |-> preview.bytes, data |-> preview.text,
                          truncated |-> preview.cut \/ (left - preview.bytes = 0 /\ Len(part) > preview.bytes)])
  IN FoldLeft(Show, <<>>, chunkSource.parts)

Piece(from, data, eof, version) ==
  [from |-> from, to |-> from + Len(data), data |-> data, eof |-> eof, version |-> version]

\* The edit answers with previews, and with where the diff goes on.
EditResponds ==
  /\ chunkSource.kind = "diff" /\ chunkClient.step = "start"
  /\ LET aggregate == PreviewOf(DiffSummary, PreviewBytes)
     IN /\ pieces' = <<Piece(0, aggregate.text, ~aggregate.cut, 0)>>
        /\ chunkClient' = [chunkClient EXCEPT !.step = IF aggregate.cut THEN "read" ELSE "done",
                                              !.offset = Len(aggregate.text)]
  /\ filePreviews' = PreviewFiles
  /\ UNCHANGED <<chunkSource, chunkAt, registered, replacedIn>>

\* toolObserveEditDiff of an edit that succeeded.
ObserveEditDiff(limit) ==
  /\ chunkSource.kind = "diff" /\ chunkClient.step = "read"
  /\ LET page == DiffPage(DiffSummary, chunkClient.offset, limit)
     IN IF page.data = <<>> /\ ~page.eof
        THEN chunkClient' = [chunkClient EXCEPT !.step = "refused", !.limit = limit] /\ UNCHANGED pieces
        ELSE /\ pieces' = Append(pieces, page)
             /\ chunkClient' = [chunkClient EXCEPT !.step = IF page.eof THEN "done" ELSE "read", !.offset = page.to]
  /\ UNCHANGED <<chunkSource, chunkAt, registered, filePreviews, replacedIn>>

(***************************************************************************)
(* The result of an operation.                                             *)
(***************************************************************************)
\* aggregateResult: the result of the only step, or those of all under their
\* names, {} for a step that has none.
ResultText(ended) ==
  LET result == [i \in DOMAIN chunkSource.parts |-> IF i <= ended THEN chunkSource.parts[i] ELSE <<"a">>]
  IN FlattenSeq(result)
OperationDone == chunkAt = Len(chunkSource.parts)

StepEnds ==
  /\ chunkSource.kind = "result" /\ ~OperationDone
  /\ chunkAt' = chunkAt + 1
  /\ UNCHANGED <<chunkSource, registered, chunkClient, pieces, filePreviews, replacedIn>>

\* Result: all of it when it fits, whatever the cursor, a chunk otherwise.
OperationResult(limit) ==
  /\ chunkSource.kind = "result" /\ chunkClient.step \in {"start", "read"}
  /\ LET raw == ResultText(chunkAt)
         from == Least(chunkClient.offset, Len(raw))
         end == Least(from + Clamped(limit), Len(raw))
         chunk == IF Len(raw) <= Clamped(limit) THEN Piece(0, raw, TRUE, chunkAt)
                  ELSE Piece(from, BytesAt(raw, from, end), end >= Len(raw), chunkAt)
     IN /\ pieces' = Append(pieces, chunk)
        /\ chunkClient' = [chunkClient EXCEPT !.step = IF chunk.eof THEN "done" ELSE "read", !.offset = chunk.to]
  /\ UNCHANGED <<chunkSource, chunkAt, registered, filePreviews, replacedIn>>

(***************************************************************************)
(* An artifact: a file of the workspace, or bytes kept in the state.       *)
(***************************************************************************)
Held(version) == chunkSource.parts[version]
IsUTF16(version) == \A i \in DOMAIN Held(version) : Held(version)[i] \in {"B", "u", "p", "q"}
MarkLength(version) == IF ~Marked(Held(version)) THEN 0 ELSE IF IsUTF16(version) THEN 2 ELSE 3

\* Register looks at the size, the digest and the encoding one after the other.
RegisterStat ==
  /\ chunkSource.kind = "file" /\ chunkClient.step = "start"
  /\ registered' = [registered EXCEPT !.size = Len(Held(chunkAt))]
  /\ chunkClient' = [chunkClient EXCEPT !.step = "digest"]
  /\ UNCHANGED <<chunkSource, chunkAt, pieces, filePreviews, replacedIn>>

RegisterDigest ==
  /\ chunkClient.step = "digest"
  /\ registered' = [registered EXCEPT !.digest = chunkAt]
  /\ chunkClient' = [chunkClient EXCEPT !.step = "probe"]
  /\ UNCHANGED <<chunkSource, chunkAt, pieces, filePreviews, replacedIn>>

\* The probe, and the row.
RegisterRow ==
  /\ chunkClient.step = "probe"
  /\ registered' = [registered EXCEPT !.probe = chunkAt]
  /\ chunkClient' = [chunkClient EXCEPT !.step = "read"]
  /\ UNCHANGED <<chunkSource, chunkAt, pieces, filePreviews, replacedIn>>

\* RegisterBytes: a screenshot's row and blob in one transaction.
RegisterBytes ==
  /\ chunkSource.kind = "blob" /\ chunkClient.step = "start"
  /\ registered' = [size |-> Len(Held(1)), digest |-> 1, probe |-> 1]
  /\ chunkClient' = [chunkClient EXCEPT !.step = "read"]
  /\ UNCHANGED <<chunkSource, chunkAt, pieces, filePreviews, replacedIn>>

\* Something else writes the file.
FileReplaced ==
  /\ chunkSource.kind = "file" /\ chunkAt < Least(Len(chunkSource.parts), MaxReplaced + 1)
  /\ chunkAt' = chunkAt + 1
  /\ replacedIn' = replacedIn \cup (CASE chunkClient.step \in {"digest", "probe"} -> {"registering"}
                                      [] chunkClient.step = "checked" -> {"reading"}
                                      [] OTHER -> {})
  /\ UNCHANGED <<chunkSource, registered, chunkClient, pieces, filePreviews>>

\* Read compares the digest of what is there with the registered one ...
CheckDigest(limit) ==
  /\ chunkSource.kind \in {"file", "blob"} /\ chunkClient.step = "read"
  /\ chunkClient' = [chunkClient EXCEPT !.step = IF chunkAt = registered.digest THEN "checked" ELSE "refused",
                                        !.limit = limit, !.version = chunkAt]
  /\ UNCHANGED <<chunkSource, chunkAt, registered, pieces, filePreviews, replacedIn>>

\* ... and opens the file again for the window; a blob's bytes are at hand.
ReadArtifactWindow ==
  /\ chunkClient.step = "checked"
  /\ LET now == IF chunkSource.kind = "blob" THEN chunkClient.version ELSE chunkAt
         window == AlignSourceWindow(chunkClient.offset, chunkClient.limit, registered.size,
                                     IsUTF16(registered.probe), MarkLength(registered.probe))
         data == BytesAt(Held(now), window.start, Least(window.end, Len(Held(now))))
         to == window.start + Len(data)
     IN /\ pieces' = Append(pieces, Piece(window.start, data, to >= registered.size, now))
        /\ chunkClient' = [chunkClient EXCEPT !.step = IF to >= registered.size THEN "done"
                                                       ELSE IF to = chunkClient.offset THEN "stuck" ELSE "read",
                                              !.offset = to]
  /\ UNCHANGED <<chunkSource, chunkAt, registered, filePreviews, replacedIn>>

\* ReadAll, for the resource: the bytes read are the ones compared.
ReadAll ==
  /\ chunkSource.kind \in {"file", "blob"} /\ chunkClient.step = "read" /\ pieces = <<>>
  /\ IF registered.size <= ResourceBytes /\ chunkAt = registered.digest
     THEN /\ pieces' = <<Piece(0, Held(chunkAt), TRUE, chunkAt)>>
          /\ chunkClient' = [chunkClient EXCEPT !.step = "whole"]
     ELSE chunkClient' = [chunkClient EXCEPT !.step = "refused"] /\ UNCHANGED pieces
  /\ UNCHANGED <<chunkSource, chunkAt, registered, filePreviews, replacedIn>>

ChunksNext ==
  \/ EditResponds \/ StepEnds
  \/ \E limit \in PieceLimits : ObserveEditDiff(limit) \/ OperationResult(limit) \/ CheckDigest(limit)
  \/ RegisterStat \/ RegisterDigest \/ RegisterRow \/ RegisterBytes \/ FileReplaced
  \/ ReadArtifactWindow \/ ReadAll

ChunksSpec == ChunksInit /\ [][ChunksNext]_chunkVars
(***************************************************************************)
(* What the pieces promise.                                                *)
(***************************************************************************)
Together(some) == FlattenSeq([i \in DOMAIN some |-> some[i].data])
FollowOn == \A i \in 2..Len(pieces) : pieces[i].from = pieces[i - 1].to
Finished == chunkClient.step = "done"

(* The preview and the pages that follow it are the diff from its first    *)
(* byte on, no page cuts a character, and when the last says eof all of it *)
(* was given; a page is refused only when its limit cannot hold one        *)
(* character (boundedDiffPreview and editDiffPage: "read the remaining     *)
(* edit diff by byte offset").                                             *)
DiffIsWhole ==
  chunkSource.kind = "diff" =>
    /\ pieces # <<>> => /\ FollowOn /\ Together(pieces) = BytesAt(DiffSummary, 0, pieces[Len(pieces)].to)
                       /\ \A i \in DOMAIN pieces : WholeCharacters(pieces[i].data)
    /\ Finished => Together(pieces) = DiffSummary
    /\ chunkClient.step = "refused" => Clamped(chunkClient.limit) = 1

(* The previews of the files share one budget: together they stay within   *)
(* it, a file whose diff is not shown whole says so, and then the answer   *)
(* also says where the diff goes on (editResponseData).                    *)
GapsAreTold ==
  chunkSource.kind = "diff" /\ pieces # <<>> =>
    /\ FoldLeft(LAMBDA n, f : n + f.bytes, 0, filePreviews) <= PreviewBytes
    /\ \A i \in DOMAIN filePreviews : filePreviews[i].truncated <=> filePreviews[i].data # chunkSource.parts[i]
    /\ (\E i \in DOMAIN filePreviews : filePreviews[i].truncated) => ~pieces[1].eof

(* The chunks of a result read when the operation had ended are the result,*)
(* as long as no chunk cuts a character, unless the last answer was all of *)
(* it (operation_manage action=result).                                    *)
ResultFollowsOn ==
  chunkSource.kind = "result" /\ Finished
  /\ (\A i \in DOMAIN pieces : pieces[i].version = Len(chunkSource.parts) /\ WholeCharacters(pieces[i].data)) =>
    \/ Together(pieces) = StoredText
    \/ pieces[Len(pieces)].from = 0 /\ pieces[Len(pieces)].data = StoredText

(* Of a file that nobody replaces while it is registered or a page is      *)
(* read, every page is what was registered, though the file was replaced   *)
(* in between: such a read is refused (ErrChanged).  The pages follow one  *)
(* another, but for a mark cut in two, and the last says eof; a blob has   *)
(* no such races, a resource none at all.                                  *)
ArtifactIsItsDigest ==
  LET settled == chunkSource.kind = "blob" \/ replacedIn = {}
      before(i) == IF i = 1 THEN 0 ELSE pieces[i - 1].to
  IN chunkSource.kind \in {"file", "blob"} =>
       /\ settled =>
            /\ \A i \in DOMAIN pieces :
                 /\ pieces[i].data = BytesAt(Held(registered.digest), pieces[i].from, pieces[i].to)
                 /\ \/ pieces[i].from = before(i)
                    \/ before(i) < pieces[i].from /\ pieces[i].from = MarkLength(registered.digest)
            /\ Finished => pieces[Len(pieces)].to = Len(Held(registered.digest))
            /\ chunkClient.step # "stuck"
       /\ chunkClient.step = "whole" => pieces[1].data = Held(registered.digest)

ChunksHolds == DiffIsWhole /\ GapsAreTold /\ ResultFollowsOn /\ ArtifactIsItsDigest

(* Not so: the chunks of a result are always the result.  A chunk is cut   *)
(* at any byte and marshalled as text, so a cut character is lost; and     *)
(* chunks read while steps end are of different texts.                     *)
ResultTextSurvives == chunkSource.kind = "result" => \A i \in DOMAIN pieces : WholeCharacters(pieces[i].data)

(* Not so: a page carries the bytes of the digest it names.  The file may  *)
(* be replaced after the digest was compared.                              *)
PageOfItsDigest == chunkSource.kind = "file" => \A i \in DOMAIN pieces : pieces[i].version = registered.digest

(* Not so: following next_source_offset ends.  A file cut short while it   *)
(* was registered has a smaller content than its size, and every read past *)
(* its end asks for the same offset again.                                 *)
FollowingEnds == chunkClient.step # "stuck"

(* Not so: the pages of a text of UTF-16 hold whole characters; a window   *)
(* ends between the two units of a pair, and each is then replaced.        *)
PairsSurvive ==
  chunkSource.kind \in {"file", "blob"} =>
    \A i \in DOMAIN pieces : pieces[i].data = <<>> \/ pieces[i].data[1] # "q"

=============================================================================
