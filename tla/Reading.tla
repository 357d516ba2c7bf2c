------------------------------- MODULE Reading -------------------------------
(***************************************************************************)
(* Reading source files in pages (read with view=file: file/read.go,       *)
(* source.ReadBatch, tools_source_unified.go).                             *)
(*                                                                         *)
(* A window of lines is cut to a byte budget and the answer carries the    *)
(* cursor of the rest: a line and a byte offset inside it.  A client       *)
(* repeats what the cursor says until nothing is left, while the files     *)
(* change.  Every item of a call looks at the file and opens it in two     *)
(* steps.                                                                  *)
(***************************************************************************)
EXTENDS Integers, Sequences, SequencesExt, FiniteSets

CONSTANTS
  SourcePaths,   \* paths a client reads
  DeniedPaths,   \* those the file policy denies
  SourceFiles,   \* [charset, text]: what a path may hold; text is a sequence over Chars
  FirstReads,    \* the first requests of a client
  PageBytes,     \* security.files.max_read_bytes (1 MiB in the code)
  FullBytes,     \* MaxSourceBytes (4 MiB)
  MaxFileEdits,  \* bound: files replaced
  NoSource       \* no file has been looked at

\* One and two bytes of UTF-8, a line feed, a carriage return.
Chars == {"x", "w", "n", "r"}
Width(c) == IF c = "w" THEN 2 ELSE 1
WidestRune == 2  \* utf8.UTFMax

ASSUME ReadingAssumption ==
  /\ DeniedPaths \subseteq SourcePaths /\ NoSource \notin SourceFiles
  /\ \A f \in SourceFiles : f.charset \in {"utf8", "utf16", "binary"} /\ f.text \in Seq(Chars)
  /\ PageBytes \in Nat \ {0} /\ FullBytes \in Nat /\ MaxFileEdits \in Nat

VARIABLES
  sourceFile,   \* path -> the file it holds
  readNext,     \* the request the client sends next; no items when it is done
  readCall,     \* the call in progress: item, file at its Stat, bytes used, what is to be continued
  readGot,      \* path -> what the client has got from it
  sourceEdits,
  readTorn,     \* paths whose file was replaced between Stat and Open of a read
  readStuck     \* a continuation asked for what had just been asked

readingVars == <<sourceFile, readNext, readCall, readGot, sourceEdits, readTorn, readStuck>>

Nothing == [text |-> <<>>, versions |-> {}, ended |-> FALSE, failed |-> "no"]
IdleCall == [item |-> 0, stat |-> NoSource, used |-> 0, rest |-> <<>>, empty |-> FALSE]
Asked(path) == \E i \in DOMAIN readNext.items : readNext.items[i].path = path

ReadingTypeOK ==
  /\ sourceFile \in [SourcePaths -> SourceFiles]
  /\ readNext.kind \in {"single", "batch", "mixed"}
  /\ readCall.item \in 0..(Len(readNext.items) + 1) /\ readCall.used \in Nat
  /\ readCall.stat \in SourceFiles \cup {NoSource}
  /\ DOMAIN readGot = SourcePaths /\ sourceEdits \in 0..MaxFileEdits
  /\ readTorn \subseteq SourcePaths /\ readStuck \in BOOLEAN

ReadingInit ==
  /\ sourceFile \in [SourcePaths -> SourceFiles]
  /\ readNext \in FirstReads
  /\ readCall = IdleCall /\ readGot = [p \in SourcePaths |-> Nothing]
  /\ sourceEdits = 0 /\ readTorn = {} /\ readStuck = FALSE

-----------------------------------------------------------------------------
(* Text, lines and bytes. *)

Bytes(s) == FoldLeft(LAMBDA n, c : n + Width(c), 0, s)

\* truncateUTF8: the longest prefix of whole runes within max bytes.
Fit(s, max) ==
  LET fits == {n \in 0..Len(s) : Bytes(SubSeq(s, 1, n)) <= max}
  IN SubSeq(s, 1, CHOOSE n \in fits : \A m \in fits : m <= n)

FileSize(f) == IF f.charset = "utf16" THEN 2 + 2 * Len(f.text) ELSE Bytes(f.text)

\* The UTF-16 reader ends a line at CR, LF or CRLF and returns LF for each.
LogicalText(text) ==
  LET Ends(c) == IF c = "r" THEN "n" ELSE c
      kept == {i \in DOMAIN text : ~(text[i] = "n" /\ i > 1 /\ text[i - 1] = "r")}
  IN [k \in 1..Cardinality(kept) |-> Ends(text[SetToSortSeq(kept, <)[k]])]

\* The lines of a text, without the LF that ends them.
LinesOf(text) ==
  LET starts == SetToSortSeq({i \in DOMAIN text : i = 1 \/ text[i - 1] = "n"}, <)
      Stop(k) == IF k = Len(starts) THEN Len(text) ELSE starts[k + 1] - 1
      Line(k) == SubSeq(text, starts[k], Stop(k))
  IN [k \in 1..Len(starts) |-> IF Last(Line(k)) = "n" THEN Front(Line(k)) ELSE Line(k)]

JoinLines(lines) ==
  FoldLeft(LAMBDA acc, line : IF acc = <<"first">> THEN line ELSE acc \o <<"n">> \o line, <<"first">>, lines)

\* The byte before position size of an opened file is part of a line ending.
EndsLine(text, size) ==
  \E i \in DOMAIN text : Bytes(SubSeq(text, 1, i)) = size /\ text[i] \in {"n", "r"}

-----------------------------------------------------------------------------
(* One window. *)

Refuse(why) == [ok |-> FALSE, why |-> why, content |-> <<>>, more |-> FALSE]

\* applyLineByteOffset: the cursor is the start of a rune of its line, or its end.
OffsetFits(selected, at) ==
  \/ at = 0
  \/ selected # <<>> /\ \E n \in 0..Len(selected[1]) : Bytes(SubSeq(selected[1], 1, n)) = at

DropBytes(line, at) ==
  LET n == CHOOSE n \in 0..Len(line) : Bytes(SubSeq(line, 1, n)) = at IN SubSeq(line, n + 1, Len(line))

\* The lines from the offset on, at most the limit of them, without the bytes
\* before the cursor, cut to the byte budget.  final: the last line is ended.
Window(lines, final, ask, max) ==
  LET start == IF ask.offset < Len(lines) THEN ask.offset ELSE Len(lines)
      stop == IF start + ask.limit < Len(lines) THEN start + ask.limit ELSE Len(lines)
      selected == SubSeq(lines, start + 1, stop)
      cut == IF selected = <<>> THEN <<>> ELSE <<DropBytes(selected[1], ask.at)>> \o Tail(selected)
      chunk == IF cut = <<>> THEN <<>>
               ELSE JoinLines(cut) \o IF final \/ stop < Len(lines) THEN <<"n">> ELSE <<>>
      content == Fit(chunk, max)
  IN IF ~OffsetFits(selected, ask.at) THEN Refuse("cursor")
     ELSE IF content = <<>> /\ chunk # <<>> THEN Refuse("budget")
     ELSE [ok |-> TRUE, why |-> "", content |-> content, more |-> stop < Len(lines) \/ content # chunk]

\* file.Read: the size comes from Stat, the bytes from the file opened after it.
ReadWindow(stat, f, ask, max) ==
  LET utf16 == f.charset = "utf16" /\ FileSize(stat) > 0
  IN IF f.charset = "binary" \/ (f.charset = "utf16" /\ ~utf16) \/ (utf16 /\ FileSize(stat) % 2 # 0)
     THEN Refuse("encoding")
     ELSE IF utf16
     THEN LET text == LogicalText(f.text) IN Window(LinesOf(text), text # <<>> /\ Last(text) = "n", ask, max)
     ELSE Window(LinesOf(f.text), EndsLine(f.text, FileSize(stat)), ask, max)

\* Mutant: the bytes before the cursor of the line it stays in are forgotten.
AdvanceFromLineStart(ask, content) ==
  LET ends == {i \in DOMAIN content : content[i] = "n"}
  IN [ask EXCEPT !.offset = @ + Cardinality(ends),
                 !.at = Bytes(SubSeq(content, IF ends = {} THEN 1 ELSE 1 + CHOOSE i \in ends : \A j \in ends : j <= i,
                                     Len(content)))]

\* AdvanceReadCursor: the position behind the content that was returned.
Advance(ask, content) ==
  LET ends == {i \in DOMAIN content : content[i] = "n"}
      last == CHOOSE i \in ends : \A j \in ends : j <= i
  IN IF ends = {} THEN [ask EXCEPT !.at = @ + Bytes(content)]
     ELSE [ask EXCEPT !.offset = @ + Cardinality(ends), !.at = Bytes(SubSeq(content, last + 1, Len(content)))]

-----------------------------------------------------------------------------
(* A call, item by item. *)

Item == readNext.items[readCall.item]
BudgetLeft == readNext.budget - readCall.used

RefuseItem(path, why) == readGot' = [readGot EXCEPT ![path].failed = why]

GetsPage(path, content, more) ==
  readGot' = [readGot EXCEPT ![path] =
    [@ EXCEPT !.text = @ \o content, !.versions = @ \cup {sourceFile[path]}, !.ended = ~more]]

BeginRead ==
  /\ readCall.item = 0 /\ readNext.items # <<>>
  /\ readCall' = [readCall EXCEPT !.item = 1]
  /\ UNCHANGED <<sourceFile, readNext, readGot, sourceEdits, readTorn, readStuck>>

InCall == readCall.item \in DOMAIN readNext.items

\* An item the policy denies does not fail the call.
DenyItem ==
  /\ InCall /\ readCall.stat = NoSource
  /\ Item.path \in DeniedPaths
  /\ RefuseItem(Item.path, "denied")
  /\ readCall' = [readCall EXCEPT !.item = @ + 1]
  /\ UNCHANGED <<sourceFile, readNext, sourceEdits, readTorn, readStuck>>

\* The budget is used up: a batch hands back the items that are left, a batch
\* with full reads refuses them.
OutOfBudget ==
  /\ InCall /\ readCall.stat = NoSource /\ Item.path \notin DeniedPaths
  /\ readNext.kind # "single" /\ BudgetLeft <= 0
  /\ IF readNext.kind = "batch"
     THEN /\ readCall' = [readCall EXCEPT
               !.rest = @ \o SubSeq(readNext.items, readCall.item, Len(readNext.items)),
               !.item = Len(readNext.items) + 1]
          /\ UNCHANGED readGot
     ELSE /\ RefuseItem(Item.path, "budget")
          /\ readCall' = [readCall EXCEPT !.item = @ + 1]
  /\ UNCHANGED <<sourceFile, readNext, sourceEdits, readTorn, readStuck>>

StatItem ==
  /\ InCall /\ readCall.stat = NoSource /\ Item.path \notin DeniedPaths
  /\ readNext.kind = "single" \/ BudgetLeft > 0
  /\ readCall' = [readCall EXCEPT !.stat = sourceFile[Item.path]]
  /\ UNCHANGED <<sourceFile, readNext, readGot, sourceEdits, readTorn, readStuck>>

NoteTorn ==
  readTorn' = IF readCall.stat = sourceFile[Item.path] THEN readTorn ELSE readTorn \cup {Item.path}

\* What a window may take: a single read is cut by the window itself, a batch
\* cuts the window to what is left, a batch with full reads asks for no more.
WindowBytes ==
  IF readNext.kind = "single" THEN readNext.budget
  ELSE IF readNext.kind = "mixed" /\ BudgetLeft < PageBytes THEN BudgetLeft ELSE PageBytes

\* A window is read.  The cursor of what it left is added to the continuation;
\* a batch that cut it hands back the items behind it as well.
ReadItem ==
  LET f == sourceFile[Item.path]
      read == ReadWindow(readCall.stat, f, Item, WindowBytes)
      content == IF readNext.kind = "batch" THEN Fit(read.content, BudgetLeft) ELSE read.content
      cut == content # read.content
      behind == SubSeq(readNext.items, readCall.item + 1, Len(readNext.items))
  IN /\ InCall /\ readCall.stat # NoSource /\ ~Item.full
     /\ NoteTorn
     /\ IF ~read.ok
        THEN /\ RefuseItem(Item.path, read.why)
             /\ readCall' = [readCall EXCEPT !.item = @ + 1, !.stat = NoSource]
        ELSE /\ GetsPage(Item.path, content, read.more \/ cut)
             /\ readCall' = [item |-> IF cut THEN Len(readNext.items) + 1 ELSE readCall.item + 1,
                             stat |-> NoSource, used |-> readCall.used + Bytes(content),
                             rest |-> readCall.rest
                                        \o (IF read.more \/ cut THEN <<Advance(Item, content)>> ELSE <<>>)
                                        \o (IF cut THEN behind ELSE <<>>),
                             empty |-> readCall.empty \/ (cut /\ content = <<>>)]
     /\ UNCHANGED <<sourceFile, readNext, sourceEdits, readStuck>>

\* ReadFull refuses a file by its size, before and while it is read.
TooLarge(stat, f) == FileSize(stat) > FullBytes \/ FileSize(f) > FullBytes

\* A full read returns the decoded text or nothing; bytes that are no text are
\* delivered encoded.
ReadFullItem ==
  LET f == sourceFile[Item.path]
  IN /\ InCall /\ readCall.stat # NoSource /\ Item.full
     /\ NoteTorn
     /\ IF TooLarge(readCall.stat, f) \/ FileSize(f) > BudgetLeft
        THEN /\ RefuseItem(Item.path, "budget")
             /\ readCall' = [readCall EXCEPT !.item = @ + 1, !.stat = NoSource]
        ELSE /\ GetsPage(Item.path, f.text, FALSE)
             /\ readCall' = [readCall EXCEPT !.item = @ + 1, !.stat = NoSource, !.used = @ + FileSize(f)]
     /\ UNCHANGED <<sourceFile, readNext, sourceEdits, readStuck>>

\* readBatchContinuationBudget: a budget that cannot hold a rune is raised.
ContinuationBudget ==
  IF readNext.kind = "single" THEN PageBytes
  ELSE IF readCall.empty /\ readNext.budget < WidestRune THEN WidestRune ELSE readNext.budget

\* The answer names the next call, and the client makes it.
AnswerRead ==
  LET next == [kind |-> IF readNext.kind = "mixed" THEN "batch" ELSE readNext.kind,
               items |-> readCall.rest, budget |-> ContinuationBudget]
  IN /\ readCall.item = Len(readNext.items) + 1 /\ readNext.items # <<>>
     /\ readStuck' = (readStuck \/ next = readNext)
     /\ readNext' = next /\ readCall' = IdleCall
     /\ UNCHANGED <<sourceFile, readGot, sourceEdits, readTorn>>

\* Someone replaces a file.
ReplaceFile(p, f) ==
  /\ sourceEdits < MaxFileEdits /\ sourceFile[p] # f
  /\ sourceFile' = [sourceFile EXCEPT ![p] = f]
  /\ sourceEdits' = sourceEdits + 1
  /\ UNCHANGED <<readNext, readCall, readGot, readTorn, readStuck>>

ReadingNext ==
  \/ BeginRead \/ DenyItem \/ OutOfBudget \/ StatItem \/ ReadItem \/ ReadFullItem \/ AnswerRead
  \/ \E p \in SourcePaths, f \in SourceFiles : ReplaceFile(p, f)

-----------------------------------------------------------------------------
(* What a client that follows the cursors can rely on. *)

\* What one read without bounds returns of a file.
WholeText(f) == ReadWindow(f, f, [offset |-> 0, at |-> 0, limit |-> Len(f.text) + 1], FileSize(f) + 1).content

\* One version of the file was behind every page, whatever changed otherwise.
OneVersion(p) == Cardinality(readGot[p].versions) = 1 /\ p \notin readTorn

FullyRead(p) == \E r \in FirstReads : \E i \in DOMAIN r.items : r.items[i].path = p /\ r.items[i].full

\* README.md:477: a client that repeats the arguments of the continuation gets
\* every byte once and in order.
PagesFollowOn ==
  \A p \in SourcePaths \ {q \in SourcePaths : FullyRead(q)} : OneVersion(p) =>
    \A f \in readGot[p].versions : IsPrefix(readGot[p].text, WholeText(f))

\* An answer that is not marked truncated was the rest of the file.
EndIsTheEnd ==
  \A p \in SourcePaths \ {q \in SourcePaths : FullyRead(q)} : OneVersion(p) /\ readGot[p].ended =>
    \A f \in readGot[p].versions : readGot[p].text = WholeText(f)

\* A cursor the server gave is refused only if the file is another one by then.
CursorsAreGood ==
  \A p \in SourcePaths : readGot[p].failed = "cursor" =>
    \/ p \in readTorn \/ sourceFile[p] \notin readGot[p].versions
    \/ Cardinality(readGot[p].versions) > 1

\* No continuation asks for what has just been answered.
ReadingMovesOn == ~readStuck

\* A file that was asked for is read to its end, refused, or part of what the
\* client is told to ask next.
NothingForgotten ==
  readCall.item = 0 =>
    \A p \in SourcePaths : readGot[p] = Nothing \/ readGot[p].ended \/ readGot[p].failed # "no" \/ Asked(p)

ReadingHolds == PagesFollowOn /\ EndIsTheEnd /\ CursorsAreGood /\ ReadingMovesOn /\ NothingForgotten

\* Not so: a last line that ends with CR alone is returned with an LF that is
\* not in the file.
WindowIsTheFile ==
  \A p \in SourcePaths : OneVersion(p) /\ readGot[p].ended =>
    \A f \in readGot[p].versions : f.charset = "utf8" => readGot[p].text = f.text

\* Not so: the size of the file before it was replaced decides whether the last
\* line of the one that was read is ended.
RevisionNamesTheText ==
  \A p \in SourcePaths : Cardinality(readGot[p].versions) = 1 /\ readGot[p].ended /\ ~FullyRead(p) =>
    \A f \in readGot[p].versions : readGot[p].text = WholeText(f)
================================================================================
