-------------------------------- MODULE MCTools --------------------------------
(***************************************************************************)
(* Instances for TLC of parts that stand by themselves: updates of the     *)
(* program, the child that serves the browser, what "mcpx observe" prints, *)
(* servers that start and end, reading of files, answers in pieces, the    *)
(* boundary of tool calls, the tools of operations, tools of other         *)
(* programs, those of the tracker, and calls with a key in one process.  A *)
(* behaviour is about one of them, its subject.                            *)
(***************************************************************************)
EXTENDS Update, Browser, Transcript, Lifecycle, Reading, Chunks, Calls, OperationTools, Extensions, Tracker,
        Idempotency

CONSTANTS p1, r1, r2, r3, f1, f2

VARIABLE subject

Subjects == {"update", "browser", "transcript", "servers", "reading", "chunks", "calls", "operations", "extensions", "tracker",
             "key"}

\* Three calls of one process, the third with other parameters; the operation has
\* no preflight.
OneProc == [r \in Reqs |-> p1]
OneDiffers == [r \in Reqs |-> IF r = r3 THEN f2 ELSE f1]

\* A build without a version, and pre-releases before the releases.
Number(n) == [number |-> TRUE, value |-> n]
Word(n) == [number |-> FALSE, value |-> n]
Version(minor, pre) == [core |-> <<1, minor, 0>>, pre |-> pre]
Versions == <<[core |-> <<>>, pre |-> <<>>], Version(9, <<>>), Version(10, <<Number(11)>>),
              Version(10, <<Word(1), Number(2)>>), Version(10, <<Word(1), Number(10)>>), Version(10, <<>>)>>

\* "1.10.0-rc.2" begins with "1.10.0".
BeginsWith ==
  {<<i, j>> \in (DOMAIN Versions) \X (DOMAIN Versions) :
     Versions[i].core = Versions[j].core /\ IsPrefix(Versions[j].pre, Versions[i].pre)}

\* The second update starts when the first is done, and the releases change
\* between the two; at most two of them have been made, and a program that does not
\* report its own version reports 1.10.0-rc.2.
UpdatesInTurn ==
  /\ ~overlapped' /\ (updater'[2].step # "idle" => updater'[1].step = "done")
  /\ site' # site => \A u \in Updaters : ~Working(u)
  /\ Cardinality({i \in Indices : site'[i].state # "absent"}) <= 2
  /\ \A i \in Indices : site'[i] # site[i] => site'[i].archive.reports \in {i, 4}

\* A session that asks and one whose user confirms, or the other way round; one
\* more in a session of its own that needs no permission.
SessionOf == [c \in BrowserCalls |-> IF c = "visit" THEN "s1" ELSE "s2"]
CommandOf == [c \in BrowserCalls |-> IF c = "visit" THEN "navigate" ELSE "click"]
OneBrowserTrouble == browserFaults' + browserMoves' <= 1

\* What a command, a second one, two readers and the agent may say: starts held
\* back, streams that alternate, more than fits, a read and progress repeated,
\* events that are not shown.
Event(kind, session) ==
  [id |-> <<>>, call |-> NoCall, kind |-> kind, session |-> session, text |-> <<>>, stream |-> "stdout",
   purpose |-> FALSE, facts |-> FALSE, read |-> NoFingerprint, progress |-> NoFingerprint, progressTool |-> FALSE,
   intent |-> FALSE, matches |-> TRUE, noise |-> FALSE]
Purpose(s) == [Event("started", s) EXCEPT !.purpose = TRUE]
Output(s, stream, text) == [Event("output", s) EXCEPT !.stream = stream, !.text = text]
Ends(s) == [Event("completed", s) EXCEPT !.facts = TRUE]
ReadEnds(s, f) == [Ends(s) EXCEPT !.read = f, !.text = <<1>>]
ProgressEnds(s, f) == [Ends(s) EXCEPT !.progressTool = TRUE, !.progress = f]
EventScripts ==
  [command |-> {<<>>,
                <<Purpose("s1"), Output("s1", "stdout", <<1, 1>>), Output("s1", "stderr", <<1>>),
                  Output("s1", "stdout", <<1>>), Ends("s1")>>,
                <<Output("s1", "stdout", <<1, 2, 2>>), Event("changed", "s1"), Event("completed", "s1")>>},
   other |-> {<<>>, <<Purpose("s2"), Output("s2", "stderr", <<1, 3>>), Ends("s2")>>,
              <<[Ends("s2") EXCEPT !.matches = FALSE]>>,
              <<[Event("notice", "s2") EXCEPT !.noise = TRUE], Event("notice", NoCall)>>},
   reader |-> {<<>>, <<Purpose("s1"), ReadEnds("s1", "file")>>,
               <<[Event("started", "s2") EXCEPT !.progressTool = TRUE], ProgressEnds("s2", "half"),
                 ProgressEnds("s2", "half")>>},
   again |-> {<<>>, <<Event("started", "s2"), ReadEnds("s2", "file")>>},
   agent |-> {<<>>, <<Event("activity", NoCall), [Event("activity", "s1") EXCEPT !.intent = TRUE]>>}]
FewEvents ==
  LET Count(n, c) == n + Len(script[c])
  IN FoldLeft(Count, 0, SetToSeq(ObservedCalls)) <= 6

\* Windows of one and two lines, budgets that cut them inside a line and between
\* two, a batch around a denied path, a batch with a full read.  Only the first
\* file varies.
Page(p, limit) == [path |-> p, offset |-> 0, at |-> 0, limit |-> limit, full |-> FALSE]
FullRead(p) == [Page(p, 1) EXCEPT !.full = TRUE]
File(c, t) == [charset |-> c, text |-> t]
LongLine == File("utf8", <<"x", "w", "n", "w", "x">>)
NoText == File("binary", <<"x">>)
ReadFiles ==
  {File("utf8", <<>>), LongLine, File("utf8", <<"x", "r", "n", "w", "r">>),
   File("utf16", <<"x", "w", "r", "x", "r", "n">>), NoText}
ReadRequests ==
  {[kind |-> "single", items |-> <<Page("a", l)>>, budget |-> b] : l \in {1, 2}, b \in {1, 2}}
  \cup {[kind |-> "batch", items |-> <<Page("a", 2), Page("denied", 1), Page("b", 1)>>, budget |-> b] : b \in {1, 7}}
  \cup {[kind |-> "mixed", items |-> <<Page("a", 1), FullRead("b"), Page("denied", 1)>>, budget |-> b] : b \in {2, 6}}

\* Diffs of one file and of several, longer than the preview or not; results of
\* one step and of two; a file in UTF-16 that becomes shorter and longer again.
ChunkSource(kind, parts) == [kind |-> kind, parts |-> parts]
ThreeLines == <<"a", "n", "n", "a", "h", "t", "n">>
OneLongLine == <<"a", "h", "t", "h", "t", "a", "a", "n">>
UTF16Text == <<"B", "B", "u", "u", "p", "p", "q", "q", "u", "u">>
ToolChunks ==
  {ChunkSource("diff", p) : p \in {<<ThreeLines>>, <<ThreeLines, ThreeLines>>, <<OneLongLine, <<>>, ThreeLines>>,
                                   <<<<"a", "n">>, <<"a", "n">>, ThreeLines>>}}
  \cup {ChunkSource("result", p) : p \in {<<<<"a", "a", "a", "a", "h", "t", "a">>>>,
                                          <<<<"a", "a">>, <<"a", "h", "t", "a">>>>}}
  \cup {ChunkSource("file", p) : p \in {<<UTF16Text, <<"z", "z", "z">>, UTF16Text>>,
                                        <<<<"B", "B", "B", "h", "t", "a">>, UTF16Text>>}}
  \cup {ChunkSource("blob", <<<<"z", "z", "z", "z", "z">>>>)}

\* Activity with an intent and without, late and early request ids; answers of
\* every kind, of a call, of a step, or of both.  The clock is read by calls that
\* come.
CallPlan(u, i, m, a, r) ==
  [updates |-> u, intent |-> i, oversize |-> FALSE, mode |-> m, progress |-> FALSE, request |-> r, answer |-> a]
TwoPlans(a, b) == [c \in ToolCalls |-> IF c = "c1" THEN a ELSE b]
FirstPlans == TwoPlans(CallPlan(1, TRUE, "sync", "fine", 2), CallPlan(2, TRUE, "sync", "panic", 1))
ToolPlans ==
  {FirstPlans,
   TwoPlans(CallPlan(1, TRUE, "sync", "upstream_error", 2), CallPlan(2, FALSE, "async", "confirm", 1)),
   TwoPlans([CallPlan(0, FALSE, "sync", "none", 1) EXCEPT !.progress = TRUE], CallPlan(1, FALSE, "sync", "unrenderable", 2)),
   TwoPlans([CallPlan(1, TRUE, "sync", "fine", 1) EXCEPT !.oversize = TRUE], CallPlan(0, FALSE, "async", "upstream_failed", 2))}
ClockMatters == clockMs' # clockMs => \E c \in ToolCalls : callStep[c] = "out"

\* Calls about one operation and about two, with one of another session; batches
\* that can run and that cannot; steps one after the other, within one another,
\* and with clocks set back.  Only one of the three goes on in a behaviour.
AskFor(action, targets) == [action |-> action, targets |-> targets]
OpAsks == {AskFor("status", <<"o1">>), AskFor("wait", <<"o1">>), AskFor("result", <<"o2">>),
           AskFor("status", <<"o1", "o2">>), AskFor("result", <<"o1", "o2">>),
           AskFor("status", <<"o2", "foreign">>), AskFor("wait", <<"o1", "o2">>)}
BatchItem(tool, fields, readOnly, openWorld) ==
  [tool |-> tool, fields |-> fields, readOnly |-> readOnly, openWorld |-> openWorld, closed |-> TRUE, illTyped |-> {},
   known |-> {"path", "remote_session_id"}, required |-> {"path", "remote_session_id"},
   registered |-> {"read", "write", "operation_batch"}]
ReadStepItem == BatchItem("read", {"path"}, TRUE, FALSE)
Batches ==
  {<<>>, <<ReadStepItem, BatchItem("write", {"path"}, FALSE, FALSE)>>, <<BatchItem("read", {"path"}, TRUE, TRUE)>>,
   <<ReadStepItem, BatchItem("read", {}, TRUE, FALSE)>>, <<BatchItem("operation_batch", {"path"}, FALSE, FALSE)>>,
   <<BatchItem("other", {"path", "odd"}, TRUE, FALSE)>>, <<[ReadStepItem EXCEPT !.illTyped = {"path"}]>>}
Took(from, to) == [from |-> from, to |-> to]
Timings == {<<>>, <<Took(1, 1)>>, <<Took(1, 3), Took(3, 4)>>, <<Took(1, 5), Took(2, 3), Took(4, 4)>>,
            <<Took(2, 1), Took(2, 2), Took(5, 9)>>}
OneThing ==
  /\ timing # <<>> => batch' = batch /\ life' = life /\ ask' = ask
  /\ batch'.verdict # "none" => life' = life /\ handle' = handle /\ ask' = ask
  /\ \A o \in PolledOps \ OwnOps : life'[o] = life[o]
  /\ batch' # batch => ask = NoAsk /\ \A o \in PolledOps : handle[o] = 1 /\ life[o] = "queued"

\* A tool that is described, called, and called again with the key, with the
\* arguments or with others; a skill and a tool side by side.  One thing goes
\* wrong, or changes.
ExtAsk(what, kind, keyed, fits) == [ask |-> what, kind |-> kind, session |-> "s1", keyed |-> keyed, fits |-> fits]
Described(kind) == ExtAsk("describe", kind, FALSE, {})
Asks(a, b, c) == [x \in ExtCalls |-> CASE x = "look" -> a [] x = "first" -> b [] OTHER -> c]
FirstAsks == Asks(Described("mcp"), ExtAsk("call", "mcp", TRUE, {1, 2}), ExtAsk("call", "mcp", TRUE, {1, 2}))
ExtensionPlans ==
  {FirstAsks,
   Asks(Described("skill"), ExtAsk("call", "skill", TRUE, {1, 2}), ExtAsk("call", "skill", TRUE, {2})),
   Asks(Described("mcp"), ExtAsk("call", "mcp", FALSE, {1, 2}), Described("skill"))}
ScanOrder == <<"home", "workspace">>
OneExtensionTrouble == extChanges' + extRestarts' + deadlines' <= 1

\* Calls that ask first, name a person in two ways, or a target in parts; two
\* versions of the CLI.
TrackerAsk(tool, confirmed) ==
  [tool |-> tool, complete |-> TRUE, confirmed |-> confirmed, byId |-> FALSE, byName |-> FALSE, linked |-> FALSE,
   repo |-> 0, number |-> 0, target |-> "auto"]
ForPerson(tool) == [TrackerAsk(tool, TRUE) EXCEPT !.byId = TRUE, !.byName = TRUE]
CommentOn(linked, repo, number) ==
  [TrackerAsk("comment", TRUE) EXCEPT !.linked = linked, !.repo = repo, !.number = number]
TwoAsks(a, b) == [c \in TrackerCalls |-> IF c = "a" THEN a ELSE b]
FirstTrackerAsks == TwoAsks(TrackerAsk("retry", FALSE), TrackerAsk("retry", TRUE))
TrackerAsks ==
  {FirstTrackerAsks, TwoAsks(ForPerson("assign"), TrackerAsk("dispatch_task", FALSE)),
   TwoAsks(ForPerson("review"), TrackerAsk("status", TRUE)), TwoAsks(CommentOn(TRUE, 0, 0), CommentOn(FALSE, 1, 3)),
   TwoAsks(CommentOn(TRUE, 3, 0), TrackerAsk("comment", FALSE)),
   TwoAsks(TrackerAsk("assign", TRUE), TrackerAsk("get_agent", FALSE)),
   TwoAsks(TrackerAsk("get_execution", FALSE), [TrackerAsk("update_agent", FALSE) EXCEPT !.complete = FALSE])}
Persons == {"id", "name", "none"}
TrackerDialects ==
  {{}, {Form(v, w) : v \in {"update", "retry", "get", "create"}, w \in Persons},
   {Form(v, w) : v \in {"assign", "rerun", "view", "status", "create"}, w \in {"name", "none"}} \cup {Form("review", "none")}}
ToolsVars == <<updateVars, browserVars, transcriptVars, lifecycleVars, readingVars, chunkVars, callsVars, operationToolVars, extVars, trackerVars,
              vars, subject>>

\* Only what a behaviour is about varies.
OnlyOf(name, set, one) == IF subject = name THEN set ELSE {one}
NoEvents == [c \in ObservedCalls |-> <<>>]
AnyScripts ==
  [command : EventScripts.command, other : EventScripts.other, reader : EventScripts.reader,
   again : EventScripts.again, agent : EventScripts.agent]

ToolsInit ==
  /\ subject \in Subjects
  /\ program \in OnlyOf("update", [build : {"build"}, reports : Indices], [build |-> "build", reports |-> 1])
  /\ script \in OnlyOf("transcript", AnyScripts, NoEvents) /\ FewEvents
  /\ sourceFile \in [a : OnlyOf("reading", ReadFiles, NoText), b : {LongLine}, denied : {NoText}]
  /\ readNext \in OnlyOf("reading", ReadRequests, [kind |-> "single", items |-> <<Page("a", 1)>>, budget |-> 1])
  /\ chunkSource \in OnlyOf("chunks", ToolChunks, ChunkSource("diff", <<ThreeLines>>))
  /\ planOf \in OnlyOf("calls", ToolPlans, FirstPlans)
  /\ timing \in OnlyOf("operations", Timings, <<>>)
  /\ extPlan \in OnlyOf("extensions", ExtensionPlans, FirstAsks)
  /\ trackerPlan \in OnlyOf("tracker", TrackerAsks, FirstTrackerAsks)
  /\ dialect \in OnlyOf("tracker", TrackerDialects, {})
  /\ keyring \in OnlyOf("tracker", Accounts, Bot)
  /\ execution \in OnlyOf("tracker", {NoLink, Linked}, NoLink)
  /\ UpdateInit /\ BrowserInit /\ TranscriptInit /\ LifecycleInit /\ ReadingInit /\ ChunksInit /\ CallsInit
  /\ OperationToolsInit /\ ExtensionsInit /\ TrackerInit /\ Init

ToolsNext ==
  /\ \/ subject = "update" /\ UpdateNext /\ UpdatesInTurn /\ UNCHANGED <<browserVars, transcriptVars, lifecycleVars, readingVars, chunkVars, callsVars, operationToolVars, extVars, trackerVars, vars>>
     \/ subject = "browser" /\ BrowserNext /\ OneBrowserTrouble /\ UNCHANGED <<updateVars, transcriptVars, lifecycleVars, readingVars, chunkVars, callsVars, operationToolVars, extVars, trackerVars, vars>>
     \/ subject = "transcript" /\ TranscriptNext /\ UNCHANGED <<updateVars, browserVars, lifecycleVars, readingVars, chunkVars, callsVars, operationToolVars, extVars, trackerVars, vars>>
     \/ subject = "servers" /\ LifecycleNext /\ UNCHANGED <<updateVars, browserVars, transcriptVars, readingVars, chunkVars, callsVars, operationToolVars, extVars, trackerVars, vars>>
     \/ subject = "reading" /\ ReadingNext /\ UNCHANGED <<updateVars, browserVars, transcriptVars, lifecycleVars, chunkVars, callsVars, operationToolVars, extVars, trackerVars, vars>>
     \/ subject = "chunks" /\ ChunksNext /\ UNCHANGED <<updateVars, browserVars, transcriptVars, lifecycleVars, readingVars, callsVars, operationToolVars, extVars, trackerVars, vars>>
     \/ subject = "calls" /\ CallsNext /\ ClockMatters /\ UNCHANGED <<updateVars, browserVars, transcriptVars, lifecycleVars, readingVars, chunkVars, operationToolVars, extVars, trackerVars, vars>>
     \/ subject = "operations" /\ OperationToolsNext /\ OneThing /\ UNCHANGED <<updateVars, browserVars, transcriptVars, lifecycleVars, readingVars, chunkVars, callsVars, extVars, trackerVars, vars>>
     \/ subject = "extensions" /\ ExtensionsNext /\ OneExtensionTrouble /\ UNCHANGED <<updateVars, browserVars, transcriptVars, lifecycleVars, readingVars, chunkVars, callsVars, operationToolVars, trackerVars, vars>>
     \/ subject = "tracker" /\ TrackerNext /\ UNCHANGED <<updateVars, browserVars, transcriptVars, lifecycleVars, readingVars, chunkVars, callsVars, operationToolVars, extVars, vars>>
     \/ subject = "key" /\ Next /\ UNCHANGED <<updateVars, browserVars, transcriptVars, lifecycleVars, readingVars, chunkVars, callsVars, operationToolVars, extVars, trackerVars>>
  /\ UNCHANGED subject

ToolsSpec == ToolsInit /\ [][ToolsNext]_ToolsVars

\* What the module of the subject promises.
SubjectHolds ==
  CASE subject = "update" -> UpdateTypeOK
    [] subject = "browser" -> BrowserTypeOK /\ BrowserHolds
    [] subject = "transcript" -> TranscriptTypeOK /\ TranscriptHolds
    [] subject = "servers" -> LifecycleTypeOK /\ LifecycleHolds
    [] subject = "reading" -> ReadingTypeOK /\ ReadingHolds
    [] subject = "chunks" -> ChunksTypeOK /\ ChunksHolds
    [] subject = "calls" -> CallsTypeOK /\ CallsHolds
    [] subject = "operations" -> OperationToolsTypeOK /\ OperationToolsHolds
    [] subject = "extensions" -> ExtensionsTypeOK /\ ExtensionsHold
    [] subject = "tracker" -> TrackerTypeOK /\ TrackerHolds
    [] subject = "key" -> TypeOK

ToolsHold == []SubjectHolds /\ UpdatesHold
================================================================================
