-------------------------------- MODULE Tracker --------------------------------
(***************************************************************************)
(* Tools that act on the tracker of a team and on GitHub through command   *)
(* line programs: the gated tools of tools_multica_control.go, which try   *)
(* several forms of a command because versions of the CLI differ, the      *)
(* plain ones of tools_multica.go, and comments as a bot account           *)
(* (github_comment_identity.go).  The programs, the tracker, the keyring   *)
(* and GitHub are external: a command that is known is carried out or not, *)
(* whatever its call is told.                                              *)
(***************************************************************************)
EXTENDS Naturals, Sequences, FiniteSets

CONSTANTS
  TrackerCalls,  \* calls of these tools
  TrackerPlans,  \* what the calls ask: functions from TrackerCalls to plans
  Dialects,      \* the forms of commands a version of the CLI may know
  MaxMoves       \* bound: changes of keyring, link and CLI from outside

(* A form of a command: its words, and how it names a person.              *)
Form(verb, who) == [verb |-> verb, who |-> who]

(* A plan: the tool, whether what it needs is given, whether it is         *)
(* confirmed, whether a person is named by id or by name, the target that  *)
(* a comment names itself (0: not given) and whether it names an           *)
(* execution.                                                              *)
Gated == {"assign", "retry", "review", "status", "comment"}
AgentTools == {"get_agent", "update_agent"}
IssueTools == {"get_issue", "dispatch_task"}
Plain == AgentTools \cup IssueTools
ASSUME TrackerAssumption ==
  /\ MaxMoves \in Nat
  /\ \A plans \in TrackerPlans : \A c \in TrackerCalls :
       LET p == plans[c]
       IN /\ p.tool \in Gated \cup Plain \cup {"get_execution"}
          /\ {p.complete, p.confirmed, p.byId, p.byName, p.linked} \subseteq BOOLEAN
          /\ {p.repo, p.number} \subseteq Nat /\ p.target \in {"auto", "issue", "pr"}

VARIABLES
  trackerPlan,   \* call -> its plan
  trackerStep,   \* call -> how far it is
  trackerAnswer, \* call -> what it answers
  forms,         \* call -> forms of its command not tried yet
  dialect,       \* what the CLI knows now
  effects,       \* what the tracker carried out, with the call and the form
  misread,       \* call -> answers that read as if the command was unknown though it was carried out
  execution,     \* the GitHub link of the execution: repository, number, kind (0: none)
  aim,           \* call -> the target a comment resolved
  keyring,       \* whose token the keyring gives for the bot
  token,         \* call -> the owner of the token it holds
  comments,      \* comments on GitHub: call, target, author
  moves

trackerVars == <<trackerPlan, trackerStep, trackerAnswer, forms, dialect, effects, misread, execution, aim, keyring,
                 token, comments, moves>>

Bot == "bot"
Accounts == {Bot, "somebody", "nobody"}
NoLink == [repo |-> 0, number |-> 0, kind |-> "issue"]
Linked == [repo |-> 1, number |-> 1, kind |-> "pr"]
NoAim == [repo |-> 0, number |-> 0, kind |-> "auto"]

Verbs ==
  {"update", "assign", "retry", "rerun", "run retry", "resume", "review", "request-review", "status", "get", "view", "show",
   "create"}
FormRecords == [verb : Verbs, who : {"id", "name", "none"}]
Targets == [repo : Nat, number : Nat, kind : {"auto", "issue", "pr"}]

TrackerTypeOK ==
  /\ trackerPlan \in TrackerPlans /\ dialect \in Dialects
  /\ trackerStep \in [TrackerCalls -> {"out", "run", "aim", "token", "identity", "post", "answered"}]
  /\ trackerAnswer \in
       [TrackerCalls -> {"none", "confirm", "bad_request", "failed", "done", "raw", "commented", "unsure"}]
  /\ forms \in [TrackerCalls -> Seq(FormRecords)] /\ effects \in Seq([call : TrackerCalls, form : FormRecords])
  /\ misread \in [TrackerCalls -> Nat] /\ keyring \in Accounts /\ token \in [TrackerCalls -> Accounts]
  /\ execution \in Targets /\ execution.kind # "auto" /\ aim \in [TrackerCalls -> Targets]
  /\ comments \in Seq([call : TrackerCalls, target : Targets, author : Accounts]) /\ moves \in 0..MaxMoves

TrackerInit ==
  /\ trackerPlan \in TrackerPlans /\ dialect \in Dialects
  /\ trackerStep = [c \in TrackerCalls |-> "out"] /\ trackerAnswer = [c \in TrackerCalls |-> "none"]
  /\ forms = [c \in TrackerCalls |-> <<>>] /\ effects = <<>> /\ misread = [c \in TrackerCalls |-> 0]
  /\ execution \in {NoLink, Linked}
  /\ aim = [c \in TrackerCalls |-> NoAim]
  /\ keyring \in Accounts /\ token = [c \in TrackerCalls |-> "nobody"] /\ comments = <<>> /\ moves = 0

TrackerGoes(c, from, to) == trackerStep[c] = from /\ trackerStep' = [trackerStep EXCEPT ![c] = to]
Reports(c, from, a) == TrackerGoes(c, from, "answered") /\ trackerAnswer' = [trackerAnswer EXCEPT ![c] = a]
around == <<trackerPlan, dialect, execution, keyring, moves>>

(***************************************************************************)
(* Commands.                                                               *)
(***************************************************************************)
With(person, verbs) == [i \in 1..Len(verbs) |-> Form(verbs[i], person)]

By(wanted, who, verbs) == IF wanted THEN With(who, verbs) ELSE <<>>

AssignForms(p) == By(p.byId, "id", <<"update", "assign">>) \o By(p.byName, "name", <<"update", "assign">>)
RetryForms == With("none", <<"retry", "rerun", "run retry", "resume">>)
ReviewForms(p) ==
  By(p.byName, "name", <<"review", "update">>) \o By(p.byId, "id", <<"review", "update">>)
    \o With("none", <<"review", "request-review", "update">>)
StatusForms == With("none", <<"update", "status">>)
GetForms == With("none", <<"get", "view", "show">>)
PlainForms(p) ==
  With("none", <<CASE p.tool = "update_agent" -> "update" [] p.tool = "dispatch_task" -> "create" [] OTHER -> "get">>)

\* The forms a tool tries, in this order.
FormsOf(p) ==
  CASE p.tool = "assign" -> AssignForms(p)
    [] p.tool = "retry" -> RetryForms
    [] p.tool = "review" -> ReviewForms(p)
    [] p.tool = "status" -> StatusForms
    [] p.tool \in {"comment", "get_execution"} -> GetForms
    [] OTHER -> PlainForms(p)

Reading == {"get", "view", "show"}

\* requireWriteConfirm, then what the tool needs to know before it runs anything.
MayWrite(p) == p.confirmed \/ p.tool \notin Gated

\* Retries, reviews and changes of a status go on without an execution.
Lacks(p) ==
  \/ ~p.complete /\ p.tool \notin {"retry", "review", "status"}
  \/ p.tool = "assign" /\ ~p.byId /\ ~p.byName

TrackerCallArrives(c) ==
  LET p == trackerPlan[c]
      needsLink == p.tool = "comment" /\ p.linked /\ (p.repo = 0 \/ p.number = 0)
  IN /\ \/ ~MayWrite(p) /\ Reports(c, "out", "confirm") /\ UNCHANGED forms
        \/ MayWrite(p) /\ Lacks(p) /\ Reports(c, "out", "bad_request") /\ UNCHANGED forms
        \/ /\ MayWrite(p) /\ ~Lacks(p)
           /\ TrackerGoes(c, "out", IF p.tool = "comment" /\ ~needsLink THEN "aim" ELSE "run")
           /\ forms' = [forms EXCEPT ![c] = FormsOf(p)] /\ UNCHANGED trackerAnswer
     /\ UNCHANGED <<around, effects, misread, aim, token, comments>>

\* What a command does, and how its answer reads: JSON, "unknown command", or
\* anything else.  Words of an answer that is not JSON decide (isUnknownCLICommand):
\* those of a command that was carried out may be taken for "unknown".
Outcomes(f) ==
  IF f \notin dialect THEN {[acts |-> FALSE, reads |-> "unknown"]}
  ELSE {[acts |-> TRUE, reads |-> "json"], [acts |-> TRUE, reads |-> "unknown"], [acts |-> TRUE, reads |-> "other"],
        [acts |-> FALSE, reads |-> "other"]}

\* Mutant: another form is tried after every failure.
GivesUpNever(reads) == reads = "json"

\* runMulticaJSON ends with an answer that is JSON, or says something else than
\* that the command is unknown.
EndsAttempts(reads) == reads # "unknown"

\* runMulticaJSON, one form.
RunForm(c) ==
  /\ trackerStep[c] = "run" /\ trackerPlan[c].tool \notin Plain /\ forms[c] # <<>>
  /\ \E o \in Outcomes(Head(forms[c])) :
       LET f == Head(forms[c])
           acts == o.acts /\ f.verb \notin Reading
       IN /\ effects' = IF acts THEN Append(effects, [call |-> c, form |-> f]) ELSE effects
          /\ misread' = [misread EXCEPT ![c] = IF acts /\ o.reads = "unknown" THEN @ + 1 ELSE @]
          /\ forms' = [forms EXCEPT ![c] = Tail(@)]
          /\ IF o.reads = "json" THEN
               IF trackerPlan[c].tool = "comment"
               THEN TrackerGoes(c, "run", "aim") /\ UNCHANGED trackerAnswer
               ELSE Reports(c, "run", "done")
             ELSE IF EndsAttempts(o.reads) \/ Len(forms[c]) = 1 THEN Reports(c, "run", "failed")
             ELSE UNCHANGED <<trackerStep, trackerAnswer>>
  /\ UNCHANGED <<around, aim, token, comments>>

\* runMulticaCLI: one form, which succeeds or not; output that is not JSON is
\* handed on.
RunPlain(c) ==
  /\ trackerStep[c] = "run" /\ trackerPlan[c].tool \in Plain
  /\ \E o \in Outcomes(Head(forms[c])) :
       /\ effects' = IF o.acts /\ Head(forms[c]).verb \notin Reading
                    THEN Append(effects, [call |-> c, form |-> Head(forms[c])]) ELSE effects
       /\ \/ o.reads = "json" /\ Reports(c, "run", "done")
          \/ o.reads = "other" /\ o.acts /\ Reports(c, "run", "raw")
          \/ o.reads # "json" /\ Reports(c, "run", "failed")
  /\ forms' = [forms EXCEPT ![c] = Tail(@)]
  /\ UNCHANGED <<around, misread, aim, token, comments>>

(***************************************************************************)
(* Comments.                                                               *)
(***************************************************************************)
\* What the call does not name comes from the link of the execution.
Resolved(p, link) ==
  [repo |-> IF p.repo # 0 THEN p.repo ELSE link.repo, number |-> IF p.number # 0 THEN p.number ELSE link.number,
   kind |-> IF p.target # "auto" THEN p.target ELSE IF link.repo # 0 THEN link.kind ELSE "issue"]

ResolveTarget(c) ==
  LET p == trackerPlan[c]
      looked == p.linked /\ (p.repo = 0 \/ p.number = 0)
      goal == Resolved(p, IF looked THEN execution ELSE NoAim)
  IN /\ IF goal.repo = 0 \/ goal.number = 0
        THEN Reports(c, "aim", "bad_request") /\ UNCHANGED aim
        ELSE TrackerGoes(c, "aim", "token") /\ aim' = [aim EXCEPT ![c] = goal] /\ UNCHANGED trackerAnswer
     /\ UNCHANGED <<around, forms, effects, misread, token, comments>>

\* "gh auth token --user": the keyring gives a token for the bot, or none.
TakeToken(c) ==
  /\ IF keyring = "nobody"
     THEN Reports(c, "token", "failed") /\ UNCHANGED token
     ELSE TrackerGoes(c, "token", "identity") /\ token' = [token EXCEPT ![c] = keyring] /\ UNCHANGED trackerAnswer
  /\ UNCHANGED <<around, forms, effects, misread, aim, comments>>

\* Mutant: any account that answers will do.
AnyAccount(owner) == owner # "nobody"

IsBot(owner) == owner = Bot

\* The identity preflight, with the token in hand.
CheckIdentity(c) ==
  /\ \/ IsBot(token[c]) /\ TrackerGoes(c, "identity", "post") /\ UNCHANGED trackerAnswer
     \/ Reports(c, "identity", "failed")
  /\ UNCHANGED <<around, forms, effects, misread, aim, token, comments>>

\* POST: the comment is made or not; an answer that is lost, or that names another
\* author, asks for a look at GitHub.
PostComment(c) ==
  /\ \E made \in BOOLEAN, told \in BOOLEAN :
       /\ comments' = IF made THEN Append(comments, [call |-> c, target |-> aim[c], author |-> token[c]]) ELSE comments
       /\ Reports(c, "post", IF made /\ told /\ token[c] = Bot THEN "commented" ELSE "unsure")
  /\ UNCHANGED <<around, forms, effects, misread, aim, token>>

\* Another CLI is installed, the keyring changes, the execution gets another link.
MoveWorld ==
  /\ moves < MaxMoves /\ moves' = moves + 1
  /\ \/ dialect' \in Dialects \ {dialect} /\ UNCHANGED <<keyring, execution>>
     \/ keyring' \in Accounts \ {keyring} /\ UNCHANGED <<dialect, execution>>
     \/ execution' = [repo |-> 2, number |-> 2, kind |-> "issue"] /\ execution' # execution /\ UNCHANGED <<dialect, keyring>>
  /\ UNCHANGED <<trackerPlan, trackerStep, trackerAnswer, forms, effects, misread, aim, token, comments>>

TrackerNext ==
  \/ \E c \in TrackerCalls :
       \/ TrackerCallArrives(c) \/ RunForm(c) \/ RunPlain(c) \/ ResolveTarget(c)
       \/ TakeToken(c) \/ CheckIdentity(c) \/ PostComment(c)
  \/ MoveWorld

TrackerSpec == TrackerInit /\ [][TrackerNext]_trackerVars

(***************************************************************************)
(* What is promised.                                                       *)
(***************************************************************************)
EffectsOf(c) == {i \in DOMAIN effects : effects[i].call = c}
CommentsOf(c) == {i \in DOMAIN comments : comments[i].call = c}

\* Of the gated tools nothing happens before the user has confirmed it, and a call
\* that asks, or is refused, has done nothing (requireWriteConfirm).
ConfirmedBeforeWrite ==
  \A c \in TrackerCalls :
    /\ trackerPlan[c].tool \in Gated /\ ~trackerPlan[c].confirmed => EffectsOf(c) = {} /\ CommentsOf(c) = {}
    /\ trackerAnswer[c] \in {"confirm", "bad_request"} => EffectsOf(c) = {} /\ CommentsOf(c) = {}

\* Trying several forms does not carry a command out twice, unless an answer of
\* what was carried out was taken for "unknown command"; who is told that it is
\* done has had it done, by the last form tried (runMulticaJSON,
\* isUnknownCLICommand).
OneFormActs ==
  \A c \in TrackerCalls :
    /\ Cardinality(EffectsOf(c)) <= 1 + misread[c]
    /\ trackerAnswer[c] = "done" /\ trackerPlan[c].tool \notin {"get_execution", "get_agent", "get_issue"} =>
         \E i \in EffectsOf(c) : \A j \in EffectsOf(c) : j <= i /\ Len(forms[c]) < Len(FormsOf(trackerPlan[c]))

\* An assignment goes to a person the call named, in the way it named them
\* (toolMulticaAssignExecution).
AssignedAsAsked ==
  \A i \in DOMAIN effects :
    LET p == trackerPlan[effects[i].call]
    IN p.tool = "assign" => (effects[i].form.who = "id" /\ p.byId) \/ (effects[i].form.who = "name" /\ p.byName)

\* Every comment is the bot's, one of a call at most, at the target the call
\* resolved; who is told of a comment has made it (runBotGitHubComment).
CommentsAreTheBots ==
  /\ \A i \in DOMAIN comments :
       comments[i].author = Bot /\ comments[i].target = aim[comments[i].call] /\ comments[i].target.number # 0
  /\ \A c \in TrackerCalls :
       Cardinality(CommentsOf(c)) <= 1 /\ (trackerAnswer[c] = "commented" => CommentsOf(c) # {})

TrackerHolds == ConfirmedBeforeWrite /\ OneFormActs /\ AssignedAsAsked /\ CommentsAreTheBots

\* Violated: a review is asked of the reviewer the call names (the last forms
\* name nobody, and the call is told that the review was requested).
ReviewerIsAsked ==
  \A i \in DOMAIN effects :
    LET p == trackerPlan[effects[i].call]
    IN p.tool = "review" /\ (p.byId \/ p.byName) => effects[i].form.who # "none"

\* Violated: number and repository of a comment are of one source (the repository
\* of the call goes with the number of the execution's link).
TargetIsOfOneSource ==
  \A i \in DOMAIN comments :
    LET p == trackerPlan[comments[i].call] IN (p.repo # 0) = (p.number # 0)
================================================================================
