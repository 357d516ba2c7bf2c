-------------------------------- MODULE Browser --------------------------------
(***************************************************************************)
(* The browser tool (toolBrowser in internal/server/tools_browser.go) over *)
(* the Browser Service, a child process that internal/browseruse/service   *)
(* starts, talks to by lines, one request at a time, and replaces when     *)
(* anything goes wrong.                                                    *)
(*                                                                         *)
(* One tab of each browser is modelled, by the call that changed its URL   *)
(* last.  What the child and the browser do is external, but for the       *)
(* permission prompts, which browser_service_sidecar.mjs answers.          *)
(***************************************************************************)
EXTENDS Integers, Sequences, FiniteSets

CONSTANTS
  BrowserCalls,      \* calls of browser, other than status and tabs
  BrowserSession,    \* the remote session of a call
  BrowserCommand,    \* the digest of session, instance and command of a call
  Acknowledged,      \* calls that carry user_confirmed=true
  Navigating,        \* calls that may change the URL of the tab
  Prompted,          \* calls for whose command the browser asks for permission
  Instances,         \* browsers with the extension
  Nobody,
  MaxBrowserFaults,  \* bound: failing statements and steps, noise, ends of the child
  MaxBrowserMoves    \* bound: browsers that connect or disconnect

ASSUME BrowserConstants ==
  /\ {MaxBrowserFaults, MaxBrowserMoves} \subseteq Nat
  /\ Acknowledged \cup Navigating \cup Prompted \subseteq BrowserCalls /\ Nobody \notin BrowserCalls
  /\ BrowserCalls \cap {"start", "noise", "refused"} = {}

VARIABLES
  browserCall,  \* step, instance, approval, URL before, result of each call
  inService,    \* the call that holds Service.mu
  child,        \* Service.cmd: running or not, sessions with a permission
  request,      \* the request the child has not answered
  lines,        \* what the child wrote and nobody has read
  confirmation, \* pending approvals of the tool, by command
  connected,    \* instances that can be reached
  tab,          \* who changed the URL of the tab of each instance
  performed,    \* how often the command of a call was carried out
  crossed,      \* calls whose tab another one changed after they looked at it
  permitted,    \* sessions in which the user confirmed a prompt
  browserFaults, browserMoves

serviceVars == <<inService, child, request, lines>>
worldVars == <<tab, performed, crossed>>
browserBounds == <<browserFaults, browserMoves>>
browserVars == <<browserCall, serviceVars, confirmation, connected, worldVars, permitted, browserBounds>>

BrowserSessions == {BrowserSession[c] : c \in BrowserCalls}
BrowserCommands == {BrowserCommand[c] : c \in BrowserCalls}
Executes == {"before", "run", "again", "after"}
BrowserSteps == {"inspect", "look", "close", "consume", "judge", "ask", "done"} \cup Executes
BrowserOutcomes == {"ok", "prompt", "detached", "late", "refused", "failed"}
BrowserResults == BrowserOutcomes \cup {"none", "error", "need_confirmation"}
Ids == BrowserCalls \X Executes

Told == BrowserOutcomes \cup BrowserCalls \cup {"start", "noise"}

BrowserTypeOK ==
  /\ browserCall \in
       [BrowserCalls ->
          [step : BrowserSteps, sent : BOOLEAN, instance : Instances \cup {Nobody}, result : BrowserResults,
           approval : BrowserCalls \cup {Nobody}, before : Told \cup {Nobody}, after : Told \cup {Nobody}]]
  /\ inService \in BrowserCalls \cup {Nobody}
  /\ child \in [state : {"none", "up", "dead"}, granted : SUBSET BrowserSessions]
  /\ request \in Ids \cup {<<>>} /\ lines \in Seq([of : Ids \cup {<<>>}, what : Told])
  /\ confirmation \in [BrowserCommands -> BrowserCalls \cup {Nobody}]
  /\ connected \subseteq Instances /\ tab \in [Instances -> BrowserCalls \cup {"start"}]
  /\ performed \in [BrowserCalls -> 0..2] /\ crossed \subseteq BrowserCalls /\ permitted \subseteq BrowserSessions
  /\ browserFaults \in 0..MaxBrowserFaults /\ browserMoves \in 0..MaxBrowserMoves

NewCall ==
  [step |-> "inspect", sent |-> FALSE, instance |-> Nobody, approval |-> Nobody,
   before |-> Nobody, after |-> Nobody, result |-> "none"]
NoChild == [state |-> "none", granted |-> {}]

BrowserInit ==
  /\ browserCall = [c \in BrowserCalls |-> NewCall]
  /\ inService = Nobody /\ child = NoChild /\ request = <<>> /\ lines = <<>>
  /\ confirmation = [d \in BrowserCommands |-> Nobody]
  /\ connected \in {Instances} \cup {{i} : i \in Instances}
  /\ tab = [i \in Instances |-> "start"] /\ performed = [c \in BrowserCalls |-> 0]
  /\ crossed = {} /\ permitted = {} /\ browserFaults = 0 /\ browserMoves = 0

-----------------------------------------------------------------------------
\* Helpers

BrowserAt(c, step) == browserCall[c].step = step
PutCall(c, next) == browserCall' = [browserCall EXCEPT ![c] = next]
GoesTo(c, step) == PutCall(c, [browserCall[c] EXCEPT !.step = step, !.sent = FALSE])
CallEnds(c, result) == PutCall(c, [browserCall[c] EXCEPT !.step = "done", !.sent = FALSE, !.result = result])
BrowserFault == browserFaults < MaxBrowserFaults /\ browserFaults' = browserFaults + 1

\* resetLocked: the child is killed and what it wrote is lost
Resets == child' = NoChild /\ request' = <<>> /\ lines' = <<>>

\* What an Execute that failed leads to: the call goes on without the URL before
\* the command, and fails without the rest.
FailedExecute(c) ==
  IF browserCall[c].step = "before" THEN GoesTo(c, "run") ELSE CallEnds(c, "error")

-----------------------------------------------------------------------------
\* The tool

\* InspectOfficial and FilterBackends: there must be one instance
Inspect(c) ==
  /\ BrowserAt(c, "inspect")
  /\ IF Cardinality(connected) = 1
     THEN PutCall(c, [browserCall[c] EXCEPT !.step = "look", !.instance = CHOOSE i \in connected : TRUE])
     ELSE CallEnds(c, "error")
  /\ UNCHANGED <<serviceVars, confirmation, connected, worldVars, permitted, browserBounds>>

\* whether the user confirms or not
LookForAnyApproval(c) ==
  /\ BrowserAt(c, "look")
  /\ PutCall(c, [browserCall[c] EXCEPT
       !.step = IF c \in Navigating THEN "before" ELSE "run", !.approval = confirmation[BrowserCommand[c]]])
  /\ permitted' = permitted \cup
       {BrowserSession[c] : x \in {c} \cap {a \in Acknowledged : confirmation[BrowserCommand[a]] # Nobody}}
  /\ UNCHANGED <<serviceVars, confirmation, connected, worldVars, browserBounds>>

\* pendingBrowserConfirmation: the approval of the command, if the user confirms
LookForApproval(c) ==
  LET approval == IF c \in Acknowledged THEN confirmation[BrowserCommand[c]] ELSE Nobody IN
  /\ BrowserAt(c, "look")
  /\ PutCall(c, [browserCall[c] EXCEPT
       !.step = IF c \in Navigating THEN "before" ELSE "run", !.approval = approval])
  /\ permitted' = IF approval # Nobody THEN permitted \cup {BrowserSession[c]} ELSE permitted
  /\ UNCHANGED <<serviceVars, confirmation, connected, worldVars, browserBounds>>

\* Execute: the child is started when there is none; one that ended is noticed
\* by a failure, or silently replaced when it ended well.
Execute(c) ==
  /\ browserCall[c].step \in Executes /\ ~browserCall[c].sent /\ inService = Nobody
  /\ \/ /\ inService' = c /\ request' = <<c, browserCall[c].step>>
        /\ child' = IF child.state = "up" THEN child ELSE [state |-> "up", granted |-> {}]
        /\ lines' = IF child.state = "up" THEN lines ELSE <<>>
        /\ PutCall(c, [browserCall[c] EXCEPT !.sent = TRUE]) /\ UNCHANGED browserFaults
     \/ child.state = "dead" /\ Resets /\ FailedExecute(c) /\ UNCHANGED <<inService, browserFaults>>
     \/ child.state # "up" /\ BrowserFault /\ Resets /\ FailedExecute(c) /\ UNCHANGED inService
  /\ UNCHANGED <<confirmation, connected, worldVars, permitted, browserMoves>>

\* What the answer of the child leads to: the URL of the tab, or the outcome of
\* the command.
Judged(c, what) ==
  LET call == [browserCall[c] EXCEPT !.sent = FALSE]
      url == IF what = "refused" THEN Nobody ELSE what IN
  CASE call.step = "before" -> [call EXCEPT !.step = "run", !.before = url]
    [] call.step = "run" /\ what = "detached" -> [call EXCEPT !.step = "close"]
    [] call.step = "after" -> [call EXCEPT !.step = "judge", !.after = url]
    [] OTHER -> [call EXCEPT !.step = "consume", !.result = what]

\* A line that cannot be decoded fails the call and leaves the child as it is;
\* the answer to another request resets it.
Receive(c) ==
  /\ inService = c /\ lines # <<>>
  /\ CASE Head(lines).what = "noise" -> lines' = Tail(lines) /\ FailedExecute(c) /\ UNCHANGED <<child, request>>
       [] Head(lines).of = <<c, browserCall[c].step>> ->
            lines' = Tail(lines) /\ PutCall(c, Judged(c, Head(lines).what)) /\ UNCHANGED <<child, request>>
       [] OTHER -> Resets /\ FailedExecute(c)
  /\ inService' = Nobody
  /\ UNCHANGED <<confirmation, connected, worldVars, permitted, browserBounds>>

\* The context of the call is done, also when the answer is there; or the pipe
\* of a child that ended is closed, whatever it had written.
AbandonCall(c) ==
  /\ inService = c /\ inService' = Nobody /\ Resets
  /\ \/ child.state = "dead" /\ UNCHANGED browserFaults
     \/ BrowserFault
  /\ FailedExecute(c)
  /\ UNCHANGED <<confirmation, connected, worldVars, permitted, browserMoves>>

\* A debugger that is detached: the child is replaced, once
CloseService(c) ==
  /\ BrowserAt(c, "close") /\ inService = Nobody
  /\ Resets /\ GoesTo(c, "again")
  /\ UNCHANGED <<inService, confirmation, connected, worldVars, permitted, browserBounds>>

\* The approval is consumed, if it can be; its failure is ignored.
ConsumeUsed(c) ==
  LET used == browserCall[c].approval
      result == browserCall[c].result
      d == BrowserCommand[c] IN
  /\ BrowserAt(c, "consume")
  /\ \/ /\ confirmation' = IF used # Nobody /\ confirmation[d] = used
                           THEN [confirmation EXCEPT ![d] = Nobody] ELSE confirmation
        /\ UNCHANGED browserFaults
     \/ used # Nobody /\ BrowserFault /\ UNCHANGED confirmation
  /\ CASE result = "prompt" -> GoesTo(c, "ask")
       [] result = "late" /\ browserCall[c].before # Nobody -> GoesTo(c, "after")
       [] OTHER -> CallEnds(c, IF result = "ok" THEN "ok" ELSE "error")
  /\ UNCHANGED <<serviceVars, connected, worldVars, permitted, browserMoves>>

\* browserConfirmationRequired: one pending approval for a command and prompt
Ask(c) ==
  LET d == BrowserCommand[c] IN
  /\ BrowserAt(c, "ask")
  /\ \/ /\ confirmation' = IF confirmation[d] = Nobody THEN [confirmation EXCEPT ![d] = c] ELSE confirmation
        /\ CallEnds(c, "need_confirmation") /\ UNCHANGED browserFaults
     \/ BrowserFault /\ CallEnds(c, "error") /\ UNCHANGED confirmation
  /\ UNCHANGED <<serviceVars, connected, worldVars, permitted, browserMoves>>

\* browserNavigationAdvanced: a navigation that came late or whose node went
\* stale has succeeded when the URL has changed
Judge(c) ==
  /\ BrowserAt(c, "judge")
  /\ CallEnds(c, IF browserCall[c].after \notin {Nobody, browserCall[c].before} THEN "ok" ELSE "error")
  /\ UNCHANGED <<serviceVars, confirmation, connected, worldVars, permitted, browserBounds>>

-----------------------------------------------------------------------------
\* The child and the browsers

\* A navigation may report that it is late, or that its node went stale.
Late(c) == IF c \in Navigating THEN {"late"} ELSE {}

CarriesOut(c) ==
  /\ performed' = [performed EXCEPT ![c] = @ + 1]
  /\ IF c \in Navigating
     THEN /\ tab' = [tab EXCEPT ![browserCall[c].instance] = c]
          /\ crossed' = crossed \cup {o \in BrowserCalls \ {c} :
               browserCall[o].instance = browserCall[c].instance /\ browserCall[o].before # Nobody}
     ELSE UNCHANGED <<tab, crossed>>

\* executeRequest and handleElicitation: a prompt is accepted when its
\* fingerprint was approved, for the session from then on, and declined
\* otherwise.  The child may end before it answers.
AnswerRequest ==
  \E c \in BrowserCalls, at \in Executes :
    LET call == browserCall[c]
        may == c \notin Prompted \/ BrowserSession[c] \in child.granted \/ call.approval # Nobody
        Says(what) == lines' = Append(lines, [of |-> request, what |-> what]) IN
    /\ request = <<c, at>> /\ child.state = "up" /\ request' = <<>>
    /\ child' \in [state : {"up", "dead"},
                   granted : {IF c \in Prompted /\ may /\ at \in {"run", "again"}
                              THEN child.granted \cup {BrowserSession[c]} ELSE child.granted}]
    /\ IF child'.state = "dead" THEN BrowserFault ELSE UNCHANGED browserFaults
    /\ CASE call.instance \notin connected -> Says("refused") /\ UNCHANGED worldVars
         [] call.instance \in connected /\ at \in {"before", "after"} -> Says(tab[call.instance]) /\ UNCHANGED worldVars
         [] call.instance \in connected /\ at \in {"run", "again"} /\ ~may -> Says("prompt") /\ UNCHANGED worldVars
         [] OTHER ->
              \/ CarriesOut(c) /\ \E what \in {"ok"} \cup Late(c) : Says(what)
              \/ UNCHANGED worldVars /\ \E what \in {"detached", "failed"} \cup Late(c) : Says(what)
    /\ UNCHANGED <<browserCall, inService, confirmation, connected, permitted, browserMoves>>

\* The child ends, or something that is no answer is written to its output.
ChildDies ==
  /\ child.state = "up" /\ BrowserFault
  /\ child' = [child EXCEPT !.state = "dead"] /\ request' = <<>>
  /\ UNCHANGED <<browserCall, inService, lines, confirmation, connected, worldVars, permitted, browserMoves>>

Noise ==
  /\ child.state = "up" /\ BrowserFault /\ lines' = Append(lines, [of |-> <<>>, what |-> "noise"])
  /\ UNCHANGED <<browserCall, inService, child, request, confirmation, connected, worldVars, permitted, browserMoves>>

Reconnect(i) ==
  /\ browserMoves < MaxBrowserMoves /\ browserMoves' = browserMoves + 1
  /\ connected' = IF i \in connected THEN connected \ {i} ELSE connected \cup {i}
  /\ UNCHANGED <<browserCall, serviceVars, confirmation, worldVars, permitted, browserFaults>>

BrowserNext ==
  \/ \E c \in BrowserCalls :
       \/ Inspect(c) \/ LookForApproval(c) \/ Execute(c) \/ Receive(c) \/ AbandonCall(c)
       \/ CloseService(c) \/ ConsumeUsed(c) \/ Ask(c) \/ Judge(c)
  \/ AnswerRequest \/ ChildDies \/ Noise
  \/ \E i \in Instances : Reconnect(i)

BrowserSpec == BrowserInit /\ [][BrowserNext]_browserVars

-----------------------------------------------------------------------------
\* Properties

\* No command is carried out twice for one call: it is repeated only when the
\* browser has refused it.
CarriedOutOnce == \A c \in BrowserCalls : performed[c] <= 1

\* A call that says that it succeeded was carried out, whatever was left in the
\* pipe by calls before it; a navigation that came late is taken for another one
\* that changed the tab meanwhile.
SuccessIsOwn ==
  \A c \in BrowserCalls : BrowserAt(c, "done") /\ browserCall[c].result = "ok" => performed[c] = 1 \/ c \in crossed

\* What needs a permission is carried out only in a session whose user has
\* confirmed a prompt there.
OnlyPermitted == \A c \in Prompted : performed[c] > 0 => BrowserSession[c] \in permitted

BrowserHolds == CarriedOutOnce /\ SuccessIsOwn /\ OnlyPermitted

\* Without the exception: a late navigation may claim what another call did.
SuccessIsNeverBorrowed ==
  \A c \in BrowserCalls : BrowserAt(c, "done") /\ browserCall[c].result = "ok" => performed[c] = 1
=================================================================================
