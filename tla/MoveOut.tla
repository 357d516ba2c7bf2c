-------------------------------- MODULE MoveOut --------------------------------
(***************************************************************************)
(* Workspace move-out: internal/server/tools_workspace_delete.go and the   *)
(* requests of internal/deletion/service.go.  A prepare freezes a manifest *)
(* under an idempotency key; a submit that presents its UUID moves the     *)
(* targets to the trash, one after the other and each in the ways that the *)
(* platform knows, until one works: commands, after each of which the path *)
(* is looked at, and a rename.                                             *)
(*                                                                         *)
(* A target is "frozen" as long as it is what the prepare has shown;       *)
(* "changed" when it has other contents, "link" when a symbolic link has   *)
(* taken its place, "othertype" when something else has, "gone" when       *)
(* nothing has.                                                            *)
(***************************************************************************)
EXTENDS Integers, Sequences

CONSTANTS
  PrepareCalls,    \* prepares with this key, these targets and this purpose
  SubmitCalls,     \* submits with the UUID of the request
  MoveKinds,       \* kinds of the targets, in the order of the manifest
  MoveWays,        \* ways of the platform: two commands and a rename on Linux, one
                   \* command and a rename on macOS, two commands on Windows
  MaxTouches,      \* bound: changes of targets by others
  MaxMoveFaults,   \* bound: failing statements, commands cut off
  MaxMoveCrashes   \* bound: crashes

MoveCalls == PrepareCalls \cup SubmitCalls

ASSUME MoveConstants ==
  /\ PrepareCalls \cap SubmitCalls = {}
  /\ MoveKinds \in Seq({"file", "directory", "symlink"}) /\ MoveKinds # <<>>
  /\ MoveWays \in Seq({"command", "rename"}) /\ MoveWays # <<>>
  /\ \A w \in DOMAIN MoveWays : MoveWays[w] = "rename" => w = Len(MoveWays)
  /\ {MaxTouches, MaxMoveFaults, MaxMoveCrashes} \subseteq Nat

VARIABLES
  moveRow,      \* delete_requests: status, whether it has expired, its result
  moveDisk,     \* what each target is
  moveTrash,    \* what each target's path has given to the trash
  moveLate,     \* targets that a command nobody waits for may still take
  moveAt,       \* what a call is about to do, to which target and in which way
  moveReport,   \* results of a submit so far
  moveAnswer,   \* answer of a call and the results it carries
  moveDisturbed,  \* history: targets that others changed, or that a command was
                  \* left to, while they were being moved
  moveTouches, moveFaults, moveCrashes

moveFiles == <<moveDisk, moveTrash, moveLate, moveDisturbed>>
moveBounds == <<moveTouches, moveFaults, moveCrashes>>
moveVars == <<moveRow, moveFiles, moveAt, moveReport, moveAnswer, moveBounds>>

Targets == DOMAIN MoveKinds
TrashWays == DOMAIN MoveWays
Things == {"frozen", "changed", "link", "othertype"}
Results == [Targets -> {"none", "moved", "failed"}]
NoResults == [t \in Targets |-> "none"]
Concluded == {"committed", "partial", "failed"}

MoveTypeOK ==
  /\ moveRow \in [status : {"none", "prepared", "committing"} \cup Concluded,
                  expired : BOOLEAN, result : Results]
  /\ moveDisk \in [Targets -> Things \cup {"gone"}] /\ moveTrash \in [Targets -> Seq(Things)]
  /\ moveLate \subseteq Targets /\ moveDisturbed \subseteq Targets
  /\ moveAt \in [MoveCalls -> [step : {"idle", "freeze", "create", "mark", "inspect", "try", "look",
                                       "complete", "done"}, target : Targets, way : TrashWays]]
  /\ moveReport \in [SubmitCalls -> Results]
  /\ moveAnswer \in [MoveCalls -> [kind : {"none", "shown", "stale", "expired", "progress", "conflict",
                                           "result", "in_doubt", "error", "lost"}, result : Results]]
  /\ moveTouches \in 0..MaxTouches /\ moveFaults \in 0..MaxMoveFaults /\ moveCrashes \in 0..MaxMoveCrashes

MoveInit ==
  /\ moveRow = [status |-> "none", expired |-> FALSE, result |-> NoResults]
  /\ moveDisk = [t \in Targets |-> "frozen"] /\ moveTrash = [t \in Targets |-> <<>>]
  /\ moveLate = {} /\ moveDisturbed = {}
  /\ moveAt = [c \in MoveCalls |-> [step |-> "idle", target |-> 1, way |-> 1]]
  /\ moveReport = [c \in SubmitCalls |-> NoResults]
  /\ moveAnswer = [c \in MoveCalls |-> [kind |-> "none", result |-> NoResults]]
  /\ moveTouches = 0 /\ moveFaults = 0 /\ moveCrashes = 0

-----------------------------------------------------------------------------
\* Helpers

MoveFault == moveFaults < MaxMoveFaults /\ moveFaults' = moveFaults + 1

MoveGo(c, step) == moveAt' = [moveAt EXCEPT ![c].step = step] /\ UNCHANGED moveAnswer

MoveReply(c, kind, result) ==
  /\ moveAt' = [moveAt EXCEPT ![c].step = "done"]
  /\ moveAnswer' = [moveAnswer EXCEPT ![c] = [kind |-> kind, result |-> result]]

-----------------------------------------------------------------------------
\* toolWorkspaceMoveOutPrepare

\* inferMoveOutTargetKinds wants the targets there, with their revisions; then
\* the key is looked up: a request of any age is shown again.
FindRequest(c) ==
  /\ moveAt[c].step = "idle"
  /\ IF \E t \in Targets : moveDisk[t] = "gone" \/ (MoveKinds[t] = "file" /\ moveDisk[t] # "frozen")
     THEN MoveReply(c, "stale", NoResults)
     ELSE IF moveRow.status # "none" THEN MoveReply(c, "shown", NoResults) ELSE MoveGo(c, "freeze")
  /\ UNCHANGED <<moveRow, moveFiles, moveReport, moveBounds>>

\* freezeMoveOutManifest looks at every target again.
Freeze(c) ==
  /\ moveAt[c].step = "freeze"
  /\ IF \A t \in Targets : moveDisk[t] = "frozen" THEN MoveGo(c, "create") ELSE MoveReply(c, "stale", NoResults)
  /\ UNCHANGED <<moveRow, moveFiles, moveReport, moveBounds>>

\* Create: the key is unique, the loser shows what the winner has created.
CreateRequest(c) ==
  /\ moveAt[c].step = "create"
  /\ \/ /\ moveRow' = IF moveRow.status = "none" THEN [moveRow EXCEPT !.status = "prepared"] ELSE moveRow
        /\ MoveReply(c, "shown", NoResults) /\ UNCHANGED moveFaults
     \/ MoveFault /\ MoveReply(c, "error", NoResults) /\ UNCHANGED moveRow
  /\ UNCHANGED <<moveFiles, moveReport, moveTouches, moveCrashes>>

-----------------------------------------------------------------------------
\* toolWorkspaceMoveOutCommit

\* The row is read; only a prepared one goes on.
Submit(c) ==
  /\ moveAt[c].step = "idle"
  /\ \E p \in PrepareCalls : moveAnswer[p].kind = "shown"
  /\ \/ moveRow.expired /\ MoveReply(c, "expired", NoResults)
     \/ ~moveRow.expired /\ moveRow.status \in Concluded /\ MoveReply(c, "result", moveRow.result)
     \/ ~moveRow.expired /\ moveRow.status = "committing" /\ MoveReply(c, "progress", NoResults)
     \/ ~moveRow.expired /\ moveRow.status = "prepared" /\ MoveGo(c, "mark")
  /\ UNCHANGED <<moveRow, moveFiles, moveReport, moveBounds>>

\* Bug: the update does not look at the status.
MarkAnyStatus(c) ==
  /\ moveAt[c].step = "mark"
  /\ moveRow' = [moveRow EXCEPT !.status = "committing"]
  /\ MoveGo(c, "inspect")
  /\ UNCHANGED <<moveFiles, moveReport, moveBounds>>

\* MarkCommitting: one submit wins.
MarkCommitting(c) ==
  /\ moveAt[c].step = "mark"
  /\ \/ /\ moveRow.status = "prepared" /\ ~moveRow.expired
        /\ moveRow' = [moveRow EXCEPT !.status = "committing"]
        /\ MoveGo(c, "inspect") /\ UNCHANGED moveFaults
     \/ /\ moveRow.status = "committing"
        /\ MoveReply(c, "progress", NoResults) /\ UNCHANGED <<moveRow, moveFaults>>
     \/ /\ moveRow.status \in Concluded \/ (moveRow.status = "prepared" /\ moveRow.expired)
        /\ MoveReply(c, "conflict", NoResults) /\ UNCHANGED <<moveRow, moveFaults>>
     \/ MoveFault /\ MoveReply(c, "conflict", NoResults) /\ UNCHANGED moveRow
  /\ UNCHANGED <<moveFiles, moveReport, moveTouches, moveCrashes>>

\* inspectMoveOutTargetForCommit: a symbolic link is moved whatever was frozen,
\* a directory whatever it holds, a file only with its revision.
Movable(t) ==
  \/ moveDisk[t] \in {"frozen", "link"}
  \/ moveDisk[t] = "changed" /\ MoveKinds[t] # "file"

\* The result of a target, and the next one.
Report(c, t, result) ==
  /\ moveReport' = [moveReport EXCEPT ![c][t] = result]
  /\ moveAt' = [moveAt EXCEPT ![c] = IF t + 1 \in Targets THEN [step |-> "inspect", target |-> t + 1, way |-> 1]
                                                          ELSE [step |-> "complete", target |-> t, way |-> 1]]
  /\ UNCHANGED moveAnswer

Inspect(c) ==
  LET t == moveAt[c].target IN
  /\ moveAt[c].step = "inspect"
  /\ IF Movable(t) THEN MoveGo(c, "try") /\ UNCHANGED moveReport ELSE Report(c, t, "failed")
  /\ UNCHANGED <<moveRow, moveFiles, moveBounds>>

\* What is at the path goes to the trash.
ToTrash(t) ==
  /\ moveDisk[t] # "gone"
  /\ moveDisk' = [moveDisk EXCEPT ![t] = "gone"]
  /\ moveTrash' = [moveTrash EXCEPT ![t] = Append(moveTrash[t], moveDisk[t])]

\* boundedCommand, whose result nobody reads: the command moves what is there, or
\* does nothing, or is cut off after two seconds while what it asked for goes on.
TrashCommand(c) ==
  LET t == moveAt[c].target IN
  /\ moveAt[c].step = "try" /\ MoveWays[moveAt[c].way] = "command"
  /\ \/ ToTrash(t) /\ UNCHANGED <<moveLate, moveDisturbed, moveFaults>>
     \/ UNCHANGED <<moveFiles, moveFaults>>
     \/ /\ MoveFault /\ UNCHANGED <<moveDisk, moveTrash>>
        /\ moveLate' = moveLate \cup {t} /\ moveDisturbed' = moveDisturbed \cup {t}
  /\ MoveGo(c, "look")
  /\ UNCHANGED <<moveRow, moveReport, moveTouches, moveCrashes>>

\* Bug: the command is trusted to have moved the target.
LookTrusting(c) ==
  /\ moveAt[c].step = "look"
  /\ Report(c, moveAt[c].target, "moved")
  /\ UNCHANGED <<moveRow, moveFiles, moveBounds>>

\* os.Lstat after a command: the target counts as moved when it is not there,
\* whoever took it; when it is, the next way is tried.
Look(c) ==
  LET t == moveAt[c].target IN
  /\ moveAt[c].step = "look"
  /\ \/ moveDisk[t] = "gone" /\ Report(c, t, "moved")
     \/ /\ moveDisk[t] # "gone" /\ moveAt[c].way + 1 \in TrashWays
        /\ moveAt' = [moveAt EXCEPT ![c].step = "try", ![c].way = moveAt[c].way + 1]
        /\ UNCHANGED <<moveReport, moveAnswer>>
     \/ moveDisk[t] # "gone" /\ moveAt[c].way + 1 \notin TrashWays /\ Report(c, t, "failed")
  /\ UNCHANGED <<moveRow, moveFiles, moveBounds>>

\* os.Rename to the trash folder, or a failure of it or of the folder.
Rename(c) ==
  LET t == moveAt[c].target IN
  /\ moveAt[c].step = "try" /\ MoveWays[moveAt[c].way] = "rename"
  /\ \/ ToTrash(t) /\ Report(c, t, "moved")
     \/ UNCHANGED <<moveDisk, moveTrash>> /\ Report(c, t, "failed")
  /\ UNCHANGED <<moveRow, moveLate, moveDisturbed, moveBounds>>

Verdict(report) ==
  IF \A t \in Targets : report[t] = "moved" THEN "committed"
  ELSE IF \E t \in Targets : report[t] = "moved" THEN "partial" ELSE "failed"

\* Complete; when it fails the request stays committing.
CompleteMove(c) ==
  /\ moveAt[c].step = "complete"
  /\ \/ /\ moveRow' = [moveRow EXCEPT !.status = Verdict(moveReport[c]), !.result = moveReport[c]]
        /\ MoveReply(c, "result", moveReport[c]) /\ UNCHANGED moveFaults
     \/ MoveFault /\ MoveReply(c, "in_doubt", NoResults) /\ UNCHANGED moveRow
  /\ UNCHANGED <<moveFiles, moveReport, moveTouches, moveCrashes>>

-----------------------------------------------------------------------------
\* The world around

\* A target that a submit has inspected and not yet reported, or that is left to a
\* command.
BeingMoved(t) ==
  \/ t \in moveLate
  \/ \E c \in SubmitCalls : moveAt[c].step \in {"try", "look"} /\ moveAt[c].target = t

\* Somebody else changes, replaces, removes or creates a target.
Touch(t, thing) ==
  /\ moveTouches < MaxTouches /\ moveTouches' = moveTouches + 1
  /\ thing # moveDisk[t] /\ moveDisk' = [moveDisk EXCEPT ![t] = thing]
  /\ moveDisturbed' = IF BeingMoved(t) THEN moveDisturbed \cup {t} ELSE moveDisturbed
  /\ UNCHANGED <<moveRow, moveTrash, moveLate, moveAt, moveReport, moveAnswer, moveFaults, moveCrashes>>

\* A command that nobody waits for any more takes what is there, or gives up.
LateTrash(t) ==
  /\ t \in moveLate /\ moveLate' = moveLate \ {t}
  /\ ToTrash(t) \/ UNCHANGED <<moveDisk, moveTrash>>
  /\ UNCHANGED <<moveRow, moveDisturbed, moveAt, moveReport, moveAnswer, moveBounds>>

\* DefaultTTL is over.
MoveExpires ==
  /\ moveRow.status # "none" /\ ~moveRow.expired
  /\ moveRow' = [moveRow EXCEPT !.expired = TRUE]
  /\ UNCHANGED <<moveFiles, moveAt, moveReport, moveAnswer, moveBounds>>

\* A command that runs while the server dies goes on.
MoveCrash ==
  LET dead == {c \in MoveCalls : moveAt[c].step \notin {"idle", "done"}}
      left == {t \in Targets : \E c \in SubmitCalls \cap dead :
                 moveAt[c].step = "try" /\ MoveWays[moveAt[c].way] = "command" /\ moveAt[c].target = t}
  IN
  /\ moveCrashes < MaxMoveCrashes /\ moveCrashes' = moveCrashes + 1
  /\ moveAt' = [c \in MoveCalls |-> IF c \in dead THEN [moveAt[c] EXCEPT !.step = "done"] ELSE moveAt[c]]
  /\ moveAnswer' = [c \in MoveCalls |-> IF c \in dead THEN [moveAnswer[c] EXCEPT !.kind = "lost"] ELSE moveAnswer[c]]
  /\ moveLate' = moveLate \cup left /\ moveDisturbed' = moveDisturbed \cup left
  /\ UNCHANGED <<moveRow, moveDisk, moveTrash, moveReport, moveTouches, moveFaults>>

PrepareStep(c) == FindRequest(c) \/ Freeze(c) \/ CreateRequest(c)
MoveOne(c) == Inspect(c) \/ TrashCommand(c) \/ Look(c) \/ Rename(c)
SubmitStep(c) == Submit(c) \/ MarkCommitting(c) \/ MoveOne(c) \/ CompleteMove(c)

MoveNext ==
  \/ \E c \in PrepareCalls : PrepareStep(c)
  \/ \E c \in SubmitCalls : SubmitStep(c)
  \/ \E t \in Targets, thing \in Things \cup {"gone"} : Touch(t, thing)
  \/ \E t \in Targets : LateTrash(t)
  \/ MoveExpires \/ MoveCrash

MoveSpec == MoveInit /\ [][MoveNext]_moveVars

-----------------------------------------------------------------------------
\* Properties

Working(c) == moveAt[c].step \in {"inspect", "try", "look", "complete"}

\* One confirmation is worked on once: of all submits, before and after crashes and
\* failing statements, one at most has looked at the targets.
MovedOnce ==
  \A c, d \in SubmitCalls : Working(c) \/ moveReport[c] # NoResults => c = d \/ ~(Working(d) \/ moveReport[d] # NoResults)

\* A target goes to the trash once, what comes back to the path stays there.  Not
\* so if it comes back between the attempts, or before a command that was cut off
\* is through: then the next attempt, or that command, takes it as well.
TakenOnce == \A t \in Targets : Len(moveTrash[t]) <= 1 \/ t \in moveDisturbed

\* The answer of a submit, replays included, is what has happened: a target
\* reported as failed was left alone, one reported as moved is in the trash.  Not
\* so for what others do while it is being moved: what they remove counts as
\* moved; what they put back after the command, and the rename cannot move, counts
\* as failed with the original in the trash.
ReportIsTrue ==
  \A c \in SubmitCalls : moveAnswer[c].kind = "result" => \A t \in Targets \ moveDisturbed :
    moveAnswer[c].result[t] = (IF moveTrash[t] = <<>> THEN "failed" ELSE "moved")

MoveOutcomes == MovedOnce /\ TakenOnce /\ ReportIsTrue

\* A move of other bytes than those shown has raced with whoever wrote them.
MovesWhatWasShown ==
  \A t \in Targets : moveTrash'[t] # moveTrash[t] =>
    moveDisk[t] \in {"frozen", "link"} \/ MoveKinds[t] # "file" \/ t \in moveDisturbed

\* "move-out request is being committed; retry with the same confirmation_uuid":
\* a submit is told so while another one works on it.
InProgressIsWorkedOn ==
  [][\A c \in SubmitCalls : moveAnswer'[c].kind = "progress" /\ moveAnswer[c].kind = "none" =>
       \E d \in SubmitCalls \ {c} : Working(d)]_moveVars

\* A confirmed move happens once, is reported as it was, and is of what was shown.
MovesHold == [][MoveOutcomes' /\ MovesWhatWasShown]_moveVars
==============================================================================
