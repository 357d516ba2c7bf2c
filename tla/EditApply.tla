------------------------------- MODULE EditApply -------------------------------
(***************************************************************************)
(* The edit tool: internal/server/tools_edit.go and edit_idempotency.go    *)
(* over internal/edit/apply.go.  One batch of edits under one idempotency  *)
(* key, tried by several calls in several processes, in a workspace that   *)
(* others write to as well.                                                *)
(*                                                                         *)
(* An item of the batch is the file it is about: its bytes are "old", those*)
(* the batch was made for (a create: no file; a rename: only the old name),*)
(* "new", those the batch plans, or "other".  The record of the key is a   *)
(* row of the idempotency store, whose own races Idempotency has.          *)
(***************************************************************************)
EXTENDS Integers, Sequences

CONSTANTS
  EditCalls,       \* calls with this batch and this key
  EditProcesses,
  EditHome,        \* the process that serves a call
  EditOps,         \* operations of the batch, in its order
  MaxForeign,      \* bound: writes by others
  MaxEditFaults,   \* bound: failing statements and file operations
  MaxEditCrashes,  \* bound: crashes
  MaxEditLapses    \* bound: pending records that outlive PendingLease

ASSUME EditConstants ==
  /\ EditHome \in [EditCalls -> EditProcesses]
  /\ {MaxForeign, MaxEditFaults, MaxEditCrashes, MaxEditLapses} \subseteq Nat
  /\ EditOps \in Seq({"create", "update", "rename"}) /\ EditOps # <<>>
  /\ "noplan" \notin EditCalls

VARIABLES
  editDisk,     \* bytes of each item
  editRow,      \* record of the key: state, attempt whose plan it holds, lease
  editFlights,  \* processes with a flight of the key
  editTombs,    \* processes with a tombstone of the key
  editAt,       \* what a call is about to do, and to which item
  editPlan,     \* the plan in the record a call has claimed
  editRecords,  \* status of the edit record of each attempt
  editAnswer,
  editTouched,  \* history: items others have changed since a call checked them
  editWrote,    \* history: an attempt of this key may have changed a file
  editBlind,    \* history: why an attempt went on without knowing of an earlier one,
                \* or beside another one
  editForeign, editFaults, editCrashes, editLapses

editHistory == <<editTouched, editWrote, editBlind>>
editStore == <<editRow, editFlights, editTombs>>
editBounds == <<editForeign, editFaults, editCrashes, editLapses>>
editVars == <<editDisk, editStore, editAt, editPlan, editRecords, editAnswer,
              editHistory, editBounds>>

Items == DOMAIN EditOps
NoPlan == "noplan"
EditSteps == {"idle", "waiting", "reconcile", "recover", "confirm", "prepare", "hook", "recheck",
              "write", "readback", "save", "complete", "doubt", "mark", "done"}
EditTypeOK ==
  /\ editDisk \in [Items -> {"old", "new", "other"}]
  /\ editRow \in [state : {"none", "pending", "succeeded", "failed", "in_doubt"},
                  plan : EditCalls \cup {NoPlan}, lapsed : BOOLEAN]
  /\ editFlights \subseteq EditProcesses /\ editTombs \subseteq EditProcesses
  /\ editAt \in [EditCalls -> [step : EditSteps, item : Items, owner : BOOLEAN]]
  /\ editPlan \in [EditCalls -> EditCalls \cup {NoPlan}]
  /\ editRecords \in [EditCalls -> {"none", "pending", "succeeded", "in_doubt"}]
  /\ editAnswer \in [EditCalls -> {"none", "success", "failed", "in_doubt", "pending", "error", "lost"}]
  /\ editTouched \in [EditCalls -> SUBSET Items]
  /\ editWrote \in BOOLEAN /\ editBlind \subseteq {"unread", "overtaken"}
  /\ editForeign \in 0..MaxForeign /\ editFaults \in 0..MaxEditFaults
  /\ editCrashes \in 0..MaxEditCrashes /\ editLapses \in 0..MaxEditLapses

EditInit ==
  /\ editDisk = [i \in Items |-> "old"]
  /\ editRow = [state |-> "none", plan |-> NoPlan, lapsed |-> FALSE]
  /\ editFlights = {} /\ editTombs = {}
  /\ editAt = [c \in EditCalls |-> [step |-> "idle", item |-> 1, owner |-> FALSE]]
  /\ editPlan = [c \in EditCalls |-> NoPlan] /\ editRecords = [c \in EditCalls |-> "none"]
  /\ editAnswer = [c \in EditCalls |-> "none"]
  /\ editTouched = [c \in EditCalls |-> {}] /\ editWrote = FALSE /\ editBlind = {}
  /\ editForeign = 0 /\ editFaults = 0 /\ editCrashes = 0 /\ editLapses = 0

-----------------------------------------------------------------------------
\* Helpers

EditFault == editFaults < MaxEditFaults /\ editFaults' = editFaults + 1

AllOld == \A i \in Items : editDisk[i] = "old"
AllNew == \A i \in Items : editDisk[i] = "new"

EditGo(c, step) == editAt' = [editAt EXCEPT ![c].step = step] /\ UNCHANGED editAnswer

EditReply(c, answer) ==
  /\ editAnswer' = [editAnswer EXCEPT ![c] = answer]
  /\ editAt' = [editAt EXCEPT ![c].step = "done"]

\* Complete: whatever the row says.
EditSettle(c, state, plan) ==
  /\ editRow' = [state |-> state, plan |-> plan, lapsed |-> FALSE]
  /\ editFlights' = editFlights \ {EditHome[c]}
  /\ UNCHANGED editTombs

\* MarkInDoubt: when the statement fails, a flight leaves a tombstone.
EditMark(c) ==
  \/ /\ editRow' = [editRow EXCEPT !.state = "in_doubt"]
     /\ editFlights' = editFlights \ {EditHome[c]}
     /\ UNCHANGED <<editTombs, editFaults>>
  \/ /\ EditFault
     /\ editTombs' = editTombs \cup (editFlights \cap {EditHome[c]})
     /\ editFlights' = editFlights \ {EditHome[c]}
     /\ UNCHANGED editRow

\* Calls that are about their attempt, and those of them that own the record.
AtWork == {c \in EditCalls : editAt[c].step \notin {"idle", "waiting", "done"}}
Owners == {c \in AtWork : editAt[c].owner}

-----------------------------------------------------------------------------
\* Claim, Wait and replay

Replayed == IF editRow.state = "succeeded" THEN "success" ELSE "failed"

EditOwn(c) ==
  /\ editFlights' = editFlights \cup {EditHome[c]}
  /\ editAt' = [editAt EXCEPT ![c] = [step |-> "reconcile", item |-> 1, owner |-> TRUE]]
  /\ editPlan' = [editPlan EXCEPT ![c] = editRow.plan]
  /\ editBlind' = IF AtWork # {} THEN editBlind \cup {"overtaken"} ELSE editBlind
  /\ UNCHANGED <<editAnswer, editTombs>>

EditReconcileInDoubt(c) ==
  /\ EditGo(c, "reconcile") /\ editPlan' = [editPlan EXCEPT ![c] = editRow.plan]
  /\ editBlind' = IF Owners # {} THEN editBlind \cup {"overtaken"} ELSE editBlind
  /\ UNCHANGED editStore

EditClaim(c) ==
  /\ editAt[c].step = "idle"
  /\ IF EditHome[c] \in editFlights
     THEN EditGo(c, "waiting") /\ UNCHANGED <<editStore, editPlan, editBlind>>
     ELSE \/ /\ editRow.state = "none" /\ EditHome[c] \notin editTombs
             /\ editRow' = [editRow EXCEPT !.state = "pending"]
             /\ EditOwn(c)
          \/ /\ editRow.state = "pending" /\ editRow.lapsed /\ EditHome[c] \notin editTombs
             /\ editRow' = [editRow EXCEPT !.lapsed = FALSE]
             /\ EditOwn(c)
          \/ /\ editRow.state = "pending" /\ ~editRow.lapsed /\ EditHome[c] \notin editTombs
             /\ EditReply(c, "pending")
             /\ UNCHANGED <<editStore, editPlan, editBlind>>
          \/ /\ editRow.state \in {"succeeded", "failed"}
             /\ EditReply(c, Replayed)
             /\ UNCHANGED <<editStore, editPlan, editBlind>>
          \/ /\ editRow.state = "in_doubt" \/ (EditHome[c] \in editTombs /\ editRow.state = "pending")
             /\ EditReconcileInDoubt(c)
  /\ UNCHANGED <<editDisk, editRecords, editTouched, editWrote, editBounds>>

EditClaimFails(c) ==
  /\ editAt[c].step = "idle" /\ EditHome[c] \notin editFlights
  /\ EditFault /\ EditReply(c, "error")
  /\ UNCHANGED <<editDisk, editStore, editPlan, editRecords, editHistory, editForeign, editCrashes, editLapses>>

\* The flight has ended, or the client's patience.
EditWait(c) ==
  /\ editAt[c].step = "waiting"
  /\ \/ /\ EditHome[c] \notin editFlights
        /\ EditReply(c, IF editRow.state \in {"succeeded", "failed"} THEN Replayed ELSE "pending")
     \/ EditReply(c, "pending")
  /\ UNCHANGED <<editDisk, editStore, editPlan, editRecords, editHistory, editBounds>>

-----------------------------------------------------------------------------
\* reconcilePendingEdit

\* Not handled: the owner goes on, others answer in doubt.
EditUnhandled(c) == IF editAt[c].owner THEN EditGo(c, "prepare") ELSE EditReply(c, "in_doubt")

\* Bug: the owner of a record does not look at the plan it holds.
ReconcileNothing(c) ==
  /\ editAt[c].step = "reconcile"
  /\ EditUnhandled(c)
  /\ UNCHANGED <<editDisk, editStore, editPlan, editRecords, editHistory, editBounds>>

\* reconcileEditResult compares every file with the plan of the record.
Reconcile(c) ==
  /\ editAt[c].step = "reconcile"
  /\ \/ editPlan[c] = NoPlan /\ EditUnhandled(c) /\ UNCHANGED <<editWrote, editBlind, editFaults>>
     \/ /\ editPlan[c] # NoPlan /\ AllNew
        /\ EditGo(c, "recover") /\ UNCHANGED <<editWrote, editBlind, editFaults>>
     \/ /\ editPlan[c] # NoPlan /\ AllOld
        /\ EditUnhandled(c) /\ editWrote' = FALSE /\ UNCHANGED <<editBlind, editFaults>>
     \/ /\ editPlan[c] # NoPlan /\ ~AllNew /\ ~AllOld
        /\ EditGo(c, "doubt") /\ UNCHANGED <<editWrote, editBlind, editFaults>>
     \/ /\ editPlan[c] # NoPlan /\ EditFault
        /\ EditUnhandled(c) /\ UNCHANGED editWrote
        /\ editBlind' = IF editAt[c].owner THEN editBlind \cup {"unread"} ELSE editBlind
  /\ UNCHANGED <<editDisk, editStore, editPlan, editRecords, editTouched, editForeign, editCrashes, editLapses>>

\* The files are read again for the readback, and the edit record is saved ...
Recover(c) ==
  /\ editAt[c].step = "recover"
  /\ \/ /\ AllNew
        /\ EditGo(c, "confirm")
        /\ editRecords' = [editRecords EXCEPT ![editPlan[c]] = "succeeded"]
        /\ UNCHANGED editFaults
     \/ ~AllNew /\ EditGo(c, "mark") /\ UNCHANGED <<editRecords, editFaults>>
     \/ EditFault /\ EditGo(c, "mark") /\ UNCHANGED editRecords
  /\ UNCHANGED <<editDisk, editStore, editPlan, editHistory, editForeign, editCrashes, editLapses>>

\* ... then the record of the key is completed.
Confirm(c) ==
  /\ editAt[c].step = "confirm"
  /\ \/ EditSettle(c, "succeeded", editPlan[c]) /\ EditReply(c, "success") /\ UNCHANGED editFaults
     \/ EditFault /\ EditGo(c, "mark") /\ UNCHANGED editStore
  /\ UNCHANGED <<editDisk, editPlan, editRecords, editHistory, editForeign, editCrashes, editLapses>>

-----------------------------------------------------------------------------
\* ApplyBatchWithHook and what the tool makes of its result

\* An attempt fails before its plan is persisted; a failing Complete is ignored.
EditFails(c) ==
  /\ EditReply(c, "failed")
  /\ \/ EditSettle(c, "failed", NoPlan) /\ UNCHANGED editFaults
     \/ EditFault /\ UNCHANGED editStore

\* resolveEditRevisions, and the preparation of every item.
Prepare(c) ==
  /\ editAt[c].step = "prepare"
  /\ \/ AllOld /\ EditGo(c, "hook") /\ UNCHANGED <<editStore, editFaults>>
     \/ ~AllOld /\ EditFails(c)
  /\ UNCHANGED <<editDisk, editPlan, editRecords, editHistory, editForeign, editCrashes, editLapses>>

\* beforeWrite: the edit record, then UpdatePending of a row still pending.
PersistPlan(c) ==
  /\ editAt[c].step = "hook"
  /\ \/ /\ EditGo(c, "recheck")
        /\ editRecords' = [editRecords EXCEPT ![c] = "pending"]
        /\ editRow' = IF editRow.state = "pending" THEN [editRow EXCEPT !.plan = c, !.lapsed = FALSE] ELSE editRow
        /\ UNCHANGED <<editFlights, editTombs, editFaults>>
     \/ /\ EditFault /\ EditReply(c, "failed") /\ (EditSettle(c, "failed", NoPlan) \/ UNCHANGED editStore)
        /\ editRecords' \in {editRecords, [editRecords EXCEPT ![c] = "pending"]}
  /\ UNCHANGED <<editDisk, editPlan, editHistory, editForeign, editCrashes, editLapses>>

\* Every item once more, before the first write.
Recheck(c) ==
  /\ editAt[c].step = "recheck"
  /\ EditGo(c, IF AllOld THEN "write" ELSE "doubt")
  /\ editTouched' = [editTouched EXCEPT ![c] = {}]
  /\ UNCHANGED <<editDisk, editStore, editPlan, editRecords, editWrote, editBlind, editBounds>>

\* What a write makes of an item: a create or an update replaces the file, a
\* rename moves the bytes it finds, or none.
Written(i) ==
  CASE EditOps[i] \in {"create", "update"} -> {"new"}
    [] EditOps[i] = "rename" /\ editDisk[i] = "old" -> {"new"}
    [] EditOps[i] = "rename" /\ editDisk[i] = "other" -> {"new", "other", "fails"}
    [] EditOps[i] = "rename" /\ editDisk[i] = "new" -> {"fails"}

\* One item after the other; the first error ends the batch.
WriteItem(c) ==
  LET i == editAt[c].item IN
  /\ editAt[c].step = "write"
  /\ \/ \E bytes \in Written(i) \ {"fails"} :
          /\ editDisk' = [editDisk EXCEPT ![i] = bytes]
          /\ editTouched' = [d \in EditCalls |-> IF d = c THEN editTouched[d] ELSE editTouched[d] \cup {i}]
          /\ editWrote' = TRUE
          /\ editAt' = [editAt EXCEPT ![c] = IF i + 1 \in Items THEN [@ EXCEPT !.item = i + 1]
                                                               ELSE [@ EXCEPT !.step = "readback"]]
          /\ UNCHANGED <<editAnswer, editFaults>>
     \/ /\ "fails" \in Written(i)
        /\ EditGo(c, "doubt") /\ UNCHANGED <<editDisk, editTouched, editWrote, editFaults>>
     \/ EditFault /\ EditGo(c, "doubt") /\ UNCHANGED <<editDisk, editTouched, editWrote>>
  /\ UNCHANGED <<editStore, editPlan, editRecords, editBlind, editForeign, editCrashes, editLapses>>

Readback(c) ==
  /\ editAt[c].step = "readback"
  /\ \/ EditGo(c, IF AllNew THEN "save" ELSE "doubt") /\ UNCHANGED editFaults
     \/ EditFault /\ EditGo(c, "doubt")
  /\ UNCHANGED <<editDisk, editStore, editPlan, editRecords, editHistory, editForeign, editCrashes, editLapses>>

SaveRecord(c) ==
  /\ editAt[c].step = "save"
  /\ \/ /\ EditGo(c, "complete")
        /\ editRecords' = [editRecords EXCEPT ![c] = "succeeded"]
        /\ UNCHANGED editFaults
     \/ EditFault /\ EditGo(c, "mark") /\ UNCHANGED editRecords
  /\ UNCHANGED <<editDisk, editStore, editPlan, editHistory, editForeign, editCrashes, editLapses>>

CompleteEdit(c) ==
  /\ editAt[c].step = "complete"
  /\ \/ EditSettle(c, "succeeded", c) /\ EditReply(c, "success") /\ UNCHANGED editFaults
     \/ EditFault /\ EditGo(c, "mark") /\ UNCHANGED editStore
  /\ UNCHANGED <<editDisk, editPlan, editRecords, editHistory, editForeign, editCrashes, editLapses>>

\* The edit record of the plan becomes in_doubt, unless the statement fails ...
SaveDoubt(c) ==
  LET attempt == IF editRecords[c] = "none" THEN editPlan[c] ELSE c IN
  /\ editAt[c].step = "doubt"
  /\ EditGo(c, "mark")
  /\ \/ editRecords' = [editRecords EXCEPT ![attempt] = "in_doubt"] /\ UNCHANGED editFaults
     \/ EditFault /\ UNCHANGED editRecords
  /\ UNCHANGED <<editDisk, editStore, editPlan, editHistory, editForeign, editCrashes, editLapses>>

\* ... then the record of the key; the answer is in doubt in any case.
MarkDoubt(c) ==
  /\ editAt[c].step = "mark"
  /\ EditMark(c) /\ EditReply(c, "in_doubt")
  /\ UNCHANGED <<editDisk, editPlan, editRecords, editHistory, editForeign, editCrashes, editLapses>>

-----------------------------------------------------------------------------
\* The world around

\* Somebody else writes to a file of the batch.
ForeignWrite(i, bytes) ==
  /\ editForeign < MaxForeign /\ editForeign' = editForeign + 1
  /\ bytes # editDisk[i] /\ editDisk' = [editDisk EXCEPT ![i] = bytes]
  /\ editTouched' = [c \in EditCalls |-> editTouched[c] \cup {i}]
  /\ UNCHANGED <<editStore, editAt, editPlan, editRecords, editAnswer, editWrote, editBlind,
                 editFaults, editCrashes, editLapses>>

\* The lease of a pending record is over.
EditLapse ==
  /\ editLapses < MaxEditLapses /\ editLapses' = editLapses + 1
  /\ editRow.state = "pending" /\ ~editRow.lapsed
  /\ editRow' = [editRow EXCEPT !.lapsed = TRUE]
  /\ UNCHANGED <<editDisk, editFlights, editTombs, editAt, editPlan, editRecords, editAnswer, editHistory,
                 editForeign, editFaults, editCrashes>>

EditCrash(p) ==
  LET dead == {c \in EditCalls : EditHome[c] = p /\ editAt[c].step \notin {"idle", "done"}} IN
  /\ editCrashes < MaxEditCrashes /\ editCrashes' = editCrashes + 1
  /\ editFlights' = editFlights \ {p} /\ editTombs' = editTombs \ {p}
  /\ editAt' = [c \in EditCalls |-> IF c \in dead THEN [editAt[c] EXCEPT !.step = "done"] ELSE editAt[c]]
  /\ editAnswer' = [c \in EditCalls |-> IF c \in dead THEN "lost" ELSE editAnswer[c]]
  /\ UNCHANGED <<editDisk, editRow, editPlan, editRecords, editHistory, editForeign, editFaults, editLapses>>

EditStep(c) ==
  \/ EditClaim(c) \/ EditClaimFails(c) \/ EditWait(c) \/ Reconcile(c) \/ Recover(c) \/ Confirm(c)
  \/ Prepare(c) \/ PersistPlan(c) \/ Recheck(c) \/ WriteItem(c) \/ Readback(c)
  \/ SaveRecord(c) \/ CompleteEdit(c) \/ SaveDoubt(c) \/ MarkDoubt(c)

EditNext ==
  \/ \E c \in EditCalls : EditStep(c)
  \/ \E i \in Items, bytes \in {"old", "new", "other"} : ForeignWrite(i, bytes)
  \/ EditLapse
  \/ \E p \in EditProcesses : EditCrash(p)

EditSpec == EditInit /\ [][EditNext]_editVars

-----------------------------------------------------------------------------
\* Properties

\* As long as nobody else writes, a call that is told "applied", by its own
\* attempt, a replay or a recovery after a crash, finds all of the batch.
AppliedIsApplied ==
  editForeign = 0 /\ (editRow.state = "succeeded" \/ \E c \in EditCalls : editAnswer[c] = "success") => AllNew

\* A key whose record says "failed" has left no file changed: an attempt that
\* wrote a part of the batch and failed or died leaves the key in doubt, for its
\* retries too; unless a retry could not read the files, or an owner was so slow
\* that another took its record and both were at work.
FailedIsUntouched == editRow.state = "failed" /\ editBlind = {} => ~editWrote

EditAnswersTrue == AppliedIsApplied /\ FailedIsUntouched

\* Once a call has heard "applied", none hears "failed" any more; the other way
\* round it may be, as a "failed" that could not be recorded lets a retry try.
OneVerdict ==
  (\E c \in EditCalls : editAnswer[c] = "success") /\ editBlind' = {} =>
    \A c \in EditCalls : editAnswer'[c] = "failed" => editAnswer[c] = "failed"

\* A write replaces only the bytes the batch was made for, or what somebody
\* wrote after the last look at the whole batch.
NoLostUpdate ==
  \A c \in EditCalls : LET i == editAt[c].item IN
    editAt[c].step = "write" /\ editAt'[c] # editAt[c] /\ editDisk'[i] # editDisk[i]
      => editDisk[i] = "old" \/ i \in editTouched[c]

\* "mixed or unknown states return IDEMPOTENCY_IN_DOUBT": as long as no two
\* attempts are at work at once, a key that has changed a file is not "failed".
UnknownIsInDoubt == editRow.state = "failed" /\ "overtaken" \notin editBlind => ~editWrote

\* What the answers of a batch claim is true, and no batch overwrites what it was
\* not made for.
EditsHold == [][EditAnswersTrue' /\ OneVerdict /\ NoLostUpdate]_editVars
==============================================================================
