----------------------------- MODULE FilesProofs -----------------------------
(***************************************************************************)
(* What becomes of the files of a user, for any number of calls, files,    *)
(* editors, crashes and failing statements: batches of edits and their     *)
(* recovery (EditApply), moves out of the workspace (MoveOut), and the     *)
(* configuration file (Home).                                              *)
(*                                                                         *)
(* EditsHold and MovesHold compare what a call answers with what the files *)
(* were when the batch or the move began, and follow from no single step.  *)
(* EditInv and MoveInv say what a call has seen of the files and of the    *)
(* record of its key between two of its steps, and whose turn it is to     *)
(* write; ConfigurationKept says nothing of what a job has loaded, and     *)
(* ConfigurationInv adds it, with the steps left to each job.              *)
(*                                                                         *)
(* The last part carries this over to MCRequests: what TLC explores are    *)
(* behaviours of each of the parts, the approvals among them.              *)
(***************************************************************************)
EXTENDS MCRequests, ApprovalProofs, SequenceTheorems

-----------------------------------------------------------------------------
(* A batch of edits: EditInv is inductive. *)

\* Files that nobody else writes to are as before the batch or as it makes them;
\* the record says "applied" when all of them are, and "failed" when none was.
RecordFits ==
  /\ editForeign = 0 => \A i \in Items : editDisk[i] \in {"old", "new"}
  /\ editForeign = 0 /\ editRow.state = "succeeded" => AllNew
  /\ editBlind = {} /\ editWrote => editRow.state # "failed"
  /\ editBlind = {} /\ editWrote /\ editRow.state \in {"none", "pending"} => editRow.plan # NoPlan

\* What a call has seen of the files and of the record is still so.
OwnerSteps == {"prepare", "hook", "recheck", "write", "readback", "save", "complete"}
CallFits(c) ==
  /\ editForeign = 0 /\ (editAt[c].step \in {"confirm", "save", "complete"} \/ editAnswer[c] = "success") => AllNew
  /\ editAt[c].step = "write" => \A i \in Items : i >= editAt[c].item => editDisk[i] = "old" \/ i \in editTouched[c]
  /\ editAt[c].step \in OwnerSteps => editAt[c].owner
  /\ editAt[c].step = "idle" => ~editAt[c].owner
  /\ editBlind = {} /\ editAnswer[c] = "success" => editRow.state \in {"succeeded", "in_doubt"}
  /\ editBlind = {} /\ c \in Owners =>
       /\ AtWork = {c} /\ editRow.state = "pending"
       /\ editAt[c].step \in {"recheck", "write"} => editRow.plan = c
       /\ editAt[c].step \in {"prepare", "hook", "recheck"} => ~editWrote
       /\ editAt[c].step = "reconcile" /\ editPlan[c] = NoPlan => ~editWrote

EditInv == EditTypeOK /\ RecordFits /\ \A c \in EditCalls : CallFits(c)

EditAts == [step : EditSteps, item : Items, owner : BOOLEAN]
EditAnswers == {"none", "success", "failed", "in_doubt", "pending", "error", "lost"}
EditRows == [state : {"none", "pending", "succeeded", "failed", "in_doubt"}, plan : EditCalls \cup {NoPlan}, lapsed : BOOLEAN]
EditShared == <<editDisk, editRow, editWrote, editBlind, editForeign>>

LEMMA EditBounds == MaxForeign \in Nat /\ MaxEditFaults \in Nat /\ MaxEditCrashes \in Nat /\ MaxEditLapses \in Nat
BY EditConstants

LEMMA ItemsAreNumbers == Items \subseteq Nat /\ 1 \in Items
<1>1. EditOps \in Seq({"create", "update", "rename"}) /\ EditOps # <<>>
  BY EditConstants
<1> QED
  BY <1>1, EmptySeq, LenProperties DEF Items

\* One call goes on to a step, with an answer or without; the others stay.
EditMoves(c, step, reply) ==
  /\ editAt' \in [EditCalls -> EditAts] /\ editAnswer' \in [EditCalls -> EditAnswers]
  /\ editAt'[c].step = step /\ editAt'[c].item = editAt[c].item /\ editAt'[c].owner = editAt[c].owner
  /\ editAnswer'[c] = reply
  /\ \A d \in EditCalls : d # c => editAt'[d] = editAt[d] /\ editAnswer'[d] = editAnswer[d]

LEMMA EditGoes ==
  ASSUME EditTypeOK, NEW c \in EditCalls, NEW step \in EditSteps, EditGo(c, step)
  PROVE  EditMoves(c, step, editAnswer[c])
BY DEF EditTypeOK, EditGo, EditMoves, EditAts, EditAnswers

LEMMA EditReplies ==
  ASSUME EditTypeOK, NEW c \in EditCalls, NEW reply \in EditAnswers, EditReply(c, reply)
  PROVE  EditMoves(c, "done", reply)
BY DEF EditTypeOK, EditReply, EditMoves, EditAts, EditAnswers, EditSteps

LEMMA EditFaultFits ==
  ASSUME EditTypeOK, editFaults' = editFaults \/ EditFault
  PROVE  editFaults' \in 0..MaxEditFaults
BY EditBounds DEF EditTypeOK, EditFault

\* The record of the key and what the process keeps of it.
EditStoreFits == editRow' \in EditRows /\ editFlights' \subseteq EditProcesses /\ editTombs' \subseteq EditProcesses

LEMMA EditSettles ==
  ASSUME EditTypeOK, NEW c \in EditCalls, NEW state \in {"succeeded", "failed"}, NEW plan \in EditCalls \cup {NoPlan},
         EditSettle(c, state, plan)
  PROVE  EditStoreFits /\ editRow'.state = state /\ editRow'.plan = plan
BY DEF EditTypeOK, EditSettle, EditStoreFits, EditRows

LEMMA EditMarks ==
  ASSUME EditTypeOK, NEW c \in EditCalls, EditMark(c)
  PROVE  /\ EditStoreFits /\ editRow'.plan = editRow.plan /\ (editFaults' = editFaults \/ EditFault)
         /\ editRow' = editRow \/ editRow'.state = "in_doubt"
BY DEF EditTypeOK, EditMark, EditStoreFits, EditRows

LEMMA EditStoreSame ==
  ASSUME EditTypeOK, UNCHANGED editStore
  PROVE  EditStoreFits /\ UNCHANGED editRow
BY DEF EditTypeOK, editStore, EditStoreFits, EditRows

\* What a step of one call leaves of the others.  They lose nothing they have
\* seen when the step leaves the record as it is, or when it is the owner's, who
\* is alone; without an owner the record can be settled or put in doubt.
StepOf(c) ==
  /\ \A d \in EditCalls : d # c => editAt'[d] = editAt[d] /\ editAnswer'[d] = editAnswer[d] /\ editPlan'[d] = editPlan[d]
                                   /\ editTouched[d] \subseteq editTouched'[d]
  /\ editForeign' = editForeign /\ editBlind \subseteq editBlind'
  /\ editForeign = 0 /\ AllNew => AllNew'
  /\ c \in AtWork \/ c \notin AtWork' \/ Owners = {} \/ editBlind' # {}
  /\ \A i \in Items : editDisk'[i] = editDisk[i] \/ \A d \in EditCalls \ {c} : i \in editTouched'[d]
  /\ \/ editBlind' # {}
     \/ editRow'.state = editRow.state /\ editRow'.plan = editRow.plan /\ (editWrote' => editWrote)
     \/ c \in Owners
     \/ Owners = {} /\ editRow'.state \in {"succeeded", "in_doubt"}
     \/ Owners = {} /\ editRow.state \in {"none", "pending"}

LEMMA OthersFit ==
  ASSUME EditInv, NEW c \in EditCalls, StepOf(c)
  PROVE  \A d \in EditCalls \ {c} : CallFits(d)'
<1> SUFFICES ASSUME NEW d \in EditCalls, d # c PROVE CallFits(d)'
  OBVIOUS
<1>1. /\ CallFits(d) /\ CallFits(c) /\ editAt'[d] = editAt[d] /\ editAnswer'[d] = editAnswer[d] /\ editPlan'[d] = editPlan[d]
      /\ editForeign' = editForeign /\ (editBlind' = {} => editBlind = {})
  BY DEF EditInv, StepOf
<1>2. editForeign' = 0 /\ (editAt'[d].step \in {"confirm", "save", "complete"} \/ editAnswer'[d] = "success") => AllNew'
  BY <1>1 DEF CallFits, StepOf
<1>3. editAt'[d].step = "write" => \A i \in Items : i >= editAt'[d].item => editDisk'[i] = "old" \/ i \in editTouched'[d]
  BY <1>1 DEF CallFits, StepOf
<1>4. (editAt'[d].step \in OwnerSteps => editAt'[d].owner) /\ (editAt'[d].step = "idle" => ~editAt'[d].owner)
  BY <1>1 DEF CallFits
<1>5. c \in Owners /\ editBlind' = {} => d \notin AtWork /\ editRow.state = "pending"
  BY <1>1 DEF CallFits
<1>6. d \in AtWork' <=> d \in AtWork
  BY <1>1 DEF AtWork
<1>7. d \in Owners' <=> d \in Owners
  BY <1>1, <1>6 DEF Owners
<1>8. editBlind' = {} /\ editAnswer'[d] = "success" => editRow'.state \in {"succeeded", "in_doubt"}
  BY <1>1, <1>5 DEF CallFits, StepOf
<1>9. ASSUME editBlind' = {}, d \in Owners'
      PROVE  /\ AtWork' = {d} /\ editRow'.state = "pending"
             /\ editAt'[d].step \in {"recheck", "write"} => editRow'.plan = d
             /\ editAt'[d].step \in {"prepare", "hook", "recheck"} => ~editWrote'
             /\ editAt'[d].step = "reconcile" /\ editPlan'[d] = NoPlan => ~editWrote'
  <2>1. d \in Owners /\ d \in AtWork /\ AtWork = {d} /\ editBlind = {}
    BY <1>1, <1>6, <1>7, <1>9 DEF CallFits
  <2>2. c \notin Owners /\ c \notin AtWork /\ Owners # {}
    BY <2>1 DEF Owners
  <2>3. AtWork' = {d}
    <3>1. c \notin AtWork'
      BY <1>9, <2>2 DEF StepOf
    <3>2. \A e \in EditCalls : e \in AtWork' => e = d
      BY <2>1, <3>1 DEF AtWork, StepOf
    <3> QED
      BY <1>6, <2>1, <3>2 DEF AtWork
  <2>4. editRow'.state = editRow.state /\ editRow'.plan = editRow.plan /\ (editWrote' => editWrote)
    BY <1>9, <2>1, <2>2, <1>1 DEF StepOf, CallFits
  <2> QED
    BY <1>1, <2>1, <2>3, <2>4 DEF CallFits
<1> QED
  BY <1>2, <1>3, <1>4, <1>8, <1>9 DEF CallFits

\* What every step of a call leaves alone.
EditBeside == UNCHANGED <<editForeign, editCrashes, editLapses>> /\ (editFaults' = editFaults \/ EditFault)

\* The type invariant after a step of a call.
LEMMA EditTypesKept ==
  ASSUME EditTypeOK, NEW c \in EditCalls, NEW step, NEW reply, EditMoves(c, step, reply), EditStoreFits, EditBeside,
         editDisk' \in [Items -> {"old", "new", "other"}], editPlan' \in [EditCalls -> EditCalls \cup {NoPlan}],
         editRecords' \in [EditCalls -> {"none", "pending", "succeeded", "in_doubt"}],
         editTouched' \in [EditCalls -> SUBSET Items], editWrote' \in BOOLEAN, editBlind' \subseteq {"unread", "overtaken"}
  PROVE  EditTypeOK'
<1>1. editFaults' \in 0..MaxEditFaults
  BY EditFaultFits DEF EditBeside
<1> QED
  BY <1>1 DEF EditTypeOK, EditMoves, EditAts, EditAnswers, EditStoreFits, EditRows, EditBeside

LEMMA EditInvFollows ==
  ASSUME EditInv, NEW c \in EditCalls, StepOf(c), EditTypeOK', RecordFits', CallFits(c)'
  PROVE  EditInv'
BY OthersFit DEF EditInv

\* Steps that change no file and leave the record as it is.
EditSame == /\ UNCHANGED <<editDisk, editWrote, editBlind, editPlan>> /\ EditStoreFits
            /\ editRow'.state = editRow.state /\ editRow'.plan = editRow.plan
            /\ editRecords' \in [EditCalls -> {"none", "pending", "succeeded", "in_doubt"}]

LEMMA QuietKeeps ==
  ASSUME EditInv, NEW c \in EditCalls, NEW step \in EditSteps \ {"idle", "prepare", "recheck", "reconcile"}, NEW reply,
         EditMoves(c, step, reply), EditBeside, EditSame,
         editTouched' \in [EditCalls -> SUBSET Items],
         \A d \in EditCalls : d # c => editTouched[d] \subseteq editTouched'[d],
         c \in AtWork \/ step \in {"waiting", "done"},
         step \in {"confirm", "save", "complete"} => AllNew \/ editAt[c].step \in {"save", "complete"},
         step \in OwnerSteps => editAt[c].step \in OwnerSteps,
         step = "hook" => editAt[c].step = "prepare",
         step = "write" => editAt[c].step = "recheck" /\ AllOld,
         reply = editAnswer[c] \/ reply # "success" \/ editRow.state = "succeeded"
  PROVE  EditInv'
<1>1. EditTypeOK /\ RecordFits /\ CallFits(c) /\ UNCHANGED <<editDisk, editWrote, editBlind, editPlan, editForeign>>
      /\ editRow'.state = editRow.state /\ editRow'.plan = editRow.plan /\ (AllNew' <=> AllNew)
  BY DEF EditInv, EditBeside, EditSame, AllNew
<1>2. EditTypeOK'
  <2>1. /\ editDisk' \in [Items -> {"old", "new", "other"}] /\ editPlan' \in [EditCalls -> EditCalls \cup {NoPlan}]
        /\ editWrote' \in BOOLEAN /\ editBlind' \subseteq {"unread", "overtaken"} /\ EditStoreFits
        /\ editRecords' \in [EditCalls -> {"none", "pending", "succeeded", "in_doubt"}]
    BY <1>1 DEF EditTypeOK, EditSame
  <2> QED
    BY <1>1, <2>1, EditTypesKept
<1>3. RecordFits'
  BY <1>1 DEF RecordFits
<1>4. c \in AtWork' => c \in AtWork
  BY DEF EditMoves, AtWork
<1>5. StepOf(c)
  BY <1>1, <1>4 DEF StepOf, EditMoves
<1>6. CallFits(c)'
  <2>1. editForeign' = 0 /\ (editAt'[c].step \in {"confirm", "save", "complete"} \/ editAnswer'[c] = "success") => AllNew'
    BY <1>1 DEF CallFits, RecordFits, EditMoves
  <2>2. editAt'[c].step = "write" => \A i \in Items : i >= editAt'[c].item => editDisk'[i] = "old" \/ i \in editTouched'[c]
    BY <1>1 DEF EditMoves, AllOld
  <2>3. (editAt'[c].step \in OwnerSteps => editAt'[c].owner) /\ (editAt'[c].step = "idle" => ~editAt'[c].owner)
    BY <1>1 DEF CallFits, EditMoves
  <2>4. editBlind' = {} /\ editAnswer'[c] = "success" => editRow'.state \in {"succeeded", "in_doubt"}
    BY <1>1 DEF CallFits, EditMoves
  <2>5. ASSUME editBlind' = {}, c \in Owners'
        PROVE  /\ AtWork' = {c} /\ editRow'.state = "pending"
               /\ editAt'[c].step \in {"recheck", "write"} => editRow'.plan = c
               /\ editAt'[c].step \in {"prepare", "hook", "recheck"} => ~editWrote'
               /\ editAt'[c].step = "reconcile" /\ editPlan'[c] = NoPlan => ~editWrote'
    <3>1. c \in Owners /\ c \in AtWork'
      BY <1>4, <2>5 DEF Owners, EditMoves
    <3>2. AtWork = {c} /\ editRow.state = "pending"
      BY <1>1, <2>5, <3>1 DEF CallFits
    <3>3. AtWork' = {c}
      BY <3>1, <3>2 DEF AtWork, EditMoves
    <3> QED
      BY <1>1, <2>5, <3>1, <3>2, <3>3 DEF CallFits, EditMoves
  <2> QED
    BY <2>1, <2>2, <2>3, <2>4, <2>5 DEF CallFits
<1> QED
  BY <1>2, <1>3, <1>5, <1>6, EditInvFollows

\* Last steps, which settle the record or put it in doubt.  Who fails has
\* changed nothing, and no one else has.
LEMMA LastKeeps ==
  ASSUME EditInv, NEW c \in AtWork, NEW reply, EditMoves(c, "done", reply), EditBeside, EditStoreFits,
         UNCHANGED <<editDisk, editWrote, editBlind, editPlan, editTouched>>,
         editRecords' \in [EditCalls -> {"none", "pending", "succeeded", "in_doubt"}],
         \/ editRow'.state = "succeeded" /\ reply = "success" /\ (editForeign = 0 => AllNew)
         \/ editRow'.state = "in_doubt" /\ reply = "in_doubt"
         \/ editRow'.state = "failed" /\ reply = "failed" /\ editAt[c].step \in {"prepare", "hook"}
  PROVE  EditInv'
<1>1. c \in EditCalls /\ EditTypeOK /\ RecordFits /\ CallFits(c) /\ (AllNew' <=> AllNew) /\ editForeign' = editForeign
  BY DEF EditInv, AtWork, AllNew, EditBeside
<1>2. EditTypeOK'
  <2>1. /\ editDisk' \in [Items -> {"old", "new", "other"}] /\ editPlan' \in [EditCalls -> EditCalls \cup {NoPlan}]
        /\ editTouched' \in [EditCalls -> SUBSET Items]
        /\ editWrote' \in BOOLEAN /\ editBlind' \subseteq {"unread", "overtaken"}
    BY <1>1 DEF EditTypeOK
  <2> QED
    BY <1>1, <2>1, EditTypesKept
<1>3. editBlind = {} => c \in Owners \/ Owners = {}
  <2>1. \A d \in Owners : d \in EditCalls
    BY DEF Owners, AtWork
  <2>2. \A d \in Owners : editBlind = {} => AtWork = {d}
    BY <2>1 DEF EditInv, CallFits
  <2> QED
    BY <2>2
<1>4. editBlind = {} /\ editRow'.state = "failed" => c \in Owners /\ ~editWrote
  BY <1>1 DEF CallFits, OwnerSteps, Owners
<1>5. RecordFits'
  BY <1>1, <1>4 DEF RecordFits
<1>6. c \notin AtWork'
  BY <1>1 DEF AtWork, EditMoves
<1>7. StepOf(c)
  <2>1. \/ editBlind' # {}
        \/ c \in Owners
        \/ Owners = {} /\ editRow'.state \in {"succeeded", "in_doubt"}
    BY <1>3, <1>4
  <2> QED
    BY <1>1, <1>6, <2>1 DEF StepOf, EditMoves
<1>8. CallFits(c)'
  BY <1>1, <1>6 DEF CallFits, EditMoves, OwnerSteps, Owners
<1> QED
  BY <1>1, <1>2, <1>5, <1>7, <1>8, EditInvFollows

-----------------------------------------------------------------------------
\* One lemma for each action of a call.

LEMMA EditClaimKeeps ==
  ASSUME EditInv, NEW c \in EditCalls, EditClaim(c)
  PROVE  EditInv'
<1>1. /\ editAt[c].step = "idle" /\ EditTypeOK /\ RecordFits /\ CallFits(c) /\ EditBeside
      /\ UNCHANGED <<editDisk, editRecords, editTouched, editWrote, editForeign, editFaults, editCrashes, editLapses>>
      /\ editRecords' \in [EditCalls -> {"none", "pending", "succeeded", "in_doubt"}]
      /\ editTouched' \in [EditCalls -> SUBSET Items]
      /\ c \notin AtWork /\ (AllNew' <=> AllNew)
  BY DEF EditClaim, EditInv, EditBeside, editBounds, EditTypeOK, AtWork, AllNew
<1>2. CASE EditGo(c, "waiting") /\ UNCHANGED <<editStore, editPlan, editBlind>>
  <2>1. EditMoves(c, "waiting", editAnswer[c])
    BY <1>1, <1>2, EditGoes DEF EditSteps
  <2>2. EditSame
    BY <1>1, <1>2, EditStoreSame DEF EditSame
  <2> QED
    BY <1>1, <2>1, <2>2, QuietKeeps DEF EditSteps, OwnerSteps
<1>3. ASSUME NEW reply \in {"pending", "success", "failed"}, EditReply(c, reply),
             UNCHANGED <<editStore, editPlan, editBlind>>, reply = "success" => editRow.state = "succeeded"
      PROVE  EditInv'
  <2>1. EditMoves(c, "done", reply)
    BY <1>1, <1>3, EditReplies DEF EditAnswers
  <2>2. EditSame
    BY <1>1, <1>3, EditStoreSame DEF EditSame
  <2> QED
    BY <1>1, <1>3, <2>1, <2>2, QuietKeeps DEF EditSteps, OwnerSteps
<1>4. CASE EditReconcileInDoubt(c)
  <2>1. EditMoves(c, "reconcile", editAnswer[c])
    BY <1>1, <1>4, EditGoes DEF EditSteps, EditReconcileInDoubt
  <2>2. /\ EditStoreFits /\ UNCHANGED editRow
        /\ editPlan' = [editPlan EXCEPT ![c] = editRow.plan]
        /\ editBlind' = IF Owners # {} THEN editBlind \cup {"overtaken"} ELSE editBlind
    BY <1>1, <1>4, EditStoreSame DEF EditReconcileInDoubt
  <2>3. /\ editPlan' \in [EditCalls -> EditCalls \cup {NoPlan}] /\ editBlind' \subseteq {"unread", "overtaken"}
        /\ \A d \in EditCalls : d # c => editPlan'[d] = editPlan[d]
    BY <1>1, <2>2 DEF EditTypeOK
  <2>4. EditTypeOK'
    <3>1. editDisk' \in [Items -> {"old", "new", "other"}] /\ editWrote' \in BOOLEAN
      BY <1>1 DEF EditTypeOK
    <3> QED
      BY <1>1, <2>1, <2>2, <2>3, <3>1, EditTypesKept
  <2>5. RecordFits'
    BY <1>1, <2>2 DEF RecordFits
  <2>6. StepOf(c)
    BY <1>1, <2>1, <2>2, <2>3 DEF StepOf, EditMoves
  <2>7. ~editAt'[c].owner
    BY <1>1, <2>1 DEF EditMoves, CallFits
  <2>8. CallFits(c)'
    BY <1>1, <2>1, <2>2, <2>7 DEF CallFits, EditMoves, OwnerSteps, Owners
  <2> QED
    BY <2>4, <2>5, <2>6, <2>8, EditInvFollows
<1>5. ASSUME EditOwn(c), editRow.state \in {"none", "pending"}, editRow' \in EditRows,
             editRow'.state = "pending", editRow'.plan = editRow.plan
      PROVE  EditInv'
  <2>1. /\ editAt' = [editAt EXCEPT ![c] = [step |-> "reconcile", item |-> 1, owner |-> TRUE]]
        /\ editPlan' = [editPlan EXCEPT ![c] = editRow.plan]
        /\ editBlind' = IF AtWork # {} THEN editBlind \cup {"overtaken"} ELSE editBlind
        /\ UNCHANGED <<editAnswer, editTombs>>
        /\ editFlights' = editFlights \cup {EditHome[c]}
    BY <1>5 DEF EditOwn
  <2>2. /\ editAt' \in [EditCalls -> EditAts] /\ editAt'[c].step = "reconcile" /\ editAt'[c].owner = TRUE
        /\ \A d \in EditCalls : d # c => editAt'[d] = editAt[d] /\ editPlan'[d] = editPlan[d]
        /\ editPlan' \in [EditCalls -> EditCalls \cup {NoPlan}] /\ editPlan'[c] = editRow.plan
        /\ editBlind' \subseteq {"unread", "overtaken"}
    <3>1. [step |-> "reconcile", item |-> 1, owner |-> TRUE] \in EditAts
      BY ItemsAreNumbers DEF EditAts, EditSteps
    <3>2. editAt \in [EditCalls -> EditAts] /\ editRow.plan \in EditCalls \cup {NoPlan}
      BY <1>1 DEF EditTypeOK, EditAts
    <3> QED
      BY <1>1, <2>1, <3>1, <3>2 DEF EditTypeOK
  <2>3. EditTypeOK'
    <3>1. editFlights' \subseteq EditProcesses
      <4>1. EditHome[c] \in EditProcesses
        BY EditConstants
      <4> QED
        BY <1>1, <2>1, <4>1 DEF EditTypeOK
    <3> QED
      BY <1>1, <1>5, <2>1, <2>2, <3>1 DEF EditTypeOK, EditAts, EditRows
  <2>4. RecordFits'
    BY <1>1, <1>5, <2>1 DEF RecordFits
  <2>5. editBlind' = {} => AtWork = {} /\ Owners = {} /\ editBlind = {}
    BY <2>1 DEF Owners
  <2>6. StepOf(c)
    BY <1>1, <1>5, <2>1, <2>2, <2>5 DEF StepOf
  <2>7. editBlind' = {} => AtWork' = {c}
    BY <2>2, <2>5 DEF AtWork
  <2>8. editAnswer'[c] = editAnswer[c] /\ (editBlind = {} => editAnswer[c] # "success")
    BY <1>1, <1>5, <2>1 DEF CallFits
  <2>9. CallFits(c)'
    BY <1>1, <1>5, <2>1, <2>2, <2>5, <2>7, <2>8 DEF CallFits, RecordFits, OwnerSteps
  <2> QED
    BY <2>3, <2>4, <2>6, <2>9, EditInvFollows
<1>6. CASE EditHome[c] \in editFlights
  BY <1>2, <1>6 DEF EditClaim
<1>7. CASE EditHome[c] \notin editFlights
  <2>1. CASE /\ editRow.state = "none" /\ editRow' = [editRow EXCEPT !.state = "pending"] /\ EditOwn(c)
    <3>1. editRow' \in EditRows /\ editRow'.state = "pending" /\ editRow'.plan = editRow.plan
      BY <1>1, <2>1 DEF EditTypeOK, EditRows
    <3> QED
      BY <1>5, <2>1, <3>1
  <2>2. CASE /\ editRow.state = "pending" /\ editRow' = [editRow EXCEPT !.lapsed = FALSE] /\ EditOwn(c)
    <3>1. editRow' \in EditRows /\ editRow'.state = "pending" /\ editRow'.plan = editRow.plan
      BY <1>1, <2>2 DEF EditTypeOK, EditRows
    <3> QED
      BY <1>5, <2>2, <3>1
  <2>3. CASE EditReply(c, "pending") /\ UNCHANGED <<editStore, editPlan, editBlind>>
    BY <1>3, <2>3
  <2>4. CASE EditReply(c, Replayed) /\ UNCHANGED <<editStore, editPlan, editBlind>>
    BY <1>3, <2>4 DEF Replayed
  <2> QED
    BY <1>4, <1>7, <2>1, <2>2, <2>3, <2>4 DEF EditClaim
<1> QED
  BY <1>6, <1>7

LEMMA EditAsideKeeps ==
  ASSUME EditInv, NEW c \in EditCalls, EditClaimFails(c) \/ EditWait(c)
  PROVE  EditInv'
<1>1. /\ EditTypeOK /\ EditBeside /\ UNCHANGED <<editDisk, editStore, editPlan, editRecords, editTouched, editWrote, editBlind>>
      /\ EditSame /\ editTouched' \in [EditCalls -> SUBSET Items]
  <2>1. EditTypeOK /\ EditBeside
        /\ UNCHANGED <<editDisk, editStore, editPlan, editRecords, editTouched, editWrote, editBlind>>
    BY DEF EditInv, EditClaimFails, EditWait, EditBeside, editBounds, editHistory
  <2> QED
    BY <2>1, EditStoreSame DEF EditSame, EditTypeOK
<1>2. PICK reply \in {"pending", "success", "failed", "error"} :
        EditReply(c, reply) /\ (reply = "success" => editRow.state = "succeeded")
  BY DEF EditClaimFails, EditWait, Replayed
<1>3. EditMoves(c, "done", reply)
  BY <1>1, <1>2, EditReplies DEF EditAnswers
<1> QED
  BY <1>1, <1>2, <1>3, QuietKeeps DEF EditSteps, OwnerSteps

\* An owner who goes on from reconcile has found every file as the batch was made
\* for, or knows of no earlier attempt, or could not look.
LEMMA ReconcileKeeps ==
  ASSUME EditInv, NEW c \in EditCalls, Reconcile(c)
  PROVE  EditInv'
<1>1. /\ editAt[c].step = "reconcile" /\ EditTypeOK /\ RecordFits /\ CallFits(c) /\ EditBeside
      /\ UNCHANGED <<editDisk, editStore, editPlan, editRecords, editTouched>> /\ editForeign' = editForeign
      /\ editRecords' \in [EditCalls -> {"none", "pending", "succeeded", "in_doubt"}]
      /\ editTouched' \in [EditCalls -> SUBSET Items]
      /\ editDisk' \in [Items -> {"old", "new", "other"}] /\ editPlan' \in [EditCalls -> EditCalls \cup {NoPlan}]
      /\ c \in AtWork /\ (AllNew' <=> AllNew) /\ UNCHANGED editRow /\ EditStoreFits
  <2>1. EditTypeOK /\ UNCHANGED <<editDisk, editStore, editPlan, editRecords, editTouched>>
    BY DEF EditInv, Reconcile
  <2> QED
    BY <2>1, EditStoreSame DEF Reconcile, EditInv, EditBeside, EditTypeOK, AtWork, AllNew
<1>2. CASE EditGo(c, "recover") /\ UNCHANGED <<editWrote, editBlind>>
  <2>1. EditMoves(c, "recover", editAnswer[c])
    BY <1>1, <1>2, EditGoes DEF EditSteps
  <2>2. EditSame
    BY <1>1, <1>2 DEF EditSame
  <2> QED
    BY <1>1, <2>1, <2>2, QuietKeeps DEF EditSteps, OwnerSteps
<1>3. CASE EditGo(c, "doubt") /\ UNCHANGED <<editWrote, editBlind>>
  <2>1. EditMoves(c, "doubt", editAnswer[c])
    BY <1>1, <1>3, EditGoes DEF EditSteps
  <2>2. EditSame
    BY <1>1, <1>3 DEF EditSame
  <2> QED
    BY <1>1, <2>1, <2>2, QuietKeeps DEF EditSteps, OwnerSteps
<1>4. CASE /\ EditUnhandled(c)
           /\ \/ editPlan[c] = NoPlan /\ UNCHANGED <<editWrote, editBlind>>
              \/ editPlan[c] # NoPlan /\ editWrote' = FALSE /\ UNCHANGED editBlind
              \/ /\ editPlan[c] # NoPlan /\ UNCHANGED editWrote
                 /\ editBlind' = IF editAt[c].owner THEN editBlind \cup {"unread"} ELSE editBlind
  <2>1. /\ editWrote' \in BOOLEAN /\ (editWrote' => editWrote)
        /\ editBlind \subseteq editBlind' /\ editBlind' \subseteq {"unread", "overtaken"}
        /\ editAt[c].owner /\ editBlind' = {} => ~editWrote' \/ editPlan[c] = NoPlan
        /\ editPlan[c] = NoPlan => editWrote' = editWrote
    <3>1. editWrote' \in BOOLEAN /\ editBlind' \subseteq {"unread", "overtaken"}
      BY <1>1, <1>4 DEF EditTypeOK
    <3>2. editWrote' => editWrote
      BY <1>4
    <3>3. editBlind \subseteq editBlind' /\ (editAt[c].owner /\ editBlind' = {} => ~editWrote' \/ editPlan[c] = NoPlan)
      BY <1>4
    <3>4. editPlan[c] = NoPlan => editWrote' = editWrote
      BY <1>4
    <3> QED
      BY <1>1, <3>1, <3>2, <3>3, <3>4
  <2>2. RecordFits'
    BY <1>1, <2>1 DEF RecordFits
  <2>3. CASE editAt[c].owner
    <3>1. EditMoves(c, "prepare", editAnswer[c])
      BY <1>1, <1>4, <2>3, EditGoes DEF EditSteps, EditUnhandled
    <3>2. EditTypeOK'
      BY <1>1, <2>1, <3>1, EditTypesKept
    <3>3. StepOf(c)
      BY <1>1, <2>1, <3>1 DEF StepOf, EditMoves
    <3>4. c \in Owners /\ c \in AtWork' /\ AtWork' = AtWork
      BY <1>1, <2>3, <3>1 DEF Owners, EditMoves, AtWork
    <3>5. editBlind' = {} => ~editWrote'
      BY <1>1, <2>1, <2>3, <3>4 DEF CallFits
    <3>6. CallFits(c)'
      BY <1>1, <2>1, <2>3, <3>1, <3>4, <3>5 DEF CallFits, EditMoves, OwnerSteps
    <3> QED
      BY <2>2, <3>2, <3>3, <3>6, EditInvFollows
  <2>4. CASE ~editAt[c].owner
    <3>1. EditMoves(c, "done", "in_doubt")
      BY <1>1, <1>4, <2>4, EditReplies DEF EditAnswers, EditUnhandled
    <3>2. EditTypeOK'
      BY <1>1, <2>1, <3>1, EditTypesKept
    <3>3. StepOf(c)
      BY <1>1, <2>1, <3>1 DEF StepOf, EditMoves
    <3>4. CallFits(c)'
      BY <1>1, <2>1, <2>4, <3>1 DEF CallFits, EditMoves, OwnerSteps, AtWork, Owners
    <3> QED
      BY <2>2, <3>2, <3>3, <3>4, EditInvFollows
  <2> QED
    BY <2>3, <2>4
<1> QED
  BY <1>2, <1>3, <1>4 DEF Reconcile

\* Steps that lead on without a change of a file or of the record.
LEMMA EditQuietKeeps ==
  ASSUME EditInv, NEW c \in EditCalls, Recover(c) \/ Recheck(c) \/ Readback(c) \/ SaveRecord(c) \/ SaveDoubt(c)
  PROVE  EditInv'
<1>1. EditTypeOK /\ CallFits(c)
  BY DEF EditInv
<1>2. c \in AtWork /\ EditBeside
      /\ UNCHANGED <<editDisk, editStore, editPlan, editWrote, editBlind>>
  BY DEF Recover, Recheck, Readback, SaveRecord, SaveDoubt, AtWork, EditBeside, editBounds, editHistory
<1>3. editRecords' \in [EditCalls -> {"none", "pending", "succeeded", "in_doubt"}]
  BY <1>1 DEF Recover, Recheck, Readback, SaveRecord, SaveDoubt, EditTypeOK
<1>4. EditSame
  BY <1>1, <1>2, <1>3, EditStoreSame DEF EditSame
<1>5. editTouched' \in [EditCalls -> SUBSET Items] /\ \A d \in EditCalls : d # c => editTouched[d] \subseteq editTouched'[d]
  BY <1>1 DEF Recover, Recheck, Readback, SaveRecord, SaveDoubt, EditTypeOK, editHistory
<1>6. CASE Recheck(c) /\ AllOld
  <2>1. EditMoves(c, "write", editAnswer[c])
    BY <1>1, <1>6, EditGoes DEF EditSteps, Recheck
  <2> QED
    BY <1>2, <1>4, <1>5, <1>6, <2>1, QuietKeeps DEF EditSteps, OwnerSteps, Recheck
<1>7. CASE EditGo(c, "doubt")
  <2>1. EditMoves(c, "doubt", editAnswer[c])
    BY <1>1, <1>7, EditGoes DEF EditSteps
  <2> QED
    BY <1>2, <1>4, <1>5, <2>1, QuietKeeps DEF EditSteps, OwnerSteps
<1>8. CASE EditGo(c, "mark")
  <2>1. EditMoves(c, "mark", editAnswer[c])
    BY <1>1, <1>8, EditGoes DEF EditSteps
  <2> QED
    BY <1>2, <1>4, <1>5, <2>1, QuietKeeps DEF EditSteps, OwnerSteps
<1>9. CASE EditGo(c, "confirm") /\ AllNew
  <2>1. EditMoves(c, "confirm", editAnswer[c])
    BY <1>1, <1>9, EditGoes DEF EditSteps
  <2> QED
    BY <1>2, <1>4, <1>5, <1>9, <2>1, QuietKeeps DEF EditSteps, OwnerSteps
<1>10. CASE EditGo(c, "save") /\ AllNew /\ editAt[c].step = "readback"
  <2>1. EditMoves(c, "save", editAnswer[c])
    BY <1>1, <1>10, EditGoes DEF EditSteps
  <2> QED
    BY <1>2, <1>4, <1>5, <1>10, <2>1, QuietKeeps DEF EditSteps, OwnerSteps
<1>11. CASE EditGo(c, "complete") /\ editAt[c].step = "save"
  <2>1. EditMoves(c, "complete", editAnswer[c])
    BY <1>1, <1>11, EditGoes DEF EditSteps
  <2> QED
    BY <1>2, <1>4, <1>5, <1>11, <2>1, QuietKeeps DEF EditSteps, OwnerSteps
<1> QED
  BY <1>6, <1>7, <1>8, <1>9, <1>10, <1>11 DEF Recover, Recheck, Readback, SaveRecord, SaveDoubt

\* The record is settled as applied, or the statement fails.
LEMMA EditSettledKeeps ==
  ASSUME EditInv, NEW c \in EditCalls, Confirm(c) \/ CompleteEdit(c)
  PROVE  EditInv'
<1>1. /\ EditTypeOK /\ CallFits(c) /\ c \in AtWork /\ EditBeside /\ editAt[c].step \in {"confirm", "complete"}
      /\ UNCHANGED <<editDisk, editPlan, editRecords, editTouched, editWrote, editBlind>>
      /\ editRecords' \in [EditCalls -> {"none", "pending", "succeeded", "in_doubt"}]
      /\ editTouched' \in [EditCalls -> SUBSET Items]
      /\ editPlan[c] \in EditCalls \cup {NoPlan}
  <2>1. EditTypeOK /\ UNCHANGED <<editRecords, editTouched>>
    BY DEF EditInv, Confirm, CompleteEdit, editHistory
  <2> QED
    BY <2>1 DEF EditInv, Confirm, CompleteEdit, AtWork, EditBeside, EditTypeOK, editHistory
<1>2. CASE EditGo(c, "mark") /\ UNCHANGED editStore
  <2>1. EditMoves(c, "mark", editAnswer[c])
    BY <1>1, <1>2, EditGoes DEF EditSteps
  <2>2. EditSame
    BY <1>1, <1>2, EditStoreSame DEF EditSame
  <2> QED
    BY <1>1, <2>1, <2>2, QuietKeeps DEF EditSteps, OwnerSteps
<1>3. ASSUME NEW plan \in EditCalls \cup {NoPlan}, EditSettle(c, "succeeded", plan), EditReply(c, "success")
      PROVE  EditInv'
  <2>1. EditMoves(c, "done", "success")
    BY <1>1, <1>3, EditReplies DEF EditAnswers
  <2>2. EditStoreFits /\ editRow'.state = "succeeded"
    BY <1>1, <1>3, EditSettles
  <2>3. editForeign = 0 => AllNew
    BY <1>1 DEF CallFits
  <2> QED
    BY <1>1, <2>1, <2>2, <2>3, LastKeeps
<1> QED
  BY <1>1, <1>2, <1>3 DEF Confirm, CompleteEdit

\* An attempt fails before it has written.
LEMMA PrepareKeeps ==
  ASSUME EditInv, NEW c \in EditCalls, Prepare(c)
  PROVE  EditInv'
<1>1. /\ EditTypeOK /\ c \in AtWork /\ EditBeside /\ editAt[c].step = "prepare"
      /\ UNCHANGED <<editDisk, editPlan, editRecords, editTouched, editWrote, editBlind>>
      /\ editRecords' \in [EditCalls -> {"none", "pending", "succeeded", "in_doubt"}]
      /\ editTouched' \in [EditCalls -> SUBSET Items]
  <2>1. EditTypeOK /\ UNCHANGED <<editRecords, editTouched>>
    BY DEF EditInv, Prepare, editHistory
  <2> QED
    BY <2>1 DEF Prepare, AtWork, EditBeside, EditTypeOK, editHistory, EditFails
<1>2. CASE EditGo(c, "hook") /\ UNCHANGED editStore
  <2>1. EditMoves(c, "hook", editAnswer[c])
    BY <1>1, <1>2, EditGoes DEF EditSteps
  <2>2. EditSame
    BY <1>1, <1>2, EditStoreSame DEF EditSame
  <2> QED
    BY <1>1, <2>1, <2>2, QuietKeeps DEF EditSteps, OwnerSteps
<1>3. CASE EditReply(c, "failed")
  <2>1. EditMoves(c, "done", "failed")
    BY <1>1, <1>3, EditReplies DEF EditAnswers
  <2>2. CASE EditSettle(c, "failed", NoPlan)
    <3>1. EditStoreFits /\ editRow'.state = "failed"
      BY <1>1, <2>2, EditSettles
    <3> QED
      BY <1>1, <2>1, <3>1, LastKeeps
  <2>3. CASE UNCHANGED editStore
    <3>1. EditSame
      BY <1>1, <2>3, EditStoreSame DEF EditSame
    <3> QED
      BY <1>1, <2>1, <3>1, QuietKeeps DEF EditSteps, OwnerSteps
  <2>4. EditSettle(c, "failed", NoPlan) \/ UNCHANGED editStore
    BY DEF Prepare, EditFails
  <2> QED
    BY <2>2, <2>3, <2>4
<1> QED
  BY <1>2, <1>3 DEF Prepare, EditFails

\* The owner puts its plan into the record before it writes; when it cannot, it
\* has changed nothing.
LEMMA PersistPlanKeeps ==
  ASSUME EditInv, NEW c \in EditCalls, PersistPlan(c)
  PROVE  EditInv'
<1>1. /\ EditTypeOK /\ RecordFits /\ CallFits(c) /\ c \in AtWork /\ EditBeside /\ editAt[c].step = "hook"
      /\ UNCHANGED <<editDisk, editPlan, editTouched, editWrote, editBlind>> /\ editForeign' = editForeign
      /\ editRecords' \in [EditCalls -> {"none", "pending", "succeeded", "in_doubt"}]
      /\ editTouched' \in [EditCalls -> SUBSET Items]
      /\ (AllNew' <=> AllNew)
  <2>1. EditTypeOK /\ UNCHANGED <<editDisk, editTouched>>
    BY DEF EditInv, PersistPlan, editHistory
  <2>2. editRecords' \in [EditCalls -> {"none", "pending", "succeeded", "in_doubt"}]
    BY <2>1 DEF PersistPlan, EditTypeOK
  <2> QED
    BY <2>1, <2>2 DEF EditInv, PersistPlan, AtWork, EditBeside, EditTypeOK, editHistory, AllNew
<1>2. CASE /\ EditGo(c, "recheck")
           /\ editRow' = IF editRow.state = "pending" THEN [editRow EXCEPT !.plan = c, !.lapsed = FALSE] ELSE editRow
           /\ UNCHANGED <<editFlights, editTombs>>
  <2>1. EditMoves(c, "recheck", editAnswer[c])
    BY <1>1, <1>2, EditGoes DEF EditSteps
  <2>2. EditStoreFits /\ editRow'.state = editRow.state /\ (editRow.state = "pending" => editRow'.plan = c)
        /\ (editRow'.plan = c \/ editRow'.plan = editRow.plan)
    BY <1>1, <1>2 DEF EditTypeOK, EditStoreFits, EditRows
  <2>3. EditTypeOK'
    <3>1. /\ editDisk' \in [Items -> {"old", "new", "other"}] /\ editPlan' \in [EditCalls -> EditCalls \cup {NoPlan}]
          /\ editWrote' \in BOOLEAN /\ editBlind' \subseteq {"unread", "overtaken"}
      BY <1>1 DEF EditTypeOK
    <3> QED
      BY <1>1, <2>1, <2>2, <3>1, EditTypesKept
  <2>4. RecordFits'
    <3>1. c # NoPlan
      BY EditConstants DEF NoPlan
    <3> QED
      BY <1>1, <2>2, <3>1 DEF RecordFits
  <2>5. c \in Owners /\ c \in AtWork' /\ AtWork' = AtWork
    BY <1>1, <2>1 DEF Owners, EditMoves, AtWork, CallFits, OwnerSteps
  <2>6. StepOf(c)
    BY <1>1, <2>1, <2>2, <2>5 DEF StepOf, EditMoves
  <2>7. CallFits(c)'
    BY <1>1, <2>1, <2>2, <2>5 DEF CallFits, EditMoves, OwnerSteps
  <2> QED
    BY <2>3, <2>4, <2>6, <2>7, EditInvFollows
<1>3. CASE EditReply(c, "failed") /\ (EditSettle(c, "failed", NoPlan) \/ UNCHANGED editStore)
  <2>1. EditMoves(c, "done", "failed")
    BY <1>1, <1>3, EditReplies DEF EditAnswers
  <2>2. CASE EditSettle(c, "failed", NoPlan)
    <3>1. EditStoreFits /\ editRow'.state = "failed"
      BY <1>1, <2>2, EditSettles
    <3> QED
      BY <1>1, <2>1, <3>1, LastKeeps
  <2>3. CASE UNCHANGED editStore
    <3>1. EditSame
      BY <1>1, <2>3, EditStoreSame DEF EditSame
    <3> QED
      BY <1>1, <2>1, <3>1, QuietKeeps DEF EditSteps, OwnerSteps
  <2> QED
    BY <1>3, <2>2, <2>3
<1> QED
  BY <1>2, <1>3 DEF PersistPlan

LEMMA MarkDoubtKeeps ==
  ASSUME EditInv, NEW c \in EditCalls, MarkDoubt(c)
  PROVE  EditInv'
<1>1. /\ EditTypeOK /\ c \in AtWork /\ editAt[c].step = "mark"
      /\ UNCHANGED <<editDisk, editPlan, editRecords, editTouched, editWrote, editBlind, editForeign, editCrashes, editLapses>>
      /\ editRecords' \in [EditCalls -> {"none", "pending", "succeeded", "in_doubt"}]
      /\ editTouched' \in [EditCalls -> SUBSET Items]
  <2>1. EditTypeOK /\ UNCHANGED <<editRecords, editTouched>>
    BY DEF EditInv, MarkDoubt, editHistory
  <2> QED
    BY <2>1 DEF MarkDoubt, AtWork, EditTypeOK, editHistory
<1>2. EditMoves(c, "done", "in_doubt")
  BY <1>1, EditReplies DEF EditAnswers, MarkDoubt
<1>3. /\ EditStoreFits /\ editRow'.plan = editRow.plan /\ EditBeside
      /\ editRow' = editRow \/ editRow'.state = "in_doubt"
  BY <1>1, EditMarks DEF MarkDoubt, EditBeside
<1>4. CASE editRow' = editRow
  <2>1. EditSame
    BY <1>1, <1>3, <1>4 DEF EditSame
  <2> QED
    BY <1>1, <1>2, <1>3, <2>1, QuietKeeps DEF EditSteps, OwnerSteps
<1>5. CASE editRow'.state = "in_doubt"
  BY <1>1, <1>2, <1>3, <1>5, LastKeeps
<1> QED
  BY <1>3, <1>4, <1>5

\* What a write finds is what the batch was made for, or what somebody has written
\* since; what it leaves of files nobody else writes to is new.
LEMMA WritesFit ==
  ASSUME EditTypeOK, NEW i \in Items, NEW bytes \in Written(i) \ {"fails"}
  PROVE  /\ bytes \in {"old", "new", "other"}
         /\ editDisk[i] = "old" => bytes = "new"
         /\ editDisk[i] = "new" => bytes = "new"
<1>1. EditOps[i] \in {"create", "update", "rename"}
  <2>1. EditOps \in Seq({"create", "update", "rename"})
    BY EditConstants
  <2> QED
    BY <2>1, ElementOfSeq, LenProperties DEF Items
<1>2. editDisk[i] \in {"old", "new", "other"}
  BY DEF EditTypeOK
<1> QED
  BY <1>1, <1>2 DEF Written

LEMMA WriteItemKeeps ==
  ASSUME EditInv, NEW c \in EditCalls, WriteItem(c)
  PROVE  EditInv'
<1> DEFINE i == editAt[c].item
<1>1. /\ EditTypeOK /\ RecordFits /\ CallFits(c) /\ c \in AtWork /\ EditBeside /\ editAt[c].step = "write"
      /\ UNCHANGED <<editPlan, editRecords, editBlind>> /\ editForeign' = editForeign
      /\ editRecords' \in [EditCalls -> {"none", "pending", "succeeded", "in_doubt"}]
      /\ EditStoreFits /\ editRow' = editRow /\ UNCHANGED editStore
      /\ i \in Items
  <2>1. EditTypeOK /\ UNCHANGED <<editRecords, editStore>>
    BY DEF EditInv, WriteItem
  <2> QED
    BY <2>1, EditStoreSame DEF EditInv, WriteItem, AtWork, EditBeside, EditTypeOK
<1>2. CASE EditGo(c, "doubt") /\ UNCHANGED <<editDisk, editTouched, editWrote>>
  <2>1. EditMoves(c, "doubt", editAnswer[c])
    BY <1>1, <1>2, EditGoes DEF EditSteps
  <2>2. EditSame /\ editTouched' \in [EditCalls -> SUBSET Items]
    BY <1>1, <1>2 DEF EditSame, EditTypeOK
  <2> QED
    BY <1>1, <1>2, <2>1, <2>2, QuietKeeps DEF EditSteps, OwnerSteps
<1>3. ASSUME NEW bytes \in Written(i) \ {"fails"}, editDisk' = [editDisk EXCEPT ![i] = bytes],
             editTouched' = [d \in EditCalls |-> IF d = c THEN editTouched[d] ELSE editTouched[d] \cup {i}],
             editWrote' = TRUE,
             editAt' = [editAt EXCEPT ![c] = IF i + 1 \in Items THEN [editAt[c] EXCEPT !.item = i + 1]
                                                               ELSE [editAt[c] EXCEPT !.step = "readback"]],
             UNCHANGED <<editAnswer, editFaults>>
      PROVE  EditInv'
  <2>1. /\ bytes \in {"old", "new", "other"}
        /\ editDisk[i] = "old" => bytes = "new"
        /\ editDisk[i] = "new" => bytes = "new"
    BY <1>1, WritesFit
  <2>2. /\ editDisk' \in [Items -> {"old", "new", "other"}] /\ editDisk'[i] = bytes
        /\ \A j \in Items : j # i => editDisk'[j] = editDisk[j]
    BY <1>1, <1>3, <2>1 DEF EditTypeOK
  <2>3. /\ editTouched' \in [EditCalls -> SUBSET Items] /\ editTouched'[c] = editTouched[c]
        /\ \A d \in EditCalls : d # c => editTouched[d] \subseteq editTouched'[d] /\ i \in editTouched'[d]
    BY <1>1, <1>3 DEF EditTypeOK
  <2>4. /\ editAt' \in [EditCalls -> EditAts] /\ editAt'[c].owner = editAt[c].owner
        /\ \A d \in EditCalls : d # c => editAt'[d] = editAt[d]
        /\ \/ editAt'[c].step = "write" /\ editAt'[c].item = i + 1
           \/ editAt'[c].step = "readback"
    <3>1. editAt \in [EditCalls -> EditAts] /\ editAt[c] \in [step : EditSteps, item : Items, owner : BOOLEAN]
      BY <1>1 DEF EditTypeOK, EditAts
    <3>2. CASE i + 1 \in Items
      <4>1. editAt' = [editAt EXCEPT ![c] = [editAt[c] EXCEPT !.item = i + 1]]
        BY <1>3, <3>2
      <4> QED
        BY <1>1, <3>1, <3>2, <4>1 DEF EditAts
    <3>3. CASE i + 1 \notin Items
      <4>1. editAt' = [editAt EXCEPT ![c] = [editAt[c] EXCEPT !.step = "readback"]]
        BY <1>3, <3>3
      <4> QED
        BY <1>1, <3>1, <4>1 DEF EditAts, EditSteps
    <3> QED
      BY <3>2, <3>3
  <2>5. EditTypeOK'
    <3>1. editFaults' \in 0..MaxEditFaults /\ editBlind' \subseteq {"unread", "overtaken"}
          /\ editAnswer' \in [EditCalls -> {"none", "success", "failed", "in_doubt", "pending", "error", "lost"}]
          /\ editPlan' \in [EditCalls -> EditCalls \cup {NoPlan}]
      BY <1>1, <1>3 DEF EditTypeOK
    <3> QED
      BY <1>1, <1>3, <2>2, <2>3, <2>4, <3>1 DEF EditTypeOK, EditStoreFits, EditRows, EditAts, EditBeside
  <2>6. editForeign = 0 /\ AllNew => AllNew'
    BY <2>1, <2>2 DEF AllNew
  <2>7. editAt[c].owner /\ c \in Owners /\ c \in AtWork' /\ AtWork' = AtWork
    BY <1>1, <2>4 DEF CallFits, OwnerSteps, Owners, AtWork
  <2>8. c # NoPlan
    BY EditConstants DEF NoPlan
  <2>9. RecordFits'
    <3>1. editForeign = 0 => \A j \in Items : editDisk'[j] \in {"old", "new"}
      BY <1>1, <2>1, <2>2 DEF RecordFits
    <3>2. editForeign = 0 /\ editRow.state = "succeeded" => AllNew'
      BY <1>1, <2>6 DEF RecordFits
    <3>3. editBlind = {} => editRow.state = "pending" /\ editRow.plan = c
      BY <1>1, <2>7 DEF CallFits
    <3> QED
      BY <1>1, <2>8, <3>1, <3>2, <3>3 DEF RecordFits
  <2>10. StepOf(c)
    BY <1>1, <1>3, <2>2, <2>3, <2>4, <2>6, <2>7 DEF StepOf
  <2>11. CallFits(c)'
    <3>1. \A j \in Items : j \in Nat /\ (j >= i + 1 => j >= i /\ j # i)
      <4>1. \A k, j \in Nat : j >= k + 1 => j >= k /\ j # k
        OBVIOUS
      <4>2. i \in Nat
        BY <1>1, ItemsAreNumbers
      <4> QED
        BY <4>1, <4>2, ItemsAreNumbers
    <3>2. editAt'[c].step = "write" => \A j \in Items : j >= editAt'[c].item => editDisk'[j] = "old" \/ j \in editTouched'[c]
      BY <1>1, <2>2, <2>3, <2>4, <3>1 DEF CallFits
    <3>3. editForeign' = 0 /\ (editAt'[c].step \in {"confirm", "save", "complete"} \/ editAnswer'[c] = "success") => AllNew'
      BY <1>1, <1>3, <2>4, <2>6 DEF CallFits
    <3>4. /\ editBlind' = {} /\ editAnswer'[c] = "success" => editRow'.state \in {"succeeded", "in_doubt"}
          /\ (editAt'[c].step \in OwnerSteps => editAt'[c].owner) /\ (editAt'[c].step = "idle" => ~editAt'[c].owner)
      BY <1>1, <1>3, <2>4, <2>7 DEF CallFits
    <3>5. editBlind' = {} =>
            /\ AtWork' = {c} /\ editRow'.state = "pending" /\ editRow'.plan = c
            /\ editAt'[c].step \notin {"prepare", "hook", "recheck", "reconcile"}
      BY <1>1, <2>4, <2>7 DEF CallFits
    <3> QED
      BY <3>2, <3>3, <3>4, <3>5 DEF CallFits
  <2> QED
    BY <2>5, <2>9, <2>10, <2>11, EditInvFollows
<1> QED
  BY <1>2, <1>3 DEF WriteItem

\* Somebody else writes: then nothing is said of the bytes, but the attempts have
\* the file among those touched.
LEMMA ForeignWriteKeeps ==
  ASSUME EditInv, NEW i \in Items, NEW bytes \in {"old", "new", "other"}, ForeignWrite(i, bytes)
  PROVE  EditInv'
<1>1. /\ EditTypeOK /\ RecordFits
      /\ UNCHANGED <<editRow, editFlights, editTombs, editAt, editPlan, editRecords, editAnswer, editWrote, editBlind,
                     editFaults, editCrashes, editLapses>>
      /\ editDisk' = [editDisk EXCEPT ![i] = bytes]
      /\ editTouched' = [c \in EditCalls |-> editTouched[c] \cup {i}]
  BY DEF EditInv, ForeignWrite, editStore
<1>2. editForeign' \in 0..MaxForeign /\ editForeign' # 0
  <2>1. editForeign \in 0..MaxForeign /\ editForeign < MaxForeign /\ editForeign' = editForeign + 1 /\ MaxForeign \in Nat
    BY EditBounds DEF EditInv, EditTypeOK, ForeignWrite
  <2> QED
    BY <2>1
<1>3. /\ editDisk' \in [Items -> {"old", "new", "other"}] /\ \A j \in Items : j # i => editDisk'[j] = editDisk[j]
      /\ editTouched' \in [EditCalls -> SUBSET Items]
      /\ \A c \in EditCalls : i \in editTouched'[c] /\ editTouched[c] \subseteq editTouched'[c]
  BY <1>1 DEF EditTypeOK
<1>4. EditTypeOK'
  BY <1>1, <1>2, <1>3 DEF EditTypeOK
<1>5. RecordFits'
  BY <1>1, <1>2 DEF RecordFits
<1>6. AtWork' = AtWork /\ Owners' = Owners
  BY <1>1 DEF AtWork, Owners
<1>7. ASSUME NEW c \in EditCalls PROVE CallFits(c)'
  <2>1. CallFits(c)
    BY DEF EditInv
  <2>2. editAt'[c].step = "write" => \A j \in Items : j >= editAt'[c].item => editDisk'[j] = "old" \/ j \in editTouched'[c]
    BY <1>1, <1>3, <2>1 DEF CallFits
  <2> QED
    BY <1>1, <1>2, <1>6, <2>1, <2>2 DEF CallFits
<1> QED
  BY <1>4, <1>5, <1>7 DEF EditInv

LEMMA EditLapseKeeps ==
  ASSUME EditInv, EditLapse
  PROVE  EditInv'
<1>1. /\ EditTypeOK /\ RecordFits
      /\ UNCHANGED <<editDisk, editFlights, editTombs, editAt, editPlan, editRecords, editAnswer, editTouched, editWrote,
                     editBlind, editForeign, editFaults, editCrashes>>
      /\ editRow' = [editRow EXCEPT !.lapsed = TRUE]
  BY DEF EditInv, EditLapse, editHistory
<1>2. editLapses' \in 0..MaxEditLapses
  <2>1. editLapses \in 0..MaxEditLapses /\ editLapses < MaxEditLapses /\ editLapses' = editLapses + 1 /\ MaxEditLapses \in Nat
    BY EditBounds DEF EditInv, EditTypeOK, EditLapse
  <2> QED
    BY <2>1
<1>3. editRow' \in EditRows /\ editRow'.state = editRow.state /\ editRow'.plan = editRow.plan
  BY <1>1 DEF EditTypeOK, EditRows
<1>4. EditTypeOK'
  BY <1>1, <1>2, <1>3 DEF EditTypeOK, EditRows
<1>5. RecordFits' /\ AtWork' = AtWork /\ Owners' = Owners /\ (AllNew' <=> AllNew)
  BY <1>1, <1>3 DEF RecordFits, AtWork, Owners, AllNew
<1>6. ASSUME NEW c \in EditCalls PROVE CallFits(c)'
  BY <1>1, <1>3, <1>5 DEF EditInv, CallFits
<1> QED
  BY <1>4, <1>5, <1>6 DEF EditInv

\* A crash ends the calls of its process.
LEMMA EditCrashKeeps ==
  ASSUME EditInv, NEW p \in EditProcesses, EditCrash(p)
  PROVE  EditInv'
<1>1. /\ EditTypeOK /\ RecordFits
      /\ UNCHANGED <<editDisk, editRow, editPlan, editRecords, editTouched, editWrote, editBlind,
                     editForeign, editFaults, editLapses>>
      /\ editFlights' \subseteq EditProcesses /\ editTombs' \subseteq EditProcesses
  BY DEF EditInv, EditCrash, editHistory, EditTypeOK
<1>2. editCrashes' \in 0..MaxEditCrashes
  <2>1. editCrashes \in 0..MaxEditCrashes /\ editCrashes < MaxEditCrashes /\ editCrashes' = editCrashes + 1 /\ MaxEditCrashes \in Nat
    BY EditBounds DEF EditInv, EditTypeOK, EditCrash
  <2> QED
    BY <2>1
<1>3. /\ editAt' \in [EditCalls -> EditAts]
      /\ \A c \in EditCalls : editAt'[c] = editAt[c] \/ editAt'[c].step = "done"
  BY <1>1 DEF EditCrash, EditTypeOK, EditAts, EditSteps
<1>4. /\ editAnswer' \in [EditCalls -> EditAnswers]
      /\ \A c \in EditCalls : editAnswer'[c] = editAnswer[c] \/ editAnswer'[c] = "lost"
  BY <1>1 DEF EditCrash, EditTypeOK, EditAnswers
<1>5. EditTypeOK'
  BY <1>1, <1>2, <1>3, <1>4 DEF EditTypeOK, EditAts, EditAnswers
<1>6. RecordFits' /\ (AllNew' <=> AllNew)
  BY <1>1 DEF RecordFits, AllNew
<1>7. AtWork' \subseteq AtWork /\ Owners' \subseteq Owners /\ \A c \in Owners' : c \in AtWork' /\ editAt'[c] = editAt[c]
  BY <1>3 DEF AtWork, Owners
<1>8. ASSUME NEW c \in EditCalls PROVE CallFits(c)'
  <2>1. CallFits(c)
    BY DEF EditInv
  <2>2. /\ editForeign' = 0 /\ (editAt'[c].step \in {"confirm", "save", "complete"} \/ editAnswer'[c] = "success") => AllNew'
        /\ (editAt'[c].step \in OwnerSteps => editAt'[c].owner) /\ (editAt'[c].step = "idle" => ~editAt'[c].owner)
        /\ editBlind' = {} /\ editAnswer'[c] = "success" => editRow'.state \in {"succeeded", "in_doubt"}
    BY <1>1, <1>3, <1>4, <1>6, <2>1 DEF CallFits, OwnerSteps
  <2>3. editAt'[c].step = "write" => \A i \in Items : i >= editAt'[c].item => editDisk'[i] = "old" \/ i \in editTouched'[c]
    BY <1>1, <1>3, <2>1 DEF CallFits
  <2>4. ASSUME editBlind' = {}, c \in Owners'
        PROVE  AtWork' = {c} /\ AtWork = {c} /\ editAt'[c] = editAt[c] /\ c \in Owners
    BY <1>1, <1>7, <2>1, <2>4 DEF CallFits
  <2> QED
    BY <1>1, <2>1, <2>2, <2>3, <2>4 DEF CallFits
<1> QED
  BY <1>5, <1>6, <1>8 DEF EditInv

LEMMA EditStarts ==
  ASSUME EditInit
  PROVE  EditInv
<1>1. 0 \in 0..MaxForeign /\ 0 \in 0..MaxEditFaults /\ 0 \in 0..MaxEditCrashes /\ 0 \in 0..MaxEditLapses
  BY EditBounds
<1>2. EditTypeOK
  BY <1>1, ItemsAreNumbers DEF EditInit, EditTypeOK, EditSteps
<1>3. RecordFits
  BY DEF EditInit, RecordFits
<1>4. \A c \in EditCalls : CallFits(c)
  BY DEF EditInit, CallFits, OwnerSteps, AtWork, Owners
<1> QED
  BY <1>2, <1>3, <1>4 DEF EditInv

LEMMA EditStays ==
  ASSUME EditInv, UNCHANGED editVars
  PROVE  EditInv'
<1>1. UNCHANGED <<editDisk, editRow, editFlights, editTombs, editAt, editPlan, editRecords, editAnswer, editTouched,
                  editWrote, editBlind, editForeign, editFaults, editCrashes, editLapses>>
  BY DEF editVars, editStore, editHistory, editBounds
<1>2. EditTypeOK' /\ RecordFits' /\ AtWork' = AtWork /\ Owners' = Owners /\ (AllNew' <=> AllNew)
  BY <1>1 DEF EditInv, EditTypeOK, RecordFits, AtWork, Owners, AllNew
<1>3. ASSUME NEW c \in EditCalls PROVE CallFits(c)'
  BY <1>1, <1>2 DEF EditInv, CallFits
<1> QED
  BY <1>2, <1>3 DEF EditInv

LEMMA EditStepsKeep ==
  ASSUME EditInv, [EditNext]_editVars
  PROVE  EditInv'
<1>1. CASE \E c \in EditCalls : EditStep(c)
  BY <1>1, EditClaimKeeps, EditAsideKeeps, ReconcileKeeps, EditQuietKeeps, EditSettledKeeps, PrepareKeeps,
     PersistPlanKeeps, WriteItemKeeps, MarkDoubtKeeps DEF EditStep
<1>2. CASE \E i \in Items, bytes \in {"old", "new", "other"} : ForeignWrite(i, bytes)
  BY <1>2, ForeignWriteKeeps
<1>3. CASE EditLapse \/ \E p \in EditProcesses : EditCrash(p)
  BY <1>3, EditLapseKeeps, EditCrashKeeps
<1> QED
  BY <1>1, <1>2, <1>3, EditStays DEF EditNext

\* A call that has heard "applied" leaves no way to a "failed": none is an owner.
LEMMA VerdictsAgree ==
  ASSUME EditInv, [EditNext]_editVars
  PROVE  OneVerdict
<1> SUFFICES ASSUME NEW d \in EditCalls, editAnswer[d] = "success", editBlind' = {},
                    NEW c \in EditCalls, editAnswer'[c] = "failed", editAnswer[c] # "failed"
             PROVE  FALSE
  BY DEF OneVerdict
<1>1. PICK e \in EditCalls : EditStep(e)
  BY DEF EditNext, editVars, ForeignWrite, EditLapse, EditCrash
<1>2. EditTypeOK /\ CallFits(d) /\ CallFits(e)
  BY DEF EditInv
<1>3. editBlind \subseteq editBlind'
  <2>1. CASE EditClaim(e) \/ EditClaimFails(e) \/ EditWait(e) \/ Reconcile(e) \/ Recover(e) \/ Confirm(e)
    BY <2>1 DEF EditClaim, EditOwn, EditReconcileInDoubt, EditClaimFails, EditWait, Reconcile, Recover, Confirm, editHistory
  <2>2. CASE \/ Prepare(e) \/ PersistPlan(e) \/ Recheck(e) \/ WriteItem(e) \/ Readback(e)
             \/ SaveRecord(e) \/ CompleteEdit(e) \/ SaveDoubt(e) \/ MarkDoubt(e)
    BY <2>2 DEF Prepare, PersistPlan, Recheck, WriteItem, Readback, SaveRecord, CompleteEdit, SaveDoubt, MarkDoubt, editHistory
  <2> QED
    BY <1>1, <2>1, <2>2 DEF EditStep
<1>4. editRow.state \in {"succeeded", "in_doubt"} /\ Owners = {}
  <2>1. editBlind = {} /\ editRow.state \in {"succeeded", "in_doubt"}
    BY <1>2, <1>3 DEF CallFits
  <2>2. \A o \in Owners : o \in EditCalls /\ editRow.state = "pending"
    BY <2>1 DEF EditInv, CallFits, Owners, AtWork
  <2> QED
    BY <2>1, <2>2
<1>5. editAt[e].step \notin OwnerSteps
  BY <1>2, <1>4 DEF CallFits, OwnerSteps, Owners, AtWork
<1>6. editAnswer' # editAnswer /\ \A reply \in EditAnswers : EditReply(e, reply) => reply = "failed"
  BY <1>2 DEF EditTypeOK, EditReply
<1>7. ~EditReply(e, "success") /\ ~EditReply(e, "in_doubt") /\ ~EditReply(e, "pending") /\ ~EditReply(e, "error")
  BY <1>6 DEF EditAnswers
<1>8. EditReply(e, Replayed) => editRow.state \notin {"succeeded", "failed"}
  BY <1>4, <1>7 DEF Replayed
<1>9. CASE EditClaim(e) \/ EditClaimFails(e) \/ EditWait(e)
  BY <1>6, <1>7, <1>8, <1>9 DEF EditClaim, EditOwn, EditReconcileInDoubt, EditClaimFails, EditWait, EditGo
<1>10. CASE Reconcile(e)
  BY <1>6, <1>7, <1>10 DEF Reconcile, EditUnhandled, EditGo
<1>11. CASE Recover(e) \/ Confirm(e) \/ SaveDoubt(e) \/ MarkDoubt(e)
  BY <1>6, <1>7, <1>11 DEF Recover, Confirm, SaveDoubt, MarkDoubt, EditGo
<1>12. CASE Prepare(e) \/ PersistPlan(e) \/ Recheck(e) \/ WriteItem(e) \/ Readback(e) \/ SaveRecord(e) \/ CompleteEdit(e)
  BY <1>5, <1>12 DEF Prepare, PersistPlan, Recheck, WriteItem, Readback, SaveRecord, CompleteEdit, OwnerSteps
<1> QED
  BY <1>1, <1>9, <1>10, <1>11, <1>12 DEF EditStep

LEMMA WritesReplaceOld ==
  ASSUME EditInv, [EditNext]_editVars
  PROVE  NoLostUpdate
<1> SUFFICES ASSUME NEW c \in EditCalls, editAt[c].step = "write", editDisk'[editAt[c].item] # editDisk[editAt[c].item]
             PROVE  editDisk[editAt[c].item] = "old" \/ editAt[c].item \in editTouched[c]
  BY DEF NoLostUpdate
<1>1. CallFits(c) /\ editAt[c].item \in Items /\ editAt[c].item \in Nat
  BY ItemsAreNumbers DEF EditInv, EditTypeOK
<1> QED
  BY <1>1 DEF CallFits

LEMMA EditAnswersFollow ==
  ASSUME EditInv
  PROVE  EditAnswersTrue
BY DEF EditInv, EditAnswersTrue, AppliedIsApplied, FailedIsUntouched, RecordFits, CallFits

LEMMA EditInductive == EditSpec => []EditInv
BY EditStarts, EditStepsKeep, PTL DEF EditSpec

(* EditsHold: as long as nobody else writes to the files of a batch, a call    *)
(* that is told "applied", by its own attempt, a replay or a recovery, finds   *)
(* all of it; a key recorded as failed has changed no file, and no call hears  *)
(* "failed" after one has heard "applied", as long as every retry could read   *)
(* the files and no attempt was overtaken; a write replaces only what the      *)
(* batch was made for, or what somebody wrote after the last look.             *)
(* tools_edit.go, edit_idempotency.go and internal/edit/apply.go.              *)
THEOREM BatchesOfEditsHold == EditSpec => EditsHold
<1>1. EditInv => EditAnswersTrue
  BY EditAnswersFollow
<1>2. EditInv /\ [EditNext]_editVars => OneVerdict /\ NoLostUpdate
  BY VerdictsAgree, WritesReplaceOld
<1> QED
  BY <1>1, <1>2, EditInductive, PTL DEF EditSpec, EditsHold

-----------------------------------------------------------------------------
(* Moves out of the workspace: MoveInv is inductive. *)

\* A target that a submit has won and not yet reported.
AtTarget(c) == moveAt[c].step \in {"inspect", "try", "look"}

\* One submit at most has won; the row says so, from then on.
OneMover ==
  /\ \A c \in SubmitCalls : Working(c) => moveRow.status = "committing"
  /\ \A c \in SubmitCalls : moveReport[c] # NoResults => moveRow.status \notin {"none", "prepared"}
  /\ MovedOnce

\* The targets are reported one after the other, each as what has become of it.
ReportsFollow ==
  /\ \A c \in SubmitCalls : AtTarget(c) =>
       \A t \in Targets : moveReport[c][t] = "none" <=> t >= moveAt[c].target
  /\ \A c \in SubmitCalls : moveAt[c].step \in {"idle", "mark"} => moveAt[c].target = 1
  /\ \A c \in SubmitCalls : moveAt[c].step = "complete" => \A t \in Targets : moveReport[c][t] # "none"
  /\ \A c \in SubmitCalls, t \in Targets \ moveDisturbed :
       /\ moveReport[c][t] = "moved" => moveTrash[t] # <<>>
       /\ moveReport[c][t] = "failed" => moveTrash[t] = <<>>

\* Nothing is in the trash of targets to come.
NothingTaken ==
  \A c \in SubmitCalls, t \in Targets \ moveDisturbed :
    AtTarget(c) /\ (t > moveAt[c].target \/ (t = moveAt[c].target /\ moveAt[c].step = "inspect")) => moveTrash[t] = <<>>

\* Between the attempts an undisturbed target is where it was found, as it was
\* shown, or in the trash.
Undisturbed(c, t) ==
  /\ moveDisk[t] = "gone" <=> moveTrash[t] # <<>>
  /\ moveDisk[t] \in {"gone", "frozen", "link"} \/ MoveKinds[t] # "file"
  /\ moveAt[c].step = "try" => moveDisk[t] # "gone"
PathFits ==
  \A c \in SubmitCalls : moveAt[c].step \in {"try", "look"} =>
    moveAt[c].target \in moveDisturbed \/ Undisturbed(c, moveAt[c].target)

\* The row has the report of the winner, and answers have what the row has.
AnswersFollow ==
  /\ moveRow.status \in Concluded =>
       /\ \E c \in SubmitCalls : moveReport[c] = moveRow.result
       /\ \A t \in Targets : moveRow.result[t] # "none"
  /\ \A c \in MoveCalls : moveAnswer[c].kind = "result" =>
       moveRow.status \in Concluded /\ moveAnswer[c].result = moveRow.result

\* Before anybody has won, no target has been taken.
Untaken == moveRow.status \in {"none", "prepared"} => moveLate = {} /\ \A t \in Targets : moveTrash[t] = <<>>

TrashFits == TakenOnce /\ NothingTaken /\ PathFits /\ Untaken /\ moveLate \subseteq moveDisturbed

MoveInv == MoveTypeOK /\ OneMover /\ ReportsFollow /\ TrashFits /\ AnswersFollow

\* A call goes on, or ends with an answer; the others stay where they are.
MoveSteps == {"idle", "freeze", "create", "mark", "inspect", "try", "look", "complete", "done"}
MoveKindsOfAnswer == {"none", "shown", "stale", "expired", "progress", "conflict", "result", "in_doubt", "error", "lost"}
MoveAts == [step : MoveSteps, target : Targets, way : TrashWays]
MoveAnswers == [kind : MoveKindsOfAnswer, result : Results]

LEMMA MoveGoes ==
  ASSUME MoveTypeOK, NEW c \in MoveCalls, NEW step \in MoveSteps, MoveGo(c, step)
  PROVE  /\ moveAt' \in [MoveCalls -> MoveAts] /\ moveAt'[c].step = step /\ moveAt'[c].target = moveAt[c].target
         /\ \A d \in MoveCalls : d # c => moveAt'[d] = moveAt[d]
         /\ UNCHANGED moveAnswer
BY DEF MoveTypeOK, MoveGo, MoveAts, MoveSteps

LEMMA MoveReplies ==
  ASSUME MoveTypeOK, NEW c \in MoveCalls, NEW kind \in MoveKindsOfAnswer, NEW result \in Results,
         MoveReply(c, kind, result)
  PROVE  /\ moveAt' \in [MoveCalls -> MoveAts] /\ moveAt'[c].step = "done"
         /\ \A d \in MoveCalls : d # c => moveAt'[d] = moveAt[d]
         /\ moveAnswer' \in [MoveCalls -> MoveAnswers]
         /\ moveAnswer'[c].kind = kind /\ moveAnswer'[c].result = result
         /\ \A d \in MoveCalls : d # c => moveAnswer'[d] = moveAnswer[d]
BY DEF MoveTypeOK, MoveReply, MoveAts, MoveSteps, MoveAnswers, MoveKindsOfAnswer

\* A step of a call that is none of the mover's, or is its last without a result.
MovesAside(c) ==
  /\ moveAt' \in [MoveCalls -> MoveAts] /\ moveAnswer' \in [MoveCalls -> MoveAnswers]
  /\ \A d \in MoveCalls : d # c => moveAt'[d] = moveAt[d] /\ moveAnswer'[d] = moveAnswer[d]
  /\ moveAt'[c].step \notin {"idle", "inspect", "try", "look", "complete"}
  /\ moveAt'[c].step = "mark" => moveAt[c].step = "idle" /\ moveAt'[c].target = moveAt[c].target
  /\ moveAnswer'[c] = moveAnswer[c] \/ moveAnswer'[c].kind # "result"
     \/ (moveRow.status \in Concluded /\ moveAnswer'[c].result = moveRow.result)
  /\ UNCHANGED <<moveFiles, moveReport, moveTouches, moveCrashes>>
  /\ moveRow' = moveRow \/ (moveRow.status = "none" /\ moveRow' = [moveRow EXCEPT !.status = "prepared"])
  /\ moveFaults' = moveFaults \/ MoveFault

LEMMA NoResultsFit == NoResults \in Results
BY DEF NoResults, Results

\* The parts of MoveInv.
LEMMA MoveParts ==
  ASSUME MoveInv
  PROVE  MoveTypeOK /\ OneMover /\ ReportsFollow /\ TakenOnce /\ NothingTaken /\ PathFits /\ Untaken
         /\ moveLate \subseteq moveDisturbed /\ AnswersFollow
BY DEF MoveInv, TrashFits

LEMMA FaultsFit ==
  ASSUME MoveTypeOK, moveFaults' = moveFaults \/ MoveFault
  PROVE  moveFaults' \in 0..MaxMoveFaults
<1>1. MaxMoveFaults \in Nat
  BY MoveConstants
<1> QED
  BY <1>1 DEF MoveTypeOK, MoveFault

LEMMA AsideKeeps ==
  ASSUME MoveInv, NEW c \in MoveCalls, MovesAside(c)
  PROVE  MoveInv'
<1>1. UNCHANGED <<moveDisk, moveTrash, moveLate, moveDisturbed, moveReport, moveTouches, moveCrashes>>
  BY DEF MovesAside, moveFiles
<1>2. MoveTypeOK'
  <2>1. moveFaults' \in 0..MaxMoveFaults
    BY MoveParts, FaultsFit DEF MovesAside
  <2>2. moveRow' \in [status : {"none", "prepared", "committing"} \cup Concluded, expired : BOOLEAN, result : Results]
    BY MoveParts DEF MoveTypeOK, MovesAside
  <2> QED
    BY <1>1, <2>1, <2>2, MoveParts DEF MoveTypeOK, MovesAside, MoveAts, MoveSteps, MoveAnswers, MoveKindsOfAnswer
<1>3. \/ moveRow' = moveRow
      \/ moveRow.status = "none" /\ moveRow'.status = "prepared"
  BY MoveParts DEF MovesAside, MoveTypeOK
<1>4. \A d \in SubmitCalls : d \in MoveCalls /\ (Working(d)' => d # c /\ Working(d) /\ moveAt'[d] = moveAt[d])
  BY DEF MovesAside, Working, MoveCalls
<1>5. OneMover'
  BY <1>1, <1>3, <1>4, MoveParts DEF OneMover, MovedOnce
<1>6. \A d \in SubmitCalls : AtTarget(d)' => moveAt'[d] = moveAt[d] /\ AtTarget(d)
  BY <1>4 DEF Working, AtTarget
<1>7. ReportsFollow'
  <2>1. \A d \in SubmitCalls : moveAt'[d].step = "complete" => moveAt'[d] = moveAt[d]
    BY <1>4 DEF Working
  <2>2. \A d \in SubmitCalls : moveAt'[d].step \in {"idle", "mark"} =>
          moveAt'[d] = moveAt[d] \/ (moveAt[d].step = "idle" /\ moveAt'[d].target = moveAt[d].target)
    BY <1>4 DEF MovesAside
  <2> QED
    BY <1>1, <1>6, <2>1, <2>2, MoveParts DEF ReportsFollow
<1>8. AnswersFollow'
  BY <1>1, <1>3, MoveParts DEF AnswersFollow, MovesAside, Concluded
<1>9. NothingTaken'
  BY <1>1, <1>6, MoveParts DEF NothingTaken
<1>10. PathFits'
  BY <1>1, <1>6, MoveParts DEF PathFits, Undisturbed, AtTarget
<1>11. TakenOnce' /\ Untaken' /\ moveLate' \subseteq moveDisturbed'
  BY <1>1, <1>3, MoveParts DEF TakenOnce, Untaken
<1> QED
  BY <1>2, <1>5, <1>7, <1>8, <1>9, <1>10, <1>11 DEF MoveInv, TrashFits

LEMMA PrepareAside ==
  ASSUME MoveInv, NEW c \in PrepareCalls, PrepareStep(c)
  PROVE  MovesAside(c)
<1>1. c \in MoveCalls /\ MoveTypeOK /\ NoResults \in Results
  BY NoResultsFit DEF MoveCalls, MoveInv
<1>2. CASE FindRequest(c)
  <2>1. UNCHANGED <<moveRow, moveFiles, moveReport, moveTouches, moveFaults, moveCrashes>>
        /\ (MoveReply(c, "stale", NoResults) \/ MoveReply(c, "shown", NoResults) \/ MoveGo(c, "freeze"))
    BY <1>2 DEF FindRequest, moveBounds
  <2> QED
    BY <1>1, <2>1, MoveGoes, MoveReplies DEF MovesAside, MoveTypeOK, MoveSteps, MoveKindsOfAnswer, MoveAnswers
<1>3. CASE Freeze(c)
  <2>1. UNCHANGED <<moveRow, moveFiles, moveReport, moveTouches, moveFaults, moveCrashes>>
        /\ (MoveReply(c, "stale", NoResults) \/ MoveGo(c, "create"))
    BY <1>3 DEF Freeze, moveBounds
  <2> QED
    BY <1>1, <2>1, MoveGoes, MoveReplies DEF MovesAside, MoveTypeOK, MoveSteps, MoveKindsOfAnswer, MoveAnswers
<1>4. CASE CreateRequest(c)
  <2>1. UNCHANGED <<moveFiles, moveReport, moveTouches, moveCrashes>>
        /\ (MoveReply(c, "shown", NoResults) \/ MoveReply(c, "error", NoResults))
        /\ (moveFaults' = moveFaults \/ MoveFault)
        /\ (moveRow' = moveRow \/ (moveRow.status = "none" /\ moveRow' = [moveRow EXCEPT !.status = "prepared"]))
    BY <1>4 DEF CreateRequest
  <2> QED
    BY <1>1, <2>1, MoveReplies DEF MovesAside, MoveKindsOfAnswer
<1> QED
  BY <1>2, <1>3, <1>4 DEF PrepareStep

\* A submit that does not win: it is told what the row says.
LEMMA SubmitAside ==
  ASSUME MoveInv, NEW c \in SubmitCalls, Submit(c) \/ (MarkCommitting(c) /\ moveAt'[c].step # "inspect")
  PROVE  MovesAside(c)
<1>1. c \in MoveCalls /\ MoveTypeOK /\ NoResults \in Results /\ moveRow.result \in Results
  BY NoResultsFit DEF MoveCalls, MoveInv, MoveTypeOK
<1>2. CASE Submit(c)
  <2>1. UNCHANGED <<moveRow, moveFiles, moveReport, moveTouches, moveFaults, moveCrashes>>
        /\ moveAt[c].step = "idle"
        /\ \/ MoveReply(c, "expired", NoResults)
           \/ MoveReply(c, "progress", NoResults)
           \/ MoveReply(c, "result", moveRow.result) /\ moveRow.status \in Concluded
           \/ MoveGo(c, "mark")
    BY <1>2 DEF Submit, moveBounds
  <2> QED
    BY <1>1, <2>1, MoveGoes, MoveReplies DEF MovesAside, MoveTypeOK, MoveSteps, MoveKindsOfAnswer, MoveAnswers
<1>3. CASE MarkCommitting(c) /\ moveAt'[c].step # "inspect"
  <2>1. ~MoveGo(c, "inspect")
    BY <1>1, <1>3, MoveGoes DEF MoveSteps
  <2>2. UNCHANGED <<moveRow, moveFiles, moveReport, moveTouches, moveCrashes>>
        /\ (MoveReply(c, "progress", NoResults) \/ MoveReply(c, "conflict", NoResults))
        /\ (moveFaults' = moveFaults \/ MoveFault)
    BY <1>3, <2>1 DEF MarkCommitting
  <2> QED
    BY <1>1, <2>2, MoveReplies DEF MovesAside, MoveKindsOfAnswer
<1> QED
  BY <1>2, <1>3

\* The winner: nobody has worked on the request before.
LEMMA WinnerKeeps ==
  ASSUME MoveInv, NEW c \in SubmitCalls, MarkCommitting(c), moveAt'[c].step = "inspect"
  PROVE  MoveInv'
<1>1. c \in MoveCalls /\ MoveTypeOK
  BY DEF MoveInv, MoveCalls
<1>2. /\ moveAt[c].step = "mark" /\ moveRow.status = "prepared"
      /\ moveRow' = [moveRow EXCEPT !.status = "committing"] /\ MoveGo(c, "inspect") /\ UNCHANGED moveFaults
      /\ UNCHANGED <<moveDisk, moveTrash, moveLate, moveDisturbed, moveReport, moveTouches, moveCrashes>>
  <2>1. \A kind \in MoveKindsOfAnswer : ~MoveReply(c, kind, NoResults)
    BY <1>1, NoResultsFit, MoveReplies
  <2> QED
    BY <2>1 DEF MarkCommitting, MoveKindsOfAnswer, moveFiles
<1>3. /\ moveAt' \in [MoveCalls -> MoveAts] /\ (\A d \in MoveCalls : d # c => moveAt'[d] = moveAt[d])
      /\ moveAt'[c].target = moveAt[c].target /\ UNCHANGED moveAnswer
  BY <1>1, <1>2, MoveGoes DEF MoveSteps
<1>4. moveRow' \in [status : {"none", "prepared", "committing"} \cup Concluded, expired : BOOLEAN, result : Results]
      /\ moveRow'.status = "committing"
  BY <1>1, <1>2 DEF MoveTypeOK
<1>5. MoveTypeOK'
  BY <1>1, <1>2, <1>3, <1>4 DEF MoveTypeOK, MoveAts, MoveSteps
<1>6. /\ \A d \in SubmitCalls : d \in MoveCalls /\ ~Working(d) /\ moveReport[d] = NoResults
      /\ \A d \in SubmitCalls : Working(d)' => d = c
      /\ \A t \in Targets : moveTrash[t] = <<>>
  BY <1>2, <1>3, MoveParts DEF OneMover, MoveCalls, Working, Untaken
<1>7. OneMover'
  BY <1>2, <1>4, <1>6 DEF OneMover, MovedOnce
<1>8. ReportsFollow'
  <2>1. \A d \in SubmitCalls, t \in Targets : moveReport'[d][t] = "none"
    BY <1>2, <1>6 DEF NoResults
  <2>2. moveAt'[c].target = 1 /\ \A t \in Targets : t >= 1
    BY <1>2, <1>3, MoveParts, MoveConstants, LenProperties DEF ReportsFollow, Targets
  <2>3. \A d \in SubmitCalls : moveAt'[d].step \in {"idle", "mark"} => moveAt'[d] = moveAt[d]
    BY <1>3, <1>6
  <2>4. \A d \in SubmitCalls : (AtTarget(d)' => d = c) /\ moveAt'[d].step # "complete"
    BY <1>6, moveAt'[c].step = "inspect" DEF AtTarget, Working
  <2> QED
    BY <2>1, <2>2, <2>3, <2>4, MoveParts DEF ReportsFollow
<1>9. AnswersFollow'
  BY <1>1, <1>2, <1>3, <1>4, MoveParts DEF AnswersFollow, Concluded
<1>10. PathFits'
  BY <1>6, moveAt'[c].step = "inspect" DEF PathFits, Working
<1>11. TakenOnce' /\ NothingTaken' /\ Untaken' /\ moveLate' \subseteq moveDisturbed'
  BY <1>2, <1>4, <1>6, MoveParts DEF TakenOnce, NothingTaken, Untaken
<1> QED
  BY <1>5, <1>7, <1>8, <1>9, <1>10, <1>11 DEF MoveInv, TrashFits

\* A target is reported, the next one is looked at.
LEMMA Reported ==
  ASSUME MoveTypeOK, NEW c \in SubmitCalls, NEW t \in Targets, NEW result \in {"moved", "failed"},
         Report(c, t, result)
  PROVE  /\ moveReport' \in [SubmitCalls -> Results] /\ moveReport'[c][t] = result
         /\ \A u \in Targets : u # t => moveReport'[c][u] = moveReport[c][u]
         /\ \A d \in SubmitCalls : d # c => moveReport'[d] = moveReport[d]
         /\ moveAt' \in [MoveCalls -> MoveAts] /\ (\A d \in MoveCalls : d # c => moveAt'[d] = moveAt[d])
         /\ moveAt'[c].step \in {"inspect", "complete"}
         /\ moveAt'[c].step = "inspect" => moveAt'[c].target = t + 1
         /\ moveAt'[c].step = "complete" => t + 1 \notin Targets
         /\ moveReport'[c] # NoResults
         /\ UNCHANGED moveAnswer
<1>1. moveReport \in [SubmitCalls -> [Targets -> {"none", "moved", "failed"}]]
      /\ moveReport' = [moveReport EXCEPT ![c] = [moveReport[c] EXCEPT ![t] = result]]
  BY DEF MoveTypeOK, Results, Report
<1>2. moveReport' \in [SubmitCalls -> Results] /\ moveReport'[c][t] = result
      /\ (\A u \in Targets : u # t => moveReport'[c][u] = moveReport[c][u])
      /\ \A d \in SubmitCalls : d # c => moveReport'[d] = moveReport[d]
  BY <1>1 DEF Results
<1>3. c \in MoveCalls /\ moveAt \in [MoveCalls -> MoveAts] /\ 1 \in TrashWays
  <2>1. MoveWays \in Seq({"command", "rename"}) /\ MoveWays # <<>>
    BY MoveConstants
  <2> QED
    BY <2>1, EmptySeq, LenProperties DEF MoveCalls, MoveTypeOK, MoveAts, MoveSteps, TrashWays
<1>4. moveReport'[c] # NoResults
  BY <1>2 DEF NoResults
<1>5. UNCHANGED moveAnswer
  BY DEF Report
<1>6. CASE t + 1 \in Targets
  <2>1. moveAt' = [moveAt EXCEPT ![c] = [step |-> "inspect", target |-> t + 1, way |-> 1]]
    BY <1>6 DEF Report
  <2>2. [step |-> "inspect", target |-> t + 1, way |-> 1] \in MoveAts
    BY <1>3, <1>6 DEF MoveAts, MoveSteps
  <2> QED
    BY <1>2, <1>3, <1>4, <1>5, <2>1, <2>2
<1>7. CASE t + 1 \notin Targets
  <2>1. moveAt' = [moveAt EXCEPT ![c] = [step |-> "complete", target |-> t, way |-> 1]]
    BY <1>7 DEF Report
  <2>2. [step |-> "complete", target |-> t, way |-> 1] \in MoveAts
    BY <1>3 DEF MoveAts, MoveSteps
  <2> QED
    BY <1>2, <1>3, <1>4, <1>5, <1>7, <2>1, <2>2
<1> QED
  BY <1>6, <1>7

\* What goes to the trash.
LEMMA Trashed ==
  ASSUME MoveTypeOK, NEW t \in Targets, ToTrash(t)
  PROVE  /\ moveDisk[t] # "gone" /\ moveDisk'[t] = "gone" /\ moveTrash'[t] # <<>>
         /\ moveDisk' \in [Targets -> Things \cup {"gone"}] /\ moveTrash' \in [Targets -> Seq(Things)]
         /\ \A u \in Targets : u # t => moveDisk'[u] = moveDisk[u] /\ moveTrash'[u] = moveTrash[u]
         /\ moveTrash[t] = <<>> => Len(moveTrash'[t]) <= 1
<1>1. moveDisk[t] \in Things /\ moveTrash[t] \in Seq(Things)
  BY DEF ToTrash, MoveTypeOK
<1>2. /\ Append(moveTrash[t], moveDisk[t]) \in Seq(Things) /\ Append(moveTrash[t], moveDisk[t]) # <<>>
      /\ Len(Append(moveTrash[t], moveDisk[t])) = Len(moveTrash[t]) + 1
  BY <1>1, AppendProperties
<1>3. moveDisk[t] # "gone" /\ moveDisk' = [moveDisk EXCEPT ![t] = "gone"]
      /\ moveTrash' = [moveTrash EXCEPT ![t] = Append(moveTrash[t], moveDisk[t])]
  BY DEF ToTrash
<1>4. ASSUME moveTrash[t] = <<>> PROVE Len(moveTrash'[t]) <= 1
  <2> DEFINE taken == moveTrash'[t]
             n == Len(taken)
  <2>1. taken = Append(moveTrash[t], moveDisk[t])
    BY <1>3 DEF MoveTypeOK
  <2>2. n = 1
    BY <1>2, <1>4, <2>1, EmptySeq
  <2> HIDE DEF n
  <2>3. n <= 1
    BY <2>2
  <2> QED
    BY <2>3 DEF n
<1> QED
  BY <1>2, <1>3, <1>4 DEF MoveTypeOK

\* The mover at a target: nobody else works.
LEMMA MoverAlone ==
  ASSUME MoveInv, NEW c \in SubmitCalls, AtTarget(c), NEW t, t = moveAt[c].target
  PROVE  /\ t \in Targets /\ t \in Nat /\ moveRow.status = "committing"
         /\ \A d \in SubmitCalls : d # c => ~Working(d) /\ moveReport[d] = NoResults
         /\ \A u \in Targets : u \in Nat /\ (moveReport[c][u] = "none" <=> u >= t)
<1>1. MoveTypeOK /\ OneMover /\ ReportsFollow /\ c \in MoveCalls
  BY DEF MoveInv, MoveCalls
<1>2. t \in Targets /\ \A u \in Targets : u \in Nat
  BY <1>1, MoveConstants, LenProperties DEF MoveTypeOK, Targets
<1>3. Working(c) /\ moveRow.status = "committing"
      /\ \A d \in SubmitCalls : d # c => ~Working(d) /\ moveReport[d] = NoResults
  BY <1>1 DEF OneMover, MovedOnce, Working, AtTarget
<1> QED
  BY <1>1, <1>2, <1>3 DEF ReportsFollow

\* The mover reports a target: what the result says is so, unless the target was
\* disturbed.
LEMMA ReportKeeps ==
  ASSUME MoveInv, NEW c \in SubmitCalls, AtTarget(c), NEW t, t = moveAt[c].target,
         NEW result \in {"moved", "failed"}, Report(c, t, result),
         UNCHANGED <<moveRow, moveLate, moveDisturbed, moveTouches, moveFaults, moveCrashes>>,
         \/ /\ UNCHANGED <<moveDisk, moveTrash>>
            /\ t \notin moveDisturbed => (result = "moved" <=> moveTrash[t] # <<>>)
         \/ result = "moved" /\ moveAt[c].step = "try" /\ ToTrash(t)
  PROVE  MoveInv'
<1>1. /\ t \in Targets /\ t \in Nat /\ moveRow.status = "committing" /\ c \in MoveCalls /\ MoveTypeOK
      /\ \A d \in SubmitCalls : d # c => ~Working(d) /\ moveReport[d] = NoResults
      /\ \A u \in Targets : u \in Nat /\ (moveReport[c][u] = "none" <=> u >= t)
  BY MoverAlone DEF MoveInv, MoveCalls
<1>2. /\ moveReport' \in [SubmitCalls -> Results] /\ moveReport'[c][t] = result
      /\ \A u \in Targets : u # t => moveReport'[c][u] = moveReport[c][u]
      /\ \A d \in SubmitCalls : d # c => moveReport'[d] = moveReport[d]
      /\ moveAt' \in [MoveCalls -> MoveAts] /\ (\A d \in MoveCalls : d # c => moveAt'[d] = moveAt[d])
      /\ moveAt'[c].step \in {"inspect", "complete"}
      /\ moveAt'[c].step = "inspect" => moveAt'[c].target = t + 1
      /\ moveAt'[c].step = "complete" => t + 1 \notin Targets
      /\ moveReport'[c] # NoResults
      /\ UNCHANGED moveAnswer
  BY <1>1, Reported
<1>3. /\ moveDisk' \in [Targets -> Things \cup {"gone"}] /\ moveTrash' \in [Targets -> Seq(Things)]
      /\ \A u \in Targets : u # t => moveDisk'[u] = moveDisk[u] /\ moveTrash'[u] = moveTrash[u]
      /\ t \notin moveDisturbed => (result = "moved" <=> moveTrash'[t] # <<>>)
      /\ t \notin moveDisturbed => Len(moveTrash'[t]) <= 1
  <2>1. CASE UNCHANGED <<moveDisk, moveTrash>>
    <3>1. t \notin moveDisturbed => Len(moveTrash[t]) <= 1 /\ (result = "moved" <=> moveTrash[t] # <<>>)
      BY <1>1, <2>1, MoveParts, Trashed DEF TakenOnce
    <3> QED
      BY <1>1, <2>1, <3>1 DEF MoveTypeOK
  <2>2. CASE result = "moved" /\ moveAt[c].step = "try" /\ ToTrash(t)
    <3>1. t \notin moveDisturbed => moveTrash[t] = <<>>
      BY <2>2, MoveParts DEF PathFits, Undisturbed
    <3>2. t \notin moveDisturbed => Len(moveTrash'[t]) <= 1
      BY <1>1, <2>2, <3>1, Trashed
    <3> QED
      BY <1>1, <2>2, <3>2, Trashed
  <2> QED
    BY <2>1, <2>2
<1>4. MoveTypeOK'
  BY <1>1, <1>2, <1>3 DEF MoveTypeOK, MoveAts, MoveSteps
<1>5. \A d \in SubmitCalls : d \in MoveCalls /\ (d # c => ~Working(d)' /\ moveReport'[d] = NoResults)
  BY <1>1, <1>2 DEF Working, MoveCalls
<1>6. OneMover'
  BY <1>1, <1>5 DEF OneMover, MovedOnce
<1>7. \A d \in SubmitCalls : AtTarget(d)' => d = c /\ moveAt'[c].step = "inspect" /\ moveAt'[c].target = t + 1
  BY <1>2, <1>5 DEF AtTarget, Working
<1>8. ReportsFollow'
  <2>1. \A u \in Targets : moveReport'[c][u] = "none" <=> u >= t + 1
    BY <1>1, <1>2
  <2>2. ASSUME moveAt'[c].step = "complete", NEW u \in Targets PROVE moveReport'[c][u] # "none"
    <3>1. u <= t
      BY <1>1, <1>2, <2>2, MoveConstants, LenProperties DEF Targets
    <3> QED
      BY <1>1, <2>1, <3>1
  <2>3. \A d \in SubmitCalls : moveAt'[d].step = "complete" => d = c
    BY <1>5 DEF Working
  <2>4. \A d \in SubmitCalls : moveAt'[d].step \in {"idle", "mark"} => moveAt'[d] = moveAt[d]
    BY <1>2, <1>5
  <2>5. ASSUME NEW d \in SubmitCalls, NEW u \in Targets \ moveDisturbed
        PROVE  /\ moveReport'[d][u] = "moved" => moveTrash'[u] # <<>>
               /\ moveReport'[d][u] = "failed" => moveTrash'[u] = <<>>
    <3>1. CASE d # c
      BY <1>5, <3>1 DEF NoResults
    <3>2. CASE d = c /\ u = t
      BY <1>2, <1>3, <2>5, <3>2
    <3>3. CASE d = c /\ u # t
      BY <1>2, <1>3, <2>5, <3>3, MoveParts DEF ReportsFollow
    <3> QED
      BY <3>1, <3>2, <3>3
  <2> QED
    BY <1>7, <2>1, <2>2, <2>3, <2>4, <2>5, MoveParts DEF ReportsFollow
<1>9. NothingTaken'
  <2> SUFFICES ASSUME NEW u \in Targets \ moveDisturbed, u >= t + 1
               PROVE  moveTrash'[u] = <<>>
    BY <1>1, <1>7 DEF NothingTaken
  <2>1. u \in Nat /\ t \in Nat
    BY <1>1
  <2>2. u > t /\ u # t
    BY <2>1
  <2> QED
    BY <1>3, <2>2, MoveParts DEF NothingTaken
<1>10. PathFits'
  BY <1>2, <1>5 DEF PathFits, Working
<1>11. TakenOnce' /\ Untaken' /\ moveLate' \subseteq moveDisturbed'
  BY <1>1, <1>3, MoveParts DEF TakenOnce, Untaken
<1>12. AnswersFollow'
  BY <1>1, <1>2, MoveParts DEF AnswersFollow, Concluded
<1> QED
  BY <1>4, <1>6, <1>8, <1>9, <1>10, <1>11, <1>12 DEF MoveInv, TrashFits

\* The mover goes on with a target, which is as it was found, or in the trash, or
\* disturbed.
LEMMA WorkKeeps ==
  ASSUME MoveInv, NEW c \in SubmitCalls, AtTarget(c), NEW t, t = moveAt[c].target,
         moveAt' \in [MoveCalls -> MoveAts], \A d \in MoveCalls : d # c => moveAt'[d] = moveAt[d],
         moveAt'[c].step \in {"try", "look"}, moveAt'[c].target = t,
         UNCHANGED <<moveRow, moveReport, moveAnswer, moveTouches, moveCrashes>>,
         moveFaults' = moveFaults \/ MoveFault,
         \/ UNCHANGED <<moveLate, moveDisturbed>>
         \/ moveLate' = moveLate \cup {t} /\ moveDisturbed' = moveDisturbed \cup {t},
         UNCHANGED <<moveDisk, moveTrash>> \/ ToTrash(t),
         t \notin moveDisturbed' => Undisturbed(c, t)' /\ Len(moveTrash'[t]) <= 1
  PROVE  MoveInv'
<1>1. /\ t \in Targets /\ t \in Nat /\ moveRow.status = "committing" /\ c \in MoveCalls /\ MoveTypeOK
      /\ \A d \in SubmitCalls : d # c => ~Working(d) /\ moveReport[d] = NoResults
      /\ \A u \in Targets : u \in Nat /\ (moveReport[c][u] = "none" <=> u >= t)
  BY MoverAlone DEF MoveInv, MoveCalls
<1>2. /\ moveDisk' \in [Targets -> Things \cup {"gone"}] /\ moveTrash' \in [Targets -> Seq(Things)]
      /\ \A u \in Targets : u # t => moveDisk'[u] = moveDisk[u] /\ moveTrash'[u] = moveTrash[u]
  BY <1>1, Trashed DEF MoveTypeOK
<1>3. moveLate' \subseteq moveDisturbed' /\ moveDisturbed \subseteq moveDisturbed' /\ moveDisturbed' \subseteq Targets
  BY <1>1, MoveParts DEF MoveTypeOK
<1>4. MoveTypeOK'
  BY <1>1, <1>2, <1>3, FaultsFit DEF MoveTypeOK, MoveAts, MoveSteps
<1>5. \A d \in SubmitCalls : d \in MoveCalls /\ (d # c => ~Working(d)')
  BY <1>1 DEF Working, MoveCalls
<1>6. OneMover'
  BY <1>1, <1>5 DEF OneMover, MovedOnce
<1>7. \A d \in SubmitCalls : AtTarget(d)' => d = c
  BY <1>5 DEF AtTarget, Working
<1>8. ReportsFollow'
  <2>1. \A d \in SubmitCalls : moveAt'[d].step # "complete"
    BY <1>5 DEF Working
  <2>2. \A d \in SubmitCalls : moveAt'[d].step \in {"idle", "mark"} => moveAt'[d] = moveAt[d]
    BY <1>5
  <2>3. ASSUME NEW d \in SubmitCalls, NEW u \in Targets \ moveDisturbed'
        PROVE  /\ moveReport'[d][u] = "moved" => moveTrash'[u] # <<>>
               /\ moveReport'[d][u] = "failed" => moveTrash'[u] = <<>>
    <3>1. CASE u = t
      <4>1. moveReport[d][t] = "none"
        BY <1>1 DEF NoResults
      <4> QED
        BY <3>1, <4>1
    <3>2. CASE u # t
      BY <1>2, <1>3, <2>3, <3>2, MoveParts DEF ReportsFollow
    <3> QED
      BY <3>1, <3>2
  <2> QED
    BY <1>1, <1>7, <2>1, <2>2, <2>3, MoveParts DEF ReportsFollow
<1>9. NothingTaken'
  <2> SUFFICES ASSUME NEW u \in Targets \ moveDisturbed', u > t
               PROVE  moveTrash'[u] = <<>>
    BY <1>7 DEF NothingTaken
  <2>1. u \in Targets \ moveDisturbed /\ u # t
    BY <1>1, <1>3
  <2> QED
    BY <1>2, <2>1, MoveParts DEF NothingTaken
<1>10. PathFits'
  BY <1>5, <1>7 DEF PathFits, Working
<1>11. TakenOnce'
  BY <1>2, <1>3, MoveParts DEF TakenOnce
<1>12. Untaken' /\ AnswersFollow'
  <2>1. Untaken'
    BY <1>1 DEF Untaken
  <2> QED
    BY <1>1, <2>1, MoveParts DEF AnswersFollow
<1> QED
  BY <1>3, <1>4, <1>6, <1>8, <1>9, <1>10, <1>11, <1>12 DEF MoveInv, TrashFits

LEMMA InspectKeeps ==
  ASSUME MoveInv, NEW c \in SubmitCalls, Inspect(c)
  PROVE  MoveInv'
<1> DEFINE t == moveAt[c].target
<1>1. /\ MoveTypeOK /\ c \in MoveCalls /\ moveAt[c].step = "inspect" /\ AtTarget(c)
      /\ UNCHANGED <<moveRow, moveDisk, moveTrash, moveLate, moveDisturbed, moveTouches, moveFaults, moveCrashes>>
      /\ t \in Targets
  BY DEF MoveInv, MoveCalls, Inspect, moveFiles, moveBounds, MoveTypeOK, AtTarget
<1>2. t \notin moveDisturbed => moveTrash[t] = <<>>
  BY <1>1, MoveParts DEF NothingTaken
<1>3. CASE Report(c, t, "failed")
  BY <1>1, <1>2, <1>3, ReportKeeps
<1>4. CASE Movable(t) /\ MoveGo(c, "try") /\ UNCHANGED moveReport
  <2>1. /\ moveAt' \in [MoveCalls -> MoveAts] /\ moveAt'[c].step = "try" /\ moveAt'[c].target = t
        /\ (\A d \in MoveCalls : d # c => moveAt'[d] = moveAt[d]) /\ UNCHANGED moveAnswer
    BY <1>1, <1>4, MoveGoes DEF MoveSteps
  <2>2. t \notin moveDisturbed => Undisturbed(c, t)'
    BY <1>1, <1>2, <1>4, <2>1 DEF Undisturbed, Movable
  <2>3. t \notin moveDisturbed => Len(moveTrash'[t]) <= 1
    BY <1>1, MoveParts DEF TakenOnce
  <2> QED
    BY <1>1, <1>4, <2>1, <2>2, <2>3, WorkKeeps
<1> QED
  BY <1>3, <1>4 DEF Inspect

\* A command at work, or left alone.
LEMMA CommandKeeps ==
  ASSUME MoveInv, NEW c \in SubmitCalls, TrashCommand(c)
  PROVE  MoveInv'
<1> DEFINE t == moveAt[c].target
<1>1. /\ MoveTypeOK /\ c \in MoveCalls /\ moveAt[c].step = "try" /\ AtTarget(c) /\ t \in Targets
      /\ MoveGo(c, "look") /\ UNCHANGED <<moveRow, moveReport, moveTouches, moveCrashes>>
      /\ \/ ToTrash(t) /\ UNCHANGED <<moveLate, moveDisturbed, moveFaults>>
         \/ UNCHANGED <<moveDisk, moveTrash, moveLate, moveDisturbed, moveFaults>>
         \/ /\ MoveFault /\ UNCHANGED <<moveDisk, moveTrash>>
            /\ moveLate' = moveLate \cup {t} /\ moveDisturbed' = moveDisturbed \cup {t}
  BY DEF MoveInv, MoveCalls, TrashCommand, moveFiles, MoveTypeOK, AtTarget
<1>2. /\ moveAt' \in [MoveCalls -> MoveAts] /\ moveAt'[c].step = "look" /\ moveAt'[c].target = t
      /\ (\A d \in MoveCalls : d # c => moveAt'[d] = moveAt[d]) /\ UNCHANGED moveAnswer
  BY <1>1, MoveGoes DEF MoveSteps
<1>3. t \notin moveDisturbed => Undisturbed(c, t) /\ moveTrash[t] = <<>> /\ Len(moveTrash[t]) <= 1
  BY <1>1, MoveParts DEF PathFits, Undisturbed, TakenOnce
<1>4. t \notin moveDisturbed' => Undisturbed(c, t)' /\ Len(moveTrash'[t]) <= 1
  <2>1. CASE ToTrash(t) /\ UNCHANGED moveDisturbed
    <3>1. t \notin moveDisturbed => Len(moveTrash'[t]) <= 1
      BY <1>1, <1>3, <2>1, Trashed
    <3>2. moveDisk'[t] = "gone" /\ moveTrash'[t] # <<>>
      BY <1>1, <2>1, Trashed
    <3>3. t \notin moveDisturbed => Undisturbed(c, t)'
      BY <1>2, <3>2 DEF Undisturbed
    <3> QED
      BY <2>1, <3>1, <3>3
  <2>2. CASE UNCHANGED <<moveDisk, moveTrash, moveDisturbed>>
    BY <1>2, <1>3, <2>2 DEF Undisturbed
  <2>3. CASE moveDisturbed' = moveDisturbed \cup {t}
    BY <2>3
  <2> QED
    BY <1>1, <2>1, <2>2, <2>3
<1> QED
  BY <1>1, <1>2, <1>4, WorkKeeps

\* The look after a command: gone is moved.
LEMMA LookKeeps ==
  ASSUME MoveInv, NEW c \in SubmitCalls, Look(c)
  PROVE  MoveInv'
<1> DEFINE t == moveAt[c].target
<1>1. /\ MoveTypeOK /\ c \in MoveCalls /\ moveAt[c].step = "look" /\ AtTarget(c) /\ t \in Targets
      /\ UNCHANGED <<moveRow, moveDisk, moveTrash, moveLate, moveDisturbed, moveTouches, moveFaults, moveCrashes>>
  BY DEF MoveInv, MoveCalls, Look, moveFiles, moveBounds, MoveTypeOK, AtTarget
<1>2. t \notin moveDisturbed => Undisturbed(c, t)
  BY <1>1, MoveParts DEF PathFits
<1>3. CASE moveDisk[t] = "gone" /\ Report(c, t, "moved")
  BY <1>1, <1>2, <1>3, ReportKeeps DEF Undisturbed
<1>4. CASE moveDisk[t] # "gone" /\ Report(c, t, "failed")
  BY <1>1, <1>2, <1>4, ReportKeeps DEF Undisturbed
<1>5. CASE /\ moveDisk[t] # "gone" /\ moveAt[c].way + 1 \in TrashWays
           /\ moveAt' = [moveAt EXCEPT ![c].step = "try", ![c].way = moveAt[c].way + 1]
           /\ UNCHANGED <<moveReport, moveAnswer>>
  <2>1. /\ moveAt' \in [MoveCalls -> MoveAts] /\ moveAt'[c].step = "try" /\ moveAt'[c].target = t
        /\ (\A d \in MoveCalls : d # c => moveAt'[d] = moveAt[d])
    BY <1>1, <1>5 DEF MoveTypeOK, MoveAts, MoveSteps
  <2>2. t \notin moveDisturbed => Undisturbed(c, t)'
    BY <1>1, <1>2, <1>5, <2>1 DEF Undisturbed
  <2>3. t \notin moveDisturbed => Len(moveTrash'[t]) <= 1
    BY <1>1, MoveParts DEF TakenOnce
  <2> QED
    BY <1>1, <1>5, <2>1, <2>2, <2>3, WorkKeeps
<1> QED
  BY <1>3, <1>4, <1>5 DEF Look

LEMMA RenameKeeps ==
  ASSUME MoveInv, NEW c \in SubmitCalls, Rename(c)
  PROVE  MoveInv'
<1> DEFINE t == moveAt[c].target
<1>1. /\ MoveTypeOK /\ moveAt[c].step = "try" /\ AtTarget(c)
      /\ UNCHANGED <<moveRow, moveLate, moveDisturbed, moveTouches, moveFaults, moveCrashes>>
      /\ (ToTrash(t) /\ Report(c, t, "moved")) \/ (UNCHANGED <<moveDisk, moveTrash>> /\ Report(c, t, "failed"))
  BY DEF MoveInv, Rename, moveBounds, AtTarget
<1>2. t \notin moveDisturbed => moveTrash[t] = <<>>
  BY <1>1, MoveParts DEF PathFits, Undisturbed
<1> QED
  BY <1>1, <1>2, ReportKeeps

\* The row gets the report, or the request stays as it is.
LEMMA CompleteMoveKeeps ==
  ASSUME MoveInv, NEW c \in SubmitCalls, CompleteMove(c)
  PROVE  MoveInv'
<1>1. /\ MoveTypeOK /\ c \in MoveCalls
      /\ moveAt[c].step = "complete" /\ moveReport[c] \in Results /\ NoResults \in Results
      /\ UNCHANGED <<moveDisk, moveTrash, moveLate, moveDisturbed, moveReport, moveTouches, moveCrashes>>
  BY NoResultsFit DEF MoveInv, MoveCalls, CompleteMove, moveFiles, MoveTypeOK
<1>2. CASE MoveFault /\ MoveReply(c, "in_doubt", NoResults) /\ UNCHANGED moveRow
  <2>1. MovesAside(c)
    BY <1>1, <1>2, MoveReplies DEF MovesAside, moveFiles, MoveKindsOfAnswer
  <2> QED
    BY <1>1, <2>1, AsideKeeps
<1>3. CASE /\ moveRow' = [moveRow EXCEPT !.status = Verdict(moveReport[c]), !.result = moveReport[c]]
           /\ MoveReply(c, "result", moveReport[c]) /\ UNCHANGED moveFaults
  <2>1. /\ moveRow' \in [status : {"none", "prepared", "committing"} \cup Concluded, expired : BOOLEAN, result : Results]
        /\ moveRow'.status \in Concluded /\ moveRow'.result = moveReport[c]
    <3>1. Verdict(moveReport[c]) \in Concluded
      BY DEF Verdict, Concluded
    <3> QED
      BY <1>1, <1>3, <3>1 DEF MoveTypeOK
  <2>2. /\ moveAt' \in [MoveCalls -> MoveAts] /\ moveAt'[c].step = "done"
        /\ \A d \in MoveCalls : d # c => moveAt'[d] = moveAt[d]
        /\ moveAnswer' \in [MoveCalls -> MoveAnswers]
        /\ moveAnswer'[c].kind = "result" /\ moveAnswer'[c].result = moveReport[c]
        /\ \A d \in MoveCalls : d # c => moveAnswer'[d] = moveAnswer[d]
    BY <1>1, <1>3, MoveReplies DEF MoveKindsOfAnswer
  <2>3. MoveTypeOK'
    BY <1>1, <1>3, <2>1, <2>2 DEF MoveTypeOK, MoveAts, MoveSteps, MoveAnswers, MoveKindsOfAnswer
  <2>4. moveRow.status = "committing" /\ \A d \in SubmitCalls : d \in MoveCalls /\ ~Working(d)'
    BY <1>1, <2>2, MoveParts DEF OneMover, MovedOnce, Working, MoveCalls
  <2>5. OneMover'
    BY <1>1, <2>1, <2>4, MoveParts DEF OneMover, MovedOnce, Concluded
  <2>6. ReportsFollow'
    <3>1. \A d \in SubmitCalls : moveAt'[d].step \in {"idle", "mark"} => moveAt'[d] = moveAt[d]
      BY <2>2, <2>4
    <3> QED
      BY <1>1, <2>4, <3>1, MoveParts DEF ReportsFollow, AtTarget, Working
  <2>7. AnswersFollow'
    <3>1. \A u \in Targets : moveRow'.result[u] # "none"
      BY <1>1, <2>1, MoveParts DEF ReportsFollow
    <3> QED
      BY <1>1, <2>1, <2>2, <2>4, <3>1, MoveParts DEF AnswersFollow, Concluded
  <2>8. TrashFits'
    BY <1>1, <2>1, <2>4, MoveParts DEF TrashFits, TakenOnce, NothingTaken, PathFits, Untaken, AtTarget, Working, Concluded
  <2> QED
    BY <2>3, <2>5, <2>6, <2>7, <2>8 DEF MoveInv
<1> QED
  BY <1>2, <1>3 DEF CompleteMove

\* Somebody else changes a target: one that is being moved is disturbed from then on.
LEMMA TouchKeeps ==
  ASSUME MoveInv, NEW t \in Targets, NEW thing \in Things \cup {"gone"}, Touch(t, thing)
  PROVE  MoveInv'
<1>1. /\ UNCHANGED <<moveRow, moveTrash, moveLate, moveAt, moveReport, moveAnswer, moveFaults, moveCrashes>>
      /\ moveDisk' = [moveDisk EXCEPT ![t] = thing]
      /\ moveDisturbed' = IF BeingMoved(t) THEN moveDisturbed \cup {t} ELSE moveDisturbed
      /\ moveTouches < MaxTouches /\ moveTouches' = moveTouches + 1 /\ MaxTouches \in Nat /\ moveTouches \in 0..MaxTouches
  BY MoveConstants, MoveParts DEF Touch, MoveTypeOK
<1>2. /\ moveDisk' \in [Targets -> Things \cup {"gone"}]
      /\ \A u \in Targets : u # t => moveDisk'[u] = moveDisk[u]
  BY <1>1, MoveParts DEF MoveTypeOK
<1>3. moveDisturbed' \subseteq Targets /\ moveDisturbed \subseteq moveDisturbed'
  BY <1>1, MoveParts DEF MoveTypeOK
<1>4. MoveTypeOK'
  BY <1>1, <1>2, <1>3, MoveParts DEF MoveTypeOK
<1>5. OneMover' /\ ReportsFollow' /\ AnswersFollow'
  BY <1>1, <1>3, MoveParts DEF OneMover, MovedOnce, Working, ReportsFollow, AtTarget, AnswersFollow
<1>6. TakenOnce' /\ NothingTaken' /\ Untaken' /\ moveLate' \subseteq moveDisturbed'
  BY <1>1, <1>3, MoveParts DEF TakenOnce, NothingTaken, AtTarget, Untaken
<1>7. PathFits'
  <2> SUFFICES ASSUME NEW c \in SubmitCalls, moveAt[c].step \in {"try", "look"}, moveAt[c].target \notin moveDisturbed'
               PROVE  Undisturbed(c, moveAt[c].target)'
    BY <1>1 DEF PathFits
  <2>1. moveAt[c].target # t
    BY <1>1 DEF BeingMoved
  <2>2. moveAt[c].target \in Targets /\ Undisturbed(c, moveAt[c].target)
    BY <1>3, MoveParts DEF PathFits, MoveTypeOK, MoveCalls
  <2> QED
    BY <1>1, <1>2, <2>1, <2>2 DEF Undisturbed
<1> QED
  BY <1>4, <1>5, <1>6, <1>7 DEF MoveInv, TrashFits

\* A command that was left alone takes the target, which counts as disturbed.
LEMMA LateTrashKeeps ==
  ASSUME MoveInv, NEW t \in Targets, LateTrash(t)
  PROVE  MoveInv'
<1>1. /\ t \in moveDisturbed /\ moveLate' \subseteq moveLate /\ moveRow.status \notin {"none", "prepared"}
      /\ UNCHANGED <<moveRow, moveDisturbed, moveAt, moveReport, moveAnswer, moveTouches, moveFaults, moveCrashes>>
      /\ ToTrash(t) \/ UNCHANGED <<moveDisk, moveTrash>>
  BY MoveParts DEF LateTrash, moveBounds, Untaken
<1>2. /\ moveDisk' \in [Targets -> Things \cup {"gone"}] /\ moveTrash' \in [Targets -> Seq(Things)]
      /\ \A u \in Targets : u # t => moveDisk'[u] = moveDisk[u] /\ moveTrash'[u] = moveTrash[u]
  BY <1>1, MoveParts, Trashed DEF MoveTypeOK
<1>3. MoveTypeOK'
  BY <1>1, <1>2, MoveParts DEF MoveTypeOK
<1>4. OneMover' /\ ReportsFollow' /\ AnswersFollow'
  BY <1>1, <1>2, MoveParts DEF OneMover, MovedOnce, Working, ReportsFollow, AtTarget, AnswersFollow
<1>5. TakenOnce' /\ NothingTaken' /\ Untaken' /\ moveLate' \subseteq moveDisturbed'
  BY <1>1, <1>2, MoveParts DEF TakenOnce, NothingTaken, AtTarget, Untaken
<1>6. PathFits'
  <2> SUFFICES ASSUME NEW c \in SubmitCalls, moveAt[c].step \in {"try", "look"}, moveAt[c].target \notin moveDisturbed
               PROVE  Undisturbed(c, moveAt[c].target)'
    BY <1>1 DEF PathFits
  <2>1. moveAt[c].target # t /\ moveAt[c].target \in Targets /\ Undisturbed(c, moveAt[c].target)
    BY <1>1, MoveParts DEF PathFits, MoveTypeOK, MoveCalls
  <2> QED
    BY <1>1, <1>2, <2>1 DEF Undisturbed
<1> QED
  BY <1>3, <1>4, <1>5, <1>6 DEF MoveInv, TrashFits

LEMMA MoveExpiresKeeps ==
  ASSUME MoveInv, MoveExpires
  PROVE  MoveInv'
<1>1. /\ UNCHANGED <<moveDisk, moveTrash, moveLate, moveDisturbed, moveAt, moveReport, moveAnswer, moveTouches,
                     moveFaults, moveCrashes>>
      /\ moveRow' = [moveRow EXCEPT !.expired = TRUE]
  BY DEF MoveExpires, moveFiles, moveBounds
<1>2. /\ moveRow' \in [status : {"none", "prepared", "committing"} \cup Concluded, expired : BOOLEAN, result : Results]
      /\ moveRow'.status = moveRow.status /\ moveRow'.result = moveRow.result
  BY <1>1, MoveParts DEF MoveTypeOK
<1>3. MoveTypeOK'
  BY <1>1, <1>2, MoveParts DEF MoveTypeOK
<1>4. OneMover' /\ ReportsFollow' /\ AnswersFollow'
  BY <1>1, <1>2, MoveParts DEF OneMover, MovedOnce, Working, ReportsFollow, AtTarget, AnswersFollow
<1>5. TrashFits'
  BY <1>1, <1>2, MoveParts DEF TrashFits, TakenOnce, NothingTaken, PathFits, Undisturbed, Untaken, AtTarget
<1> QED
  BY <1>3, <1>4, <1>5 DEF MoveInv

\* A crash ends every call; what has been reported stays reported, and the target
\* of a command that goes on counts as disturbed.
LEMMA MoveCrashKeeps ==
  ASSUME MoveInv, MoveCrash
  PROVE  MoveInv'
<1>1. /\ UNCHANGED <<moveRow, moveDisk, moveTrash, moveReport, moveTouches, moveFaults>>
      /\ moveCrashes < MaxMoveCrashes /\ moveCrashes' = moveCrashes + 1
      /\ MaxMoveCrashes \in Nat /\ moveCrashes \in 0..MaxMoveCrashes
  BY MoveConstants, MoveParts DEF MoveCrash, MoveTypeOK
<1>2. moveCrashes' \in 0..MaxMoveCrashes
  BY <1>1
<1>3. PICK left \in SUBSET Targets :
        /\ moveLate' = moveLate \cup left /\ moveDisturbed' = moveDisturbed \cup left
        /\ left # {} => \E c \in SubmitCalls : Working(c)
  <2> DEFINE left == {t \in Targets : \E c \in SubmitCalls \cap {d \in MoveCalls : moveAt[d].step \notin {"idle", "done"}} :
                        moveAt[c].step = "try" /\ MoveWays[moveAt[c].way] = "command" /\ moveAt[c].target = t}
  <2>1. moveLate' = moveLate \cup left /\ moveDisturbed' = moveDisturbed \cup left
    BY DEF MoveCrash
  <2>2. ASSUME left # {} PROVE \E c \in SubmitCalls : Working(c)
    BY <2>2 DEF Working
  <2> QED
    BY <2>1, <2>2
<1>4. /\ moveAt' \in [MoveCalls -> MoveAts]
      /\ \A c \in MoveCalls : moveAt'[c] = moveAt[c] \/ moveAt'[c].step = "done"
      /\ \A c \in MoveCalls : moveAt'[c].step \in {"idle", "done"}
  <2>1. moveAt \in [MoveCalls -> MoveAts]
    BY MoveParts DEF MoveTypeOK, MoveAts, MoveSteps
  <2>2. ASSUME NEW c \in MoveCalls
        PROVE  \/ moveAt'[c] = moveAt[c] /\ moveAt[c].step \in {"idle", "done"}
               \/ moveAt'[c] = [moveAt[c] EXCEPT !.step = "done"]
    BY DEF MoveCrash
  <2>3. ASSUME NEW c \in MoveCalls
        PROVE  /\ [moveAt[c] EXCEPT !.step = "done"] \in MoveAts
               /\ [moveAt[c] EXCEPT !.step = "done"].step = "done"
    BY <2>1 DEF MoveAts, MoveSteps
  <2>4. moveAt' = [c \in MoveCalls |-> moveAt'[c]]
    BY DEF MoveCrash
  <2> QED
    BY <2>1, <2>2, <2>3, <2>4
<1>5. /\ moveAnswer' \in [MoveCalls -> MoveAnswers]
      /\ \A c \in MoveCalls : moveAnswer'[c] = moveAnswer[c] \/ moveAnswer'[c].kind # "result"
  BY MoveParts DEF MoveCrash, MoveTypeOK, MoveAnswers, MoveKindsOfAnswer
<1>6. MoveTypeOK'
  BY <1>1, <1>2, <1>3, <1>4, <1>5, MoveParts DEF MoveTypeOK, MoveAts, MoveSteps, MoveAnswers, MoveKindsOfAnswer
<1>7. \A c \in SubmitCalls : c \in MoveCalls /\ ~Working(c)' /\ ~AtTarget(c)' /\ moveAt'[c].step \in {"idle", "done"}
  BY <1>4 DEF Working, AtTarget, MoveCalls
<1>8. OneMover'
  BY <1>1, <1>7, MoveParts DEF OneMover, MovedOnce
<1>9. ReportsFollow'
  <2>1. \A c \in SubmitCalls : moveAt'[c].step = "idle" => moveAt'[c] = moveAt[c]
    BY <1>4, <1>7
  <2> QED
    BY <1>1, <1>3, <1>7, <2>1, MoveParts DEF ReportsFollow
<1>10. AnswersFollow'
  BY <1>1, <1>5, MoveParts DEF AnswersFollow
<1>11. TakenOnce' /\ NothingTaken' /\ PathFits' /\ moveLate' \subseteq moveDisturbed'
  BY <1>1, <1>3, <1>7, MoveParts DEF TakenOnce, NothingTaken, PathFits
<1>12. Untaken'
  BY <1>1, <1>3, MoveParts DEF Untaken, OneMover
<1> QED
  BY <1>6, <1>8, <1>9, <1>10, <1>11, <1>12 DEF MoveInv, TrashFits

LEMMA MoveStarts ==
  ASSUME MoveInit
  PROVE  MoveInv
<1>1. 1 \in Targets /\ 1 \in TrashWays /\ \A t \in Targets : t \in Nat
  <2>1. /\ MoveKinds \in Seq({"file", "directory", "symlink"}) /\ MoveKinds # <<>>
        /\ MoveWays \in Seq({"command", "rename"}) /\ MoveWays # <<>>
    BY MoveConstants
  <2> QED
    BY <2>1, EmptySeq, LenProperties DEF Targets, TrashWays
<1>2. {MaxTouches, MaxMoveFaults, MaxMoveCrashes} \subseteq Nat
  BY MoveConstants
<1>3. 0 \in 0..MaxTouches /\ 0 \in 0..MaxMoveFaults /\ 0 \in 0..MaxMoveCrashes
  BY <1>2
<1>4. \A c \in SubmitCalls : c \in MoveCalls
  BY DEF MoveCalls
<1>5. <<>> \in Seq(Things) /\ Len(<<>>) <= 1
  <2>1. <<>> \in Seq(Things) /\ Len(<<>>) = 0
    BY EmptySeq
  <2> QED
    BY <2>1
<1>6. MoveTypeOK
  BY <1>1, <1>3, <1>5, NoResultsFit DEF MoveInit, MoveTypeOK, Things
<1>7. OneMover
  BY <1>4 DEF MoveInit, OneMover, MovedOnce, Working
<1>8. ReportsFollow
  BY <1>4 DEF MoveInit, ReportsFollow, AtTarget, NoResults
<1>9. AnswersFollow
  BY DEF MoveInit, AnswersFollow, Concluded
<1>10. TrashFits
  BY <1>4, <1>5 DEF MoveInit, TrashFits, TakenOnce, NothingTaken, PathFits, Untaken, AtTarget
<1> QED
  BY <1>6, <1>7, <1>8, <1>9, <1>10 DEF MoveInv

LEMMA MoveStays ==
  ASSUME MoveInv, UNCHANGED moveVars
  PROVE  MoveInv'
<1>1. UNCHANGED <<moveRow, moveDisk, moveTrash, moveLate, moveDisturbed, moveAt, moveReport, moveAnswer,
                  moveTouches, moveFaults, moveCrashes>>
  BY DEF moveVars, moveFiles, moveBounds
<1>2. MoveTypeOK' /\ OneMover' /\ ReportsFollow'
  BY <1>1 DEF MoveInv, MoveTypeOK, OneMover, MovedOnce, ReportsFollow, Working, AtTarget
<1>3. AnswersFollow' /\ TrashFits'
  BY <1>1, MoveParts DEF AnswersFollow, TrashFits, TakenOnce, NothingTaken, PathFits, Undisturbed, Untaken, AtTarget
<1> QED
  BY <1>2, <1>3 DEF MoveInv

LEMMA MoveStepsKeep ==
  ASSUME MoveInv, [MoveNext]_moveVars
  PROVE  MoveInv'
<1>1. CASE \E c \in PrepareCalls : PrepareStep(c)
  <2>1. \A c \in PrepareCalls : c \in MoveCalls
    BY DEF MoveCalls
  <2> QED
    BY <1>1, <2>1, PrepareAside, AsideKeeps
<1>2. CASE \E c \in SubmitCalls : SubmitStep(c)
  <2>1. PICK c \in SubmitCalls : SubmitStep(c)
    BY <1>2
  <2>2. c \in MoveCalls
    BY DEF MoveCalls
  <2>3. CASE Submit(c) \/ MarkCommitting(c)
    BY <2>2, <2>3, SubmitAside, AsideKeeps, WinnerKeeps
  <2>4. CASE MoveOne(c) \/ CompleteMove(c)
    BY <2>4, InspectKeeps, CommandKeeps, LookKeeps, RenameKeeps, CompleteMoveKeeps DEF MoveOne
  <2> QED
    BY <2>1, <2>3, <2>4 DEF SubmitStep
<1>3. CASE \E t \in Targets, thing \in Things \cup {"gone"} : Touch(t, thing)
  BY <1>3, TouchKeeps
<1>4. CASE \E t \in Targets : LateTrash(t)
  BY <1>4, LateTrashKeeps
<1>5. CASE MoveExpires \/ MoveCrash
  BY <1>5, MoveExpiresKeeps, MoveCrashKeeps
<1> QED
  BY <1>1, <1>2, <1>3, <1>4, <1>5, MoveStays DEF MoveNext

\* What the mover has reported is what the row and the answers have.
LEMMA MoveOutcomesFollow ==
  ASSUME MoveInv
  PROVE  MoveOutcomes
<1>1. MovedOnce /\ TakenOnce
  BY MoveParts DEF OneMover
<1>2. ReportIsTrue
  <2> SUFFICES ASSUME NEW c \in SubmitCalls, moveAnswer[c].kind = "result", NEW t \in Targets \ moveDisturbed
               PROVE  moveAnswer[c].result[t] = (IF moveTrash[t] = <<>> THEN "failed" ELSE "moved")
    BY DEF ReportIsTrue
  <2>1. moveRow.status \in Concluded /\ moveAnswer[c].result = moveRow.result
    BY MoveParts DEF AnswersFollow, MoveCalls
  <2>2. PICK d \in SubmitCalls : moveReport[d] = moveRow.result
    BY <2>1, MoveParts DEF AnswersFollow
  <2>3. moveReport[d][t] \in {"moved", "failed"}
    BY <2>1, <2>2, MoveParts DEF AnswersFollow, MoveTypeOK, Results
  <2> QED
    BY <2>1, <2>2, <2>3, MoveParts DEF ReportsFollow
<1> QED
  BY <1>1, <1>2 DEF MoveOutcomes

LEMMA MoveIsOfWhatWasShown ==
  ASSUME MoveInv, [MoveNext]_moveVars
  PROVE  MovesWhatWasShown
<1> SUFFICES ASSUME NEW t \in Targets, moveTrash'[t] # moveTrash[t]
             PROVE  moveDisk[t] \in {"frozen", "link"} \/ MoveKinds[t] # "file" \/ t \in moveDisturbed
  BY DEF MovesWhatWasShown
<1>1. \/ \E c \in SubmitCalls : moveAt[c].step = "try" /\ ToTrash(moveAt[c].target)
      \/ \E u \in moveLate : ToTrash(u)
  BY DEF MoveNext, moveVars, moveFiles, PrepareStep, FindRequest, Freeze, CreateRequest, SubmitStep, Submit,
         MarkCommitting, MoveOne, Inspect, TrashCommand, Look, Rename, CompleteMove, Touch, LateTrash, MoveExpires, MoveCrash
<1>2. CASE \E u \in moveLate : ToTrash(u)
  BY <1>2, MoveParts, Trashed DEF MoveTypeOK
<1>3. ASSUME NEW c \in SubmitCalls, moveAt[c].step = "try", ToTrash(moveAt[c].target)
      PROVE  moveDisk[t] \in {"frozen", "link"} \/ MoveKinds[t] # "file" \/ t \in moveDisturbed
  <2>1. moveAt[c].target \in Targets /\ MoveTypeOK
    BY MoveParts DEF MoveTypeOK, MoveCalls
  <2>2. moveAt[c].target = t /\ moveDisk[t] # "gone"
    BY <1>3, <2>1, Trashed
  <2> QED
    BY <1>3, <2>2, MoveParts DEF PathFits, Undisturbed
<1> QED
  BY <1>1, <1>2, <1>3

LEMMA MoveInductive == MoveSpec => []MoveInv
BY MoveStarts, MoveStepsKeep, PTL DEF MoveSpec

(* MovesHold: of all submits of one confirmation, crashes and failing          *)
(* statements included, one at most works on the targets; a target goes to the *)
(* trash once, and every answer that carries results, replays included, is     *)
(* what has happened to it; and what moves is a link or of the bytes shown.    *)
(* All but the first only for targets that nobody else changes, and no command *)
(* is cut off at, between the look of the submit and its report: the attempts  *)
(* of commitMoveOutManifest take what is there when their turn comes.          *)
(* toolWorkspaceMoveOutCommit and the requests of internal/deletion.           *)
THEOREM ConfirmedMovesHold == MoveSpec => MovesHold
<1>1. MoveInv => MoveOutcomes
  BY MoveOutcomesFollow
<1>2. MoveInv /\ [MoveNext]_moveVars => MovesWhatWasShown
  BY MoveIsOfWhatWasShown
<1> QED
  BY <1>1, <1>2, MoveInductive, PTL DEF MoveSpec, MovesHold

-----------------------------------------------------------------------------
(* The configuration file: ConfigurationInv is inductive. *)

\* What is left of the steps of a job, named by the initials of the steps.
W == <<"write">>
TW == <<"truncate", "write">>
LTW == <<"load", "truncate", "write">>
WLTW == <<"write", "load", "truncate", "write">>
TWLTW == <<"truncate", "write", "load", "truncate", "write">>
LTWLTW == <<"load", "truncate", "write", "load", "truncate", "write">>
BLTWLTW == <<"backup", "load", "truncate", "write", "load", "truncate", "write">>
BLTW == <<"backup", "load", "truncate", "write">>
BTW == <<"backup", "truncate", "write">>
LBTW == <<"load", "backup", "truncate", "write">>
ELP == <<"ensure", "load", "prune">>
LP == <<"load", "prune">>
P == <<"prune">>
WLP == <<"write", "load", "prune">>
TWLP == <<"truncate", "write", "load", "prune">>
S == <<"settle">>
WS == <<"write", "settle">>
TWS == <<"truncate", "write", "settle">>

OfRegister == {LTW, TW, W}
OfAdd == {BLTWLTW, LTWLTW, TWLTW, WLTW, LTW, TW, W}
OfDescribe == {BLTW, LTW, TW, W}
OfChange == {LBTW, BTW, TW, W}
OfStart == {ELP, TWLP, WLP, LP, P, TWS, WS, S}
StepLists == OfRegister \cup OfAdd \cup OfDescribe \cup OfChange \cup OfStart

EditorRecords ==
  [job : Jobs \cup {NoJob, Done}, steps : StepLists \cup {<<>>}, conf : Configs,
   holds : BOOLEAN, gone : SUBSET Workspaces, pending : BOOLEAN]
EditorTypes == editor \in [Editors -> EditorRecords]

\* Who is about to write holds the file since it has read it: only the first step of
\* a job, and the load of a server that found the file, read it anew.
OrderOf(e) ==
  LET kind == editor[e].job.kind
      left == editor[e].steps IN
  /\ kind \in {"none", "done"} => left = <<>> /\ ~editor[e].holds
  /\ kind = "register" => left = LTW \/ (left \in OfRegister /\ editor[e].holds)
  /\ kind = "add" => left = BLTWLTW \/ (left \in OfAdd /\ editor[e].holds)
  /\ kind = "describe" => left = BLTW \/ (left \in OfDescribe /\ editor[e].holds)
  /\ kind \in {"delete", "token"} => left = LBTW \/ (left \in OfChange /\ editor[e].holds)
  /\ kind = "start" => left \in {ELP, LP} \/ (left \in OfStart /\ editor[e].holds)
StepsInOrder == \A e \in Editors : OrderOf(e)

OneHolds == \A e, o \in Editors : editor[e].holds /\ editor[o].holds => e = o

\* A configuration has what was promised.
Keeps(conf, kept) == kept \subseteq conf.workspaces /\ (guarded => conf.token)
BackedUp == confBackup.state = "absent" \/ Keeps(confBackup.conf, promised)

\* What one who has loaded the file is about to write: all that was promised, but
\* what the job removes, and what the job is for.
ToBeRemoved(e) == IF editor[e].job.kind = "delete" THEN {editor[e].job.workspace} ELSE editor[e].gone
Writers == {W, TW, WLTW, TWLTW, BTW, WLP, TWLP, WS, TWS}
KnowsOf(e) ==
  editor[e].holds =>
    LET job == editor[e].job
        left == editor[e].steps IN
    /\ left \in Writers =>
         /\ Keeps(editor[e].conf, promised \ ToBeRemoved(e))
         /\ job.kind \in {"register", "add"} => job.workspace \in editor[e].conf.workspaces
         /\ job.kind = "token" => editor[e].conf.token
    /\ left \in {P, S} => Keeps(editor[e].conf, promised)
    /\ left \in {W, WLTW, WLP, WS} => Torn
    /\ job.kind \in {"add", "describe"} \/ (job.kind \in {"delete", "token"} /\ left \in {TW, W}) => BackedUp
HoldersKnow == \A e \in Editors : KnowsOf(e)

\* What the file and its backup have.
FilesKeep ==
  /\ confFile.state = "absent" => promised = {} /\ ~guarded
  /\ ~Torn => Keeps(Loaded, promised)
  /\ tornBy # "nobody" => Torn /\ \A e \in Editors : ~editor[e].holds
  /\ tornBy = "desktop" => BackedUp

ConfigurationInv ==
  /\ HomeTypeOK /\ EditorTypes /\ StepsInOrder
  /\ ~disturbed => OneHolds /\ HoldersKnow /\ FilesKeep

\* The first step of each list and what follows it.
LEMMA Lists ==
  /\ W # <<>> /\ Head(W) = "write" /\ Tail(W) = <<>>
  /\ TW # <<>> /\ Head(TW) = "truncate" /\ Tail(TW) = W
  /\ LTW # <<>> /\ Head(LTW) = "load" /\ Tail(LTW) = TW
  /\ WLTW # <<>> /\ Head(WLTW) = "write" /\ Tail(WLTW) = LTW
  /\ TWLTW # <<>> /\ Head(TWLTW) = "truncate" /\ Tail(TWLTW) = WLTW
  /\ LTWLTW # <<>> /\ Head(LTWLTW) = "load" /\ Tail(LTWLTW) = TWLTW
  /\ BLTWLTW # <<>> /\ Head(BLTWLTW) = "backup" /\ Tail(BLTWLTW) = LTWLTW
  /\ BLTW # <<>> /\ Head(BLTW) = "backup" /\ Tail(BLTW) = LTW
  /\ BTW # <<>> /\ Head(BTW) = "backup" /\ Tail(BTW) = TW
  /\ LBTW # <<>> /\ Head(LBTW) = "load" /\ Tail(LBTW) = BTW
  /\ ELP # <<>> /\ Head(ELP) = "ensure" /\ Tail(ELP) = LP
  /\ LP # <<>> /\ Head(LP) = "load" /\ Tail(LP) = P
  /\ P # <<>> /\ Head(P) = "prune"
  /\ WLP # <<>> /\ Head(WLP) = "write" /\ Tail(WLP) = LP
  /\ TWLP # <<>> /\ Head(TWLP) = "truncate" /\ Tail(TWLP) = WLP
  /\ S # <<>> /\ Head(S) = "settle"
  /\ WS # <<>> /\ Head(WS) = "write" /\ Tail(WS) = S
  /\ TWS # <<>> /\ Head(TWS) = "truncate" /\ Tail(TWS) = WS
  /\ <<"truncate", "write">> \o LP = TWLP
<1>1. W # <<>> /\ Head(W) = "write" /\ Tail(W) = <<>>
  BY DEF W
<1>2. TW # <<>> /\ Head(TW) = "truncate" /\ Tail(TW) = W
  BY DEF W, TW
<1>3. LTW # <<>> /\ Head(LTW) = "load" /\ Tail(LTW) = TW
  BY DEF TW, LTW
<1>4. WLTW # <<>> /\ Head(WLTW) = "write" /\ Tail(WLTW) = LTW
  BY DEF LTW, WLTW
<1>5. TWLTW # <<>> /\ Head(TWLTW) = "truncate" /\ Tail(TWLTW) = WLTW
  BY DEF WLTW, TWLTW
<1>6. LTWLTW # <<>> /\ Head(LTWLTW) = "load" /\ Tail(LTWLTW) = TWLTW
  BY DEF TWLTW, LTWLTW
<1>7. BLTWLTW # <<>> /\ Head(BLTWLTW) = "backup" /\ Tail(BLTWLTW) = LTWLTW
  BY DEF LTWLTW, BLTWLTW
<1>8. BLTW # <<>> /\ Head(BLTW) = "backup" /\ Tail(BLTW) = LTW
  BY DEF LTW, BLTW
<1>9. BTW # <<>> /\ Head(BTW) = "backup" /\ Tail(BTW) = TW
  BY DEF TW, BTW
<1>10. LBTW # <<>> /\ Head(LBTW) = "load" /\ Tail(LBTW) = BTW
  BY DEF BTW, LBTW
<1>11. ELP # <<>> /\ Head(ELP) = "ensure" /\ Tail(ELP) = LP
  BY DEF ELP, LP
<1>12. LP # <<>> /\ Head(LP) = "load" /\ Tail(LP) = P
  BY DEF LP, P
<1>13. P # <<>> /\ Head(P) = "prune"
  BY DEF P
<1>14. WLP # <<>> /\ Head(WLP) = "write" /\ Tail(WLP) = LP
  BY DEF LP, WLP
<1>15. TWLP # <<>> /\ Head(TWLP) = "truncate" /\ Tail(TWLP) = WLP
  BY DEF WLP, TWLP
<1>16. S # <<>> /\ Head(S) = "settle"
  BY DEF S
<1>17. WS # <<>> /\ Head(WS) = "write" /\ Tail(WS) = S
  BY DEF S, WS
<1>18. TWS # <<>> /\ Head(TWS) = "truncate" /\ Tail(TWS) = WS
  BY DEF WS, TWS
<1>19. <<"truncate", "write">> \o LP = TWLP
  <2> DEFINE T == {"truncate", "write", "load", "prune"}
  <2>1. TW \in Seq(T) /\ LP \in Seq(T) /\ TWLP \in Seq(T) /\ Len(TW) = 2 /\ Len(LP) = 2 /\ Len(TWLP) = 4
    <3>1. TW \in Seq(T) /\ Len(TW) = 2
      BY DEF TW
    <3>2. LP \in Seq(T) /\ Len(LP) = 2
      BY DEF LP
    <3>3. TWLP \in Seq(T) /\ Len(TWLP) = 4
      BY DEF TWLP
    <3> QED
      BY <3>1, <3>2, <3>3
  <2>2. /\ TW \o LP \in Seq(T) /\ Len(TW \o LP) = 4
        /\ \A i \in 1..4 : (TW \o LP)[i] = IF i <= 2 THEN TW[i] ELSE LP[i - 2]
    <3>1. /\ TW \o LP \in Seq(T) /\ Len(TW \o LP) = Len(TW) + Len(LP)
          /\ \A i \in 1..Len(TW) + Len(LP) : (TW \o LP)[i] = IF i <= Len(TW) THEN TW[i] ELSE LP[i - Len(TW)]
      BY <2>1, ConcatProperties, Zenon
    <3> QED
      BY <2>1, <3>1
  <2>3. \A i \in 1..4 : (TW \o LP)[i] = TWLP[i]
    BY <2>2 DEF TW, LP, TWLP
  <2> QED
    BY <2>1, <2>2, <2>3, SeqEqual DEF TW
<1> QED
  BY <1>1, <1>2, <1>3, <1>4, <1>5, <1>6, <1>7, <1>8, <1>9, <1>10, <1>11, <1>12, <1>13, <1>14, <1>15, <1>16, <1>17, <1>18, <1>19

\* Lists that begin differently are different.
LEMMA Apart ==
  /\ {TW, TWLTW, TWLP, TWS} \cap {W, WLTW, WLP, WS} = {}
  /\ {TW, TWLTW, TWLP, TWS} \cap {P, S} = {}
  /\ {BTW} \cap {W, WLTW, WLP, WS, TW, P, S} = {}
  /\ {LTW, LBTW, LTWLTW, LP} \cap Writers = {}
  /\ {LTW, LBTW, LTWLTW, LP} \cap {P, S} = {}
  /\ {P, S} \cap Writers = {}
<1>1. /\ Head(W) = "write" /\ Head(WLTW) = "write" /\ Head(WLP) = "write" /\ Head(WS) = "write"
      /\ Head(TW) = "truncate" /\ Head(TWLTW) = "truncate" /\ Head(TWLP) = "truncate" /\ Head(TWS) = "truncate"
      /\ Head(LTW) = "load" /\ Head(LBTW) = "load" /\ Head(LTWLTW) = "load" /\ Head(LP) = "load"
      /\ Head(BTW) = "backup" /\ Head(P) = "prune" /\ Head(S) = "settle"
  BY Lists
<1>2. {TW, TWLTW, TWLP, TWS} \cap {W, WLTW, WLP, WS} = {}
  BY <1>1
<1>3. {TW, TWLTW, TWLP, TWS} \cap {P, S} = {}
  BY <1>1
<1>4. {BTW} \cap {W, WLTW, WLP, WS, TW, P, S} = {}
  BY <1>1
<1>5. {LTW, LBTW, LTWLTW, LP} \cap Writers = {}
  BY <1>1 DEF Writers
<1>6. {LTW, LBTW, LTWLTW, LP} \cap {P, S} = {}
  BY <1>1
<1>7. {P, S} \cap Writers = {}
  BY <1>1 DEF Writers
<1> QED
  BY <1>2, <1>3, <1>4, <1>5, <1>6, <1>7

\* Only the editor at work moves.
LEMMA OthersStay ==
  ASSUME EditorTypes, NEW e \in Editors, NEW next, Becomes(e, next)
  PROVE  editor'[e] = next /\ \A o \in Editors : o # e => editor'[o] = editor[o]
BY DEF EditorTypes, Becomes

\* Who reads the file undisturbed finds it whole or absent and nobody at work, ...
LEMMA ReadsAlone ==
  ASSUME ConfigurationInv, NEW e \in Editors, Reads(e), ~disturbed'
  PROVE  ~disturbed /\ ~Torn /\ \A o \in Editors : o # e => ~editor[o].holds
BY DEF ConfigurationInv, HomeTypeOK, Reads

\* ... and who holds it is alone.
LEMMA HoldsAlone ==
  ASSUME ConfigurationInv, NEW e \in Editors, editor[e].holds, ~disturbed
  PROVE  \A o \in Editors : o # e => ~editor[o].holds
BY DEF ConfigurationInv, OneHolds


LEMMA AloneKnows ==
  ASSUME EditorTypes, NEW e \in Editors, NEW next, Becomes(e, next),
         \A o \in Editors : o # e => ~editor[o].holds, KnowsOf(e)'
  PROVE  OneHolds' /\ HoldersKnow'
<1>1. \A o \in Editors : o # e => ~editor'[o].holds
  BY OthersStay, Zenon
<1>2. OneHolds'
  BY <1>1 DEF OneHolds
<1>3. HoldersKnow'
  BY <1>1 DEF HoldersKnow, KnowsOf
<1> QED
  BY <1>2, <1>3

LEMMA OneInOrder ==
  ASSUME EditorTypes, StepsInOrder, NEW e \in Editors, NEW next, Becomes(e, next), next \in EditorRecords, OrderOf(e)'
  PROVE  EditorTypes' /\ StepsInOrder'
<1>1. EditorTypes'
  BY DEF EditorTypes, Becomes
<1>2. StepsInOrder'
  <2>1. \A o \in Editors : o # e => editor'[o] = editor[o]
    BY OthersStay, Zenon
  <2> QED
    BY <2>1 DEF StepsInOrder, OrderOf
<1> QED
  BY <1>1, <1>2

LEMMA DefaultsFit == Defaults \in Configs /\ [Idler EXCEPT !.job = Done] \in EditorRecords
BY DEF Defaults, Configs, Idler, EditorRecords

\* An editor that quits is in order and holds nothing.
LEMMA QuitsWell ==
  ASSUME EditorTypes, StepsInOrder, NEW e \in Editors, Quits(e)
  PROVE  /\ EditorTypes' /\ StepsInOrder'
         /\ \A o \in Editors : editor'[o] = editor[o] \/ ~editor'[o].holds
         /\ ~editor'[e].holds /\ KnowsOf(e)'
<1> DEFINE next == [Idler EXCEPT !.job = Done]
<1>1. next \in EditorRecords /\ Becomes(e, next)
  BY DefaultsFit DEF Quits
<1>2. /\ editor'[e] = next /\ \A o \in Editors : o # e => editor'[o] = editor[o]
      /\ next.job = Done /\ next.steps = <<>> /\ ~next.holds
  BY <1>1, OthersStay DEF Idler
<1>3. OrderOf(e)' /\ KnowsOf(e)'
  BY <1>2 DEF OrderOf, KnowsOf, Done
<1>4. EditorTypes' /\ StepsInOrder'
  BY <1>1, <1>3, OneInOrder
<1> QED
  BY <1>2, <1>3, <1>4

\* Nothing that was promised changes, nor the files.
LEMMA FilesAsTheyWere ==
  ASSUME FilesKeep, UNCHANGED <<confFile, confBackup, promised, guarded, tornBy>>,
         \A o \in Editors : editor'[o] = editor[o] \/ ~editor'[o].holds
  PROVE  FilesKeep'
BY DEF FilesKeep, BackedUp, Keeps, Torn, Loaded

\* A job is taken.
LEMMA TakeJobKeeps ==
  ASSUME ConfigurationInv, NEW e \in Editors, NEW job \in Jobs, TakeJob(e, job)
  PROVE  ConfigurationInv'
<1> DEFINE next == [Idler EXCEPT !.job = job, !.steps = StepsOf(job.kind)]
<1>1. /\ EditorTypes /\ StepsInOrder /\ HomeTypeOK /\ Becomes(e, next)
      /\ UNCHANGED <<fileVars, volume, promiseVars, homeBounds>>
  BY DEF ConfigurationInv, TakeJob
<1>2. /\ job.kind \in {"register", "add", "describe", "delete", "token", "start"}
      /\ job.kind = "register" => StepsOf(job.kind) = LTW
      /\ job.kind = "add" => StepsOf(job.kind) = BLTWLTW
      /\ job.kind = "describe" => StepsOf(job.kind) = BLTW
      /\ job.kind \in {"delete", "token"} => StepsOf(job.kind) = LBTW
      /\ job.kind = "start" => StepsOf(job.kind) = ELP
  BY DEF Jobs, StepsOf, LTW, BLTWLTW, BLTW, LBTW, ELP
<1>3. next \in EditorRecords /\ next.job = job /\ next.steps = StepsOf(job.kind) /\ ~next.holds
  <2>1. StepsOf(job.kind) \in StepLists
    BY <1>2 DEF StepLists, OfRegister, OfAdd, OfDescribe, OfChange, OfStart
  <2> QED
    BY <2>1 DEF Idler, EditorRecords, Defaults, Configs
<1>4. editor'[e] = next /\ \A o \in Editors : o # e => editor'[o] = editor[o]
  BY <1>1, OthersStay
<1>5. OrderOf(e)'
  BY <1>2, <1>3, <1>4 DEF OrderOf
<1>6. EditorTypes' /\ StepsInOrder'
  BY <1>1, <1>3, <1>5, OneInOrder
<1>7. HomeTypeOK'
  BY <1>1, <1>6 DEF HomeTypeOK, EditorTypes, EditorRecords, fileVars, promiseVars, homeBounds
<1>8. ASSUME ~disturbed' PROVE OneHolds' /\ HoldersKnow' /\ FilesKeep'
  <2>1. OneHolds /\ HoldersKnow /\ FilesKeep
    BY <1>1, <1>8 DEF ConfigurationInv, promiseVars
  <2>2. OneHolds'
    BY <2>1, <1>3, <1>4 DEF OneHolds
  <2>3. HoldersKnow'
    BY <2>1, <1>1, <1>3, <1>4 DEF HoldersKnow, KnowsOf, Keeps, BackedUp, ToBeRemoved, Torn, fileVars, promiseVars
  <2>4. FilesKeep'
    BY <2>1, <1>1, <1>3, <1>4, FilesAsTheyWere DEF fileVars, promiseVars
  <2> QED
    BY <2>2, <2>3, <2>4
<1> QED
  BY <1>6, <1>7, <1>8 DEF ConfigurationInv

\* The kinds of jobs.
LEMMA KindsOfJobs ==
  ASSUME EditorTypes, NEW e \in Editors
  PROVE  /\ editor[e] \in EditorRecords
         /\ editor[e].job.kind \in {"none", "done", "register", "add", "describe", "delete", "token", "start"}
BY DEF EditorTypes, EditorRecords, Jobs, NoJob, Done

\* Where an editor stands whose next step is known.
LEMMA AtLoad ==
  ASSUME EditorTypes, StepsInOrder, NEW e \in Editors, Turn(e, "load")
  PROVE  LET kind == editor[e].job.kind
             left == editor[e].steps IN
         /\ \/ kind \in {"register", "add", "describe"} /\ left = LTW /\ Tail(left) = TW
            \/ kind = "add" /\ left = LTWLTW /\ Tail(left) = TWLTW
            \/ kind \in {"delete", "token"} /\ left = LBTW /\ Tail(left) = BTW
            \/ kind = "start" /\ left = LP /\ Tail(left) = P
         /\ kind \in {"add", "describe"} => editor[e].holds
BY KindsOfJobs, Lists DEF StepsInOrder, OrderOf, Turn, OfRegister, OfAdd, OfDescribe, OfChange, OfStart

LEMMA AtBackup ==
  ASSUME EditorTypes, StepsInOrder, NEW e \in Editors, Turn(e, "backup")
  PROVE  LET kind == editor[e].job.kind
             left == editor[e].steps IN
         \/ kind = "add" /\ left = BLTWLTW /\ Tail(left) = LTWLTW
         \/ kind = "describe" /\ left = BLTW /\ Tail(left) = LTW
         \/ kind \in {"delete", "token"} /\ left = BTW /\ Tail(left) = TW /\ editor[e].holds
BY KindsOfJobs, Lists DEF StepsInOrder, OrderOf, Turn, OfRegister, OfAdd, OfDescribe, OfChange, OfStart

LEMMA AtTruncate ==
  ASSUME EditorTypes, StepsInOrder, NEW e \in Editors, Turn(e, "truncate")
  PROVE  LET kind == editor[e].job.kind
             left == editor[e].steps IN
         /\ editor[e].holds
         /\ \/ kind \in {"register", "add", "describe", "delete", "token"} /\ left = TW /\ Tail(left) = W
            \/ kind = "add" /\ left = TWLTW /\ Tail(left) = WLTW
            \/ kind = "start" /\ left = TWLP /\ Tail(left) = WLP
            \/ kind = "start" /\ left = TWS /\ Tail(left) = WS
BY KindsOfJobs, Lists DEF StepsInOrder, OrderOf, Turn, OfRegister, OfAdd, OfDescribe, OfChange, OfStart

LEMMA AtWrite ==
  ASSUME EditorTypes, StepsInOrder, NEW e \in Editors, Turn(e, "write")
  PROVE  LET kind == editor[e].job.kind
             left == editor[e].steps IN
         /\ editor[e].holds
         /\ \/ kind \in {"register", "add", "describe", "delete", "token"} /\ left = W /\ Tail(left) = <<>>
            \/ kind = "add" /\ left = WLTW /\ Tail(left) = LTW
            \/ kind = "start" /\ left = WLP /\ Tail(left) = LP
            \/ kind = "start" /\ left = WS /\ Tail(left) = S
BY KindsOfJobs, Lists DEF StepsInOrder, OrderOf, Turn, OfRegister, OfAdd, OfDescribe, OfChange, OfStart

LEMMA AtStart ==
  ASSUME EditorTypes, StepsInOrder, NEW e \in Editors
  PROVE  LET left == editor[e].steps IN
         /\ Turn(e, "ensure") => left = ELP /\ Tail(left) = LP
         /\ Turn(e, "prune") => left = P /\ editor[e].holds
         /\ Turn(e, "settle") => left = S /\ editor[e].holds
         /\ Turn(e, "ensure") \/ Turn(e, "prune") \/ Turn(e, "settle") => editor[e].job.kind = "start"
BY KindsOfJobs, Lists DEF StepsInOrder, OrderOf, Turn, OfRegister, OfAdd, OfDescribe, OfChange, OfStart

\* What a job makes of the configuration it has loaded.
LEMMA ChangedKeeps ==
  ASSUME NEW job \in Jobs, NEW conf \in Configs, Keeps(conf, promised)
  PROVE  /\ Changed(job, conf) \in Configs
         /\ job.kind # "delete" => Keeps(Changed(job, conf), promised)
         /\ job.kind = "delete" => Keeps(Changed(job, conf), promised \ {job.workspace})
         /\ job.kind \in {"register", "add"} => job.workspace \in Changed(job, conf).workspaces
         /\ job.kind = "token" => Changed(job, conf).token
<1>1. job.kind \in {"register", "add", "describe", "delete"} => job.workspace \in Workspaces
  BY DEF Jobs
<1>2. CASE job.kind \in {"register", "add"}
  BY <1>1, <1>2 DEF Changed, Configs, Keeps
<1>3. CASE job.kind = "delete"
  BY <1>1, <1>3 DEF Changed, Configs, Keeps
<1>4. CASE job.kind = "token"
  BY <1>4 DEF Changed, Configs, Keeps
<1>5. CASE job.kind \in {"describe", "start"}
  BY <1>5 DEF Changed, Keeps
<1> QED
  BY <1>2, <1>3, <1>4, <1>5 DEF Jobs

\* A job loads the file.
LEMMA LoadConfKeeps ==
  ASSUME ConfigurationInv, NEW e \in Editors, LoadConf(e)
  PROVE  ConfigurationInv'
<1> DEFINE job == editor[e].job
           next == [After(e) EXCEPT !.conf = Changed(job, Loaded), !.holds = TRUE]
<1>1. /\ EditorTypes /\ StepsInOrder /\ HomeTypeOK /\ Turn(e, "load") /\ Reads(e)
      /\ Quits(e) \/ Becomes(e, next)
      /\ UNCHANGED <<fileVars, volume, promised, guarded, tornBy, homeBounds>>
  BY DEF ConfigurationInv, LoadConf
<1>2. UNCHANGED <<confFile, confBackup, volume, promised, guarded, tornBy, homeBounds>>
  BY <1>1 DEF fileVars
<1>3. ASSUME ~disturbed'
      PROVE  ~disturbed /\ ~Torn /\ (\A o \in Editors : o # e => ~editor[o].holds) /\ FilesKeep /\ KnowsOf(e)
  BY <1>1, <1>3, ReadsAlone DEF ConfigurationInv, HoldersKnow
<1>4. CASE Quits(e)
  <2>1. /\ EditorTypes' /\ StepsInOrder' /\ KnowsOf(e)'
        /\ \A o \in Editors : editor'[o] = editor[o] \/ ~editor'[o].holds
    BY <1>1, <1>4, QuitsWell
  <2>2. HomeTypeOK'
    BY <1>1, <1>2, <2>1 DEF HomeTypeOK, EditorTypes, EditorRecords, homeBounds, Reads
  <2>3. ASSUME ~disturbed' PROVE OneHolds' /\ HoldersKnow' /\ FilesKeep'
    <3>1. OneHolds' /\ HoldersKnow'
      BY <1>1, <1>3, <1>4, <2>1, <2>3, AloneKnows DEF Quits
    <3>2. FilesKeep'
      BY <1>2, <1>3, <2>1, <2>3, FilesAsTheyWere
    <3> QED
      BY <3>1, <3>2
  <2> QED
    BY <2>1, <2>2, <2>3 DEF ConfigurationInv
<1>5. CASE Becomes(e, next)
  <2>1. job \in Jobs /\ Loaded \in Configs
    <3>1. job \in Jobs
      BY <1>1, AtLoad, KindsOfJobs DEF EditorRecords, NoJob, Done
    <3>2. Loaded \in Configs
      BY <1>1, DefaultsFit DEF Loaded, HomeTypeOK, Files
    <3> QED
      BY <3>1, <3>2
  <2>2. Changed(job, Loaded) \in Configs
    <3>1. job.workspace \in Workspaces \/ job.kind \in {"token", "start"}
      BY <2>1 DEF Jobs
    <3> QED
      BY <2>1, <3>1 DEF Changed, Configs, Jobs
  <2>3. next \in EditorRecords /\ next.holds /\ next.conf = Changed(job, Loaded)
        /\ next.job = job /\ next.steps = Tail(editor[e].steps) /\ next.gone = editor[e].gone
    <3>1. Tail(editor[e].steps) \in StepLists
      BY <1>1, AtLoad DEF StepLists, OfRegister, OfAdd, OfDescribe, OfChange, OfStart
    <3>2. editor[e] \in EditorRecords
      BY <1>1, KindsOfJobs
    <3> QED
      BY <2>2, <3>1, <3>2 DEF After, EditorRecords
  <2>4. editor'[e] = next /\ \A o \in Editors : o # e => editor'[o] = editor[o]
    BY <1>1, <1>5, OthersStay
  <2>5. OrderOf(e)'
    BY <1>1, <2>3, <2>4, AtLoad DEF OrderOf, OfRegister, OfAdd, OfDescribe, OfChange, OfStart
  <2>6. EditorTypes' /\ StepsInOrder'
    BY <1>1, <1>5, <2>3, <2>5, OneInOrder
  <2>7. HomeTypeOK'
    BY <1>1, <1>2, <2>6 DEF HomeTypeOK, EditorTypes, EditorRecords, homeBounds, Reads
  <2>8. ASSUME ~disturbed' PROVE OneHolds' /\ HoldersKnow' /\ FilesKeep'
    <3>1. Keeps(Loaded, promised)
      BY <1>3, <2>8 DEF FilesKeep
    <3>2. /\ next.job.kind # "delete" => Keeps(next.conf, promised)
          /\ next.job.kind = "delete" => Keeps(next.conf, promised \ {next.job.workspace})
          /\ next.job.kind \in {"register", "add"} => next.job.workspace \in next.conf.workspaces
          /\ next.job.kind = "token" => next.conf.token
      BY <2>1, <2>3, <3>1, ChangedKeeps
    <3>3. next.job.kind \in {"add", "describe"} => BackedUp
      BY <1>1, <1>3, <2>3, <2>8, AtLoad DEF KnowsOf
    <3>4. KnowsOf(e)'
      <4>1. Keeps(next.conf, promised \ (IF next.job.kind = "delete" THEN {next.job.workspace} ELSE next.gone))
        BY <3>2 DEF Keeps
      <4>2. /\ next.steps \notin {W, WLTW, WLP, WS}
            /\ next.steps \in {P, S} => next.job.kind # "delete"
            /\ next.job.kind \in {"delete", "token"} => next.steps \notin {TW, W}
        <5>1. \/ next.steps \in {TW, TWLTW} /\ next.job.kind \in {"register", "add", "describe"}
              \/ next.steps = BTW /\ next.job.kind \in {"delete", "token"}
              \/ next.steps = P /\ next.job.kind = "start"
          BY <1>1, <2>3, AtLoad
        <5>2. /\ \A left \in {TW, TWLTW, BTW, P} : left \notin {W, WLTW, WLP, WS}
              /\ \A left \in {TW, TWLTW, BTW} : left \notin {P, S}
              /\ BTW \notin {TW, W} /\ P \notin {TW, W}
          BY Apart DEF Writers
        <5> QED
          BY <5>1, <5>2
      <4> QED
        BY <1>2, <2>4, <3>2, <3>3, <4>1, <4>2 DEF KnowsOf, Keeps, BackedUp, ToBeRemoved
    <3>5. OneHolds' /\ HoldersKnow'
      BY <1>1, <1>3, <1>5, <2>8, <3>4, AloneKnows
    <3>6. FilesKeep'
      <4>1. tornBy = "nobody"
        BY <1>3, <2>8 DEF FilesKeep
      <4> QED
        BY <1>2, <1>3, <2>8, <4>1 DEF FilesKeep, BackedUp, Keeps, Torn, Loaded
    <3> QED
      BY <3>5, <3>6
  <2> QED
    BY <2>6, <2>7, <2>8 DEF ConfigurationInv
<1> QED
  BY <1>1, <1>4, <1>5

\* The desktop application backs the file up.
LEMMA BackUpKeeps ==
  ASSUME ConfigurationInv, NEW e \in Editors, BackUp(e)
  PROVE  ConfigurationInv'
<1> DEFINE left == Tail(editor[e].steps)
           next == [editor[e] EXCEPT !.steps = left, !.holds = TRUE]
           copied == IF confFile.state = "absent" THEN confBackup ELSE confFile
<1>1. /\ EditorTypes /\ StepsInOrder /\ HomeTypeOK /\ Turn(e, "backup") /\ Reads(e)
      /\ \/ confBackup' = copied /\ Becomes(e, next) /\ UNCHANGED homeFaults
         \/ HomeFails /\ Quits(e) /\ confBackup' \in {confBackup, Empty}
      /\ UNCHANGED <<confFile, volume, promised, guarded, tornBy, volumeMoves>>
  BY DEF ConfigurationInv, BackUp, After
<1>2. ASSUME ~disturbed'
      PROVE  /\ ~disturbed /\ ~Torn /\ (\A o \in Editors : o # e => ~editor[o].holds)
             /\ FilesKeep /\ KnowsOf(e) /\ tornBy = "nobody"
  BY <1>1, <1>2, ReadsAlone DEF ConfigurationInv, HoldersKnow, FilesKeep
<1>3. HomeTypeOK' \/ ~EditorTypes'
  BY <1>1, DefaultsFit, HomeConstants DEF HomeTypeOK, EditorTypes, EditorRecords, Reads, HomeFails, Files, Empty
<1>4. FilesKeep' \/ disturbed'
  BY <1>1, <1>2 DEF FilesKeep, Keeps, Torn, Loaded
<1>5. CASE HomeFails /\ Quits(e)
  <2>1. EditorTypes' /\ StepsInOrder' /\ KnowsOf(e)'
    BY <1>1, <1>5, QuitsWell
  <2>2. (OneHolds' /\ HoldersKnow') \/ disturbed'
    BY <1>1, <1>2, <1>5, <2>1, AloneKnows DEF Quits
  <2> QED
    BY <1>3, <1>4, <2>1, <2>2 DEF ConfigurationInv
<1>6. CASE confBackup' = copied /\ Becomes(e, next)
  <2>1. left \in StepLists /\ editor[e].steps # <<>>
    BY <1>1, AtBackup, Lists DEF StepLists, OfAdd, OfDescribe, OfChange
  <2>2. /\ next \in EditorRecords /\ next.steps = left /\ next.holds
        /\ next.job = editor[e].job /\ next.conf = editor[e].conf /\ next.gone = editor[e].gone
        /\ editor'[e] = next /\ EditorTypes' /\ \A o \in Editors : o # e => editor'[o] = editor[o]
        /\ OrderOf(e)' => StepsInOrder'
    <3>1. /\ next \in EditorRecords /\ next.steps = left /\ next.holds
          /\ next.job = editor[e].job /\ next.conf = editor[e].conf /\ next.gone = editor[e].gone
      BY <1>1, <2>1, KindsOfJobs DEF EditorRecords
    <3>2. editor'[e] = next /\ \A o \in Editors : o # e => editor'[o] = editor[o]
      BY <1>1, <1>6, OthersStay
    <3>3. EditorTypes' /\ (OrderOf(e)' => StepsInOrder')
      <4>1. EditorTypes'
        BY <1>1, <1>6, <3>1 DEF EditorTypes, Becomes
      <4> QED
        BY <1>1, <1>6, <3>1, <4>1, OneInOrder
    <3> QED
      BY <3>1, <3>2, <3>3
  <2>3. OrderOf(e)'
    BY <1>1, <2>2, AtBackup DEF OrderOf, OfAdd, OfDescribe, OfChange
  <2>4. ASSUME ~disturbed' PROVE KnowsOf(e)'
    <3>1. BackedUp'
      BY <1>1, <1>2, <1>6, <2>4 DEF BackedUp, FilesKeep, Keeps, Loaded, Torn, HomeTypeOK, Files
    <3>2. \/ left \notin Writers \cup {P, S, W, WLTW, WLP, WS}
          \/ left = TW /\ editor[e].steps \in Writers /\ editor[e].holds /\ TW \notin {P, S, W, WLTW, WLP, WS}
      <4>1. left \in {LTWLTW, LTW} \/ (left = TW /\ editor[e].steps = BTW /\ editor[e].holds)
        BY <1>1, AtBackup
      <4> QED
        BY <4>1, Apart DEF Writers
    <3>3. CASE left \notin Writers \cup {P, S, W, WLTW, WLP, WS}
      BY <2>2, <3>1, <3>3 DEF KnowsOf
    <3>4. CASE left = TW /\ editor[e].steps \in Writers /\ editor[e].holds /\ TW \notin {P, S, W, WLTW, WLP, WS}
      BY <1>1, <1>2, <2>2, <2>4, <3>1, <3>4 DEF KnowsOf, Keeps, ToBeRemoved
    <3> QED
      BY <3>2, <3>3, <3>4
  <2>5. (OneHolds' /\ HoldersKnow') \/ disturbed'
    BY <1>1, <1>2, <1>6, <2>4, AloneKnows
  <2> QED
    BY <1>3, <1>4, <2>2, <2>3, <2>5 DEF ConfigurationInv
<1> QED
  BY <1>1, <1>5, <1>6

\* Who holds the file truncates it.
LEMMA TruncateKeeps ==
  ASSUME ConfigurationInv, NEW e \in Editors, Truncate(e)
  PROVE  ConfigurationInv'
<1> DEFINE left == Tail(editor[e].steps)
           next == [editor[e] EXCEPT !.steps = left]
<1>1. /\ EditorTypes /\ StepsInOrder /\ HomeTypeOK /\ Turn(e, "truncate")
      /\ \/ confFile' = Empty /\ Becomes(e, next) /\ UNCHANGED homeFaults
         \/ HomeFails /\ Quits(e) /\ UNCHANGED confFile
      /\ UNCHANGED <<confBackup, volume, promised, guarded, disturbed, tornBy, volumeMoves>>
  BY DEF ConfigurationInv, Truncate, After, promiseVars
<1>2. ASSUME ~disturbed'
      PROVE  /\ ~disturbed /\ (\A o \in Editors : o # e => ~editor[o].holds)
             /\ FilesKeep /\ KnowsOf(e) /\ tornBy = "nobody" /\ editor[e].holds
  BY <1>1, <1>2, HoldsAlone, AtTruncate DEF ConfigurationInv, HoldersKnow, FilesKeep
<1>3. HomeTypeOK' \/ ~EditorTypes'
  BY <1>1, DefaultsFit, HomeConstants DEF HomeTypeOK, EditorTypes, EditorRecords, HomeFails, Files, Empty
<1>4. CASE HomeFails /\ Quits(e) /\ UNCHANGED confFile
  <2>1. /\ EditorTypes' /\ StepsInOrder' /\ KnowsOf(e)'
        /\ \A o \in Editors : editor'[o] = editor[o] \/ ~editor'[o].holds
    BY <1>1, <1>4, QuitsWell
  <2>2. (OneHolds' /\ HoldersKnow') \/ disturbed'
    BY <1>1, <1>2, <1>4, <2>1, AloneKnows DEF Quits
  <2>3. FilesKeep' \/ disturbed'
    BY <1>1, <1>2, <1>4, <2>1, FilesAsTheyWere
  <2> QED
    BY <1>3, <2>1, <2>2, <2>3 DEF ConfigurationInv
<1>5. CASE confFile' = Empty /\ Becomes(e, next) /\ UNCHANGED homeFaults
  <2>1. left \in StepLists /\ left \in {W, WLTW, WLP, WS}
    BY <1>1, AtTruncate DEF StepLists, OfRegister, OfAdd, OfStart
  <2>2. /\ next \in EditorRecords /\ next.steps = left /\ next.holds
        /\ next.job = editor[e].job /\ next.conf = editor[e].conf /\ next.gone = editor[e].gone
    BY <1>1, <2>1, KindsOfJobs, AtTruncate DEF EditorRecords
  <2>3. editor'[e] = next /\ \A o \in Editors : o # e => editor'[o] = editor[o]
    BY <1>1, <1>5, OthersStay
  <2>4. OrderOf(e)'
    BY <1>1, <2>2, <2>3, AtTruncate DEF OrderOf, OfRegister, OfAdd, OfDescribe, OfChange, OfStart
  <2>5. EditorTypes' /\ StepsInOrder'
    BY <1>1, <1>5, <2>2, <2>4, OneInOrder
  <2>6. ASSUME ~disturbed' PROVE KnowsOf(e)'
    <3>1. editor[e].steps \in {TW, TWLTW, TWLP, TWS} /\ (editor[e].job.kind \in {"delete", "token"} => editor[e].steps = TW)
      BY <1>1, AtTruncate
    <3>2. editor[e].steps \in Writers /\ left \notin {P, S}
      BY <2>1, <3>1, Apart DEF Writers
    <3>3. Torn'
      BY <1>5 DEF Torn, Empty
    <3>4. /\ Keeps(editor[e].conf, promised \ ToBeRemoved(e))
          /\ editor[e].job.kind \in {"register", "add"} => editor[e].job.workspace \in editor[e].conf.workspaces
          /\ editor[e].job.kind = "token" => editor[e].conf.token
          /\ editor[e].job.kind \in {"add", "describe", "delete", "token"} => BackedUp
      BY <1>2, <2>6, <3>1, <3>2 DEF KnowsOf
    <3> QED
      BY <1>1, <2>2, <2>3, <3>2, <3>3, <3>4 DEF KnowsOf, Keeps, ToBeRemoved, BackedUp
  <2>7. (OneHolds' /\ HoldersKnow') \/ disturbed'
    BY <1>1, <1>2, <1>5, <2>6, AloneKnows
  <2>8. FilesKeep' \/ disturbed'
    BY <1>1, <1>2, <1>5 DEF FilesKeep, Torn, Empty
  <2> QED
    BY <1>3, <2>5, <2>7, <2>8 DEF ConfigurationInv
<1> QED
  BY <1>1, <1>4, <1>5

\* A server looks whether the file is there.
LEMMA EnsureKeeps ==
  ASSUME ConfigurationInv, NEW e \in Editors, Ensure(e)
  PROVE  ConfigurationInv'
<1> DEFINE absent == confFile.state = "absent"
           left == IF absent THEN TWLP ELSE LP
           next == [editor[e] EXCEPT !.steps = left, !.holds = absent]
<1>1. /\ EditorTypes /\ StepsInOrder /\ HomeTypeOK /\ Turn(e, "ensure") /\ Reads(e)
      /\ editor[e].job.kind = "start"
      /\ UNCHANGED <<confFile, confBackup, volume, promised, guarded, tornBy, volumeMoves, homeFaults>>
  BY AtStart DEF ConfigurationInv, Ensure, fileVars, homeBounds
<1>2. Becomes(e, next)
  <2>1. Tail(editor[e].steps) = LP /\ editor[e] \in EditorRecords
    BY <1>1, AtStart, KindsOfJobs
  <2>2. [After(e) EXCEPT !.steps = IF absent THEN <<"truncate", "write">> \o @ ELSE @, !.holds = absent] = next
    BY <2>1, Lists DEF After, EditorRecords
  <2> QED
    BY <2>2 DEF Ensure
<1>3. /\ next \in EditorRecords /\ next.steps = left /\ (next.holds <=> absent)
      /\ next.job = editor[e].job /\ next.conf = editor[e].conf
  BY <1>1, KindsOfJobs DEF EditorRecords, StepLists, OfStart
<1>4. editor'[e] = next /\ \A o \in Editors : o # e => editor'[o] = editor[o]
  BY <1>1, <1>2, OthersStay
<1>5. OrderOf(e)'
  BY <1>1, <1>3, <1>4 DEF OrderOf, OfStart
<1>6. EditorTypes' /\ StepsInOrder'
  BY <1>1, <1>2, <1>3, <1>5, OneInOrder
<1>7. HomeTypeOK'
  BY <1>1, <1>6 DEF HomeTypeOK, EditorTypes, EditorRecords, Reads
<1>8. ASSUME ~disturbed' PROVE OneHolds' /\ HoldersKnow' /\ FilesKeep'
  <2>1. ~disturbed /\ ~Torn /\ (\A o \in Editors : o # e => ~editor[o].holds) /\ FilesKeep /\ tornBy = "nobody"
    BY <1>1, <1>8, ReadsAlone DEF ConfigurationInv, FilesKeep
  <2>2. KnowsOf(e)'
    <3>1. TWLP \notin {P, S, W, WLTW, WLP, WS}
      BY Apart
    <3> QED
      BY <1>1, <1>3, <1>4, <2>1, <3>1 DEF KnowsOf, FilesKeep, Keeps, Writers
  <2>3. OneHolds' /\ HoldersKnow'
    BY <1>1, <1>2, <2>1, <2>2, AloneKnows
  <2>4. FilesKeep'
    BY <1>1, <2>1 DEF FilesKeep, Keeps, Torn, Loaded
  <2> QED
    BY <2>3, <2>4
<1> QED
  BY <1>6, <1>7, <1>8 DEF ConfigurationInv

\* Who has truncated the file writes it.
LEMMA WriteConfKeeps ==
  ASSUME ConfigurationInv, NEW e \in Editors, WriteConf(e)
  PROVE  ConfigurationInv'
<1> DEFINE job == editor[e].job
           left == Tail(editor[e].steps)
           next == [editor[e] EXCEPT !.steps = left]
           removed == ToBeRemoved(e)
           added == IF job.kind \in {"register", "add"} /\ left = <<>> THEN {job.workspace} ELSE {}
           JobWrites == confFile' = Whole(editor[e].conf) /\ tornBy' = "nobody"
           Answered == /\ JobWrites /\ promised' = (promised \ removed) \cup added
                       /\ guarded' = (guarded \/ job.kind = "token") /\ UNCHANGED homeFaults
           Failed == /\ HomeFails /\ Quits(e) /\ UNCHANGED guarded
                     /\ \/ JobWrites /\ promised' = promised \ removed
                        \/ tornBy' = Whose(e) /\ UNCHANGED <<confFile, promised>>
<1>1. /\ EditorTypes /\ StepsInOrder /\ HomeTypeOK /\ Turn(e, "write")
      /\ UNCHANGED <<confBackup, volume, disturbed, volumeMoves>>
  BY DEF ConfigurationInv, WriteConf
<1>2. (Answered /\ (IF left = <<>> THEN Quits(e) ELSE Becomes(e, next))) \/ Failed
  BY DEF WriteConf, After, ToBeRemoved
<1>3. editor[e] \in EditorRecords /\ (job.kind \in {"register", "add"} => job.workspace \in Workspaces)
      /\ job.kind \in {"register", "add", "describe", "delete", "token", "start"}
  BY <1>1, KindsOfJobs, AtWrite DEF EditorRecords, Jobs, NoJob, Done
<1>4. HomeTypeOK' \/ ~EditorTypes'
  <2>1. /\ confFile' \in Files /\ tornBy' \in {"nobody", "desktop", "other"} /\ promised' \subseteq Workspaces
        /\ guarded' \in BOOLEAN /\ homeFaults' \in 0..MaxHomeFaults
    <3>1. confFile' \in Files
      BY <1>1, <1>2, <1>3 DEF HomeTypeOK, Whole, Files, EditorRecords
    <3>2. tornBy' \in {"nobody", "desktop", "other"}
      BY <1>2 DEF Whose
    <3>3. promised' \subseteq Workspaces
      BY <1>1, <1>2, <1>3 DEF HomeTypeOK
    <3>4. guarded' \in BOOLEAN
      BY <1>1, <1>2, Zenon DEF HomeTypeOK
    <3>5. homeFaults' \in 0..MaxHomeFaults
      BY <1>1, <1>2, HomeConstants DEF HomeTypeOK, HomeFails
    <3> QED
      BY <3>1, <3>2, <3>3, <3>4, <3>5
  <2> QED
    BY <1>1, <2>1 DEF HomeTypeOK, EditorTypes, EditorRecords
<1>5. ASSUME ~disturbed'
      PROVE  /\ ~disturbed /\ (\A o \in Editors : o # e => ~editor[o].holds)
             /\ FilesKeep /\ KnowsOf(e) /\ editor[e].holds
  BY <1>1, <1>5, HoldsAlone, AtWrite DEF ConfigurationInv, HoldersKnow
<1>6. CASE /\ Quits(e) /\ JobWrites
           /\ promised' = promised \ removed \/ promised' = (promised \ removed) \cup added
           /\ guarded' => guarded \/ job.kind = "token"
  <2>1. /\ EditorTypes' /\ StepsInOrder' /\ KnowsOf(e)'
    BY <1>1, <1>6, QuitsWell
  <2>2. (OneHolds' /\ HoldersKnow') \/ disturbed'
    BY <1>1, <1>5, <1>6, <2>1, AloneKnows DEF Quits
  <2>3. ASSUME ~disturbed' PROVE FilesKeep'
    <3>1. editor[e].steps \in Writers
      BY <1>1, AtWrite DEF Writers
    <3>2. promised' \subseteq editor[e].conf.workspaces /\ (guarded' => editor[e].conf.token)
      <4>1. /\ promised \ removed \subseteq editor[e].conf.workspaces
            /\ guarded => editor[e].conf.token
            /\ job.kind = "token" => editor[e].conf.token
            /\ added \subseteq editor[e].conf.workspaces
        BY <1>5, <2>3, <3>1 DEF KnowsOf, Keeps
      <4>2. guarded' => guarded \/ job.kind = "token"
        BY <1>6, Zenon
      <4>3. promised' \subseteq (promised \ removed) \cup added
        BY <1>6
      <4> QED
        BY <4>1, <4>2, <4>3
    <3> QED
      BY <1>6, <3>2 DEF FilesKeep, Keeps, Loaded, Whole, Torn
  <2> QED
    BY <1>4, <2>1, <2>2, <2>3 DEF ConfigurationInv
<1>7. CASE Quits(e) /\ Failed /\ tornBy' = Whose(e) /\ UNCHANGED <<confFile, promised>>
  <2>1. /\ EditorTypes' /\ StepsInOrder' /\ KnowsOf(e)' /\ ~editor'[e].holds
        /\ \A o \in Editors : editor'[o] = editor[o] \/ ~editor'[o].holds
    BY <1>1, <1>7, QuitsWell
  <2>2. (OneHolds' /\ HoldersKnow') \/ disturbed'
    BY <1>1, <1>5, <1>7, <2>1, AloneKnows DEF Quits
  <2>3. ASSUME ~disturbed' PROVE FilesKeep'
    <3>1. Torn /\ (job.kind \notin {"register", "start"} => BackedUp)
      BY <1>1, <1>3, <1>5, <2>3, AtWrite DEF KnowsOf
    <3>2. \A o \in Editors : ~editor'[o].holds
      BY <1>5, <2>1, <2>3
    <3>3. Torn' /\ (tornBy' = "desktop" => BackedUp')
      BY <1>1, <1>7, <3>1 DEF Whose, Torn, BackedUp, Keeps
    <3>4. confFile'.state # "absent"
      BY <3>3 DEF Torn
    <3> QED
      BY <3>2, <3>3, <3>4 DEF FilesKeep
  <2> QED
    BY <1>4, <2>1, <2>2, <2>3 DEF ConfigurationInv
<1>8. CASE Answered /\ left # <<>> /\ Becomes(e, next)
  <2>1. left \in StepLists /\ left \in {LTW, LP, S}
    BY <1>1, <1>8, AtWrite DEF StepLists, OfRegister, OfAdd, OfStart
  <2>2. /\ next \in EditorRecords /\ next.steps = left /\ next.holds
        /\ next.job = editor[e].job /\ next.conf = editor[e].conf /\ next.gone = editor[e].gone
    BY <1>1, <2>1, KindsOfJobs, AtWrite DEF EditorRecords
  <2>3. editor'[e] = next /\ \A o \in Editors : o # e => editor'[o] = editor[o]
    BY <1>1, <1>8, OthersStay
  <2>4. OrderOf(e)'
    BY <1>1, <1>8, <2>2, <2>3, AtWrite DEF OrderOf, OfRegister, OfAdd, OfStart
  <2>5. EditorTypes' /\ StepsInOrder'
    BY <1>1, <1>8, <2>2, <2>4, OneInOrder
  <2>6. ASSUME ~disturbed' PROVE FilesKeep' /\ KnowsOf(e)'
    <3>1. editor[e].steps \in Writers
      BY <1>1, AtWrite DEF Writers
    <3>2. promised' \subseteq editor[e].conf.workspaces /\ (guarded' => editor[e].conf.token)
      BY <1>5, <1>8, <2>6, <3>1 DEF KnowsOf, Keeps
    <3>3. FilesKeep'
      BY <1>8, <3>2 DEF FilesKeep, Keeps, Loaded, Whole, Torn
    <3>4. job.kind \in {"add", "start"} /\ promised' \subseteq promised /\ guarded' = guarded
      BY <1>1, <1>8, AtWrite DEF HomeTypeOK
    <3>5. job.kind = "add" => BackedUp'
      BY <1>1, <1>5, <2>6, <3>4 DEF KnowsOf, BackedUp, Keeps
    <3>6. left \notin Writers /\ left \notin {W, WLTW, WLP, WS}
      BY <2>1, Apart DEF Writers
    <3> QED
      BY <2>2, <2>3, <3>2, <3>3, <3>4, <3>5, <3>6 DEF KnowsOf, Keeps
  <2>7. (OneHolds' /\ HoldersKnow') \/ disturbed'
    BY <1>1, <1>5, <1>8, <2>6, AloneKnows
  <2> QED
    BY <1>4, <2>5, <2>6, <2>7 DEF ConfigurationInv
<1>9. CASE Answered /\ left = <<>> /\ Quits(e)
  <2>1. guarded' => guarded \/ job.kind = "token"
    BY <1>9, Zenon
  <2> QED
    BY <1>6, <1>9, <2>1, Zenon
<1>10. CASE Failed
  <2>1. UNCHANGED guarded => (guarded' => guarded \/ job.kind = "token")
    OBVIOUS
  <2> QED
    BY <1>6, <1>7, <1>10, <2>1, Zenon
<1> QED
  BY <1>2, <1>8, <1>9, <1>10, Zenon

\* A server prunes what it has loaded.
LEMMA PruneKeeps ==
  ASSUME ConfigurationInv, NEW e \in Editors, Prune(e)
  PROVE  ConfigurationInv'
<1> DEFINE conf == editor[e].conf
           kept == {w \in conf.workspaces : volume[w] # "missing"}
           left == IF kept # conf.workspaces THEN TWS ELSE S
           waits == \E w \in kept : volume[w] = "unmounted"
           next == [editor[e] EXCEPT !.conf.workspaces = kept, !.gone = conf.workspaces \ kept,
                                     !.pending = waits, !.steps = left]
<1>1. /\ EditorTypes /\ StepsInOrder /\ HomeTypeOK /\ Turn(e, "prune")
      /\ editor[e].steps = P /\ editor[e].holds /\ editor[e].job.kind = "start"
      /\ UNCHANGED <<confFile, confBackup, volume, promised, guarded, disturbed, tornBy, volumeMoves, homeFaults>>
  BY AtStart DEF ConfigurationInv, Prune, fileVars, homeBounds, promiseVars
<1>2. Becomes(e, next)
  BY DEF Prune, TWS, S
<1>3. /\ next \in EditorRecords /\ next.steps = left /\ next.holds /\ next.job = editor[e].job
      /\ next.conf.workspaces = kept /\ next.conf.token = conf.token /\ next.gone = conf.workspaces \ kept
  BY <1>1, KindsOfJobs DEF EditorRecords, StepLists, OfStart, Configs
<1>4. editor'[e] = next /\ \A o \in Editors : o # e => editor'[o] = editor[o]
  BY <1>1, <1>2, OthersStay
<1>5. OrderOf(e)'
  BY <1>1, <1>3, <1>4 DEF OrderOf, OfStart
<1>6. EditorTypes' /\ StepsInOrder'
  BY <1>1, <1>2, <1>3, <1>5, OneInOrder
<1>7. HomeTypeOK'
  BY <1>1, <1>6 DEF HomeTypeOK, EditorTypes, EditorRecords
<1>8. ASSUME ~disturbed' PROVE OneHolds' /\ HoldersKnow' /\ FilesKeep'
  <2>1. /\ ~disturbed /\ FilesKeep /\ KnowsOf(e) /\ tornBy = "nobody"
        /\ \A o \in Editors : o # e => ~editor[o].holds
    BY <1>1, <1>8, HoldsAlone DEF ConfigurationInv, HoldersKnow, FilesKeep
  <2>2. KnowsOf(e)'
    <3>1. Keeps(conf, promised)
      BY <1>1, <2>1 DEF KnowsOf
    <3>2. /\ TWS \notin {P, S, W, WLTW, WLP, WS}
          /\ S \notin Writers /\ S \notin {W, WLTW, WLP, WS}
      BY Apart DEF Writers
    <3>3. Keeps(next.conf, promised \ next.gone) /\ (kept = conf.workspaces => Keeps(next.conf, promised))
      BY <1>3, <3>1 DEF Keeps
    <3>4. left = TWS \/ (left = S /\ kept = conf.workspaces)
      OBVIOUS
    <3> HIDE DEF next, left, kept
    <3> QED
      BY <1>1, <1>3, <1>4, <3>2, <3>3, <3>4 DEF KnowsOf, Keeps, ToBeRemoved
  <2>3. OneHolds' /\ HoldersKnow'
    BY <1>1, <1>2, <2>1, <2>2, AloneKnows
  <2>4. FilesKeep'
    BY <1>1, <2>1 DEF FilesKeep, Keeps, Torn, Loaded
  <2> QED
    BY <2>3, <2>4
<1> QED
  BY <1>6, <1>7, <1>8 DEF ConfigurationInv

\* It starts, or waits and prunes again.
LEMMA SettleKeeps ==
  ASSUME ConfigurationInv, NEW e \in Editors, Settle(e)
  PROVE  ConfigurationInv'
<1> DEFINE next == [editor[e] EXCEPT !.steps = P, !.gone = {}]
<1>1. /\ EditorTypes /\ StepsInOrder /\ HomeTypeOK /\ Turn(e, "settle")
      /\ editor[e].steps = S /\ editor[e].holds /\ editor[e].job.kind = "start"
      /\ UNCHANGED <<confFile, confBackup, volume, promised, guarded, disturbed, tornBy, volumeMoves, homeFaults>>
      /\ Becomes(e, next) \/ Quits(e)
  BY AtStart DEF ConfigurationInv, Settle, fileVars, homeBounds, promiseVars, P
<1>2. HomeTypeOK' \/ ~EditorTypes'
  BY <1>1 DEF HomeTypeOK, EditorTypes, EditorRecords
<1>3. ASSUME ~disturbed'
      PROVE  /\ ~disturbed /\ FilesKeep /\ KnowsOf(e) /\ tornBy = "nobody"
             /\ \A o \in Editors : o # e => ~editor[o].holds
  BY <1>1, <1>3, HoldsAlone DEF ConfigurationInv, HoldersKnow, FilesKeep
<1>4. FilesKeep' \/ disturbed'
  BY <1>1, <1>3 DEF FilesKeep, Keeps, Torn, Loaded
<1>5. CASE Quits(e)
  <2>1. EditorTypes' /\ StepsInOrder' /\ KnowsOf(e)'
    BY <1>1, <1>5, QuitsWell
  <2>2. (OneHolds' /\ HoldersKnow') \/ disturbed'
    BY <1>1, <1>3, <1>5, <2>1, AloneKnows DEF Quits
  <2> QED
    BY <1>2, <1>4, <2>1, <2>2 DEF ConfigurationInv
<1>6. CASE Becomes(e, next)
  <2>1. /\ next \in EditorRecords /\ next.steps = P /\ next.holds
        /\ next.job = editor[e].job /\ next.conf = editor[e].conf
    BY <1>1, KindsOfJobs DEF EditorRecords, StepLists, OfStart
  <2>2. editor'[e] = next /\ \A o \in Editors : o # e => editor'[o] = editor[o]
    BY <1>1, <1>6, OthersStay
  <2>3. OrderOf(e)'
    BY <1>1, <2>1, <2>2 DEF OrderOf, OfStart
  <2>4. EditorTypes' /\ StepsInOrder'
    BY <1>1, <1>6, <2>1, <2>3, OneInOrder
  <2>5. ASSUME ~disturbed' PROVE KnowsOf(e)'
    <3>1. P \notin Writers /\ P \notin {W, WLTW, WLP, WS}
      BY Apart DEF Writers
    <3> QED
      BY <1>1, <1>3, <2>1, <2>2, <2>5, <3>1 DEF KnowsOf, Keeps
  <2>6. (OneHolds' /\ HoldersKnow') \/ disturbed'
    BY <1>1, <1>3, <1>6, <2>5, AloneKnows
  <2> QED
    BY <1>2, <1>4, <2>4, <2>6 DEF ConfigurationInv
<1> QED
  BY <1>1, <1>5, <1>6

\* The process of an editor ends: one that was to write leaves an empty file, of
\* which the desktop application has a backup.
LEMMA EditorDiesKeeps ==
  ASSUME ConfigurationInv, NEW e \in Editors, EditorDies(e)
  PROVE  ConfigurationInv'
<1>1. /\ EditorTypes /\ StepsInOrder /\ HomeTypeOK /\ Quits(e) /\ HomeFails /\ editor[e].steps # <<>>
      /\ tornBy' = IF Turn(e, "write") THEN Whose(e) ELSE tornBy
      /\ UNCHANGED <<confFile, confBackup, volume, promised, guarded, disturbed, volumeMoves>>
  BY DEF ConfigurationInv, EditorDies, fileVars
<1>2. /\ EditorTypes' /\ StepsInOrder' /\ KnowsOf(e)' /\ ~editor'[e].holds
      /\ \A o \in Editors : editor'[o] = editor[o] \/ ~editor'[o].holds
  BY <1>1, QuitsWell
<1>3. HomeTypeOK'
  <2>1. tornBy' \in {"nobody", "desktop", "other"} /\ homeFaults' \in 0..MaxHomeFaults
    BY <1>1, HomeConstants DEF HomeTypeOK, Whose, HomeFails
  <2> QED
    BY <1>1, <1>2, <2>1 DEF HomeTypeOK, EditorTypes, EditorRecords
<1>4. ASSUME ~disturbed' PROVE OneHolds' /\ HoldersKnow' /\ FilesKeep'
  <2>1. ~disturbed /\ OneHolds /\ HoldersKnow /\ FilesKeep
    BY <1>1, <1>4 DEF ConfigurationInv
  <2>2. OneHolds'
    BY <1>2, <2>1 DEF OneHolds
  <2>3. HoldersKnow'
    BY <1>1, <1>2, <2>1 DEF HoldersKnow, KnowsOf, Keeps, BackedUp, ToBeRemoved, Torn
  <2>4. ASSUME Turn(e, "write") PROVE FilesKeep'
    <3>1. KnowsOf(e) /\ editor[e].holds /\ editor[e].steps \in {W, WLTW, WLP, WS}
          /\ (editor[e].job.kind \in {"delete", "token"} => editor[e].steps = W)
      BY <1>1, <2>1, <2>4, AtWrite DEF HoldersKnow
    <3>2. Torn /\ (editor[e].job.kind \notin {"register", "start"} => BackedUp)
      BY <1>1, <2>4, <3>1, AtWrite DEF KnowsOf
    <3>3. \A o \in Editors : ~editor'[o].holds
      BY <1>2, <2>1, <3>1, HoldsAlone DEF OneHolds
    <3>4. tornBy' = Whose(e)
      BY <1>1, <2>4, Zenon
    <3>5. UNCHANGED <<confFile, confBackup, promised, guarded>>
      BY <1>1
    <3> QED
      BY <3>2, <3>3, <3>4, <3>5 DEF FilesKeep, Whose, Torn, BackedUp, Keeps
  <2>5. ASSUME ~Turn(e, "write") PROVE FilesKeep'
    <3>1. tornBy' = tornBy
      BY <1>1, <2>5, Zenon
    <3>2. UNCHANGED <<confFile, confBackup, promised, guarded>>
      BY <1>1
    <3> QED
      BY <1>2, <2>1, <3>1, <3>2, FilesAsTheyWere
  <2> QED
    BY <2>2, <2>3, <2>4, <2>5
<1> QED
  BY <1>2, <1>3, <1>4 DEF ConfigurationInv

LEMMA ConfigurationInductive == HomeSpec => []ConfigurationInv
<1>1. HomeInit => ConfigurationInv
  <2> SUFFICES ASSUME HomeInit PROVE ConfigurationInv
    OBVIOUS
  <2>1. \A e \in Editors : editor[e] = Idler /\ ~editor[e].holds
    BY DEF HomeInit, Idler
  <2>2. Idler \in EditorRecords /\ Idler.job = NoJob /\ Idler.steps = <<>>
    BY DefaultsFit DEF Idler, EditorRecords
  <2>3. EditorTypes
    BY <2>1, <2>2 DEF EditorTypes, HomeInit
  <2>4. StepsInOrder
    BY <2>1, <2>2 DEF StepsInOrder, OrderOf, NoJob
  <2>5. HomeTypeOK
    <3>1. \A e \in Editors : editor[e].conf \in Configs /\ editor[e].job \in Jobs \cup {NoJob, Done}
      BY <2>1, <2>2 DEF EditorRecords
    <3>2. Absent \in Files
      BY DefaultsFit DEF Files, Absent
    <3>3. volumeMoves \in 0..MaxVolumeMoves /\ homeFaults \in 0..MaxHomeFaults
      BY HomeConstants DEF HomeInit
    <3>4. volume \in [Workspaces -> {"there", "missing", "unmounted"}] /\ promised \subseteq Workspaces
      BY DEF HomeInit
    <3>5. guarded \in BOOLEAN /\ disturbed \in BOOLEAN /\ tornBy \in {"nobody", "desktop", "other"}
      BY DEF HomeInit
    <3>6. confFile \in Files /\ confBackup \in Files
      BY <3>2 DEF HomeInit
    <3> QED
      BY <3>1, <3>3, <3>4, <3>5, <3>6 DEF HomeTypeOK
  <2>6. OneHolds /\ HoldersKnow
    BY <2>1 DEF OneHolds, HoldersKnow, KnowsOf
  <2>7. FilesKeep
    BY DEF FilesKeep, HomeInit, Keeps, Torn, Absent
  <2> QED
    BY <2>3, <2>4, <2>5, <2>6, <2>7 DEF ConfigurationInv
<1>2. ConfigurationInv /\ [HomeNext]_homeVars => ConfigurationInv'
  <2> SUFFICES ASSUME ConfigurationInv, [HomeNext]_homeVars PROVE ConfigurationInv'
    OBVIOUS
  <2>1. ASSUME NEW e \in Editors, NEW job \in Jobs, TakeJob(e, job) PROVE ConfigurationInv'
    BY <2>1, TakeJobKeeps
  <2>2. ASSUME NEW e \in Editors,
               \/ Ensure(e) \/ LoadConf(e) \/ BackUp(e) \/ Truncate(e) \/ WriteConf(e)
               \/ Prune(e) \/ Settle(e) \/ EditorDies(e)
        PROVE  ConfigurationInv'
    BY <2>2, EnsureKeeps, LoadConfKeeps, BackUpKeeps, TruncateKeeps, WriteConfKeeps, PruneKeeps, SettleKeeps,
       EditorDiesKeeps
  <2>3. ASSUME NEW w \in Workspaces, NEW where \in {"there", "missing", "unmounted"}, VolumeMoves(w, where)
        PROVE  ConfigurationInv'
    <3>1. /\ volumeMoves' = volumeMoves + 1 /\ volumeMoves < MaxVolumeMoves /\ volume' = [volume EXCEPT ![w] = where]
          /\ UNCHANGED <<confFile, confBackup, editor, promised, guarded, disturbed, tornBy, homeFaults>>
      BY <2>3 DEF VolumeMoves, fileVars, promiseVars
    <3>2. HomeTypeOK' /\ EditorTypes' /\ StepsInOrder'
      BY <3>1, HomeConstants DEF ConfigurationInv, HomeTypeOK, EditorTypes, StepsInOrder, OrderOf
    <3>3. (OneHolds' /\ HoldersKnow' /\ FilesKeep') \/ disturbed'
      BY <3>1 DEF ConfigurationInv, OneHolds, HoldersKnow, KnowsOf, FilesKeep, Keeps, Torn, Loaded, BackedUp, ToBeRemoved
    <3> QED
      BY <3>2, <3>3 DEF ConfigurationInv
  <2>4. CASE UNCHANGED homeVars
    <3>1. UNCHANGED <<confFile, confBackup, volume, editor, promised, guarded, disturbed, tornBy, volumeMoves, homeFaults>>
      BY <2>4 DEF homeVars, fileVars, promiseVars, homeBounds
    <3>2. HomeTypeOK' /\ EditorTypes' /\ StepsInOrder'
      BY <3>1 DEF ConfigurationInv, HomeTypeOK, EditorTypes, StepsInOrder, OrderOf
    <3>3. (OneHolds' /\ HoldersKnow' /\ FilesKeep') \/ disturbed'
      BY <3>1 DEF ConfigurationInv, OneHolds, HoldersKnow, KnowsOf, FilesKeep, Keeps, Torn, Loaded, BackedUp, ToBeRemoved
    <3> QED
      BY <3>2, <3>3 DEF ConfigurationInv
  <2> QED
    BY <2>1, <2>2, <2>3, <2>4 DEF HomeNext
<1> QED
  BY <1>1, <1>2, PTL DEF HomeSpec

\* As long as one changes the configuration file at a time, a workspace
\* that was registered stays registered and a token set, and what a write of the
\* desktop application leaves when it does not end, its backup has.
THEOREM ConfigurationStays == HomeSpec => []ConfigurationKept
<1>1. ConfigurationInv => ConfigurationKept
  BY DEF ConfigurationInv, FilesKeep, ConfigurationKept, RegistrationsKept, BackupHasIt, Keeps, BackedUp
<1> QED
  BY <1>1, ConfigurationInductive, PTL

-----------------------------------------------------------------------------
(* The services side by side (MCRequests). *)

\* A behaviour that is explored is one of the calls that need a confirmation, with a
\* key and without, of a batch of edits, of a move and of the configuration file.
LEMMA RequestsAreParts ==
  RequestsSpec => /\ Init /\ CInv /\ [][CNext]_cvars
                  /\ EditSpec /\ MoveSpec /\ HomeSpec /\ [](subject \in Subjects)
<1>1. RequestsInit => Init /\ EditInit /\ MoveInit /\ HomeInit /\ subject \in Subjects
  BY DEF RequestsInit
<1>2. RequestsInit => CInv
  <2> SUFFICES ASSUME RequestsInit PROVE CInv
    OBVIOUS
  <2>1. Init /\ Key!Init /\ late = {}
    BY DEF RequestsInit
  <2>2. way \in [Reqs -> Ways]
    BY DEF RequestsInit, Ways
  <2>3. WellFormed
    BY <2>1, <2>2 DEF Init, Key!Init, WellFormed, IsRow, Key!NoRecord, PC, KeyLabels, Key!PC, Key!Completed
  <2> QED
    BY <2>1, <2>3 DEF Init, Key!Init, CInv, LeaseHeld, NotBegun, LateReads, Key!NoRecord
<1>3. [RequestsNext]_<<cvars, editVars, moveVars, homeVars, subject>> => [CNext]_cvars
  BY DEF RequestsNext
<1>4. [RequestsNext]_<<cvars, editVars, moveVars, homeVars, subject>> => [EditNext]_editVars
  BY DEF RequestsNext
<1>5. [RequestsNext]_<<cvars, editVars, moveVars, homeVars, subject>> => [MoveNext]_moveVars
  BY DEF RequestsNext
<1>6. [RequestsNext]_<<cvars, editVars, moveVars, homeVars, subject>> => [HomeNext]_homeVars
  BY DEF RequestsNext
<1>7. subject \in Subjects /\ [RequestsNext]_<<cvars, editVars, moveVars, homeVars, subject>>
        => (subject \in Subjects)'
  BY DEF RequestsNext
<1> QED
  BY <1>1, <1>2, <1>3, <1>4, <1>5, <1>6, <1>7, PTL DEF RequestsSpec, EditSpec, MoveSpec, HomeSpec

\* Type correctness of the approvals, the batch, the move and the configuration file,
\* whichever of them a behaviour is about.
THEOREM RequestsTypes == RequestsSpec => []RequestsTypeOK
<1>1. EditSpec => []EditTypeOK
  <2>1. EditInv => EditTypeOK
    BY DEF EditInv
  <2> QED
    BY <2>1, EditInductive, PTL
<1>2. MoveSpec => []MoveTypeOK
  <2>1. MoveInv => MoveTypeOK
    BY DEF MoveInv
  <2> QED
    BY <2>1, MoveInductive, PTL
<1>3. HomeSpec => []HomeTypeOK
  <2>1. ConfigurationInv => HomeTypeOK
    BY DEF ConfigurationInv
  <2> QED
    BY <2>1, ConfigurationInductive, PTL
<1>4. subject \in Subjects /\ TypeOK /\ EditTypeOK /\ MoveTypeOK /\ HomeTypeOK => RequestsTypeOK
  BY DEF Subjects, RequestsTypeOK
<1> QED
  BY <1>1, <1>2, <1>3, <1>4, TypesBesideKeys, RequestsAreParts, PTL

\* What is promised to those who confirm, retry and edit holds in every behaviour that
\* is explored, whether calls without a key, with a key or of both kinds meet in it:
\* commands run once, as shown; a late retry is answered from the record; batches of
\* edits and moves answer what they did; the configuration keeps what it was told.
THEOREM RequestsHold ==
  RequestsSpec => /\ [](ApprovalsHold /\ AnsweredByRecord /\ ConfigurationKept)
                  /\ ShownCanBeConfirmed /\ EditsHold /\ MovesHold
BY RequestsAreParts, HeldBesideKeys, ReadersAreAnswered, ConfigurationStays, ShownBesideKeys, BatchesOfEditsHold,
   ConfirmedMovesHold, PTL
===============================================================================
