------------------------------ MODULE MCRequests ------------------------------
(***************************************************************************)
(* Instances for TLC of the services that answer requests: commands that   *)
(* need a confirmation, with a key and without, batches of edits, moves    *)
(* out of the workspace, and of those who change the configuration file.   *)
(* They share no state, so a behaviour is about one of them, its subject,  *)
(* and the others stay as they are.                                        *)
(***************************************************************************)
EXTENDS ConfirmedExecute, EditApply, MoveOut, Home, TLC

CONSTANTS p1, p2, r1, r2, r3, r4, r5, q1, q2, c1, c2, f1, e1, e2, e3, w1, w2

VARIABLE subject

Subjects == {"approvals", "keyed", "troubled", "edit", "move", "home"}

\* Five calls without the key, in two processes, one of them of another command;
\* or a plain and a confirmed one and two confirmed ones with the key, with one
\* trouble, or with two and without the plain one.
TwoProcs == [r \in Reqs |-> IF r \in {r2, r4} THEN p2 ELSE p1]
OneDiffers == [r \in Reqs |-> IF r = r5 THEN c2 ELSE c1]
SameParams == [r \in Reqs |-> f1]
CallsOf(s) == CASE s = "approvals" -> {r1, r2, r3, r4, r5}
                [] s = "keyed" -> {r1, r3, q1, q2}
                [] s = "troubled" -> {r3, q1, q2}
                [] s \in {"edit", "move", "home"} -> {}

\* A batch of an update and a rename, tried twice in one process and once in
\* another; a file and a directory to move out, on Linux.
EditHomes == [c \in EditCalls |-> IF c = e3 THEN p2 ELSE p1]
UpdateThenRename == <<"update", "rename">>
FileAndDirectory == <<"file", "directory">>
LinuxWays == <<"command", "command", "rename">>

\* At most two troubles: a crash, a failing statement, an elapsed TTL or lease, a
\* deletion by retention; for edits and moves a write by others too.  Calls that are alike
\* start in one order.
FewTroubles ==
  /\ crashes' + faults' + lapses' + expiries' + Cardinality(old') <= IF subject = "keyed" THEN 1 ELSE 2
  /\ crashes' # crashes => <<cache', pc', way'>> # <<cache, pc, way>>
  /\ way'[q1] = "new" => way'[q2] \in {"new", "dead"}
FewEditTroubles ==
  /\ editForeign' + editFaults' + editCrashes' <= 2
  /\ editAt'[e2].step = "idle" \/ editAt'[e1].step # "idle"
FewMoveTroubles ==
  /\ moveTouches' + moveFaults' + moveCrashes' <= 2
  /\ moveAt'["prepare2"].step = "idle" \/ moveAt'["prepare1"].step # "idle"
  /\ moveAt'["submit2"].step = "idle" \/ moveAt'["submit1"].step # "idle"

\* One changes the configuration file at a time, those who do are numbered; the
\* directory of one workspace stays.
OneEditor ==
  /\ ~disturbed' /\ volume'[w2] = "there"
  /\ \A a, b \in Editors : a < b /\ editor'[b].job # NoJob => editor'[a].job # NoJob

RequestsInit ==
  /\ subject \in Subjects
  /\ Init /\ Key!Init /\ late = {}
  /\ way = [r \in Reqs |-> IF r \in CallsOf(subject) THEN IF subject = "approvals" THEN "direct" ELSE "new" ELSE "dead"]
  /\ EditInit /\ MoveInit /\ HomeInit

RequestsNext ==
  /\ \/ subject \in {"approvals", "keyed", "troubled"} /\ CNext /\ FewTroubles /\ UNCHANGED <<editVars, moveVars, homeVars>>
     \/ subject = "edit" /\ EditNext /\ FewEditTroubles /\ UNCHANGED <<cvars, moveVars, homeVars>>
     \/ subject = "move" /\ MoveNext /\ FewMoveTroubles /\ UNCHANGED <<cvars, editVars, homeVars>>
     \/ subject = "home" /\ HomeNext /\ OneEditor /\ UNCHANGED <<cvars, editVars, moveVars>>
  /\ UNCHANGED subject

RequestsSpec == RequestsInit /\ [][RequestsNext]_<<cvars, editVars, moveVars, homeVars, subject>>

\* The type invariant of the subject.
RequestsTypeOK ==
  CASE subject \in {"approvals", "keyed", "troubled"} -> TypeOK
    [] subject = "edit" -> EditTypeOK
    [] subject = "move" -> MoveTypeOK
    [] subject = "home" -> HomeTypeOK
==============================================================================
