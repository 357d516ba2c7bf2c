-------------------------- MODULE MCConfirmedExecute --------------------------
(* Instances of ConfirmedExecute for TLC: one process, one command, one key. *)
EXTENDS ConfirmedExecute, TLC

CONSTANTS p1, r1, r2, r3, r4, c1, f1

OneProc == [r \in Reqs |-> p1]
SameCommand == [r \in Reqs |-> c1]
SameParams == [r \in Reqs |-> f1]
==============================================================================
