---------------------------- MODULE MCIdempotency ----------------------------
(***************************************************************************)
(* The instance of Idempotency in which a replay may answer a call with    *)
(* other parameters: three calls with one key in one process, the third    *)
(* with another fingerprint.  MCProcesses and MCServing have the others.   *)
(***************************************************************************)
EXTENDS Idempotency

CONSTANTS p1, r1, r2, r3, f1, f2

OneProc == [r \in Reqs |-> p1]
OneDiffers == [r \in Reqs |-> IF r = r3 THEN f2 ELSE f1]
==============================================================================
