----------------------------- MODULE KeyPromise ------------------------------
(***************************************************************************)
(* The idempotency store keeps what a key promises (OnceKey).  The key is  *)
(* the row, as every process reads it; flights, tombstones and what a call *)
(* has read are how the promise is kept and no part of it.                 *)
(***************************************************************************)
EXTENDS Idempotency

Outcome ==
  CASE rec.state = "none" -> "free"
    [] rec.state = "pending" -> "reserved"
    [] rec.state = "in_doubt" -> "in_doubt"
    [] rec.state \in Completed -> rec.response

Promise == INSTANCE OnceKey WITH
  Callers <- Reqs, Nobody <- None,
  outcome <- Outcome, runs <- started, told <- got, breaks <- lapses + expiries

\* The store under withCleanIdempotency keeps the promise of a key: among any
\* processes, crashes and failing statements, the handler runs once and only under
\* a reservation, Abandon frees no key that was run, what Complete or MarkInDoubt has
\* recorded is final, and a replay is what is recorded; a lease that elapses and a row
\* that expires cost one more run each.
PromiseKept == Promise!Spec
==============================================================================
