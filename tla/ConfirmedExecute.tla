--------------------------- MODULE ConfirmedExecute ---------------------------
(***************************************************************************)
(* execute(action="run") of a command that needs confirmation, with an     *)
(* idempotency key: toolExecute and cleanExecuteReadyForIdempotency in     *)
(* internal/server/tools_execute.go.  It composes the approvals (Approval) *)
(* and the record of the key (Idempotency):                                *)
(*                                                                         *)
(*   a call is first judged "ready" by a look at the approvals and at the  *)
(*   record; a ready call runs the command under the record, which stores  *)
(*   its answer for later calls; any other call runs it directly.          *)
(*                                                                         *)
(* The two looks, the claim of the key and the command's own look at the   *)
(* approvals are separate: other calls act in between.                     *)
(***************************************************************************)
EXTENDS Approval

CONSTANTS
  Keyed,         \* calls that carry the idempotency key
  Fingerprints,
  Fingerprint,   \* of the command of a call
  MaxLapses, MaxExpiries

VARIABLES
  way,           \* how a call goes on: see Ways
  late,          \* history: calls that began when the key had a record
  rec, clock, flight, uncertain, closed,              \* Idempotency
  kpc, seen, waitOn, status, kanswer, got,
  started, lapses, expiries

\* Judged not at all, by the approvals only, ready, not ready.
Ways == {"new", "look", "keyed", "direct", "dead"}

Key == INSTANCE Idempotency WITH
         pc <- kpc, answer <- kanswer, Preflight <- FALSE, SlowClaims <- FALSE

approvals == <<row, old, cache, owns, calls, used>>
record == <<rec, clock, flight, uncertain, closed, kpc, seen, waitOn, status,
            kanswer, got, started, lapses, expiries>>
cvars == <<approvals, record, way, late, bounds>>

CInit == Init /\ Key!Init /\ way = [r \in Reqs |-> "new"] /\ late = {}

Take(r, w) == way' = [way EXCEPT ![r] = w]

-----------------------------------------------------------------------------
\* cleanExecuteReadyForIdempotency: without key or user_confirmed, not ready.
NotReady(r) ==
  /\ way[r] = "new" /\ r \notin Keyed \cap Confirmed
  /\ Take(r, "direct")
  /\ UNCHANGED <<approvals, record, late, bounds>>

\* A pending approval of the command makes the call ready; a failing query
\* finds none.
LookAtApprovals(r) ==
  /\ way[r] = "new" /\ r \in Keyed \cap Confirmed /\ Free(Home[r])
  /\ late' = IF rec.state = "none" THEN late ELSE late \cup {r}
  /\ \/ /\ row' = PrunedRow
        /\ cache' = [cache EXCEPT ![Home[r]] = PrunedCache(Home[r])]
        /\ Take(r, IF Live(r) # {} THEN "keyed" ELSE "look")
        /\ UNCHANGED faults
     \/ /\ Fault
        /\ Take(r, "look")
        /\ UNCHANGED <<row, cache>>
  /\ UNCHANGED <<old, owns, calls, used, record, crashes>>

\* Bug: the approvals alone decide.
IgnoreRecord(r) ==
  /\ way[r] = "look"
  /\ Take(r, "direct")
  /\ UNCHANGED <<approvals, record, late, bounds>>

\* So does a record of the key.
LookAtRecord(r) ==
  /\ way[r] = "look"
  /\ \/ /\ Take(r, IF rec.state # "none" THEN "keyed" ELSE "direct")
        /\ UNCHANGED faults
     \/ Fault /\ Take(r, "direct")
  /\ UNCHANGED <<approvals, record, late, crashes>>

-----------------------------------------------------------------------------
\* withCleanIdempotency of a ready call, up to and after toolCommandExecute.
KeyStep(r) ==
  /\ way[r] = "keyed"
  /\ Key!CallStep(r) \/ Key!GiveUp(r) \/ Key!FailClaim(r)
  /\ kpc[r] # "running"
  /\ UNCHANGED <<approvals, way, late>>

\* toolCommandExecute, directly or as the handler of the key's owner.
CommandStep(r) ==
  /\ way[r] = "direct" \/ kpc[r] = "running"
  /\ CallStep(r)
  /\ UNCHANGED <<record, way, late>>

\* The state the record gets for an answer of the command (cleanResultState).
StateOf(what) ==
  CASE what \in {"state_error", "store_error"} -> {"failed"}
    [] what = "waiting" -> {"succeeded"}
    [] OTHER -> {"succeeded", "failed"}

\* The handler returns.
CommandReturns(r) ==
  /\ kpc[r] = "running" /\ pc[r] = "done"
  /\ Key!HandlerReturns(r)
  /\ kpc'[r] = "complete" => status'[r] \in StateOf(answer[r])
  /\ UNCHANGED <<approvals, way, late>>

-----------------------------------------------------------------------------
\* The process dies.
Die(p) ==
  /\ Crash(p) /\ Key!Crash(p)
  /\ way' = [r \in Reqs |-> IF Home[r] = p /\ way[r] # "new" THEN "dead" ELSE way[r]]
  /\ UNCHANGED late

CNext ==
  \/ \E r \in Reqs :
       \/ NotReady(r) \/ LookAtApprovals(r) \/ LookAtRecord(r)
       \/ KeyStep(r) \/ CommandStep(r) \/ CommandReturns(r)
       \/ (Age(r) \/ DeleteExpired(r)) /\ UNCHANGED <<record, way, late>>
  \/ (Key!LeaseLapse \/ Key!Expire) /\ UNCHANGED <<approvals, way, late>>
  \/ \E p \in Procs : Die(p)

CSpec == CInit /\ [][CNext]_cvars

-----------------------------------------------------------------------------
\* Properties

\* A confirmed retry that begins when the key has a record is answered from it
\* and never asked to confirm again, although its approval is consumed
\* (tools_execute.go:100): as long as no lease elapses, no row expires and no
\* query fails, it does not reach the command.
AnsweredByRecord ==
  faults = 0 /\ Key!FirstLease => \A r \in late : pc[r] = "idle"

\* A request for confirmation is never stored as the result of the key
\* (tools_execute.go:41).
ConfirmationNotReplayed ==
  \A r \in Reqs : kanswer[r] = "replay" => answer[got[r]] # "waiting"
==============================================================================
