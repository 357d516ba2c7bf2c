----------------------------- MODULE Idempotency -----------------------------
(***************************************************************************)
(* The idempotency store (internal/idempotency/store.go) under the wrapper *)
(* of the mutating tools (withCleanIdempotency in                          *)
(* internal/server/clean_idempotency.go), for one idempotency key: records *)
(* of different keys share no state.                                       *)
(*                                                                         *)
(* The record is a row of SQLite, which several processes may share; the   *)
(* flights and the tombstones are maps of one process, under s.mu.  Every  *)
(* database statement and every section under s.mu is an action of its     *)
(* own: the code holds no lock across them.                                *)
(***************************************************************************)
EXTENDS Integers, FiniteSets

CONSTANTS
  Procs,        \* processes that share the database
  Reqs,         \* tool calls that carry the key
  Fingerprints,       \* fingerprints of the business parameters
  Home,         \* the process that serves a call
  Fingerprint,        \* the fingerprint of a call
  None,
  Preflight,    \* the operation has a semantic preflight
  SlowClaims,   \* a lease may elapse, and a record expire, within the
                \* statements of one call
  MaxLapses,    \* bound: pending records that outlive PendingLease
  MaxExpiries,  \* bound: records deleted by retention after 24 h
  MaxCrashes,   \* bound: process crashes
  MaxFaults     \* bound: failing database calls, panics, waits given up

ASSUME ConstantsAssumption ==
  /\ IsFiniteSet(Reqs)
  /\ Home \in [Reqs -> Procs] /\ Fingerprint \in [Reqs -> Fingerprints]
  /\ None \notin Reqs /\ None \notin Fingerprints
  /\ Preflight \in BOOLEAN /\ SlowClaims \in BOOLEAN
  /\ MaxLapses \in Nat /\ MaxExpiries \in Nat /\ MaxCrashes \in Nat /\ MaxFaults \in Nat

Completed == {"succeeded", "failed"}
RecordStates == {"pending", "in_doubt"} \cup Completed

\* Where a call is.  The labels of Claim, those of an owner that has not
\* called the handler, and the rest.
InClaim == {"claim", "tomb", "read", "insert", "reread", "recheck", "takeover", "reget"}
Pre == {"setflight", "preflight", "handler", "abandon"}
Post == {"running", "complete", "finish", "mark", "markfinish", "markdefer"}
PC == {"idle", "release", "waiting", "waitread", "done"} \cup InClaim \cup Pre \cup Post

Answers == {"result", "replay", "conflict", "in_doubt", "in_progress", "rejected",
            "error", "lost"}

NoRecord == [state |-> "none", fp |-> None, stamp |-> 0, lapsed |-> FALSE, response |-> None]

Records == [state : RecordStates \cup {"none"}, fp : Fingerprints \cup {None}, stamp : Nat,
            lapsed : BOOLEAN, response : Reqs \cup {None}]

VARIABLES
  rec,        \* the row: state, fingerprint, updated_at, whether the lease is
              \* over, and the call whose response it stores
  flight,     \* Store.flights: the owner whose done channel is registered
  uncertain,  \* Store.uncertain: the fingerprint of the tombstone
  closed,     \* owners whose done channel is closed
  pc, seen, waitOn, status,      \* the calls: label, row read, flight, result
  answer, got,                   \* the answer and the call whose response it is
  clock,      \* updated_at values handed out
  started,    \* handler calls started
  lapses, expiries, crashes, faults

store == <<rec, clock>>
memory == <<flight, uncertain, closed>>
calls == <<pc, seen, waitOn, status, answer, got>>
bounds == <<lapses, expiries, crashes, faults>>
vars == <<store, memory, calls, started, bounds>>

TypeOK ==
  /\ rec \in Records /\ clock \in Nat /\ rec.stamp <= clock
  /\ flight \in [Procs -> Reqs \cup {None}]
  /\ uncertain \in [Procs -> Fingerprints \cup {None}]
  /\ closed \subseteq Reqs
  /\ pc \in [Reqs -> PC]
  /\ seen \in [Reqs -> Records]
  /\ waitOn \in [Reqs -> Reqs \cup {None}]
  /\ status \in [Reqs -> Completed]
  /\ answer \in [Reqs -> Answers \cup {None}]
  /\ got \in [Reqs -> Reqs \cup {None}]
  /\ started \in Nat /\ lapses \in Nat /\ expiries \in Nat
  /\ crashes \in Nat /\ faults \in Nat

Init ==
  /\ rec = NoRecord /\ clock = 0
  /\ flight = [p \in Procs |-> None]
  /\ uncertain = [p \in Procs |-> None]
  /\ closed = {}
  /\ pc = [r \in Reqs |-> "idle"]
  /\ seen = [r \in Reqs |-> NoRecord]
  /\ waitOn = [r \in Reqs |-> None]
  /\ status = [r \in Reqs |-> "succeeded"]
  /\ answer = [r \in Reqs |-> None]
  /\ got = [r \in Reqs |-> None]
  /\ started = 0
  /\ lapses = 0 /\ expiries = 0 /\ crashes = 0 /\ faults = 0

-----------------------------------------------------------------------------
\* Helpers

Goto(r, l) == pc' = [pc EXCEPT ![r] = l]

\* The call returns `a`; `q` is the call whose response it carries.
Answer(r, a, q) ==
  /\ Goto(r, "done")
  /\ answer' = [answer EXCEPT ![r] = a]
  /\ got' = [got EXCEPT ![r] = q]

\* The call goes on at label `l`.
GoOn(r, l) == Goto(r, l) /\ UNCHANGED <<answer, got>>

\* The rows an UPDATE or DELETE of call r matches: the key and its fingerprint.
Mine(r) == rec.state # "none" /\ rec.fp = Fingerprint[r]
MinePending(r) == Mine(r) /\ rec.state = "pending"

\* A write of the row sets updated_at to now.
Stamped(row) ==
  /\ clock' = clock + 1
  /\ rec' = [row EXCEPT !.stamp = clock + 1, !.lapsed = FALSE]

NewRow(r) == [NoRecord EXCEPT !.state = "pending", !.fp = Fingerprint[r]]

Fault == faults < MaxFaults /\ faults' = faults + 1

\* What Claim makes of a row that is not pending, or of another fingerprint.
Settled(r, row) ==
  \/ row.fp # Fingerprint[r] /\ Answer(r, "conflict", None)
  \/ row.fp = Fingerprint[r] /\ row.state \in Completed /\ Answer(r, "replay", row.response)
  \/ row.fp = Fingerprint[r] /\ row.state \notin Completed /\ Answer(r, "in_doubt", None)

IsSettled(r, row) == row.fp # Fingerprint[r] \/ row.state # "pending"

-----------------------------------------------------------------------------
\* Lookup, before anything is claimed: a finished or doubtful record answers.
\* An in-doubt record answers without a look at the fingerprint.
Lookup(r) ==
  /\ pc[r] = "idle"
  /\ \/ /\ rec.state \in Completed
        /\ Settled(r, rec)
     \/ rec.state = "in_doubt" /\ Answer(r, "in_doubt", None)
     \/ rec.state \in {"none", "pending"} /\ GoOn(r, "claim")
  /\ UNCHANGED <<store, memory, seen, waitOn, status, started, bounds>>

\* Mutant: Claim does not look at the tombstones.
CheckFlightOnly(r) ==
  LET f == flight[Home[r]] IN
  /\ pc[r] = "claim"
  /\ \/ f # None /\ Fingerprint[f] # Fingerprint[r] /\ Answer(r, "conflict", None) /\ UNCHANGED waitOn
     \/ /\ f # None /\ Fingerprint[f] = Fingerprint[r]
        /\ waitOn' = [waitOn EXCEPT ![r] = f]
        /\ GoOn(r, "waiting")
     \/ f = None /\ GoOn(r, "read") /\ UNCHANGED waitOn
  /\ UNCHANGED <<store, memory, seen, status, started, bounds>>

\* Claim, first section under s.mu: an active flight, then the tombstone.
CheckFlight(r) ==
  LET p == Home[r]
      f == flight[p]
      u == uncertain[p]
  IN
  /\ pc[r] = "claim"
  /\ \/ f # None /\ Fingerprint[f] # Fingerprint[r] /\ Answer(r, "conflict", None) /\ UNCHANGED waitOn
     \/ /\ f # None /\ Fingerprint[f] = Fingerprint[r]
        /\ waitOn' = [waitOn EXCEPT ![r] = f]
        /\ GoOn(r, "waiting")
     \/ /\ f = None /\ u \notin {None, Fingerprint[r]}
        /\ Answer(r, "conflict", None) /\ UNCHANGED waitOn
     \/ f = None /\ u = Fingerprint[r] /\ GoOn(r, "tomb") /\ UNCHANGED waitOn
     \/ f = None /\ u = None /\ GoOn(r, "read") /\ UNCHANGED waitOn
  /\ UNCHANGED <<store, memory, seen, status, started, bounds>>

\* Behind a tombstone the record is only read: it never gives ownership.
ReadTombstone(r) ==
  /\ pc[r] = "tomb"
  /\ \/ rec.state = "none" /\ Answer(r, "error", None)
     \/ rec.state # "none" /\ Settled(r, rec)
  /\ UNCHANGED <<store, memory, seen, waitOn, status, started, bounds>>

\* s.get at the start of Claim: whether the lease is over is decided here.
ReadRecord(r) ==
  /\ pc[r] = "read"
  /\ \/ rec.state = "none" /\ GoOn(r, "insert") /\ UNCHANGED seen
     \/ rec.state # "none" /\ IsSettled(r, rec) /\ Settled(r, rec) /\ UNCHANGED seen
     \/ /\ MinePending(r)
        /\ seen' = [seen EXCEPT ![r] = rec]
        /\ GoOn(r, "recheck")
  /\ UNCHANGED <<store, memory, waitOn, status, started, bounds>>

\* INSERT: the primary key lets one claimant through.
InsertRecord(r) ==
  /\ pc[r] = "insert"
  /\ IF rec.state = "none"
     THEN Stamped(NewRow(r)) /\ GoOn(r, "setflight")
     ELSE GoOn(r, "reread") /\ UNCHANGED store
  /\ UNCHANGED <<memory, seen, waitOn, status, started, bounds>>

\* The INSERT lost: read the winner's record.  It may be gone again.
RereadRecord(r) ==
  /\ pc[r] = "reread"
  /\ \/ rec.state = "none" /\ Answer(r, "error", None) /\ UNCHANGED seen
     \/ rec.state # "none" /\ IsSettled(r, rec) /\ Settled(r, rec) /\ UNCHANGED seen
     \/ /\ MinePending(r)
        /\ seen' = [seen EXCEPT ![r] = rec]
        /\ GoOn(r, "recheck")
  /\ UNCHANGED <<store, memory, waitOn, status, started, bounds>>

\* Mutant: the lease is not looked at.
RecheckEager(r) ==
  LET f == flight[Home[r]] IN
  /\ pc[r] = "recheck"
  /\ IF f # None /\ Fingerprint[f] = Fingerprint[r]
     THEN waitOn' = [waitOn EXCEPT ![r] = f] /\ GoOn(r, "waiting")
     ELSE GoOn(r, "takeover") /\ UNCHANGED waitOn
  /\ UNCHANGED <<store, memory, seen, status, started, bounds>>

\* A pending record: wait for a flight of this process, take over a record
\* whose lease is over, or report it.
RecheckFlight(r) ==
  LET f == flight[Home[r]]
      local == f # None /\ Fingerprint[f] = Fingerprint[r]
  IN
  /\ pc[r] = "recheck"
  /\ \/ /\ local
        /\ waitOn' = [waitOn EXCEPT ![r] = f]
        /\ GoOn(r, "waiting")
     \/ ~local /\ seen[r].lapsed /\ GoOn(r, "takeover") /\ UNCHANGED waitOn
     \/ ~local /\ ~seen[r].lapsed /\ Answer(r, "in_progress", None) /\ UNCHANGED waitOn
  /\ UNCHANGED <<store, memory, seen, status, started, bounds>>

\* Mutant: the UPDATE does not compare updated_at.
TakeOverBlind(r) ==
  /\ pc[r] = "takeover"
  /\ IF MinePending(r)
     THEN Stamped(rec) /\ GoOn(r, "setflight")
     ELSE GoOn(r, "reget") /\ UNCHANGED store
  /\ UNCHANGED <<memory, seen, waitOn, status, started, bounds>>

\* UPDATE ... WHERE state = pending AND updated_at = <the value read>.
TakeOver(r) ==
  /\ pc[r] = "takeover"
  /\ IF MinePending(r) /\ rec.stamp = seen[r].stamp
     THEN Stamped(rec) /\ GoOn(r, "setflight")
     ELSE GoOn(r, "reget") /\ UNCHANGED store
  /\ UNCHANGED <<memory, seen, waitOn, status, started, bounds>>

\* The update matched nothing: report what is there now.
ReadLoser(r) ==
  /\ pc[r] = "reget"
  /\ \/ rec.state = "none" /\ Answer(r, "error", None)
     \/ rec.state # "none" /\ IsSettled(r, rec) /\ Settled(r, rec)
     \/ MinePending(r) /\ Answer(r, "in_progress", None)
  /\ UNCHANGED <<store, memory, seen, waitOn, status, started, bounds>>

\* setFlight: the entry of the map is replaced, whatever it held.
SetFlight(r) ==
  /\ pc[r] = "setflight"
  /\ flight' = [flight EXCEPT ![Home[r]] = r]
  /\ GoOn(r, IF Preflight THEN "preflight" ELSE "handler")
  /\ UNCHANGED <<store, uncertain, closed, seen, waitOn, status, started, bounds>>

-----------------------------------------------------------------------------
\* The owner.  The preflight accepts the call, or rejects it.
RunPreflight(r) ==
  /\ pc[r] = "preflight"
  /\ GoOn(r, "handler") \/ GoOn(r, "abandon")
  /\ UNCHANGED <<store, memory, seen, waitOn, status, started, bounds>>

\* Abandon: DELETE the pending row; only a deletion releases the flight.
AbandonRecord(r) ==
  /\ pc[r] = "abandon"
  /\ \/ /\ MinePending(r)
        /\ rec' = NoRecord
        /\ GoOn(r, "release")
        /\ UNCHANGED faults
     \/ /\ ~MinePending(r)
        /\ Answer(r, "rejected", None)
        /\ UNCHANGED <<rec, faults>>
     \/ /\ Fault
        /\ Answer(r, "rejected", None)
        /\ UNCHANGED rec
  /\ UNCHANGED <<clock, memory, seen, waitOn, status, started, lapses, expiries, crashes>>

\* finishFlight closes the channel the map holds, whoever set it.
FinishFlight(p) ==
  /\ flight' = [flight EXCEPT ![p] = None]
  /\ closed' = closed \cup ({flight[p]} \ {None})
  /\ UNCHANGED uncertain

\* Mutant: the deletion of the row is taken for the end of the flight.
AnswerAbandoned(r) ==
  /\ pc[r] = "release"
  /\ Answer(r, "rejected", None)
  /\ UNCHANGED <<store, memory, seen, waitOn, status, started, bounds>>

ReleaseAbandoned(r) ==
  /\ pc[r] = "release"
  /\ FinishFlight(Home[r])
  /\ Answer(r, "rejected", None)
  /\ UNCHANGED <<store, seen, waitOn, status, started, bounds>>

\* The handler is called: from here on its effect may have happened.
StartHandler(r) ==
  /\ pc[r] = "handler"
  /\ started' = started + 1
  /\ GoOn(r, "running")
  /\ UNCHANGED <<store, memory, seen, waitOn, status, bounds>>

\* Mutant: a handler without a usable result abandons the key, so that a retry may try.
AbandonFailed(r) ==
  /\ pc[r] = "running"
  /\ \/ \E s \in Completed : status' = [status EXCEPT ![r] = s] /\ GoOn(r, "complete")
     \/ UNCHANGED status /\ GoOn(r, "abandon")
  /\ UNCHANGED <<store, memory, seen, waitOn, started, bounds>>

\* It returns a result, whose status decides the state, or nothing usable.
HandlerReturns(r) ==
  /\ pc[r] = "running"
  /\ \/ \E s \in Completed : status' = [status EXCEPT ![r] = s] /\ GoOn(r, "complete")
     \/ UNCHANGED status /\ GoOn(r, "mark")
  /\ UNCHANGED <<store, memory, seen, waitOn, started, bounds>>

\* A panic of the preflight or the handler unwinds withCleanIdempotency, which
\* defers nothing: callToolSafely answers the call, row and flight stay.
CallPanics(r) ==
  /\ pc[r] \in {"preflight", "running"}
  /\ Fault
  /\ Answer(r, "error", None)
  /\ UNCHANGED <<store, memory, seen, waitOn, status, started, lapses, expiries, crashes>>

\* Complete: UPDATE by key and fingerprint, whatever state the row is in.
CompleteRecord(r) ==
  /\ pc[r] = "complete"
  /\ \/ /\ Mine(r)
        /\ Stamped([rec EXCEPT !.state = status[r], !.response = r])
        /\ GoOn(r, "finish")
        /\ UNCHANGED faults
     \/ ~Mine(r) /\ GoOn(r, "mark") /\ UNCHANGED <<store, faults>>
     \/ Fault /\ GoOn(r, "mark") /\ UNCHANGED store
  /\ UNCHANGED <<memory, seen, waitOn, status, started, lapses, expiries, crashes>>

ReleaseCompleted(r) ==
  /\ pc[r] = "finish"
  /\ FinishFlight(Home[r])
  /\ Answer(r, "result", r)
  /\ UNCHANGED <<store, seen, waitOn, status, started, bounds>>

\* MarkInDoubt: UPDATE by key and fingerprint, whatever state the row is in.
MarkInDoubt(r) ==
  /\ pc[r] = "mark"
  /\ \/ /\ Mine(r)
        /\ Stamped([rec EXCEPT !.state = "in_doubt"])
        /\ GoOn(r, "markfinish")
        /\ UNCHANGED faults
     \/ ~Mine(r) /\ GoOn(r, "markdefer") /\ UNCHANGED <<store, faults>>
     \/ Fault /\ GoOn(r, "markdefer") /\ UNCHANGED store
  /\ UNCHANGED <<memory, seen, waitOn, status, started, lapses, expiries, crashes>>

ReleaseMarked(r) ==
  /\ pc[r] = "markfinish"
  /\ FinishFlight(Home[r])
  /\ GoOn(r, "markdefer")
  /\ UNCHANGED <<store, seen, waitOn, status, started, bounds>>

\* Mutant: the deferred function leaves the flight to finishFlight.
LeaveFlight(r) ==
  /\ pc[r] = "markdefer"
  /\ Answer(r, "in_doubt", None)
  /\ UNCHANGED <<store, memory, seen, waitOn, status, started, bounds>>

\* The deferred function of MarkInDoubt: a flight still registered is
\* released and leaves a tombstone.
LeaveTombstone(r) ==
  LET p == Home[r]
      f == flight[p]
  IN
  /\ pc[r] = "markdefer"
  /\ IF f # None /\ Fingerprint[f] = Fingerprint[r]
     THEN /\ uncertain' = [uncertain EXCEPT ![p] = Fingerprint[r]]
          /\ flight' = [flight EXCEPT ![p] = None]
          /\ closed' = closed \cup {f}
     ELSE UNCHANGED memory
  /\ Answer(r, "in_doubt", None)
  /\ UNCHANGED <<store, seen, waitOn, status, started, bounds>>

-----------------------------------------------------------------------------
\* Wait: the done channel is closed, or the caller gives up.
WakeWaiter(r) ==
  /\ pc[r] = "waiting" /\ waitOn[r] \in closed
  /\ GoOn(r, "waitread")
  /\ UNCHANGED <<store, memory, seen, waitOn, status, started, bounds>>

GiveUp(r) ==
  /\ pc[r] = "waiting" /\ Fault
  /\ Answer(r, "in_progress", None)
  /\ UNCHANGED <<store, memory, seen, waitOn, status, started, lapses, expiries, crashes>>

\* The waiter returns what the row holds now, without a look at its
\* fingerprint.
ReadAfterWait(r) ==
  /\ pc[r] = "waitread"
  /\ IF rec.state \in Completed
     THEN Answer(r, "replay", rec.response)
     ELSE Answer(r, "in_progress", None)
  /\ UNCHANGED <<store, memory, seen, waitOn, status, started, bounds>>

\* A failing read, INSERT or UPDATE of Lookup, Claim or Wait ends the call.
FailClaim(r) ==
  /\ pc[r] \in {"idle", "tomb", "read", "insert", "reread", "takeover", "reget", "waitread"}
  /\ Fault
  /\ Answer(r, IF pc[r] = "waitread" THEN "in_progress" ELSE "error", None)
  /\ UNCHANGED <<store, memory, seen, waitOn, status, started, lapses, expiries, crashes>>

-----------------------------------------------------------------------------
\* Between two statements of a call milliseconds pass, while preflights,
\* handlers and waits take any time.
Brief == InClaim \cup Post \cup {"setflight", "abandon", "release", "waitread"}
TimePasses == SlowClaims \/ \A r \in Reqs : pc[r] \notin Brief \ {"running"}

\* PendingLease (30 s) passes since the last write of a pending record.
LeaseLapse ==
  /\ rec.state = "pending" /\ ~rec.lapsed
  /\ TimePasses
  /\ lapses < MaxLapses
  /\ rec' = [rec EXCEPT !.lapsed = TRUE]
  /\ lapses' = lapses + 1
  /\ UNCHANGED <<clock, memory, calls, started, expiries, crashes, faults>>

\* Retention deletes a row by its expires_at, in any state.
Expire ==
  /\ rec.state # "none"
  /\ TimePasses
  /\ expiries < MaxExpiries
  /\ rec' = NoRecord
  /\ expiries' = expiries + 1
  /\ UNCHANGED <<clock, memory, calls, started, lapses, crashes, faults>>

\* A process dies: its calls, flights and tombstones are gone.
Crash(p) ==
  LET dead == {r \in Reqs : Home[r] = p /\ pc[r] \notin {"idle", "done"}} IN
  /\ crashes < MaxCrashes
  /\ crashes' = crashes + 1
  /\ flight' = [flight EXCEPT ![p] = None]
  /\ uncertain' = [uncertain EXCEPT ![p] = None]
  /\ pc' = [r \in Reqs |-> IF r \in dead THEN "done" ELSE pc[r]]
  /\ answer' = [r \in Reqs |-> IF r \in dead THEN "lost" ELSE answer[r]]
  /\ UNCHANGED <<store, closed, seen, waitOn, status, got, started, lapses, expiries, faults>>

ClaimStep(r) ==
  \/ Lookup(r) \/ CheckFlight(r) \/ ReadTombstone(r) \/ ReadRecord(r)
  \/ InsertRecord(r) \/ RereadRecord(r) \/ RecheckFlight(r) \/ TakeOver(r)
  \/ ReadLoser(r) \/ SetFlight(r)

OwnerStep(r) ==
  \/ RunPreflight(r) \/ AbandonRecord(r) \/ ReleaseAbandoned(r)
  \/ StartHandler(r) \/ HandlerReturns(r) \/ CompleteRecord(r)
  \/ ReleaseCompleted(r) \/ MarkInDoubt(r) \/ ReleaseMarked(r) \/ LeaveTombstone(r)

WaiterStep(r) == WakeWaiter(r) \/ ReadAfterWait(r)

CallStep(r) == ClaimStep(r) \/ OwnerStep(r) \/ WaiterStep(r)

Next ==
  \/ \E r \in Reqs : CallStep(r) \/ GiveUp(r) \/ FailClaim(r) \/ CallPanics(r)
  \/ LeaseLapse
  \/ Expire
  \/ \E p \in Procs : Crash(p)

\* A call is a goroutine: the Go scheduler runs it as long as it can go on.
Fairness == \A r \in Reqs : WF_vars(CallStep(r))

Spec == Init /\ [][Next]_vars

-----------------------------------------------------------------------------
\* The inductive invariant behind EffectsBounded

Bit(b) == IF b THEN 1 ELSE 0

\* Owners that may still call the handler.
PreOwners == {r \in Reqs : pc[r] \in Pre}

\* The lease a claimant saw elapsed is still the one of the row, unless the
\* row has been written since.
SeenInv ==
  \A r \in Reqs :
    /\ seen[r].stamp <= clock
    /\ pc[r] = "takeover" => seen[r].lapsed
    /\ seen[r].lapsed /\ seen[r].stamp = rec.stamp /\ rec.state = "pending" => rec.lapsed

\* Each handler call, made or still to come, has used up the row, an elapsed
\* lease or a deletion by retention.
Budget ==
  started + Cardinality(PreOwners) + Bit(rec.lapsed)
    <= lapses + expiries + Bit(rec.state # "none")

IInv == TypeOK /\ SeenInv /\ Budget

\* Calls that own the record: their effect is to come, or to be recorded.
Owners == {r \in Reqs : pc[r] \in Pre \cup {"running", "complete", "mark"}}

\* No lease has elapsed and no row has expired so far.
FirstLease == lapses = 0 /\ expiries = 0

\* There is one owner at most, it owns a pending row, and a completed row is
\* the source of every response.
OwnerAlone ==
  /\ \A q, r \in Owners : q = r
  /\ \A r \in Owners : MinePending(r)
  /\ ~rec.lapsed /\ \A r \in Reqs : ~seen[r].lapsed
  /\ \A r \in Reqs : got[r] # None => rec.state \in Completed /\ rec.response = got[r]
  /\ \A r \in Reqs : pc[r] = "finish" => rec.state \in Completed /\ rec.response = r

-----------------------------------------------------------------------------
\* Properties

\* Every handler call beyond the first is paid for: by a lease that elapsed
\* on a pending record, or by a record that retention deleted.  Neither races
\* of claimants, nor crashes, nor failing database calls, nor an abandoned
\* claim launch one for free.
EffectsBounded == started <= 1 + lapses + expiries

\* As long as no lease elapses and no row expires, one call at most owns the
\* key, across processes, crashes and failing statements (Claim, Complete).
SoleOwner == FirstLease => OwnerAlone

\* So long, all calls that return a completed response return the same one.
AnswersAgree ==
  FirstLease => \A q, r \in Reqs : got[q] # None /\ got[r] # None => got[q] = got[r]

\* So long, a completed record stays as it is, although Complete and
\* MarkInDoubt do not look at the state they overwrite.
CompletedFinal == [][FirstLease' /\ rec.state \in Completed => rec' = rec]_vars

\* A process that left a tombstone never runs the handler again.
TombstoneHolds ==
  \A r \in Reqs :
    pc[r] = "handler" /\ pc'[r] = "running" => uncertain[Home[r]] = None

\* A response is only given to a call with the parameters it answers.
ReplayMatchesRequest == \A r \in Reqs : got[r] # None => Fingerprint[got[r]] = Fingerprint[r]

\* As long as no lease elapses and no row expires, the key has one owner and one
\* answer.
OneOwnerOneAnswer == SoleOwner /\ AnswersAgree

\* What a process answers under the key is for the parameters it was asked with,
\* and never the result of a second run after one it knows to be in doubt.
KeyedAnswersHold == [][ReplayMatchesRequest' /\ TombstoneHolds]_vars
==============================================================================
