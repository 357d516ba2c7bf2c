-------------------------- MODULE IdempotencyProofs --------------------------
(* Proofs about the idempotency store, for every value of the constants. *)
EXTENDS KeyPromise, FiniteSetTheorems, TLAPS

-----------------------------------------------------------------------------
(* The owners that may still call the handler. *)

\* They are finitely many.
LEMMA PreFinite == IsFiniteSet(PreOwners) /\ Cardinality(PreOwners) \in Nat
<1>1. PreOwners \subseteq Reqs
  BY DEF PreOwners
<1> QED
  BY <1>1, ConstantsAssumption, FS_Subset, FS_CardinalityType

\* No owner more: the count does not grow.
LEMMA PreShrinks ==
  ASSUME PreOwners' \subseteq PreOwners
  PROVE  /\ Cardinality(PreOwners') \in Nat
         /\ Cardinality(PreOwners') <= Cardinality(PreOwners)
BY PreFinite, FS_Subset, FS_CardinalityType

\* One call becomes an owner.
LEMMA PreJoins ==
  ASSUME NEW r \in Reqs, pc[r] \notin Pre, PreOwners' = PreOwners \cup {r}
  PROVE  Cardinality(PreOwners') = Cardinality(PreOwners) + 1
<1>1. r \notin PreOwners
  BY DEF PreOwners
<1> QED
  BY <1>1, PreFinite, FS_AddElement

\* One owner leaves.
LEMMA PreLeaves ==
  ASSUME NEW r \in Reqs, pc[r] \in Pre, PreOwners' = PreOwners \ {r}
  PROVE  Cardinality(PreOwners') = Cardinality(PreOwners) - 1
<1>1. r \in PreOwners
  BY DEF PreOwners
<1> QED
  BY <1>1, PreFinite, FS_RemoveElement

\* A call that moves to a label moves in or out of the set, nobody else.
LEMMA PreMoves ==
  ASSUME TypeOK, NEW r \in Reqs, NEW l, Goto(r, l)
  PROVE  PreOwners' = IF l \in Pre THEN PreOwners \cup {r} ELSE PreOwners \ {r}
<1>1. \A q \in Reqs : pc'[q] = IF q = r THEN l ELSE pc[q]
  BY DEF TypeOK, Goto
<1> QED
  BY <1>1 DEF PreOwners

-----------------------------------------------------------------------------
(* Type correctness. *)

\* A new database and new processes are well typed.
LEMMA InitType == Init => TypeOK
BY DEF Init, TypeOK, NoRecord, Records, PC, Completed

\* An answer keeps the types of the calls.
LEMMA AnswerType ==
  ASSUME TypeOK, NEW r \in Reqs, NEW a \in Answers, NEW q \in Reqs \cup {None},
         Answer(r, a, q)
  PROVE  /\ pc' \in [Reqs -> PC]
         /\ answer' \in [Reqs -> Answers \cup {None}]
         /\ got' \in [Reqs -> Reqs \cup {None}]
BY DEF TypeOK, Answer, Goto, PC

\* So does going on.
LEMMA GoOnType ==
  ASSUME TypeOK, NEW r \in Reqs, NEW l \in PC, GoOn(r, l)
  PROVE  /\ pc' \in [Reqs -> PC]
         /\ answer' \in [Reqs -> Answers \cup {None}]
         /\ got' \in [Reqs -> Reqs \cup {None}]
BY DEF TypeOK, GoOn, Goto

\* Settled answers with the response of a row.
LEMMA SettledType ==
  ASSUME TypeOK, NEW r \in Reqs, Settled(r, rec)
  PROVE  /\ pc' \in [Reqs -> PC] /\ Goto(r, "done")
         /\ answer' \in [Reqs -> Answers \cup {None}]
         /\ got' \in [Reqs -> Reqs \cup {None}]
<1>1. rec.response \in Reqs \cup {None}
  BY DEF TypeOK, Records
<1>2. \E a \in Answers, q \in Reqs \cup {None} : Answer(r, a, q)
  BY <1>1 DEF Settled, Answers
<1>3. PICK a \in Answers, q \in Reqs \cup {None} : Answer(r, a, q)
  BY <1>2
<1> QED
  BY <1>3, AnswerType DEF Answer

\* A stamped row is newer than every row read so far.
LEMMA StampedType ==
  ASSUME TypeOK, NEW row \in Records, Stamped(row)
  PROVE  /\ rec' \in Records /\ clock' = clock + 1 /\ clock' \in Nat
         /\ rec'.stamp = clock + 1 /\ rec'.lapsed = FALSE /\ rec'.state = row.state
<1>1. clock' = clock + 1 /\ clock' \in Nat
  BY DEF TypeOK, Stamped
<1>2. rec' = [state |-> row.state, fp |-> row.fp, stamp |-> clock + 1,
              lapsed |-> FALSE, response |-> row.response]
  BY DEF Records, Stamped
<1> QED
  BY <1>1, <1>2 DEF Records

\* A step that stamps a row, or leaves the store alone, keeps its type.
LEMMA StoreType ==
  ASSUME TypeOK, NEW row \in Records, Stamped(row) \/ UNCHANGED store
  PROVE  rec' \in Records /\ clock' \in Nat /\ rec'.stamp <= clock'
<1>0. clock \in Nat
  BY DEF TypeOK
<1>1. CASE Stamped(row)
  <2>1. rec' \in Records /\ clock' \in Nat /\ rec'.stamp = clock'
    BY <1>1, StampedType
  <2> QED
    BY <2>1
<1>2. CASE UNCHANGED store
  <2>1. rec' = rec /\ clock' = clock
    BY <1>2 DEF store
  <2> QED
    BY <2>1 DEF TypeOK
<1> QED
  BY <1>1, <1>2

\* A new claim is a pending row.
LEMMA NewRowType ==
  ASSUME NEW r \in Reqs
  PROVE  NewRow(r) \in Records /\ NewRow(r).state = "pending"
BY ConstantsAssumption DEF NewRow, NoRecord, Records, RecordStates

\* The steps of Claim keep the types.
LEMMA ClaimType ==
  ASSUME TypeOK, NEW r \in Reqs, ClaimStep(r)
  PROVE  TypeOK'
<1> DEFINE CallsOK == /\ pc' \in [Reqs -> PC]
                      /\ answer' \in [Reqs -> Answers \cup {None}]
                      /\ got' \in [Reqs -> Reqs \cup {None}]
<1>a. \A a \in Answers : Answer(r, a, None) => CallsOK
  BY AnswerType
<1>g. \A l \in PC : GoOn(r, l) => CallsOK
  BY GoOnType
<1>s. Settled(r, rec) => CallsOK
  BY SettledType
<1>p. Home[r] \in Procs /\ flight[Home[r]] \in Reqs \cup {None}
  BY ConstantsAssumption DEF TypeOK
<1>1. CASE Lookup(r)
  <2>1. CallsOK
    BY <1>1, <1>a, <1>g, <1>s DEF Lookup, PC, InClaim, Answers
  <2> QED
    BY <1>1, <2>1 DEF Lookup, TypeOK, store, memory, bounds
<1>2. CASE CheckFlight(r)
  <2>1. CallsOK
    BY <1>2, <1>a, <1>g DEF CheckFlight, PC, InClaim, Answers
  <2>2. waitOn' \in [Reqs -> Reqs \cup {None}]
    BY <1>2, <1>p DEF CheckFlight, TypeOK
  <2> QED
    BY <1>2, <2>1, <2>2 DEF CheckFlight, TypeOK, store, memory, bounds
<1>3. CASE ReadTombstone(r) \/ ReadLoser(r)
  <2>1. CallsOK
    BY <1>3, <1>a, <1>s DEF ReadTombstone, ReadLoser, Answers
  <2> QED
    BY <1>3, <2>1 DEF ReadTombstone, ReadLoser, TypeOK, store, memory, bounds
<1>4. CASE ReadRecord(r) \/ RereadRecord(r)
  <2>1. CallsOK
    BY <1>4, <1>a, <1>g, <1>s DEF ReadRecord, RereadRecord, PC, InClaim, Answers
  <2>2. seen' \in [Reqs -> Records]
    BY <1>4 DEF ReadRecord, RereadRecord, TypeOK
  <2> QED
    BY <1>4, <2>1, <2>2 DEF ReadRecord, RereadRecord, TypeOK, store, memory, bounds
<1>5. CASE InsertRecord(r)
  <2>1. CallsOK
    BY <1>5, <1>g DEF InsertRecord, PC, InClaim, Pre
  <2>2. rec' \in Records /\ clock' \in Nat /\ rec'.stamp <= clock'
    BY <1>5, NewRowType, StoreType DEF InsertRecord
  <2> QED
    BY <1>5, <2>1, <2>2 DEF InsertRecord, TypeOK, memory, bounds
<1>6. CASE RecheckFlight(r)
  <2>1. CallsOK
    BY <1>6, <1>a, <1>g DEF RecheckFlight, PC, InClaim, Answers
  <2>2. waitOn' \in [Reqs -> Reqs \cup {None}]
    BY <1>6, <1>p DEF RecheckFlight, TypeOK
  <2> QED
    BY <1>6, <2>1, <2>2 DEF RecheckFlight, TypeOK, store, memory, bounds
<1>7. CASE TakeOver(r)
  <2>1. CallsOK
    BY <1>7, <1>g DEF TakeOver, PC, InClaim, Pre
  <2>2. rec' \in Records /\ clock' \in Nat /\ rec'.stamp <= clock'
    <3>1. rec \in Records /\ (Stamped(rec) \/ UNCHANGED store)
      BY <1>7 DEF TakeOver, TypeOK
    <3> QED
      BY <3>1, StoreType
  <2> QED
    BY <1>7, <2>1, <2>2 DEF TakeOver, TypeOK, memory, bounds
<1>8. CASE SetFlight(r)
  <2>1. CallsOK
    BY <1>8, <1>g DEF SetFlight, PC, Pre
  <2>2. flight' \in [Procs -> Reqs \cup {None}]
    BY <1>8, <1>p DEF SetFlight, TypeOK
  <2> QED
    BY <1>8, <2>1, <2>2 DEF SetFlight, TypeOK, store, bounds
<1> QED
  BY <1>1, <1>2, <1>3, <1>4, <1>5, <1>6, <1>7, <1>8 DEF ClaimStep

\* finishFlight keeps the types of the maps.
LEMMA FinishFlightType ==
  ASSUME TypeOK, NEW p \in Procs, FinishFlight(p)
  PROVE  /\ flight' \in [Procs -> Reqs \cup {None}]
         /\ uncertain' \in [Procs -> Fingerprints \cup {None}]
         /\ closed' \subseteq Reqs
BY DEF FinishFlight, TypeOK

\* The steps of an owner keep the types.
LEMMA OwnerType ==
  ASSUME TypeOK, NEW r \in Reqs, OwnerStep(r)
  PROVE  TypeOK'
<1> DEFINE CallsOK == /\ pc' \in [Reqs -> PC]
                      /\ answer' \in [Reqs -> Answers \cup {None}]
                      /\ got' \in [Reqs -> Reqs \cup {None}]
<1>a. \A a \in Answers, q \in Reqs \cup {None} : Answer(r, a, q) => CallsOK
  BY AnswerType
<1>g. \A l \in PC : GoOn(r, l) => CallsOK
  BY GoOnType
<1>p. Home[r] \in Procs /\ flight[Home[r]] \in Reqs \cup {None} /\ Fingerprint[r] \in Fingerprints
  BY ConstantsAssumption DEF TypeOK
<1>m. FinishFlight(Home[r]) => /\ flight' \in [Procs -> Reqs \cup {None}]
                               /\ uncertain' \in [Procs -> Fingerprints \cup {None}]
                               /\ closed' \subseteq Reqs
  BY <1>p, FinishFlightType
<1>1. CASE RunPreflight(r) \/ StartHandler(r)
  <2>1. CallsOK
    BY <1>1, <1>g DEF RunPreflight, StartHandler, PC, Pre, Post
  <2> QED
    BY <1>1, <2>1 DEF RunPreflight, StartHandler, TypeOK, store, memory, bounds
<1>2. CASE AbandonRecord(r)
  <2>1. CallsOK
    BY <1>2, <1>a, <1>g DEF AbandonRecord, PC, Answers
  <2>2. rec' \in Records /\ rec'.stamp <= clock'
    <3>1. clock' = clock /\ (rec' = rec \/ rec' = NoRecord)
      BY <1>2 DEF AbandonRecord
    <3>2. NoRecord \in Records /\ NoRecord.stamp = 0
      BY DEF NoRecord, Records
    <3>3. clock \in Nat /\ 0 <= clock
      BY DEF TypeOK
    <3>4. CASE rec' = rec
      BY <3>1, <3>4 DEF TypeOK
    <3>5. CASE rec' = NoRecord
      BY <3>1, <3>2, <3>3, <3>5
    <3> QED
      BY <3>1, <3>4, <3>5
  <2>3. faults' \in Nat
    BY <1>2 DEF AbandonRecord, Fault, TypeOK
  <2> QED
    BY <1>2, <2>1, <2>2, <2>3 DEF AbandonRecord, TypeOK, memory
<1>3. CASE ReleaseAbandoned(r) \/ ReleaseCompleted(r) \/ ReleaseMarked(r)
  <2>1. CallsOK
    BY <1>3, <1>a, <1>g DEF ReleaseAbandoned, ReleaseCompleted, ReleaseMarked, PC, Post, Answers
  <2> QED
    BY <1>3, <2>1, <1>m DEF ReleaseAbandoned, ReleaseCompleted, ReleaseMarked, TypeOK, store, bounds
<1>4. CASE HandlerReturns(r)
  <2>1. CallsOK
    BY <1>4, <1>g DEF HandlerReturns, PC, Post
  <2>2. status' \in [Reqs -> Completed]
    BY <1>4 DEF HandlerReturns, TypeOK
  <2> QED
    BY <1>4, <2>1, <2>2 DEF HandlerReturns, TypeOK, store, memory, bounds
<1>5. CASE CompleteRecord(r)
  <2> DEFINE row == [rec EXCEPT !.state = status[r], !.response = r]
  <2>1. CallsOK
    BY <1>5, <1>g DEF CompleteRecord, PC, Post
  <2>2. row \in Records
    BY DEF TypeOK, Records, RecordStates
  <2> HIDE DEF row
  <2>3. Stamped(row) \/ UNCHANGED store
    BY <1>5 DEF CompleteRecord, row
  <2>4. rec' \in Records /\ clock' \in Nat /\ rec'.stamp <= clock'
    BY <2>2, <2>3, StoreType
  <2>5. faults' \in Nat
    BY <1>5 DEF CompleteRecord, Fault, TypeOK
  <2> QED
    BY <1>5, <2>1, <2>4, <2>5 DEF CompleteRecord, TypeOK, memory
<1>6. CASE MarkInDoubt(r)
  <2> DEFINE row == [rec EXCEPT !.state = "in_doubt"]
  <2>1. CallsOK
    BY <1>6, <1>g DEF MarkInDoubt, PC, Post
  <2>2. row \in Records
    BY DEF TypeOK, Records, RecordStates
  <2> HIDE DEF row
  <2>3. Stamped(row) \/ UNCHANGED store
    BY <1>6 DEF MarkInDoubt, row
  <2>4. rec' \in Records /\ clock' \in Nat /\ rec'.stamp <= clock'
    BY <2>2, <2>3, StoreType
  <2>5. faults' \in Nat
    BY <1>6 DEF MarkInDoubt, Fault, TypeOK
  <2> QED
    BY <1>6, <2>1, <2>4, <2>5 DEF MarkInDoubt, TypeOK, memory
<1>7. CASE LeaveTombstone(r)
  <2>1. CallsOK
    BY <1>7, <1>a DEF LeaveTombstone, Answers
  <2>2. /\ flight' \in [Procs -> Reqs \cup {None}]
        /\ uncertain' \in [Procs -> Fingerprints \cup {None}]
        /\ closed' \subseteq Reqs
    BY <1>7, <1>p DEF LeaveTombstone, TypeOK, memory
  <2> QED
    BY <1>7, <2>1, <2>2 DEF LeaveTombstone, TypeOK, store, bounds
<1> QED
  BY <1>1, <1>2, <1>3, <1>4, <1>5, <1>6, <1>7 DEF OwnerStep

\* So do the waiters, the failures and the environment.
LEMMA NextType ==
  ASSUME TypeOK, [Next]_vars
  PROVE  TypeOK'
<1>1. ASSUME NEW r \in Reqs, ClaimStep(r) \/ OwnerStep(r) PROVE TypeOK'
  BY <1>1, ClaimType, OwnerType
<1>2. ASSUME NEW r \in Reqs, WaiterStep(r) \/ GiveUp(r) \/ FailClaim(r) \/ CallPanics(r) PROVE TypeOK'
  <2> DEFINE CallsOK == /\ pc' \in [Reqs -> PC]
                        /\ answer' \in [Reqs -> Answers \cup {None}]
                        /\ got' \in [Reqs -> Reqs \cup {None}]
  <2>1. rec.response \in Reqs \cup {None}
    BY DEF TypeOK, Records
  <2>2. CallsOK
    BY <1>2, <2>1, AnswerType, GoOnType
       DEF WaiterStep, WakeWaiter, ReadAfterWait, GiveUp, FailClaim, CallPanics, Answers, PC
  <2>3. faults' \in Nat
    BY <1>2 DEF WaiterStep, WakeWaiter, ReadAfterWait, GiveUp, FailClaim, CallPanics, Fault, TypeOK, bounds
  <2> QED
    BY <1>2, <2>2, <2>3
       DEF WaiterStep, WakeWaiter, ReadAfterWait, GiveUp, FailClaim, CallPanics, TypeOK, store, memory, bounds
<1>3. CASE LeaseLapse
  <2>1. rec' \in Records /\ rec'.stamp = rec.stamp
    BY <1>3 DEF LeaseLapse, TypeOK, Records
  <2> QED
    BY <1>3, <2>1 DEF LeaseLapse, TypeOK, memory, calls
<1>4. CASE Expire
  <2>1. rec' \in Records /\ rec'.stamp = 0
    BY <1>4 DEF Expire, NoRecord, Records
  <2> QED
    BY <1>4, <2>1 DEF Expire, TypeOK, memory, calls
<1>5. ASSUME NEW p \in Procs, Crash(p) PROVE TypeOK'
  BY <1>5 DEF Crash, TypeOK, store, PC, Answers
<1>6. CASE UNCHANGED vars
  BY <1>6 DEF TypeOK, vars, store, memory, calls, bounds
<1> QED
  BY <1>1, <1>2, <1>3, <1>4, <1>5, <1>6 DEF Next, CallStep

-----------------------------------------------------------------------------
(* The seen leases and the budget of handler calls. *)

\* The seen leases survive a step that leaves the row alone.
LEMMA SeenKept ==
  ASSUME TypeOK, SeenInv, NEW r \in Reqs, NEW l, Goto(r, l),
         UNCHANGED store,
         seen' = seen \/ seen' = [seen EXCEPT ![r] = rec],
         l = "takeover" => seen[r].lapsed /\ seen' = seen
  PROVE  SeenInv'
<1>1. rec' = rec /\ clock' = clock
  BY DEF store
<1>2. \A q \in Reqs : seen'[q] = seen[q] \/ (q = r /\ seen'[q] = rec /\ seen' # seen)
  BY DEF TypeOK
<1>3. \A q \in Reqs : pc'[q] = IF q = r THEN l ELSE pc[q]
  BY DEF TypeOK, Goto
<1> SUFFICES ASSUME NEW q \in Reqs
             PROVE  /\ seen'[q].stamp <= clock
                    /\ pc'[q] = "takeover" => seen'[q].lapsed
                    /\ seen'[q].lapsed /\ seen'[q].stamp = rec.stamp /\ rec.state = "pending"
                         => rec.lapsed
  BY <1>1 DEF SeenInv
<1>4. CASE seen'[q] = seen[q]
  BY <1>3, <1>4 DEF SeenInv
<1>5. CASE q = r /\ seen'[q] = rec /\ seen' # seen
  BY <1>3, <1>5 DEF TypeOK
<1> QED
  BY <1>2, <1>4, <1>5

\* They survive a step that writes the row, because its stamp is new.
LEMMA SeenStamped ==
  ASSUME TypeOK, SeenInv, NEW row \in Records, Stamped(row), seen' = seen,
         NEW r \in Reqs, NEW l, Goto(r, l), l # "takeover"
  PROVE  SeenInv'
<1>1. clock \in Nat /\ clock' = clock + 1 /\ rec'.stamp = clock + 1
  BY StampedType DEF TypeOK
<1>2. \A q \in Reqs : pc'[q] = IF q = r THEN l ELSE pc[q]
  BY DEF TypeOK, Goto
<1>3. \A q \in Reqs : seen[q].stamp \in Nat
  BY DEF TypeOK, Records
<1>4. ASSUME NEW q \in Reqs
      PROVE  /\ seen[q].stamp <= clock + 1
             /\ seen[q].stamp # clock + 1
  <2>1. seen[q].stamp <= clock
    BY DEF SeenInv
  <2> QED
    BY <2>1, <1>1, <1>3
<1> QED
  BY <1>1, <1>2, <1>4 DEF SeenInv

\* They survive the deletion of the row.
LEMMA SeenDeleted ==
  ASSUME TypeOK, SeenInv, rec' = NoRecord, clock' = clock, seen' = seen,
         \A q \in Reqs : pc'[q] = "takeover" => pc[q] = "takeover"
  PROVE  SeenInv'
<1>1. rec'.state = "none"
  BY DEF NoRecord
<1> QED
  BY <1>1 DEF SeenInv

\* Nobody becomes an owner and the row stays: the budget is kept.
LEMMA BudgetKept ==
  ASSUME TypeOK, Budget, PreOwners' \subseteq PreOwners,
         UNCHANGED <<started, lapses, expiries>>,
         rec'.lapsed = rec.lapsed \/ rec'.lapsed = FALSE,
         rec'.state # "none" \/ rec'.state = rec.state
  PROVE  Budget'
<1>1. Cardinality(PreOwners') \in Nat /\ Cardinality(PreOwners') <= Cardinality(PreOwners)
  BY PreShrinks
<1>2. started \in Nat /\ lapses \in Nat /\ expiries \in Nat /\ Cardinality(PreOwners) \in Nat
  BY PreFinite DEF TypeOK
<1>3. /\ Bit(rec.lapsed) \in {0, 1} /\ Bit(rec'.lapsed) \in {0, 1}
      /\ Bit(rec.state # "none") \in {0, 1} /\ Bit(rec'.state # "none") \in {0, 1}
      /\ Bit(rec'.lapsed) <= Bit(rec.lapsed)
      /\ Bit(rec.state # "none") <= Bit(rec'.state # "none")
  <2>1. rec.lapsed \in BOOLEAN
    BY DEF TypeOK, Records
  <2> QED
    BY <2>1 DEF Bit
<1>4. started' = started /\ lapses' = lapses /\ expiries' = expiries
  OBVIOUS
<1> QED
  BY <1>1, <1>2, <1>3, <1>4 DEF Budget

\* The steps that neither write the row nor make an owner.
LEMMA QuietStep ==
  ASSUME TypeOK, SeenInv, Budget, NEW r \in Reqs, NEW l, Goto(r, l),
         l \in Pre => pc[r] \in Pre,
         seen' = seen \/ seen' = [seen EXCEPT ![r] = rec],
         l = "takeover" => seen[r].lapsed /\ seen' = seen,
         UNCHANGED <<store, started, lapses, expiries>>
  PROVE  SeenInv' /\ Budget'
<1>1. SeenInv'
  BY SeenKept
<1>2. PreOwners' = IF l \in Pre THEN PreOwners \cup {r} ELSE PreOwners \ {r}
  BY PreMoves
<1>3. PreOwners' \subseteq PreOwners
  BY <1>2 DEF PreOwners
<1>4. rec' = rec
  BY DEF store
<1>5. Budget'
  BY <1>3, <1>4, BudgetKept
<1> QED
  BY <1>1, <1>5

\* A new row pays for its owner.
LEMMA InsertStep ==
  ASSUME IInv, NEW r \in Reqs, InsertRecord(r)
  PROVE  SeenInv' /\ Budget'
<1> USE DEF IInv
<1>0. pc[r] = "insert" /\ UNCHANGED <<seen, started, lapses, expiries>>
  BY DEF InsertRecord, bounds
<1>1. CASE rec.state = "none"
  <2>1. Stamped(NewRow(r)) /\ Goto(r, "setflight") /\ NewRow(r) \in Records
    BY <1>1, NewRowType DEF InsertRecord, GoOn
  <2>2. SeenInv'
    BY <2>1, <1>0, SeenStamped
  <2>3. rec'.state = "pending" /\ rec'.lapsed = FALSE
    BY <2>1, StampedType, NewRowType
  <2>4. PreOwners' = PreOwners \cup {r}
    BY <2>1, PreMoves DEF Pre
  <2>5. Cardinality(PreOwners') = Cardinality(PreOwners) + 1
    BY <2>4, <1>0, PreJoins DEF Pre
  <2>6. Bit(rec'.lapsed) = 0 /\ Bit(rec'.state # "none") = 1 /\ Bit(rec.state # "none") = 0
        /\ Bit(rec.lapsed) \in {0, 1}
    BY <1>1, <2>3 DEF Bit
  <2>7. started \in Nat /\ lapses \in Nat /\ expiries \in Nat /\ Cardinality(PreOwners) \in Nat
    BY PreFinite DEF TypeOK
  <2>8. Budget'
    BY <2>5, <2>6, <2>7, <1>0 DEF Budget
  <2> QED
    BY <2>2, <2>8
<1>2. CASE rec.state # "none"
  <2>1. Goto(r, "reread") /\ UNCHANGED store
    BY <1>2 DEF InsertRecord, GoOn
  <2> QED
    BY <2>1, <1>0, QuietStep DEF Pre
<1> QED
  BY <1>1, <1>2

\* A takeover is paid for by the lease that elapsed.
LEMMA TakeOverStep ==
  ASSUME IInv, NEW r \in Reqs, TakeOver(r)
  PROVE  SeenInv' /\ Budget'
<1> USE DEF IInv
<1>0. pc[r] = "takeover" /\ UNCHANGED <<seen, started, lapses, expiries>>
  BY DEF TakeOver, bounds
<1>1. CASE MinePending(r) /\ rec.stamp = seen[r].stamp
  <2>1. Stamped(rec) /\ Goto(r, "setflight") /\ rec \in Records
    BY <1>1 DEF TakeOver, GoOn, TypeOK
  <2>2. SeenInv'
    BY <2>1, <1>0, SeenStamped
  <2>3. rec.lapsed
    BY <1>0, <1>1 DEF SeenInv, MinePending
  <2>4. rec'.state = "pending" /\ rec'.lapsed = FALSE
    BY <1>1, <2>1, StampedType DEF MinePending
  <2>5. PreOwners' = PreOwners \cup {r}
    BY <2>1, PreMoves DEF Pre
  <2>6. Cardinality(PreOwners') = Cardinality(PreOwners) + 1
    BY <2>5, <1>0, PreJoins DEF Pre
  <2>7. /\ Bit(rec.lapsed) = 1 /\ Bit(rec'.lapsed) = 0
        /\ Bit(rec.state # "none") = 1 /\ Bit(rec'.state # "none") = 1
    BY <1>1, <2>3, <2>4 DEF Bit, MinePending
  <2>8. started \in Nat /\ lapses \in Nat /\ expiries \in Nat /\ Cardinality(PreOwners) \in Nat
    BY PreFinite DEF TypeOK
  <2>9. Budget'
    BY <2>6, <2>7, <2>8, <1>0 DEF Budget
  <2> QED
    BY <2>2, <2>9
<1>2. CASE ~(MinePending(r) /\ rec.stamp = seen[r].stamp)
  <2>1. Goto(r, "reget") /\ UNCHANGED store
    BY <1>2 DEF TakeOver, GoOn
  <2> QED
    BY <2>1, <1>0, QuietStep DEF Pre
<1> QED
  BY <1>1, <1>2

\* An abandoned claim gives its row back, together with its owner.
LEMMA AbandonStep ==
  ASSUME IInv, NEW r \in Reqs, AbandonRecord(r)
  PROVE  SeenInv' /\ Budget'
<1> USE DEF IInv
<1>0. pc[r] = "abandon" /\ UNCHANGED <<seen, clock, started, lapses, expiries>>
  BY DEF AbandonRecord
<1>1. CASE MinePending(r) /\ rec' = NoRecord /\ Goto(r, "release")
  <2>1. \A q \in Reqs : pc'[q] = "takeover" => pc[q] = "takeover"
    BY <1>1 DEF Goto, TypeOK
  <2>2. SeenInv'
    BY <2>1, <1>0, <1>1, SeenDeleted
  <2>3. PreOwners' = PreOwners \ {r}
    BY <1>1, PreMoves DEF Pre
  <2>4. Cardinality(PreOwners') = Cardinality(PreOwners) - 1
    BY <2>3, <1>0, PreLeaves DEF Pre
  <2>5. /\ Bit(rec.lapsed) \in {0, 1} /\ Bit(rec'.lapsed) = 0
        /\ Bit(rec.state # "none") = 1 /\ Bit(rec'.state # "none") = 0
    BY <1>1 DEF Bit, MinePending, NoRecord
  <2>6. started \in Nat /\ lapses \in Nat /\ expiries \in Nat /\ Cardinality(PreOwners) \in Nat
    BY PreFinite DEF TypeOK
  <2>7. Budget'
    BY <2>4, <2>5, <2>6, <1>0 DEF Budget
  <2> QED
    BY <2>2, <2>7
<1>2. CASE rec' = rec /\ Goto(r, "done")
  <2>1. UNCHANGED store
    BY <1>0, <1>2 DEF store
  <2> QED
    BY <2>1, <1>0, <1>2, QuietStep DEF Pre
<1> QED
  BY <1>1, <1>2 DEF AbandonRecord, Answer, GoOn

\* The call of the handler spends what its owner had reserved.
LEMMA StartStep ==
  ASSUME IInv, NEW r \in Reqs, StartHandler(r)
  PROVE  SeenInv' /\ Budget'
<1> USE DEF IInv
<1>0. /\ pc[r] = "handler" /\ Goto(r, "running") /\ started' = started + 1
      /\ UNCHANGED <<store, seen, lapses, expiries>>
  BY DEF StartHandler, GoOn, bounds
<1>1. SeenInv'
  BY <1>0, SeenKept
<1>2. PreOwners' = PreOwners \ {r}
  BY <1>0, PreMoves DEF Pre
<1>3. Cardinality(PreOwners') = Cardinality(PreOwners) - 1
  BY <1>2, <1>0, PreLeaves DEF Pre
<1>4. started \in Nat /\ lapses \in Nat /\ expiries \in Nat /\ Cardinality(PreOwners) \in Nat
  BY PreFinite DEF TypeOK
<1>5. rec' = rec /\ Bit(rec.lapsed) \in {0, 1} /\ Bit(rec.state # "none") \in {0, 1}
  BY <1>0 DEF Bit, store
<1>6. Budget'
  BY <1>0, <1>3, <1>4, <1>5 DEF Budget
<1> QED
  BY <1>1, <1>6

\* Complete and MarkInDoubt write a row that is there, or nothing.
LEMMA FinishStep ==
  ASSUME IInv, NEW r \in Reqs, CompleteRecord(r) \/ MarkInDoubt(r)
  PROVE  SeenInv' /\ Budget'
<1> USE DEF IInv
<1>0. pc[r] \in Post /\ UNCHANGED <<seen, started, lapses, expiries>>
  BY DEF CompleteRecord, MarkInDoubt, Post
<1>1. PICK l : Goto(r, l) /\ l \in Post
  BY DEF CompleteRecord, MarkInDoubt, GoOn, Post
<1>l. l \notin Pre /\ l # "takeover"
  BY <1>1 DEF Pre, Post
<1>2. CASE UNCHANGED store
  BY <1>0, <1>1, <1>l, <1>2, QuietStep
<1>3. ASSUME NEW row \in Records, Stamped(row), row.state # "none"
      PROVE  SeenInv' /\ Budget'
  <2>1. SeenInv'
    BY <1>0, <1>1, <1>l, <1>3, SeenStamped
  <2>2. rec'.state # "none" /\ rec'.lapsed = FALSE
    BY <1>3, StampedType
  <2>3. PreOwners' \subseteq PreOwners
    BY <1>1, <1>l, PreMoves
  <2> QED
    BY <2>1, <2>2, <2>3, <1>0, BudgetKept
<1>4. CASE Stamped([rec EXCEPT !.state = status[r], !.response = r])
  <2> DEFINE row == [rec EXCEPT !.state = status[r], !.response = r]
  <2>1. row \in Records /\ row.state # "none"
    BY DEF TypeOK, Records, RecordStates, Completed
  <2> QED
    BY <1>3, <1>4, <2>1
<1>5. CASE Stamped([rec EXCEPT !.state = "in_doubt"])
  <2> DEFINE row == [rec EXCEPT !.state = "in_doubt"]
  <2>1. row \in Records /\ row.state # "none"
    BY DEF TypeOK, Records, RecordStates, Completed
  <2> QED
    BY <1>3, <1>5, <2>1
<1> QED
  BY <1>2, <1>4, <1>5 DEF CompleteRecord, MarkInDoubt

\* The remaining steps of a call are quiet.
LEMMA OtherCallStep ==
  ASSUME IInv, NEW r \in Reqs,
         \/ Lookup(r) \/ CheckFlight(r) \/ ReadTombstone(r) \/ ReadRecord(r)
         \/ RereadRecord(r) \/ RecheckFlight(r) \/ ReadLoser(r) \/ SetFlight(r)
         \/ RunPreflight(r) \/ ReleaseAbandoned(r) \/ HandlerReturns(r)
         \/ ReleaseCompleted(r) \/ ReleaseMarked(r) \/ LeaveTombstone(r)
         \/ WaiterStep(r) \/ GiveUp(r) \/ FailClaim(r) \/ CallPanics(r)
  PROVE  SeenInv' /\ Budget'
<1> USE DEF IInv
<1>u. UNCHANGED <<store, started, lapses, expiries>>
  BY DEF Lookup, CheckFlight, ReadTombstone, ReadRecord, RereadRecord, RecheckFlight,
         ReadLoser, SetFlight, RunPreflight, ReleaseAbandoned, HandlerReturns,
         ReleaseCompleted, ReleaseMarked, LeaveTombstone, WaiterStep, WakeWaiter,
         ReadAfterWait, GiveUp, FailClaim, CallPanics, bounds
<1>q. ASSUME NEW l \in PC, Goto(r, l), l \in Pre => pc[r] \in Pre,
             seen' = seen \/ seen' = [seen EXCEPT ![r] = rec],
             l = "takeover" => seen[r].lapsed /\ seen' = seen
      PROVE  SeenInv' /\ Budget'
  BY <1>q, <1>u, QuietStep
<1>d. "done" \in PC /\ "done" \notin Pre
  BY DEF PC, Pre
<1>1. CASE Lookup(r) \/ CheckFlight(r) \/ ReadTombstone(r) \/ ReadLoser(r)
  <2>1. seen' = seen
    BY <1>1 DEF Lookup, CheckFlight, ReadTombstone, ReadLoser
  <2>2. Goto(r, "done") \/ Goto(r, "claim") \/ Goto(r, "waiting") \/ Goto(r, "tomb") \/ Goto(r, "read")
    BY <1>1 DEF Lookup, CheckFlight, ReadTombstone, ReadLoser, Settled, Answer, GoOn
  <2> QED
    BY <2>1, <2>2, <1>q DEF PC, Pre, InClaim
<1>2. CASE ReadRecord(r) \/ RereadRecord(r)
  <2>1. seen' = seen \/ seen' = [seen EXCEPT ![r] = rec]
    BY <1>2 DEF ReadRecord, RereadRecord
  <2>2. Goto(r, "done") \/ Goto(r, "insert") \/ Goto(r, "recheck")
    BY <1>2 DEF ReadRecord, RereadRecord, Settled, Answer, GoOn
  <2> QED
    BY <2>1, <2>2, <1>q DEF PC, Pre, InClaim
<1>3. CASE RecheckFlight(r)
  <2>1. seen' = seen
    BY <1>3 DEF RecheckFlight
  <2>2. Goto(r, "done") \/ Goto(r, "waiting") \/ (Goto(r, "takeover") /\ seen[r].lapsed)
    BY <1>3 DEF RecheckFlight, Answer, GoOn
  <2> QED
    BY <2>1, <2>2, <1>q DEF PC, Pre, InClaim
<1>4. CASE SetFlight(r) \/ RunPreflight(r)
  <2>1. seen' = seen /\ pc[r] \in Pre
    BY <1>4 DEF SetFlight, RunPreflight, Pre
  <2>2. Goto(r, "preflight") \/ Goto(r, "handler") \/ Goto(r, "abandon")
    BY <1>4 DEF SetFlight, RunPreflight, GoOn
  <2> QED
    BY <2>1, <2>2, <1>q DEF PC, Pre
<1>5. CASE \/ ReleaseAbandoned(r) \/ HandlerReturns(r) \/ ReleaseCompleted(r)
           \/ ReleaseMarked(r) \/ LeaveTombstone(r)
  <2>1. seen' = seen
    BY <1>5 DEF ReleaseAbandoned, HandlerReturns, ReleaseCompleted, ReleaseMarked, LeaveTombstone
  <2>2. Goto(r, "done") \/ Goto(r, "complete") \/ Goto(r, "mark") \/ Goto(r, "markdefer")
    BY <1>5 DEF ReleaseAbandoned, HandlerReturns, ReleaseCompleted, ReleaseMarked,
                LeaveTombstone, Answer, GoOn
  <2> QED
    BY <2>1, <2>2, <1>q DEF PC, Pre, Post
<1>6. CASE WaiterStep(r) \/ GiveUp(r) \/ FailClaim(r) \/ CallPanics(r)
  <2>1. seen' = seen
    BY <1>6 DEF WaiterStep, WakeWaiter, ReadAfterWait, GiveUp, FailClaim, CallPanics
  <2>2. Goto(r, "done") \/ Goto(r, "waitread")
    BY <1>6 DEF WaiterStep, WakeWaiter, ReadAfterWait, GiveUp, FailClaim, CallPanics, Answer, GoOn
  <2> QED
    BY <2>1, <2>2, <1>q DEF PC, Pre
<1> QED
  BY <1>1, <1>2, <1>3, <1>4, <1>5, <1>6

\* An elapsed lease grants one more handler call.
LEMMA LapseStep ==
  ASSUME IInv, LeaseLapse
  PROVE  SeenInv' /\ Budget'
<1> USE DEF IInv
<1>1. /\ rec.state = "pending" /\ ~rec.lapsed /\ lapses' = lapses + 1
      /\ UNCHANGED <<clock, pc, seen, started, expiries>>
  BY DEF LeaseLapse, calls
<1>2. rec'.state = rec.state /\ rec'.stamp = rec.stamp /\ rec'.lapsed = TRUE
  BY DEF LeaseLapse, TypeOK, Records
<1>3. SeenInv'
  BY <1>1, <1>2 DEF SeenInv
<1>4. PreOwners' = PreOwners
  BY <1>1 DEF PreOwners
<1>5. /\ Bit(rec.lapsed) = 0 /\ Bit(rec'.lapsed) = 1
      /\ Bit(rec.state # "none") = 1 /\ Bit(rec'.state # "none") = 1
  BY <1>1, <1>2 DEF Bit
<1>6. started \in Nat /\ lapses \in Nat /\ expiries \in Nat /\ Cardinality(PreOwners) \in Nat
  BY PreFinite DEF TypeOK
<1>7. Budget'
  BY <1>1, <1>4, <1>5, <1>6 DEF Budget
<1> QED
  BY <1>3, <1>7

\* So does a row that retention deletes.
LEMMA ExpireStep ==
  ASSUME IInv, Expire
  PROVE  SeenInv' /\ Budget'
<1> USE DEF IInv
<1>1. /\ rec.state # "none" /\ rec' = NoRecord /\ expiries' = expiries + 1
      /\ UNCHANGED <<clock, pc, seen, started, lapses>>
  BY DEF Expire, calls
<1>2. SeenInv'
  BY <1>1, SeenDeleted
<1>3. PreOwners' = PreOwners
  BY <1>1 DEF PreOwners
<1>4. /\ Bit(rec.lapsed) \in {0, 1} /\ Bit(rec'.lapsed) = 0
      /\ Bit(rec.state # "none") = 1 /\ Bit(rec'.state # "none") = 0
  BY <1>1 DEF Bit, NoRecord
<1>5. started \in Nat /\ lapses \in Nat /\ expiries \in Nat /\ Cardinality(PreOwners) \in Nat
  BY PreFinite DEF TypeOK
<1>6. Budget'
  BY <1>1, <1>3, <1>4, <1>5 DEF Budget
<1> QED
  BY <1>2, <1>6

\* A crash only takes owners away.
LEMMA CrashStep ==
  ASSUME IInv, NEW p \in Procs, Crash(p)
  PROVE  SeenInv' /\ Budget'
<1> USE DEF IInv
<1>1. rec' = rec /\ UNCHANGED <<clock, seen, started, lapses, expiries>>
  BY DEF Crash, store
<1>2. \A q \in Reqs : pc'[q] = pc[q] \/ pc'[q] = "done"
  BY DEF Crash
<1>3. SeenInv'
  BY <1>1, <1>2 DEF SeenInv
<1>4. PreOwners' \subseteq PreOwners
  BY <1>2 DEF PreOwners, Pre
<1>5. Budget'
  BY <1>1, <1>4, BudgetKept
<1> QED
  BY <1>3, <1>5

-----------------------------------------------------------------------------
(* Theorems *)

\* The invariant holds at the start,
LEMMA InitInv == Init => IInv
<1> SUFFICES ASSUME Init PROVE IInv
  OBVIOUS
<1>1. TypeOK
  BY InitType
<1>2. SeenInv
  BY DEF Init, SeenInv, NoRecord
<1>3. PreOwners = {}
  BY DEF Init, PreOwners, Pre
<1>4. Cardinality(PreOwners) = 0
  BY <1>3, FS_EmptySet
<1>5. Budget
  BY <1>4 DEF Init, Budget, Bit, NoRecord
<1> QED
  BY <1>1, <1>2, <1>5 DEF IInv

\* and every step keeps it.
LEMMA NextInv == IInv /\ [Next]_vars => IInv'
<1> SUFFICES ASSUME IInv, [Next]_vars PROVE IInv'
  OBVIOUS
<1>1. TypeOK'
  BY NextType DEF IInv
<1>2. ASSUME NEW r \in Reqs, CallStep(r) \/ GiveUp(r) \/ FailClaim(r) \/ CallPanics(r)
      PROVE  SeenInv' /\ Budget'
  BY <1>2, InsertStep, TakeOverStep, AbandonStep, StartStep, FinishStep, OtherCallStep
     DEF CallStep, ClaimStep, OwnerStep
<1>3. ASSUME UNCHANGED vars PROVE SeenInv' /\ Budget'
  <2>1. UNCHANGED <<rec, clock, pc, seen, started, lapses, expiries>>
    BY <1>3 DEF vars, store, calls, bounds
  <2>2. PreOwners' = PreOwners
    BY <2>1 DEF PreOwners
  <2>3. SeenInv' <=> SeenInv
    BY <2>1 DEF SeenInv
  <2>4. Budget' <=> Budget
    BY <2>1, <2>2 DEF Budget
  <2> QED
    BY <1>1, <2>3, <2>4 DEF IInv
<1>4. ASSUME Next PROVE SeenInv' /\ Budget'
  <2>1. CASE \E r \in Reqs : CallStep(r) \/ GiveUp(r) \/ FailClaim(r) \/ CallPanics(r)
    BY <1>2, <2>1
  <2>2. CASE LeaseLapse \/ Expire \/ \E p \in Procs : Crash(p)
    BY <2>2, LapseStep, ExpireStep, CrashStep
  <2> QED
    BY <1>4, <2>1, <2>2 DEF Next
<1>5. SeenInv' /\ Budget'
  BY <1>3, <1>4 DEF IInv
<1> QED
  BY <1>1, <1>5 DEF IInv

\* The inductive invariant of the store (Claim, Abandon, Complete and
\* MarkInDoubt of store.go under withCleanIdempotency).
THEOREM Invariant == Spec => []IInv
<1>1. Init => IInv
  BY InitInv
<1>2. IInv /\ [Next]_vars => IInv'
  BY NextInv
<1> QED
  BY <1>1, <1>2, PTL DEF Spec

\* Type correctness of the record, the maps and the calls.
THEOREM TypeCorrect == Spec => []TypeOK
<1>1. IInv => TypeOK
  BY DEF IInv
<1> QED
  BY <1>1, Invariant, PTL

\* For any number of calls, processes, crashes and faults, the handler runs
\* at most once more than leases elapsed and rows expired (withCleanIdempotency).
THEOREM Bounded == Spec => []EffectsBounded
<1>1. IInv => EffectsBounded
  <2> SUFFICES ASSUME IInv PROVE EffectsBounded
    OBVIOUS
  <2>1. started \in Nat /\ lapses \in Nat /\ expiries \in Nat /\ Cardinality(PreOwners) \in Nat
    BY PreFinite DEF IInv, TypeOK
  <2>2. Bit(rec.lapsed) \in {0, 1} /\ Bit(rec.state # "none") \in {0, 1}
    BY DEF Bit
  <2> QED
    BY <2>1, <2>2 DEF IInv, Budget, EffectsBounded
<1> QED
  BY <1>1, Invariant, PTL

-----------------------------------------------------------------------------
(* While no lease elapses and no row expires (FirstLease), there is one owner. *)

\* A step of one call that leaves the row alone keeps the sole owner, if the
\* call was the owner or does not become one, and if what it answers is the
\* response of a completed row.
LEMMA SoleKept ==
  ASSUME IInv, OwnerAlone, NEW r \in Reqs, NEW l, Goto(r, l), UNCHANGED store,
         l \in Pre \cup {"running", "complete", "mark"} => r \in Owners,
         l # "finish",
         seen' = seen \/ seen' = [seen EXCEPT ![r] = rec],
         \/ got' = got
         \/ got' = [got EXCEPT ![r] = None]
         \/ rec.state \in Completed /\ got' = [got EXCEPT ![r] = rec.response]
  PROVE  OwnerAlone'
<1>1. rec' = rec
  BY DEF store
<1>2. \A q \in Reqs : pc'[q] = IF q = r THEN l ELSE pc[q]
  BY DEF IInv, TypeOK, Goto
<1>3. Owners' \subseteq Owners
  BY <1>2 DEF Owners
<1>4. \A q \in Owners' : MinePending(q)'
  BY <1>1, <1>3 DEF OwnerAlone, MinePending, Mine
<1>5. \A q \in Reqs : ~seen'[q].lapsed
  BY DEF OwnerAlone, IInv, TypeOK
<1>6. \A q \in Reqs : got'[q] # None => rec.state \in Completed /\ rec.response = got'[q]
  BY DEF OwnerAlone, IInv, TypeOK
<1>7. \A q \in Reqs : pc'[q] = "finish" => rec.state \in Completed /\ rec.response = q
  BY <1>2 DEF OwnerAlone
<1> QED
  BY <1>1, <1>3, <1>4, <1>5, <1>6, <1>7 DEF OwnerAlone

\* The steps of a call that leave the row alone.
LEMMA SoleCall ==
  ASSUME IInv, OwnerAlone, NEW r \in Reqs, UNCHANGED store,
         CallStep(r) \/ GiveUp(r) \/ FailClaim(r) \/ CallPanics(r)
  PROVE  OwnerAlone'
<1> DEFINE Returns == \/ got' = got
                      \/ got' = [got EXCEPT ![r] = None]
                      \/ rec.state \in Completed /\ got' = [got EXCEPT ![r] = rec.response]
<1>q. ASSUME NEW l, Goto(r, l), l \in Pre \cup {"running", "complete", "mark"} => r \in Owners,
             l # "finish", seen' = seen \/ seen' = [seen EXCEPT ![r] = rec], Returns
      PROVE  OwnerAlone'
  BY <1>q, SoleKept
<1>s. ASSUME Settled(r, rec) PROVE Goto(r, "done") /\ Returns
  BY <1>s DEF Settled, Answer
<1>0. rec' = rec /\ clock' = clock /\ clock \in Nat
  BY DEF store, IInv, TypeOK
<1>n. ASSUME NEW row \in Records, Stamped(row) PROVE FALSE
  <2>1. clock' = clock + 1
    BY <1>n, StampedType DEF IInv
  <2> QED
    BY <2>1, <1>0
<1>1. CASE Lookup(r) \/ CheckFlight(r) \/ ReadTombstone(r) \/ ReadLoser(r)
  <2>1. seen' = seen
    BY <1>1 DEF Lookup, CheckFlight, ReadTombstone, ReadLoser
  <2>2. Returns
    BY <1>1, <1>s DEF Lookup, CheckFlight, ReadTombstone, ReadLoser, Answer, GoOn
  <2>3. \/ Goto(r, "done") \/ Goto(r, "claim") \/ Goto(r, "waiting") \/ Goto(r, "tomb")
        \/ Goto(r, "read")
    BY <1>1, <1>s DEF Lookup, CheckFlight, ReadTombstone, ReadLoser, Answer, GoOn
  <2> QED
    BY <2>1, <2>2, <2>3, <1>q DEF Pre
<1>2. CASE ReadRecord(r) \/ RereadRecord(r)
  <2>1. seen' = seen \/ seen' = [seen EXCEPT ![r] = rec]
    BY <1>2 DEF ReadRecord, RereadRecord
  <2>2. Returns /\ (Goto(r, "done") \/ Goto(r, "insert") \/ Goto(r, "recheck"))
    BY <1>2, <1>s DEF ReadRecord, RereadRecord, Answer, GoOn
  <2> QED
    BY <2>1, <2>2, <1>q DEF Pre
<1>3. CASE InsertRecord(r)
  <2>1. seen' = seen /\ Goto(r, "reread") /\ got' = got
    BY <1>3, <1>n, NewRowType DEF InsertRecord, GoOn
  <2> QED
    BY <2>1, <1>q DEF Pre
<1>4. CASE RecheckFlight(r)
  <2>1. seen' = seen /\ Returns
    BY <1>4 DEF RecheckFlight, Answer, GoOn
  <2>2. Goto(r, "done") \/ Goto(r, "waiting") \/ Goto(r, "takeover")
    BY <1>4 DEF RecheckFlight, Answer, GoOn
  <2> QED
    BY <2>1, <2>2, <1>q DEF Pre
<1>5. CASE TakeOver(r)
  <2>1. rec \in Records
    BY DEF IInv, TypeOK
  <2>2. seen' = seen /\ Goto(r, "reget") /\ got' = got
    BY <1>5, <1>n, <2>1 DEF TakeOver, GoOn
  <2> QED
    BY <2>2, <1>q DEF Pre
<1>6. CASE SetFlight(r) \/ RunPreflight(r) \/ StartHandler(r) \/ HandlerReturns(r)
  <2>1. r \in Owners /\ seen' = seen
    BY <1>6 DEF SetFlight, RunPreflight, StartHandler, HandlerReturns, Owners, Pre
  <2>2. got' = got
    BY <1>6 DEF SetFlight, RunPreflight, StartHandler, HandlerReturns, GoOn
  <2>3. \E l \in PC : l # "finish" /\ Goto(r, l)
    BY <1>6 DEF SetFlight, RunPreflight, StartHandler, HandlerReturns, GoOn, PC, Pre, Post
  <2> QED
    BY <2>1, <2>2, <2>3, <1>q
<1>7. CASE AbandonRecord(r)
  <2>1. r \in Owners
    BY <1>7 DEF AbandonRecord, Owners, Pre
  <2>2. MinePending(r)
    BY <2>1 DEF OwnerAlone
  <2>3. seen' = seen /\ Returns /\ Goto(r, "done")
    BY <1>7, <1>0, <2>2 DEF AbandonRecord, MinePending, Mine, NoRecord, Answer, GoOn
  <2> QED
    BY <2>3, <1>q DEF Pre
<1>8. CASE ReleaseAbandoned(r) \/ ReleaseMarked(r) \/ LeaveTombstone(r)
  <2>1. seen' = seen /\ Returns /\ (Goto(r, "done") \/ Goto(r, "markdefer"))
    BY <1>8 DEF ReleaseAbandoned, ReleaseMarked, LeaveTombstone, Answer, GoOn
  <2> QED
    BY <2>1, <1>q DEF Pre
<1>9. CASE ReleaseCompleted(r)
  <2>1. rec.state \in Completed /\ rec.response = r
    BY <1>9 DEF ReleaseCompleted, OwnerAlone
  <2>2. seen' = seen /\ Returns /\ Goto(r, "done")
    BY <1>9, <2>1 DEF ReleaseCompleted, Answer
  <2> QED
    BY <2>2, <1>q DEF Pre
<1>10. CASE CompleteRecord(r) \/ MarkInDoubt(r)
  <2>1. rec \in Records /\ status[r] \in Completed
    BY DEF IInv, TypeOK
  <2>2. /\ [rec EXCEPT !.state = status[r], !.response = r] \in Records
        /\ [rec EXCEPT !.state = "in_doubt"] \in Records
    BY <2>1 DEF Records, RecordStates
  <2>3. seen' = seen /\ got' = got /\ r \in Owners
    BY <1>10 DEF CompleteRecord, MarkInDoubt, GoOn, Owners
  <2>4. Goto(r, "mark") \/ Goto(r, "markdefer")
    BY <1>10, <1>n, <2>2 DEF CompleteRecord, MarkInDoubt, GoOn
  <2> QED
    BY <2>3, <2>4, <1>q DEF Pre
<1>11. CASE WaiterStep(r) \/ GiveUp(r) \/ FailClaim(r) \/ CallPanics(r)
  <2>1. seen' = seen /\ Returns
    BY <1>11 DEF WaiterStep, WakeWaiter, ReadAfterWait, GiveUp, FailClaim, CallPanics, Answer, GoOn
  <2>2. Goto(r, "done") \/ Goto(r, "waitread")
    BY <1>11 DEF WaiterStep, WakeWaiter, ReadAfterWait, GiveUp, FailClaim, CallPanics, Answer, GoOn
  <2> QED
    BY <2>1, <2>2, <1>q DEF Pre
<1> QED
  BY <1>1, <1>2, <1>3, <1>4, <1>5, <1>6, <1>7, <1>8, <1>9, <1>10, <1>11
     DEF CallStep, ClaimStep, OwnerStep

\* While the row is not completed, nobody has a response or is about to
\* return one.
LEMMA NoResponseYet ==
  ASSUME OwnerAlone, rec.state \notin Completed
  PROVE  \A q \in Reqs : got[q] = None /\ pc[q] # "finish"
BY DEF OwnerAlone

\* The one INSERT that succeeds makes the one owner.
LEMMA SoleInsert ==
  ASSUME IInv, OwnerAlone, NEW r \in Reqs, InsertRecord(r), rec.state = "none"
  PROVE  OwnerAlone'
<1>1. Goto(r, "setflight") /\ Stamped(NewRow(r)) /\ UNCHANGED <<seen, got>>
  BY DEF InsertRecord, GoOn
<1>2. \A q \in Reqs : pc'[q] = IF q = r THEN "setflight" ELSE pc[q]
  BY <1>1 DEF IInv, TypeOK, Goto
<1>3. Owners = {}
  BY DEF OwnerAlone, MinePending, Mine
<1>4. Owners' = {r}
  BY <1>2, <1>3 DEF Owners, Pre
<1>5. rec'.state = "pending" /\ rec'.lapsed = FALSE
  BY <1>1, NewRowType, StampedType DEF IInv
<1>6. rec'.fp = Fingerprint[r]
  BY <1>1 DEF Stamped, NewRow, NoRecord
<1>7. \A q \in Owners' : MinePending(q)'
  BY <1>4, <1>5, <1>6 DEF MinePending, Mine
<1>8. \A q \in Reqs : got'[q] = None /\ pc'[q] # "finish"
  BY <1>1, <1>2, NoResponseYet DEF Completed
<1> QED
  BY <1>1, <1>4, <1>5, <1>7, <1>8 DEF OwnerAlone

\* The owner that writes or deletes the row gives up the ownership with it.
LEMMA SoleWrite ==
  ASSUME IInv, OwnerAlone, NEW r \in Reqs, r \in Owners, NEW l, Goto(r, l),
         l \notin Pre \cup {"running", "complete", "mark"},
         UNCHANGED <<seen, got>>, ~rec'.lapsed,
         l = "finish" => rec'.state \in Completed /\ rec'.response = r
  PROVE  OwnerAlone'
<1>1. \A q \in Reqs : pc'[q] = IF q = r THEN l ELSE pc[q]
  BY DEF IInv, TypeOK, Goto
<1>2. Owners' = {}
  BY <1>1 DEF OwnerAlone, Owners
<1>3. rec.state \notin Completed
  BY DEF OwnerAlone, MinePending, Completed
<1>4. \A q \in Reqs : got'[q] = None /\ (pc'[q] = "finish" => q = r /\ l = "finish")
  BY <1>1, <1>3, NoResponseYet
<1>5. \A q \in Reqs : ~seen'[q].lapsed
  BY DEF OwnerAlone
<1> QED
  BY <1>2, <1>4, <1>5 DEF OwnerAlone

\* Every step keeps the sole owner.
LEMMA SoleNext ==
  ASSUME FirstLease', IInv, OwnerAlone, [Next]_vars
  PROVE  OwnerAlone'
<1>1. ASSUME NEW r \in Reqs, CallStep(r) \/ GiveUp(r) \/ FailClaim(r) \/ CallPanics(r) PROVE OwnerAlone'
  <2>1. CASE UNCHANGED store
    BY <1>1, <2>1, SoleCall
  <2>2. CASE InsertRecord(r) /\ rec.state = "none"
    BY <2>2, SoleInsert
  <2>3. ASSUME TakeOver(r) PROVE FALSE
    BY <2>3 DEF TakeOver, IInv, SeenInv, OwnerAlone
  <2>4. CASE AbandonRecord(r) /\ rec' = NoRecord /\ Goto(r, "release")
    <3>1. r \in Owners /\ UNCHANGED <<seen, got>> /\ ~rec'.lapsed
      BY <2>4 DEF AbandonRecord, Owners, Pre, Answer, GoOn, Goto, NoRecord, IInv, TypeOK
    <3> QED
      BY <2>4, <3>1, SoleWrite DEF Pre
  <2>5. CASE CompleteRecord(r) /\ Stamped([rec EXCEPT !.state = status[r], !.response = r])
             /\ GoOn(r, "finish")
    <3>1. r \in Owners /\ UNCHANGED <<seen, got>>
      BY <2>5 DEF CompleteRecord, Owners, GoOn
    <3>2. status[r] \in Completed /\ rec \in Records
      BY DEF IInv, TypeOK
    <3>3. rec'.lapsed = FALSE /\ rec'.state = status[r] /\ rec'.response = r
      BY <2>5, <3>2 DEF Stamped, Records
    <3> QED
      BY <2>5, <3>1, <3>2, <3>3, SoleWrite DEF Pre, GoOn
  <2>6. CASE MarkInDoubt(r) /\ Stamped([rec EXCEPT !.state = "in_doubt"])
             /\ GoOn(r, "markfinish")
    <3>1. r \in Owners /\ UNCHANGED <<seen, got>>
      BY <2>6 DEF MarkInDoubt, Owners, GoOn
    <3>2. rec'.lapsed = FALSE
      BY <2>6 DEF Stamped, Records, IInv, TypeOK
    <3> QED
      BY <2>6, <3>1, <3>2, SoleWrite DEF Pre, GoOn
  <2>7. CASE InsertRecord(r) /\ rec.state # "none"
    BY <2>1, <2>7 DEF InsertRecord
  <2>8. CASE AbandonRecord(r) /\ rec' = rec
    BY <2>1, <2>8 DEF AbandonRecord, store
  <2>9. CASE \/ Lookup(r) \/ CheckFlight(r) \/ ReadTombstone(r) \/ ReadRecord(r)
             \/ RereadRecord(r) \/ RecheckFlight(r) \/ ReadLoser(r) \/ SetFlight(r)
             \/ RunPreflight(r) \/ ReleaseAbandoned(r) \/ StartHandler(r) \/ HandlerReturns(r)
             \/ ReleaseCompleted(r) \/ ReleaseMarked(r) \/ LeaveTombstone(r)
             \/ WaiterStep(r) \/ GiveUp(r) \/ FailClaim(r) \/ CallPanics(r)
    <3>1. UNCHANGED store
      BY <2>9 DEF Lookup, CheckFlight, ReadTombstone, ReadRecord, RereadRecord, RecheckFlight,
           ReadLoser, SetFlight, RunPreflight, ReleaseAbandoned, StartHandler, HandlerReturns,
           ReleaseCompleted, ReleaseMarked, LeaveTombstone, WaiterStep, WakeWaiter,
           ReadAfterWait, GiveUp, FailClaim, CallPanics
    <3> QED
      BY <3>1, <2>1
  <2>10. CASE AbandonRecord(r)
    BY <2>10, <2>4, <2>8 DEF AbandonRecord, GoOn
  <2>11. CASE CompleteRecord(r)
    BY <2>11, <2>5, <2>1 DEF CompleteRecord
  <2>12. CASE MarkInDoubt(r)
    BY <2>12, <2>6, <2>1 DEF MarkInDoubt
  <2> QED
    BY <1>1, <2>2, <2>3, <2>7, <2>9, <2>10, <2>11, <2>12 DEF CallStep, ClaimStep, OwnerStep
<1>2. ASSUME LeaseLapse \/ Expire PROVE FALSE
  BY <1>2 DEF LeaseLapse, Expire, FirstLease, IInv, TypeOK
<1>3. ASSUME NEW p \in Procs, Crash(p) PROVE OwnerAlone'
  <2>1. rec' = rec /\ seen' = seen /\ got' = got
    BY <1>3 DEF Crash, store
  <2>2. \A q \in Reqs : pc'[q] = pc[q] \/ pc'[q] = "done"
    BY <1>3 DEF Crash
  <2>3. Owners' \subseteq Owners
    BY <2>2 DEF Owners, Pre
  <2>4. \A q \in Owners' : MinePending(q)'
    BY <2>1, <2>3 DEF OwnerAlone, MinePending, Mine
  <2> QED
    BY <2>1, <2>2, <2>3, <2>4 DEF OwnerAlone
<1>4. ASSUME UNCHANGED vars PROVE OwnerAlone'
  <2>1. UNCHANGED <<rec, pc, seen, got>>
    BY <1>4 DEF vars, store, calls
  <2>2. Owners' = Owners
    BY <2>1 DEF Owners
  <2>3. \A q \in Owners' : MinePending(q)'
    BY <2>1, <2>2 DEF OwnerAlone, MinePending, Mine
  <2> QED
    BY <2>1, <2>2, <2>3 DEF OwnerAlone
<1> QED
  BY <1>1, <1>2, <1>3, <1>4 DEF Next

\* A new store has no owner.
LEMMA SoleInit == Init => OwnerAlone
<1> SUFFICES ASSUME Init PROVE OwnerAlone
  OBVIOUS
<1>1. Owners = {}
  BY DEF Init, Owners, Pre
<1> QED
  BY <1>1 DEF Init, OwnerAlone, NoRecord

\* The bounds only grow.
LEMMA FirstLeaseBack ==
  ASSUME IInv, [Next]_vars, FirstLease'
  PROVE  FirstLease
<1> USE DEF IInv, TypeOK
<1>1. ASSUME NEW r \in Reqs, ClaimStep(r) PROVE lapses' = lapses /\ expiries' = expiries
  BY <1>1 DEF ClaimStep, Lookup, CheckFlight, ReadTombstone, ReadRecord, InsertRecord,
       RereadRecord, RecheckFlight, TakeOver, ReadLoser, SetFlight, bounds
<1>2. ASSUME NEW r \in Reqs, OwnerStep(r) PROVE lapses' = lapses /\ expiries' = expiries
  BY <1>2 DEF OwnerStep, RunPreflight, AbandonRecord, ReleaseAbandoned, StartHandler,
       HandlerReturns, CompleteRecord, ReleaseCompleted, MarkInDoubt, ReleaseMarked,
       LeaveTombstone, bounds
<1>3. ASSUME NEW r \in Reqs, WaiterStep(r) \/ GiveUp(r) \/ FailClaim(r) \/ CallPanics(r)
      PROVE  lapses' = lapses /\ expiries' = expiries
  BY <1>3 DEF WaiterStep, WakeWaiter, ReadAfterWait, GiveUp, FailClaim, CallPanics, bounds
<1>4. ASSUME LeaseLapse \/ Expire PROVE FALSE
  BY <1>4 DEF LeaseLapse, Expire, FirstLease
<1>5. ASSUME NEW p \in Procs, Crash(p) PROVE lapses' = lapses /\ expiries' = expiries
  BY <1>5 DEF Crash
<1>6. ASSUME UNCHANGED vars PROVE lapses' = lapses /\ expiries' = expiries
  BY <1>6 DEF vars, bounds
<1> QED
  BY <1>1, <1>2, <1>3, <1>4, <1>5, <1>6 DEF Next, CallStep, FirstLease

\* There is one owner at most, across processes, crashes and faults, as long
\* as no lease elapses and no row expires (Claim, Complete, Abandon).
THEOREM OneOwner == Spec => []SoleOwner
<1>1. Init => SoleOwner
  BY SoleInit DEF SoleOwner
<1>2. IInv /\ SoleOwner /\ [Next]_vars => SoleOwner'
  BY SoleNext, FirstLeaseBack DEF SoleOwner
<1> QED
  BY <1>1, <1>2, Invariant, PTL DEF Spec

\* Under the same condition all calls that get a response get the same one
\* (the replay of withCleanIdempotency).
THEOREM Agreement == Spec => []AnswersAgree
<1>1. SoleOwner => AnswersAgree
  BY DEF SoleOwner, OwnerAlone, AnswersAgree
<1> QED
  BY <1>1, OneOwner, PTL

\* Both at once: as long as no lease elapses and no row expires, whoever retries
\* finds the one owner or its answer.
THEOREM OwnedOnce == Spec => []OneOwnerOneAnswer
<1>1. SoleOwner /\ AnswersAgree => OneOwnerOneAnswer
  BY DEF OneOwnerOneAnswer
<1> QED
  BY <1>1, OneOwner, Agreement, PTL

\* Under the same condition a completed row is never written again (Complete
\* and MarkInDoubt do not check the state they overwrite).
THEOREM Final == Spec => CompletedFinal
<1>1. IInv /\ SoleOwner /\ [Next]_vars
        => [FirstLease' /\ rec.state \in Completed => rec' = rec]_vars
  <2> SUFFICES ASSUME IInv, SoleOwner, Next, FirstLease', rec.state \in Completed
               PROVE  rec' = rec
    OBVIOUS
  <2>a. OwnerAlone
    BY FirstLeaseBack DEF SoleOwner
  <2>0. rec.state # "none" /\ rec.state # "pending"
    BY DEF Completed
  <2>1. \A r \in Reqs : r \notin Owners
    BY <2>a, <2>0 DEF OwnerAlone, MinePending
  <2>2. ASSUME NEW r \in Reqs, CallStep(r) \/ GiveUp(r) \/ FailClaim(r) \/ CallPanics(r) PROVE rec' = rec
    <3>1. ASSUME AbandonRecord(r) \/ CompleteRecord(r) \/ MarkInDoubt(r) PROVE FALSE
      BY <3>1, <2>1 DEF AbandonRecord, CompleteRecord, MarkInDoubt, Owners, Pre
    <3>2. CASE InsertRecord(r) \/ TakeOver(r)
      BY <3>2, <2>0 DEF InsertRecord, TakeOver, MinePending, store
    <3>3. CASE \/ Lookup(r) \/ CheckFlight(r) \/ ReadTombstone(r) \/ ReadRecord(r)
               \/ RereadRecord(r) \/ RecheckFlight(r) \/ ReadLoser(r) \/ SetFlight(r)
               \/ RunPreflight(r) \/ ReleaseAbandoned(r) \/ StartHandler(r) \/ HandlerReturns(r)
               \/ ReleaseCompleted(r) \/ ReleaseMarked(r) \/ LeaveTombstone(r)
               \/ WaiterStep(r) \/ GiveUp(r) \/ FailClaim(r) \/ CallPanics(r)
      BY <3>3 DEF Lookup, CheckFlight, ReadTombstone, ReadRecord, RereadRecord, RecheckFlight,
           ReadLoser, SetFlight, RunPreflight, ReleaseAbandoned, StartHandler, HandlerReturns,
           ReleaseCompleted, ReleaseMarked, LeaveTombstone, WaiterStep, WakeWaiter,
           ReadAfterWait, GiveUp, FailClaim, CallPanics, store
    <3> QED
      BY <2>2, <3>1, <3>2, <3>3 DEF CallStep, ClaimStep, OwnerStep
  <2>3. ASSUME LeaseLapse \/ Expire PROVE FALSE
    BY <2>3 DEF LeaseLapse, Expire, FirstLease, IInv, TypeOK
  <2>4. ASSUME NEW p \in Procs, Crash(p) PROVE rec' = rec
    BY <2>4 DEF Crash, store
  <2> QED
    BY <2>2, <2>3, <2>4 DEF Next
<1> QED
  BY <1>1, OneOwner, Invariant, PTL DEF Spec, CompletedFinal

-----------------------------------------------------------------------------
(* The answers of a tool without a preflight, while no claim is slow. *)

\* Labels of calls that found neither a flight nor a tombstone in their process, and
\* of those that own the record.
Claiming == {"read", "insert", "reread", "recheck", "takeover", "reget"}
Owning == {"setflight", "handler", "running", "complete", "finish", "mark", "markfinish", "markdefer"}

\* Written by one of those that are still in their claim: no time has passed since.
JustWritten == rec.state # "none" /\ ~rec.lapsed

NoPreflight == \A r \in Reqs : pc[r] \notin {"preflight", "abandon", "release"}
OneOwnerEach == \A q, r \in Reqs : Home[q] = Home[r] /\ pc[q] \in Owning /\ pc[r] \in Owning => q = r

\* The flight of a process is the owner it has, or one whose handler panicked.
FlightIsOwner ==
  /\ \A p \in Procs : flight[p] # None =>
       flight[p] \in Reqs /\ Home[flight[p]] = p /\ pc[flight[p]] \in (Owning \ {"setflight"}) \cup {"done"}
  /\ \A r \in Reqs : pc[r] \in Owning \ {"setflight", "markdefer"} => flight[Home[r]] = r
  /\ \A r \in Reqs : pc[r] = "markdefer" => flight[Home[r]] \in {r, None}

\* A process of which the claimants have not seen all: it has an owner, a flight or
\* a tombstone.
Taken(p) == uncertain[p] # None \/ flight[p] # None \/ \E q \in Reqs : Home[q] = p /\ pc[q] \in Owning

\* Who looked before its process had any of them comes too late: it can neither
\* insert the row nor take it over.
ClaimsTooLate == \A r \in Reqs : pc[r] \in Claiming /\ Taken(Home[r]) => JustWritten

\* An owner whose flight is not in the map has just written the row.
WrittenNow ==
  \A r \in Reqs :
    /\ pc[r] = "setflight" => JustWritten
    /\ pc[r] = "markfinish" => JustWritten /\ rec.state # "pending"
    /\ pc[r] = "markdefer" /\ flight[Home[r]] = None => JustWritten /\ rec.state # "pending"

\* Nobody behind a tombstone is about to run the handler.
NoTombstone == \A r \in Reqs : pc[r] \in {"setflight", "handler"} => uncertain[Home[r]] = None

OwnersApart == NoPreflight /\ OneOwnerEach /\ FlightIsOwner /\ ClaimsTooLate /\ WrittenNow /\ NoTombstone

\* The row keeps its parameters: who waits for it, owns it or has its flight asked for
\* them, and its response was given for them.
Asked == {"waiting", "waitread"} \cup Owning
AnswersFit ==
  /\ rec.response # None => rec.response \in Reqs /\ Fingerprint[rec.response] = rec.fp
  /\ \A r \in Reqs : pc[r] \in Asked => Mine(r)
  /\ \A p \in Procs : flight[p] # None => Mine(flight[p])
  /\ ReplayMatchesRequest

\* A call that does not own the record looks, waits, or ends.
LEMMA LooksApart ==
  ASSUME TypeOK, OwnersApart, NEW r \in Reqs, NEW l \in PC, Goto(r, l),
         pc[r] \notin Owning \cup {"done"}, l \notin Owning \cup {"preflight", "abandon", "release"},
         UNCHANGED <<rec, flight, uncertain>>,
         l \in Claiming => pc[r] \in Claiming \/ (flight[Home[r]] = None /\ uncertain[Home[r]] = None)
  PROVE  OwnersApart'
<1>1. \A q \in Reqs : pc'[q] = IF q = r THEN l ELSE pc[q]
  BY DEF TypeOK, Goto
<1>2. NoPreflight' /\ OneOwnerEach' /\ NoTombstone'
  BY <1>1 DEF OwnersApart, NoPreflight, OneOwnerEach, NoTombstone, Owning
<1>3. FlightIsOwner'
  BY <1>1 DEF OwnersApart, FlightIsOwner, Owning
<1>4. WrittenNow'
  BY <1>1 DEF OwnersApart, WrittenNow, JustWritten, Owning
<1>5. ASSUME NEW q \in Reqs, pc'[q] \in Claiming,
             Taken(Home[q])'
      PROVE  JustWritten'
  <2>1. Taken(Home[q])
    BY <1>1, <1>5, ConstantsAssumption DEF Taken
  <2>2. CASE pc[q] \in Claiming
    BY <2>1, <2>2 DEF OwnersApart, ClaimsTooLate, JustWritten
  <2>3. CASE pc[q] \notin Claiming
    <3>1. q = r /\ flight[Home[r]] = None /\ uncertain[Home[r]] = None
      BY <1>1, <1>5, <2>3
    <3>2. PICK o \in Reqs : Home[o] = Home[r] /\ pc[o] \in Owning
      BY <2>1, <3>1 DEF Taken
    <3>3. pc[o] \in {"setflight", "markdefer"}
      BY <3>1, <3>2, ConstantsAssumption DEF OwnersApart, FlightIsOwner
    <3> QED
      BY <3>1, <3>2, <3>3 DEF OwnersApart, WrittenNow, JustWritten
  <2> QED
    BY <2>2, <2>3
<1> QED
  BY <1>2, <1>3, <1>4, <1>5 DEF OwnersApart, ClaimsTooLate

\* A claimant inserts the row, or takes over one whose lease is over: no other call of
\* its process owns it, and none has left a tombstone.
LEMMA WinsApart ==
  ASSUME TypeOK, OwnersApart, NEW r \in Reqs, Goto(r, "setflight"), pc[r] \in Claiming,
         UNCHANGED <<flight, uncertain>>, ~JustWritten, JustWritten'
  PROVE  OwnersApart'
<1>1. \A q \in Reqs : pc'[q] = IF q = r THEN "setflight" ELSE pc[q]
  BY DEF TypeOK, Goto
<1>2. uncertain[Home[r]] = None /\ \A q \in Reqs : Home[q] = Home[r] => pc[q] \notin Owning
  BY DEF OwnersApart, ClaimsTooLate, Taken
<1>3. NoPreflight' /\ OneOwnerEach' /\ NoTombstone'
  BY <1>1, <1>2 DEF OwnersApart, NoPreflight, OneOwnerEach, NoTombstone, Owning
<1>4. FlightIsOwner'
  <2>1. r \notin {q \in Reqs : pc[q] \in Owning}
    BY <1>2
  <2> QED
    BY <1>1, <2>1 DEF OwnersApart, FlightIsOwner, Owning, Claiming
<1>5. WrittenNow'
  BY <1>1 DEF OwnersApart, WrittenNow
<1>6. ClaimsTooLate'
  BY DEF ClaimsTooLate
<1> QED
  BY <1>3, <1>4, <1>5, <1>6 DEF OwnersApart

\* An owner runs the handler and writes the row.
LEMMA OwnsApart ==
  ASSUME TypeOK, OwnersApart, NEW r \in Reqs, NEW l, Goto(r, l),
         pc[r] \in {"handler", "running", "complete", "mark"},
         l \in {"running", "complete", "finish", "mark", "markfinish", "markdefer"},
         UNCHANGED <<flight, uncertain>>,
         (rec' = rec /\ l # "markfinish") \/ (JustWritten' /\ rec'.state # "pending")
  PROVE  OwnersApart'
<1>1. \A q \in Reqs : pc'[q] = IF q = r THEN l ELSE pc[q]
  BY DEF TypeOK, Goto
<1>2. pc[r] \in Owning /\ l \in Owning /\ l \notin Claiming /\ flight[Home[r]] = r /\ r # None
  BY ConstantsAssumption DEF OwnersApart, FlightIsOwner, Owning, Claiming
<1>3. NoPreflight' /\ OneOwnerEach' /\ NoTombstone'
  BY <1>1, <1>2 DEF OwnersApart, NoPreflight, OneOwnerEach, NoTombstone
<1>4. FlightIsOwner'
  BY <1>1, <1>2 DEF OwnersApart, FlightIsOwner
<1>5. WrittenNow'
  BY <1>1, <1>2 DEF OwnersApart, WrittenNow, JustWritten
<1>6. ClaimsTooLate'
  BY <1>1, <1>2 DEF OwnersApart, ClaimsTooLate, JustWritten, Taken
<1> QED
  BY <1>3, <1>4, <1>5, <1>6 DEF OwnersApart

\* An owner registers its flight.
LEMMA FliesApart ==
  ASSUME TypeOK, OwnersApart, NEW r \in Reqs, Goto(r, "handler"), pc[r] = "setflight",
         flight' = [flight EXCEPT ![Home[r]] = r], UNCHANGED <<rec, uncertain>>
  PROVE  OwnersApart'
<1>1. \A q \in Reqs : pc'[q] = IF q = r THEN "handler" ELSE pc[q]
  BY DEF TypeOK, Goto
<1>2. \A p \in Procs : flight'[p] = IF p = Home[r] THEN r ELSE flight[p]
  BY DEF TypeOK
<1>3. pc[r] \in Owning /\ r # None /\ \A q \in Reqs : Home[q] \in Procs
  BY ConstantsAssumption DEF Owning
<1>4. \A q \in Reqs : Home[q] = Home[r] /\ pc[q] \in Owning => q = r
  BY <1>3 DEF OwnersApart, OneOwnerEach
<1>5. NoPreflight' /\ OneOwnerEach' /\ NoTombstone'
  BY <1>1, <1>3 DEF OwnersApart, NoPreflight, OneOwnerEach, NoTombstone
<1>6. FlightIsOwner'
  BY <1>1, <1>2, <1>3, <1>4 DEF OwnersApart, FlightIsOwner, Owning
<1>7. WrittenNow'
  BY <1>1, <1>2, <1>3, <1>4 DEF OwnersApart, WrittenNow, JustWritten
<1>8. ClaimsTooLate'
  BY <1>1, <1>2, <1>3 DEF OwnersApart, ClaimsTooLate, JustWritten, Claiming, Taken
<1> QED
  BY <1>5, <1>6, <1>7, <1>8 DEF OwnersApart

\* An owner releases the flight of its process, and goes; a tombstone may be left.
LEMMA ReleasesApart ==
  ASSUME TypeOK, OwnersApart, NEW r \in Reqs, NEW l, Goto(r, l),
         pc[r] \in {"finish", "markfinish", "markdefer"},
         l = "done" \/ (l = "markdefer" /\ pc[r] = "markfinish"),
         flight' = [flight EXCEPT ![Home[r]] = None], rec' = rec,
         uncertain' = uncertain \/ (l = "done" /\ uncertain' = [uncertain EXCEPT ![Home[r]] = Fingerprint[r]])
  PROVE  OwnersApart'
<1>1. \A q \in Reqs : pc'[q] = IF q = r THEN l ELSE pc[q]
  BY DEF TypeOK, Goto
<1>2. \A p \in Procs : flight'[p] = IF p = Home[r] THEN None ELSE flight[p]
  BY DEF TypeOK
<1>3. pc[r] \in Owning /\ l \notin Claiming /\ r # None /\ \A q \in Reqs : Home[q] \in Procs
  BY ConstantsAssumption DEF Owning, Claiming
<1>4. \A q \in Reqs : Home[q] = Home[r] /\ pc[q] \in Owning => q = r
  BY <1>3 DEF OwnersApart, OneOwnerEach
<1>5. \A q \in Reqs : pc'[q] \in Owning => pc[q] \in Owning
  BY <1>1, <1>3
<1>6. NoPreflight' /\ OneOwnerEach'
  BY <1>1, <1>5 DEF OwnersApart, NoPreflight, OneOwnerEach
<1>7. NoTombstone'
  <2>1. ASSUME NEW q \in Reqs, pc'[q] \in {"setflight", "handler"} PROVE uncertain'[Home[q]] = None
    <3>1. q # r /\ pc[q] \in {"setflight", "handler"}
      BY <1>1, <2>1
    <3>2. Home[q] # Home[r] /\ uncertain[Home[q]] = None
      BY <1>4, <3>1 DEF OwnersApart, NoTombstone, Owning
    <3> QED
      BY <1>3, <3>2 DEF TypeOK
  <2> QED
    BY <2>1 DEF NoTombstone
<1>8. FlightIsOwner'
  BY <1>1, <1>2, <1>3, <1>4 DEF OwnersApart, FlightIsOwner, Owning
<1>9. WrittenNow'
  <2>1. ASSUME NEW q \in Reqs, q # r, pc[q] = "markdefer", flight'[Home[q]] = None
        PROVE  JustWritten /\ rec.state # "pending"
    <3>1. Home[q] # Home[r]
      BY <1>4, <2>1 DEF Owning
    <3>2. flight[Home[q]] = None
      BY <1>2, <1>3, <2>1, <3>1
    <3> QED
      BY <2>1, <3>2 DEF OwnersApart, WrittenNow
  <2> QED
    BY <1>1, <2>1 DEF OwnersApart, WrittenNow, JustWritten
<1>10. ClaimsTooLate'
  <2>1. ASSUME NEW q \in Reqs, pc'[q] \in Claiming,
               Taken(Home[q])'
        PROVE  JustWritten
    <3>1. pc[q] \in Claiming
      BY <1>1, <1>3, <2>1
    <3>2. uncertain'[Home[q]] = uncertain[Home[q]] \/ Home[q] = Home[r]
      BY <1>3 DEF TypeOK
    <3>3. Taken(Home[q])
      BY <1>2, <1>3, <1>5, <2>1, <3>2 DEF Taken
    <3> QED
      BY <3>1, <3>3 DEF OwnersApart, ClaimsTooLate
  <2> QED
    BY <2>1 DEF ClaimsTooLate, JustWritten
<1> QED
  BY <1>6, <1>7, <1>8, <1>9, <1>10 DEF OwnersApart

\* An owner whose handler panics leaves its flight behind, and the row as it is.
LEMMA PanicsApart ==
  ASSUME TypeOK, OwnersApart, NEW r \in Reqs, Goto(r, "done"), pc[r] = "running",
         UNCHANGED <<rec, flight, uncertain>>
  PROVE  OwnersApart'
<1>1. \A q \in Reqs : pc'[q] = IF q = r THEN "done" ELSE pc[q]
  BY DEF TypeOK, Goto
<1>2. NoPreflight' /\ OneOwnerEach' /\ NoTombstone'
  BY <1>1 DEF OwnersApart, NoPreflight, OneOwnerEach, NoTombstone, Owning
<1>3. FlightIsOwner'
  BY <1>1 DEF OwnersApart, FlightIsOwner, Owning
<1>4. WrittenNow'
  BY <1>1 DEF OwnersApart, WrittenNow, JustWritten
<1>5. ClaimsTooLate'
  BY <1>1 DEF OwnersApart, ClaimsTooLate, JustWritten, Taken, Claiming, Owning
<1> QED
  BY <1>2, <1>3, <1>4, <1>5 DEF OwnersApart

\* Time passes only while nobody claims, or has just written the row; a dead process
\* has neither calls nor a flight nor a tombstone.
LEMMA EnvironmentApart ==
  ASSUME TypeOK, OwnersApart, ~SlowClaims,
         LeaseLapse \/ Expire \/ \E p \in Procs : Crash(p)
  PROVE  OwnersApart'
<1>1. CASE LeaseLapse \/ Expire
  <2>1. \A r \in Reqs : pc[r] \notin Claiming \cup {"setflight", "markfinish", "markdefer"}
    BY <1>1 DEF LeaseLapse, Expire, TimePasses, Brief, InClaim, Post, Claiming
  <2>2. UNCHANGED <<pc, flight, uncertain>>
    BY <1>1 DEF LeaseLapse, Expire, memory, calls
  <2>3. NoPreflight' /\ OneOwnerEach' /\ FlightIsOwner' /\ NoTombstone'
    BY <2>2 DEF OwnersApart, NoPreflight, OneOwnerEach, FlightIsOwner, NoTombstone
  <2>4. ClaimsTooLate' /\ WrittenNow'
    BY <2>1, <2>2 DEF ClaimsTooLate, WrittenNow, Taken
  <2> QED
    BY <2>3, <2>4 DEF OwnersApart
<1>2. ASSUME NEW p \in Procs, Crash(p) PROVE OwnersApart'
  <2>1. rec' = rec /\ \A q \in Procs : /\ flight'[q] = IF q = p THEN None ELSE flight[q]
                                       /\ uncertain'[q] = IF q = p THEN None ELSE uncertain[q]
    BY <1>2 DEF Crash, store, TypeOK
  <2>2. \A r \in Reqs : /\ Home[r] \in Procs
                        /\ pc'[r] = pc[r] \/ pc'[r] = "done"
                        /\ Home[r] # p => pc'[r] = pc[r]
                        /\ Home[r] = p => pc'[r] \in {"idle", "done"}
    BY <1>2, ConstantsAssumption DEF Crash
  <2>3. "idle" \notin Owning \cup Claiming /\ "done" \notin Owning \cup Claiming
    BY DEF Owning, Claiming
  <2>4. NoPreflight' /\ OneOwnerEach'
    BY <2>2, <2>3 DEF OwnersApart, NoPreflight, OneOwnerEach
  <2>5. FlightIsOwner'
    <3>1. ASSUME NEW q \in Procs, flight'[q] # None
          PROVE  flight'[q] \in Reqs /\ Home[flight'[q]] = q /\ pc'[flight'[q]] \in (Owning \ {"setflight"}) \cup {"done"}
      BY <2>1, <2>2, <3>1 DEF OwnersApart, FlightIsOwner
    <3>2. ASSUME NEW r \in Reqs, pc'[r] \in Owning \ {"setflight", "markdefer"}
          PROVE  flight'[Home[r]] = r
      BY <2>1, <2>2, <2>3, <3>2 DEF OwnersApart, FlightIsOwner
    <3>3. ASSUME NEW r \in Reqs, pc'[r] = "markdefer"
          PROVE  flight'[Home[r]] \in {r, None}
      BY <2>1, <2>2, <3>3 DEF OwnersApart, FlightIsOwner
    <3> QED
      BY <3>1, <3>2, <3>3 DEF FlightIsOwner
  <2>6. NoTombstone'
    BY <2>1, <2>2 DEF OwnersApart, NoTombstone
  <2>7. WrittenNow'
    BY <2>1, <2>2 DEF OwnersApart, WrittenNow, JustWritten
  <2>8. ClaimsTooLate'
    <3>1. ASSUME NEW r \in Reqs, pc'[r] \in Claiming,
                 Taken(Home[r])'
          PROVE  JustWritten
      <4>1. Home[r] # p /\ pc[r] \in Claiming
        BY <2>2, <2>3, <3>1
      <4>2. Taken(Home[r])
        BY <2>1, <2>2, <2>3, <3>1, <4>1 DEF Taken
      <4> QED
        BY <2>1, <4>1, <4>2 DEF OwnersApart, ClaimsTooLate
    <3> QED
      BY <2>1, <3>1 DEF ClaimsTooLate, JustWritten
  <2> QED
    BY <2>4, <2>5, <2>6, <2>7, <2>8 DEF OwnersApart
<1> QED
  BY <1>1, <1>2

\* A step of a call keeps the owners apart,
LEMMA CallsApart ==
  ASSUME IInv, OwnersApart, ~Preflight, NEW r \in Reqs, CallStep(r) \/ GiveUp(r) \/ FailClaim(r) \/ CallPanics(r)
  PROVE  OwnersApart'
<1> USE DEF IInv
<1>l. ASSUME NEW l \in PC, Goto(r, l), pc[r] \notin Owning \cup {"done"},
             l \notin Owning \cup {"preflight", "abandon", "release"},
             UNCHANGED <<rec, flight, uncertain>>,
             l \in Claiming => pc[r] \in Claiming \/ (flight[Home[r]] = None /\ uncertain[Home[r]] = None)
      PROVE  OwnersApart'
  BY <1>l, LooksApart
<1>1. CASE \/ Lookup(r) \/ CheckFlight(r) \/ ReadTombstone(r) \/ ReadRecord(r) \/ RereadRecord(r)
           \/ RecheckFlight(r) \/ ReadLoser(r)
  <2>1. pc[r] \notin Owning \cup {"done"} /\ UNCHANGED <<rec, flight, uncertain>>
    BY <1>1 DEF Lookup, CheckFlight, ReadTombstone, ReadRecord, RereadRecord, RecheckFlight, ReadLoser,
         InClaim, Owning, store, memory
  <2>2. CASE Goto(r, "done") \/ Goto(r, "claim") \/ Goto(r, "waiting") \/ Goto(r, "tomb")
    BY <1>l, <2>1, <2>2 DEF PC, InClaim, Owning, Claiming
  <2>3. CASE Goto(r, "read") /\ flight[Home[r]] = None /\ uncertain[Home[r]] = None
    BY <1>l, <2>1, <2>3 DEF PC, InClaim, Owning
  <2>4. CASE pc[r] \in Claiming /\ (Goto(r, "insert") \/ Goto(r, "recheck") \/ Goto(r, "takeover"))
    BY <1>l, <2>1, <2>4 DEF PC, InClaim, Owning
  <2> QED
    BY <1>1, <2>2, <2>3, <2>4
       DEF Lookup, CheckFlight, ReadTombstone, ReadRecord, RereadRecord, RecheckFlight, ReadLoser,
           Settled, Answer, GoOn, Claiming
<1>2. CASE WaiterStep(r) \/ GiveUp(r) \/ FailClaim(r)
  <2>1. pc[r] \notin Owning \cup {"done"} /\ UNCHANGED <<rec, flight, uncertain>>
    BY <1>2 DEF WaiterStep, WakeWaiter, ReadAfterWait, GiveUp, FailClaim, Owning, store, memory
  <2>2. Goto(r, "done") \/ Goto(r, "waitread")
    BY <1>2 DEF WaiterStep, WakeWaiter, ReadAfterWait, GiveUp, FailClaim, Answer, GoOn
  <2> QED
    BY <1>l, <2>1, <2>2 DEF PC, Owning, Claiming
<1>3. CASE InsertRecord(r)
  <2>1. pc[r] = "insert" /\ pc[r] \notin Owning /\ pc[r] \in Claiming /\ UNCHANGED <<flight, uncertain>>
    BY <1>3 DEF InsertRecord, memory, Owning, Claiming
  <2>2. CASE rec.state = "none"
    <3>1. Goto(r, "setflight") /\ Stamped(NewRow(r))
      BY <1>3, <2>2 DEF InsertRecord, GoOn
    <3>2. JustWritten'
      BY <3>1 DEF Stamped, NewRow, NoRecord, JustWritten
    <3> QED
      BY <2>1, <2>2, <3>1, <3>2, WinsApart DEF JustWritten
  <2>3. CASE rec.state # "none"
    <3>1. Goto(r, "reread") /\ rec' = rec
      BY <1>3, <2>3 DEF InsertRecord, GoOn, store
    <3> QED
      BY <1>l, <2>1, <3>1 DEF PC, InClaim, Owning
  <2> QED
    BY <2>2, <2>3
<1>4. CASE TakeOver(r)
  <2>1. pc[r] = "takeover" /\ pc[r] \notin Owning /\ pc[r] \in Claiming /\ UNCHANGED <<flight, uncertain>>
    BY <1>4 DEF TakeOver, memory, Owning, Claiming
  <2>2. CASE MinePending(r) /\ rec.stamp = seen[r].stamp
    <3>1. Goto(r, "setflight") /\ Stamped(rec)
      BY <1>4, <2>2 DEF TakeOver, GoOn
    <3>2. rec.state = "pending" /\ rec.lapsed
      BY <2>1, <2>2 DEF MinePending, SeenInv
    <3>3. JustWritten'
      BY <3>1, <3>2 DEF Stamped, JustWritten, TypeOK, Records
    <3> QED
      BY <2>1, <3>1, <3>2, <3>3, WinsApart DEF JustWritten
  <2>3. CASE ~(MinePending(r) /\ rec.stamp = seen[r].stamp)
    <3>1. Goto(r, "reget") /\ rec' = rec
      BY <1>4, <2>3 DEF TakeOver, GoOn, store
    <3> QED
      BY <1>l, <2>1, <3>1 DEF PC, InClaim, Owning
  <2> QED
    BY <2>2, <2>3
<1>5. CASE SetFlight(r)
  BY <1>5, FliesApart DEF SetFlight, GoOn, store
<1>6. CASE RunPreflight(r) \/ AbandonRecord(r) \/ ReleaseAbandoned(r)
  BY <1>6 DEF RunPreflight, AbandonRecord, ReleaseAbandoned, OwnersApart, NoPreflight
<1>o. ASSUME NEW l, Goto(r, l), pc[r] \in {"handler", "running", "complete", "mark"},
             l \in {"running", "complete", "finish", "mark", "markfinish", "markdefer"},
             UNCHANGED <<flight, uncertain>>,
             (rec' = rec /\ l # "markfinish") \/ (JustWritten' /\ rec'.state # "pending")
      PROVE  OwnersApart'
  BY <1>o, OwnsApart
<1>7. CASE StartHandler(r) \/ HandlerReturns(r)
  <2>1. pc[r] \in {"handler", "running"} /\ UNCHANGED <<rec, flight, uncertain>>
    BY <1>7 DEF StartHandler, HandlerReturns, store, memory
  <2>2. Goto(r, "running") \/ Goto(r, "complete") \/ Goto(r, "mark")
    BY <1>7 DEF StartHandler, HandlerReturns, GoOn
  <2> QED
    BY <1>o, <2>1, <2>2
<1>8. CASE CompleteRecord(r)
  <2>1. pc[r] = "complete" /\ UNCHANGED <<flight, uncertain>>
    BY <1>8 DEF CompleteRecord, memory
  <2>2. CASE Stamped([rec EXCEPT !.state = status[r], !.response = r]) /\ Goto(r, "finish")
    <3>1. status[r] \in Completed /\ rec \in Records
      BY DEF TypeOK
    <3>2. rec'.lapsed = FALSE /\ rec'.state = status[r]
      BY <2>2, <3>1 DEF Stamped, Records
    <3>3. JustWritten' /\ rec'.state # "pending"
      BY <3>1, <3>2 DEF JustWritten, Completed
    <3> QED
      BY <1>o, <2>1, <2>2, <3>3
  <2>3. CASE Goto(r, "mark") /\ rec' = rec
    BY <1>o, <2>1, <2>3
  <2> QED
    BY <1>8, <2>2, <2>3 DEF CompleteRecord, GoOn, store
<1>9. CASE MarkInDoubt(r)
  <2>1. pc[r] = "mark" /\ UNCHANGED <<flight, uncertain>>
    BY <1>9 DEF MarkInDoubt, memory
  <2>2. CASE Stamped([rec EXCEPT !.state = "in_doubt"]) /\ Goto(r, "markfinish")
    <3>1. rec'.lapsed = FALSE /\ rec'.state = "in_doubt"
      BY <2>2 DEF Stamped, Records, TypeOK
    <3>2. JustWritten' /\ rec'.state # "pending"
      BY <3>1 DEF JustWritten
    <3> QED
      BY <1>o, <2>1, <2>2, <3>2
  <2>3. CASE Goto(r, "markdefer") /\ rec' = rec
    BY <1>o, <2>1, <2>3
  <2> QED
    BY <1>9, <2>2, <2>3 DEF MarkInDoubt, GoOn, store
<1>10. CASE ReleaseCompleted(r) \/ ReleaseMarked(r)
  <2>1. /\ flight' = [flight EXCEPT ![Home[r]] = None] /\ rec' = rec /\ uncertain' = uncertain
        /\ pc[r] \in {"finish", "markfinish"}
    BY <1>10 DEF ReleaseCompleted, ReleaseMarked, FinishFlight, store
  <2>2. Goto(r, "done") \/ (Goto(r, "markdefer") /\ pc[r] = "markfinish")
    BY <1>10 DEF ReleaseCompleted, ReleaseMarked, Answer, GoOn
  <2> QED
    BY <2>1, <2>2, ReleasesApart
<1>11. CASE LeaveTombstone(r)
  <2>1. pc[r] = "markdefer" /\ Goto(r, "done") /\ rec' = rec /\ Home[r] \in Procs
    BY <1>11, ConstantsAssumption DEF LeaveTombstone, Answer, store
  <2>2. flight[Home[r]] \in {r, None}
    BY <2>1 DEF OwnersApart, OneOwnerEach, FlightIsOwner, Owning
  <2>3. /\ flight' = [flight EXCEPT ![Home[r]] = None]
        /\ uncertain' = uncertain \/ uncertain' = [uncertain EXCEPT ![Home[r]] = Fingerprint[r]]
    BY <1>11, <2>1, <2>2 DEF LeaveTombstone, memory, TypeOK
  <2> QED
    BY <2>1, <2>3, ReleasesApart
<1>12. CASE CallPanics(r)
  <2>1. pc[r] = "running" /\ Goto(r, "done") /\ UNCHANGED <<rec, flight, uncertain>>
    BY <1>12 DEF CallPanics, Answer, store, memory, OwnersApart, NoPreflight
  <2> QED
    BY <2>1, PanicsApart
<1> QED
  BY <1>1, <1>2, <1>3, <1>4, <1>5, <1>6, <1>7, <1>8, <1>9, <1>10, <1>11, <1>12
     DEF CallStep, ClaimStep, OwnerStep

\* A step of a call keeps the parameters of the row, if whoever it makes wait, own or
\* fly asked for them, and if it is answered with the row's response or its own.
LEMMA FitKept ==
  ASSUME TypeOK, AnswersFit, NEW r \in Reqs, NEW l, Goto(r, l), l \in Asked => Mine(r),
         got' = got \/ (\E q \in Reqs \cup {None} :
                          got' = [got EXCEPT ![r] = q] /\ (q # None => Fingerprint[q] = Fingerprint[r])),
         \A p \in Procs : flight'[p] \in {flight[p], None} \/ (flight'[p] = r /\ Mine(r)),
         \/ rec' = rec
         \/ /\ Mine(r) /\ rec'.state # "none" /\ rec'.fp = rec.fp
            /\ rec'.response \in {rec.response, r}
  PROVE  AnswersFit'
<1>1. \A q \in Reqs : pc'[q] = IF q = r THEN l ELSE pc[q]
  BY DEF TypeOK, Goto
<1>2. \A q : Mine(q) => Mine(q)'
  BY DEF Mine
<1>3. rec'.response # None => rec'.response \in Reqs /\ Fingerprint[rec'.response] = rec'.fp
  BY DEF AnswersFit, Mine
<1>4. \A q \in Reqs : pc'[q] \in Asked => Mine(q)'
  BY <1>1, <1>2 DEF AnswersFit
<1>5. \A p \in Procs : flight'[p] # None => Mine(flight[p]) \/ Mine(r)
  BY DEF AnswersFit
<1>6. ASSUME NEW p \in Procs, flight'[p] # None
      PROVE  rec'.state # "none" /\ rec'.fp = Fingerprint[flight'[p]]
  <2>1. Mine(flight'[p])
    BY <1>6 DEF AnswersFit
  <2> QED
    BY <2>1 DEF Mine
<1>7. ReplayMatchesRequest'
  BY DEF AnswersFit, ReplayMatchesRequest, TypeOK
<1> QED
  BY <1>3, <1>4, <1>6, <1>7 DEF AnswersFit, Mine

\* Where there is no row, there is nobody to ask for its parameters.
LEMMA FitInsert ==
  ASSUME TypeOK, AnswersFit, NEW r \in Reqs, InsertRecord(r), rec.state = "none"
  PROVE  AnswersFit'
<1>1. \A q \in Reqs : pc'[q] = IF q = r THEN "setflight" ELSE pc[q]
  BY DEF TypeOK, InsertRecord, GoOn, Goto
<1>2. rec'.state = "pending" /\ rec'.fp = Fingerprint[r] /\ rec'.response = None
  BY DEF InsertRecord, Stamped, NewRow, NoRecord
<1>3. \A q \in Reqs : pc[q] \notin Asked
  BY DEF AnswersFit, Mine
<1>4. \A p \in Procs : flight'[p] = None
  BY DEF AnswersFit, Mine, InsertRecord, memory
<1>5. ReplayMatchesRequest'
  BY DEF AnswersFit, ReplayMatchesRequest, InsertRecord, GoOn
<1> QED
  BY <1>1, <1>2, <1>3, <1>4, <1>5 DEF AnswersFit, Mine

\* A settled row gives its response to a call that asked for its parameters.
LEMMA SettledFits ==
  ASSUME TypeOK, AnswersFit, NEW r \in Reqs, Settled(r, rec)
  PROVE  /\ Goto(r, "done")
         /\ \E q \in Reqs \cup {None} :
              got' = [got EXCEPT ![r] = q] /\ (q # None => Fingerprint[q] = Fingerprint[r])
<1>1. rec.response \in Reqs \cup {None}
  BY DEF TypeOK, Records
<1>2. rec.response # None => Fingerprint[rec.response] = rec.fp
  BY DEF AnswersFit
<1> QED
  BY <1>1, <1>2 DEF Settled, Answer

\* The row keeps its parameters, as long as no row expires.
LEMMA CallsFit ==
  ASSUME TypeOK, OwnersApart, AnswersFit, ~Preflight,
         NEW r \in Reqs, CallStep(r) \/ GiveUp(r) \/ FailClaim(r) \/ CallPanics(r)
  PROVE  AnswersFit'
<1>f. \A f \in Reqs : Home[f] \in Procs /\ f # None
  BY ConstantsAssumption
<1>q. ASSUME NEW l, Goto(r, l), l \in Asked => Mine(r), UNCHANGED <<rec, flight>>,
             got' = got \/ (\E q \in Reqs \cup {None} :
                              got' = [got EXCEPT ![r] = q] /\ (q # None => Fingerprint[q] = Fingerprint[r]))
      PROVE  AnswersFit'
  BY <1>q, FitKept
<1>a. ASSUME NEW a, Answer(r, a, None), UNCHANGED <<rec, flight>> PROVE AnswersFit'
  BY <1>a, <1>q DEF Answer, Asked, Owning
<1>s. ASSUME Settled(r, rec), UNCHANGED <<rec, flight>> PROVE AnswersFit'
  BY <1>s, <1>q, SettledFits DEF Asked, Owning
<1>g. ASSUME NEW l, GoOn(r, l), l \in Asked => Mine(r), UNCHANGED <<rec, flight>> PROVE AnswersFit'
  BY <1>g, <1>q DEF GoOn
<1>w. ASSUME NEW f, f = flight[Home[r]], f # None, Fingerprint[f] = Fingerprint[r] PROVE Mine(r)
  BY <1>w, <1>f DEF AnswersFit, Mine
<1>o. pc[r] \in Owning => Mine(r)
  BY DEF AnswersFit, Asked
<1>1. CASE Lookup(r) \/ ReadTombstone(r) \/ ReadLoser(r)
  <2>1. UNCHANGED <<rec, flight>>
    BY <1>1 DEF Lookup, ReadTombstone, ReadLoser, store, memory
  <2>2. (\E a : Answer(r, a, None)) \/ Settled(r, rec) \/ GoOn(r, "claim")
    BY <1>1 DEF Lookup, ReadTombstone, ReadLoser
  <2> QED
    BY <1>a, <1>s, <1>g, <2>1, <2>2 DEF Asked, Owning
<1>2. CASE CheckFlight(r) \/ RecheckFlight(r)
  <2>1. UNCHANGED <<rec, flight>>
    BY <1>2 DEF CheckFlight, RecheckFlight, store, memory
  <2>2. \/ \E a : Answer(r, a, None)
        \/ GoOn(r, "tomb") \/ GoOn(r, "read") \/ GoOn(r, "takeover")
        \/ GoOn(r, "waiting") /\ flight[Home[r]] # None /\ Fingerprint[flight[Home[r]]] = Fingerprint[r]
    BY <1>2 DEF CheckFlight, RecheckFlight
  <2> QED
    BY <1>a, <1>g, <1>w, <2>1, <2>2 DEF Asked, Owning
<1>3. CASE ReadRecord(r) \/ RereadRecord(r)
  <2>1. UNCHANGED <<rec, flight>>
    BY <1>3 DEF ReadRecord, RereadRecord, store, memory
  <2>2. (\E a : Answer(r, a, None)) \/ Settled(r, rec) \/ GoOn(r, "insert") \/ GoOn(r, "recheck")
    BY <1>3 DEF ReadRecord, RereadRecord
  <2> QED
    BY <1>a, <1>s, <1>g, <2>1, <2>2 DEF Asked, Owning
<1>4. CASE InsertRecord(r) /\ rec.state # "none"
  BY <1>4, <1>g DEF InsertRecord, store, memory, Asked, Owning
<1>5. CASE InsertRecord(r) /\ rec.state = "none"
  BY <1>5, FitInsert
<1>r. ASSUME NEW l, GoOn(r, l), UNCHANGED flight, Mine(r), rec'.state # "none", rec'.fp = rec.fp,
             rec'.response \in {rec.response, r}
      PROVE  AnswersFit'
  BY <1>r, FitKept DEF GoOn
<1>6. CASE TakeOver(r)
  <2>1. CASE MinePending(r) /\ rec.stamp = seen[r].stamp
    <3>1. GoOn(r, "setflight") /\ Stamped(rec) /\ flight' = flight
      BY <1>6, <2>1 DEF TakeOver, memory
    <3>2. rec'.state = rec.state /\ rec'.fp = rec.fp /\ rec'.response = rec.response
      BY <3>1 DEF Stamped, TypeOK, Records
    <3> QED
      BY <1>r, <2>1, <3>1, <3>2 DEF MinePending, Mine
  <2>2. CASE ~(MinePending(r) /\ rec.stamp = seen[r].stamp)
    BY <1>6, <1>g, <2>2 DEF TakeOver, store, memory, Asked, Owning
  <2> QED
    BY <2>1, <2>2
<1>7. CASE SetFlight(r)
  <2>1. flight' = [flight EXCEPT ![Home[r]] = r] /\ rec' = rec /\ got' = got /\ Goto(r, "handler")
    BY <1>7 DEF SetFlight, GoOn, store
  <2>2. Mine(r)
    BY <1>7, <1>o DEF SetFlight, Owning
  <2>3. \A p \in Procs : flight'[p] \in {flight[p], None} \/ (flight'[p] = r /\ Mine(r))
    BY <2>1, <2>2 DEF TypeOK
  <2> QED
    BY <2>1, <2>2, <2>3, FitKept
<1>8. CASE RunPreflight(r) \/ AbandonRecord(r) \/ ReleaseAbandoned(r)
  BY <1>8 DEF RunPreflight, AbandonRecord, ReleaseAbandoned, OwnersApart, NoPreflight
<1>9. CASE StartHandler(r) \/ HandlerReturns(r)
  <2>1. Mine(r) /\ UNCHANGED <<rec, flight>>
    BY <1>9, <1>o DEF StartHandler, HandlerReturns, Owning, store, memory
  <2>2. \E l : GoOn(r, l)
    BY <1>9 DEF StartHandler, HandlerReturns
  <2> QED
    BY <1>g, <2>1, <2>2
<1>10. CASE CompleteRecord(r)
  <2>1. Mine(r) /\ flight' = flight
    BY <1>10, <1>o DEF CompleteRecord, Owning, memory
  <2>2. CASE Stamped([rec EXCEPT !.state = status[r], !.response = r]) /\ GoOn(r, "finish")
    <3>1. status[r] \in Completed /\ rec \in Records
      BY DEF TypeOK
    <3>2. rec'.state = status[r] /\ rec'.fp = rec.fp /\ rec'.response = r
      BY <2>2, <3>1 DEF Stamped, Records
    <3> QED
      BY <1>r, <2>1, <2>2, <3>1, <3>2 DEF Completed
  <2>3. CASE GoOn(r, "mark") /\ rec' = rec
    BY <1>g, <2>1, <2>3
  <2> QED
    BY <1>10, <2>2, <2>3 DEF CompleteRecord, store
<1>11. CASE MarkInDoubt(r)
  <2>1. Mine(r) /\ flight' = flight
    BY <1>11, <1>o DEF MarkInDoubt, Owning, memory
  <2>2. CASE Stamped([rec EXCEPT !.state = "in_doubt"]) /\ GoOn(r, "markfinish")
    <3>1. rec'.state = "in_doubt" /\ rec'.fp = rec.fp /\ rec'.response = rec.response
      BY <2>2 DEF Stamped, Records, TypeOK
    <3> QED
      BY <1>r, <2>1, <2>2, <3>1
  <2>3. CASE GoOn(r, "markdefer") /\ rec' = rec
    BY <1>g, <2>1, <2>3
  <2> QED
    BY <1>11, <2>2, <2>3 DEF MarkInDoubt, store
<1>12. CASE ReleaseCompleted(r) \/ ReleaseMarked(r) \/ LeaveTombstone(r)
  <2>1. Mine(r) /\ rec' = rec
    BY <1>12, <1>o DEF ReleaseCompleted, ReleaseMarked, LeaveTombstone, Owning, store
  <2>2. \A p \in Procs : flight'[p] \in {flight[p], None}
    BY <1>12 DEF ReleaseCompleted, ReleaseMarked, LeaveTombstone, FinishFlight, memory, TypeOK
  <2>3. Goto(r, "done") \/ Goto(r, "markdefer")
    BY <1>12 DEF ReleaseCompleted, ReleaseMarked, LeaveTombstone, Answer, GoOn
  <2>4. got' = got \/ got' = [got EXCEPT ![r] = r] \/ got' = [got EXCEPT ![r] = None]
    BY <1>12 DEF ReleaseCompleted, ReleaseMarked, LeaveTombstone, Answer, GoOn
  <2>5. got' = got \/ (\E q \in Reqs \cup {None} :
                         got' = [got EXCEPT ![r] = q] /\ (q # None => Fingerprint[q] = Fingerprint[r]))
    BY <2>4
  <2> QED
    BY <2>1, <2>2, <2>3, <2>5, FitKept
<1>13. CASE WakeWaiter(r)
  <2>1. pc[r] \in Asked /\ GoOn(r, "waitread") /\ UNCHANGED <<rec, flight>>
    BY <1>13 DEF WakeWaiter, Asked, store, memory
  <2> QED
    BY <1>g, <2>1 DEF AnswersFit
<1>14. CASE ReadAfterWait(r)
  <2>1. Mine(r) /\ UNCHANGED <<rec, flight>>
    BY <1>14 DEF ReadAfterWait, AnswersFit, Asked, store, memory
  <2>2. CASE Answer(r, "replay", rec.response)
    <3>1. rec.response \in Reqs \cup {None} /\ (rec.response # None => Fingerprint[rec.response] = Fingerprint[r])
      BY <2>1 DEF AnswersFit, Mine, TypeOK, Records
    <3> QED
      BY <1>q, <2>1, <2>2, <3>1 DEF Answer
  <2>3. CASE Answer(r, "in_progress", None)
    BY <1>a, <2>1, <2>3
  <2> QED
    BY <1>14, <2>2, <2>3 DEF ReadAfterWait
<1>15. CASE GiveUp(r) \/ FailClaim(r) \/ CallPanics(r)
  <2>1. (\E a : Answer(r, a, None)) /\ UNCHANGED <<rec, flight>>
    BY <1>15 DEF GiveUp, FailClaim, CallPanics, store, memory
  <2> QED
    BY <1>a, <2>1
<1> QED
  BY <1>1, <1>2, <1>3, <1>4, <1>5, <1>6, <1>7, <1>8, <1>9, <1>10, <1>11, <1>12, <1>13, <1>14, <1>15
     DEF CallStep, ClaimStep, OwnerStep, WaiterStep

\* So does time, while no row expires, and a crash.
LEMMA EnvironmentFits ==
  ASSUME TypeOK, AnswersFit, MaxExpiries = 0, LeaseLapse \/ Expire \/ \E p \in Procs : Crash(p)
  PROVE  AnswersFit'
<1>1. CASE Expire
  BY <1>1 DEF Expire, TypeOK
<1>2. CASE LeaseLapse
  <2>1. rec'.state = rec.state /\ rec'.fp = rec.fp /\ rec'.response = rec.response
    BY <1>2 DEF LeaseLapse, TypeOK, Records
  <2>2. UNCHANGED <<flight, pc, got>>
    BY <1>2 DEF LeaseLapse, memory, calls
  <2> QED
    BY <2>1, <2>2 DEF AnswersFit, Mine, ReplayMatchesRequest
<1>3. ASSUME NEW p \in Procs, Crash(p) PROVE AnswersFit'
  <2>1. rec' = rec /\ got' = got
    BY <1>3 DEF Crash, store
  <2>2. \A q \in Reqs : pc'[q] \in {pc[q], "done"}
    BY <1>3 DEF Crash
  <2>3. \A q \in Procs : flight'[q] \in {flight[q], None}
    BY <1>3 DEF Crash, TypeOK
  <2> QED
    BY <2>1, <2>2, <2>3 DEF AnswersFit, Mine, ReplayMatchesRequest, Asked, Owning
<1> QED
  BY <1>1, <1>2, <1>3

\* The invariant behind the answers, at the start and after every step.
LEMMA ApartInit == Init => OwnersApart /\ AnswersFit
<1> SUFFICES ASSUME Init PROVE OwnersApart /\ AnswersFit
  OBVIOUS
<1>1. /\ \A r \in Reqs : pc[r] = "idle" /\ got[r] = None
      /\ \A p \in Procs : flight[p] = None /\ uncertain[p] = None
      /\ rec = NoRecord
  BY DEF Init
<1>2. OwnersApart
  BY <1>1 DEF OwnersApart, NoPreflight, OneOwnerEach, FlightIsOwner, ClaimsTooLate, WrittenNow, NoTombstone,
       Claiming, Owning
<1>3. AnswersFit
  BY <1>1 DEF AnswersFit, NoRecord, Asked, Owning, ReplayMatchesRequest
<1> QED
  BY <1>2, <1>3

LEMMA ApartNext ==
  ASSUME ~Preflight, ~SlowClaims, IInv, OwnersApart, [Next]_vars
  PROVE  OwnersApart'
<1>1. CASE UNCHANGED vars
  BY <1>1 DEF vars, store, memory, calls, OwnersApart, NoPreflight, OneOwnerEach, FlightIsOwner, ClaimsTooLate,
       WrittenNow, NoTombstone, JustWritten, Taken
<1>2. CASE Next
  BY <1>2, CallsApart, EnvironmentApart DEF Next, IInv
<1> QED
  BY <1>1, <1>2

LEMMA FitNext ==
  ASSUME ~Preflight, MaxExpiries = 0, IInv, OwnersApart, AnswersFit, [Next]_vars
  PROVE  AnswersFit'
<1>1. CASE UNCHANGED vars
  BY <1>1 DEF vars, store, memory, calls, AnswersFit, Mine, ReplayMatchesRequest
<1>2. CASE Next
  BY <1>2, CallsFit, EnvironmentFits DEF Next, IInv
<1> QED
  BY <1>1, <1>2

\* Where the operation has no preflight and the statements of a claim take less than a
\* lease, no process runs the handler behind its own tombstone: neither after lapsed
\* leases nor after expired rows, crashes and faults (Claim and MarkInDoubt of store.go).
THEOREM TombstonesHold ==
  ASSUME ~Preflight, ~SlowClaims
  PROVE  Spec => [][TombstoneHolds]_vars
<1>1. Init => OwnersApart
  BY ApartInit
<1>2. IInv /\ OwnersApart /\ [Next]_vars => OwnersApart'
  BY ApartNext
<1>3. OwnersApart => [TombstoneHolds]_vars
  BY DEF OwnersApart, NoTombstone, TombstoneHolds
<1> QED
  BY <1>1, <1>2, <1>3, Invariant, PTL DEF Spec

\* If no row expires either, every response is given to a call with the parameters it
\* answers, also by Wait, which does not look at them: Claim lets nobody wait for
\* another row (Claim, Wait and Complete of store.go under withCleanIdempotency).
THEOREM KeyedAnswers ==
  ASSUME ~Preflight, ~SlowClaims, MaxExpiries = 0
  PROVE  Spec => KeyedAnswersHold
<1>1. Init => OwnersApart /\ AnswersFit
  BY ApartInit
<1>2. IInv /\ OwnersApart /\ AnswersFit /\ [Next]_vars => (OwnersApart /\ AnswersFit)'
  BY ApartNext, FitNext
<1>3. OwnersApart /\ AnswersFit' => [ReplayMatchesRequest' /\ TombstoneHolds]_vars
  BY DEF OwnersApart, NoTombstone, TombstoneHolds, AnswersFit
<1> QED
  BY <1>1, <1>2, <1>3, Invariant, PTL DEF Spec, KeyedAnswersHold

-----------------------------------------------------------------------------
(* The promise of a key (KeyPromise): every step of the store is a step of OnceKey, or none. *)

\* What was run has been counted, a completed row has a response, and a call has been
\* told nothing before its answer.
PromiseInv ==
  /\ \A r \in Reqs : pc[r] \in Post => started > 0
  /\ rec.state \in Completed => rec.response \in Reqs
  /\ \A r \in Reqs : pc[r] # "done" => got[r] = None

\* A step of a call answers it or moves it on; the handler is counted when it starts.
LEMMA CallShape ==
  ASSUME NEW r \in Reqs, CallStep(r) \/ GiveUp(r) \/ FailClaim(r) \/ CallPanics(r)
  PROVE  /\ pc[r] # "done" /\ UNCHANGED <<lapses, expiries>>
         /\ \/ UNCHANGED started
            \/ StartHandler(r) /\ started' = started + 1
         /\ \/ \E l : GoOn(r, l) /\ l # "done" /\ (l \in Post => pc[r] \in Post \/ StartHandler(r))
            \/ \E a, q : Answer(r, a, q)
<1>1. CASE \/ Lookup(r) \/ CheckFlight(r) \/ ReadTombstone(r) \/ ReadRecord(r) \/ RereadRecord(r)
           \/ RecheckFlight(r) \/ ReadLoser(r)
  <2>1. pc[r] # "done" /\ UNCHANGED <<lapses, expiries, started>>
    BY <1>1 DEF Lookup, CheckFlight, ReadTombstone, ReadRecord, RereadRecord, RecheckFlight, ReadLoser, bounds
  <2>2. \/ \E a, q : Answer(r, a, q)
        \/ \E l \in {"claim", "waiting", "tomb", "read", "insert", "recheck", "takeover"} : GoOn(r, l)
    BY <1>1 DEF Lookup, CheckFlight, ReadTombstone, ReadRecord, RereadRecord, RecheckFlight, ReadLoser, Settled
  <2> QED
    BY <2>1, <2>2 DEF Post
<1>2. CASE InsertRecord(r) \/ TakeOver(r) \/ SetFlight(r) \/ RunPreflight(r)
  <2>1. pc[r] # "done" /\ UNCHANGED <<lapses, expiries, started>>
    BY <1>2 DEF InsertRecord, TakeOver, SetFlight, RunPreflight, bounds
  <2>2. \E l \in {"setflight", "reread", "reget", "preflight", "handler", "abandon"} : GoOn(r, l)
    BY <1>2 DEF InsertRecord, TakeOver, SetFlight, RunPreflight
  <2> QED
    BY <2>1, <2>2 DEF Post
<1>3. CASE AbandonRecord(r) \/ ReleaseAbandoned(r) \/ WaiterStep(r) \/ GiveUp(r) \/ FailClaim(r) \/ CallPanics(r)
  <2>1. pc[r] # "done" /\ UNCHANGED <<lapses, expiries, started>>
    BY <1>3 DEF AbandonRecord, ReleaseAbandoned, WaiterStep, WakeWaiter, ReadAfterWait, GiveUp, FailClaim, CallPanics, bounds
  <2>2. (\E a, q : Answer(r, a, q)) \/ \E l \in {"release", "waitread"} : GoOn(r, l)
    BY <1>3 DEF AbandonRecord, ReleaseAbandoned, WaiterStep, WakeWaiter, ReadAfterWait, GiveUp, FailClaim, CallPanics
  <2> QED
    BY <2>1, <2>2 DEF Post
<1>4. CASE StartHandler(r)
  BY <1>4 DEF StartHandler, bounds
<1>5. CASE \/ HandlerReturns(r) \/ CompleteRecord(r) \/ ReleaseCompleted(r) \/ MarkInDoubt(r)
           \/ ReleaseMarked(r) \/ LeaveTombstone(r)
  <2>1. pc[r] \in Post /\ pc[r] # "done" /\ UNCHANGED <<lapses, expiries, started>>
    BY <1>5 DEF HandlerReturns, CompleteRecord, ReleaseCompleted, MarkInDoubt, ReleaseMarked, LeaveTombstone,
         bounds, Post
  <2>2. (\E a, q : Answer(r, a, q)) \/ \E l \in Post : GoOn(r, l)
    BY <1>5 DEF HandlerReturns, CompleteRecord, ReleaseCompleted, MarkInDoubt, ReleaseMarked, LeaveTombstone, Post
  <2> QED
    BY <2>1, <2>2 DEF Post
<1> QED
  BY <1>1, <1>2, <1>3, <1>4, <1>5 DEF CallStep, ClaimStep, OwnerStep

\* What a call does to the row.
LEMMA RowShape ==
  ASSUME TypeOK, NEW r \in Reqs, CallStep(r) \/ GiveUp(r) \/ FailClaim(r) \/ CallPanics(r)
  PROVE  \/ rec' = rec
         \/ /\ InsertRecord(r) /\ rec.state = "none" /\ rec'.state = "pending" /\ GoOn(r, "setflight")
         \/ /\ TakeOver(r) /\ rec.state = "pending" /\ rec'.state = "pending" /\ GoOn(r, "setflight")
         \/ /\ AbandonRecord(r) /\ rec.state = "pending" /\ rec'.state = "none" /\ GoOn(r, "release")
         \/ /\ CompleteRecord(r) /\ rec'.state \in Completed /\ rec'.response = r /\ GoOn(r, "finish")
         \/ /\ MarkInDoubt(r) /\ rec'.state = "in_doubt" /\ GoOn(r, "markfinish")
<1> USE DEF TypeOK
<1>1. CASE InsertRecord(r)
  BY <1>1 DEF InsertRecord, Stamped, NewRow, NoRecord, store
<1>2. CASE TakeOver(r)
  BY <1>2 DEF TakeOver, MinePending, Stamped, Records, store
<1>3. CASE AbandonRecord(r)
  BY <1>3 DEF AbandonRecord, MinePending, NoRecord
<1>4. CASE CompleteRecord(r)
  <2>1. CASE Stamped([rec EXCEPT !.state = status[r], !.response = r]) /\ GoOn(r, "finish")
    <3>1. status[r] \in Completed /\ rec \in Records
      OBVIOUS
    <3>2. rec'.state = status[r] /\ rec'.response = r
      BY <2>1, <3>1 DEF Stamped, Records
    <3> QED
      BY <1>4, <2>1, <3>1, <3>2
  <2>2. CASE rec' = rec
    BY <2>2
  <2> QED
    BY <1>4, <2>1, <2>2 DEF CompleteRecord, store
<1>5. CASE MarkInDoubt(r)
  <2>1. CASE Stamped([rec EXCEPT !.state = "in_doubt"]) /\ GoOn(r, "markfinish")
    BY <1>5, <2>1 DEF Stamped, Records
  <2>2. CASE rec' = rec
    BY <2>2
  <2> QED
    BY <1>5, <2>1, <2>2 DEF MarkInDoubt, store
<1>6. CASE \/ Lookup(r) \/ CheckFlight(r) \/ ReadTombstone(r) \/ ReadRecord(r)
           \/ RereadRecord(r) \/ RecheckFlight(r) \/ ReadLoser(r) \/ SetFlight(r)
           \/ RunPreflight(r) \/ ReleaseAbandoned(r) \/ StartHandler(r) \/ HandlerReturns(r)
           \/ ReleaseCompleted(r) \/ ReleaseMarked(r) \/ LeaveTombstone(r)
           \/ WaiterStep(r) \/ GiveUp(r) \/ FailClaim(r) \/ CallPanics(r)
  BY <1>6 DEF Lookup, CheckFlight, ReadTombstone, ReadRecord, RereadRecord, RecheckFlight,
       ReadLoser, SetFlight, RunPreflight, ReleaseAbandoned, StartHandler, HandlerReturns,
       ReleaseCompleted, ReleaseMarked, LeaveTombstone, WaiterStep, WakeWaiter,
       ReadAfterWait, GiveUp, FailClaim, CallPanics, store
<1> QED
  BY <1>1, <1>2, <1>3, <1>4, <1>5, <1>6 DEF CallStep, ClaimStep, OwnerStep

LEMMA PromiseInvInit == Init => PromiseInv
BY DEF Init, PromiseInv, Post, NoRecord, Completed

LEMMA PromiseInvNext ==
  ASSUME TypeOK, PromiseInv, [Next]_vars
  PROVE  PromiseInv'
<1> USE DEF TypeOK
<1>1. ASSUME NEW r \in Reqs, CallStep(r) \/ GiveUp(r) \/ FailClaim(r) \/ CallPanics(r) PROVE PromiseInv'
  <2>1. pc[r] # "done" /\ started' \in {started, started + 1} /\ (StartHandler(r) => started' = started + 1)
    BY <1>1, CallShape DEF StartHandler
  <2>2. rec'.state \in Completed => rec'.response \in Reqs
    BY <1>1, RowShape DEF PromiseInv, Completed
  <2>3. CASE \E l : GoOn(r, l) /\ l # "done" /\ (l \in Post => pc[r] \in Post \/ StartHandler(r))
    <3>1. PICK l : GoOn(r, l) /\ l # "done" /\ (l \in Post => pc[r] \in Post \/ StartHandler(r))
      BY <2>3
    <3>2. (\A q \in Reqs : pc'[q] = IF q = r THEN l ELSE pc[q]) /\ got' = got
      BY <3>1 DEF GoOn, Goto
    <3> QED
      BY <2>1, <2>2, <3>1, <3>2 DEF PromiseInv
  <2>4. CASE \E a, q : Answer(r, a, q)
    <3>1. \A q \in Reqs : /\ pc'[q] = IF q = r THEN "done" ELSE pc[q]
                          /\ q # r => got'[q] = got[q]
      BY <2>4 DEF Answer, Goto
    <3>2. "done" \notin Post
      BY DEF Post
    <3> QED
      BY <2>1, <2>2, <3>1, <3>2 DEF PromiseInv
  <2> QED
    BY <1>1, CallShape, <2>3, <2>4
<1>2. CASE LeaseLapse \/ Expire
  <2>1. UNCHANGED <<pc, got, started>>
    BY <1>2 DEF LeaseLapse, Expire, calls
  <2>2. rec'.state \in Completed => rec'.response \in Reqs
    BY <1>2 DEF LeaseLapse, Expire, NoRecord, Completed, Records
  <2> QED
    BY <2>1, <2>2 DEF PromiseInv
<1>3. ASSUME NEW p \in Procs, Crash(p) PROVE PromiseInv'
  <2>1. rec' = rec /\ UNCHANGED <<got, started>> /\ \A q \in Reqs : pc'[q] \in {pc[q], "done"}
    BY <1>3 DEF Crash, store
  <2> QED
    BY <2>1 DEF PromiseInv, Post
<1>4. CASE UNCHANGED vars
  BY <1>4 DEF vars, store, calls, PromiseInv
<1> QED
  BY <1>1, <1>2, <1>3, <1>4 DEF Next

\* What a row is to its callers.
LEMMA OutcomeIs ==
  /\ rec.state = "none" => Outcome = "free"
  /\ rec.state = "pending" => Outcome = "reserved"
  /\ rec.state = "in_doubt" => Outcome = "in_doubt"
  /\ rec.state \in Completed => Outcome = rec.response
BY DEF Outcome, Completed

LEMMA OutcomeBecomes ==
  /\ rec'.state = "none" => Outcome' = "free"
  /\ rec'.state = "pending" => Outcome' = "reserved"
  /\ rec'.state = "in_doubt" => Outcome' = "in_doubt"
  /\ rec'.state \in Completed => Outcome' = rec'.response
  /\ rec' = rec => Outcome' = Outcome
BY DEF Outcome, Completed

\* While no lease has elapsed, an owner that has not run the handler is the first to,
\* and one that has is the only one.
LEMMA RunsOnce ==
  ASSUME IInv, PromiseInv, FirstLease, NEW r \in Reqs
  PROVE  /\ pc[r] \in Pre => started = 0
         /\ pc[r] \in Post => started = 1
<1>1. started \in Nat /\ Cardinality(PreOwners) \in Nat /\ Bit(rec.lapsed) \in {0, 1} /\ Bit(rec.state # "none") \in {0, 1}
  BY PreFinite DEF IInv, TypeOK, Bit
<1>2. started + Cardinality(PreOwners) <= 1
  BY <1>1 DEF IInv, Budget, FirstLease
<1>3. pc[r] \in Pre => Cardinality(PreOwners) # 0
  BY PreFinite, FS_EmptySet DEF PreOwners
<1> QED
  BY <1>1, <1>2, <1>3 DEF PromiseInv

\* An answer that carries a response tells what is recorded.
LEMMA AnswerTells ==
  ASSUME IInv, PromiseInv, OwnerAlone', NEW r \in Reqs, NEW a, NEW q, Answer(r, a, q),
         pc[r] # "done", FirstLease, rec' = rec, UNCHANGED <<started, lapses, expiries>>,
         TypeOK'
  PROVE  [Promise!Next]_Promise!key
<1> USE DEF IInv, TypeOK
<1>1. Outcome' = Outcome /\ got[r] = None /\ got' = [got EXCEPT ![r] = q]
  BY OutcomeBecomes DEF PromiseInv, Answer
<1>2. CASE q = None
  <2>1. got' = got
    BY <1>1, <1>2
  <2> QED
    BY <1>1, <2>1 DEF Promise!key
<1>3. CASE q # None
  <2>1. got'[r] = q
    BY <1>1
  <2>2. rec.state \in Completed /\ rec.response = q
    BY <1>3, <2>1 DEF OwnerAlone
  <2>3. Outcome = q /\ q \in Reqs
    BY <2>2, OutcomeIs DEF PromiseInv
  <2>4. Promise!Tell(r)
    BY <1>1, <2>3 DEF Promise!Tell
  <2>5. lapses + expiries = 0 /\ (lapses + expiries)' = 0
    BY DEF FirstLease
  <2> QED
    BY <2>4, <2>5 DEF Promise!Next, Promise!Kept
<1> QED
  BY <1>2, <1>3

\* A step of a call while no lease has elapsed and no row expired.
LEMMA CallKeepsPromise ==
  ASSUME IInv, IInv', PromiseInv, OwnerAlone, OwnerAlone', FirstLease,
         NEW r \in Reqs, CallStep(r) \/ GiveUp(r) \/ FailClaim(r) \/ CallPanics(r)
  PROVE  [Promise!Next]_Promise!key
<1> USE DEF IInv
<1>b. UNCHANGED <<lapses, expiries>> /\ lapses + expiries = 0 /\ (lapses + expiries)' = 0
  BY CallShape DEF FirstLease
<1>k. ASSUME Promise!Reserve \/ Promise!Withdraw \/ Promise!Run \/ Promise!Settle PROVE Promise!Next
  BY <1>b, <1>k DEF Promise!Next, Promise!Kept
<1>1. CASE StartHandler(r)
  <2>1. pc[r] = "handler" /\ started' = started + 1 /\ rec' = rec /\ got' = got
    BY <1>1 DEF StartHandler, GoOn, store
  <2>2. started = 0 /\ rec.state = "pending"
    BY <2>1, RunsOnce DEF Pre, OwnerAlone, Owners, MinePending
  <2>3. Outcome = "reserved" /\ Outcome' = Outcome
    BY <2>1, <2>2, OutcomeIs, OutcomeBecomes
  <2>4. Promise!Run
    BY <2>1, <2>2, <2>3 DEF Promise!Run
  <2> QED
    BY <1>k, <2>4
<1>2. CASE ~StartHandler(r) /\ rec' = rec
  <2>1. started' = started
    BY <1>2, CallShape
  <2>2. CASE \E a, q : Answer(r, a, q)
    BY <1>2, <1>b, <2>1, <2>2, CallShape, AnswerTells
  <2>3. CASE \E l : GoOn(r, l)
    BY <1>2, <1>b, <2>1, <2>3, OutcomeBecomes DEF GoOn, Promise!key
  <2> QED
    BY <2>2, <2>3, CallShape
<1>3. CASE InsertRecord(r) /\ rec.state = "none" /\ rec'.state = "pending" /\ GoOn(r, "setflight")
  <2>1. Outcome = "free" /\ Outcome' = "reserved" /\ UNCHANGED <<started, got>>
    BY <1>3, OutcomeIs, OutcomeBecomes DEF InsertRecord, GoOn
  <2> QED
    BY <1>k, <2>1 DEF Promise!Reserve
<1>4. CASE TakeOver(r) /\ rec.state = "pending" /\ rec'.state = "pending" /\ GoOn(r, "setflight")
  BY <1>4 DEF TakeOver, SeenInv, OwnerAlone
<1>5. CASE AbandonRecord(r) /\ rec.state = "pending" /\ rec'.state = "none" /\ GoOn(r, "release")
  <2>1. Outcome = "reserved" /\ Outcome' = "free" /\ UNCHANGED <<started, got>> /\ pc[r] \in Pre
    BY <1>5, OutcomeIs, OutcomeBecomes DEF AbandonRecord, GoOn, Pre
  <2>2. started = 0
    BY <2>1, RunsOnce
  <2> QED
    BY <1>k, <2>1, <2>2 DEF Promise!Withdraw
<1>6. CASE CompleteRecord(r) /\ rec'.state \in Completed /\ rec'.response = r /\ GoOn(r, "finish")
  <2>1. pc[r] \in Post /\ r \in Owners /\ UNCHANGED <<started, got>> /\ Outcome' = r
    BY <1>6, OutcomeBecomes DEF CompleteRecord, GoOn, Post, Owners
  <2>2. started = 1 /\ Outcome = "reserved"
    BY <2>1, RunsOnce, OutcomeIs DEF OwnerAlone, MinePending
  <2> QED
    BY <1>k, <2>1, <2>2 DEF Promise!Settle
<1>7. CASE MarkInDoubt(r) /\ rec'.state = "in_doubt" /\ GoOn(r, "markfinish")
  <2>1. pc[r] \in Post /\ r \in Owners /\ UNCHANGED <<started, got>> /\ Outcome' = "in_doubt"
    BY <1>7, OutcomeBecomes DEF MarkInDoubt, GoOn, Post, Owners
  <2>2. started = 1 /\ Outcome = "reserved"
    BY <2>1, RunsOnce, OutcomeIs DEF OwnerAlone, MinePending
  <2> QED
    BY <1>k, <2>1, <2>2 DEF Promise!Settle
<1> QED
  BY <1>1, <1>2, <1>3, <1>4, <1>5, <1>6, <1>7, RowShape

\* Afterwards only the runs are counted.
LEMMA CallAfterBreak ==
  ASSUME IInv, IInv', ~FirstLease, NEW r \in Reqs, CallStep(r) \/ GiveUp(r) \/ FailClaim(r) \/ CallPanics(r)
  PROVE  Promise!Next
<1>1. lapses' = lapses /\ expiries' = expiries /\ started' \in {started, started + 1}
  BY CallShape
<1>2. lapses \in Nat /\ expiries \in Nat /\ started \in Nat /\ started' \in Nat
  BY DEF IInv, TypeOK
<1>3. started' <= 1 + (lapses + expiries)
  <2>1. Bit(rec'.state # "none") \in {0, 1} /\ Bit(rec'.lapsed) \in {0, 1}
    BY DEF Bit
  <2>2. Cardinality(PreOwners') \in Nat
    <3>1. PreOwners' \subseteq Reqs
      BY DEF PreOwners
    <3> QED
      BY <3>1, ConstantsAssumption, FS_Subset, FS_CardinalityType
  <2> QED
    BY <1>1, <1>2, <2>1, <2>2 DEF IInv, Budget
<1>4. lapses + expiries > 0
  BY <1>2 DEF FirstLease
<1> QED
  BY <1>1, <1>2, <1>3, <1>4 DEF Promise!Next, Promise!Broken

\* A step of the store is one of the promise, or none.
LEMMA StepKeepsPromise ==
  ASSUME IInv, IInv', PromiseInv, SoleOwner, SoleOwner', [Next]_vars
  PROVE  [Promise!Next]_Promise!key
<1>1. ASSUME NEW r \in Reqs, CallStep(r) \/ GiveUp(r) \/ FailClaim(r) \/ CallPanics(r) PROVE [Promise!Next]_Promise!key
  <2>1. CASE FirstLease
    <3>1. FirstLease'
      BY <1>1, <2>1, CallShape DEF FirstLease
    <3> QED
      BY <1>1, <2>1, <3>1, CallKeepsPromise DEF SoleOwner
  <2>2. CASE ~FirstLease
    BY <1>1, <2>2, CallAfterBreak
  <2> QED
    BY <2>1, <2>2
<1>2. CASE LeaseLapse \/ Expire
  <2>1. UNCHANGED <<started, got>> /\ lapses \in Nat /\ expiries \in Nat
    BY <1>2 DEF LeaseLapse, Expire, calls, IInv, TypeOK
  <2>2. lapses' + expiries' = (lapses + expiries) + 1
    BY <1>2, <2>1 DEF LeaseLapse, Expire
  <2>3. Outcome' \in {Outcome, "free"}
    <3>1. CASE LeaseLapse
      <4>1. rec.state = "pending" /\ rec'.state = "pending"
        BY <3>1 DEF LeaseLapse, IInv, TypeOK, Records
      <4> QED
        BY <4>1, OutcomeIs, OutcomeBecomes
    <3>2. CASE Expire
      BY <3>2, OutcomeBecomes DEF Expire, NoRecord
    <3> QED
      BY <1>2, <3>1, <3>2
  <2> QED
    BY <2>1, <2>2, <2>3 DEF Promise!Next, Promise!Break
<1>3. ASSUME NEW p \in Procs, Crash(p) PROVE [Promise!Next]_Promise!key
  BY <1>3, OutcomeBecomes DEF Crash, store, Promise!key
<1>4. CASE UNCHANGED vars
  BY <1>4, OutcomeBecomes DEF vars, store, calls, bounds, Promise!key
<1> QED
  BY <1>1, <1>2, <1>3, <1>4 DEF Next

\* The store keeps the promise of a key (Lookup, Claim, Wait, Complete, MarkInDoubt and
\* Abandon of store.go under withCleanIdempotency), for any number of calls,
\* processes, crashes and faults; leases that elapse and rows that expire break it, and
\* cost a run each.
THEOREM PromiseIsKept == Spec => PromiseKept
<1>1. Init => Promise!Init
  BY OutcomeIs DEF Init, NoRecord, Promise!Init
<1>2. Init => PromiseInv
  BY PromiseInvInit
<1>3. IInv /\ PromiseInv /\ [Next]_vars => PromiseInv'
  BY PromiseInvNext DEF IInv
<1>4. IInv /\ IInv' /\ PromiseInv /\ SoleOwner /\ SoleOwner' /\ [Next]_vars => [Promise!Next]_Promise!key
  BY StepKeepsPromise
<1> QED
  BY <1>1, <1>2, <1>3, <1>4, Invariant, OneOwner, PTL DEF Spec, PromiseKept, Promise!Spec
===============================================================================
