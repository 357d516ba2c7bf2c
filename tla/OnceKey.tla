------------------------------- MODULE OnceKey -------------------------------
(***************************************************************************)
(* What an idempotency key promises to its callers, whoever serves them:   *)
(* it is free, reserved, in doubt, or has the response of a call.  Only a  *)
(* key that nobody has run yet becomes free again, a run uses it up, and   *)
(* what is recorded at its end is final and is what everybody is told.     *)
(*                                                                         *)
(* A reservation that is not answered for in time, and a key that is       *)
(* forgotten, break the promise.  What is left of it then is that each     *)
(* break costs one run at most.                                            *)
(***************************************************************************)
EXTENDS Naturals

CONSTANTS Callers, Nobody

VARIABLES
  outcome,    \* "free", "reserved", "in_doubt", or whose response it is
  runs,       \* runs of the command
  told,       \* whose response a caller has been given
  breaks      \* reservations that lapsed, keys that were forgotten

key == <<outcome, runs, told, breaks>>

Init ==
  /\ outcome = "free" /\ runs = 0 /\ breaks = 0
  /\ told = [c \in Callers |-> Nobody]

Reserve == outcome = "free" /\ outcome' = "reserved" /\ UNCHANGED <<runs, told>>
Withdraw == outcome = "reserved" /\ runs = 0 /\ outcome' = "free" /\ UNCHANGED <<runs, told>>
Run == outcome = "reserved" /\ runs = 0 /\ runs' = 1 /\ UNCHANGED <<outcome, told>>
Settle ==
  /\ outcome = "reserved" /\ runs = 1
  /\ outcome' \in Callers \cup {"in_doubt"}
  /\ UNCHANGED <<runs, told>>
Tell(c) ==
  /\ outcome \in Callers /\ told[c] = Nobody
  /\ told' = [told EXCEPT ![c] = outcome]
  /\ UNCHANGED <<outcome, runs>>

Kept == breaks = 0 /\ breaks' = 0 /\ (Reserve \/ Withdraw \/ Run \/ Settle \/ \E c \in Callers : Tell(c))
Break == breaks' = breaks + 1 /\ outcome' \in {outcome, "free"} /\ UNCHANGED <<runs, told>>
Broken == breaks > 0 /\ breaks' = breaks /\ runs' \in {runs, runs + 1} /\ runs' <= 1 + breaks

Next == Kept \/ Break \/ Broken

Spec == Init /\ [][Next]_key
==============================================================================
