---------------------------- MODULE MCPlanDispatch ----------------------------
(* Instances of PlanDispatch for TLC: two tasks, and two calls for one of    *)
(* them, with one key or with two.                                           *)
EXTENDS PlanDispatch, TLC

CONSTANTS t1, t2, m1, m2, k1, k2, a1, e1

OneTarget == [c \in Calls |-> t1]
OneRoute == [c \in Calls |-> a1]

Symmetry == Permutations({m1, m2}) \cup Permutations({k1, k2})

\* At most two of: a call that dies, a replan, a grant that ends or is replaced,
\* evidence of failed work; one grant of two ends, and none where there is a replan
\* or failed evidence, of which a grant reads but the presence of its task.
TwoTroubles ==
  LET ended == Cardinality({g \in Grants : grant[g] = "ended"})
      failed == Cardinality({e \in Refs : ref[e] = "failed"})
  IN  /\ ended <= 1 /\ deaths + replans + ended + failed <= 2
      /\ ended = 0 \/ replans + failed = 0
==============================================================================
