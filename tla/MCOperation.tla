----------------------------- MODULE MCOperation -----------------------------
(* Small instances of the operation service. *)
EXTENDS Operation, TLC

Deps(d) == [s \in Steps |-> IF s \in DOMAIN d THEN d[s] ELSE {}]

\* Two independent steps joined by a third.
FanIn == [steps |-> {1, 2, 3}, deps |-> Deps(3 :> {1, 2}), excl |-> {1}, ws |-> "w"]
\* One step that two others wait for.
FanOut == [steps |-> {1, 2, 3}, deps |-> Deps(2 :> {1} @@ 3 :> {1}), excl |-> {2}, ws |-> "w"]
\* A path of length two: 3 needs 2, which needs 1.
Chain == [steps |-> {1, 2, 3}, deps |-> Deps(2 :> {1} @@ 3 :> {2}), excl |-> {}, ws |-> "w"]
\* Two steps, the second after the first.
Pair == [steps |-> {1, 2}, deps |-> Deps(2 :> {1}), excl |-> {1}, ws |-> "w"]
\* One exclusive step.
Single == [steps |-> {1}, deps |-> Deps(<<>>), excl |-> {1}, ws |-> "w"]
\* Rejected by validateSpec.
Cycle == [steps |-> {1, 2}, deps |-> Deps(1 :> {2} @@ 2 :> {1}), excl |-> {}, ws |-> "w"]

Pairs == {Pair, Cycle}
\* Three independent steps: more jobs than one worker's channel holds.
Flat == [steps |-> {1, 2, 3}, deps |-> Deps(<<>>), excl |-> {3}, ws |-> "w"]

Fans == {FanIn, FanOut, Flat, Cycle}
OneChain == {Chain}
Singles == {Single, [Single EXCEPT !.excl = {}]}

Mixed == Pairs \cup Singles
Symmetry == Permutations(Workers) \cup Permutations(Clients) \cup Permutations(Ops)

\* Either one operation of two steps, with everything that may go wrong, or two
\* operations of one step each and a client, with neither crashes nor grants.
Submissions == {spec'[o] : o \in Ops} \ {None}
OneOfTwo ==
  \/ Submissions \subseteq Pairs /\ Cardinality({o \in Ops : spec'[o] # None}) <= 1
  \/ /\ Submissions \subseteq Singles
     /\ Cardinality({c \in Clients : pc'[c] # "idle"}) <= 1
     /\ crashes' = 0 /\ \A o \in Ops, s \in Steps : grants'[o][s] = 0
=============================================================================
