---------------------------- MODULE MCCardBooks ----------------------------
(* CardBooks with a plan that is activated by the first call and one that is not. *)
EXTENDS CardBooks, TLC

CONSTANTS p1

TwoPlans == [p \in Plans |-> [on |-> TRUE, hours |-> 2, lazy |-> p = p1]]
Symmetric == Permutations(Handlers) \cup Permutations(CardKeys)
=============================================================================
