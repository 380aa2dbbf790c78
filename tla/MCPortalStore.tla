--------------------------- MODULE MCPortalStore ---------------------------
(* PortalStore with one plan and one card of the first user. *)
EXTENDS PortalStore, TLC

Prices == [p \in Plans |-> 2]
Owners == [c \in Cards |-> CHOOSE n \in Names : TRUE]
Symmetric == Permutations(Handlers)
=============================================================================
