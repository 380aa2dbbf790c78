-------------------------- MODULE MCBillingLedger --------------------------
(***************************************************************************)
(* BillingLedger with three records, two of which carry the same id.       *)
(***************************************************************************)
EXTENDS BillingLedger, TLC

CONSTANTS p1, p2, p3, i1, i2

MCIdOf == p1 :> i1 @@ p2 :> i1 @@ p3 :> i2
====
