----------------------------- MODULE MCCardGate -----------------------------
(* Instances of CardGate for TLC. *)
EXTENDS CardGate

CONSTANTS r1, r2, r3
====
