--------------------------- MODULE MCConfigStore ---------------------------
(* ConfigStore with two panel requests at a time. *)
EXTENDS ConfigStore

CONSTANTS k1, k2

TwoKeys == <<k1, k2>>
=============================================================================
