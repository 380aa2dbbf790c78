--------------------------- MODULE LedgerPromise ---------------------------
(***************************************************************************)
(* What the billing ledger promises its callers (head of src/billing.rs):  *)
(* a record that was handed over is decided once, a request id has at most *)
(* one row, and a row, once written, stays as it is.  Only a process that  *)
(* ends may take records with it.  The number of records the ledger still  *)
(* owes a decision is exact.                                               *)
(***************************************************************************)
EXTENDS Integers, FiniteSets

CONSTANTS
    Records,    \* the calls of Ledger::record
    Ids,        \* request ids
    IdOf,       \* the id each call carries
    NoRow       \* no row for an id

VARIABLES
    fate,       \* what became of each record
    rows,       \* billing_records: the record each id's row was made of
    owed        \* how many records are handed over and undecided

Fates == {"new", "handed", "stored", "duplicate", "failed", "lost"}
Decided == {"stored", "duplicate", "failed"}

PInit ==
    /\ fate = [p \in Records |-> "new"]
    /\ rows = [i \in Ids |-> NoRow]
    /\ owed = 0

Hand(p) ==
    /\ fate[p] = "new"
    /\ fate' = [fate EXCEPT ![p] = "handed"]
    /\ owed' = owed + 1
    /\ UNCHANGED rows

\* One transaction: every id of S has a row afterwards, new ones made of S.
Write(S) ==
    /\ rows' \in [Ids -> Records \cup {NoRow}]
    /\ \A i \in Ids :
          rows'[i] # rows[i] => rows[i] = NoRow /\ rows'[i] \in S /\ IdOf[rows'[i]] = i
    /\ \A p \in S : rows'[IdOf[p]] # NoRow
    /\ fate' = [p \in Records |->
                  IF p \notin S THEN fate[p]
                  ELSE IF rows'[IdOf[p]] = p THEN "stored" ELSE "duplicate"]
    /\ owed' = owed - Cardinality(S)

Refuse(S) ==
    /\ fate' = [p \in Records |-> IF p \in S THEN "failed" ELSE fate[p]]
    /\ owed' = owed - Cardinality(S)
    /\ UNCHANGED rows

\* The process ends.
Lose ==
    /\ fate' = [p \in Records |-> IF fate[p] = "handed" THEN "lost" ELSE fate[p]]
    /\ owed' = 0
    /\ UNCHANGED rows

PNext ==
    \/ \E p \in Records : Hand(p)
    \/ \E S \in SUBSET {p \in Records : fate[p] = "handed"} : Write(S) \/ Refuse(S)
    \/ Lose

PSpec == PInit /\ [][PNext]_<<fate, rows, owed>>
====
