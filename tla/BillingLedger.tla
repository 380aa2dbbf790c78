--------------------------- MODULE BillingLedger ---------------------------
(***************************************************************************)
(* The billing ledger of src/billing.rs: Ledger::record on the request     *)
(* tasks, the channel, writer_loop on its own thread, and the flush with   *)
(* which main ends.  The channel is an unbounded FIFO.                     *)
(***************************************************************************)
EXTENDS Integers, Sequences, FiniteSets

CONSTANTS
    Records,        \* the calls of Ledger::record
    Ids,            \* request ids
    IdOf,           \* the id each call carries
    NoRow,          \* no row for an id
    Batch,          \* records of one transaction, BATCH (500 in the code)
    MaxRuns         \* bound: processes that use the database, one after another

ASSUME LedgerAssumption ==
    /\ IsFiniteSet(Records)
    /\ IdOf \in [Records -> Ids]
    /\ NoRow \notin Records
    /\ {"flush", "checkpoint"} \cap Records = {}
    /\ Batch \in Nat \ {0}
    /\ MaxRuns \in Nat \ {0}

VARIABLES
    queue,      \* the channel: records, "flush" and "checkpoint"
    (* the writer thread *)
    wpc, batch,
    acks,       \* a flush waits for its answer
    (* counters of Ledger *)
    pending, written, ignored, failed,
    (* callers *)
    rpc,        \* of Ledger::record
    flush,      \* of the flush at shutdown
    (* the database *)
    rows,
    (* observers *)
    fate,       \* what became of each record
    ahead,      \* records that were in the channel before the flush
    runs

channel == <<queue, rpc>>
writer == <<wpc, batch, acks>>
counters == <<pending, written, ignored, failed>>
vars == <<channel, writer, counters, flush, rows, fate, ahead, runs>>

Decided == {"stored", "duplicate", "failed"}
Handed == {p \in Records : rpc[p] # "idle"}

TypeOK ==
    /\ queue \in Seq(Records \cup {"flush", "checkpoint"})
    /\ wpc \in {"recv", "collect", "counted", "ack"}
    /\ batch \in Seq(Records) /\ Len(batch) <= Batch
    /\ acks \in BOOLEAN
    /\ pending \in 0..Cardinality(Records)
    /\ {written, ignored, failed} \subseteq 0..Cardinality(Records)
    /\ rpc \in [Records -> {"idle", "counted", "sent"}]
    /\ flush \in {"no", "waiting", "acked", "expired"}
    /\ rows \in [Ids -> Records \cup {NoRow}]
    /\ fate \in [Records -> {"new", "handed", "lost"} \cup Decided]
    /\ ahead \subseteq Records
    /\ runs \in 1..MaxRuns
----------------------------------------------------------------------------
\* Ledger::open on an empty database
Init ==
    /\ queue = <<>>
    /\ wpc = "recv" /\ batch = <<>> /\ acks = FALSE
    /\ pending = 0 /\ written = 0 /\ ignored = 0 /\ failed = 0
    /\ flush = "no"
    /\ ahead = {}
    /\ rpc = [p \in Records |-> "idle"]
    /\ rows = [i \in Ids |-> NoRow]
    /\ fate = [p \in Records |-> "new"]
    /\ runs = 1
----------------------------------------------------------------------------
(* Callers *)

\* record: pending first ...
Record(p) ==
    /\ fate[p] = "new"
    /\ rpc' = [rpc EXCEPT ![p] = "counted"]
    /\ pending' = pending + 1
    /\ fate' = [fate EXCEPT ![p] = "handed"]
    /\ UNCHANGED <<queue, writer, written, ignored, failed, flush, rows, ahead, runs>>

\* ... then the send.
Send(p) ==
    /\ rpc[p] = "counted"
    /\ rpc' = [rpc EXCEPT ![p] = "sent"]
    /\ queue' = Append(queue, p)
    /\ UNCHANGED <<writer, counters, flush, rows, fate, ahead, runs>>

\* request_checkpoint.  Bound: one in the channel at a time.
RequestCheckpoint ==
    /\ \A i \in 1..Len(queue) : queue[i] # "checkpoint"
    /\ queue' = Append(queue, "checkpoint")
    /\ UNCHANGED <<rpc, writer, counters, flush, rows, fate, ahead, runs>>

\* The flush at the end of main; tasks of open streams may still record.
Flush ==
    /\ flush = "no"
    /\ flush' = "waiting"
    /\ queue' = Append(queue, "flush")
    /\ ahead' = {p \in Records : rpc[p] = "sent"}
    /\ UNCHANGED <<rpc, writer, counters, rows, fate, runs>>

FlushExpires ==
    /\ flush = "waiting"
    /\ flush' = "expired"
    /\ UNCHANGED <<channel, writer, counters, rows, fate, ahead, runs>>
----------------------------------------------------------------------------
(* writer_loop *)

\* One message from the channel, by recv or by recv_timeout.
Receive ==
    /\ queue # <<>>
    /\ wpc = "recv" \/ (wpc = "collect" /\ Len(batch) < Batch)
    /\ wpc' = "collect"
    /\ queue' = Tail(queue)
    /\ batch' = IF Head(queue) \in Records THEN Append(batch, Head(queue)) ELSE batch
    /\ acks' = (acks \/ Head(queue) = "flush")
    /\ UNCHANGED <<rpc, counters, flush, rows, fate, ahead, runs>>

InBatch == {batch[k] : k \in 1..Len(batch)}

\* Position of p in the batch
First(p) == CHOOSE k \in 1..Len(batch) : batch[k] = p

\* INSERT OR REPLACE, with the first of the batch
RowReplaced(i) ==
    LET same == {p \in InBatch : IdOf[p] = i}
    IN  IF same = {} THEN rows[i]
        ELSE CHOOSE p \in same : \A q \in same : First(p) <= First(q)

\* The record INSERT OR IGNORE makes the row of an id of: what is there already,
\* or the first of the batch.
RowAfter(i) ==
    LET same == {p \in InBatch : IdOf[p] = i}
    IN  IF rows[i] # NoRow \/ same = {} THEN rows[i]
        ELSE CHOOSE p \in same : \A q \in same : First(p) <= First(q)

\* A batch is written only when it is full.
BatchFull == wpc = "collect" /\ Len(batch) = Batch

\* The batch is full or the 20 ms are over, which they may be at any time.
BatchReady == wpc = "collect" /\ batch # <<>>

\* write_batch, one transaction that is committed or fails as a whole, and its
\* counters.
WriteBatch ==
    LET stored == {p \in InBatch : RowAfter(IdOf[p]) = p}
    IN  /\ BatchReady
        /\ wpc' = "counted"
        /\ \/ /\ rows' = [i \in Ids |-> RowAfter(i)]
              /\ written' = written + Cardinality(stored)
              /\ ignored' = ignored + Len(batch) - Cardinality(stored)
              /\ fate' = [p \in Records |->
                            IF p \notin InBatch THEN fate[p]
                            ELSE IF p \in stored THEN "stored" ELSE "duplicate"]
              /\ UNCHANGED failed
           \/ /\ failed' = failed + Len(batch)
              /\ fate' = [p \in Records |-> IF p \in InBatch THEN "failed" ELSE fate[p]]
              /\ UNCHANGED <<rows, written, ignored>>
        /\ UNCHANGED <<channel, batch, acks, pending, flush, ahead, runs>>

\* One fetch_sub(1) for the whole batch
UncountOne ==
    /\ wpc = "counted"
    /\ wpc' = "ack"
    /\ pending' = pending - 1
    /\ batch' = <<>>
    /\ UNCHANGED <<channel, acks, written, ignored, failed, flush, rows, fate, ahead, runs>>

Uncount ==
    /\ wpc = "counted"
    /\ wpc' = "ack"
    /\ pending' = pending - Len(batch)
    /\ batch' = <<>>
    /\ UNCHANGED <<channel, acks, written, ignored, failed, flush, rows, fate, ahead,
                   runs>>

\* Flushes answered before the batch is written
AckEarly ==
    /\ wpc \in {"collect", "ack"}
    /\ wpc' = IF batch = <<>> THEN "recv" ELSE "collect"
    /\ acks' = FALSE
    /\ flush' = IF acks /\ flush = "waiting" THEN "acked" ELSE flush
    /\ UNCHANGED <<channel, batch, counters, rows, fate, ahead, runs>>

\* The rest of the round: checkpoint and the answers to flushes.
Ack ==
    /\ wpc = "ack" \/ (wpc = "collect" /\ batch = <<>>)
    /\ wpc' = "recv"
    /\ acks' = FALSE
    /\ flush' = IF acks /\ flush = "waiting" THEN "acked" ELSE flush
    /\ UNCHANGED <<channel, batch, counters, rows, fate, ahead, runs>>
----------------------------------------------------------------------------
\* The process ends, by a crash or after the flush, and another one starts.
Restart ==
    /\ runs < MaxRuns
    /\ runs' = runs + 1
    /\ queue' = <<>>
    /\ wpc' = "recv" /\ batch' = <<>> /\ acks' = FALSE
    /\ pending' = 0 /\ written' = 0 /\ ignored' = 0 /\ failed' = 0
    /\ flush' = "no"
    /\ ahead' = {}
    /\ rpc' = [p \in Records |-> "idle"]
    /\ fate' = [p \in Records |->
                  IF fate[p] = "handed" THEN "lost" ELSE fate[p]]
    /\ UNCHANGED rows

WriterStep == Receive \/ WriteBatch \/ Uncount \/ Ack

Next ==
    \/ \E p \in Records : Record(p) \/ Send(p)
    \/ RequestCheckpoint \/ Flush \/ FlushExpires
    \/ WriterStep
    \/ Restart

Spec == Init /\ [][Next]_vars

\* record returns, the writer thread is scheduled, and recv_timeout ends 20 ms
\* after the first message of a round.
Fairness ==
    /\ \A p \in Records : WF_vars(Send(p))
    /\ WF_vars(Receive)
    /\ WF_vars(WriteBatch \/ Uncount \/ Ack)

FairSpec == Spec /\ Fairness
----------------------------------------------------------------------------
(* Properties *)

(* When flush returns true every record that was in the channel before it   *)
(* has been decided, whatever batches it went into: at shutdown only         *)
(* records sent after the flush can be lost with the process.                *)
FlushedIsDecided ==
    flush = "acked" => \A p \in ahead : fate[p] \in Decided

\* What pending says once the batch is counted off that has just been decided.
Owed == pending - (IF wpc = "counted" THEN Len(batch) ELSE 0)

Promise == INSTANCE LedgerPromise
           WITH Records <- Records, Ids <- Ids, IdOf <- IdOf, NoRow <- NoRow,
                fate <- fate, rows <- rows, owed <- Owed

(* The ledger keeps its promise: a record is decided once, a request id is   *)
(* billed at most once, rows are never rewritten, and pending, which two     *)
(* threads change, neither leaks nor wraps below zero (writer_loop,          *)
(* write_batch and record).                                                  *)
KeepsPromise == Promise!PSpec

(* Every record is decided unless the process ends first.                    *)
EveryRecordDecided ==
    \A p \in Records : fate[p] = "handed" ~> fate[p] # "handed"

====
