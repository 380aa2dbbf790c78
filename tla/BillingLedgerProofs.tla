------------------------ MODULE BillingLedgerProofs ------------------------
(***************************************************************************)
(* Proofs about BillingLedger, for any number of records and any batch     *)
(* size: an answered flush has left nothing undecided behind, and the      *)
(* ledger implements LedgerPromise.                                        *)
(***************************************************************************)
EXTENDS BillingLedger, FunctionTheorems, FiniteSetTheorems, SequenceTheorems,
        WellFoundedInduction, TLAPS

Message == Records \cup {"flush", "checkpoint"}

\* The part of the type invariant the proofs need.
LedgerTypeOK ==
    /\ queue \in Seq(Message)
    /\ wpc \in {"recv", "collect", "counted", "ack"}
    /\ batch \in Seq(Records)
    /\ acks \in BOOLEAN
    /\ rpc \in [Records -> {"idle", "counted", "sent"}]
    /\ flush \in {"no", "waiting", "acked", "expired"}
    /\ rows \in [Ids -> Records \cup {NoRow}]
    /\ fate \in [Records -> {"new", "handed", "lost"} \cup Decided]
    /\ ahead \subseteq Records

\* A record is in the channel at most once, and never also in the batch.
QueueSound ==
    /\ \A k \in 1..Len(queue) : queue[k] \in Records =>
          fate[queue[k]] = "handed" /\ rpc[queue[k]] = "sent" /\ queue[k] \notin InBatch
    /\ \A j, k \in 1..Len(queue) : queue[j] \in Records /\ queue[j] = queue[k] => j = k

\* The batch is undecided until it is written and empty once it is uncounted.
BatchSound ==
    /\ wpc \in {"recv", "ack"} => batch = <<>>
    /\ wpc = "collect" => \A p \in InBatch : fate[p] = "handed"
    /\ wpc = "counted" => \A p \in InBatch : fate[p] \in Decided
    /\ \A p \in InBatch : rpc[p] = "sent"

\* A record that was sent and is undecided is in the channel or in the batch.
CallerSound ==
    \A p \in Records :
        /\ fate[p] = "new" => rpc[p] = "idle"
        /\ rpc[p] = "counted" => fate[p] = "handed"
        /\ rpc[p] = "sent" => fate[p] \in {"handed"} \cup Decided
        /\ rpc[p] = "sent" /\ fate[p] = "handed" =>
              p \in InBatch \/ \E k \in 1..Len(queue) : queue[k] = p

\* Records sent before the flush are before it in the channel, and when the
\* flush has been received they are in the batch or decided.
FlushSound ==
    /\ \A p \in ahead : rpc[p] = "sent"
    /\ flush = "no" => ~acks /\ \A k \in 1..Len(queue) : queue[k] # "flush"
    /\ \A p \in ahead : fate[p] = "handed" =>
          \A k \in 1..Len(queue) : queue[k] = "flush" =>
             p \in InBatch \/ \E j \in 1..(k - 1) : queue[j] = p
    /\ acks => \A p \in ahead : fate[p] = "handed" => p \in InBatch
    /\ FlushedIsDecided

LedgerInv == LedgerTypeOK /\ QueueSound /\ BatchSound /\ CallerSound /\ FlushSound

\* The channel after a send.
LEMMA Sent ==
    ASSUME LedgerTypeOK, NEW m \in Message, queue' = Append(queue, m)
    PROVE  /\ queue' \in Seq(Message)
           /\ Len(queue) \in Nat /\ Len(queue') = Len(queue) + 1
           /\ \A k \in 1..Len(queue) : k \in 1..Len(queue') /\ queue'[k] = queue[k]
           /\ \A k \in 1..Len(queue') :
                 \/ k \in 1..Len(queue) /\ queue'[k] = queue[k]
                 \/ k = Len(queue) + 1 /\ queue'[k] = m
<1> USE DEF LedgerTypeOK
<1>1. /\ queue' \in Seq(Message) /\ Len(queue') = Len(queue) + 1
      /\ \A k \in 1..Len(queue) : queue'[k] = queue[k]
      /\ queue'[Len(queue) + 1] = m
  BY AppendProperties
<1>2. Len(queue) \in Nat
  BY LenProperties
<1> QED BY <1>1, <1>2

\* pending is counted, the record not yet sent.
LEMMA RecordStep == ASSUME LedgerInv, NEW p \in Records, Record(p) PROVE LedgerInv'
<1> USE DEF LedgerInv
<1>1. /\ fate[p] = "new" /\ UNCHANGED <<queue, wpc, batch, acks, flush, rows, ahead>>
      /\ rpc' = [rpc EXCEPT ![p] = "counted"] /\ fate' = [fate EXCEPT ![p] = "handed"]
  BY DEF Record, writer
<1>2. InBatch' = InBatch /\ \A q \in InBatch : q \in Records
  BY <1>1, ElementOfSeq DEF InBatch, LedgerTypeOK
<1>3. rpc[p] = "idle"
  BY <1>1 DEF CallerSound
<1>4. LedgerTypeOK'
  BY <1>1 DEF LedgerTypeOK
<1>5. QueueSound'
  BY <1>1, <1>2 DEF QueueSound, LedgerTypeOK
<1>6. BatchSound'
  <2>1. p \notin InBatch
    BY <1>3 DEF BatchSound
  <2>2. \A q \in InBatch : fate'[q] = fate[q] /\ rpc'[q] = rpc[q]
    BY <1>1, <1>2, <2>1 DEF LedgerTypeOK
  <2> QED BY <1>1, <1>2, <2>2 DEF BatchSound
<1>7. CallerSound'
  BY <1>1, <1>2 DEF CallerSound, LedgerTypeOK
<1>8. FlushSound'
  BY <1>1, <1>2, <1>3 DEF FlushSound, FlushedIsDecided, LedgerTypeOK, Decided
<1> QED BY <1>4, <1>5, <1>6, <1>7, <1>8

\* The record enters the channel.
LEMMA SendStep == ASSUME LedgerInv, NEW p \in Records, Send(p) PROVE LedgerInv'
<1> USE DEF LedgerInv
<1>1. /\ rpc[p] = "counted" /\ UNCHANGED <<wpc, batch, acks, flush, rows, fate, ahead>>
      /\ rpc' = [rpc EXCEPT ![p] = "sent"] /\ queue' = Append(queue, p)
  BY DEF Send, writer
<1>2. InBatch' = InBatch /\ \A q \in InBatch : q \in Records
  BY <1>1, ElementOfSeq DEF InBatch, LedgerTypeOK
<1>3. /\ queue' \in Seq(Message)
      /\ Len(queue) \in Nat /\ Len(queue') = Len(queue) + 1
      /\ \A k \in 1..Len(queue) : k \in 1..Len(queue') /\ queue'[k] = queue[k]
      /\ \A k \in 1..Len(queue') :
            \/ k \in 1..Len(queue) /\ queue'[k] = queue[k]
            \/ k = Len(queue) + 1 /\ queue'[k] = p
  BY <1>1, Sent DEF Message
<1>4. /\ fate[p] = "handed" /\ p \notin InBatch /\ p \notin ahead
      /\ \A k \in 1..Len(queue) : queue[k] # p
  BY <1>1 DEF CallerSound, BatchSound, QueueSound, FlushSound
<1>5. LedgerTypeOK'
  BY <1>1, <1>3 DEF LedgerTypeOK
<1>6. QueueSound'
  <2>1. ASSUME NEW k \in 1..Len(queue'), queue'[k] \in Records
        PROVE  fate'[queue'[k]] = "handed" /\ rpc'[queue'[k]] = "sent" /\ queue'[k] \notin InBatch'
    BY <1>1, <1>2, <1>3, <1>4, <2>1 DEF QueueSound, LedgerTypeOK
  <2>2. ASSUME NEW j \in 1..Len(queue'), NEW k \in 1..Len(queue'),
               queue'[j] \in Records, queue'[j] = queue'[k]
        PROVE  j = k
    BY <1>3, <1>4, <2>2 DEF QueueSound
  <2> QED BY <2>1, <2>2 DEF QueueSound
<1>7. BatchSound'
  BY <1>1, <1>2 DEF BatchSound, LedgerTypeOK
<1>8. CallerSound'
  <2>1. Len(queue) + 1 \in 1..Len(queue') /\ queue'[Len(queue) + 1] = p
    BY <1>3
  <2> QED BY <1>1, <1>2, <1>3, <1>4, <2>1 DEF CallerSound, LedgerTypeOK
<1>9. FlushSound'
  <2>1. \A q \in ahead' : rpc'[q] = "sent"
    BY <1>1 DEF FlushSound, LedgerTypeOK
  <2>2. \A k \in 1..Len(queue') : queue'[k] = "flush" => k \in 1..Len(queue) /\ queue[k] = "flush"
    BY <1>3, LedgerAssumption
  <2>3. ASSUME NEW q \in ahead', fate'[q] = "handed", NEW k \in 1..Len(queue'), queue'[k] = "flush"
        PROVE  q \in InBatch' \/ \E j \in 1..(k - 1) : queue'[j] = q
    BY <1>1, <1>2, <1>3, <2>2, <2>3 DEF FlushSound
  <2> QED BY <1>1, <1>2, <2>1, <2>2, <2>3 DEF FlushSound, FlushedIsDecided
<1> QED BY <1>5, <1>6, <1>7, <1>8, <1>9

\* A message other than a record enters the channel.
LEMMA ControlStep ==
    ASSUME LedgerInv, NEW m \in {"flush", "checkpoint"}, queue' = Append(queue, m),
           UNCHANGED <<wpc, batch, acks, rpc, fate>>
    PROVE  QueueSound' /\ BatchSound' /\ CallerSound'
<1> USE DEF LedgerInv
<1>1. InBatch' = InBatch /\ m \notin Records
  BY LedgerAssumption DEF InBatch
<1>2. /\ Len(queue) \in Nat /\ Len(queue') = Len(queue) + 1
      /\ \A k \in 1..Len(queue) : k \in 1..Len(queue') /\ queue'[k] = queue[k]
      /\ \A k \in 1..Len(queue') :
            \/ k \in 1..Len(queue) /\ queue'[k] = queue[k]
            \/ k = Len(queue) + 1 /\ queue'[k] = m
  BY Sent DEF Message
<1>3. QueueSound'
  <2>1. ASSUME NEW k \in 1..Len(queue'), queue'[k] \in Records
        PROVE  fate'[queue'[k]] = "handed" /\ rpc'[queue'[k]] = "sent" /\ queue'[k] \notin InBatch'
    BY <1>1, <1>2, <2>1 DEF QueueSound
  <2>2. ASSUME NEW j \in 1..Len(queue'), NEW k \in 1..Len(queue'),
               queue'[j] \in Records, queue'[j] = queue'[k]
        PROVE  j = k
    BY <1>1, <1>2, <2>2 DEF QueueSound
  <2> QED BY <2>1, <2>2 DEF QueueSound
<1>4. BatchSound'
  BY <1>1 DEF BatchSound
<1>5. CallerSound'
  BY <1>1, <1>2 DEF CallerSound
<1> QED BY <1>3, <1>4, <1>5

LEMMA CheckpointStep == ASSUME LedgerInv, RequestCheckpoint PROVE LedgerInv'
<1> USE DEF LedgerInv
<1>1. /\ queue' = Append(queue, "checkpoint")
      /\ UNCHANGED <<wpc, batch, acks, rpc, fate, flush, rows, ahead>>
  BY DEF RequestCheckpoint, writer
<1>2. /\ queue' \in Seq(Message)
      /\ Len(queue) \in Nat /\ Len(queue') = Len(queue) + 1
      /\ \A k \in 1..Len(queue) : k \in 1..Len(queue') /\ queue'[k] = queue[k]
      /\ \A k \in 1..Len(queue') :
            \/ k \in 1..Len(queue) /\ queue'[k] = queue[k]
            \/ k = Len(queue) + 1 /\ queue'[k] = "checkpoint"
  BY <1>1, Sent DEF Message
<1>3. LedgerTypeOK'
  BY <1>1, <1>2 DEF LedgerTypeOK
<1>4. QueueSound' /\ BatchSound' /\ CallerSound'
  BY <1>1, ControlStep
<1>5. InBatch' = InBatch
  BY <1>1 DEF InBatch
<1>6. FlushSound'
  <2>1. \A k \in 1..Len(queue') : queue'[k] = "flush" => k \in 1..Len(queue) /\ queue[k] = "flush"
    BY <1>2
  <2>2. ASSUME NEW q \in ahead', fate'[q] = "handed", NEW k \in 1..Len(queue'), queue'[k] = "flush"
        PROVE  q \in InBatch' \/ \E j \in 1..(k - 1) : queue'[j] = q
    BY <1>1, <1>2, <1>5, <2>1, <2>2 DEF FlushSound
  <2> QED BY <1>1, <1>5, <2>1, <2>2 DEF FlushSound, FlushedIsDecided
<1> QED BY <1>3, <1>4, <1>6

\* Everything that has been sent by now is ahead of the flush.
LEMMA FlushStep == ASSUME LedgerInv, Flush PROVE LedgerInv'
<1> USE DEF LedgerInv
<1>1. /\ flush = "no" /\ flush' = "waiting" /\ queue' = Append(queue, "flush")
      /\ ahead' = {p \in Records : rpc[p] = "sent"}
      /\ UNCHANGED <<wpc, batch, acks, rpc, fate, rows>>
  BY DEF Flush, writer
<1>2. /\ queue' \in Seq(Message)
      /\ Len(queue) \in Nat /\ Len(queue') = Len(queue) + 1
      /\ \A k \in 1..Len(queue) : k \in 1..Len(queue') /\ queue'[k] = queue[k]
      /\ \A k \in 1..Len(queue') :
            \/ k \in 1..Len(queue) /\ queue'[k] = queue[k]
            \/ k = Len(queue) + 1 /\ queue'[k] = "flush"
  BY <1>1, Sent DEF Message
<1>3. LedgerTypeOK'
  BY <1>1, <1>2 DEF LedgerTypeOK
<1>4. QueueSound' /\ BatchSound' /\ CallerSound'
  BY <1>1, ControlStep
<1>5. InBatch' = InBatch
  BY <1>1 DEF InBatch
<1>6. FlushSound'
  <2>1. \A k \in 1..Len(queue) : queue[k] # "flush"
    BY <1>1 DEF FlushSound
  <2>2. ASSUME NEW q \in ahead', fate'[q] = "handed", NEW k \in 1..Len(queue'), queue'[k] = "flush"
        PROVE  q \in InBatch' \/ \E j \in 1..(k - 1) : queue'[j] = q
    <3>1. k = Len(queue) + 1
      BY <1>2, <2>1, <2>2
    <3>2. q \in InBatch \/ \E j \in 1..Len(queue) : queue[j] = q
      BY <1>1, <2>2 DEF CallerSound
    <3> QED BY <1>2, <1>5, <3>1, <3>2
  <2>3. ~acks'
    BY <1>1 DEF FlushSound
  <2> QED BY <1>1, <2>2, <2>3 DEF FlushSound, FlushedIsDecided
<1> QED BY <1>3, <1>4, <1>6

\* A message moves from the channel into the batch or into acks.
LEMMA ReceiveStep == ASSUME LedgerInv, Receive PROVE LedgerInv'
<1> USE DEF LedgerInv
<1> DEFINE h == Head(queue)
<1>1. /\ queue # <<>> /\ wpc \in {"recv", "collect"} /\ wpc' = "collect"
      /\ queue' = Tail(queue)
      /\ batch' = IF h \in Records THEN Append(batch, h) ELSE batch
      /\ acks' = (acks \/ h = "flush")
      /\ UNCHANGED <<rpc, fate, flush, rows, ahead>>
  BY DEF Receive
<1>2. /\ h \in Message /\ h = queue[1] /\ queue' \in Seq(Message)
      /\ Len(queue) \in Nat /\ Len(queue) >= 1 /\ Len(queue') = Len(queue) - 1
      /\ \A k \in 1..Len(queue') : queue'[k] = queue[k + 1]
  <2>1. Len(queue) \in Nat /\ Len(queue) # 0
    BY <1>1, LenProperties, EmptySeq DEF LedgerTypeOK
  <2> QED BY <1>1, <2>1, HeadTailProperties DEF LedgerTypeOK
<1> HIDE DEF h
<1>3. \A k \in 1..Len(queue') : k + 1 \in 1..Len(queue) /\ k + 1 # 1
  BY <1>2
<1>4. 1 \in 1..Len(queue)
  BY <1>2
<1>5. /\ batch' \in Seq(Records)
      /\ InBatch' = IF h \in Records THEN InBatch \cup {h} ELSE InBatch
  <2>1. CASE h \in Records
    <3>1. /\ batch' \in Seq(Records) /\ Len(batch') = Len(batch) + 1
          /\ \A k \in 1..Len(batch) : batch'[k] = batch[k]
          /\ batch'[Len(batch) + 1] = h
      BY <1>1, <2>1, AppendProperties DEF LedgerTypeOK
    <3>2. Len(batch) \in Nat
      BY LenProperties DEF LedgerTypeOK
    <3>3. \A k \in 1..Len(batch) : k \in 1..Len(batch')
      BY <3>1, <3>2
    <3>4. \A k \in 1..Len(batch') : k \in 1..Len(batch) \/ k = Len(batch) + 1
      BY <3>1, <3>2
    <3>5. Len(batch) + 1 \in 1..Len(batch')
      BY <3>1, <3>2
    <3> QED BY <2>1, <3>1, <3>3, <3>4, <3>5 DEF InBatch
  <2>2. CASE h \notin Records
    BY <1>1, <2>2 DEF InBatch, LedgerTypeOK
  <2> QED BY <2>1, <2>2
<1>6. LedgerTypeOK'
  BY <1>1, <1>2, <1>5 DEF LedgerTypeOK
<1>7. QueueSound'
  <2>1. ASSUME NEW k \in 1..Len(queue'), queue'[k] \in Records
        PROVE  fate'[queue'[k]] = "handed" /\ rpc'[queue'[k]] = "sent" /\ queue'[k] \notin InBatch'
    <3>1. queue'[k] = queue[k + 1] /\ k + 1 \in 1..Len(queue) /\ k + 1 # 1
      BY <1>2, <1>3
    <3>2. queue[k + 1] # h
      BY <1>2, <1>4, <2>1, <3>1 DEF QueueSound
    <3> QED BY <1>1, <1>5, <2>1, <3>1, <3>2 DEF QueueSound
  <2>2. ASSUME NEW j \in 1..Len(queue'), NEW k \in 1..Len(queue'),
               queue'[j] \in Records, queue'[j] = queue'[k]
        PROVE  j = k
    <3>1. j + 1 = k + 1
      BY <1>2, <1>3, <2>2 DEF QueueSound
    <3> QED BY <1>2, <3>1
  <2> QED BY <2>1, <2>2 DEF QueueSound
<1>8. BatchSound'
  <2>1. \A p \in InBatch : fate[p] = "handed" /\ rpc[p] = "sent"
    <3>1. CASE wpc = "recv"
      <4>1. Len(batch) = 0
        BY <3>1 DEF BatchSound
      <4> QED BY <4>1 DEF InBatch
    <3>2. CASE wpc = "collect"
      BY <3>2 DEF BatchSound
    <3> QED BY <1>1, <3>1, <3>2
  <2>2. h \in Records => fate[h] = "handed" /\ rpc[h] = "sent"
    BY <1>2, <1>4 DEF QueueSound
  <2> QED BY <1>1, <1>5, <2>1, <2>2 DEF BatchSound
<1>9. ASSUME NEW p \in Records, NEW k \in 1..Len(queue), queue[k] = p
      PROVE  p \in InBatch' \/ (k - 1 \in 1..Len(queue') /\ queue'[k - 1] = p)
  <2>1. CASE k = 1
    BY <1>2, <1>5, <1>9, <2>1
  <2>2. CASE k # 1
    <3>1. k - 1 \in 1..Len(queue') /\ (k - 1) + 1 = k
      BY <1>2, <2>2
    <3> QED BY <1>2, <1>9, <3>1
  <2> QED BY <2>1, <2>2
<1>10. CallerSound'
  <2> SUFFICES ASSUME NEW p \in Records, rpc[p] = "sent", fate[p] = "handed"
               PROVE  p \in InBatch' \/ \E k \in 1..Len(queue') : queue'[k] = p
    BY <1>1 DEF CallerSound
  <2>1. CASE p \in InBatch
    BY <1>5, <2>1
  <2>2. CASE \E k \in 1..Len(queue) : queue[k] = p
    BY <1>9, <2>2
  <2> QED BY <2>1, <2>2 DEF CallerSound
<1>11. FlushSound'
  <2>0. ahead \subseteq Records
    BY DEF LedgerTypeOK
  <2>1. ASSUME flush' = "no" PROVE ~acks' /\ \A k \in 1..Len(queue') : queue'[k] # "flush"
    BY <1>1, <1>2, <1>3, <1>4, <2>1 DEF FlushSound
  <2>2. ASSUME NEW p \in ahead', fate'[p] = "handed", NEW k \in 1..Len(queue'), queue'[k] = "flush"
        PROVE  p \in InBatch' \/ \E j \in 1..(k - 1) : queue'[j] = p
    <3>1. k + 1 \in 1..Len(queue) /\ queue[k + 1] = "flush" /\ k \in Int
      BY <1>2, <1>3, <2>2
    <3>2. p \in InBatch \/ \E j \in 1..((k + 1) - 1) : queue[j] = p
      BY <1>1, <2>2, <3>1 DEF FlushSound
    <3>3. ASSUME NEW j \in 1..((k + 1) - 1), queue[j] = p
          PROVE  p \in InBatch' \/ \E i \in 1..(k - 1) : queue'[i] = p
      <4>1. j \in 1..Len(queue) /\ (j - 1 \in 1..Len(queue') => j - 1 \in 1..(k - 1))
        BY <1>2, <3>1
      <4>2. p \in InBatch' \/ (j - 1 \in 1..Len(queue') /\ queue'[j - 1] = p)
        BY <1>1, <1>9, <2>0, <2>2, <3>3, <4>1
      <4> QED BY <4>1, <4>2
    <3> QED BY <1>5, <3>2, <3>3
  <2>3. ASSUME acks', NEW p \in ahead', fate'[p] = "handed" PROVE p \in InBatch'
    <3>1. CASE acks
      BY <1>1, <1>5, <2>3, <3>1 DEF FlushSound
    <3>2. CASE h = "flush"
      <4>1. p \in InBatch \/ \E j \in 1..(1 - 1) : queue[j] = p
        BY <1>1, <1>2, <1>4, <2>3, <3>2 DEF FlushSound
      <4> QED BY <1>5, <4>1
    <3> QED BY <1>1, <2>3, <3>1, <3>2
  <2> QED BY <1>1, <2>1, <2>2, <2>3 DEF FlushSound, FlushedIsDecided
<1> QED BY <1>6, <1>7, <1>8, <1>10, <1>11

\* A non-empty set of positions has a first one.
LEMMA HasFirst ==
    ASSUME NEW T \in SUBSET Nat, T # {}
    PROVE  \E x \in T : \A y \in T : x <= y
<1>1. PICK x \in T : \A y \in T : ~(<<y, x>> \in OpToRel(<, Nat))
  BY NatLessThanWellFounded, WFMin
<1>2. \A y \in T : ~(y < x)
  BY <1>1 DEF OpToRel
<1> QED BY <1>2

\* INSERT OR IGNORE: the row of an id stays, or is made of a record of the batch.
LEMMA RowAfterProperties ==
    ASSUME LedgerTypeOK, NEW i \in Ids
    PROVE  /\ RowAfter(i) # rows[i] => rows[i] = NoRow
           /\ RowAfter(i) = rows[i] \/ (RowAfter(i) \in InBatch /\ IdOf[RowAfter(i)] = i)
           /\ (\E p \in InBatch : IdOf[p] = i) => RowAfter(i) # NoRow
           /\ RowAfter(i) \in Records \cup {NoRow}
<1> DEFINE same == {p \in InBatch : IdOf[p] = i}
           best == CHOOSE p \in same : \A q \in same : First(p) <= First(q)
<1>0. InBatch \subseteq Records /\ Len(batch) \in Nat
  BY ElementOfSeq, LenProperties DEF InBatch, LedgerTypeOK
<1>1. \A p \in InBatch : First(p) \in Nat
  BY <1>0 DEF First, InBatch
<1>2. same # {} => best \in same
  <2> SUFFICES ASSUME same # {} PROVE \E p \in same : \A q \in same : First(p) <= First(q)
    OBVIOUS
  <2> DEFINE T == {First(p) : p \in same}
  <2>1. T \in SUBSET Nat /\ T # {}
    BY <1>1
  <2>2. PICK x \in T : \A y \in T : x <= y
    BY <2>1, HasFirst
  <2> QED BY <2>2
<1>3. RowAfter(i) = IF rows[i] # NoRow \/ same = {} THEN rows[i] ELSE best
  BY DEF RowAfter
<1> HIDE DEF best
<1>4. rows[i] \in Records \cup {NoRow}
  BY DEF LedgerTypeOK
<1> QED BY <1>0, <1>2, <1>3, <1>4, LedgerAssumption

\* The batch is decided.
LEMMA WriteStep == ASSUME LedgerInv, WriteBatch PROVE LedgerInv'
<1> USE DEF LedgerInv
<1>1. /\ wpc = "collect" /\ wpc' = "counted"
      /\ UNCHANGED <<queue, rpc, batch, acks, flush, ahead>>
  BY DEF WriteBatch, BatchReady, channel
<1>2. InBatch' = InBatch /\ InBatch \subseteq Records
  BY <1>1, ElementOfSeq DEF InBatch, LedgerTypeOK
<1>3. rows' \in [Ids -> Records \cup {NoRow}]
  BY RowAfterProperties DEF WriteBatch, LedgerTypeOK
<1>4. /\ fate' \in [Records -> {"new", "handed", "lost"} \cup Decided]
      /\ \A p \in InBatch : fate'[p] \in Decided
      /\ \A p \in Records \ InBatch : fate'[p] = fate[p]
  BY <1>2 DEF WriteBatch, LedgerTypeOK, Decided
<1>5. LedgerTypeOK'
  BY <1>1, <1>3, <1>4 DEF LedgerTypeOK
<1>6. QueueSound'
  BY <1>1, <1>2, <1>4 DEF QueueSound
<1>7. BatchSound'
  BY <1>1, <1>2, <1>4 DEF BatchSound
<1>8. CallerSound'
  <2> SUFFICES ASSUME NEW p \in Records
               PROVE  /\ fate'[p] = "new" => rpc[p] = "idle"
                      /\ rpc[p] = "counted" => fate'[p] = "handed"
                      /\ rpc[p] = "sent" => fate'[p] \in {"handed"} \cup Decided
                      /\ rpc[p] = "sent" /\ fate'[p] = "handed" =>
                            p \in InBatch \/ \E k \in 1..Len(queue) : queue[k] = p
    BY <1>1, <1>2 DEF CallerSound
  <2>1. CASE p \in InBatch
    BY <1>4, <2>1 DEF BatchSound, Decided
  <2>2. CASE p \notin InBatch
    BY <1>4, <2>2 DEF CallerSound
  <2> QED BY <2>1, <2>2
<1>9. FlushSound'
  <2>1. \A p \in ahead : fate'[p] = "handed" => fate[p] = "handed" /\ p \notin InBatch
    BY <1>4 DEF LedgerTypeOK, Decided
  <2>2. flush = "acked" => \A p \in ahead : fate'[p] \in Decided
    BY <1>4 DEF FlushSound, FlushedIsDecided, LedgerTypeOK
  <2> QED BY <1>1, <1>2, <2>1, <2>2 DEF FlushSound, FlushedIsDecided
<1> QED BY <1>5, <1>6, <1>7, <1>8, <1>9

\* The decided batch is dropped.
LEMMA UncountStep == ASSUME LedgerInv, Uncount PROVE LedgerInv'
<1> USE DEF LedgerInv
<1>1. /\ wpc = "counted" /\ wpc' = "ack" /\ batch' = <<>>
      /\ UNCHANGED <<queue, rpc, acks, flush, rows, fate, ahead>>
  BY DEF Uncount, channel
<1>2. InBatch' = {} /\ \A p \in InBatch : fate[p] # "handed"
  BY <1>1 DEF InBatch, BatchSound, Decided
<1>3. LedgerTypeOK'
  BY <1>1, EmptySeq DEF LedgerTypeOK
<1>4. QueueSound'
  BY <1>1, <1>2 DEF QueueSound
<1>5. BatchSound'
  BY <1>1, <1>2 DEF BatchSound
<1>6. CallerSound'
  BY <1>1, <1>2 DEF CallerSound
<1>7. FlushSound'
  BY <1>1, <1>2 DEF FlushSound, FlushedIsDecided
<1> QED BY <1>3, <1>4, <1>5, <1>6, <1>7

\* The flush is answered with an empty batch.
LEMMA AckStep == ASSUME LedgerInv, Ack PROVE LedgerInv'
<1> USE DEF LedgerInv
<1>1. /\ wpc' = "recv" /\ batch = <<>> /\ acks' = FALSE
      /\ flush' = IF acks /\ flush = "waiting" THEN "acked" ELSE flush
      /\ UNCHANGED <<queue, rpc, batch, rows, fate, ahead>>
  BY DEF Ack, channel, BatchSound
<1>2. InBatch' = {} /\ InBatch = {}
  BY <1>1 DEF InBatch
<1>3. LedgerTypeOK'
  BY <1>1 DEF LedgerTypeOK
<1>4. QueueSound' /\ BatchSound' /\ CallerSound'
  BY <1>1, <1>2 DEF QueueSound, BatchSound, CallerSound
<1>5. acks => \A p \in ahead : fate[p] \in Decided
  BY <1>2 DEF FlushSound, CallerSound, LedgerTypeOK
<1>6. FlushSound'
  BY <1>1, <1>2, <1>5 DEF FlushSound, FlushedIsDecided
<1> QED BY <1>3, <1>4, <1>6

\* A new process knows nothing of the old one but the rows.
LEMMA RestartStep == ASSUME LedgerInv, Restart PROVE LedgerInv'
<1> USE DEF LedgerInv
<1>1. /\ queue' = <<>> /\ wpc' = "recv" /\ batch' = <<>> /\ acks' = FALSE /\ flush' = "no"
      /\ ahead' = {} /\ rpc' = [p \in Records |-> "idle"] /\ UNCHANGED rows
      /\ fate' = [p \in Records |-> IF fate[p] = "handed" THEN "lost" ELSE fate[p]]
  BY DEF Restart
<1>2. InBatch' = {}
  BY <1>1 DEF InBatch
<1>3. LedgerTypeOK'
  BY <1>1, EmptySeq DEF LedgerTypeOK
<1>4. QueueSound' /\ BatchSound' /\ CallerSound' /\ FlushSound'
  BY <1>1, <1>2 DEF QueueSound, BatchSound, CallerSound, FlushSound, FlushedIsDecided
<1> QED BY <1>3, <1>4

LEMMA LedgerInvStep == LedgerInv /\ [Next]_vars => LedgerInv'
<1> SUFFICES ASSUME LedgerInv, [Next]_vars PROVE LedgerInv'
  OBVIOUS
<1>1. ASSUME NEW p \in Records, Record(p) \/ Send(p) PROVE LedgerInv'
  BY <1>1, RecordStep, SendStep
<1>2. CASE RequestCheckpoint \/ Flush
  BY <1>2, CheckpointStep, FlushStep
<1>3. CASE FlushExpires
  <2>1. /\ flush = "waiting" /\ flush' = "expired"
        /\ UNCHANGED <<queue, rpc, wpc, batch, acks, rows, fate, ahead>>
    BY <1>3 DEF FlushExpires, channel, writer
  <2>2. InBatch' = InBatch
    BY <2>1 DEF InBatch
  <2> QED BY <2>1, <2>2 DEF LedgerInv, LedgerTypeOK, QueueSound, BatchSound, CallerSound,
                            FlushSound, FlushedIsDecided
<1>4. CASE WriterStep
  BY <1>4, ReceiveStep, WriteStep, UncountStep, AckStep DEF WriterStep
<1>5. CASE Restart
  BY <1>5, RestartStep
<1>6. CASE UNCHANGED vars
  <2>1. UNCHANGED <<queue, rpc, wpc, batch, acks, flush, rows, fate, ahead>>
    BY <1>6 DEF vars, channel, writer
  <2>2. InBatch' = InBatch
    BY <2>1 DEF InBatch
  <2> QED BY <2>1, <2>2 DEF LedgerInv, LedgerTypeOK, QueueSound, BatchSound, CallerSound,
                            FlushSound, FlushedIsDecided
<1> QED BY <1>1, <1>2, <1>3, <1>4, <1>5, <1>6 DEF Next

LEMMA LedgerInvInit == Init => LedgerInv
<1> SUFFICES ASSUME Init PROVE LedgerInv
  OBVIOUS
<1>1. InBatch = {}
  BY DEF Init, InBatch
<1>2. LedgerTypeOK
  BY EmptySeq DEF Init, LedgerTypeOK
<1>3. QueueSound /\ BatchSound /\ CallerSound /\ FlushSound
  BY <1>1 DEF Init, QueueSound, BatchSound, CallerSound, FlushSound, FlushedIsDecided
<1> QED BY <1>2, <1>3 DEF LedgerInv

LEMMA LedgerInvariant == Spec => []LedgerInv
<1>1. Init => LedgerInv
  BY LedgerInvInit
<1>2. LedgerInv /\ [Next]_vars => LedgerInv'
  BY LedgerInvStep
<1> QED BY <1>1, <1>2, PTL DEF Spec

(* When Ledger::flush has returned true, every record that was sent before   *)
(* it has been written, ignored as a duplicate or counted as failed, for any *)
(* number of records and any BATCH.                                          *)
THEOREM FlushIsBarrier == Spec => []FlushedIsDecided
<1>1. LedgerInv => FlushedIsDecided
  BY DEF LedgerInv, FlushSound
<1> QED BY <1>1, LedgerInvariant, PTL

\* pending is a number, and the batch holds a record at most once.
CountSound ==
    /\ pending \in Int
    /\ \A j, k \in 1..Len(batch) : batch[j] = batch[k] => j = k

LEMMA CountInit == Init => CountSound
  BY DEF Init, CountSound

LEMMA CountStep == LedgerInv /\ CountSound /\ [Next]_vars => CountSound'
<1> SUFFICES ASSUME LedgerInv, CountSound, [Next]_vars PROVE CountSound'
  OBVIOUS
<1> USE DEF CountSound
<1>1. CASE \E p \in Records : Record(p)
  BY <1>1 DEF Record, writer
<1>2. CASE Receive
  <2>1. CASE Head(queue) \in Records
    <3>1. Head(queue) = queue[1] /\ 1 \in 1..Len(queue)
      BY <1>2 DEF Receive, LedgerInv, LedgerTypeOK
    <3>2. Head(queue) \notin InBatch
      BY <2>1, <3>1 DEF LedgerInv, QueueSound
    <3>3. \A k \in 1..Len(batch) : batch[k] # Head(queue)
      BY <3>2 DEF InBatch
    <3>4. batch \in Seq(Records) /\ batch' = Append(batch, Head(queue))
      BY <1>2, <2>1 DEF Receive, LedgerInv, LedgerTypeOK
    <3>5. /\ Len(batch) \in Nat
          /\ Len(batch') = Len(batch) + 1
          /\ \A k \in 1..Len(batch) : batch'[k] = batch[k]
          /\ batch'[Len(batch) + 1] = Head(queue)
      BY <2>1, <3>4
    <3>6. pending' = pending
      BY <1>2 DEF Receive, counters
    <3> QED BY <3>3, <3>5, <3>6
  <2>2. CASE Head(queue) \notin Records
    BY <1>2, <2>2 DEF Receive, counters
  <2> QED BY <2>1, <2>2
<1>3. CASE Uncount
  BY <1>3 DEF Uncount, LedgerInv, LedgerTypeOK
<1>4. CASE Restart
  BY <1>4 DEF Restart
<1>5. CASE \/ \E p \in Records : Send(p)
           \/ RequestCheckpoint \/ Flush \/ FlushExpires
           \/ WriteBatch \/ Ack \/ UNCHANGED vars
  BY <1>5 DEF Send, RequestCheckpoint, Flush, FlushExpires, WriteBatch, Ack, vars,
              writer, counters
<1> QED BY <1>1, <1>2, <1>3, <1>4, <1>5 DEF Next, WriterStep

\* A batch without repetitions has as many records as it is long.
LEMMA BatchSize ==
    ASSUME LedgerInv, CountSound
    PROVE  Cardinality(InBatch) = Len(batch)
<1>1. batch \in Seq(Records) /\ Len(batch) \in Nat
  BY DEF LedgerInv, LedgerTypeOK
<1> DEFINE f == [k \in 1..Len(batch) |-> batch[k]]
<1>2. f \in Bijection(1..Len(batch), InBatch)
  BY <1>1 DEF Bijection, Injection, Surjection, IsInjective, InBatch, CountSound
<1>3. ExistsBijection(1..Len(batch), InBatch)
  BY <1>2 DEF ExistsBijection
<1>4. IsFiniteSet(1..Len(batch)) /\ Cardinality(1..Len(batch)) = Len(batch)
  BY SMTT(30), <1>1, FS_Interval
<1> QED BY <1>3, <1>4, FS_Bijection

\* The promise counts as the ledger does.
LEMMA SameCount == Promise!Cardinality(InBatch) = Cardinality(InBatch)
  BY DEF Promise!Cardinality, Cardinality, Promise!IsFiniteSet, IsFiniteSet

\* Every step of the ledger is a step of its promise or changes nothing there.
LEMMA PromiseStep ==
    LedgerInv /\ CountSound /\ [Next]_vars => [Promise!PNext]_<<fate, rows, Owed>>
<1> SUFFICES ASSUME LedgerInv, CountSound, [Next]_vars PROVE [Promise!PNext]_<<fate, rows, Owed>>
  OBVIOUS
<1>0. /\ batch \in Seq(Records) /\ Len(batch) \in Nat
      /\ pending \in Int
  BY DEF LedgerInv, LedgerTypeOK, CountSound
<1>1. ASSUME NEW p \in Records, Record(p) PROVE Promise!Hand(p)
  <2>1. Owed' = Owed + 1
    BY <1>0, <1>1 DEF Record, writer, Owed
  <2> QED BY <1>1, <2>1 DEF Record, Promise!Hand
<1>2. CASE WriteBatch
  <2>a. Owed' = Owed - Promise!Cardinality(InBatch)
    BY <1>0, <1>2, BatchSize, SameCount DEF WriteBatch, BatchReady, Owed
  <2>0. InBatch \in SUBSET {p \in Records : fate[p] = "handed"}
    BY <1>2, ElementOfSeq DEF LedgerInv, BatchSound, WriteBatch, BatchReady, InBatch, LedgerTypeOK
  <2>1. CASE /\ rows' = [i \in Ids |-> RowAfter(i)]
             /\ fate' = [p \in Records |->
                            IF p \notin InBatch THEN fate[p]
                            ELSE IF p \in {q \in InBatch : RowAfter(IdOf[q]) = q}
                                 THEN "stored" ELSE "duplicate"]
    <3>1. \A i \in Ids : rows'[i] = RowAfter(i)
      BY <2>1
    <3>2. \A p \in InBatch : p \in Records /\ IdOf[p] \in Ids
      BY <2>0, LedgerAssumption
    <3>3. rows' \in [Ids -> Records \cup {NoRow}]
      BY <2>1, RowAfterProperties DEF LedgerInv
    <3>4. \A i \in Ids : rows'[i] # rows[i] =>
             rows[i] = NoRow /\ rows'[i] \in InBatch /\ IdOf[rows'[i]] = i
      BY <3>1, RowAfterProperties DEF LedgerInv
    <3>5. \A p \in InBatch : rows'[IdOf[p]] # NoRow
      BY <3>1, <3>2, RowAfterProperties DEF LedgerInv
    <3>6. fate' = [p \in Records |->
                     IF p \notin InBatch THEN fate[p]
                     ELSE IF rows'[IdOf[p]] = p THEN "stored" ELSE "duplicate"]
      BY <2>1, <3>1, <3>2
    <3>7. Promise!Write(InBatch)
      BY <2>a, <3>3, <3>4, <3>5, <3>6 DEF Promise!Write
    <3> QED BY <2>0, <3>7 DEF Promise!PNext
  <2>2. CASE /\ fate' = [p \in Records |-> IF p \in InBatch THEN "failed" ELSE fate[p]]
             /\ UNCHANGED rows
    <3>1. Promise!Refuse(InBatch)
      BY <2>a, <2>2 DEF Promise!Refuse
    <3> QED BY <2>0, <3>1 DEF Promise!PNext
  <2> QED BY <1>2, <2>1, <2>2 DEF WriteBatch
<1>3. CASE Restart
  <2>1. Owed' = 0
    BY <1>3 DEF Restart, Owed
  <2> QED BY <1>3, <2>1 DEF Restart, Promise!Lose, Promise!PNext
<1>4. CASE \/ \E p \in Records : Send(p)
           \/ RequestCheckpoint \/ Flush \/ FlushExpires
           \/ Receive \/ Uncount \/ Ack \/ UNCHANGED vars
  <2>1. UNCHANGED <<fate, rows>>
    BY <1>4 DEF Send, RequestCheckpoint, Flush, FlushExpires, Receive, Uncount, Ack, vars
  <2>2. CASE Uncount
    BY <1>0, <2>2 DEF Uncount, Owed
  <2>3. CASE Receive \/ Ack
    BY <1>0, <2>3 DEF Receive, Ack, counters, Owed
  <2>4. CASE \/ \E p \in Records : Send(p)
             \/ RequestCheckpoint \/ Flush \/ FlushExpires \/ UNCHANGED vars
    BY <2>4 DEF Send, RequestCheckpoint, Flush, FlushExpires, vars, writer, counters, Owed
  <2> QED BY <1>4, <2>1, <2>2, <2>3, <2>4
<1> QED BY <1>1, <1>2, <1>3, <1>4 DEF Next, WriterStep, Promise!PNext

(* The ledger implements LedgerPromise: every record is decided once, a      *)
(* request id gets at most one row (UNIQUE and INSERT OR IGNORE), rows never *)
(* change, only the end of a process loses records, and pending, less the    *)
(* batch just decided, is exactly the number of undecided records.           *)
THEOREM LedgerRefinesPromise == Spec => KeepsPromise
<1>1. Init => Promise!PInit
  BY DEF Init, Promise!PInit, Owed
<1>2. LedgerInv /\ CountSound /\ [Next]_vars => [Promise!PNext]_<<fate, rows, Owed>>
  BY PromiseStep
<1>3. Spec => []CountSound
  BY CountInit, CountStep, LedgerInvariant, PTL DEF Spec
<1> QED BY <1>1, <1>2, <1>3, LedgerInvariant, PTL DEF Spec, KeepsPromise, Promise!PSpec

------------------------------------------------------------------------------
(* The counters of Ledger, which stats reports, are exact.                   *)

\* What became of the records of this process.
Became(f) == {p \in Records : rpc[p] = "sent" /\ fate[p] = f}
Undecided == {p \in Records : fate[p] = "handed"}

\* Every counter counts the records it is about, pending less a batch that has
\* been decided and not been counted off yet.
Booked ==
    /\ written = Cardinality(Became("stored"))
    /\ ignored = Cardinality(Became("duplicate"))
    /\ failed = Cardinality(Became("failed"))
    /\ Owed = Cardinality(Undecided)
    /\ Len(batch) <= Batch
    /\ runs \in 1..MaxRuns

\* Sets of records are finite, and disjoint ones add up.
LEMMA RecordSets ==
    ASSUME NEW S \in SUBSET Records, NEW T \in SUBSET Records
    PROVE  /\ IsFiniteSet(S) /\ Cardinality(S) \in Nat
           /\ Cardinality(S) <= Cardinality(Records)
           /\ S \cap T = {} => Cardinality(S \cup T) = Cardinality(S) + Cardinality(T)
<1>1. \A X \in SUBSET Records : IsFiniteSet(X) /\ Cardinality(X) <= Cardinality(Records)
  BY FS_Subset, LedgerAssumption
<1>2. \A X \in SUBSET Records : Cardinality(X) \in Nat
  BY <1>1, FS_CardinalityType
<1>3. ASSUME S \cap T = {} PROVE Cardinality(S \cup T) = Cardinality(S) + Cardinality(T)
  <2>1. IsFiniteSet(S) /\ IsFiniteSet(T)
    BY <1>1
  <2>2. Cardinality(S \cup T) = Cardinality(S) + Cardinality(T) - Cardinality(S \cap T)
    BY <2>1, FS_Union
  <2>3. Cardinality(S \cap T) = 0
    BY <1>3, FS_EmptySet
  <2>4. Cardinality(S) \in Nat /\ Cardinality(T) \in Nat
    BY <1>2
  <2> QED BY <2>2, <2>3, <2>4
<1> QED BY <1>1, <1>2, <1>3

\* No record has been handed over at the start.
LEMMA BookedInit == Init => Booked
<1> SUFFICES ASSUME Init PROVE Booked
  OBVIOUS
<1>1. Became("stored") = {} /\ Became("duplicate") = {} /\ Became("failed") = {}
      /\ Undecided = {}
  BY DEF Init, Became, Undecided
<1>2. Owed = 0
  BY DEF Init, Owed
<1>3. Len(batch) <= Batch /\ runs \in 1..MaxRuns
  BY LedgerAssumption DEF Init
<1> QED BY <1>1, <1>2, <1>3, FS_EmptySet DEF Init, Booked

\* A step that leaves the fates and the counters alone leaves them exact.
LEMMA BookedKept ==
    ASSUME LedgerInv, Booked, fate' = fate, UNCHANGED <<written, ignored, failed, runs>>,
           Owed' = Owed, Len(batch') <= Batch,
           \A p \in Records : fate[p] \in Decided => (rpc'[p] = "sent" <=> rpc[p] = "sent")
    PROVE  Booked'
<1>1. \A f \in Decided : Became(f)' = Became(f)
  BY DEF Became
<1>2. Became("stored")' = Became("stored") /\ Became("duplicate")' = Became("duplicate")
      /\ Became("failed")' = Became("failed")
  BY <1>1 DEF Decided
<1>3. Undecided' = Undecided
  BY DEF Undecided
<1> QED BY <1>2, <1>3 DEF Booked

\* write_batch books the whole batch, whichever way the transaction goes.
LEMMA WriteBooked ==
    ASSUME LedgerInv, CountSound, Booked, WriteBatch
    PROVE  Booked'
<1> DEFINE stored == {p \in InBatch : RowAfter(IdOf[p]) = p}
<1>1. /\ batch \in Seq(Records) /\ Len(batch) \in Nat /\ pending \in Int
      /\ Cardinality(InBatch) = Len(batch)
  BY BatchSize DEF LedgerInv, LedgerTypeOK, CountSound
<1>2. /\ \A p \in InBatch : p \in Records /\ fate[p] = "handed" /\ rpc[p] = "sent"
      /\ fate \in [Records -> {"new", "handed", "lost"} \cup Decided]
  BY ElementOfSeq DEF LedgerInv, BatchSound, WriteBatch, BatchReady, InBatch, LedgerTypeOK
<1>3. UNCHANGED <<rpc, batch, runs, pending>>
  BY DEF WriteBatch, channel
<1>4. \A p \in InBatch : fate'[p] \in Decided
  BY <1>2 DEF WriteBatch, Decided
<1>5. \A p \in Records \ InBatch : fate'[p] = fate[p]
  BY <1>2 DEF WriteBatch
<1>6. Owed' = Cardinality(Undecided')
  <2>1. Undecided = Undecided' \cup InBatch /\ Undecided' \cap InBatch = {}
    BY <1>2, <1>4, <1>5 DEF Undecided, Decided
  <2>2. Undecided' \in SUBSET Records /\ InBatch \in SUBSET Records
    BY <1>2 DEF Undecided
  <2>3. Cardinality(Undecided) = Cardinality(Undecided') + Cardinality(InBatch)
        /\ Cardinality(Undecided') \in Nat
    BY <2>1, <2>2, RecordSets
  <2>4. Owed = pending /\ Owed' = pending - Len(batch)
    BY <1>1, <1>3 DEF WriteBatch, BatchReady, Owed
  <2>5. Owed = Cardinality(Undecided)
    BY DEF Booked
  <2> QED BY <1>1, <2>3, <2>4, <2>5
<1>7. \A f \in Decided : /\ Became(f) \in SUBSET Records /\ Became(f) \cap InBatch = {}
                         /\ Became(f)' = Became(f) \cup {p \in InBatch : fate'[p] = f}
  BY <1>2, <1>3, <1>5 DEF Became, Decided
<1>8. ASSUME NEW f \in Decided, NEW S \in SUBSET InBatch, {p \in InBatch : fate'[p] = f} = S
      PROVE  Cardinality(Became(f)') = Cardinality(Became(f)) + Cardinality(S)
             /\ Cardinality(Became(f)) \in Nat
  <2>1. Became(f) \in SUBSET Records /\ S \in SUBSET Records /\ Became(f) \cap S = {}
    BY <1>2, <1>7
  <2>2. Became(f)' = Became(f) \cup S
    BY <1>7, <1>8
  <2> QED BY <2>1, <2>2, RecordSets
<1>9. stored \in SUBSET InBatch /\ InBatch \ stored \in SUBSET InBatch /\ {} \in SUBSET InBatch
      /\ InBatch \in SUBSET InBatch
  OBVIOUS
<1>10. "stored" \in Decided /\ "duplicate" \in Decided /\ "failed" \in Decided
  BY DEF Decided
<1>11. Cardinality({}) = 0
  BY FS_EmptySet
<1>12. /\ written = Cardinality(Became("stored")) /\ ignored = Cardinality(Became("duplicate"))
       /\ failed = Cardinality(Became("failed")) /\ Len(batch) <= Batch /\ runs \in 1..MaxRuns
  BY DEF Booked
<1>13. Cardinality(InBatch) = Cardinality(stored) + Cardinality(InBatch \ stored)
       /\ Cardinality(stored) \in Nat /\ Cardinality(InBatch \ stored) \in Nat
  <2>1. stored \in SUBSET Records /\ InBatch \ stored \in SUBSET Records
    BY <1>2
  <2>2. stored \cap (InBatch \ stored) = {} /\ stored \cup (InBatch \ stored) = InBatch
    OBVIOUS
  <2> HIDE DEF stored
  <2> QED BY <2>1, <2>2, RecordSets
<1>14. CASE /\ written' = written + Cardinality(stored)
            /\ ignored' = ignored + Len(batch) - Cardinality(stored)
            /\ fate' = [p \in Records |->
                          IF p \notin InBatch THEN fate[p]
                          ELSE IF p \in stored THEN "stored" ELSE "duplicate"]
            /\ UNCHANGED failed
  <2>1. \A p \in InBatch : fate'[p] = IF p \in stored THEN "stored" ELSE "duplicate"
    BY <1>2, <1>14
  <2> HIDE DEF stored
  <2>2. /\ {p \in InBatch : fate'[p] = "stored"} = stored
        /\ {p \in InBatch : fate'[p] = "duplicate"} = InBatch \ stored
        /\ {p \in InBatch : fate'[p] = "failed"} = {}
    BY <1>9, <2>1
  <2>3. /\ Cardinality(Became("stored")') = Cardinality(Became("stored")) + Cardinality(stored)
        /\ Cardinality(Became("stored")) \in Nat
    BY <1>8, <1>9, <1>10, <2>2
  <2>4. /\ Cardinality(Became("duplicate")')
             = Cardinality(Became("duplicate")) + Cardinality(InBatch \ stored)
        /\ Cardinality(Became("duplicate")) \in Nat
    BY <1>8, <1>9, <1>10, <2>2
  <2>5. /\ Cardinality(Became("failed")') = Cardinality(Became("failed")) + Cardinality({})
        /\ Cardinality(Became("failed")) \in Nat
    BY <1>8, <1>9, <1>10, <2>2
  <2>6. written' = Cardinality(Became("stored")') /\ failed' = Cardinality(Became("failed")')
    BY <1>11, <1>12, <1>14, <2>3, <2>5
  <2>7. ignored' = Cardinality(Became("duplicate")')
    <3>1. /\ ignored' = ignored + Len(batch) - Cardinality(stored)
          /\ ignored = Cardinality(Became("duplicate"))
      BY <1>12, <1>14
    <3>2. /\ Len(batch) = Cardinality(stored) + Cardinality(InBatch \ stored)
          /\ Cardinality(stored) \in Nat /\ Cardinality(InBatch \ stored) \in Nat
      BY <1>1, <1>13
    <3> QED BY <2>4, <3>1, <3>2
  <2> QED BY <1>3, <1>6, <1>12, <2>6, <2>7 DEF Booked
<1>15. CASE /\ failed' = failed + Len(batch)
            /\ fate' = [p \in Records |-> IF p \in InBatch THEN "failed" ELSE fate[p]]
            /\ UNCHANGED <<rows, written, ignored>>
  <2>1. \A p \in InBatch : fate'[p] = "failed"
    BY <1>2, <1>15
  <2>2. /\ {p \in InBatch : fate'[p] = "stored"} = {}
        /\ {p \in InBatch : fate'[p] = "duplicate"} = {}
        /\ {p \in InBatch : fate'[p] = "failed"} = InBatch
    BY <2>1
  <2>3. /\ Cardinality(Became("stored")') = Cardinality(Became("stored")) + Cardinality({})
        /\ Cardinality(Became("stored")) \in Nat
    BY <1>8, <1>9, <1>10, <2>2
  <2>4. /\ Cardinality(Became("duplicate")') = Cardinality(Became("duplicate")) + Cardinality({})
        /\ Cardinality(Became("duplicate")) \in Nat
    BY <1>8, <1>9, <1>10, <2>2
  <2>5. Cardinality(Became("failed")') = Cardinality(Became("failed")) + Cardinality(InBatch)
    BY <1>8, <1>9, <1>10, <2>2
  <2>6. /\ written' = Cardinality(Became("stored")')
        /\ ignored' = Cardinality(Became("duplicate")')
    BY <1>11, <1>12, <1>15, <2>3, <2>4
  <2>7. failed' = Cardinality(Became("failed")')
    BY <1>1, <1>12, <1>15, <2>5
  <2> QED BY <1>3, <1>6, <1>12, <2>6, <2>7 DEF Booked
<1> QED BY <1>14, <1>15 DEF WriteBatch

\* The counters stay exact in every step.
LEMMA BookedStep == LedgerInv /\ CountSound /\ Booked /\ [Next]_vars => Booked'
<1> SUFFICES ASSUME LedgerInv, CountSound, Booked, [Next]_vars PROVE Booked'
  OBVIOUS
<1>0. /\ batch \in Seq(Records) /\ Len(batch) \in Nat /\ pending \in Int
      /\ Len(batch) <= Batch /\ Batch \in Nat /\ runs \in 1..MaxRuns
      /\ \A p \in Records : rpc[p] = "counted" => fate[p] = "handed"
  BY LedgerAssumption DEF LedgerInv, LedgerTypeOK, CountSound, Booked, CallerSound
<1>1. ASSUME NEW p \in Records, Record(p) PROVE Booked'
  <2>1. /\ fate[p] = "new" /\ fate' = [fate EXCEPT ![p] = "handed"]
        /\ rpc' = [rpc EXCEPT ![p] = "counted"] /\ rpc[p] = "idle"
        /\ UNCHANGED <<batch, wpc, written, ignored, failed, runs>>
        /\ fate \in [Records -> {"new", "handed", "lost"} \cup Decided]
        /\ rpc \in [Records -> {"idle", "counted", "sent"}]
    BY <1>1 DEF Record, writer, LedgerInv, LedgerTypeOK, CallerSound
  <2>2. \A f \in Decided : Became(f)' = Became(f)
    BY <2>1 DEF Became, Decided
  <2>3. Undecided' = Undecided \cup {p} /\ Undecided \cap {p} = {}
    BY <2>1 DEF Undecided
  <2>4. Cardinality(Undecided') = Cardinality(Undecided) + 1
    <3>1. Undecided \in SUBSET Records /\ {p} \in SUBSET Records
      BY DEF Undecided
    <3>2. Cardinality({p}) = 1
      BY FS_Singleton
    <3> QED BY <2>3, <3>1, <3>2, RecordSets
  <2>5. Owed' = Owed + 1
    BY <1>0, <1>1 DEF Record, writer, Owed
  <2>6. "stored" \in Decided /\ "duplicate" \in Decided /\ "failed" \in Decided
    BY DEF Decided
  <2> QED BY <2>1, <2>2, <2>4, <2>5, <2>6 DEF Booked
<1>2. ASSUME NEW p \in Records, Send(p) PROVE Booked'
  <2>1. /\ fate' = fate /\ UNCHANGED <<batch, wpc, pending, written, ignored, failed, runs>>
        /\ rpc' = [rpc EXCEPT ![p] = "sent"] /\ fate[p] = "handed"
        /\ rpc \in [Records -> {"idle", "counted", "sent"}]
    BY <1>0, <1>2 DEF Send, writer, counters, LedgerInv, LedgerTypeOK
  <2>2. Owed' = Owed
    BY <2>1 DEF Owed
  <2> QED BY <1>0, <2>1, <2>2, BookedKept DEF Decided
<1>3. CASE RequestCheckpoint \/ Flush \/ FlushExpires \/ Ack \/ UNCHANGED vars
  <2>1. UNCHANGED <<fate, batch, rpc, pending, written, ignored, failed, runs>>
    BY <1>3 DEF RequestCheckpoint, Flush, FlushExpires, Ack, vars, writer, counters, channel
  <2>2. Owed' = Owed
    <3>1. CASE Ack
      BY <1>0, <2>1, <3>1 DEF Ack, Owed
    <3>2. CASE RequestCheckpoint \/ Flush \/ FlushExpires \/ UNCHANGED vars
      BY <2>1, <3>2 DEF RequestCheckpoint, Flush, FlushExpires, vars, writer, Owed
    <3> QED BY <1>3, <3>1, <3>2
  <2> QED BY <1>0, <2>1, <2>2, BookedKept
<1>4. CASE Receive
  <2>1. UNCHANGED <<fate, rpc, pending, written, ignored, failed, runs>>
    BY <1>4 DEF Receive, counters
  <2>2. Owed' = Owed
    BY <1>0, <1>4, <2>1 DEF Receive, Owed
  <2>3. Len(batch') <= Batch
    <3>1. CASE wpc = "recv"
      <4>1. batch = <<>>
        BY <3>1 DEF LedgerInv, BatchSound
      <4> QED BY <1>4, <4>1, LedgerAssumption DEF Receive
    <3>2. CASE wpc = "collect" /\ Len(batch) < Batch
      BY <1>0, <1>4, <3>2 DEF Receive
    <3> QED BY <1>4, <3>1, <3>2 DEF Receive
  <2> QED BY <2>1, <2>2, <2>3, BookedKept
<1>5. CASE WriteBatch
  BY <1>5, WriteBooked
<1>6. CASE Uncount
  <2>1. UNCHANGED <<fate, rpc, written, ignored, failed, runs>> /\ batch' = <<>>
    BY <1>6 DEF Uncount, channel
  <2>2. Owed' = Owed
    BY <1>0, <1>6 DEF Uncount, Owed
  <2> QED BY <1>0, <2>1, <2>2, BookedKept
<1>7. CASE Restart
  <2>1. /\ Became("stored")' = {} /\ Became("duplicate")' = {} /\ Became("failed")' = {}
        /\ Undecided' = {}
    BY <1>7 DEF Restart, Became, Undecided
  <2>2. Owed' = 0 /\ written' = 0 /\ ignored' = 0 /\ failed' = 0 /\ batch' = <<>>
    BY <1>7 DEF Restart, Owed
  <2>3. runs' \in 1..MaxRuns /\ Len(batch') <= Batch
    BY <1>0, <1>7, <2>2, LedgerAssumption DEF Restart
  <2>4. Cardinality({}) = 0
    BY FS_EmptySet
  <2> QED BY <2>1, <2>2, <2>3, <2>4 DEF Booked
<1> QED BY <1>1, <1>2, <1>3, <1>4, <1>5, <1>6, <1>7 DEF Next, WriterStep

\* The counters are exact in every state.
LEMMA BookedInvariant == Spec => [](LedgerInv /\ CountSound /\ Booked)
<1>1. Spec => []CountSound
  BY CountInit, CountStep, LedgerInvariant, PTL DEF Spec
<1> QED BY <1>1, BookedInit, BookedStep, LedgerInvariant, PTL DEF Spec

(* What stats reports is what happened: written, ignored and failed are the  *)
(* numbers of records of this process that were stored, were duplicates and  *)
(* failed, and pending is the number of undecided ones until a decided batch *)
(* is counted off, whatever fetch_add, fetch_sub and the transactions of the *)
(* writer thread do in which order.                                          *)
THEOREM CountersExact == Spec => []Booked
BY BookedInvariant, PTL

(* Every part of the ledger keeps its type: pending never wraps below zero   *)
(* or exceeds the records there are, and a batch is never longer than BATCH. *)
THEOREM TypeCorrect == Spec => []TypeOK
<1>1. ASSUME LedgerInv, CountSound, Booked PROVE TypeOK
  <2>1. /\ queue \in Seq(Records \cup {"flush", "checkpoint"})
        /\ wpc \in {"recv", "collect", "counted", "ack"}
        /\ batch \in Seq(Records) /\ Len(batch) <= Batch
        /\ acks \in BOOLEAN
        /\ rpc \in [Records -> {"idle", "counted", "sent"}]
        /\ flush \in {"no", "waiting", "acked", "expired"}
        /\ rows \in [Ids -> Records \cup {NoRow}]
        /\ fate \in [Records -> {"new", "handed", "lost"} \cup Decided]
        /\ ahead \subseteq Records
        /\ runs \in 1..MaxRuns
    BY <1>1 DEF LedgerInv, LedgerTypeOK, Message, Booked
  <2>2. /\ Undecided \in SUBSET Records /\ {} \in SUBSET Records
        /\ \A f \in Decided : Became(f) \in SUBSET Records
    BY DEF Undecided, Became
  <2>3. "stored" \in Decided /\ "duplicate" \in Decided /\ "failed" \in Decided
    BY DEF Decided
  <2>4. Cardinality(Records) \in Nat
    BY LedgerAssumption, FS_CardinalityType
  <2>5. ASSUME NEW S \in SUBSET Records PROVE Cardinality(S) \in 0..Cardinality(Records)
    BY <2>2, <2>4, RecordSets
  <2>6. {written, ignored, failed} \subseteq 0..Cardinality(Records)
    BY <1>1, <2>2, <2>3, <2>5 DEF Booked
  <2>7. pending \in 0..Cardinality(Records)
    <3>1. CASE wpc = "counted"
      <4>1. InBatch \in SUBSET Records /\ Undecided \cap InBatch = {}
        BY <1>1, <3>1, <2>1, ElementOfSeq DEF LedgerInv, BatchSound, Undecided, InBatch, Decided
      <4>2. Cardinality(Undecided \cup InBatch) = Cardinality(Undecided) + Cardinality(InBatch)
        BY <2>2, <4>1, RecordSets
      <4>3. Undecided \cup InBatch \in SUBSET Records
        BY <2>2, <4>1
      <4>4. Cardinality(Undecided \cup InBatch) \in 0..Cardinality(Records)
        BY <2>5, <4>3
      <4>5. pending \in Int /\ Owed = pending - Len(batch) /\ Len(batch) \in Nat
            /\ Owed = Cardinality(Undecided) /\ Cardinality(InBatch) = Len(batch)
        BY <1>1, <3>1, <2>1, BatchSize DEF CountSound, Owed, Booked
      <4> QED BY <4>2, <4>4, <4>5
    <3>2. CASE wpc # "counted"
      <4>1. pending \in Int /\ Owed = pending - 0 /\ Owed = Cardinality(Undecided)
        BY <1>1, <3>2 DEF CountSound, Owed, Booked
      <4> QED BY <2>2, <2>5, <4>1
    <3> QED BY <3>1, <3>2
  <2> QED BY <2>1, <2>6, <2>7 DEF TypeOK
<1> QED BY <1>1, BookedInvariant, PTL
====
