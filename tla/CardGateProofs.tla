--------------------------- MODULE CardGateProofs ---------------------------
(***************************************************************************)
(* Proofs about CardGate, for any number of requests and lanes: the lane   *)
(* counter is exact, no waiter sleeps in front of an idle card, holds are  *)
(* never forgotten and the card is never charged more than was spent.      *)
(***************************************************************************)
EXTENDS CardGate, FiniteSetTheorems, SequenceTheorems, TLAPS

\* The part of the type invariant the lane depends on.
LaneTypeOK ==
    /\ pc \in [Requests -> Label]
    /\ cap \in [Requests -> 0..Lanes]
    /\ queue \in Seq(Requests)
    /\ stored \in BOOLEAN
    /\ inFlight \in Nat

LaneInv == LaneTypeOK /\ QueueOK /\ LanesCounted /\ WakeOnItsWay

\* The widest cap is a positive number.
LEMMA LanesNat == Lanes \in Nat \ {0}
BY CardAssumption DEF Lanes, Larger

\* The caps of all throttle levels are between one lane and Lanes.
LEMMA LaneCapInRange ==
    ASSUME NEW n, NEW t \in Throttles(n)
    PROVE  LaneCap(t) \in 1..Lanes
<1>1. t \in {"normal", "soften", "degraded"}
  BY DEF Throttles
<1>2. CASE t = "normal"
  BY <1>2, CardAssumption DEF LaneCap, Lanes, Larger
<1>3. CASE t = "soften"
  BY <1>3, CardAssumption DEF LaneCap, Larger, Lanes
<1>4. CASE t = "degraded"
  BY <1>4, CardAssumption DEF LaneCap, Larger, Lanes
<1> QED BY <1>1, <1>2, <1>3, <1>4

\* One more permit, one more element of InLane.
LEMMA LaneTaken ==
    ASSUME LaneTypeOK, LanesCounted, NEW r \in Requests, pc[r] \notin PermitPC,
           InLane' = InLane \cup {r}, inFlight' = inFlight + 1, inFlight < Lanes
    PROVE  LanesCounted'
<1>1. IsFiniteSet(InLane) /\ r \notin InLane
  BY CardAssumption, LanesNat, FS_Subset DEF InLane
<1>2. Cardinality(InLane \cup {r}) = Cardinality(InLane) + 1
  BY <1>1, FS_AddElement
<1> QED BY <1>2, CardAssumption, LanesNat DEF LanesCounted, LaneTypeOK

\* One permit less, one element of InLane less.
LEMMA LaneFreed ==
    ASSUME LaneTypeOK, LanesCounted, NEW r \in Requests, pc[r] \in PermitPC,
           InLane' = InLane \ {r}, inFlight' = inFlight - 1
    PROVE  LanesCounted' /\ inFlight' \in Nat
<1>1. IsFiniteSet(InLane) /\ r \in InLane
  BY CardAssumption, LanesNat, FS_Subset DEF InLane
<1>2. Cardinality(InLane \ {r}) = Cardinality(InLane) - 1
  BY <1>1, FS_RemoveElement
<1>3. Cardinality(InLane \ {r}) \in Nat
  BY <1>1, FS_RemoveElement, FS_CardinalityType
<1> QED BY <1>2, <1>3, CardAssumption, LanesNat DEF LanesCounted, LaneTypeOK

\* A step of one request that leaves the lanes and the queue alone, and neither
\* stops a helper from helping nor begins to wait.
LEMMA QuietStep ==
    ASSUME LaneInv, NEW r \in Requests, NEW label \in Label,
           pc' = [pc EXCEPT ![r] = label],
           UNCHANGED <<inFlight, stored, queue>>,
           cap' \in [Requests -> 0..Lanes],
           \A q \in Requests \ {r} : cap'[q] = cap[q],
           label \in LanePC => cap'[r] \in 1..Lanes,
           pc[r] # "asleep", label \notin {"asleep", "await"},
           pc[r] \in PermitPC <=> label \in PermitPC,
           pc[r] \in {"notify", "woken", "try", "recheck"}
             => label \in {"notify", "woken", "try", "recheck"}
    PROVE  LaneInv'
<1> USE DEF LaneInv, LaneTypeOK
<1>1. LaneTypeOK'
  OBVIOUS
<1>2. QueueOK'
  BY DEF QueueOK
<1>3. LanesCounted'
  <2>1. InLane' = InLane
    BY DEF InLane
  <2> QED BY <2>1 DEF LanesCounted
<1>4. WakeOnItsWay'
  BY DEF WakeOnItsWay, Helper
<1> QED BY <1>1, <1>2, <1>3, <1>4

\* notify_one: the head of the queue wakes up or the permit is stored.
LEMMA NotifyStep ==
    ASSUME LaneInv, NEW r \in Requests, pc[r] \in {"notify", "woken"}, NotifyOne(r, "done"),
           UNCHANGED inFlight,
           cap' \in [Requests -> 0..Lanes],
           \A q \in Requests \ {r} : cap'[q] = cap[q]
    PROVE  LaneInv'
<1> USE DEF LaneInv, LaneTypeOK
<1>1. CASE queue = <<>>
  <2>1. stored' = TRUE /\ queue' = <<>> /\ pc' = [pc EXCEPT ![r] = "done"]
    BY <1>1 DEF NotifyOne, Goto
  <2>2. LaneTypeOK'
    BY <1>1, <2>1 DEF Label
  <2>3. QueueOK'
    BY <1>1, <2>1 DEF QueueOK, LanePC
  <2>4. InLane' = InLane
    BY <2>1 DEF InLane, PermitPC
  <2>5. LanesCounted'
    BY <2>4 DEF LanesCounted
  <2>6. WakeOnItsWay'
    BY <2>1 DEF WakeOnItsWay
  <2> QED BY <2>2, <2>3, <2>5, <2>6
<1>2. CASE queue # <<>>
  <2>0. /\ Len(queue) \in Nat /\ 1 \in 1..Len(queue)
        /\ \A i \in 1..Len(queue) : queue[i] \in Requests
    BY <1>2
  <2> DEFINE h == Head(queue)
  <2>1. h = queue[1] /\ h \in Requests /\ pc[h] = "asleep" /\ h # r
    BY <1>2, <2>0 DEF QueueOK
  <2>2. /\ queue' = Tail(queue) /\ UNCHANGED stored
        /\ pc' = [pc EXCEPT ![r] = "done", ![h] = "woken"]
    BY <1>2 DEF NotifyOne
  <2> HIDE DEF h
  <2>3. LaneTypeOK'
    <3>1. queue' \in Seq(Requests)
      BY <1>2, <2>2
    <3>2. pc' \in [Requests -> Label]
      BY <2>1, <2>2 DEF Label, LanePC
    <3> QED BY <2>2, <3>1, <3>2
  <2>4. /\ Len(queue') = Len(queue) - 1
        /\ \A i \in 1..Len(queue') : queue'[i] = queue[i + 1] /\ i + 1 \in 1..Len(queue)
    BY <1>2, <2>2
  <2>5. \A i \in 1..Len(queue') : queue'[i] \in Requests /\ queue'[i] # h /\ queue'[i] # r
    <3> SUFFICES ASSUME NEW i \in 1..Len(queue')
                 PROVE  queue'[i] \in Requests /\ queue'[i] # h /\ queue'[i] # r
      OBVIOUS
    <3>1. queue'[i] = queue[i + 1] /\ i + 1 \in 1..Len(queue) /\ i + 1 # 1
      BY <2>0, <2>4
    <3>2. queue[i + 1] # queue[1]
      BY <2>0, <3>1 DEF QueueOK
    <3>3. pc[queue[i + 1]] = "asleep"
      BY <3>1 DEF QueueOK
    <3> QED BY <2>0, <2>1, <3>1, <3>2, <3>3
  <2>6. QueueOK'
    <3>1. \A i \in 1..Len(queue') : pc'[queue'[i]] = "asleep"
      BY SMTT(30), <2>2, <2>4, <2>5 DEF QueueOK
    <3>2. \A i, j \in 1..Len(queue') : queue'[i] = queue'[j] => i = j
      <4> SUFFICES ASSUME NEW i \in 1..Len(queue'), NEW j \in 1..Len(queue'),
                          queue'[i] = queue'[j]
                   PROVE  i = j
        OBVIOUS
      <4>0. /\ queue[i + 1] = queue[j + 1]
            /\ i + 1 \in 1..Len(queue) /\ j + 1 \in 1..Len(queue)
        BY <2>4
      <4>1. i + 1 = j + 1
        BY <4>0 DEF QueueOK
      <4> QED BY <2>0, <2>4, <4>1
    <3>3. ~stored'
      BY <1>2, <2>2 DEF QueueOK
    <3>4. \A q \in Requests : pc'[q] \in LanePC => cap'[q] \in 1..Lanes
      BY <2>1, <2>2 DEF QueueOK, LanePC
    <3> QED BY <3>1, <3>2, <3>3, <3>4 DEF QueueOK
  <2>7. InLane' = InLane
    BY <2>1, <2>2 DEF InLane, PermitPC
  <2>8. LanesCounted'
    BY <2>7 DEF LanesCounted
  <2>9. WakeOnItsWay'
    BY <2>1, <2>2 DEF WakeOnItsWay, Helper
  <2> QED BY <2>3, <2>6, <2>8, <2>9
<1> QED BY <1>1, <1>2

\* Removing position i of a sequence.
LEMMA WithoutProperties ==
    ASSUME NEW S, NEW s \in Seq(S), NEW i \in 1..Len(s)
    PROVE  /\ Without(s, i) \in Seq(S)
           /\ Len(Without(s, i)) = Len(s) - 1
           /\ \A j \in 1..(Len(s) - 1) :
                 Without(s, i)[j] = IF j < i THEN s[j] ELSE s[j + 1]
<1> DEFINE left == SubSeq(s, 1, i - 1)
           right == SubSeq(s, i + 1, Len(s))
<1>0. Len(s) \in Nat /\ i \in Int /\ 1 <= i /\ i <= Len(s)
  BY LenProperties
<1>1. \A j \in 1..(i - 1) : s[j] \in S
  BY <1>0, ElementOfSeq
<1>2. \A j \in (i + 1)..Len(s) : s[j] \in S
  BY <1>0, ElementOfSeq
<1>3. /\ left \in Seq(S) /\ Len(left) = i - 1
      /\ \A j \in 1..(i - 1) : left[j] = s[j]
  <2>1. /\ left \in Seq(S)
        /\ Len(left) = IF 1 <= i - 1 THEN (i - 1) - 1 + 1 ELSE 0
        /\ \A j \in 1..((i - 1) - 1 + 1) : left[j] = s[1 + j - 1]
    BY <1>0, <1>1, SubSeqProperties
  <2> HIDE DEF left
  <2> QED BY <1>0, <2>1
<1>4. /\ right \in Seq(S) /\ Len(right) = Len(s) - i
      /\ \A j \in 1..(Len(s) - i) : right[j] = s[i + j]
  <2>1. /\ right \in Seq(S)
        /\ Len(right) = IF i + 1 <= Len(s) THEN Len(s) - (i + 1) + 1 ELSE 0
        /\ \A j \in 1..(Len(s) - (i + 1) + 1) : right[j] = s[(i + 1) + j - 1]
    BY <1>0, <1>2, SubSeqProperties
  <2> HIDE DEF right
  <2>2. Len(right) = Len(s) - i
    BY <1>0, <2>1
  <2>3. \A j \in 1..(Len(s) - i) : right[j] = s[i + j]
    <3> SUFFICES ASSUME NEW j \in 1..(Len(s) - i) PROVE right[j] = s[i + j]
      OBVIOUS
    <3>1. j \in 1..(Len(s) - (i + 1) + 1) /\ (i + 1) + j - 1 = i + j
      BY <1>0
    <3> QED BY <2>1, <3>1
  <2> QED BY <2>1, <2>2, <2>3
<1> HIDE DEF left, right
<1>5. /\ left \o right \in Seq(S)
      /\ Len(left \o right) = Len(left) + Len(right)
      /\ \A j \in 1..(Len(left) + Len(right)) :
            (left \o right)[j] = IF j <= Len(left) THEN left[j] ELSE right[j - Len(left)]
  BY <1>3, <1>4, ConcatProperties
<1>6. Without(s, i) = left \o right
  BY DEF Without, left, right
<1>7. ASSUME NEW j \in 1..(Len(s) - 1)
      PROVE  (left \o right)[j] = IF j < i THEN s[j] ELSE s[j + 1]
  <2>1. j \in 1..(Len(left) + Len(right)) /\ Len(left) = i - 1
    BY <1>0, <1>3, <1>4
  <2>2. CASE j < i
    <3>1. j <= Len(left) /\ j \in 1..(i - 1)
      BY <1>0, <2>1, <2>2
    <3> QED BY <1>3, <1>5, <2>1, <2>2, <3>1
  <2>3. CASE ~(j < i)
    <3>1. /\ ~(j <= Len(left)) /\ j - Len(left) \in 1..(Len(s) - i)
          /\ i + (j - Len(left)) = j + 1
      BY <1>0, <2>1, <2>3
    <3>2. (left \o right)[j] = right[j - Len(left)]
      BY <1>5, <2>1, <3>1
    <3>3. right[j - Len(left)] = s[i + (j - Len(left))]
      BY <1>4, <3>1
    <3> QED BY <2>3, <3>1, <3>2, <3>3
  <2> QED BY <2>2, <2>3
<1>8. Len(left \o right) = Len(s) - 1
  BY <1>0, <1>3, <1>4, <1>5
<1> QED BY <1>5, <1>6, <1>7, <1>8

\* Every element left was in the sequence before, at another position than i, and
\* a sequence without repetitions stays one.
LEMMA WithoutDistinct ==
    ASSUME NEW S, NEW s \in Seq(S), NEW i \in 1..Len(s),
           \A j, k \in 1..Len(s) : s[j] = s[k] => j = k,
           NEW t, t = Without(s, i)
    PROVE  /\ \A j \in 1..Len(t) : \E k \in 1..Len(s) : k # i /\ t[j] = s[k]
           /\ \A j, k \in 1..Len(t) : t[j] = t[k] => j = k
<1> DEFINE old(j) == IF j < i THEN j ELSE j + 1
<1>0. Len(s) \in Nat /\ i \in Int /\ 1 <= i /\ i <= Len(s)
  BY LenProperties
<1>1. Len(t) = Len(s) - 1 /\ \A j \in 1..(Len(s) - 1) : t[j] = IF j < i THEN s[j] ELSE s[j + 1]
  BY WithoutProperties
<1>2. ASSUME NEW j \in 1..Len(t)
      PROVE  old(j) \in 1..Len(s) /\ old(j) # i /\ t[j] = s[old(j)] /\ j \in Int
  <2>1. j \in 1..(Len(s) - 1)
    BY <1>1
  <2>2. CASE j < i
    BY <1>0, <1>1, <2>1, <2>2
  <2>3. CASE ~(j < i)
    BY <1>0, <1>1, <2>1, <2>3
  <2> QED BY <2>2, <2>3
<1>3. ASSUME NEW j \in Int, NEW k \in Int, old(j) = old(k) PROVE j = k
  BY <1>0, <1>3
<1> HIDE DEF old
<1>4. ASSUME NEW j \in 1..Len(t), NEW k \in 1..Len(t), t[j] = t[k] PROVE j = k
  <2>1. old(j) = old(k)
    BY SMTT(30), <1>2, <1>4
  <2> QED BY <1>2, <1>3, <2>1
<1>5. \A j \in 1..Len(t) : \E k \in 1..Len(s) : k # i /\ t[j] = s[k]
  BY <1>2
<1> QED BY <1>4, <1>5

\* A sleeper leaves: by timeout or because its client went away.
LEMMA LeaveStep ==
    ASSUME LaneInv, NEW r \in Requests, pc[r] = "asleep", LeaveQueue(r), Goto(r, "done"),
           UNCHANGED <<inFlight, stored>>,
           cap' \in [Requests -> 0..Lanes],
           \A q \in Requests \ {r} : cap'[q] = cap[q]
    PROVE  LaneInv'
<1> USE DEF LaneInv, LaneTypeOK
<1>1. PICK i \in 1..Len(queue) : queue[i] = r /\ queue' = Without(queue, i)
  BY DEF LeaveQueue
<1>2. /\ Len(queue) \in Nat /\ i \in Int /\ 1 <= i /\ i <= Len(queue)
      /\ \A j \in 1..Len(queue) : queue[j] \in Requests
  BY LenProperties, ElementOfSeq
<1>3. pc' = [pc EXCEPT ![r] = "done"] /\ pc' \in [Requests -> Label]
  BY DEF Goto, Label
<1>4. queue' \in Seq(Requests) /\ Len(queue') = Len(queue) - 1
  BY <1>1, WithoutProperties
<1>5. \A j, k \in 1..Len(queue) : queue[j] = queue[k] => j = k
  BY DEF QueueOK
<1>6. /\ \A j \in 1..Len(queue') : \E k \in 1..Len(queue) : k # i /\ queue'[j] = queue[k]
      /\ \A j, k \in 1..Len(queue') : queue'[j] = queue'[k] => j = k
  <2>1. queue \in Seq(Requests) /\ queue' = Without(queue, i)
    BY <1>1
  <2> QED BY ONLY <2>1, <1>5, i \in 1..Len(queue), WithoutDistinct
<1>7. QueueOK'
  <2>1. ASSUME NEW j \in 1..Len(queue') PROVE pc'[queue'[j]] = "asleep"
    <3>1. PICK k \in 1..Len(queue) : k # i /\ queue'[j] = queue[k]
      BY <1>6
    <3>2. queue[k] # r /\ queue[k] \in Requests /\ pc[queue[k]] = "asleep"
      BY <1>1, <1>2, <1>5, <3>1 DEF QueueOK
    <3> QED BY <1>3, <3>1, <3>2
  <2>3. ~stored'
    BY <1>1, <1>2 DEF QueueOK
  <2>4. \A q \in Requests : pc'[q] \in LanePC => cap'[q] \in 1..Lanes
    BY <1>3 DEF QueueOK, LanePC
  <2> QED BY <1>6, <2>1, <2>3, <2>4 DEF QueueOK
<1>8. InLane' = InLane
  BY <1>3 DEF InLane, PermitPC
<1>9. LanesCounted'
  BY <1>8 DEF LanesCounted
<1>10. WakeOnItsWay'
  <2>1. queue # <<>>
    BY <1>1, <1>2
  <2>2. Helper => Helper'
    BY <1>3 DEF Helper
  <2> QED BY <1>3, <2>1, <2>2 DEF WakeOnItsWay, QueueOK
<1> QED BY <1>3, <1>4, <1>7, <1>9, <1>10

\* try_take_lane, before or after the second check.
LEMMA TakeStep == ASSUME LaneInv, NEW r \in Requests, TakeLane(r) PROVE LaneInv'
<1> USE DEF LaneInv, LaneTypeOK
<1>0. cap[r] \in 1..Lanes /\ pc[r] \in {"try", "recheck"}
  BY DEF TakeLane, QueueOK, LanePC
<1>1. CASE inFlight < cap[r]
  <2>1. /\ inFlight' = inFlight + 1 /\ UNCHANGED <<stored, queue>>
        /\ pc' = [pc EXCEPT ![r] = "run"] /\ cap' = [cap EXCEPT ![r] = 0]
    BY <1>1 DEF TakeLane, Goto
  <2>2. LaneTypeOK'
    BY <2>1, CardAssumption, LanesNat DEF Label, PermitPC
  <2>3. QueueOK'
    <3>1. \A i \in 1..Len(queue) : queue[i] \in Requests /\ queue[i] # r
      BY <1>0, ElementOfSeq DEF QueueOK
    <3>2. \A i \in 1..Len(queue') : pc'[queue'[i]] = "asleep"
      BY <2>1, <3>1 DEF QueueOK
    <3>3. \A q \in Requests : pc'[q] \in LanePC => cap'[q] \in 1..Lanes
      BY <2>1 DEF QueueOK, LanePC
    <3> QED BY <2>1, <3>2, <3>3 DEF QueueOK
  <2>4. InLane' = InLane \cup {r} /\ pc[r] \notin PermitPC
    BY <1>0, <2>1 DEF InLane, PermitPC
  <2>5. inFlight < Lanes
    BY <1>0, <1>1, CardAssumption, LanesNat
  <2>6. LanesCounted'
    BY <2>1, <2>4, <2>5, LaneTaken
  <2>7. WakeOnItsWay'
    BY <2>1 DEF WakeOnItsWay
  <2> QED BY <2>2, <2>3, <2>6, <2>7
<1>2. CASE ~(inFlight < cap[r])
  <2>1. /\ UNCHANGED <<inFlight, stored, queue, cap>>
        /\ pc' = [pc EXCEPT ![r] = IF pc[r] = "try" THEN "recheck" ELSE "await"]
    BY <1>2 DEF TakeLane, Goto
  <2>2. LaneTypeOK'
    BY <2>1 DEF Label, LanePC
  <2>3. QueueOK'
    <3>1. \A i \in 1..Len(queue) : queue[i] \in Requests /\ queue[i] # r
      BY <1>0, ElementOfSeq DEF QueueOK
    <3>2. \A i \in 1..Len(queue') : pc'[queue'[i]] = "asleep"
      BY <2>1, <3>1 DEF QueueOK
    <3>3. \A q \in Requests : pc'[q] \in LanePC => cap'[q] \in 1..Lanes
      BY <1>0, <2>1 DEF QueueOK
    <3> QED BY <2>1, <3>2, <3>3 DEF QueueOK
  <2>4. InLane' = InLane
    BY <1>0, <2>1 DEF InLane, PermitPC
  <2>5. LanesCounted'
    BY <2>1, <2>4 DEF LanesCounted
  <2>6. inFlight # 0
    BY <1>0, <1>2, CardAssumption, LanesNat
  <2>7. WakeOnItsWay'
    BY <2>1, <2>6 DEF WakeOnItsWay
  <2> QED BY <2>2, <2>3, <2>5, <2>7
<1> QED BY <1>1, <1>2

\* The first poll: a stored permit is consumed, or the request falls asleep.
LEMMA AwaitStep == ASSUME LaneInv, NEW r \in Requests, Await(r) PROVE LaneInv'
<1> USE DEF LaneInv, LaneTypeOK
<1>0. pc[r] = "await" /\ UNCHANGED <<inFlight, cap>> /\ cap[r] \in 1..Lanes
  BY DEF Await, QueueOK, LanePC
<1>a. \A i \in 1..Len(queue) : queue[i] \in Requests /\ queue[i] # r
  BY <1>0, ElementOfSeq DEF QueueOK
<1>1. CASE stored
  <2>1. stored' = FALSE /\ UNCHANGED queue /\ pc' = [pc EXCEPT ![r] = "try"]
    BY <1>1 DEF Await, Goto
  <2>2. LaneTypeOK'
    BY <1>0, <2>1 DEF Label, LanePC
  <2>3. QueueOK'
    BY <1>0, <1>a, <2>1 DEF QueueOK, LanePC
  <2>4. InLane' = InLane
    BY <1>0, <2>1 DEF InLane, PermitPC
  <2>5. LanesCounted'
    BY <1>0, <2>4 DEF LanesCounted
  <2>6. WakeOnItsWay'
    BY <2>1 DEF WakeOnItsWay, Helper
  <2> QED BY <2>2, <2>3, <2>5, <2>6
<1>2. CASE ~stored
  <2>1. queue' = Append(queue, r) /\ UNCHANGED stored /\ pc' = [pc EXCEPT ![r] = "asleep"]
    BY <1>2 DEF Await, Goto
  <2>2. LaneTypeOK'
    BY <1>0, <2>1 DEF Label, LanePC
  <2>3. /\ Len(queue) \in Nat /\ Len(queue') = Len(queue) + 1
        /\ \A i \in 1..Len(queue') : queue'[i] = IF i = Len(queue) + 1 THEN r ELSE queue[i]
    BY <2>1
  <2>4. QueueOK'
    <3>1. \A i \in 1..Len(queue') : pc'[queue'[i]] = "asleep"
      BY <1>a, <2>1, <2>3 DEF QueueOK
    <3>2. ASSUME NEW i \in 1..Len(queue'), NEW j \in 1..Len(queue'), queue'[i] = queue'[j]
          PROVE  i = j
      <4>1. CASE i = Len(queue) + 1
        <5>1. queue'[i] = r
          BY <2>3, <4>1
        <5>2. CASE j # Len(queue) + 1
          <6>1. j \in 1..Len(queue) /\ queue'[j] = queue[j]
            BY <2>3, <5>2
          <6> QED BY <1>a, <3>2, <5>1, <6>1
        <5> QED BY <4>1, <5>2
      <4>2. CASE i # Len(queue) + 1
        <5>1. i \in 1..Len(queue) /\ queue'[i] = queue[i]
          BY <2>3, <4>2
        <5>2. j # Len(queue) + 1
          BY <1>a, <2>3, <3>2, <5>1
        <5>3. j \in 1..Len(queue) /\ queue'[j] = queue[j]
          BY <2>3, <5>2
        <5> QED BY <3>2, <5>1, <5>3 DEF QueueOK
      <4> QED BY <4>1, <4>2
    <3>3. \A q \in Requests : pc'[q] \in LanePC => cap'[q] \in 1..Lanes
      BY <1>0, <2>1 DEF QueueOK
    <3> QED BY <1>2, <2>1, <3>1, <3>2, <3>3 DEF QueueOK
  <2>5. InLane' = InLane
    BY <1>0, <2>1 DEF InLane, PermitPC
  <2>6. LanesCounted'
    BY <1>0, <2>5 DEF LanesCounted
  <2>7. WakeOnItsWay'
    <3>1. Helper => Helper'
      BY <1>0, <2>1 DEF Helper
    <3> QED BY <1>0, <1>2, <2>1, <3>1 DEF WakeOnItsWay
  <2> QED BY <2>2, <2>4, <2>6, <2>7
<1> QED BY <1>1, <1>2

\* The permit is dropped: the lane is free, the notification follows.
LEMMA DropStep == ASSUME LaneInv, NEW r \in Requests, DropPermit(r) PROVE LaneInv'
<1> USE DEF LaneInv, LaneTypeOK
<1>1. /\ pc[r] \in {"run", "settled"} /\ inFlight' = inFlight - 1
      /\ UNCHANGED <<stored, queue, cap>> /\ pc' = [pc EXCEPT ![r] = "notify"]
  BY DEF DropPermit, Goto
<1>2. InLane' = InLane \ {r} /\ pc[r] \in PermitPC
  BY <1>1 DEF InLane, PermitPC
<1>3. LanesCounted' /\ inFlight' \in Nat
  BY <1>1, <1>2, LaneFreed
<1>4. LaneTypeOK'
  BY <1>1, <1>3 DEF Label
<1>5. QueueOK'
  <2>1. \A i \in 1..Len(queue) : queue[i] \in Requests /\ queue[i] # r
    BY <1>1, ElementOfSeq DEF QueueOK
  <2>2. \A i \in 1..Len(queue') : pc'[queue'[i]] = "asleep"
    BY <1>1, <2>1 DEF QueueOK
  <2>3. \A q \in Requests : pc'[q] \in LanePC => cap'[q] \in 1..Lanes
    BY <1>1 DEF QueueOK, LanePC
  <2> QED BY <1>1, <2>2, <2>3 DEF QueueOK
<1>6. WakeOnItsWay'
  BY <1>1 DEF WakeOnItsWay, Helper
<1> QED BY <1>3, <1>4, <1>5, <1>6

\* Steps of a request before it has a lane and while it settles.
LEMMA OwnStep ==
    ASSUME LaneInv, NEW r \in Requests,
           \/ ReadCard(r) \/ CheckBalance(r) \/ Commit(r) \/ Wake(r)
           \/ Settle(r) \/ Charge(r) \/ Store(r)
    PROVE  LaneInv'
<1> USE DEF LaneInv, LaneTypeOK
<1> USE DEF Label, AdmitPC, LanePC, PermitPC
<1>1. CASE ReadCard(r)
  <2>1. /\ pc[r] = "arrived" /\ UNCHANGED <<inFlight, stored, queue, cap>>
        /\ \E l \in {"read", "done"} : pc' = [pc EXCEPT ![r] = l]
    BY <1>1 DEF ReadCard, Goto, runtime
  <2>2. PICK l \in {"read", "done"} : pc' = [pc EXCEPT ![r] = l]
    BY <2>1
  <2> QED BY <2>1, <2>2, QuietStep
<1>2. CASE CheckBalance(r)
  <2>1. /\ pc[r] = "read" /\ UNCHANGED <<inFlight, stored, queue, cap>>
        /\ \E l \in {"checked", "done"} : pc' = [pc EXCEPT ![r] = l]
    BY <1>2 DEF CheckBalance, Goto, runtime
  <2>2. PICK l \in {"checked", "done"} : pc' = [pc EXCEPT ![r] = l]
    BY <2>1
  <2> QED BY <2>1, <2>2, QuietStep
<1>3. CASE Commit(r)
  <2>1. /\ pc[r] = "checked" /\ UNCHANGED <<inFlight, stored, queue>>
        /\ pc' = [pc EXCEPT ![r] = "try"]
    BY <1>3 DEF Commit, Goto
  <2>2. PICK c \in 1..Lanes : cap' = [cap EXCEPT ![r] = c]
    BY <1>3, LaneCapInRange DEF Commit
  <2>3. cap' \in [Requests -> 0..Lanes] /\ cap'[r] \in 1..Lanes
    BY <2>2, CardAssumption, LanesNat
  <2> QED BY <2>1, <2>2, <2>3, QuietStep
<1>4. CASE Wake(r)
  <2>1. /\ pc[r] = "woken" /\ UNCHANGED <<inFlight, stored, queue, cap>>
        /\ \E l \in {"try"} : pc' = [pc EXCEPT ![r] = l]
    BY <1>4 DEF Wake, Goto, runtime
  <2>2. cap[r] \in 1..Lanes
    BY <2>1 DEF QueueOK
  <2>3. PICK l \in {"try"} : pc' = [pc EXCEPT ![r] = l]
    BY <2>1
  <2> QED BY <2>1, <2>2, <2>3, QuietStep
<1>5. CASE Settle(r)
  <2>1. /\ pc[r] = "run" /\ UNCHANGED <<inFlight, stored, queue, cap>>
        /\ \E l \in {"released"} : pc' = [pc EXCEPT ![r] = l]
    BY <1>5 DEF Settle, Goto
  <2>2. PICK l \in {"released"} : pc' = [pc EXCEPT ![r] = l]
    BY <2>1
  <2> QED BY <2>1, <2>2, QuietStep
<1>6. CASE Charge(r)
  <2>1. /\ pc[r] = "released" /\ UNCHANGED <<inFlight, stored, queue, cap>>
        /\ \E l \in {"charged"} : pc' = [pc EXCEPT ![r] = l]
    BY <1>6 DEF Charge, Goto
  <2>2. PICK l \in {"charged"} : pc' = [pc EXCEPT ![r] = l]
    BY <2>1
  <2> QED BY <2>1, <2>2, QuietStep
<1>7. CASE Store(r)
  <2>1. /\ pc[r] = "charged" /\ UNCHANGED <<inFlight, stored, queue, cap>>
        /\ \E l \in {"settled"} : pc' = [pc EXCEPT ![r] = l]
    BY <1>7 DEF Store, Goto, runtime
  <2>2. PICK l \in {"settled"} : pc' = [pc EXCEPT ![r] = l]
    BY <2>1
  <2> QED BY <2>1, <2>2, QuietStep
<1> QED BY <1>1, <1>2, <1>3, <1>4, <1>5, <1>6, <1>7

\* Forget touches nobody else's cap.
LEMMA ForgetCap ==
    ASSUME LaneTypeOK, NEW r \in Requests, Forget(r)
    PROVE  cap' \in [Requests -> 0..Lanes] /\ \A q \in Requests \ {r} : cap'[q] = cap[q]
BY CardAssumption, LanesNat DEF LaneTypeOK, Forget

\* The inductive invariant is preserved by every step.
LEMMA LaneInvStep == LaneInv /\ [Next]_vars => LaneInv'
<1> SUFFICES ASSUME LaneInv, [Next]_vars PROVE LaneInv'
  OBVIOUS
<1>1. ASSUME NEW r \in Requests, RequestStep(r) PROVE LaneInv'
  <2>1. CASE TakeLane(r)
    BY <2>1, TakeStep
  <2>2. CASE Await(r)
    BY <2>2, AwaitStep
  <2>3. CASE DropPermit(r)
    BY <2>3, DropStep
  <2>4. CASE Notify(r)
    <3>1. pc[r] = "notify" /\ NotifyOne(r, "done") /\ UNCHANGED <<inFlight, cap>>
      BY <2>4 DEF Notify
    <3> QED BY <3>1, NotifyStep DEF LaneInv, LaneTypeOK
  <2>5. CASE \/ ReadCard(r) \/ CheckBalance(r) \/ Commit(r) \/ Wake(r)
             \/ Settle(r) \/ Charge(r) \/ Store(r)
    BY <2>5, OwnStep
  <2> QED BY <1>1, <2>1, <2>2, <2>3, <2>4, <2>5 DEF RequestStep, TaskStep
<1>2. ASSUME NEW r \in Requests, LaneTimeout(r) PROVE LaneInv'
  <2>1. /\ pc[r] = "asleep" /\ LeaveQueue(r) /\ Goto(r, "done") /\ Forget(r)
        /\ UNCHANGED <<inFlight, stored>>
    BY <1>2 DEF LaneTimeout
  <2>2. cap' \in [Requests -> 0..Lanes] /\ \A q \in Requests \ {r} : cap'[q] = cap[q]
    BY <2>1, ForgetCap DEF LaneInv
  <2> QED BY <2>1, <2>2, LeaveStep
<1>3. ASSUME NEW r \in Requests, CancelWait(r) PROVE LaneInv'
  <2>1. Forget(r) /\ UNCHANGED inFlight
    BY <1>3 DEF CancelWait
  <2>2. cap' \in [Requests -> 0..Lanes] /\ \A q \in Requests \ {r} : cap'[q] = cap[q]
    BY <2>1, ForgetCap DEF LaneInv
  <2>3. CASE pc[r] = "asleep"
    <3>1. LeaveQueue(r) /\ Goto(r, "done") /\ UNCHANGED stored
      BY <1>3, <2>3 DEF CancelWait
    <3> QED BY <2>1, <2>2, <2>3, <3>1, LeaveStep
  <2>4. CASE pc[r] = "woken"
    <3>1. NotifyOne(r, "done")
      BY <1>3, <2>4 DEF CancelWait
    <3> QED BY <2>1, <2>2, <2>4, <3>1, NotifyStep
  <2> QED BY <1>3, <2>3, <2>4 DEF CancelWait
<1>4. CASE Midnight \/ Revoke \/ UNCHANGED vars
  <2>1. UNCHANGED <<pc, cap, queue, stored, inFlight>>
    BY <1>4 DEF Midnight, Revoke, vars, runtime, request
  <2>2. InLane' = InLane
    BY <2>1 DEF InLane
  <2> QED BY <2>1, <2>2 DEF LaneInv, LaneTypeOK, QueueOK, LanesCounted, WakeOnItsWay, Helper
<1>5. CASE Restart
  <2>1. /\ inFlight' = 0 /\ stored' = FALSE /\ queue' = <<>>
        /\ pc' = [r \in Requests |-> IF pc[r] = "arrived" THEN "arrived" ELSE "done"]
        /\ cap' = [r \in Requests |-> 0]
    BY <1>5 DEF Restart
  <2>2. LaneTypeOK'
    <3>1. pc' \in [Requests -> Label]
      BY <2>1 DEF Label, AdmitPC
    <3>2. cap' \in [Requests -> 0..Lanes]
      BY <2>1, CardAssumption, LanesNat
    <3> QED BY <2>1, <3>1, <3>2, EmptySeq DEF LaneTypeOK
  <2>3. QueueOK'
    BY <2>1 DEF QueueOK, LanePC
  <2>4. InLane' = {}
    BY <2>1 DEF InLane, PermitPC
  <2>5. LanesCounted'
    BY <2>1, <2>4, FS_EmptySet, CardAssumption, LanesNat DEF LanesCounted
  <2>6. WakeOnItsWay'
    BY <2>1 DEF WakeOnItsWay
  <2> QED BY <2>2, <2>3, <2>5, <2>6 DEF LaneInv
<1> QED BY <1>1, <1>2, <1>3, <1>4, <1>5 DEF Next

\* The lane invariant holds at the start.
LEMMA LaneInvInit == Init => LaneInv
<1> SUFFICES ASSUME Init PROVE LaneInv
  OBVIOUS
<1>1. LaneTypeOK
  <2>1. pc \in [Requests -> Label]
    BY DEF Init, Label, AdmitPC
  <2>2. cap \in [Requests -> 0..Lanes]
    BY CardAssumption, LanesNat DEF Init
  <2> QED BY <2>1, <2>2, EmptySeq DEF Init, LaneTypeOK
<1>2. QueueOK
  BY DEF Init, QueueOK, LanePC
<1>3. InLane = {}
  BY DEF Init, InLane, PermitPC
<1>4. LanesCounted
  BY <1>3, FS_EmptySet, CardAssumption, LanesNat DEF Init, LanesCounted
<1>5. WakeOnItsWay
  BY DEF Init, WakeOnItsWay
<1> QED BY <1>1, <1>2, <1>4, <1>5 DEF LaneInv

\* The lane invariant holds throughout.
LEMMA LaneInvariant == Spec => []LaneInv
<1>1. Init => LaneInv
  BY LaneInvInit
<1>2. LaneInv /\ [Next]_vars => LaneInv'
  BY LaneInvStep
<1> QED BY <1>1, <1>2, PTL DEF Spec

(* in_flight of CardRuntime is at all times the number of permits that are  *)
(* out and never exceeds the widest cap, for any number of requests, lanes  *)
(* and throttle levels: try_take_lane and the Drop of CardPermit pair up.   *)
THEOREM LanesExact == Spec => []LanesCounted
<1>1. LaneInv => LanesCounted
  BY DEF LaneInv
<1> QED BY <1>1, LaneInvariant, PTL

(* The loop of acquire and the notify_one of CardPermit's Drop never leave  *)
(* all waiters asleep in front of a card without a request in flight.       *)
THEOREM NoLostWakeup == Spec => []NoSleepBeforeIdleCard
<1>1. LaneInv => NoSleepBeforeIdleCard
  BY DEF LaneInv, LaneTypeOK, QueueOK, WakeOnItsWay, NoSleepBeforeIdleCard
<1> QED BY <1>1, LaneInvariant, PTL
----------------------------------------------------------------------------
(* Sums *)

\* The units of one request.
Row(r, n) == {r} \X (1..n)

NoneOf(r, S) == \A k : <<r, k>> \notin S

\* Adding the units of a request adds their number.
LEMMA RowAdded ==
    ASSUME NEW S, IsFiniteSet(S), NEW r, NEW n \in Nat, NoneOf(r, S)
    PROVE  /\ IsFiniteSet(S \cup Row(r, n))
           /\ Cardinality(S \cup Row(r, n)) = Cardinality(S) + n
<1>1. IsFiniteSet(1..n) /\ Cardinality(1..n) = n
  BY FS_Interval
<1>2. IsFiniteSet({r}) /\ Cardinality({r}) = 1
  BY FS_Singleton
<1>3. IsFiniteSet(Row(r, n)) /\ Cardinality(Row(r, n)) = Cardinality({r}) * Cardinality(1..n)
  BY <1>1, <1>2, FS_Product DEF Row
<1>4. Cardinality(S \cap Row(r, n)) = 0
  <2>1. S \cap Row(r, n) = {}
    BY DEF Row, NoneOf
  <2> QED BY <2>1, FS_EmptySet
<1>5. Cardinality(S) \in Nat /\ Cardinality(Row(r, n)) = n
  BY <1>1, <1>2, <1>3, FS_CardinalityType
<1>6. /\ IsFiniteSet(S \cup Row(r, n))
      /\ Cardinality(S \cup Row(r, n)) =
           Cardinality(S) + Cardinality(Row(r, n)) - Cardinality(S \cap Row(r, n))
  BY <1>3, FS_Union
<1> QED BY <1>4, <1>5, <1>6

\* Finitely many requests have finitely many units.
LEMMA UnitsFinite ==
    ASSUME NEW S, IsFiniteSet(S), NEW f, \A r \in S : f[r] \in Nat
    PROVE  IsFiniteSet(Units(f, S)) /\ Total(f, S) \in Nat
<1> DEFINE T == {{r} \X (1..f[r]) : r \in S}
           g == [r \in S |-> {r} \X (1..f[r])]
<1>1. g \in Surjection(S, T)
  BY DEF Surjection
<1>2. IsFiniteSet(T)
  BY <1>1, FS_Surjection
<1>3. ASSUME NEW U \in T PROVE IsFiniteSet(U)
  <2>1. PICK r \in S : U = {r} \X (1..f[r])
    OBVIOUS
  <2>0. f[r] \in Int /\ 1 \in Int
    OBVIOUS
  <2>2. IsFiniteSet({r}) /\ IsFiniteSet(1..f[r])
    BY <2>0, FS_Singleton, FS_Interval
  <2> QED BY <2>1, <2>2, FS_Product
<1>4. IsFiniteSet(UNION T)
  BY <1>2, <1>3, FS_UNION
<1> QED BY <1>4, FS_CardinalityType DEF Units, Total

\* The share of one request in a sum.
LEMMA TotalSplit ==
    ASSUME NEW S, IsFiniteSet(S), NEW f, \A r \in S : f[r] \in Nat, NEW r \in S
    PROVE  /\ Total(f, S) = Total(f, S \ {r}) + f[r]
           /\ Total(f, S) \in Nat /\ Total(f, S \ {r}) \in Nat
<1>1. IsFiniteSet(S \ {r})
  BY FS_Subset
<1>2. IsFiniteSet(Units(f, S \ {r})) /\ Total(f, S \ {r}) \in Nat
  BY <1>1, UnitsFinite
<1>3. NoneOf(r, Units(f, S \ {r}))
  BY DEF NoneOf, Units
<1>4. Units(f, S) = Units(f, S \ {r}) \cup Row(r, f[r])
  BY DEF Units, Row
<1>5. Cardinality(Units(f, S \ {r}) \cup Row(r, f[r])) = Cardinality(Units(f, S \ {r})) + f[r]
  BY <1>2, <1>3, RowAdded
<1> QED BY <1>2, <1>4, <1>5 DEF Total

\* A sum depends on the values it adds only.
LEMMA TotalSame ==
    ASSUME NEW S, NEW f, NEW g, \A r \in S : f[r] = g[r]
    PROVE  Total(f, S) = Total(g, S)
<1>1. Units(f, S) = Units(g, S)
  BY DEF Units
<1> QED BY <1>1 DEF Total

\* A sum over no request, or of nothing, is zero.
LEMMA TotalNothing ==
    ASSUME NEW S, NEW f, \A r \in S : f[r] = 0
    PROVE  Total(f, S) = 0
<1>1. Units(f, S) = {}
  BY DEF Units
<1> QED BY <1>1, FS_EmptySet DEF Total
----------------------------------------------------------------------------
(* Money *)

\* What a request has in hand at its label.
InHand ==
    \A r \in Requests :
        /\ pc[r] \notin {"checked", "run"} \cup LanePC => mine[r] = 0
        /\ pc[r] \in AdmitPC \cup LanePC \cup {"run", "released"} => cost[r] = 0
        /\ total[r] <= faceUsed

(* The inductive invariant of HoldCovers and NeverOvercharged, next to LaneInv. *)
MoneyInv == TypeOK /\ InHand /\ HoldCovers /\ NeverOvercharged

\* Requests that hold are requests.
LEMMA HoldingFinite == IsFiniteSet(Holding) /\ Holding \subseteq Requests
BY CardAssumption, FS_Subset DEF Holding

\* Nobody's hold changes.
LEMMA HoldSame ==
    ASSUME MoneyInv, Holding' = Holding, hold' = hold, \A r \in Holding : mine'[r] = mine[r]
    PROVE  HoldCovers'
<1>1. Total(mine', Holding) = Total(mine, Holding)
  BY TotalSame
<1> QED BY <1>1 DEF MoneyInv, HoldCovers

\* A request is admitted: its hold is added.
LEMMA HoldGained ==
    ASSUME MoneyInv, NEW r \in Requests, r \notin Holding, Holding' = Holding \cup {r},
           mine' = mine, hold' = hold + mine[r]
    PROVE  HoldCovers'
<1> USE DEF MoneyInv, TypeOK
<1>1. IsFiniteSet(Holding') /\ Holding' \ {r} = Holding /\ Holding' \subseteq Requests
  BY HoldingFinite, CardAssumption, FS_Subset DEF Holding
<1>2. \A q \in Holding' : mine[q] \in Nat
  BY <1>1, CardAssumption
<1>3. /\ Total(mine, Holding') = Total(mine, Holding' \ {r}) + mine[r]
      /\ Total(mine, Holding' \ {r}) \in Nat
  BY <1>1, <1>2, TotalSplit
<1>4. Total(mine', Holding') = Total(mine, Holding) + mine[r] /\ Total(mine, Holding) \in Nat
  BY <1>1, <1>3
<1>5. mine[r] \in Nat /\ hold \in Nat /\ hold >= Total(mine, Holding)
  BY <1>2 DEF HoldCovers
<1>6. hold' >= Total(mine', Holding')
  BY <1>4, <1>5
<1> QED BY <1>6 DEF HoldCovers

\* A request gives its hold back, or keeps it in hold_micro for nobody.
LEMMA HoldLost ==
    ASSUME MoneyInv, NEW r \in Holding, Holding' = Holding \ {r},
           \A q \in Holding' : mine'[q] = mine[q]
    PROVE  /\ hold - mine[r] \in Nat
           /\ hold' \in Nat /\ hold' >= hold - mine[r] => HoldCovers'
<1> USE DEF MoneyInv, TypeOK
<1>1. \A q \in Holding : mine[q] \in Nat
  BY HoldingFinite, CardAssumption
<1>2. /\ Total(mine, Holding) = Total(mine, Holding \ {r}) + mine[r]
      /\ Total(mine, Holding) \in Nat /\ Total(mine, Holding \ {r}) \in Nat
  BY <1>1, HoldingFinite, TotalSplit
<1>3. Total(mine', Holding') = Total(mine, Holding \ {r})
  BY TotalSame
<1>4. mine[r] \in Nat /\ hold \in Nat /\ hold >= Total(mine, Holding)
  BY <1>1 DEF HoldCovers
<1>5. hold - mine[r] \in Nat /\ hold - mine[r] >= Total(mine', Holding')
  BY ONLY <1>2, <1>3, <1>4
<1>6. hold' \in Nat /\ hold' >= hold - mine[r] => hold' >= Total(mine', Holding')
  BY <1>2, <1>3, <1>5
<1> QED BY <1>5, <1>6 DEF HoldCovers

\* A request is charged what it costs, once.
LEMMA CostAdded ==
    ASSUME MoneyInv, NEW r \in Requests, cost[r] = 0, NEW usd \in Nat,
           cost' = [cost EXCEPT ![r] = usd]
    PROVE  Charged' = Charged + usd /\ Charged \in Nat
<1> USE DEF MoneyInv, TypeOK
<1>0. \A q \in Requests : cost[q] \in Nat /\ cost'[q] \in Nat
  <2>1. Amounts \cup {0} \subseteq Nat
    BY CardAssumption
  <2>2. cost \in [Requests -> Nat]
    BY <2>1
  <2> QED BY <2>2
<1>1. Total(cost, Requests) = Total(cost, Requests \ {r}) + cost[r]
  BY <1>0, CardAssumption, TotalSplit
<1>2. Total(cost', Requests) = Total(cost', Requests \ {r}) + cost'[r]
  BY <1>0, CardAssumption, TotalSplit
<1>3. Total(cost', Requests \ {r}) = Total(cost, Requests \ {r})
  BY TotalSame
<1>4. Total(cost, Requests \ {r}) \in Nat
  BY <1>0, CardAssumption, TotalSplit
<1> QED BY <1>1, <1>2, <1>3, <1>4 DEF Charged

\* The money of a step that charges and stores nothing.
LEMMA ChargesSame ==
    ASSUME NeverOvercharged, UNCHANGED <<faceUsed, dbUsed, jsonUsed, cost>>
    PROVE  NeverOvercharged'
BY DEF NeverOvercharged, Charged

\* Who is first in the queue is asleep.
LEMMA HeadAsleep ==
    ASSUME LaneInv, queue # <<>>
    PROVE  Head(queue) \in Requests /\ pc[Head(queue)] = "asleep"
<1>1. /\ 1 \in 1..Len(queue) /\ \A i \in 1..Len(queue) : queue[i] \in Requests
      /\ Head(queue) = queue[1]
  BY DEF LaneInv, LaneTypeOK
<1> QED BY <1>1 DEF LaneInv, QueueOK

\* Admission.
LEMMA AdmitMoney ==
    ASSUME MoneyInv, NEW r \in Requests, ReadCard(r) \/ CheckBalance(r) \/ Commit(r)
    PROVE  MoneyInv'
<1> USE CardAssumption
    DEF MoneyInv, TypeOK, InHand, Goto, Label, AdmitPC, LanePC, PermitPC, card, runtime
<1>0. NeverOvercharged'
  BY ChargesSame DEF ReadCard, CheckBalance, Commit
<1>1. CASE ReadCard(r)
  <2> USE <1>1 DEF ReadCard
  <2>1. TypeOK'
    OBVIOUS
  <2>2. InHand'
    OBVIOUS
  <2>3. HoldCovers'
    <3>1. Holding' = Holding
      BY DEF Holding
    <3> QED BY <3>1, HoldSame
  <2> QED BY <1>0, <2>1, <2>2, <2>3
<1>2. CASE CheckBalance(r)
  <2> USE <1>2 DEF CheckBalance
  <2>0. ASSUME seen[r] + hold < Face
        PROVE  Smaller(Estimate, Face - (seen[r] + hold)) \in 0..Estimate
    <3>1. seen[r] \in Nat /\ hold \in Nat
      OBVIOUS
    <3> QED BY ONLY <2>0, <3>1, CardAssumption DEF Smaller
  <2>1. mine' \in [Requests -> 0..Estimate] /\ \A q \in Requests \ {r} : mine'[q] = mine[q]
    <3>1. mine \in [Requests -> 0..Estimate]
      OBVIOUS
    <3>2. \/ mine' = mine
          \/ \E v \in 0..Estimate : mine' = [mine EXCEPT ![r] = v]
      BY <2>0
    <3> QED BY ONLY <3>1, <3>2
  <2>2. TypeOK'
    BY <2>1
  <2>3. InHand'
    BY <2>1
  <2>4. HoldCovers'
    <3>1. Holding' = Holding /\ r \notin Holding /\ Holding \subseteq Requests
      BY DEF Holding
    <3> QED BY <2>1, <3>1, HoldSame
  <2> QED BY <1>0, <2>2, <2>3, <2>4
<1>3. CASE Commit(r)
  <2> USE <1>3 DEF Commit
  <2>1. PICK c \in 1..Lanes : cap' = [cap EXCEPT ![r] = c]
    BY LaneCapInRange
  <2>2. cap' \in [Requests -> 0..Lanes] /\ dayCount' \in 0..(CountModulus - 1) /\ hold' \in Nat
    BY SMTT(30), <2>1, LanesNat
  <2>3. TypeOK'
    BY <2>2
  <2>4. InHand'
    OBVIOUS
  <2>5. HoldCovers'
    <3>1. Holding' = Holding \cup {r} /\ r \notin Holding
      BY SMTT(30) DEF Holding
    <3> QED BY <3>1, HoldGained
  <2> QED BY <1>0, <2>3, <2>4, <2>5
<1> QED BY <1>1, <1>2, <1>3

\* The lane.
LEMMA LaneMoney ==
    ASSUME MoneyInv, LaneInv, LaneInv', NEW r \in Requests,
           TakeLane(r) \/ Await(r) \/ Wake(r) \/ Notify(r)
    PROVE  MoneyInv'
<1>0. /\ UNCHANGED <<card, hold, dayCount, today, seen, mine, cost, total, events>>
      /\ pc[r] \in {"try", "recheck", "await", "woken", "notify"}
  BY DEF TakeLane, Await, Wake, Notify, runtime
<1>1. /\ \A q \in Requests : pc'[q] \in LanePC \cup {"run"} <=> pc[q] \in LanePC \cup {"run"}
      /\ pc'[r] \notin AdmitPC \cup {"released"}
      /\ \A q \in Requests \ {r} : pc'[q] = pc[q] \/ (pc[q] \in LanePC /\ pc'[q] \in LanePC)
      /\ pc[r] = "notify" => pc'[r] = "done"
  <2> USE DEF MoneyInv, TypeOK, Goto, LanePC, AdmitPC
  <2>1. CASE TakeLane(r)
    BY <2>1 DEF TakeLane
  <2>2. CASE Await(r)
    BY <2>2 DEF Await
  <2>3. CASE Wake(r)
    BY <2>3 DEF Wake
  <2>4. CASE Notify(r)
    <3>1. CASE queue = <<>>
      BY <2>4, <3>1 DEF Notify, NotifyOne
    <3>2. CASE queue # <<>>
      <4>1. PICK h : h = Head(queue)
        OBVIOUS
      <4>2. h \in Requests /\ pc[h] = "asleep"
        BY <3>2, <4>1, HeadAsleep
      <4>4. pc[r] = "notify" /\ pc' = [pc EXCEPT ![r] = "done", ![h] = "woken"]
        BY <2>4, <3>2, <4>1 DEF Notify, NotifyOne
      <4> QED BY <4>2, <4>4
    <3> QED BY <3>1, <3>2
  <2> QED BY <2>1, <2>2, <2>3, <2>4
<1>2. TypeOK'
  BY <1>0 DEF LaneInv, LaneTypeOK, LanesCounted, MoneyInv, TypeOK, card
<1>3. InHand'
  BY <1>0, <1>1 DEF MoneyInv, InHand, card, LanePC, AdmitPC
<1>4. Holding' = Holding /\ Holding \subseteq Requests
  BY <1>1 DEF Holding
<1>5. HoldCovers'
  BY <1>0, <1>4, HoldSame
<1>6. NeverOvercharged'
  BY <1>0, ChargesSame DEF MoneyInv, card
<1> QED BY <1>2, <1>3, <1>5, <1>6 DEF MoneyInv

\* A waiter gives up, by its deadline or with its client.
LEMMA WaiterMoney ==
    ASSUME MoneyInv, LaneInv, LaneInv', NEW r \in Requests, LaneTimeout(r) \/ CancelWait(r)
    PROVE  MoneyInv'
<1>0. /\ UNCHANGED <<card, today, seen, cost, total, events>> /\ Forget(r)
      /\ pc[r] \in {"asleep", "woken"}
      /\ hold' = hold \/ hold' = hold - mine[r]
      /\ dayCount' = dayCount \/ dayCount' = (dayCount - 1) % CountModulus
  BY DEF LaneTimeout, CancelWait
<1>1. /\ pc'[r] = "done"
      /\ \A q \in Requests \ {r} : pc'[q] = pc[q] \/ (pc[q] \in LanePC /\ pc'[q] \in LanePC)
  <2> USE DEF MoneyInv, TypeOK, Goto, LanePC
  <2>1. CASE Goto(r, "done")
    BY <2>1
  <2>2. CASE pc[r] = "woken" /\ NotifyOne(r, "done")
    <3>1. CASE queue = <<>>
      BY <2>2, <3>1 DEF NotifyOne
    <3>2. CASE queue # <<>>
      <4>1. PICK h : h = Head(queue)
        OBVIOUS
      <4>2. h \in Requests /\ pc[h] = "asleep"
        BY <3>2, <4>1, HeadAsleep
      <4>4. pc' = [pc EXCEPT ![r] = "done", ![h] = "woken"]
        BY <2>2, <3>2, <4>1 DEF NotifyOne
      <4> QED BY <2>2, <4>2, <4>4
    <3> QED BY <3>1, <3>2
  <2> QED BY <2>1, <2>2 DEF LaneTimeout, CancelWait
<1>2. /\ mine' = [mine EXCEPT ![r] = 0] /\ mine' \in [Requests -> 0..Estimate] /\ mine'[r] = 0
      /\ \A q \in Requests \ {r} : mine'[q] = mine[q]
  BY <1>0, CardAssumption DEF Forget, MoneyInv, TypeOK
<1>3. r \in Holding /\ Holding' = Holding \ {r} /\ Holding \subseteq Requests
  BY <1>0, <1>1 DEF Holding, LanePC
<1>4. hold - mine[r] \in Nat /\ (hold' \in Nat /\ hold' >= hold - mine[r] => HoldCovers')
  BY <1>2, <1>3, HoldLost
<1>5. hold' \in Nat /\ hold' >= hold - mine[r]
  BY <1>0, <1>3, <1>4, CardAssumption DEF MoneyInv, TypeOK
<1>6. TypeOK'
  <2>1. dayCount' \in 0..(CountModulus - 1)
    BY <1>0, CardAssumption DEF MoneyInv, TypeOK
  <2>2. /\ inFlight' \in 0..Lanes /\ pc' \in [Requests -> Label] /\ cap' \in [Requests -> 0..Lanes]
        /\ queue' \in Seq(Requests) /\ stored' \in BOOLEAN
    BY LanesNat DEF LaneInv, LaneTypeOK, LanesCounted
  <2> QED BY <1>0, <1>2, <1>5, <2>1, <2>2 DEF MoneyInv, TypeOK, card
<1>7. InHand'
  BY <1>0, <1>1, <1>2 DEF MoneyInv, InHand, card, LanePC, AdmitPC
<1>8. NeverOvercharged'
  BY <1>0, ChargesSame DEF MoneyInv, card
<1> QED BY <1>4, <1>5, <1>6, <1>7, <1>8 DEF MoneyInv

\* Settlement and the end of the permit.
LEMMA SettleMoney ==
    ASSUME MoneyInv, LaneInv, LaneInv', NEW r \in Requests,
           Settle(r) \/ Charge(r) \/ Store(r) \/ DropPermit(r)
    PROVE  MoneyInv'
<1> USE CardAssumption
    DEF MoneyInv, TypeOK, InHand, Goto, Label, AdmitPC, LanePC, PermitPC, card, runtime
<1>1. ASSUME pc[r] = "run", hold' = Larger(0, hold - mine[r]), mine' = [mine EXCEPT ![r] = 0],
             pc' = [pc EXCEPT ![r] = "released"] \/ pc' = [pc EXCEPT ![r] = "notify"]
      PROVE  HoldCovers' /\ hold' \in Nat
  <2>1. r \in Holding /\ Holding' = Holding \ {r} /\ \A q \in Holding' : mine'[q] = mine[q]
    BY <1>1 DEF Holding
  <2>2. hold - mine[r] \in Nat /\ (hold' \in Nat /\ hold' >= hold - mine[r] => HoldCovers')
    BY <2>1, HoldLost
  <2>3. hold' \in Nat /\ hold' >= hold - mine[r]
    BY <1>1, <2>2 DEF Larger
  <2> QED BY <2>2, <2>3
<1>2. CASE Settle(r)
  <2> USE <1>2 DEF Settle
  <2>1. HoldCovers' /\ hold' \in Nat
    BY <1>1
  <2>2. TypeOK'
    BY SMTT(30), <2>1
  <2>3. InHand'
    OBVIOUS
  <2>4. NeverOvercharged'
    BY ChargesSame
  <2> QED BY <2>1, <2>2, <2>3, <2>4
<1>3. CASE Charge(r)
  <2> USE <1>3 DEF Charge
  <2>1. PICK usd \in Amounts : faceUsed' = faceUsed + usd /\ cost' = [cost EXCEPT ![r] = usd]
    OBVIOUS
  <2>2. usd \in Nat /\ faceUsed' \in Nat /\ faceUsed' >= faceUsed
    BY <2>1
  <2>3. TypeOK'
    <3>1. cost' \in [Requests -> Amounts \cup {0}] /\ total' \in [Requests -> Nat]
      BY <2>1, <2>2
    <3>2. pc' \in [Requests -> Label] /\ dayCount' \in 0..(CountModulus - 1)
      OBVIOUS
    <3> QED BY <2>2, <3>1, <3>2
  <2>4. InHand'
    <3>1. /\ \A q \in Requests \ {r} : cost'[q] = cost[q] /\ total'[q] = total[q] /\ pc'[q] = pc[q]
          /\ total'[r] = faceUsed' /\ pc'[r] = "charged" /\ pc[r] = "released" /\ mine' = mine
      BY <2>1
    <3>2. \A q \in Requests : total[q] \in Nat
      OBVIOUS
    <3> QED BY SMTT(30), <2>2, <3>1, <3>2
  <2>5. HoldCovers'
    <3>1. Holding' = Holding
      BY DEF Holding
    <3> QED BY <3>1, HoldSame
  <2>6. Charged' = Charged + usd /\ Charged \in Nat
    BY <2>1, <2>2, CostAdded
  <2>7. NeverOvercharged'
    <3>1. /\ faceUsed <= Charged /\ dbUsed <= faceUsed /\ jsonUsed <= faceUsed
          /\ UNCHANGED <<dbUsed, jsonUsed>>
      BY DEF NeverOvercharged
    <3>2. faceUsed' <= Charged' /\ dbUsed' <= faceUsed' /\ jsonUsed' <= faceUsed'
      BY <2>1, <2>2, <2>6, <3>1
    <3> QED BY <3>2 DEF NeverOvercharged
  <2> QED BY <2>3, <2>4, <2>5, <2>7
<1>4. CASE Store(r)
  <2> USE <1>4 DEF Store
  <2>1. TypeOK'
    OBVIOUS
  <2>2. InHand'
    OBVIOUS
  <2>3. HoldCovers'
    <3>1. Holding' = Holding
      BY DEF Holding
    <3> QED BY <3>1, HoldSame
  <2>4. NeverOvercharged'
    BY DEF NeverOvercharged, Charged
  <2> QED BY <2>1, <2>2, <2>3, <2>4
<1>5. CASE DropPermit(r)
  <2> USE <1>5 DEF DropPermit
  <2>1. HoldCovers' /\ hold' \in Nat
    <3>1. CASE pc[r] = "settled"
      <4>0. mine[r] = 0 /\ mine' = [mine EXCEPT ![r] = 0] /\ hold \in Nat
        BY <3>1
      <4>3. hold' = hold
        BY <4>0 DEF Larger
      <4>1. mine' = mine /\ hold' = hold
        BY <4>0, <4>3
      <4>2. Holding' = Holding
        BY <3>1 DEF Holding
      <4> QED BY <4>1, <4>2, HoldSame
    <3> QED BY <1>1, <3>1
  <2>2. TypeOK'
    BY SMTT(30), <2>1 DEF LaneInv, LaneTypeOK, LanesCounted
  <2>3. InHand'
    OBVIOUS
  <2>4. NeverOvercharged'
    BY ChargesSame
  <2> QED BY <2>1, <2>2, <2>3, <2>4
<1> QED BY <1>2, <1>3, <1>4, <1>5

\* Midnight, a revocation, a restart.
LEMMA AroundMoney ==
    ASSUME MoneyInv, Midnight \/ Revoke \/ Restart \/ UNCHANGED vars
    PROVE  MoneyInv'
<1> USE CardAssumption DEF MoneyInv, TypeOK, InHand, Event
<1>1. CASE Midnight \/ Revoke \/ UNCHANGED vars
  <2>0. /\ UNCHANGED <<faceUsed, dbUsed, inFlight, hold, dayCount, stored, queue, request>>
        /\ jsonUsed' \in {jsonUsed, faceUsed} /\ enabled' \in BOOLEAN /\ jsonEnabled' \in BOOLEAN
        /\ today' \in BOOLEAN /\ events' \in 0..MaxEvents
    <3>0. Event => events' \in 0..MaxEvents
      BY ONLY CardAssumption, events \in 0..MaxEvents DEF Event
    <3> HIDE DEF Event
    <3>1. CASE Midnight
      BY <3>0, <3>1 DEF Midnight, card
    <3>2. CASE Revoke
      BY <3>0, <3>2 DEF Revoke, runtime
    <3>3. CASE UNCHANGED vars
      BY <3>3 DEF vars, card, runtime
    <3> QED BY <1>1, <3>1, <3>2, <3>3
  <2> USE <2>0 DEF request
  <2>1. TypeOK'
    OBVIOUS
  <2>2. InHand'
    OBVIOUS
  <2>3. HoldCovers'
    <3>1. Holding' = Holding
      BY DEF Holding
    <3> QED BY <3>1, HoldSame
  <2>4. NeverOvercharged'
    BY DEF NeverOvercharged, Charged
  <2> QED BY <2>1, <2>2, <2>3, <2>4
<1>2. CASE Restart
  <2> USE <1>2 DEF Restart
  <2>1. TypeOK'
    <3>1. faceUsed' \in Nat /\ dbUsed' \in Nat /\ jsonUsed' \in Nat /\ hold' \in Nat
      BY DEF Larger
    <3>2. /\ pc' \in [Requests -> Label] /\ cap' \in [Requests -> 0..Lanes] /\ inFlight' \in 0..Lanes
          /\ queue' \in Seq(Requests)
      BY LanesNat, EmptySeq DEF Label, AdmitPC
    <3>3. /\ seen' \in [Requests -> Nat] /\ mine' \in [Requests -> 0..Estimate]
          /\ total' \in [Requests -> Nat] /\ dayCount' \in 0..(CountModulus - 1)
      OBVIOUS
    <3>4. /\ enabled' \in BOOLEAN /\ jsonEnabled' \in BOOLEAN /\ today' = FALSE /\ stored' = FALSE
          /\ cost' = cost /\ events' \in 0..MaxEvents
      OBVIOUS
    <3> QED BY ONLY <3>1, <3>2, <3>3, <3>4, MoneyInv DEF MoneyInv, TypeOK
  <2>2. InHand'
    BY DEF Larger, AdmitPC, LanePC
  <2>3. HoldCovers'
    <3>1. Holding' = {}
      BY DEF Holding, LanePC
    <3>2. Total(mine', {}) = 0
      BY TotalNothing
    <3> QED BY <3>1, <3>2 DEF HoldCovers
  <2>4. NeverOvercharged'
    <3>1. Charged' = Charged
      BY DEF Charged
    <3>2. faceUsed' <= faceUsed /\ dbUsed' = faceUsed' /\ jsonUsed' <= faceUsed'
      BY DEF Larger, NeverOvercharged
    <3>3. Charged \in Nat
      <4>1. \A r \in Requests : cost[r] \in Nat
        OBVIOUS
      <4> QED BY <4>1, UnitsFinite DEF Charged
    <3> QED BY <3>1, <3>2, <3>3 DEF NeverOvercharged, Larger
  <2> QED BY <2>1, <2>2, <2>3, <2>4
<1> QED BY <1>1, <1>2

\* The inductive invariant of the money.
LEMMA MoneyInvariant == Spec => []MoneyInv
<1>1. Init => MoneyInv
  <2> SUFFICES ASSUME Init PROVE MoneyInv
    OBVIOUS
  <2>1. TypeOK
    <3>1. /\ pc \in [Requests -> Label] /\ cap \in [Requests -> 0..Lanes] /\ inFlight \in 0..Lanes
          /\ queue \in Seq(Requests)
      BY LanesNat, EmptySeq DEF Init, Label, AdmitPC
    <3>2. /\ mine \in [Requests -> 0..Estimate] /\ dayCount \in 0..(CountModulus - 1)
          /\ events \in 0..MaxEvents
      BY CardAssumption DEF Init
    <3> QED BY <3>1, <3>2 DEF Init, TypeOK
  <2>2. InHand
    BY DEF Init, InHand
  <2>3. Total(mine, Holding) = 0 /\ Charged = 0
    BY TotalNothing DEF Init, Holding, Charged
  <2> QED BY <2>1, <2>2, <2>3 DEF MoneyInv, HoldCovers, NeverOvercharged, Init
<1>2. LaneInv /\ LaneInv' /\ MoneyInv /\ [Next]_vars => MoneyInv'
  BY AdmitMoney, LaneMoney, WaiterMoney, SettleMoney, AroundMoney DEF Next, RequestStep, TaskStep
<1> QED BY <1>1, <1>2, LaneInvariant, PTL DEF Spec

(* Type correctness.  That hold_micro stays a natural number is not obvious:  *)
(* a rollback subtracts from an AtomicU64 without looking.                    *)
THEOREM TypeCorrect == Spec => []TypeOK
<1>1. MoneyInv => TypeOK
  BY DEF MoneyInv
<1> QED BY <1>1, MoneyInvariant, PTL

(* hold_micro always covers what admitted requests hold, for any number of   *)
(* them: no rollback, release_hold, cancellation or restart takes away the   *)
(* hold of another request.                                                  *)
THEOREM HoldsAreKept == Spec => []HoldCovers
<1>1. MoneyInv => HoldCovers
  BY DEF MoneyInv
<1> QED BY <1>1, MoneyInvariant, PTL

(* Whatever requests settle together, whichever store fails and whenever the *)
(* process restarts, a card is charged no more than its requests cost, and   *)
(* neither cards.db nor cards.json runs ahead of memory.                     *)
THEOREM ChargesAreCosts == Spec => []NeverOvercharged
<1>1. MoneyInv => NeverOvercharged
  BY DEF MoneyInv
<1> QED BY <1>1, MoneyInvariant, PTL
=============================================================================
