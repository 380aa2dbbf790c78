------------------------------ MODULE CardGate ------------------------------
(***************************************************************************)
(* The gate of one quota card (src/cards.rs): admit, the lane counter and  *)
(* its tokio Notify, the CardPermit with its pre-authorised amount, the    *)
(* settlement, and the two stores that survive a restart: cards.db, which  *)
(* has the amount used, and cards.json, written by save().                 *)
(*                                                                         *)
(* in_flight, day_count and hold_micro are atomics, the card is an entry   *)
(* of a DashMap, and no lock spans two of them: every access that another  *)
(* request can come between is a step of its own.  Each member of Requests *)
(* is one request of the card, from its arrival to the end of its permit.  *)
(***************************************************************************)
EXTENDS Integers, Sequences, FiniteSets

CONSTANTS
    Requests,       \* the requests of the card
    Face,           \* plan.face_usd, in units of money
    Estimate,       \* hold_estimate_micro of a request
    Amounts,        \* what a request may turn out to cost
    Slots,          \* lanes of the card: effective_slots
    DegradedSlots,  \* plan.degraded_concurrency
    RequestsPerDay, \* plan.fair_use_rpd
    CountModulus,   \* values of an AtomicU64 day_count: 2^64 in the code
    MaxEvents       \* bound: midnights, revocations and restarts

ASSUME CardAssumption ==
    /\ IsFiniteSet(Requests)
    /\ Face \in Nat \ {0}
    /\ Estimate \in Nat
    /\ Amounts \in SUBSET Nat \ {{}}
    /\ Slots \in Nat \ {0}
    /\ DegradedSlots \in Nat
    /\ RequestsPerDay \in Nat \ {0}
    /\ CountModulus \in Nat \ {0}
    /\ Cardinality(Requests) < CountModulus
    /\ MaxEvents \in Nat

VARIABLES
    (* the card, in `cards`, cards.db and cards.json *)
    enabled, faceUsed, dbUsed, jsonUsed, jsonEnabled,
    (* CardRuntime *)
    inFlight, hold, dayCount,
    today,      \* day_start is the current day
    stored,     \* lane_freed holds the one permit a Notify can store
    queue,      \* requests asleep in lane_freed, in the order they came
    (* requests *)
    pc,
    seen,       \* face_used_micro of the clone admit works on
    mine,       \* hold_micro of the request
    cap,        \* conc_cap of the request
    cost,       \* what the settlement charged, 0 before
    total,      \* new_total, on its way to cards.db
    events

card == <<enabled, faceUsed, dbUsed, jsonUsed, jsonEnabled>>
runtime == <<inFlight, hold, dayCount, today, stored, queue>>
request == <<pc, seen, mine, cap, cost, total>>
vars == <<card, runtime, request, events>>

\* From arrival to the lane, asleep, and with a permit.
AdmitPC == {"arrived", "read", "checked"}
LanePC == {"try", "recheck", "await", "asleep", "woken"}
PermitPC == {"run", "released", "charged", "settled"}
Label == AdmitPC \cup LanePC \cup PermitPC \cup {"notify", "done"}

Larger(m, n) == IF m > n THEN m ELSE n
Smaller(m, n) == IF m < n THEN m ELSE n

\* The widest cap: nothing keeps degraded_concurrency of a plan below the slots
\* of a card.
Lanes == Larger(Slots, DegradedSlots)

TypeOK ==
    /\ enabled \in BOOLEAN /\ jsonEnabled \in BOOLEAN
    /\ faceUsed \in Nat /\ dbUsed \in Nat /\ jsonUsed \in Nat /\ hold \in Nat
    /\ inFlight \in 0..Lanes
    /\ dayCount \in 0..(CountModulus - 1)
    /\ today \in BOOLEAN /\ stored \in BOOLEAN
    /\ queue \in Seq(Requests)
    /\ pc \in [Requests -> Label]
    /\ seen \in [Requests -> Nat]
    /\ mine \in [Requests -> 0..Estimate]
    /\ cap \in [Requests -> 0..Lanes]
    /\ cost \in [Requests -> Amounts \cup {0}]
    /\ total \in [Requests -> Nat]
    /\ events \in 0..MaxEvents
----------------------------------------------------------------------------
Init ==
    /\ enabled = TRUE /\ jsonEnabled = TRUE
    /\ faceUsed = 0 /\ dbUsed = 0 /\ jsonUsed = 0
    /\ inFlight = 0 /\ hold = 0 /\ dayCount = 0
    /\ today = TRUE /\ stored = FALSE /\ queue = <<>>
    /\ pc = [r \in Requests |-> "arrived"]
    /\ seen = [r \in Requests |-> 0]
    /\ mine = [r \in Requests |-> 0]
    /\ cap = [r \in Requests |-> 0]
    /\ cost = [r \in Requests |-> 0]
    /\ total = [r \in Requests |-> 0]
    /\ events = 0

Goto(r, label) == pc' = [pc EXCEPT ![r] = label]
----------------------------------------------------------------------------
(* admit *)

\* get_card: the clone the rest of admit works on.  A revoked card is refused.
ReadCard(r) ==
    /\ pc[r] = "arrived"
    /\ Goto(r, IF enabled THEN "read" ELSE "done")
    /\ seen' = [seen EXCEPT ![r] = IF enabled THEN faceUsed ELSE 0]
    /\ UNCHANGED <<card, runtime, mine, cap, cost, total, events>>

\* hold_micro is read, the balance checked and the hold computed; the model
\* gate may refuse as well.
CheckBalance(r) ==
    LET committed == seen[r] + hold IN
    /\ pc[r] = "read"
    /\ \/ /\ committed < Face
          /\ mine' = [mine EXCEPT ![r] = Smaller(Estimate, Face - committed)]
          /\ Goto(r, "checked")
       \/ /\ Goto(r, "done")
          /\ UNCHANGED mine
    /\ seen' = [seen EXCEPT ![r] = 0]
    /\ UNCHANGED <<card, runtime, cap, cost, total, events>>

\* conc_cap of a throttle level
LaneCap(throttle) ==
    CASE throttle = "normal" -> Slots
      [] throttle = "soften" -> Larger(1, Larger(Slots \div 2, DegradedSlots))
      [] throttle = "degraded" -> Larger(1, DegradedSlots)

\* eval_throttle_card: a card above its daily number of requests is degraded,
\* otherwise load and behaviour score decide.
Throttles(count) ==
    IF count > RequestsPerDay THEN {"degraded"} ELSE {"normal", "soften", "degraded"}

\* roll_day, the throttle level, and the two fetch_adds.  Admissions that read
\* day_count together only differ in the throttle level they find, which
\* Throttles leaves open below the limit.
Commit(r) ==
    LET count == IF today THEN dayCount ELSE 0 IN
    /\ pc[r] = "checked"
    /\ today' = TRUE
    /\ \E t \in Throttles(count) : cap' = [cap EXCEPT ![r] = LaneCap(t)]
    /\ dayCount' = (count + 1) % CountModulus
    /\ hold' = hold + mine[r]
    /\ Goto(r, "try")
    /\ UNCHANGED <<card, inFlight, stored, queue, seen, mine, cost, total, events>>
----------------------------------------------------------------------------
(* acquire: the lane *)

\* try_take_lane without its comparison
TakeAnyLane(r) ==
    /\ pc[r] \in {"try", "recheck"}
    /\ inFlight' = inFlight + 1
    /\ Goto(r, "run")
    /\ UNCHANGED <<card, hold, dayCount, today, stored, queue, seen, mine, cap, cost,
                   total, events>>

\* try_take_lane, before and after lane_freed.notified()
TakeLane(r) ==
    /\ pc[r] \in {"try", "recheck"}
    /\ IF inFlight < cap[r]
       THEN /\ inFlight' = inFlight + 1
            /\ Goto(r, "run")
            /\ cap' = [cap EXCEPT ![r] = 0]
       ELSE /\ Goto(r, IF pc[r] = "try" THEN "recheck" ELSE "await")
            /\ UNCHANGED <<inFlight, cap>>
    /\ UNCHANGED <<card, hold, dayCount, today, stored, queue, seen, mine, cost,
                   total, events>>

\* The first poll of the Notified future: a stored permit completes it,
\* otherwise the request joins the queue.
Await(r) ==
    /\ pc[r] = "await"
    /\ IF stored
       THEN stored' = FALSE /\ Goto(r, "try") /\ UNCHANGED queue
       ELSE queue' = Append(queue, r) /\ Goto(r, "asleep") /\ UNCHANGED stored
    /\ UNCHANGED <<card, inFlight, hold, dayCount, today, seen, mine, cap, cost, total,
                   events>>

Wake(r) ==
    /\ pc[r] = "woken"
    /\ Goto(r, "try")
    /\ UNCHANGED <<card, runtime, seen, mine, cap, cost, total, events>>

\* The request's own variables are gone.
Forget(r) ==
    /\ mine' = [mine EXCEPT ![r] = 0]
    /\ cap' = [cap EXCEPT ![r] = 0]

Without(s, i) == SubSeq(s, 1, i - 1) \o SubSeq(s, i + 1, Len(s))

\* The dropped Notified of r leaves the queue.
LeaveQueue(r) ==
    \E i \in 1..Len(queue) : queue[i] = r /\ queue' = Without(queue, i)

\* The rollback returns the estimate instead of what was held.
LaneTimeoutFull(r) ==
    /\ pc[r] = "asleep"
    /\ LeaveQueue(r)
    /\ dayCount' = (dayCount - 1) % CountModulus
    /\ hold' = Larger(0, hold - Estimate)
    /\ Forget(r)
    /\ Goto(r, "done")
    /\ UNCHANGED <<card, inFlight, today, stored, seen, cost, total, events>>

\* The deadline passes first: the counter and the hold are rolled back.
LaneTimeout(r) ==
    /\ pc[r] = "asleep"
    /\ LeaveQueue(r)
    /\ dayCount' = (dayCount - 1) % CountModulus
    /\ hold' = hold - mine[r]
    /\ Forget(r)
    /\ Goto(r, "done")
    /\ UNCHANGED <<card, inFlight, today, stored, seen, cost, total, events>>

\* Notify::notify_one, by a request that goes on at label.
NotifyOne(r, label) ==
    IF queue = <<>>
    THEN stored' = TRUE /\ UNCHANGED queue /\ Goto(r, label)
    ELSE /\ queue' = Tail(queue)
         /\ pc' = [pc EXCEPT ![r] = label, ![Head(queue)] = "woken"]
         /\ UNCHANGED stored

\* The notification of a cancelled waiter is lost.
CancelWaitSilently(r) ==
    /\ \/ pc[r] = "asleep" /\ LeaveQueue(r)
       \/ pc[r] = "woken" /\ UNCHANGED queue
    /\ Forget(r)
    /\ Goto(r, "done")
    /\ UNCHANGED <<card, inFlight, hold, dayCount, today, stored, seen, cost, total, events>>

\* The client disconnects and the handler's future is dropped while it waits.
\* A Notified that was woken already passes its notification on.
CancelWait(r) ==
    /\ \/ /\ pc[r] = "asleep"
          /\ LeaveQueue(r)
          /\ Goto(r, "done")
          /\ UNCHANGED stored
       \/ /\ pc[r] = "woken"
          /\ NotifyOne(r, "done")
    /\ Forget(r)
    /\ UNCHANGED <<card, inFlight, hold, dayCount, today, seen, cost, total, events>>
----------------------------------------------------------------------------
(* settle_permit and the end of the permit *)

\* settle_permit without the `settled` flag
SettleTwice(r) ==
    /\ pc[r] \in {"run", "settled"}
    /\ hold' = Larger(0, hold - mine[r])
    /\ mine' = [mine EXCEPT ![r] = 0]
    /\ Goto(r, "released")
    /\ UNCHANGED <<card, inFlight, dayCount, today, stored, queue, seen, cap, cost, total,
                   events>>

\* settled := true, then release_hold; later calls for the permit do nothing.
Settle(r) ==
    /\ pc[r] = "run"
    /\ hold' = Larger(0, hold - mine[r])
    /\ mine' = [mine EXCEPT ![r] = 0]
    /\ Goto(r, "released")
    /\ UNCHANGED <<card, inFlight, dayCount, today, stored, queue, seen, cap, cost, total,
                   events>>

\* settle_usd up to the guard on the card: roll_day, then face_used_micro grows.
Charge(r) ==
    /\ pc[r] = "released"
    /\ today' = TRUE
    /\ dayCount' = IF today THEN dayCount ELSE 0
    /\ \E usd \in Amounts :
         /\ faceUsed' = faceUsed + usd
         /\ cost' = [cost EXCEPT ![r] = usd]
    /\ total' = [total EXCEPT ![r] = faceUsed']
    /\ Goto(r, "charged")
    /\ UNCHANGED <<enabled, dbUsed, jsonUsed, jsonEnabled, inFlight, hold, stored, queue,
                   seen, mine, cap, events>>

\* ledger_add_face_used writes new_total; when the DB fails save() writes the
\* cards as they are in memory now.
Store(r) ==
    /\ pc[r] = "charged"
    /\ \/ dbUsed' = total[r] /\ UNCHANGED <<jsonUsed, jsonEnabled>>
       \/ jsonUsed' = faceUsed /\ jsonEnabled' = enabled /\ UNCHANGED dbUsed
    /\ total' = [total EXCEPT ![r] = 0]
    /\ Goto(r, "settled")
    /\ UNCHANGED <<enabled, faceUsed, runtime, seen, mine, cap, cost, events>>

\* Drop of the permit: an unsettled one returns its hold; the lane is freed.
DropPermit(r) ==
    /\ pc[r] \in {"run", "settled"}
    /\ hold' = Larger(0, hold - mine[r])
    /\ mine' = [mine EXCEPT ![r] = 0]
    /\ inFlight' = inFlight - 1
    /\ Goto(r, "notify")
    /\ UNCHANGED <<card, dayCount, today, stored, queue, seen, cap, cost, total, events>>

Notify(r) ==
    /\ pc[r] = "notify"
    /\ NotifyOne(r, "done")
    /\ UNCHANGED <<card, inFlight, hold, dayCount, today, seen, mine, cap, cost, total,
                   events>>
----------------------------------------------------------------------------
(* Around the requests *)

Event ==
    /\ events < MaxEvents
    /\ events' = events + 1

Midnight ==
    /\ Event
    /\ today' = FALSE
    /\ UNCHANGED <<card, inFlight, hold, dayCount, stored, queue, request>>

\* revoke_card and its save()
Revoke ==
    /\ Event
    /\ enabled' = FALSE
    /\ jsonEnabled' = FALSE
    /\ jsonUsed' = faceUsed
    /\ UNCHANGED <<faceUsed, dbUsed, runtime, request>>

\* load after a restart: cards.json, then the larger of the two amounts used,
\* which is written back to cards.db.
Restart ==
    /\ Event
    /\ enabled' = jsonEnabled
    /\ faceUsed' = Larger(dbUsed, jsonUsed)
    /\ dbUsed' = Larger(dbUsed, jsonUsed)
    /\ inFlight' = 0 /\ hold' = 0 /\ dayCount' = 0
    /\ today' = FALSE /\ stored' = FALSE /\ queue' = <<>>
    /\ pc' = [r \in Requests |-> IF pc[r] = "arrived" THEN "arrived" ELSE "done"]
    /\ seen' = [r \in Requests |-> 0]
    /\ mine' = [r \in Requests |-> 0]
    /\ cap' = [r \in Requests |-> 0]
    /\ total' = [r \in Requests |-> 0]
    /\ UNCHANGED <<jsonUsed, jsonEnabled, cost>>

\* What a task does of itself, and the two ways a permit's holder goes on: by the
\* settlement at the end of the answer, or by dropping the permit.
TaskStep(r) ==
    \/ ReadCard(r) \/ CheckBalance(r) \/ Commit(r)
    \/ TakeLane(r) \/ Await(r) \/ Wake(r)
    \/ Charge(r) \/ Store(r) \/ Notify(r)

RequestStep(r) == TaskStep(r) \/ Settle(r) \/ DropPermit(r)

Next ==
    \/ \E r \in Requests : RequestStep(r) \/ LaneTimeout(r) \/ CancelWait(r)
    \/ Midnight \/ Revoke \/ Restart

Spec == Init /\ [][Next]_vars

\* A task that can run does.  No fairness on the end of an answer: the stream task
\* waits for its client in tx.send without a deadline.  None on timeouts either:
\* waiters must not depend on them.
Fairness == \A r \in Requests : WF_vars(TaskStep(r))

FairSpec == Spec /\ Fairness
----------------------------------------------------------------------------
(* Properties *)

InLane == {r \in Requests : pc[r] \in PermitPC}

(* in_flight counts exactly the permits that are out, and never exceeds the *)
(* widest cap, whatever the order of admissions, timeouts, cancellations    *)
(* and drops: no lane is lost and none is given twice.                      *)
LanesCounted == inFlight = Cardinality(InLane) /\ inFlight <= Lanes

\* A request that is about to wake somebody or to try the lane
Helper == \E r \in Requests : pc[r] \in {"notify", "woken", "try", "recheck"}

(* Nobody sleeps in front of an idle card: while requests wait for a lane   *)
(* and none is taken, a wake-up is on its way.                              *)
NoSleepBeforeIdleCard ==
    queue # <<>> /\ inFlight = 0 => Helper

\* Requests asleep are the queue, each once; a stored permit finds nobody asleep;
\* who waits has a cap of one lane at least.
QueueOK ==
    /\ \A i \in 1..Len(queue) : pc[queue[i]] = "asleep"
    /\ \A i, j \in 1..Len(queue) : queue[i] = queue[j] => i = j
    /\ stored => queue = <<>>
    /\ \A r \in Requests : pc[r] \in LanePC => cap[r] \in 1..Lanes

\* NoSleepBeforeIdleCard, also for requests that are about to fall asleep.
WakeOnItsWay ==
    inFlight = 0 /\ ~stored /\ (queue # <<>> \/ \E r \in Requests : pc[r] = "await")
        => Helper

\* Every holder of a permit lets go of it: its client reads on or goes away.
HoldersLetGo == \A q \in Requests : []<>(pc[q] \notin {"run", "settled"})

(* acquire's queue: as long as every request that has a lane lets go of it  *)
(* in the end, a request waiting for a lane gets on even if its timeout     *)
(* never fires; no wake-up is lost to cancellations on the way.             *)
WaitersProceed ==
    HoldersLetGo => \A r \in Requests : []<>(pc[r] # "asleep")

\* The sum of f over S, as the number of units: each request r has f[r] of them.
Units(f, S) == UNION {{r} \X (1..f[r]) : r \in S}
Total(f, S) == Cardinality(Units(f, S))

\* Requests whose pre-authorised amount is counted in hold_micro
Holding == {r \in Requests : pc[r] \in LanePC \cup {"run"}}

(* hold_micro never forgets money that an admitted request may still spend: *)
(* neither a rollback nor a release_hold takes away another request's hold. *)
HoldCovers == hold >= Total(mine, Holding)

Charged == Total(cost, Requests)

(* A card is never charged more than its requests cost, also after settling *)
(* twice, a failed DB write with its fallback, or a restart that merges     *)
(* cards.json and cards.db; what is stored never runs ahead of memory.      *)
NeverOvercharged ==
    /\ faceUsed <= Charged
    /\ dbUsed <= faceUsed /\ jsonUsed <= faceUsed

(* admit's comment: of N concurrent requests "each sees the holds of the    *)
(* ones before it", so that they do not overdraw the card together.  What   *)
(* is spent and held never exceeds the face value (for requests that cost   *)
(* no more than was held for them).                                         *)
NoOvercommit == faceUsed + hold <= Face

(* admit's comment: a caller that gets no lane must roll back; the permit's *)
(* comment: the balance must not stay locked.  With no request in progress  *)
(* nothing is held.                                                         *)
NothingHeldAtRest ==
    (\A r \in Requests : pc[r] \in {"arrived", "done"}) => hold = 0

(* ledger_add_face_used's comment: writing totals keeps the DB and memory   *)
(* from diverging when settlements run concurrently.  With no settlement    *)
(* under way what is stored is what is in memory.                           *)
StoredTotalIsCurrent ==
    (\A r \in Requests : pc[r] # "charged") => Larger(dbUsed, jsonUsed) = faceUsed
====
