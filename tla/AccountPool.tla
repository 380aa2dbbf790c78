---------------------------- MODULE AccountPool ----------------------------
(***************************************************************************)
(* The account pool of src/pool.rs with the callers that change it: the    *)
(* retry loop of main.rs, the 30 s reaper, the 60 s quota probe, the admin *)
(* handlers of admin/accounts.rs and the two files that survive a restart  *)
(* (accounts.json, account-state.json).                                    *)
(*                                                                         *)
(* The pool has no lock of its own: every DashMap, semaphore and ArcSwap   *)
(* operation is atomic, a method is a sequence of them, and requests run   *)
(* on several tokio workers.  An action is one such operation, or several  *)
(* whose order no other actor can observe through the state kept here.     *)
(* Time is abstracted: a cooldown or a quarantine ends by an action.       *)
(***************************************************************************)
EXTENDS Integers, FiniteSets

CONSTANTS
    Accounts,        \* account ids of accounts.json
    Requests,        \* concurrent inference requests
    Sessions,        \* session ids used for stickiness
    NoAccount,       \* no binding
    NoSession,       \* a request without a session id
    SessionIds,      \* session ids requests come with, possibly none
    MaxConcurrency,  \* permits of one account's semaphore
    Threshold,       \* consecutive errors that trigger auto_disable (5 in main.rs)
    MaxRetries,      \* attempts of one request (3 in main.rs)
    MaxGen,          \* bound: semaphores created for one account
    MaxEvents        \* bound: upstream failures, admin operations, probes, saves, restarts

ASSUME PoolAssumption ==
    /\ MaxConcurrency \in Nat \ {0}
    /\ Threshold \in Nat \ {0}
    /\ MaxRetries \in Nat \ {0}
    /\ MaxGen \in Nat \ {0}
    /\ MaxEvents \in Nat
    /\ NoAccount \notin Accounts
    /\ NoSession \notin Sessions
    /\ SessionIds \subseteq Sessions \cup {NoSession}
    /\ IsFiniteSet(Requests)

VARIABLES
    (* memory of the process *)
    present,     \* keys of `slots` (and of `disabled` and `stats`)
    gen,         \* gen[a]: which semaphore the slot of a carries now
    ver,         \* ver[a]: which edit of the account the slot carries
    cooling,     \* slot objects whose cooldown_until lies in the future
    disabled,    \* accounts whose `disabled` entry is true
    quotaOut,    \* accounts whose quota snapshot says has_available_usage = false
    until,       \* auto_disabled_until[a]: "none", "running" or "due"
    ineligible,  \* accounts with a recorded ineligibility reason
    errs,        \* consecutive_errors, saturated at Threshold
    sess,        \* sticky bindings: session -> account
    snap,        \* available_slots: the slot objects of the last rebuild
    (* requests *)
    pc, sid, att,
    held,        \* the slot whose permit the request owns
    cand,        \* the slot the request is checking or about to take
    list,        \* the available_slots snapshot the request loaded
    best,        \* best_avail of the request's scan
    (* background and admin tasks *)
    adm,         \* the admin handler under way
    due, cur,    \* the reaper: ids still to restore, id being restored
    (* disk *)
    diskHas, diskOn, diskVer,  \* accounts.json
    saved,                     \* account-state.json
    (* observers and bound *)
    autoClosed,  \* accounts auto_disable was the last to decide about
    stray,       \* of these, the ones whose record an overlapping set_enabled removed
    adminOff,    \* accounts an operator switched off and nobody switched on
    churned,     \* accounts removed from the pool since the start
    shut,        \* shut[r]: account and reason that held at every moment of r's try
    firm,        \* firm[r]: bound, available and with a free permit all along
    events

memory == <<present, gen, ver, cooling, disabled, quotaOut, until, ineligible,
            errs, sess, snap>>
requests == <<pc, sid, att, held, cand, list, best>>
tasks == <<adm, due, cur>>
disk == <<diskHas, diskOn, diskVer, saved>>
observers == <<autoClosed, adminOff, churned>>
vars == <<memory, requests, tasks, disk, observers, stray, shut, firm, events>>

Gens == 0..MaxGen
Slot == Accounts \X Gens
NoSlot == <<NoAccount, 0>>

SlotPC == {"on", "cool", "quota", "sticky", "free", "take"}
TryPC == SlotPC \cup {"lookup", "load", "pick", "busy"}
Reasons == {"disabled", "cooling", "exhausted"}
RunPC == {"run", "judged", "auto", "mark", "remark", "persist"}
AdminPC == {"idle", "clear", "persist"}
Saved == [known : SUBSET Accounts, cool : SUBSET Accounts,
          inel : SUBSET Accounts, errs : [Accounts -> 0..Threshold]]

MemoryTypeOK ==
    /\ present \subseteq Accounts
    /\ gen \in [Accounts -> Gens]
    /\ ver \in [Accounts -> 0..MaxEvents]
    /\ cooling \subseteq Slot
    /\ disabled \subseteq present
    /\ quotaOut \subseteq Accounts
    /\ until \in [Accounts -> {"none", "running", "due"}]
    /\ ineligible \subseteq Accounts
    /\ errs \in [Accounts -> 0..Threshold]
    /\ sess \in [Sessions -> Accounts \cup {NoAccount}]
    /\ snap \subseteq Slot

RequestTypeOK ==
    /\ pc \in [Requests -> {"idle"} \cup TryPC \cup RunPC]
    /\ sid \in [Requests -> Sessions \cup {NoSession}]
    /\ att \in [Requests -> 0..(MaxRetries - 1)]
    /\ held \in [Requests -> Slot \cup {NoSlot}]
    /\ cand \in [Requests -> Slot \cup {NoSlot}]
    /\ list \in [Requests -> SUBSET Slot]
    /\ best \in [Requests -> 0..MaxConcurrency]

TaskTypeOK ==
    /\ adm \in [pc : AdminPC, a : Accounts \cup {NoAccount}, on : BOOLEAN, rb : BOOLEAN]
    /\ due \subseteq Accounts
    /\ cur \in Accounts \cup {NoAccount}

DiskTypeOK ==
    /\ diskHas \subseteq Accounts
    /\ diskOn \subseteq Accounts
    /\ diskVer \in [Accounts -> 0..MaxEvents]
    /\ saved \in Saved

ObserverTypeOK ==
    /\ autoClosed \subseteq Accounts
    /\ adminOff \subseteq Accounts
    /\ churned \subseteq Accounts
    /\ stray \subseteq Accounts
    /\ shut \in [Requests -> SUBSET (Accounts \X Reasons)]
    /\ firm \in [Requests -> Accounts \cup {NoAccount}]
    /\ events \in 0..MaxEvents

TypeOK == MemoryTypeOK /\ RequestTypeOK /\ TaskTypeOK /\ DiskTypeOK /\ ObserverTypeOK
----------------------------------------------------------------------------
(* Slots and permits *)

Cur(a) == <<a, gen[a]>>
SlotsOf(P, g) == {<<a, g[a]>> : a \in P}

Holders(slot) == {r \in Requests : held[r] = slot}
Permits(slot) == MaxConcurrency - Cardinality(Holders(slot))

Bump(a) == [errs EXCEPT ![a] = IF @ < Threshold THEN @ + 1 ELSE @]
Unbind(a) == [s \in Sessions |-> IF sess[s] = a THEN NoAccount ELSE sess[s]]
UsesSession(r) == att[r] = 0 /\ sid[r] # NoSession
Account(r) == held[r][1]
----------------------------------------------------------------------------
Init ==
    /\ diskHas \in SUBSET Accounts \ {{}}
    /\ diskOn = diskHas
    /\ diskVer = [a \in Accounts |-> 0]
    /\ saved = [known |-> {}, cool |-> {}, inel |-> {}, errs |-> [a \in Accounts |-> 0]]
    /\ present = diskHas
    /\ gen = [a \in Accounts |-> 0]
    /\ ver = [a \in Accounts |-> 0]
    /\ cooling = {}
    /\ disabled = {}
    /\ quotaOut = {}
    /\ until = [a \in Accounts |-> "none"]
    /\ ineligible = {}
    /\ errs = [a \in Accounts |-> 0]
    /\ sess = [s \in Sessions |-> NoAccount]
    /\ snap = {}
    /\ pc = [r \in Requests |-> "idle"]
    /\ sid = [r \in Requests |-> NoSession]
    /\ att = [r \in Requests |-> 0]
    /\ held = [r \in Requests |-> NoSlot]
    /\ cand = [r \in Requests |-> NoSlot]
    /\ list = [r \in Requests |-> {}]
    /\ best = [r \in Requests |-> 0]
    /\ adm = [pc |-> "idle", a |-> NoAccount, on |-> FALSE, rb |-> FALSE]
    /\ due = {}
    /\ cur = NoAccount
    /\ autoClosed = {}
    /\ adminOff = {}
    /\ churned = {}
    /\ stray = {}
    /\ shut = [r \in Requests |-> {}]
    /\ firm = [r \in Requests |-> NoAccount]
    /\ events = 0

----------------------------------------------------------------------------
(* What a request could have observed during its current try *)

\* Why a is not to be handed out; a cooldown lives in the slot object.
Shut(a, why) ==
    /\ a \in present
    /\ \/ why = "disabled" /\ a \in disabled
       \/ why = "cooling" /\ Cur(a) \in cooling
       \/ why = "exhausted" /\ a \in quotaOut

Ready(a) ==
    /\ a \in present /\ \A why \in Reasons : ~Shut(a, why)
    /\ Permits(Cur(a)) > 0

BoundReady(r) ==
    IF UsesSession(r) /\ sess[sid[r]] # NoAccount /\ Ready(sess[sid[r]])
    THEN sess[sid[r]] ELSE NoAccount

\* set_enabled is about to remove the record of an account that it does not close.
RecordDropped(a) == adm.pc = "clear" /\ adm'.pc # "clear" /\ adm.a = a /\ (adm.on \/ adm.rb)

\* shut and firm restart with each try and can only shrink until it ends.  An
\* account is stray until it gets a record, is opened or somebody else decides.
Observe ==
    LET trying(r) == pc'[r] \in TryPC
        fresh(r) == pc'[r] = "lookup" /\ pc[r] # "lookup"
        firmNow(r) == fresh(r) \/ (trying(r) /\ firm[r] # NoAccount)
    IN  /\ shut' = [r \in Requests |->
             {x \in (IF fresh(r) THEN Accounts \X Reasons ELSE shut[r]) :
                 trying(r) /\ Shut(x[1], x[2])'}]
        /\ firm' = [r \in Requests |->
             IF firmNow(r) /\ (fresh(r) \/ firm[r] = BoundReady(r)') THEN BoundReady(r)'
             ELSE NoAccount]
        /\ stray' = {a \in disabled' \cap autoClosed' :
                        until'[a] = "none" /\ (a \in stray \/ RecordDropped(a))}
----------------------------------------------------------------------------
(* Selecting an account: acquire_by_session_ex and try_acquire_by_session *)

Goto(r, label) == pc' = [pc EXCEPT ![r] = label]

\* An event from outside, of which a behaviour has at most MaxEvents.
Event ==
    /\ events < MaxEvents
    /\ events' = events + 1

Begin(r, s) ==
    /\ pc[r] = "idle"
    /\ Goto(r, "lookup")
    /\ sid' = [sid EXCEPT ![r] = s]
    /\ UNCHANGED <<memory, att, held, cand, list, best, tasks, disk, observers, events>>
    /\ Observe

\* Every request selected as if it had no session.
LookupUnbound(r) ==
    /\ pc[r] = "lookup"
    /\ Goto(r, "load")
    /\ UNCHANGED <<memory, sid, att, held, cand, list, best, tasks, disk, observers, events>>
    /\ Observe

\* find_sticky_slot: the slot a session is bound to; a binding to a removed
\* account is dropped.
Lookup(r) ==
    /\ pc[r] = "lookup"
    /\ LET a == sess[sid[r]]
           bound == UsesSession(r) /\ a # NoAccount
       IN  \/ /\ bound /\ a \in present
              /\ Goto(r, "on")
              /\ cand' = [cand EXCEPT ![r] = Cur(a)]
              /\ UNCHANGED sess
           \/ /\ ~(bound /\ a \in present)
              /\ Goto(r, "load")
              /\ sess' = IF bound THEN [sess EXCEPT ![sid[r]] = NoAccount] ELSE sess
              /\ UNCHANGED cand
    /\ UNCHANGED <<present, gen, ver, cooling, disabled, quotaOut, until, ineligible,
                   errs, snap, sid, att, held, list, best, tasks, disk, observers, events>>
    /\ Observe

\* The slot will not do.  A bound one gives way to the scan; the scan goes on with
\* the rest of the list, and when that runs out the try is Busy.
PassOver(r, slot) ==
    LET rest == list[r] \ {slot}
    IN  /\ Goto(r, IF rest # {} THEN "pick" ELSE IF best[r] = 0 THEN "load" ELSE "busy")
        /\ cand' = [cand EXCEPT ![r] = NoSlot]
        /\ list' = [list EXCEPT ![r] = rest]
        /\ best' = [best EXCEPT ![r] = IF rest = {} THEN 0 ELSE @]

\* Go on with the slot if it passes, to `label`.
Check(r, slot, passes, label) ==
    /\ \/ /\ passes
          /\ Goto(r, label)
          /\ cand' = [cand EXCEPT ![r] = slot]
          /\ UNCHANGED <<list, best>>
       \/ ~passes /\ PassOver(r, slot)
    /\ UNCHANGED <<memory, sid, att, held, tasks, disk, observers, events>>
    /\ Observe

\* is_slot_available, for the bound slot and for each slot of the second loop (from
\* a rotating start), reads `disabled` by id, an absent entry counting as enabled,
\* ...
ReadDisabled(r) ==
    /\ pc[r] \in {"on", "pick"}
    /\ \E slot \in (IF pc[r] = "on" THEN {cand[r]} ELSE list[r]) :
          Check(r, slot, slot[1] \notin disabled, "cool")

\* ... then the cooldown in the slot object ...
ReadCooldown(r) ==
    /\ pc[r] = "cool"
    /\ Check(r, cand[r], cand[r] \notin cooling, "quota")

\* slot_live_available before it read the quota live
ReadQuotaNot(r) ==
    /\ pc[r] = "quota"
    /\ Check(r, cand[r], TRUE, IF best[r] = 0 THEN "sticky" ELSE "free")

\* ... and the quota snapshot by id.
ReadQuota(r) ==
    /\ pc[r] = "quota"
    /\ Check(r, cand[r], cand[r][1] \notin quotaOut, IF best[r] = 0 THEN "sticky" ELSE "free")

\* A new permit replaces the one of the previous attempt, which is returned.
Grant(r, slot) ==
    /\ held' = [held EXCEPT ![r] = slot]
    /\ Goto(r, "run")
    /\ cand' = [cand EXCEPT ![r] = NoSlot]
    /\ list' = [list EXCEPT ![r] = {}]
    /\ best' = [best EXCEPT ![r] = 0]

StickyTake(r) ==
    /\ pc[r] = "sticky"
    /\ IF Permits(cand[r]) > 0
       THEN Grant(r, cand[r])
       ELSE PassOver(r, cand[r]) /\ UNCHANGED held
    /\ UNCHANGED <<memory, sid, att, tasks, disk, observers, events>>
    /\ Observe

\* The request is answered or dropped: its permit goes back.
End(r) ==
    /\ Goto(r, "idle")
    /\ held' = [held EXCEPT ![r] = NoSlot]
    /\ sid' = [sid EXCEPT ![r] = NoSession]
    /\ att' = [att EXCEPT ![r] = 0]
    /\ cand' = [cand EXCEPT ![r] = NoSlot]
    /\ list' = [list EXCEPT ![r] = {}]
    /\ best' = [best EXCEPT ![r] = 0]

\* available_slots.load() and the first loop.  An empty list is rebuilt once,
\* and if it stays empty the request fails with AcquireError::Empty.  The loop
\* reads flags and permits of slot after slot while others change them, and hands
\* on one number, best_avail: any number of permits, 0 meaning Busy.
Load(r) ==
    /\ pc[r] = "load"
    /\ snap' = IF snap = {} THEN SlotsOf(present, gen) ELSE snap
    /\ \/ snap' = {} /\ End(r)
       \/ /\ snap' # {}
          /\ Goto(r, "busy")
          /\ UNCHANGED <<sid, att, held, cand, list, best>>
       \/ \E top \in 1..MaxConcurrency :
            /\ snap' # {}
            /\ Goto(r, "pick")
            /\ list' = [list EXCEPT ![r] = snap']
            /\ best' = [best EXCEPT ![r] = top]
            /\ UNCHANGED <<sid, att, held, cand>>
    /\ UNCHANGED <<present, gen, ver, cooling, disabled, quotaOut, until, ineligible,
                   errs, sess, tasks, disk, observers, events>>
    /\ Observe

\* A live slot counts only with as many free permits as the first loop found.
ReadPermits(r) ==
    /\ pc[r] = "free"
    /\ Check(r, cand[r], Permits(cand[r]) = best[r], "take")

\* try_acquire_owned; on success bind_session, otherwise the loop goes on.
Take(r) ==
    /\ pc[r] = "take"
    /\ \/ /\ Permits(cand[r]) > 0
          /\ Grant(r, cand[r])
          /\ sess' = IF UsesSession(r)
                     THEN [sess EXCEPT ![sid[r]] = cand[r][1]] ELSE sess
       \/ /\ Permits(cand[r]) = 0
          /\ PassOver(r, cand[r])
          /\ UNCHANGED <<held, sess>>
    /\ UNCHANGED <<present, gen, ver, cooling, disabled, quotaOut, until, ineligible,
                   errs, snap, sid, att, tasks, disk, observers, events>>
    /\ Observe

\* Busy: sleep and try again until acquire_wait is over.
TryAgain(r) ==
    /\ pc[r] = "busy"
    /\ Goto(r, "lookup")
    /\ UNCHANGED <<memory, sid, att, held, cand, list, best, tasks, disk, observers, events>>
    /\ Observe

AcquireTimeout(r) ==
    /\ pc[r] = "busy"
    /\ End(r)
    /\ UNCHANGED <<memory, tasks, disk, observers, events>>
    /\ Observe
----------------------------------------------------------------------------
(* One attempt of the retry loop in main.rs, and what it tells the pool *)

NextAttempt(r) ==
    IF att[r] + 1 < MaxRetries
    THEN /\ att' = [att EXCEPT ![r] = @ + 1]
         /\ Goto(r, "lookup")
         /\ UNCHANGED <<sid, held, cand, list, best>>
    ELSE End(r)

SameAccountAgain(r) ==
    IF att[r] + 1 < MaxRetries
    THEN /\ att' = [att EXCEPT ![r] = @ + 1]
         /\ UNCHANGED <<pc, sid, held, cand, list, best>>
    ELSE End(r)

\* release(a, failed = true): count the error, then cool the slot down.  Both
\* look the account up again, so a removed one is left alone.
ReleaseFailed(a) ==
    IF a \in present
    THEN errs' = Bump(a) /\ cooling' = cooling \cup {Cur(a)}
    ELSE UNCHANGED <<errs, cooling>>

\* record_success and release(a, failed = false)
Succeed(r) ==
    /\ pc[r] = "run"
    /\ errs' = [errs EXCEPT ![Account(r)] = 0]
    /\ End(r)
    /\ UNCHANGED <<present, gen, ver, cooling, disabled, quotaOut, until, ineligible,
                   sess, snap, tasks, disk, observers, events>>
    /\ Observe

\* The request content was rejected, or the client went away: the pool is not told.
EndUnreported(r) ==
    /\ pc[r] = "run"
    /\ End(r)
    /\ UNCHANGED <<memory, tasks, disk, observers, events>>
    /\ Observe

\* Hang, translation error or empty answer after the upstream accepted.
FailLate(r) ==
    /\ pc[r] = "run" /\ Event
    /\ ReleaseFailed(Account(r))
    /\ End(r)
    /\ UNCHANGED <<present, gen, ver, disabled, quotaOut, until, ineligible,
                   sess, snap, tasks, disk, observers>>
    /\ Observe

\* Max mode rejected: same account, no penalty.  Egress proxy missing: another
\* account, no penalty.
RetryUnpunished(r) ==
    /\ pc[r] = "run" /\ Event
    /\ SameAccountAgain(r) \/ NextAttempt(r)
    /\ UNCHANGED <<memory, tasks, disk, observers>>
    /\ Observe

\* Upstream overloaded: the session is unbound, the same account tried again.
Overloaded(r) ==
    /\ pc[r] = "run" /\ Event
    /\ sess' = IF sid[r] = NoSession THEN sess ELSE [sess EXCEPT ![sid[r]] = NoAccount]
    /\ SameAccountAgain(r)
    /\ UNCHANGED <<present, gen, ver, cooling, disabled, quotaOut, until, ineligible,
                   errs, snap, tasks, disk, observers>>
    /\ Observe

\* Any other upstream error: release, then should_auto_disable, which an
\* output-limit error skips.
UpstreamError(r) ==
    /\ pc[r] = "run" /\ Event
    /\ ReleaseFailed(Account(r))
    /\ \/ /\ Account(r) \in present /\ errs'[Account(r)] >= Threshold
          /\ Goto(r, "judged")
          /\ UNCHANGED <<sid, att, held, cand, list, best>>
       \/ NextAttempt(r)
    /\ UNCHANGED <<present, gen, ver, disabled, quotaOut, until, ineligible,
                   sess, snap, tasks, disk, observers>>
    /\ Observe

\* The first write of auto_disable; an account that has left is skipped.
AutoFlag(r) ==
    LET a == Account(r) IN
    /\ pc[r] = "judged"
    /\ \/ /\ a \in present
          /\ disabled' = disabled \cup {a}
          /\ Goto(r, "auto")
          /\ UNCHANGED <<sid, att, held, cand, list, best>>
       \/ /\ a \notin present
          /\ NextAttempt(r)
          /\ UNCHANGED disabled
    /\ UNCHANGED <<present, gen, ver, cooling, quotaOut, until, ineligible, errs,
                   sess, snap, tasks, disk, observers, events>>
    /\ Observe

\* auto_disable as it was before quarantines: closed until somebody toggles it.
AutoDisableForever(r) ==
    LET a == Account(r) IN
    /\ pc[r] = "auto"
    /\ errs' = [errs EXCEPT ![a] = 0]
    /\ autoClosed' = autoClosed \cup {a}
    /\ sess' = Unbind(a)
    /\ snap' = SlotsOf(present, gen)
    /\ NextAttempt(r)
    /\ UNCHANGED <<present, gen, ver, cooling, disabled, quotaOut, until, ineligible,
                   tasks, disk, adminOff, churned, events>>
    /\ Observe

\* The rest of auto_disable: counters, quarantine record, bindings, rebuild.
AutoDisable(r) ==
    LET a == Account(r) IN
    /\ pc[r] = "auto"
    /\ errs' = [errs EXCEPT ![a] = 0]
    /\ until' = [until EXCEPT ![a] = "running"]
    /\ autoClosed' = autoClosed \cup {a}
    /\ sess' = Unbind(a)
    /\ snap' = SlotsOf(present, gen)
    /\ NextAttempt(r)
    /\ UNCHANGED <<present, gen, ver, cooling, disabled, quotaOut, ineligible,
                   tasks, disk, adminOff, churned, events>>
    /\ Observe

\* The account cannot use named models: release(failed), then the first write
\* of mark_ineligible.  "mark" means this call flipped the flag: only then is
\* accounts.json written afterwards.
Ineligible(r) ==
    LET a == Account(r) IN
    /\ pc[r] = "run" /\ Event
    /\ ReleaseFailed(a)
    /\ IF a \in present
       THEN /\ disabled' = disabled \cup {a}
            /\ Goto(r, IF a \in disabled THEN "remark" ELSE "mark")
            /\ UNCHANGED <<sid, att, held, cand, list, best>>
       ELSE NextAttempt(r) /\ UNCHANGED disabled
    /\ UNCHANGED <<present, gen, ver, quotaOut, until, ineligible, sess, snap,
                   tasks, disk, observers>>
    /\ Observe

MarkIneligible(r) ==
    LET a == Account(r) IN
    /\ pc[r] \in {"mark", "remark"}
    /\ until' = [until EXCEPT ![a] = "none"]
    /\ ineligible' = ineligible \cup {a}
    /\ errs' = [errs EXCEPT ![a] = 0]
    /\ autoClosed' = autoClosed \ {a}
    /\ sess' = Unbind(a)
    /\ snap' = SlotsOf(present, gen)
    /\ IF pc[r] = "mark"
       THEN Goto(r, "persist") /\ UNCHANGED <<sid, att, held, cand, list, best>>
       ELSE NextAttempt(r)
    /\ UNCHANGED <<present, gen, ver, cooling, disabled, quotaOut,
                   tasks, disk, adminOff, churned, events>>
    /\ Observe

\* persist_account_enabled(a, false), which may fail.
PersistIneligible(r) ==
    /\ pc[r] = "persist"
    /\ diskOn' \in {diskOn, diskOn \ {Account(r)}}
    /\ NextAttempt(r)
    /\ UNCHANGED <<memory, tasks, diskHas, diskVer, saved, observers, events>>
    /\ Observe
----------------------------------------------------------------------------
(* Time, the reaper and the quota probe *)

CooldownEnds(slot) ==
    /\ slot \in cooling
    /\ cooling' = cooling \ {slot}
    /\ UNCHANGED <<present, gen, ver, disabled, quotaOut, until, ineligible, errs, sess,
                   snap, requests, tasks, disk, observers, events>>
    /\ Observe

QuarantineEnds(a) ==
    /\ until[a] = "running"
    /\ until' = [until EXCEPT ![a] = "due"]
    /\ UNCHANGED <<present, gen, ver, cooling, disabled, quotaOut, ineligible, errs, sess,
                   snap, requests, tasks, disk, observers, events>>
    /\ Observe

\* A binding's TTL ran out: removed by gc_sessions or by the next lookup.
BindingExpires(s) ==
    /\ sess[s] # NoAccount
    /\ sess' = [sess EXCEPT ![s] = NoAccount]
    /\ UNCHANGED <<present, gen, ver, cooling, disabled, quotaOut, until, ineligible,
                   errs, snap, requests, tasks, disk, observers, events>>
    /\ Observe

\* reap_auto_disabled collects the due ids first ...
ReapCollect ==
    /\ due = {} /\ cur = NoAccount
    /\ due' = {a \in Accounts : until[a] = "due"}
    /\ due' # {}
    /\ UNCHANGED <<memory, requests, adm, cur, disk, observers, events>>
    /\ Observe

\* ... then, for each of them, drops its record ...
ReapDrop(a) ==
    /\ cur = NoAccount /\ a \in due
    /\ until' = [until EXCEPT ![a] = "none"]
    /\ cur' = a
    /\ due' = due \ {a}
    /\ UNCHANGED <<present, gen, ver, cooling, disabled, quotaOut, ineligible, errs, sess,
                   snap, requests, adm, disk, observers, events>>
    /\ Observe

\* The record dropped and the account left closed.
ReapEnableMissed ==
    /\ cur # NoAccount
    /\ cur' = NoAccount
    /\ UNCHANGED <<memory, requests, adm, due, disk, observers, events>>
    /\ Observe

\* ... and opens the account, if it is still there and still closed.
ReapEnable ==
    /\ cur # NoAccount
    /\ disabled' = disabled \ {cur}
    /\ cur' = NoAccount
    /\ autoClosed' = autoClosed \ {cur}
    /\ snap' = IF cur \in disabled THEN SlotsOf(present, gen) ELSE snap
    /\ UNCHANGED <<present, gen, ver, cooling, quotaOut, until, ineligible, errs, sess,
                   requests, adm, due, disk, adminOff, churned, events>>
    /\ Observe

\* A quota refresh of any account: set_quota with a fresh snapshot.
SetQuota(a) ==
    /\ Event
    /\ quotaOut' \in {quotaOut \cup {a}, quotaOut \ {a}}
    /\ UNCHANGED <<present, gen, ver, cooling, disabled, until, ineligible, errs, sess,
                   snap, requests, tasks, disk, observers>>
    /\ Observe

\* The probe of a cooling or exhausted account: available again, exhausted, or
\* failed (old snapshot kept, one more error, longer cooldown).
Probe(a) ==
    /\ Event
    /\ a \in present
    /\ Cur(a) \in cooling \/ a \in quotaOut
    /\ \/ /\ quotaOut' = quotaOut \ {a}
          /\ cooling' = cooling \ {Cur(a)}
          /\ UNCHANGED errs
       \/ /\ quotaOut' = quotaOut \cup {a}
          /\ UNCHANGED <<cooling, errs>>
       \/ /\ ReleaseFailed(a)
          /\ UNCHANGED quotaOut
    /\ UNCHANGED <<present, gen, ver, disabled, until, ineligible, sess, snap,
                   requests, tasks, disk, observers>>
    /\ Observe
----------------------------------------------------------------------------
(* Admin handlers *)

Flag(a, on) == disabled' = IF on THEN disabled \ {a} ELSE disabled \cup {a}

\* set_enabled(a, on) or toggle_account(a): the flag first ...
AdminFlag(a, on) ==
    /\ Event
    /\ adm.pc = "idle" /\ a \in present
    /\ Flag(a, on)
    /\ adm' = [pc |-> "clear", a |-> a, on |-> on, rb |-> FALSE]
    /\ adminOff' = adminOff \ {a}
    /\ UNCHANGED <<present, gen, ver, cooling, quotaOut, until, ineligible, errs, sess,
                   snap, requests, due, cur, disk, autoClosed, churned>>
    /\ Observe

\* ... then the quarantine record, by then possibly one of an auto_disable that
\* came in between, and, when enabling, the ineligibility.
AdminClear ==
    /\ adm.pc = "clear"
    /\ until' = [until EXCEPT ![adm.a] = "none"]
    /\ ineligible' = IF adm.on THEN ineligible \ {adm.a} ELSE ineligible
    /\ autoClosed' = IF adm.on \/ adm.rb THEN autoClosed ELSE autoClosed \ {adm.a}
    /\ adminOff' = IF adm.on \/ adm.rb \/ adm.a \notin disabled
                   THEN adminOff ELSE adminOff \cup {adm.a}
    /\ adm' = [adm EXCEPT !.pc = IF adm.rb THEN "idle" ELSE "persist"]
    /\ UNCHANGED <<present, gen, ver, cooling, disabled, quotaOut, errs, sess, snap,
                   requests, due, cur, disk, churned, events>>
    /\ Observe

\* persist_account_enabled succeeds and the list is rebuilt; the batch handler
\* neither persists nor rebuilds.
AdminPersist ==
    /\ adm.pc = "persist"
    /\ \/ /\ adm.a \in diskHas
          /\ diskOn' = IF adm.on THEN diskOn \cup {adm.a} ELSE diskOn \ {adm.a}
          /\ snap' = SlotsOf(present, gen)
       \/ UNCHANGED <<diskOn, snap>>
    /\ adm' = [adm EXCEPT !.pc = "idle"]
    /\ autoClosed' = IF adm.on /\ adm.a \notin disabled THEN autoClosed \ {adm.a}
                     ELSE autoClosed
    /\ UNCHANGED <<present, gen, ver, cooling, disabled, quotaOut, until, ineligible,
                   errs, sess, requests, due, cur, diskHas, diskVer, saved,
                   adminOff, churned, events>>
    /\ Observe

\* It fails: set_enabled(a, !on) undoes the memory.
AdminRollback ==
    /\ adm.pc = "persist"
    /\ \/ /\ adm.a \in present
          /\ Flag(adm.a, ~adm.on)
          /\ adm' = [pc |-> "clear", a |-> adm.a, on |-> ~adm.on, rb |-> TRUE]
       \/ /\ adm.a \notin present
          /\ adm' = [adm EXCEPT !.pc = "idle"]
          /\ UNCHANGED disabled
    /\ adminOff' = adminOff \ {adm.a}
    /\ UNCHANGED <<present, gen, ver, cooling, quotaOut, until, ineligible, errs, sess,
                   snap, requests, due, cur, disk, autoClosed, churned, events>>
    /\ Observe

AdminClearCooldown(a) ==
    /\ Event
    /\ a \in present /\ Cur(a) \in cooling
    /\ cooling' = cooling \ {Cur(a)}
    /\ UNCHANGED <<present, gen, ver, disabled, quotaOut, until, ineligible, errs, sess,
                   snap, requests, tasks, disk, observers>>
    /\ Observe

\* Arc::get_mut succeeds only while nothing else refers to the slot object.
Unshared(a) ==
    /\ Cur(a) \notin snap
    /\ \A r \in Requests : cand[r] # Cur(a) /\ Cur(a) \notin list[r]

\* The semaphore rebuilt for every kept account, shared or not.
RenewedAlways == present \cap diskHas'

\* Kept accounts whose slot takes the new data and a new semaphore.
Renewed == {a \in present \cap diskHas' : Unshared(a)}

\* replace_accounts(accounts.json as just written)
ReplaceAccounts ==
    LET added == diskHas' \ present
        gone == present \ diskHas'
        fresh == added \cup Renewed
    IN  /\ \A a \in fresh : gen[a] < MaxGen
        /\ present' = diskHas'
        /\ gen' = [a \in Accounts |-> IF a \in fresh THEN gen[a] + 1 ELSE gen[a]]
        /\ ver' = [a \in Accounts |-> IF a \in fresh THEN diskVer'[a] ELSE ver[a]]
        /\ cooling' = cooling \cup {<<a, gen[a] + 1>> : a \in {x \in Renewed : Cur(x) \in cooling}}
        /\ disabled' = (disabled \ gone) \cup (added \ diskOn')
        /\ quotaOut' = quotaOut \ gone
        /\ errs' = [a \in Accounts |-> IF a \in gone THEN 0 ELSE errs[a]]
        /\ sess' = [s \in Sessions |-> IF sess[s] \in gone THEN NoAccount ELSE sess[s]]
        /\ snap' = SlotsOf(present', gen')
        /\ autoClosed' = autoClosed \ added
        /\ adminOff' = adminOff \ gone
        /\ churned' = churned \cup gone
        /\ UNCHANGED <<until, ineligible, requests, tasks, saved>>
        /\ Observe

\* api_account_upsert: accounts.json, then replace_accounts.
AdminUpsert(a, on) ==
    /\ Event
    /\ diskHas' = diskHas \cup {a}
    /\ diskOn' = IF on THEN diskOn \cup {a} ELSE diskOn \ {a}
    /\ diskVer' = [diskVer EXCEPT ![a] = events + 1]
    /\ ReplaceAccounts

AdminDelete(a) ==
    /\ Event
    /\ a \in diskHas
    /\ diskHas' = diskHas \ {a}
    /\ diskOn' = diskOn \ {a}
    /\ UNCHANGED diskVer
    /\ ReplaceAccounts
----------------------------------------------------------------------------
(* account-state.json and restarts *)

\* persist_runtime_state: quarantine records are not part of the file.
Persist ==
    /\ Event
    /\ saved' = [known |-> present, cool |-> {a \in present : Cur(a) \in cooling},
                 inel |-> present \cap ineligible, errs |-> errs]
    /\ UNCHANGED <<memory, requests, tasks, diskHas, diskOn, diskVer, observers>>
    /\ Observe

\* The process ends at any point and starts again: AccountPool::new from
\* accounts.json, then restore_runtime_state.
Restart ==
    /\ Event
    /\ present' = diskHas
    /\ gen' = [a \in Accounts |-> 0]
    /\ ver' = diskVer
    /\ disabled' = diskHas \ diskOn
    /\ cooling' = {<<a, 0>> : a \in saved.cool \cap diskHas}
    /\ errs' = [a \in Accounts |-> IF a \in saved.known \cap diskHas THEN saved.errs[a] ELSE 0]
    /\ ineligible' = saved.inel \cap (diskHas \ diskOn)
    /\ until' = [a \in Accounts |-> "none"]
    /\ sess' = [s \in Sessions |-> NoAccount]
    /\ snap' = IF saved.known \cap diskHas = {} THEN {} ELSE SlotsOf(present', gen')
    /\ pc' = [r \in Requests |-> "idle"]
    /\ sid' = [r \in Requests |-> NoSession]
    /\ att' = [r \in Requests |-> 0]
    /\ held' = [r \in Requests |-> NoSlot]
    /\ cand' = [r \in Requests |-> NoSlot]
    /\ list' = [r \in Requests |-> {}]
    /\ best' = [r \in Requests |-> 0]
    /\ adm' = [pc |-> "idle", a |-> NoAccount, on |-> FALSE, rb |-> FALSE]
    /\ due' = {}
    /\ cur' = NoAccount
    /\ autoClosed' = {}
    /\ adminOff' = adminOff \cap (diskHas \ diskOn)
    /\ churned' = {}
    /\ UNCHANGED <<quotaOut, disk>>
    /\ Observe
----------------------------------------------------------------------------
RequestStep(r) ==
    \/ \E s \in SessionIds : Begin(r, s)
    \/ Lookup(r) \/ StickyTake(r)
    \/ ReadDisabled(r) \/ ReadCooldown(r) \/ ReadQuota(r) \/ ReadPermits(r)
    \/ Load(r) \/ Take(r)
    \/ TryAgain(r) \/ AcquireTimeout(r)
    \/ Succeed(r) \/ EndUnreported(r) \/ FailLate(r)
    \/ RetryUnpunished(r) \/ Overloaded(r) \/ UpstreamError(r)
    \/ AutoFlag(r) \/ AutoDisable(r)
    \/ Ineligible(r) \/ MarkIneligible(r) \/ PersistIneligible(r)

AdminStep ==
    \/ \E a \in Accounts, on \in BOOLEAN : AdminFlag(a, on) \/ AdminUpsert(a, on)
    \/ \E a \in Accounts : AdminClearCooldown(a) \/ AdminDelete(a)
    \/ AdminClear \/ AdminPersist \/ AdminRollback

BackgroundStep ==
    \/ \E slot \in Slot : CooldownEnds(slot)
    \/ \E a \in Accounts : QuarantineEnds(a) \/ ReapDrop(a) \/ SetQuota(a) \/ Probe(a)
    \/ \E s \in Sessions : BindingExpires(s)
    \/ ReapCollect \/ ReapEnable
    \/ Persist \/ Restart

Next == (\E r \in Requests : RequestStep(r)) \/ AdminStep \/ BackgroundStep

Spec == Init /\ [][Next]_vars

\* The clock advances, the reaper's 30 s tick runs its loop to the end, and what
\* auto_disable and set_enabled do after the flag follows without an await.
Fairness ==
    /\ \A a \in Accounts : WF_vars(QuarantineEnds(a))
    /\ \A a \in Accounts : WF_vars(ReapDrop(a))
    /\ WF_vars(ReapCollect)
    /\ WF_vars(ReapEnable)
    /\ \A r \in Requests : WF_vars(AutoDisable(r))
    /\ WF_vars(AdminClear)

FairSpec == Spec /\ Fairness
----------------------------------------------------------------------------
(* Properties *)

Granted(r) == pc[r] \in {"take", "sticky"} /\ pc'[r] = "run"

(* A request is never given an account that was disabled at every moment of *)
(* the try, nor one that was cooling, nor one that was out of quota at every *)
(* moment of it: disabling an account, cooling it or exhausting it takes     *)
(* effect on the next try, whatever snapshot of available_slots the request  *)
(* works on and although slot_live_available reads the three one by one.     *)
NoGrantWhileShut ==
    [][\A r \in Requests : Granted(r) =>
          \A why \in Reasons : <<held'[r][1], why>> \notin shut[r]]_vars

(* A session whose account stayed bound, available and with a free permit  *)
(* during the whole try is given that account and no other.                *)
StickyHonoured ==
    [][\A r \in Requests :
          Granted(r) /\ firm[r] # NoAccount => held'[r][1] = firm[r]]_vars

InFlight(a) == {r \in Requests : held[r] # NoSlot /\ held[r][1] = a}

(* As long as an account is not taken out of the pool, no more requests    *)
(* run on it than max_concurrency, however often its record is edited      *)
(* (replace_accounts must not hand out a second semaphore while permits of *)
(* the first are out).                                                     *)
PermitBound ==
    \A a \in Accounts \ churned : Cardinality(InFlight(a)) <= MaxConcurrency

\* Some task has written the flag of a and has yet to write its record.
HalfDone(a) ==
    \/ \E r \in Requests : pc[r] \in {"auto", "mark", "remark"} /\ Account(r) = a
    \/ cur = a
    \/ adm.pc = "clear" /\ adm.a = a

(* An account that auto_disable closed has a date for its return, or a task  *)
(* that is about to write one or to open it, whatever the order of           *)
(* auto_disable, the reaper, the admin handlers and restarts: a quarantine   *)
(* never turns into a permanent shutdown, unless a set_enabled that was      *)
(* opening the account, or rolling an opening back, removed its record.      *)
NoStranded ==
    \A a \in (disabled \cap autoClosed) \ stray : until[a] # "none" \/ HalfDone(a)

(* auto_disable_quarantine's comment: an account in quarantine "always comes *)
(* back to be tried".  NoStranded without its exception.                     *)
AlwaysComesBack ==
    \A a \in disabled \cap autoClosed : until[a] # "none" \/ HalfDone(a)

\* What a task under way has in hand: a request past its grant owns a permit, one
\* about to take a permit has a slot, an admin handler has an account.
InHand ==
    /\ \A r \in Requests :
          /\ pc[r] \in RunPC => held[r] \in Slot
          /\ pc[r] \in SlotPC => cand[r] \in Slot
    /\ adm.pc # "idle" => adm.a \in Accounts

\* The inductive invariant of NoStranded.
PoolInv == TypeOK /\ InHand /\ NoStranded

(* An account closed by auto_disable is opened again, unless somebody else  *)
(* decides about it, it leaves the pool, or a set_enabled overlapped with    *)
(* auto_disable or was rolled back and removed its record.                   *)
QuarantineIsTemporary ==
    \A a \in Accounts :
        (a \in (disabled \cap autoClosed) \ stray)
            ~> (a \notin (disabled \cap autoClosed) \ stray)

(* set_enabled's comment: the operator has precedence, "the reaper does not *)
(* touch this account any more".  An account the operator switched off      *)
(* stays off until an operator switches it on.                              *)
OperatorHasPrecedence == adminOff \cap present \subseteq disabled

(* replace_accounts's comment: the existing account's information is        *)
(* updated.  The pool works with the account data accounts.json holds.      *)
EditsApplied == \A a \in present : ver[a] = diskVer[a]
====
