------------------------- MODULE AccountPoolProofs -------------------------
(***************************************************************************)
(* Proofs about AccountPool, for any number of accounts, requests and      *)
(* sessions and any bounds.                                                *)
(***************************************************************************)
EXTENDS AccountPool, FiniteSetTheorems, TLAPS

\* The observers take well-typed values from the rest of the next state.
LEMMA ObserveTyped ==
    ASSUME TypeOK, Observe, sess' \in [Sessions -> Accounts \cup {NoAccount}],
           sid' \in [Requests -> Sessions \cup {NoSession}]
    PROVE  /\ shut' \in [Requests -> SUBSET (Accounts \X Reasons)]
           /\ firm' \in [Requests -> Accounts \cup {NoAccount}]
<1>1. \A r \in Requests : BoundReady(r)' \in Accounts \cup {NoAccount}
  BY DEF BoundReady, UsesSession
<1>2. shut' \in [Requests -> SUBSET (Accounts \X Reasons)]
  BY DEF Observe, TypeOK, ObserverTypeOK
<1>3. firm' \in [Requests -> Accounts \cup {NoAccount}]
  BY <1>1 DEF Observe, TypeOK, ObserverTypeOK
<1> QED BY <1>2, <1>3

\* Slots of present accounts are slots.
LEMMA SlotsOfTyped ==
    ASSUME NEW P \in SUBSET Accounts, NEW g \in [Accounts -> Gens]
    PROVE  SlotsOf(P, g) \subseteq Slot
BY DEF SlotsOf, Slot

\* NoSlot is not a slot.
LEMMA NoSlotIsNone == NoSlot \notin Slot
BY PoolAssumption DEF Slot, NoSlot

\* A slot belongs to an account.
LEMMA SlotAccount == \A x \in Slot : x[1] \in Accounts
BY DEF Slot

\* The pool starts with its types.
LEMMA InitTyped == Init => TypeOK /\ InHand
<1> SUFFICES ASSUME Init PROVE TypeOK /\ InHand OBVIOUS
<1> USE PoolAssumption DEF Init
<1>1. MemoryTypeOK
  BY DEF MemoryTypeOK, Gens
<1>2. RequestTypeOK
  BY DEF RequestTypeOK, TryPC, RunPC
<1>3. TaskTypeOK
  BY DEF TaskTypeOK, AdminPC
<1>4. DiskTypeOK
  BY DEF DiskTypeOK, Saved
<1>5. ObserverTypeOK
  BY DEF ObserverTypeOK
<1>6. InHand
  BY DEF InHand, RunPC, SlotPC
<1> QED BY <1>1, <1>2, <1>3, <1>4, <1>5, <1>6 DEF TypeOK

\* All of the state but the two observers that Observe assigns.
CoreOK ==
    /\ MemoryTypeOK /\ RequestTypeOK /\ TaskTypeOK /\ DiskTypeOK
    /\ autoClosed \subseteq Accounts
    /\ adminOff \subseteq Accounts
    /\ churned \subseteq Accounts
    /\ events \in 0..MaxEvents
    /\ InHand

\* The observers take their types from the rest of the state.
LEMMA CoreEnough ==
    ASSUME TypeOK, Observe, CoreOK'
    PROVE  TypeOK' /\ InHand'
<1>1. stray' \subseteq Accounts
  BY DEF Observe, CoreOK
<1> QED BY <1>1, ObserveTyped DEF CoreOK, TypeOK, MemoryTypeOK, RequestTypeOK, ObserverTypeOK

\* Checking a slot keeps the request's state well typed and in hand.
LEMMA CheckTyped ==
    ASSUME TypeOK, InHand, NEW r \in Requests, NEW slot \in Slot, UNCHANGED adm
    PROVE  /\ PassOver(r, slot) /\ UNCHANGED <<sid, att, held>> => RequestTypeOK' /\ InHand'
           /\ \A passes \in BOOLEAN : \A label \in SlotPC :
                Check(r, slot, passes, label) => CoreOK'
<1> USE PoolAssumption, NoSlotIsNone
    DEF TypeOK, RequestTypeOK, InHand, Goto, TryPC, SlotPC, RunPC
<1>1. PassOver(r, slot) /\ UNCHANGED <<sid, att, held>> => RequestTypeOK' /\ InHand'
  <2> SUFFICES ASSUME PassOver(r, slot), UNCHANGED <<sid, att, held>>
               PROVE  RequestTypeOK' /\ InHand'
    OBVIOUS
  <2>1. PICK l \in {"pick", "load", "busy"} : pc' = [pc EXCEPT ![r] = l]
    BY DEF PassOver
  <2>2. cand' = [cand EXCEPT ![r] = NoSlot] /\ list' = [list EXCEPT ![r] = list[r] \ {slot}]
    BY DEF PassOver
  <2>3. best' \in [Requests -> 0..MaxConcurrency]
    BY DEF PassOver
  <2> QED BY <2>1, <2>2, <2>3
<1>2. ASSUME NEW passes \in BOOLEAN, NEW label \in SlotPC, Check(r, slot, passes, label)
      PROVE  CoreOK'
  <2>1. UNCHANGED <<memory, sid, att, held, tasks, disk, observers, events>>
    BY <1>2 DEF Check
  <2>2. RequestTypeOK' /\ InHand'
    <3>1. CASE PassOver(r, slot)
      BY <1>1, <2>1, <3>1
    <3>2. CASE /\ Goto(r, label) /\ cand' = [cand EXCEPT ![r] = slot]
               /\ UNCHANGED <<list, best>>
      BY <2>1, <3>2
    <3> QED BY <1>2, <3>1, <3>2 DEF Check
  <2>3. MemoryTypeOK' /\ TaskTypeOK' /\ DiskTypeOK'
    BY <2>1 DEF memory, tasks, disk, MemoryTypeOK, TaskTypeOK, DiskTypeOK
  <2> QED BY <2>1, <2>2, <2>3 DEF CoreOK, observers, ObserverTypeOK
<1> QED BY <1>1, <1>2

\* Steps of a request before it has a permit.
LEMMA SelectTyped ==
    ASSUME TypeOK, InHand, NEW r \in Requests
    PROVE  /\ \A s \in SessionIds : Begin(r, s) => CoreOK'
           /\ Lookup(r) => CoreOK'
           /\ StickyTake(r) => CoreOK'
           /\ ReadDisabled(r) => CoreOK'
           /\ ReadCooldown(r) => CoreOK'
           /\ ReadQuota(r) => CoreOK'
           /\ ReadPermits(r) => CoreOK'
           /\ Load(r) => CoreOK'
           /\ Take(r) => CoreOK'
           /\ TryAgain(r) => CoreOK'
           /\ AcquireTimeout(r) => CoreOK'
<1>c. /\ pc[r] \in SlotPC => cand[r] \in Slot
      /\ list[r] \subseteq Slot
  BY DEF InHand, TypeOK, RequestTypeOK
<1>d. \A q : q \in {"on", "cool", "quota", "free", "sticky", "take"} <=> q \in SlotPC
  BY DEF SlotPC
<1>5. ReadDisabled(r) \/ ReadCooldown(r) \/ ReadQuota(r) \/ ReadPermits(r) => CoreOK'
  <2>1. \A slot, passes, label : Check(r, slot, passes, label) => UNCHANGED adm
    BY DEF Check, tasks
  <2>2. ASSUME ReadDisabled(r) PROVE CoreOK'
    <3>1. PICK slot \in (IF pc[r] = "on" THEN {cand[r]} ELSE list[r]) :
             Check(r, slot, slot[1] \notin disabled, "cool")
      BY <2>2 DEF ReadDisabled
    <3>2. slot \in Slot
      BY <1>c, <1>d, <3>1
    <3> QED BY <1>d, <2>1, <3>1, <3>2, CheckTyped
  <2>3. ASSUME ReadCooldown(r) PROVE CoreOK'
    BY <1>c, <1>d, <2>1, <2>3, CheckTyped DEF ReadCooldown
  <2>4. ASSUME ReadQuota(r) PROVE CoreOK'
    <3>1. PICK label \in {"sticky", "free"} : Check(r, cand[r], cand[r][1] \notin quotaOut, label)
      BY <2>4 DEF ReadQuota
    <3> QED BY <1>c, <1>d, <2>1, <2>4, <3>1, CheckTyped DEF ReadQuota
  <2>5. ASSUME ReadPermits(r) PROVE CoreOK'
    BY <1>c, <1>d, <2>1, <2>5, CheckTyped DEF ReadPermits
  <2> QED BY <2>2, <2>3, <2>4, <2>5
<1> USE PoolAssumption, NoSlotIsNone, SlotsOfTyped
    DEF TypeOK, CoreOK, MemoryTypeOK, RequestTypeOK, TaskTypeOK, DiskTypeOK, ObserverTypeOK,
        InHand, memory, requests, tasks, disk, observers, Goto, Event, End, Grant, Cur, TryPC,
        SlotPC, RunPC
<1>1. \A s \in SessionIds : Begin(r, s) => CoreOK'
  BY DEF Begin
<1>2. Lookup(r) => CoreOK'
  <2> SUFFICES ASSUME Lookup(r) PROVE CoreOK'
    OBVIOUS
  <2>1. sess' \in [Sessions -> Accounts \cup {NoAccount}]
    BY DEF Lookup
  <2>2. RequestTypeOK' /\ InHand'
    <3>1. CASE Goto(r, "load") /\ UNCHANGED cand
      BY <3>1 DEF Lookup
    <3>2. ASSUME NEW a \in Accounts, Goto(r, "on"), cand' = [cand EXCEPT ![r] = Cur(a)]
          PROVE  RequestTypeOK' /\ InHand'
      <4>1. Cur(a) \in Slot
        BY DEF Slot
      <4> QED BY <3>2, <4>1 DEF Lookup
    <3> QED BY <3>1, <3>2 DEF Lookup
  <2> QED BY <2>1, <2>2 DEF Lookup
<1>3. StickyTake(r) => CoreOK'
  <2> SUFFICES ASSUME StickyTake(r) PROVE CoreOK'
    OBVIOUS
  <2>0. cand[r] \in Slot
    BY DEF StickyTake
  <2>1. RequestTypeOK' /\ InHand'
    <3>1. CASE Grant(r, cand[r])
      BY <2>0, <3>1 DEF StickyTake
    <3>2. CASE PassOver(r, cand[r]) /\ UNCHANGED held
      BY <2>0, <3>2, CheckTyped DEF StickyTake
    <3> QED BY <3>1, <3>2 DEF StickyTake
  <2> QED BY <2>1 DEF StickyTake
<1>4. Load(r) => CoreOK'
  <2> SUFFICES ASSUME Load(r) PROVE CoreOK'
    OBVIOUS
  <2>1. snap' \subseteq Slot
    BY DEF Load
  <2>2. RequestTypeOK' /\ InHand'
    <3>1. CASE End(r)
      BY <3>1 DEF Load
    <3>2. CASE Goto(r, "busy") /\ UNCHANGED <<sid, att, held, cand, list, best>>
      BY <3>2 DEF Load
    <3>3. ASSUME NEW top \in 1..MaxConcurrency,
                 Goto(r, "pick"),
                 list' = [list EXCEPT ![r] = snap'],
                 best' = [best EXCEPT ![r] = top],
                 UNCHANGED <<sid, att, held, cand>>
          PROVE  RequestTypeOK' /\ InHand'
      BY <2>1, <3>3 DEF Load
    <3> QED BY <3>1, <3>2, <3>3 DEF Load
  <2> QED BY <2>1, <2>2 DEF Load
<1>6. Take(r) => CoreOK'
  <2> SUFFICES ASSUME Take(r) PROVE CoreOK'
    OBVIOUS
  <2>0. cand[r] \in Slot /\ cand[r][1] \in Accounts
    BY SlotAccount DEF Take
  <2>1. sess' \in [Sessions -> Accounts \cup {NoAccount}]
    BY <2>0 DEF Take, UsesSession
  <2>2. RequestTypeOK' /\ InHand'
    <3>1. CASE Grant(r, cand[r])
      BY <2>0, <3>1 DEF Take
    <3>2. CASE PassOver(r, cand[r]) /\ UNCHANGED held
      BY <2>0, <3>2, CheckTyped DEF Take
    <3> QED BY <3>1, <3>2 DEF Take
  <2> QED BY <2>1, <2>2 DEF Take
<1>7. TryAgain(r) => CoreOK'
  BY DEF TryAgain
<1>8. AcquireTimeout(r) => CoreOK'
  BY DEF AcquireTimeout
<1> QED BY <1>1, <1>2, <1>3, <1>4, <1>5, <1>6, <1>7, <1>8

\* Ending an attempt keeps the request's state well typed and in hand.
LEMMA AttemptTyped ==
    ASSUME TypeOK, InHand, NEW r \in Requests, UNCHANGED adm, pc[r] \in RunPC
    PROVE  /\ NextAttempt(r) => RequestTypeOK' /\ InHand'
           /\ SameAccountAgain(r) => RequestTypeOK' /\ InHand'
           /\ End(r) => RequestTypeOK' /\ InHand'
<1> USE PoolAssumption, NoSlotIsNone
    DEF TypeOK, RequestTypeOK, InHand, Goto, End, TryPC, SlotPC, RunPC
<1>1. NextAttempt(r) => RequestTypeOK' /\ InHand'
  BY DEF NextAttempt
<1>2. SameAccountAgain(r) => RequestTypeOK' /\ InHand'
  BY DEF SameAccountAgain
<1>3. End(r) => RequestTypeOK' /\ InHand'
  OBVIOUS
<1> QED BY <1>1, <1>2, <1>3

\* release(failed) keeps counters and cooldowns well typed.
LEMMA ReleaseTyped ==
    ASSUME TypeOK, NEW a, ReleaseFailed(a)
    PROVE  /\ errs' \in [Accounts -> 0..Threshold]
           /\ cooling' \subseteq Slot
BY PoolAssumption DEF TypeOK, MemoryTypeOK, ReleaseFailed, Bump, Cur, Slot

\* Steps of a request that owns a permit.
LEMMA AttemptStepTyped ==
    ASSUME TypeOK, InHand, NEW r \in Requests
    PROVE  /\ Succeed(r) => CoreOK'
           /\ EndUnreported(r) => CoreOK'
           /\ FailLate(r) => CoreOK'
           /\ RetryUnpunished(r) => CoreOK'
           /\ Overloaded(r) => CoreOK'
           /\ UpstreamError(r) => CoreOK'
           /\ AutoFlag(r) => CoreOK'
           /\ AutoDisable(r) => CoreOK'
           /\ Ineligible(r) => CoreOK'
           /\ MarkIneligible(r) => CoreOK'
           /\ PersistIneligible(r) => CoreOK'
<1> USE PoolAssumption
    DEF TypeOK, CoreOK, MemoryTypeOK, TaskTypeOK, DiskTypeOK, ObserverTypeOK,
        memory, requests, tasks, disk, observers, Event
<1>0. pc[r] \in RunPC => Account(r) \in Accounts
  BY SlotAccount DEF InHand, Account
<1>r. pc[r] \in {"run", "judged", "auto", "mark", "remark", "persist"} => pc[r] \in RunPC
  BY DEF RunPC
<1>1. Succeed(r) => CoreOK'
  BY <1>0, <1>r, AttemptTyped DEF Succeed
<1>2. EndUnreported(r) => CoreOK'
  BY <1>0, <1>r, AttemptTyped DEF EndUnreported
<1>3. FailLate(r) => CoreOK'
  BY <1>0, <1>r, AttemptTyped, ReleaseTyped DEF FailLate
<1>4. RetryUnpunished(r) => CoreOK'
  BY <1>0, <1>r, AttemptTyped DEF RetryUnpunished
<1>5. Overloaded(r) => CoreOK'
  <2>1. Overloaded(r) => sess' \in [Sessions -> Accounts \cup {NoAccount}]
    BY DEF Overloaded, RequestTypeOK
  <2> QED BY <1>r, <2>1, AttemptTyped DEF Overloaded
<1>6. UpstreamError(r) => CoreOK'
  <2> SUFFICES ASSUME UpstreamError(r) PROVE CoreOK'
    OBVIOUS
  <2>1. pc[r] \in RunPC /\ UNCHANGED adm
    BY DEF UpstreamError, RunPC
  <2>2. RequestTypeOK' /\ InHand'
    <3>1. CASE NextAttempt(r)
      BY <2>1, <3>1, AttemptTyped
    <3>2. CASE ~NextAttempt(r)
      BY <2>1, <3>2 DEF UpstreamError, RequestTypeOK, InHand, Goto, RunPC, SlotPC
    <3> QED BY <3>1, <3>2
  <2> QED BY <1>0, <2>1, <2>2, ReleaseTyped DEF UpstreamError
<1>7. AutoFlag(r) => CoreOK'
  <2> SUFFICES ASSUME AutoFlag(r) PROVE CoreOK'
    OBVIOUS
  <2>1. pc[r] \in RunPC /\ UNCHANGED adm
    BY DEF AutoFlag, RunPC
  <2>2. RequestTypeOK' /\ InHand'
    <3>1. CASE NextAttempt(r)
      BY <2>1, <3>1, AttemptTyped
    <3>2. CASE ~NextAttempt(r)
      BY <2>1, <3>2 DEF AutoFlag, RequestTypeOK, InHand, Goto, RunPC, SlotPC
    <3> QED BY <3>1, <3>2
  <2> QED BY <1>0, <2>1, <2>2 DEF AutoFlag
<1>8. AutoDisable(r) => CoreOK'
  BY <1>0, <1>r, AttemptTyped, SlotsOfTyped DEF AutoDisable, Unbind
<1>9. Ineligible(r) => CoreOK'
  <2> SUFFICES ASSUME Ineligible(r) PROVE CoreOK'
    OBVIOUS
  <2>1. pc[r] \in RunPC /\ UNCHANGED adm
    BY DEF Ineligible, RunPC
  <2>2. RequestTypeOK' /\ InHand'
    <3>1. CASE NextAttempt(r)
      BY <2>1, <3>1, AttemptTyped
    <3>2. CASE ~NextAttempt(r)
      BY <2>1, <3>2 DEF Ineligible, RequestTypeOK, InHand, Goto, RunPC, SlotPC
    <3> QED BY <3>1, <3>2
  <2> QED BY <1>0, <2>1, <2>2, ReleaseTyped DEF Ineligible
<1>10. MarkIneligible(r) => CoreOK'
  <2> SUFFICES ASSUME MarkIneligible(r) PROVE CoreOK'
    OBVIOUS
  <2>1. pc[r] \in RunPC /\ UNCHANGED adm
    BY DEF MarkIneligible, RunPC
  <2>2. RequestTypeOK' /\ InHand'
    <3>1. CASE NextAttempt(r)
      BY <2>1, <3>1, AttemptTyped
    <3>2. CASE ~NextAttempt(r)
      BY <2>1, <3>2 DEF MarkIneligible, RequestTypeOK, InHand, Goto, RunPC, SlotPC
    <3> QED BY <3>1, <3>2
  <2> QED BY <1>0, <2>1, <2>2, SlotsOfTyped DEF MarkIneligible, Unbind
<1>11. PersistIneligible(r) => CoreOK'
  BY <1>0, <1>r, AttemptTyped DEF PersistIneligible
<1> QED BY <1>1, <1>2, <1>3, <1>4, <1>5, <1>6, <1>7, <1>8, <1>9, <1>10, <1>11

\* replace_accounts keeps the pool well typed.
LEMMA ReplaceTyped ==
    ASSUME TypeOK, InHand, ReplaceAccounts,
           diskHas' \subseteq Accounts, diskOn' \subseteq Accounts,
           diskVer' \in [Accounts -> 0..MaxEvents], events' \in 0..MaxEvents
    PROVE  CoreOK'
<1> USE PoolAssumption
    DEF TypeOK, MemoryTypeOK, DiskTypeOK, ObserverTypeOK, Renewed
<1>1. gen' \in [Accounts -> Gens] /\ ver' \in [Accounts -> 0..MaxEvents]
  BY DEF ReplaceAccounts, Gens
<1>2. cooling' \subseteq Slot
  BY DEF ReplaceAccounts, Gens, Slot
<1>3. snap' \subseteq Slot
  BY <1>1, SlotsOfTyped DEF ReplaceAccounts
<1>4. errs' \in [Accounts -> 0..Threshold] /\ sess' \in [Sessions -> Accounts \cup {NoAccount}]
  BY DEF ReplaceAccounts
<1>5. /\ present' \subseteq Accounts /\ disabled' \subseteq present'
      /\ quotaOut' \subseteq Accounts
      /\ UNCHANGED <<until, ineligible>>
  BY DEF ReplaceAccounts
<1>6. MemoryTypeOK'
  BY <1>1, <1>2, <1>3, <1>4, <1>5
<1>7. RequestTypeOK' /\ TaskTypeOK' /\ InHand' /\ UNCHANGED saved
  BY DEF ReplaceAccounts, requests, tasks, RequestTypeOK, TaskTypeOK, InHand
<1>8. autoClosed' \subseteq Accounts /\ adminOff' \subseteq Accounts /\ churned' \subseteq Accounts
  BY DEF ReplaceAccounts
<1> QED BY <1>6, <1>7, <1>8 DEF CoreOK

\* Admin handlers.
LEMMA AdminTyped == TypeOK /\ InHand /\ AdminStep => CoreOK'
<1> SUFFICES ASSUME TypeOK, InHand, AdminStep PROVE CoreOK'
  OBVIOUS
<1> USE PoolAssumption, SlotsOfTyped
    DEF TypeOK, CoreOK, MemoryTypeOK, RequestTypeOK, TaskTypeOK, DiskTypeOK, ObserverTypeOK,
        InHand, memory, requests, tasks, disk, observers, Event, Flag, AdminPC
<1>1. ASSUME NEW a \in Accounts, NEW on \in BOOLEAN, AdminFlag(a, on) PROVE CoreOK'
  BY <1>1 DEF AdminFlag
<1>2. ASSUME NEW a \in Accounts, NEW on \in BOOLEAN, AdminUpsert(a, on) PROVE CoreOK'
  BY <1>2, ReplaceTyped DEF AdminUpsert
<1>3. ASSUME NEW a \in Accounts, AdminClearCooldown(a) PROVE CoreOK'
  BY <1>3 DEF AdminClearCooldown
<1>4. ASSUME NEW a \in Accounts, AdminDelete(a) PROVE CoreOK'
  BY <1>4, ReplaceTyped DEF AdminDelete
<1>5. CASE AdminClear
  BY <1>5 DEF AdminClear
<1>6. CASE AdminPersist
  <2>1. MemoryTypeOK'
    BY <1>6 DEF AdminPersist
  <2>2. DiskTypeOK'
    BY <1>6 DEF AdminPersist
  <2> QED BY <1>6, <2>1, <2>2 DEF AdminPersist
<1>7. CASE AdminRollback
  <2>1. adm' \in [pc : AdminPC, a : Accounts \cup {NoAccount}, on : BOOLEAN, rb : BOOLEAN]
        /\ adm'.a = adm.a
    <3>1. adm.a \in Accounts \cup {NoAccount} /\ adm.on \in BOOLEAN /\ adm.rb \in BOOLEAN
      OBVIOUS
    <3>2. (~adm.on) \in BOOLEAN
      OBVIOUS
    <3>3. CASE adm' = [pc |-> "clear", a |-> adm.a, on |-> ~adm.on, rb |-> TRUE]
      BY <3>1, <3>2, <3>3, Zenon
    <3>4. CASE adm' = [adm EXCEPT !.pc = "idle"]
      BY <3>4
    <3> QED BY <1>7, <3>3, <3>4 DEF AdminRollback
  <2>2. MemoryTypeOK'
    BY <1>7 DEF AdminRollback
  <2>3. TaskTypeOK' /\ InHand'
    BY <1>7, <2>1 DEF AdminRollback
  <2> QED BY <1>7, <2>2, <2>3 DEF AdminRollback
<1> QED BY <1>1, <1>2, <1>3, <1>4, <1>5, <1>6, <1>7 DEF AdminStep

\* The clock, the reaper, the probe, the save and the restart.
LEMMA BackgroundTyped == TypeOK /\ InHand /\ BackgroundStep => CoreOK'
<1> SUFFICES ASSUME TypeOK, InHand, BackgroundStep PROVE CoreOK'
  OBVIOUS
<1> USE PoolAssumption
    DEF TypeOK, CoreOK, MemoryTypeOK, RequestTypeOK, TaskTypeOK, DiskTypeOK, ObserverTypeOK,
        InHand, memory, requests, tasks, disk, observers, Event
<1>1. ASSUME NEW slot \in Slot, CooldownEnds(slot) PROVE CoreOK'
  BY <1>1 DEF CooldownEnds
<1>2. ASSUME NEW a \in Accounts, QuarantineEnds(a) PROVE CoreOK'
  BY <1>2 DEF QuarantineEnds
<1>3. ASSUME NEW a \in Accounts, ReapDrop(a) PROVE CoreOK'
  BY <1>3 DEF ReapDrop
<1>4. ASSUME NEW a \in Accounts, SetQuota(a) PROVE CoreOK'
  BY <1>4 DEF SetQuota
<1>5. ASSUME NEW a \in Accounts, Probe(a) PROVE CoreOK'
  BY <1>5, ReleaseTyped DEF Probe
<1>6. ASSUME NEW s \in Sessions, BindingExpires(s) PROVE CoreOK'
  BY <1>6 DEF BindingExpires
<1>7. CASE ReapCollect
  BY <1>7 DEF ReapCollect
<1>8. CASE ReapEnable
  BY <1>8, SlotsOfTyped DEF ReapEnable
<1>9. CASE Persist
  BY <1>9 DEF Persist, Saved
<1>10. CASE Restart
  <2>1. gen' \in [Accounts -> Gens] /\ cooling' \subseteq Slot
    BY <1>10 DEF Restart, Gens, Slot
  <2>2. snap' \subseteq Slot
    BY <1>10, <2>1, SlotsOfTyped DEF Restart
  <2>3. MemoryTypeOK'
    <3>1. errs' \in [Accounts -> 0..Threshold]
      <4>1. saved.errs \in [Accounts -> 0..Threshold]
        BY DEF Saved
      <4>2. errs' = [a \in Accounts |->
                      IF a \in saved.known \cap diskHas THEN saved.errs[a] ELSE 0]
        BY <1>10 DEF Restart
      <4> HIDE DEF TypeOK, CoreOK, MemoryTypeOK, RequestTypeOK, TaskTypeOK, DiskTypeOK
      <4> QED BY <4>1, <4>2
    <3>2. /\ present' \subseteq Accounts /\ disabled' \subseteq present'
          /\ quotaOut' \subseteq Accounts /\ ineligible' \subseteq Accounts
      BY <1>10 DEF Restart, Saved
    <3>3. /\ ver' \in [Accounts -> 0..MaxEvents]
          /\ until' \in [Accounts -> {"none", "running", "due"}]
          /\ sess' \in [Sessions -> Accounts \cup {NoAccount}]
      BY <1>10 DEF Restart
    <3> QED BY <2>1, <2>2, <3>1, <3>2, <3>3
  <2>4. RequestTypeOK' /\ TaskTypeOK' /\ InHand'
    BY <1>10 DEF Restart, TryPC, SlotPC, RunPC, AdminPC
  <2>5. DiskTypeOK'
    BY <1>10 DEF Restart
  <2>6. /\ autoClosed' \subseteq Accounts /\ adminOff' \subseteq Accounts
        /\ churned' \subseteq Accounts /\ events' \in 0..MaxEvents
    BY <1>10 DEF Restart
  <2> HIDE DEF TypeOK, MemoryTypeOK, RequestTypeOK, TaskTypeOK, DiskTypeOK, InHand
  <2> QED BY <2>3, <2>4, <2>5, <2>6
<1> QED BY <1>1, <1>2, <1>3, <1>4, <1>5, <1>6, <1>7, <1>8, <1>9, <1>10 DEF BackgroundStep

\* Every step ends with Observe.
LEMMA StepObserves == Next => Observe
<1>1. ASSUME NEW r \in Requests, RequestStep(r) PROVE Observe
  BY <1>1 DEF RequestStep, Begin, Lookup, StickyTake, ReadDisabled, ReadCooldown, ReadQuota,
       ReadPermits, Check, Load, Take, TryAgain,
       AcquireTimeout, Succeed, EndUnreported, FailLate, RetryUnpunished, Overloaded,
       UpstreamError, AutoFlag, AutoDisable, Ineligible, MarkIneligible, PersistIneligible
<1>2. AdminStep => Observe
  BY DEF AdminStep, AdminFlag, AdminUpsert, AdminClearCooldown, AdminDelete, AdminClear,
       AdminPersist, AdminRollback, ReplaceAccounts
<1>3. BackgroundStep => Observe
  BY DEF BackgroundStep, CooldownEnds, QuarantineEnds, ReapDrop, SetQuota, Probe,
       BindingExpires, ReapCollect, ReapEnable, Persist, Restart
<1> QED BY <1>1, <1>2, <1>3 DEF Next

\* Stuttering changes nothing.
LEMMA StutterTyped == TypeOK /\ InHand /\ UNCHANGED vars => TypeOK' /\ InHand'
BY DEF vars, memory, requests, tasks, disk, observers, TypeOK, MemoryTypeOK, RequestTypeOK,
       TaskTypeOK, DiskTypeOK, ObserverTypeOK, InHand

\* Every step keeps the types.
LEMMA StepTyped == TypeOK /\ InHand /\ [Next]_vars => TypeOK' /\ InHand'
<1> SUFFICES ASSUME TypeOK, InHand, [Next]_vars PROVE TypeOK' /\ InHand'
  OBVIOUS
<1>1. ASSUME NEW r \in Requests, RequestStep(r) PROVE CoreOK'
  BY <1>1, SelectTyped, AttemptStepTyped DEF RequestStep
<1>2. CASE Next
  BY <1>1, <1>2, AdminTyped, BackgroundTyped, StepObserves, CoreEnough DEF Next
<1> QED BY <1>2, StutterTyped

(* Whatever requests, administrators, the reaper, the probe and restarts do *)
(* in whatever order, the pool's state stays well formed; in particular a   *)
(* `disabled` flag never outlives its account's slot and a request makes    *)
(* at most MaxRetries attempts.                                             *)
THEOREM TypeCorrect == Spec => []TypeOK
<1>1. Init => TypeOK /\ InHand
  BY InitTyped
<1>2. TypeOK /\ InHand /\ [Next]_vars => TypeOK' /\ InHand'
  BY StepTyped
<1> QED BY <1>1, <1>2, PTL DEF Spec
----------------------------------------------------------------------------
(* No stranded account *)

\* An account stays stray while it is closed, auto_disable's and without a record.
LEMMA StrayKept ==
    Observe => \A a : /\ a \in disabled' \cap autoClosed' /\ a \notin stray'
                      /\ until'[a] = "none"
                      => a \notin stray /\ ~RecordDropped(a)
BY DEF Observe

\* A step of one request that is not between the two writes of a decision, and
\* that leaves flags, records and the other tasks alone.
LEMMA QuietRequest ==
    ASSUME NoStranded, Observe, NEW r \in Requests, pc[r] \notin {"auto", "mark", "remark"},
           UNCHANGED <<disabled, autoClosed, until, cur, adm>>,
           \A q \in Requests \ {r} : pc'[q] = pc[q] /\ held'[q] = held[q]
    PROVE  NoStranded'
BY StrayKept DEF NoStranded, HalfDone, Account

\* Every way an attempt ends touches the request's own state only.
LEMMA AttemptLocal ==
    ASSUME TypeOK, NEW r \in Requests, NEW q \in Requests \ {r}
    PROVE  /\ NextAttempt(r) => pc'[q] = pc[q] /\ held'[q] = held[q]
           /\ SameAccountAgain(r) => pc'[q] = pc[q] /\ held'[q] = held[q]
           /\ End(r) => pc'[q] = pc[q] /\ held'[q] = held[q]
BY DEF TypeOK, RequestTypeOK, NextAttempt, SameAccountAgain, End, Goto

\* A step of a request.
LEMMA RequestStranded ==
    ASSUME PoolInv, NEW r \in Requests, RequestStep(r)
    PROVE  NoStranded'
<1> USE DEF PoolInv, memory, tasks, observers
<1>0. TypeOK /\ NoStranded /\ InHand /\ Observe
  BY StepObserves DEF Next
<1>1. ASSUME NEW s \in SessionIds, Begin(r, s) PROVE NoStranded'
  BY <1>0, <1>1, QuietRequest DEF Begin, Goto, TypeOK, RequestTypeOK
<1>2. CASE Lookup(r)
  BY <1>0, <1>2, QuietRequest, AttemptLocal DEF Lookup, Goto, Grant, TypeOK, RequestTypeOK
<1>3. CASE StickyTake(r)
  BY <1>0, <1>3, QuietRequest, AttemptLocal DEF StickyTake, PassOver, Goto, Grant, TypeOK, RequestTypeOK
<1>4. CASE Load(r)
  BY <1>0, <1>4, QuietRequest, AttemptLocal DEF Load, Goto, Grant, TypeOK, RequestTypeOK
<1>5. CASE ReadDisabled(r) \/ ReadCooldown(r) \/ ReadQuota(r) \/ ReadPermits(r)
  <2>1. \A slot, passes, label : Check(r, slot, passes, label) =>
           /\ UNCHANGED <<disabled, autoClosed, until, cur, adm>>
           /\ \A q \in Requests \ {r} : pc'[q] = pc[q] /\ held'[q] = held[q]
    BY DEF Check, PassOver, Goto, TypeOK, RequestTypeOK
  <2> QED BY <1>0, <1>5, <2>1, QuietRequest DEF ReadDisabled, ReadCooldown, ReadQuota, ReadPermits
<1>6. CASE Take(r)
  BY <1>0, <1>6, QuietRequest, AttemptLocal DEF Take, PassOver, Goto, Grant, TypeOK, RequestTypeOK
<1>7. CASE TryAgain(r)
  BY <1>0, <1>7, QuietRequest, AttemptLocal DEF TryAgain, Goto, Grant, TypeOK, RequestTypeOK
<1>8. CASE AcquireTimeout(r)
  BY <1>0, <1>8, QuietRequest, AttemptLocal DEF AcquireTimeout, Goto, Grant, TypeOK, RequestTypeOK
<1>9. CASE Succeed(r)
  BY <1>0, <1>9, QuietRequest, AttemptLocal DEF Succeed
<1>10. CASE EndUnreported(r)
  BY <1>0, <1>10, QuietRequest, AttemptLocal DEF EndUnreported
<1>11. CASE FailLate(r)
  BY <1>0, <1>11, QuietRequest, AttemptLocal DEF FailLate
<1>12. CASE RetryUnpunished(r)
  BY <1>0, <1>12, QuietRequest, AttemptLocal DEF RetryUnpunished
<1>13. CASE Overloaded(r)
  BY <1>0, <1>13, QuietRequest, AttemptLocal DEF Overloaded
<1>14. CASE UpstreamError(r)
  BY <1>0, <1>14, QuietRequest, AttemptLocal DEF UpstreamError, Goto, TypeOK, RequestTypeOK
<1>15. CASE PersistIneligible(r)
  BY <1>0, <1>15, QuietRequest, AttemptLocal DEF PersistIneligible
<1>16. CASE AutoFlag(r)
  <2>1. CASE Account(r) \notin present
    BY <1>0, <1>16, <2>1, QuietRequest, AttemptLocal DEF AutoFlag
  <2>2. CASE Account(r) \in present
    <3>1. \A a : HalfDone(a) => HalfDone(a)'
      BY <1>16, <2>2 DEF AutoFlag, Goto, HalfDone, Account, TypeOK, RequestTypeOK
    <3>2. \A a : a = Account(r) => HalfDone(a)'
      BY <1>16, <2>2 DEF AutoFlag, Goto, HalfDone, Account, TypeOK, RequestTypeOK
    <3>3. disabled' = disabled \cup {Account(r)} /\ UNCHANGED <<autoClosed, until>>
      BY <1>16, <2>2 DEF AutoFlag
    <3> QED BY <1>0, <3>1, <3>2, <3>3, StrayKept DEF NoStranded
  <2> QED BY <2>1, <2>2
<1>17. CASE Ineligible(r)
  <2>1. CASE Account(r) \notin present
    BY <1>0, <1>17, <2>1, QuietRequest, AttemptLocal DEF Ineligible
  <2>2. CASE Account(r) \in present
    <3>1. \A a : HalfDone(a) => HalfDone(a)'
      BY <1>17, <2>2 DEF Ineligible, Goto, HalfDone, Account, TypeOK, RequestTypeOK
    <3>2. \A a : a = Account(r) => HalfDone(a)'
      BY <1>17, <2>2 DEF Ineligible, Goto, HalfDone, Account, TypeOK, RequestTypeOK
    <3>3. disabled' = disabled \cup {Account(r)} /\ UNCHANGED <<autoClosed, until>>
      BY <1>17, <2>2 DEF Ineligible
    <3> QED BY <1>0, <3>1, <3>2, <3>3, StrayKept DEF NoStranded
  <2> QED BY <2>1, <2>2
<1>18. CASE AutoDisable(r)
  <2>1. Account(r) \in Accounts
    BY <1>18, SlotAccount DEF AutoDisable, InHand, Account, RunPC
  <2>2. until'[Account(r)] # "none"
    BY <1>18, <2>1 DEF AutoDisable, TypeOK, MemoryTypeOK
  <2>3. \A q \in Requests \ {r} : pc'[q] = pc[q] /\ held'[q] = held[q]
    BY <1>18, AttemptLocal DEF AutoDisable, Goto, TypeOK, RequestTypeOK
  <2>4. \A a : a # Account(r) /\ HalfDone(a) => HalfDone(a)'
    BY <1>18, <2>3 DEF AutoDisable, HalfDone, Account
  <2>5. \A a \in Accounts : a # Account(r) => until'[a] = until[a]
    BY <1>18 DEF AutoDisable, TypeOK, MemoryTypeOK
  <2> QED BY <1>0, <1>18, StrayKept, <2>1, <2>2, <2>4, <2>5 DEF AutoDisable, NoStranded, TypeOK, ObserverTypeOK
<1>19. CASE MarkIneligible(r)
  <2>1. Account(r) \in Accounts
    BY <1>19, SlotAccount DEF MarkIneligible, InHand, Account, RunPC
  <2>2. Account(r) \notin autoClosed'
    BY <1>19, <2>1 DEF MarkIneligible, TypeOK, MemoryTypeOK
  <2>3. \A q \in Requests \ {r} : pc'[q] = pc[q] /\ held'[q] = held[q]
    BY <1>19, AttemptLocal DEF MarkIneligible, Goto, TypeOK, RequestTypeOK
  <2>4. \A a : a # Account(r) /\ HalfDone(a) => HalfDone(a)'
    BY <1>19, <2>3 DEF MarkIneligible, HalfDone, Account
  <2>5. \A a \in Accounts : a # Account(r) => until'[a] = until[a]
    BY <1>19 DEF MarkIneligible, TypeOK, MemoryTypeOK
  <2> QED BY <1>0, <1>19, StrayKept, <2>1, <2>2, <2>4, <2>5 DEF MarkIneligible, NoStranded, TypeOK, ObserverTypeOK
<1> QED BY <1>1, <1>2, <1>3, <1>4, <1>5, <1>6, <1>7, <1>8, <1>9, <1>10,
           <1>11, <1>12, <1>13, <1>14, <1>15, <1>16, <1>17, <1>18, <1>19
        DEF RequestStep

\* A step of an admin handler.
LEMMA AdminStranded == PoolInv /\ AdminStep => NoStranded'
<1> SUFFICES ASSUME PoolInv, AdminStep PROVE NoStranded'
  OBVIOUS
<1>0. \A a : a \in disabled' \cap autoClosed' /\ a \notin stray' /\ until'[a] = "none" =>
          a \notin stray /\ ~RecordDropped(a)
  BY StepObserves, StrayKept DEF Next
<1> USE <1>0 DEF PoolInv, memory, requests, tasks, observers, NoStranded, HalfDone, Account
<1>1. ASSUME NEW a \in Accounts, NEW on \in BOOLEAN, AdminFlag(a, on) PROVE NoStranded'
  BY <1>1 DEF AdminFlag, Flag
<1>2. ASSUME NEW a \in Accounts, NEW on \in BOOLEAN, AdminUpsert(a, on) PROVE NoStranded'
  BY <1>2 DEF AdminUpsert, ReplaceAccounts
<1>3. ASSUME NEW a \in Accounts, AdminClearCooldown(a) PROVE NoStranded'
  BY <1>3 DEF AdminClearCooldown
<1>4. ASSUME NEW a \in Accounts, AdminDelete(a) PROVE NoStranded'
  BY <1>4 DEF AdminDelete, ReplaceAccounts
<1>5. CASE AdminClear
  <2>1. adm'.pc # "clear" /\ adm.pc = "clear"
    BY <1>5 DEF AdminClear, TypeOK, TaskTypeOK
  <2>2. CASE adm.on \/ adm.rb
    <3>1. RecordDropped(adm.a) /\ UNCHANGED <<disabled, autoClosed, pc, held, cur>>
      BY <1>5, <2>1, <2>2 DEF AdminClear, RecordDropped
    <3>2. \A a \in Accounts : a # adm.a => until'[a] = until[a]
      BY <1>5 DEF AdminClear, TypeOK, MemoryTypeOK
    <3> QED BY <2>1, <3>1, <3>2 DEF TypeOK, ObserverTypeOK
  <2>3. CASE ~(adm.on \/ adm.rb)
    BY <1>5, <2>3 DEF AdminClear, TypeOK, MemoryTypeOK, ObserverTypeOK
  <2> QED BY <2>2, <2>3
<1>6. CASE AdminPersist
  BY <1>6 DEF AdminPersist
<1>7. CASE AdminRollback
  BY <1>7 DEF AdminRollback, Flag
<1> QED BY <1>1, <1>2, <1>3, <1>4, <1>5, <1>6, <1>7 DEF AdminStep

\* A step of the clock, the reaper, the probe, the save or a restart.
LEMMA BackgroundStranded == PoolInv /\ BackgroundStep => NoStranded'
<1> SUFFICES ASSUME PoolInv, BackgroundStep PROVE NoStranded'
  OBVIOUS
<1>0. \A a : a \in disabled' \cap autoClosed' /\ a \notin stray' /\ until'[a] = "none" =>
          a \notin stray /\ ~RecordDropped(a)
  BY StepObserves, StrayKept DEF Next
<1> USE <1>0 DEF PoolInv, memory, requests, tasks, observers, NoStranded, HalfDone, Account
<1>1. ASSUME NEW slot \in Slot, CooldownEnds(slot) PROVE NoStranded'
  BY <1>1 DEF CooldownEnds
<1>2. ASSUME NEW a \in Accounts, QuarantineEnds(a) PROVE NoStranded'
  BY <1>2 DEF QuarantineEnds, TypeOK, MemoryTypeOK, ObserverTypeOK
<1>3. ASSUME NEW a \in Accounts, ReapDrop(a) PROVE NoStranded'
  BY <1>3, PoolAssumption DEF ReapDrop, TypeOK, MemoryTypeOK, ObserverTypeOK
<1>4. ASSUME NEW a \in Accounts, SetQuota(a) PROVE NoStranded'
  BY <1>4 DEF SetQuota
<1>5. ASSUME NEW a \in Accounts, Probe(a) PROVE NoStranded'
  BY <1>5 DEF Probe
<1>6. ASSUME NEW s \in Sessions, BindingExpires(s) PROVE NoStranded'
  BY <1>6 DEF BindingExpires
<1>7. CASE ReapCollect
  BY <1>7 DEF ReapCollect
<1>8. CASE ReapEnable
  BY <1>8 DEF ReapEnable
<1>9. CASE Persist
  BY <1>9 DEF Persist
<1>10. CASE Restart
  BY <1>10 DEF Restart
<1> QED BY <1>1, <1>2, <1>3, <1>4, <1>5, <1>6, <1>7, <1>8, <1>9, <1>10 DEF BackgroundStep

(* A quarantine never turns into a permanent shutdown: in every state, an   *)
(* account that auto_disable closed has a date for its return or a task     *)
(* that is just writing one or opening it, unless a set_enabled that was    *)
(* opening the account, or was rolled back, removed the record.             *)
THEOREM NeverStranded == Spec => []NoStranded
<1>1. Init => PoolInv
  BY InitTyped DEF Init, PoolInv, NoStranded
<1>2. PoolInv /\ [Next]_vars => PoolInv'
  <2> SUFFICES ASSUME PoolInv, [Next]_vars PROVE NoStranded'
    BY StepTyped DEF PoolInv
  <2>1. CASE Next
    BY <2>1, RequestStranded, AdminStranded, BackgroundStranded DEF Next
  <2>2. CASE UNCHANGED vars
    BY <2>2 DEF vars, memory, requests, tasks, observers, PoolInv, NoStranded, HalfDone, Account
  <2> QED BY <2>1, <2>2
<1>3. PoolInv => NoStranded
  BY DEF PoolInv
<1> QED BY <1>1, <1>2, <1>3, PTL DEF Spec
----------------------------------------------------------------------------
(* Permits, and what a try may be given *)

\* The slots a request owns a permit of or still refers to.
InUse(r) == {held[r], cand[r]} \cup list[r]

\* An account that was not removed is there, and the snapshot has its slot.
Safe(a) == a \in Accounts \ churned => a \in present /\ Cur(a) \in snap

\* A slot of such an account is the one it has now.
Attached(x) == Safe(x[1]) /\ (x[1] \in Accounts \ churned => x = Cur(x[1]))

\* Whatever is in use or bound belongs to the slot an account has now, unless
\* the account was removed in between: so no semaphore is replaced in use.
Kept ==
    /\ \A x \in snap : Attached(x)
    /\ \A r \in Requests : \A x \in InUse(r) : Attached(x)
    /\ \A s \in Sessions : Safe(sess[s])

\* No semaphore gives more permits than it has.
Bounded == \A x \in Slot : Cardinality(Holders(x)) <= MaxConcurrency

\* Slots are referred to only during the scan and the checks.
Tidy ==
    \A r \in Requests :
        /\ pc[r] \notin SlotPC \cup {"pick"} => list[r] = {} /\ best[r] = 0
        /\ pc[r] \notin SlotPC => cand[r] = NoSlot

\* A request's own step, outside the selection of an account.
Onward(r) ==
    /\ pc[r] \in {"idle", "busy"} \cup RunPC /\ pc'[r] \in {"lookup"} \cup RunPC
    /\ held'[r] = held[r] /\ cand'[r] = cand[r] /\ list'[r] = list[r] /\ best'[r] = best[r]

\* The request turns to a slot it knows, or passes one over.
Seek(r, slot) ==
    /\ held'[r] = held[r] /\ UNCHANGED memory
    /\ \/ /\ pc'[r] \in SlotPC /\ cand'[r] = slot
          /\ list'[r] = list[r] /\ best'[r] = best[r]
       \/ /\ pc'[r] \in {"pick", "load", "busy"} /\ cand'[r] = NoSlot
          /\ list'[r] = list[r] \ {slot}
          /\ pc'[r] # "pick" => list'[r] = {} /\ best'[r] = 0

Seeks(r) ==
    /\ pc[r] \in SlotPC \cup {"pick"}
    /\ \E slot \in list[r] \cup {cand[r]} : Seek(r, slot)

\* What every step but an edit of the accounts and a restart leaves alone.
Steady ==
    /\ UNCHANGED <<present, gen, churned>> /\ snap' \in {snap, SlotsOf(present, gen)}

OthersAlone(r) ==
    \A q \in Requests \ {r} : /\ pc'[q] = pc[q] /\ held'[q] = held[q] /\ cand'[q] = cand[q]
                              /\ list'[q] = list[q] /\ best'[q] = best[q]

\* What the ways an attempt ends do to the request.
LEMMA AttemptShape ==
    ASSUME TypeOK, NEW r \in Requests, pc[r] \in RunPC
    PROVE  /\ NextAttempt(r) => (Onward(r) \/ End(r)) /\ OthersAlone(r)
           /\ SameAccountAgain(r) => (Onward(r) \/ End(r)) /\ OthersAlone(r)
           /\ End(r) => OthersAlone(r)
           /\ \A l \in RunPC : Goto(r, l) /\ UNCHANGED <<held, cand, list, best>> =>
                Onward(r) /\ OthersAlone(r)
BY DEF TypeOK, RequestTypeOK, NextAttempt, SameAccountAgain, End, Goto, Onward, OthersAlone

\* Checking a slot is seeking.
LEMMA SeekShape ==
    ASSUME TypeOK, NEW r \in Requests,
           ReadDisabled(r) \/ ReadCooldown(r) \/ ReadQuota(r) \/ ReadPermits(r)
    PROVE  Seeks(r) /\ OthersAlone(r) /\ UNCHANGED <<memory, churned>>
<1> USE DEF TypeOK, RequestTypeOK
<1>1. \A slot, passes : \A label \in SlotPC : Check(r, slot, passes, label) =>
        Seek(r, slot) /\ OthersAlone(r) /\ UNCHANGED <<memory, churned>>
  <2> SUFFICES ASSUME NEW slot, NEW passes, NEW label \in SlotPC, Check(r, slot, passes, label)
               PROVE  Seek(r, slot) /\ OthersAlone(r) /\ UNCHANGED <<memory, churned>>
    OBVIOUS
  <2>1. CASE PassOver(r, slot)
    BY <2>1 DEF Check, PassOver, Goto, Seek, OthersAlone, observers
  <2>2. CASE /\ Goto(r, label) /\ cand' = [cand EXCEPT ![r] = slot]
             /\ UNCHANGED <<list, best>>
    BY <2>2 DEF Check, Goto, Seek, OthersAlone, observers
  <2> QED BY <2>1, <2>2 DEF Check
<1>2. {"on", "cool", "quota", "sticky", "free", "take"} \subseteq SlotPC
  BY DEF SlotPC
<1>3. CASE ReadDisabled(r)
  <2>1. PICK slot \in (IF pc[r] = "on" THEN {cand[r]} ELSE list[r]) :
           Check(r, slot, slot[1] \notin disabled, "cool")
    BY <1>3 DEF ReadDisabled
  <2>2. slot \in list[r] \cup {cand[r]} /\ pc[r] \in SlotPC \cup {"pick"}
    BY <1>2, <1>3 DEF ReadDisabled
  <2> QED BY <1>1, <1>2, <2>1, <2>2 DEF Seeks
<1>4. CASE ReadCooldown(r)
  BY <1>1, <1>2, <1>4 DEF ReadCooldown, Seeks
<1>5. CASE ReadQuota(r)
  <2>1. PICK label \in {"sticky", "free"} : Check(r, cand[r], cand[r][1] \notin quotaOut, label)
    BY <1>5 DEF ReadQuota
  <2>2. pc[r] \in SlotPC
    BY <1>2, <1>5 DEF ReadQuota
  <2> QED BY <1>1, <1>2, <2>1, <2>2 DEF Seeks
<1>6. CASE ReadPermits(r)
  BY <1>1, <1>2, <1>6 DEF ReadPermits, Seeks
<1> QED BY <1>3, <1>4, <1>5, <1>6

\* The shapes of a request's step.
LEMMA RequestShape ==
    ASSUME TypeOK, NEW r \in Requests, RequestStep(r)
    PROVE  /\ Steady /\ OthersAlone(r)
           /\ \A s \in Sessions :
                sess'[s] \in {sess[s], NoAccount} \/ (Take(r) /\ sess'[s] = cand[r][1])
           /\ \/ Onward(r) \/ End(r) \/ Lookup(r) \/ StickyTake(r) \/ Load(r) \/ Seeks(r)
              \/ Take(r)
<1> DEFINE Shape == /\ Steady /\ OthersAlone(r)
                    /\ \A s \in Sessions :
                         sess'[s] \in {sess[s], NoAccount} \/ (Take(r) /\ sess'[s] = cand[r][1])
                    /\ \/ Onward(r) \/ End(r) \/ Lookup(r) \/ StickyTake(r) \/ Load(r) \/ Seeks(r)
                       \/ Take(r)
<1> SUFFICES Shape
  OBVIOUS
<1> USE DEF TypeOK, MemoryTypeOK, RequestTypeOK, memory, requests, tasks, observers, Steady, Unbind
<1>1. ASSUME NEW s \in SessionIds, Begin(r, s) PROVE Shape
  BY <1>1 DEF Begin, Goto, Onward, OthersAlone
<1>2. CASE Lookup(r)
  BY <1>2 DEF Lookup, Goto, OthersAlone
<1>3. CASE StickyTake(r)
  BY <1>3 DEF StickyTake, Grant, PassOver, Goto, OthersAlone
<1>4. CASE Load(r)
  BY <1>4 DEF Load, End, Goto, OthersAlone
<1>5. CASE ReadDisabled(r) \/ ReadCooldown(r) \/ ReadQuota(r) \/ ReadPermits(r)
  BY <1>5, SeekShape
<1>6. CASE Take(r)
  BY <1>6 DEF Take, Grant, PassOver, Goto, OthersAlone
<1>7. CASE TryAgain(r)
  BY <1>7 DEF TryAgain, Goto, Onward, OthersAlone
<1>8. CASE AcquireTimeout(r)
  BY <1>8 DEF AcquireTimeout, End, Goto, OthersAlone
<1>9. CASE Succeed(r) \/ EndUnreported(r) \/ FailLate(r)
  BY <1>9, AttemptShape DEF Succeed, EndUnreported, FailLate, RunPC
<1>10. CASE RetryUnpunished(r) \/ Overloaded(r)
  BY <1>10, AttemptShape DEF RetryUnpunished, Overloaded, RunPC
<1>11. CASE UpstreamError(r)
  BY <1>11, AttemptShape DEF UpstreamError, RunPC
<1>12. CASE AutoFlag(r)
  BY <1>12, AttemptShape DEF AutoFlag, RunPC
<1>13. CASE AutoDisable(r)
  BY <1>13, AttemptShape DEF AutoDisable, RunPC
<1>14. CASE Ineligible(r)
  BY <1>14, AttemptShape DEF Ineligible, RunPC
<1>15. CASE MarkIneligible(r)
  BY <1>15, AttemptShape DEF MarkIneligible, RunPC
<1>16. CASE PersistIneligible(r)
  BY <1>16, AttemptShape DEF PersistIneligible, RunPC
<1> QED BY <1>1, <1>2, <1>3, <1>4, <1>5, <1>6, <1>7, <1>8, <1>9, <1>10, <1>11, <1>12, <1>13,
           <1>14, <1>15, <1>16 DEF RequestStep

\* The shapes of all other steps.
LEMMA OtherShape ==
    ASSUME TypeOK, AdminStep \/ BackgroundStep
    PROVE  \/ /\ Steady /\ UNCHANGED requests
              /\ \A s \in Sessions : sess'[s] \in {sess[s], NoAccount}
           \/ ReplaceAccounts \/ Restart
<1> DEFINE Quiet == /\ Steady /\ UNCHANGED requests
                    /\ \A s \in Sessions : sess'[s] \in {sess[s], NoAccount}
<1> USE DEF TypeOK, MemoryTypeOK, memory, tasks, observers, Steady
<1>1. ASSUME NEW a \in Accounts, NEW on \in BOOLEAN, AdminFlag(a, on) PROVE Quiet
  BY <1>1 DEF AdminFlag
<1>2. ASSUME NEW a \in Accounts, NEW on \in BOOLEAN, AdminUpsert(a, on) PROVE ReplaceAccounts
  BY <1>2 DEF AdminUpsert
<1>3. ASSUME NEW a \in Accounts, AdminClearCooldown(a) PROVE Quiet
  BY <1>3 DEF AdminClearCooldown
<1>4. ASSUME NEW a \in Accounts, AdminDelete(a) PROVE ReplaceAccounts
  BY <1>4 DEF AdminDelete
<1>5. AdminClear \/ AdminPersist \/ AdminRollback => Quiet
  BY DEF AdminClear, AdminPersist, AdminRollback
<1>6. ASSUME NEW slot \in Slot, CooldownEnds(slot) PROVE Quiet
  BY <1>6 DEF CooldownEnds
<1>7. ASSUME NEW a \in Accounts, QuarantineEnds(a) \/ ReapDrop(a) \/ SetQuota(a) \/ Probe(a)
      PROVE  Quiet
  BY <1>7 DEF QuarantineEnds, ReapDrop, SetQuota, Probe
<1>8. ASSUME NEW s \in Sessions, BindingExpires(s) PROVE Quiet
  BY <1>8 DEF BindingExpires
<1>9. ReapCollect \/ ReapEnable \/ Persist => Quiet
  BY DEF ReapCollect, ReapEnable, Persist
<1> HIDE DEF Quiet
<1>10. CASE AdminStep
  <2>1. Quiet \/ ReplaceAccounts
    BY <1>1, <1>2, <1>3, <1>4, <1>5, <1>10 DEF AdminStep
  <2> QED BY <2>1 DEF Quiet
<1>11. CASE BackgroundStep
  <2>1. Quiet \/ Restart
    BY <1>6, <1>7, <1>8, <1>9, <1>11 DEF BackgroundStep
  <2> QED BY <2>1 DEF Quiet
<1> QED BY <1>10, <1>11

\* A steady step leaves accounts and slots as safe as they were.
LEMMA SteadyKeeps ==
    ASSUME TypeOK, Steady
    PROVE  /\ \A a : Safe(a) => Safe(a)'
           /\ \A x : Attached(x) => Attached(x)'
           /\ (\A x \in snap : Attached(x)) => \A x \in snap' : Attached(x)'
<1>1. \A a : Cur(a)' = Cur(a)
  BY DEF Steady, Cur
<1>2. \A a \in present : Cur(a) \in SlotsOf(present, gen)
  BY DEF SlotsOf, Cur
<1>3. \A a : Safe(a) => Safe(a)'
  BY <1>1, <1>2 DEF Safe, Steady
<1>4. \A x : Attached(x) => Attached(x)'
  BY <1>1, <1>3 DEF Attached, Steady
<1>5. ASSUME \A x \in snap : Attached(x), NEW x \in snap' PROVE Attached(x)'
  <2>1. CASE x \in snap
    BY <1>4, <1>5, <2>1
  <2>2. CASE snap' = SlotsOf(present, gen)
    <3>1. PICK a \in present : x = <<a, gen[a]>>
      BY <1>5, <2>2 DEF SlotsOf
    <3>2. x[1] = a /\ x = Cur(a) /\ Safe(a)'
      BY <1>1, <1>5, <2>2, <3>1 DEF Cur, Safe, Steady
    <3> QED BY <1>1, <3>1, <3>2 DEF Attached
  <2> QED BY <1>5, <2>1, <2>2 DEF Steady
<1> QED BY <1>3, <1>4, <1>5

\* NoSlot belongs to no account.
LEMMA NoSlotAttached == Attached(NoSlot) /\ NoSlot[1] = NoAccount /\ Safe(NoAccount)
BY PoolAssumption DEF Attached, Safe, NoSlot

\* What a request refers to comes from the snapshot, a binding or itself.
LEMMA InUseStep ==
    ASSUME TypeOK, NEW r \in Requests, RequestStep(r), NEW x \in InUse(r)'
    PROVE  \/ x \in InUse(r) \cup snap' \cup {NoSlot}
           \/ \E s \in Sessions : x = Cur(sess[s])
<1> USE DEF TypeOK, RequestTypeOK, MemoryTypeOK, InUse, Goto
<1>1. CASE Onward(r)
  BY <1>1 DEF Onward
<1>2. CASE End(r)
  BY <1>2 DEF End
<1>3. CASE Lookup(r)
  <2>1. sid[r] \in Sessions \/ ~UsesSession(r)
    BY DEF UsesSession
  <2>2. /\ held'[r] = held[r] /\ list'[r] = list[r]
        /\ cand'[r] = cand[r] \/ (UsesSession(r) /\ cand'[r] = Cur(sess[sid[r]]))
    BY <1>3 DEF Lookup
  <2> QED BY <2>1, <2>2
<1>4. CASE StickyTake(r)
  BY <1>4 DEF StickyTake, Grant, PassOver
<1>5. CASE Load(r)
  <2>1. CASE End(r)
    BY <2>1 DEF End
  <2>2. CASE UNCHANGED <<sid, att, held, cand, list, best>>
    BY <2>2
  <2>3. CASE list' = [list EXCEPT ![r] = snap'] /\ UNCHANGED <<sid, att, held, cand>>
    BY <2>3
  <2> QED BY <1>5, <2>1, <2>2, <2>3 DEF Load
<1>6. CASE Seeks(r)
  BY <1>6 DEF Seeks, Seek
<1>7. CASE Take(r)
  BY <1>7 DEF Take, Grant, PassOver
<1> QED BY <1>1, <1>2, <1>3, <1>4, <1>5, <1>6, <1>7, RequestShape

\* An account that is safe and not removed keeps its semaphore through an edit.
LEMMA ReplaceKeeps ==
    ASSUME TypeOK, ReplaceAccounts, NEW a, Safe(a), a \in Accounts \ churned'
    PROVE  Cur(a)' = Cur(a) /\ Safe(a)' /\ a \in Accounts \ churned
<1>1. a \in Accounts \ churned /\ a \in present /\ Cur(a) \in snap /\ a \in diskHas'
  BY DEF Safe, ReplaceAccounts
<1>2. a \notin (diskHas' \ present) \cup Renewed
  BY <1>1 DEF Renewed, Unshared
<1>3. gen'[a] = gen[a]
  BY <1>1, <1>2 DEF ReplaceAccounts
<1>4. a \in present' /\ Cur(a)' \in snap'
  BY <1>1 DEF ReplaceAccounts, SlotsOf, Cur
<1> QED BY <1>1, <1>3, <1>4 DEF Safe, Cur

\* Slots in use stay the ones their accounts have.
LEMMA KeptStep == ASSUME TypeOK, InHand, Kept, [Next]_vars PROVE Kept'
<1>1. ASSUME NEW r \in Requests, RequestStep(r) PROVE Kept'
  <2>1. Steady /\ OthersAlone(r)
    BY <1>1, RequestShape
  <2>2. \A x \in snap' : Attached(x)'
    BY <2>1, SteadyKeeps DEF Kept
  <2>3. ASSUME NEW q \in Requests, NEW x \in InUse(q)' PROVE Attached(x)'
    <3>1. CASE q # r
      <4>1. x \in InUse(q)
        BY <2>1, <2>3, <3>1 DEF OthersAlone, InUse
      <4> QED BY <2>1, <4>1, SteadyKeeps DEF Kept
    <3>2. CASE q = r
      <4>1. CASE x \in InUse(r)
        BY <2>1, <4>1, SteadyKeeps DEF Kept
      <4>2. CASE x \in snap'
        BY <2>2, <4>2
      <4>3. CASE x = NoSlot
        BY <2>1, <4>3, SteadyKeeps, NoSlotAttached
      <4>4. ASSUME NEW s \in Sessions, x = Cur(sess[s]) PROVE Attached(x)'
        <5>1. x[1] = sess[s] /\ Safe(sess[s])
          BY <4>4 DEF Cur, Kept
        <5>2. Attached(x)
          BY <4>4, <5>1 DEF Attached
        <5> QED BY <2>1, <5>2, SteadyKeeps
      <4> QED BY <1>1, <2>3, <3>2, <4>1, <4>2, <4>3, <4>4, InUseStep
    <3> QED BY <3>1, <3>2
  <2>4. ASSUME NEW s \in Sessions PROVE Safe(sess[s])'
    <3>0. PICK a : a = sess'[s]
      OBVIOUS
    <3>1. CASE a = sess[s]
      BY <2>1, <3>0, <3>1, SteadyKeeps DEF Kept, Safe, Cur
    <3>2. CASE a = NoAccount
      BY <3>0, <3>2, PoolAssumption DEF Safe
    <3>3. CASE a = cand[r][1]
      <4>1. Attached(cand[r])
        BY DEF Kept, InUse
      <4>2. Safe(a)'
        BY <2>1, <3>3, <4>1, SteadyKeeps DEF Attached
      <4> QED BY <3>0, <4>2 DEF Safe, Cur
    <3> QED BY <1>1, <3>0, <3>1, <3>2, <3>3, RequestShape
  <2> QED BY <2>2, <2>3, <2>4 DEF Kept
<1>2. CASE Steady /\ UNCHANGED requests
           /\ \A s \in Sessions : sess'[s] \in {sess[s], NoAccount}
  <2>1. \A x \in snap' : Attached(x)'
    BY <1>2, SteadyKeeps DEF Kept
  <2>2. \A r \in Requests : \A x \in InUse(r)' : Attached(x)'
    BY <1>2, SteadyKeeps DEF Kept, InUse, requests
  <2>3. ASSUME NEW s \in Sessions PROVE Safe(sess[s])'
    <3>0. PICK a : a = sess'[s]
      OBVIOUS
    <3>1. CASE a = sess[s]
      <4>1. Safe(a)'
        BY <1>2, <3>1, SteadyKeeps DEF Kept
      <4> QED BY <3>0, <4>1 DEF Safe, Cur
    <3>2. CASE a = NoAccount
      BY <3>0, <3>2, PoolAssumption DEF Safe
    <3> QED BY <1>2, <3>0, <3>1, <3>2
  <2> QED BY <2>1, <2>2, <2>3 DEF Kept
<1>3. CASE ReplaceAccounts
  <2>1. UNCHANGED requests /\ snap' = SlotsOf(present', gen')
    BY <1>3 DEF ReplaceAccounts
  <2>2. ASSUME NEW x, Attached(x) PROVE Attached(x)'
    BY <1>3, <2>2, ReplaceKeeps DEF Attached, Safe
  <2>3. ASSUME NEW x \in snap' PROVE Attached(x)'
    <3>1. PICK a \in present' : x = <<a, gen'[a]>>
      BY <2>1, <2>3 DEF SlotsOf
    <3> QED BY <2>3, <3>1 DEF Attached, Safe, Cur
  <2>4. \A r \in Requests : \A x \in InUse(r)' : Attached(x)'
    BY <2>1, <2>2 DEF Kept, InUse, requests
  <2>5. ASSUME NEW s \in Sessions PROVE Safe(sess[s])'
    <3>0. PICK a : a = sess'[s]
      OBVIOUS
    <3>1. a = sess[s] \/ a = NoAccount
      BY <1>3, <3>0 DEF ReplaceAccounts
    <3>2. Safe(a)
      BY <3>1, NoSlotAttached DEF Kept
    <3>3. Safe(a)'
      BY <1>3, <3>2, ReplaceKeeps DEF Safe
    <3> QED BY <3>0, <3>3 DEF Safe, Cur
  <2> QED BY <2>3, <2>4, <2>5 DEF Kept
<1>4. CASE Restart
  <2>1. /\ churned' = {} /\ (snap' = {} \/ snap' = SlotsOf(present', gen'))
        /\ \A s \in Sessions : sess'[s] = NoAccount
        /\ \A r \in Requests : held'[r] = NoSlot /\ cand'[r] = NoSlot /\ list'[r] = {}
    BY <1>4 DEF Restart
  <2>2. ASSUME NEW x \in snap' PROVE Attached(x)'
    <3>1. PICK a \in present' : x = <<a, gen'[a]>>
      BY <2>1, <2>2 DEF SlotsOf
    <3> QED BY <2>2, <3>1 DEF Attached, Safe, Cur
  <2>3. \A x : x = NoSlot => Attached(x)'
    BY PoolAssumption DEF Attached, Safe, NoSlot
  <2>4. \A r \in Requests : \A x \in InUse(r)' : Attached(x)'
    BY <2>1, <2>3 DEF InUse
  <2>5. \A s \in Sessions : Safe(sess[s])'
    BY <2>1, PoolAssumption DEF Safe
  <2> QED BY <2>2, <2>4, <2>5 DEF Kept
<1>5. CASE UNCHANGED vars
  BY <1>2, <1>5 DEF vars, memory, observers, Steady
<1> QED BY <1>1, <1>2, <1>3, <1>4, <1>5, OtherShape DEF Next

\* Holders are requests, hence finitely many.
LEMMA HoldersFinite ==
    ASSUME NEW x
    PROVE  /\ IsFiniteSet(Holders(x)) /\ Cardinality(Holders(x)) \in Nat
           /\ IsFiniteSet(Holders(x)') /\ Cardinality(Holders(x)') \in Nat
<1>1. IsFiniteSet(Holders(x)) /\ IsFiniteSet(Holders(x)')
  BY PoolAssumption, FS_Subset DEF Holders
<1> QED BY <1>1, FS_CardinalityType

\* Returning permits keeps the bound.
LEMMA FewerHolders ==
    ASSUME Bounded, \A r \in Requests : held'[r] = held[r] \/ held'[r] = NoSlot
    PROVE  Bounded'
<1> SUFFICES ASSUME NEW x \in Slot PROVE Cardinality(Holders(x)') <= MaxConcurrency
  BY DEF Bounded
<1>1. Holders(x)' \subseteq Holders(x)
  BY NoSlotIsNone DEF Holders
<1>2. Cardinality(Holders(x)') <= Cardinality(Holders(x))
  BY <1>1, HoldersFinite, FS_Subset
<1> QED BY <1>2, HoldersFinite, PoolAssumption DEF Bounded

\* So does taking one that is free.
LEMMA OneMoreHolder ==
    ASSUME Bounded, NEW r \in Requests, Permits(cand[r]) > 0, held'[r] = cand[r],
           \A q \in Requests \ {r} : held'[q] = held[q]
    PROVE  Bounded'
<1> SUFFICES ASSUME NEW x \in Slot PROVE Cardinality(Holders(x)') <= MaxConcurrency
  BY DEF Bounded
<1>1. CASE x = cand[r]
  <2>1. Cardinality(Holders(x)) < MaxConcurrency
    BY <1>1, HoldersFinite, PoolAssumption DEF Permits
  <2>2. Holders(x)' \subseteq Holders(x) \cup {r}
    BY DEF Holders
  <2>0. IsFiniteSet(Holders(x)) /\ Cardinality(Holders(x)) \in Nat
    BY HoldersFinite
  <2>6. /\ IsFiniteSet(Holders(x) \cup {r})
        /\ \/ Cardinality(Holders(x) \cup {r}) = Cardinality(Holders(x))
           \/ Cardinality(Holders(x) \cup {r}) = Cardinality(Holders(x)) + 1
    BY <2>0, FS_AddElement
  <2>3. /\ IsFiniteSet(Holders(x) \cup {r})
        /\ Cardinality(Holders(x) \cup {r}) <= Cardinality(Holders(x)) + 1
    BY <2>0, <2>6
  <2>4. Cardinality(Holders(x)') <= Cardinality(Holders(x) \cup {r})
    BY <2>2, <2>3, FS_Subset
  <2>5. Cardinality(Holders(x) \cup {r}) \in Nat
    BY <2>3, FS_CardinalityType
  <2> QED BY <2>1, <2>3, <2>4, <2>5, HoldersFinite, PoolAssumption
<1>2. CASE x # cand[r]
  <2>1. Holders(x)' \subseteq Holders(x)
    BY <1>2 DEF Holders
  <2>2. Cardinality(Holders(x)') <= Cardinality(Holders(x))
    BY <2>1, HoldersFinite, FS_Subset
  <2> QED BY <2>2, HoldersFinite, PoolAssumption DEF Bounded
<1> QED BY <1>1, <1>2

\* What a step does to the permit of the request that takes it.
LEMMA HeldStep ==
    ASSUME TypeOK, NEW r \in Requests, RequestStep(r)
    PROVE  \/ held'[r] = held[r] \/ held'[r] = NoSlot
           \/ /\ pc[r] \in {"sticky", "take"} /\ pc'[r] = "run" /\ held'[r] = cand[r]
              /\ Permits(cand[r]) > 0
<1> USE DEF TypeOK, RequestTypeOK, Goto
<1>1. CASE Onward(r)
  BY <1>1 DEF Onward
<1>2. CASE End(r)
  BY <1>2 DEF End
<1>3. CASE Lookup(r) \/ Seeks(r)
  BY <1>3 DEF Lookup, Seeks, Seek
<1>4. CASE StickyTake(r)
  BY <1>4 DEF StickyTake, Grant, PassOver
<1>5. CASE Load(r)
  BY <1>5 DEF Load, End
<1>6. CASE Take(r)
  BY <1>6 DEF Take, Grant, PassOver
<1> QED BY <1>1, <1>2, <1>3, <1>4, <1>5, <1>6, RequestShape

\* No semaphore ever gives more permits than it has.
LEMMA BoundedStep == ASSUME TypeOK, Bounded, [Next]_vars PROVE Bounded'
<1>1. ASSUME NEW r \in Requests, RequestStep(r) PROVE Bounded'
  <2>1. OthersAlone(r)
    BY <1>1, RequestShape
  <2>2. CASE held'[r] = held[r] \/ held'[r] = NoSlot
    BY <2>1, <2>2, FewerHolders DEF OthersAlone
  <2>3. CASE Permits(cand[r]) > 0 /\ held'[r] = cand[r]
    BY <2>1, <2>3, OneMoreHolder DEF OthersAlone
  <2> QED BY <1>1, <2>2, <2>3, HeldStep
<1>2. CASE UNCHANGED requests
  BY <1>2, FewerHolders DEF requests
<1>3. CASE ReplaceAccounts
  BY <1>2, <1>3 DEF ReplaceAccounts
<1>4. CASE Restart
  BY <1>4, FewerHolders DEF Restart
<1>5. CASE UNCHANGED vars
  BY <1>2, <1>5 DEF vars
<1> QED BY <1>1, <1>2, <1>3, <1>4, <1>5, OtherShape DEF Next

(* The inductive invariant of PermitBound. *)
PermitInv == TypeOK /\ InHand /\ Kept /\ Bounded

\* It holds at the start.
LEMMA InitPermits == Init => PermitInv
<1> SUFFICES ASSUME Init PROVE PermitInv
  OBVIOUS
<1>1. TypeOK /\ InHand
  BY InitTyped
<1>2. Kept
  BY PoolAssumption DEF Init, Kept, InUse, Attached, Safe, NoSlot
<1>3. Bounded
  <2> SUFFICES ASSUME NEW x \in Slot PROVE Cardinality(Holders(x)) <= MaxConcurrency
    BY DEF Bounded
  <2>1. Holders(x) = {}
    BY NoSlotIsNone DEF Init, Holders
  <2> QED BY <2>1, FS_EmptySet, PoolAssumption
<1> QED BY <1>1, <1>2, <1>3 DEF PermitInv

(* However often its record is edited while requests come, retry and end,    *)
(* an account that was not taken out of the pool never runs more requests    *)
(* than max_concurrency: replace_accounts never gives it a second semaphore  *)
(* while permits of the first are out.                                       *)
THEOREM PermitsBounded == Spec => []PermitBound
<1>1. PermitInv /\ [Next]_vars => PermitInv'
  BY StepTyped, KeptStep, BoundedStep DEF PermitInv
<1>2. PermitInv => PermitBound
  <2> SUFFICES ASSUME PermitInv, NEW a \in Accounts \ churned
               PROVE  Cardinality(InFlight(a)) <= MaxConcurrency
    BY DEF PermitBound
  <2>1. InFlight(a) \subseteq Holders(Cur(a))
    BY DEF InFlight, Holders, PermitInv, Kept, Attached, InUse
  <2>2. Cur(a) \in Slot
    BY DEF Cur, Slot, PermitInv, TypeOK, MemoryTypeOK
  <2>3. Cardinality(Holders(Cur(a))) <= MaxConcurrency
    BY <2>2 DEF PermitInv, Bounded
  <2>4. IsFiniteSet(Holders(Cur(a))) /\ Cardinality(Holders(Cur(a))) \in Nat
    BY HoldersFinite
  <2>5. IsFiniteSet(InFlight(a)) /\ Cardinality(InFlight(a)) <= Cardinality(Holders(Cur(a)))
    BY <2>1, <2>4, FS_Subset
  <2>6. Cardinality(InFlight(a)) \in Nat
    BY <2>5, FS_CardinalityType
  <2> QED BY <2>3, <2>4, <2>5, <2>6, PoolAssumption
<1> QED BY <1>1, <1>2, InitPermits, PTL DEF Spec
----------------------------------------------------------------------------
(* What a try is given *)

\* The snapshot has no old slot of an account that is there.
SnapNow == \A x \in snap : x[1] \in present => x = Cur(x[1])

\* The reasons a request at a label has found its slot free of.
Passed(label) ==
    {why \in Reasons :
        \/ why = "disabled" /\ label \in SlotPC \ {"on"}
        \/ why = "cooling" /\ label \in SlotPC \ {"on", "cool"}
        \/ why = "exhausted" /\ label \in {"sticky", "free", "take"}}

\* What a try refers to of an account that was shut all along is its slot of now,
\* and what the request has read of it does not say that it was shut.
Tried ==
    \A r \in Requests :
        /\ \A a, why : <<a, why>> \in shut[r] => Shut(a, why)
        /\ \A x \in list[r] \cup {cand[r]} : \A why : <<x[1], why>> \in shut[r] => x = Cur(x[1])
        /\ pc[r] \in SlotPC =>
              \A why \in Passed(pc[r]) : <<cand[r][1], why>> \notin shut[r]

\* Where a request is that tries the account its session is bound to.
BoundPC == {"lookup", "on", "cool", "quota", "sticky"}

\* A session's account that has been ready all along is looked up and tried first.
Firm ==
    \A r \in Requests : firm[r] # NoAccount =>
        /\ firm[r] = BoundReady(r) /\ pc[r] \in BoundPC /\ best[r] = 0
        /\ pc[r] # "lookup" => cand[r] = Cur(firm[r])

(* The inductive invariant of the two action properties. *)
TryInv == TypeOK /\ InHand /\ SnapNow /\ Tidy /\ Tried /\ Firm

\* The snapshot stays current.
LEMMA SnapStep == ASSUME TypeOK, SnapNow, [Next]_vars PROVE SnapNow'
<1>1. ASSUME snap' = SlotsOf(present', gen') PROVE SnapNow'
  BY <1>1 DEF SnapNow, SlotsOf, Cur
<1>2. CASE Steady
  BY <1>1, <1>2 DEF SnapNow, Steady, Cur
<1>3. CASE ReplaceAccounts
  BY <1>1, <1>3 DEF ReplaceAccounts
<1>4. CASE Restart
  <2>1. CASE snap' = {}
    BY <2>1 DEF SnapNow
  <2> QED BY <1>1, <1>4, <2>1 DEF Restart
<1>5. CASE UNCHANGED vars
  BY <1>2, <1>5 DEF vars, memory, observers, Steady
<1> QED BY <1>2, <1>3, <1>4, <1>5, RequestShape, OtherShape DEF Next

\* References are dropped when the scan or the take is over.
LEMMA TidyStep == ASSUME TypeOK, Tidy, [Next]_vars PROVE Tidy'
<1> USE DEF TypeOK, RequestTypeOK, Goto, Tidy
<1>1. ASSUME NEW r \in Requests, RequestStep(r) PROVE Tidy'
  <2>0. OthersAlone(r)
    BY <1>1, RequestShape
  <2> SUFFICES /\ pc'[r] \notin SlotPC \cup {"pick"} => list'[r] = {} /\ best'[r] = 0
               /\ pc'[r] \notin SlotPC => cand'[r] = NoSlot
    BY <2>0 DEF OthersAlone
  <2>1. CASE Onward(r)
    BY <2>1 DEF Onward, RunPC, SlotPC
  <2>2. CASE End(r)
    BY <2>2 DEF End
  <2>3. CASE Lookup(r)
    BY <2>3 DEF Lookup, SlotPC
  <2>4. CASE StickyTake(r)
    BY <2>4 DEF StickyTake, Grant, PassOver, SlotPC
  <2>5. CASE Load(r)
    <3>1. CASE ~End(r)
      BY <2>5, <3>1 DEF Load, SlotPC
    <3> QED BY <2>2, <3>1
  <2>6. CASE Seeks(r)
    BY <2>6 DEF Seeks, Seek
  <2>7. CASE Take(r)
    BY <2>7 DEF Take, Grant, PassOver, SlotPC
  <2> QED BY <1>1, <2>1, <2>2, <2>3, <2>4, <2>5, <2>6, <2>7, RequestShape
<1>2. CASE UNCHANGED requests
  BY <1>2 DEF requests
<1>3. CASE ReplaceAccounts
  BY <1>2, <1>3 DEF ReplaceAccounts
<1>4. CASE Restart
  BY <1>4 DEF Restart
<1>5. CASE UNCHANGED vars
  BY <1>2, <1>5 DEF vars
<1> QED BY <1>1, <1>2, <1>3, <1>4, <1>5, OtherShape DEF Next

\* What Observe leaves in shut and firm.
LEMMA Observed ==
    ASSUME TypeOK, Observe, NEW r \in Requests
    PROVE  /\ \A a, why : <<a, why>> \in shut'[r] =>
                /\ a \in Accounts /\ Shut(a, why)'
                /\ <<a, why>> \in shut[r] \/ (pc'[r] = "lookup" /\ pc[r] # "lookup")
           /\ firm'[r] # NoAccount =>
                /\ firm'[r] = BoundReady(r)'
                /\ firm'[r] = firm[r] \/ (pc'[r] = "lookup" /\ pc[r] # "lookup")
                /\ pc'[r] \in TryPC
<1>1. ASSUME NEW a, NEW why, <<a, why>> \in shut'[r]
      PROVE  /\ a \in Accounts /\ Shut(a, why)'
             /\ <<a, why>> \in shut[r] \/ (pc'[r] = "lookup" /\ pc[r] # "lookup")
  BY <1>1 DEF Observe, TypeOK, ObserverTypeOK
<1>2. firm'[r] # NoAccount =>
        /\ firm'[r] = BoundReady(r)'
        /\ firm'[r] = firm[r] \/ (pc'[r] = "lookup" /\ pc[r] # "lookup")
        /\ pc'[r] \in TryPC
  BY DEF Observe, TryPC
<1> QED BY <1>1, <1>2

\* What a request's step adds to the slots it refers to.
LEMMA ReferStep ==
    ASSUME TypeOK, NEW r \in Requests, RequestStep(r), NEW x \in list'[r] \cup {cand'[r]}
    PROVE  \/ x \in list[r] \cup {cand[r]} \cup snap' \cup {NoSlot}
           \/ \E a : x = Cur(a)
<1> USE DEF TypeOK, RequestTypeOK, Goto
<1>1. CASE Onward(r)
  BY <1>1 DEF Onward
<1>2. CASE End(r)
  BY <1>2 DEF End
<1>3. CASE Lookup(r)
  <2>1. /\ list'[r] = list[r]
        /\ cand'[r] = cand[r] \/ cand'[r] = Cur(sess[sid[r]])
    BY <1>3 DEF Lookup
  <2> QED BY <2>1
<1>4. CASE StickyTake(r)
  BY <1>4 DEF StickyTake, Grant, PassOver
<1>5. CASE Load(r)
  <2>1. CASE ~End(r)
    BY <1>5, <2>1 DEF Load
  <2> QED BY <1>2, <2>1
<1>6. CASE Seeks(r)
  BY <1>6 DEF Seeks, Seek
<1>7. CASE Take(r)
  BY <1>7 DEF Take, Grant, PassOver
<1> QED BY <1>1, <1>2, <1>3, <1>4, <1>5, <1>6, <1>7, RequestShape

\* What a request would have read of a slot that is shut for the reason.
ReadShut(x, why) ==
    \/ why = "disabled" /\ x[1] \in disabled
    \/ why = "cooling" /\ x \in cooling
    \/ why = "exhausted" /\ x[1] \in quotaOut

\* What check passes is what it read; the rest was passed before.
LEMMA CheckPasses ==
    ASSUME TypeOK, NEW r \in Requests, pc'[r] \in SlotPC, NEW why \in Passed(pc'[r]),
           ReadDisabled(r) \/ ReadCooldown(r) \/ ReadQuota(r) \/ ReadPermits(r)
    PROVE  \/ UNCHANGED memory /\ ~ReadShut(cand'[r], why)
           \/ cand'[r] = cand[r] /\ pc[r] \in SlotPC /\ why \in Passed(pc[r])
<1> USE DEF TypeOK, RequestTypeOK
<1>1. ASSUME NEW slot, NEW passes, NEW label, Check(r, slot, passes, label)
      PROVE  passes /\ pc'[r] = label /\ cand'[r] = slot /\ UNCHANGED memory
  <2>1. ~PassOver(r, slot)
    BY DEF PassOver, Goto, SlotPC
  <2> QED BY <1>1, <2>1 DEF Check, Goto
<1>2. CASE ReadDisabled(r)
  <2>1. PICK slot : Check(r, slot, slot[1] \notin disabled, "cool")
    BY <1>2 DEF ReadDisabled
  <2>2. slot[1] \notin disabled /\ pc'[r] = "cool" /\ cand'[r] = slot /\ UNCHANGED memory
    BY <1>1, <2>1
  <2> QED BY <2>2 DEF Passed, ReadShut
<1>3. CASE ReadCooldown(r)
  <2>1. /\ cand[r] \notin cooling /\ pc'[r] = "quota" /\ cand'[r] = cand[r] /\ pc[r] = "cool"
        /\ UNCHANGED memory
    BY <1>1, <1>3 DEF ReadCooldown
  <2> QED BY <2>1 DEF Passed, ReadShut, SlotPC
<1>4. CASE ReadQuota(r)
  <2>1. PICK label \in {"sticky", "free"} : Check(r, cand[r], cand[r][1] \notin quotaOut, label)
    BY <1>4 DEF ReadQuota
  <2>2. /\ cand[r][1] \notin quotaOut /\ cand'[r] = cand[r] /\ pc[r] = "quota"
        /\ UNCHANGED memory
    BY <1>1, <1>4, <2>1 DEF ReadQuota
  <2> QED BY <2>2 DEF Passed, ReadShut, SlotPC
<1>5. CASE ReadPermits(r)
  <2>1. cand'[r] = cand[r] /\ pc'[r] = "take" /\ pc[r] = "free"
    BY <1>1, <1>5 DEF ReadPermits
  <2> QED BY <2>1 DEF Passed, SlotPC
<1> QED BY <1>2, <1>3, <1>4, <1>5

\* Whoever seeks checks a slot.
LEMMA SeeksReads ==
    ASSUME TypeOK, NEW r \in Requests, RequestStep(r),
           ~Onward(r), ~End(r), ~StickyTake(r), ~Take(r), ~Load(r), ~Lookup(r)
    PROVE  ReadDisabled(r) \/ ReadCooldown(r) \/ ReadQuota(r) \/ ReadPermits(r)
<1> USE DEF TypeOK, RequestTypeOK
<1>1. pc[r] \in RunPC =>
        ~NextAttempt(r) /\ ~SameAccountAgain(r)
        /\ \A l \in RunPC : ~(Goto(r, l) /\ UNCHANGED <<held, cand, list, best>>)
  BY AttemptShape
<1>2. \A s \in SessionIds : ~Begin(r, s)
  BY DEF Begin, Goto, Onward
<1>3. ~TryAgain(r) /\ ~AcquireTimeout(r)
  BY DEF TryAgain, AcquireTimeout, Goto, Onward
<1>4. ~Succeed(r) /\ ~EndUnreported(r) /\ ~FailLate(r) /\ ~RetryUnpunished(r) /\ ~Overloaded(r)
  BY <1>1 DEF Succeed, EndUnreported, FailLate, RetryUnpunished, Overloaded, RunPC
<1>5. ~UpstreamError(r) /\ ~AutoFlag(r) /\ ~AutoDisable(r)
  BY <1>1 DEF UpstreamError, AutoFlag, AutoDisable, RunPC
<1>6. ~Ineligible(r) /\ ~MarkIneligible(r) /\ ~PersistIneligible(r)
  BY <1>1 DEF Ineligible, MarkIneligible, PersistIneligible, RunPC
<1> QED BY <1>2, <1>3, <1>4, <1>5, <1>6 DEF RequestStep

\* A request has a slot in hand because it looked a binding up or checked the slot.
LEMMA NewlyPassed ==
    ASSUME TypeOK, NEW r \in Requests, RequestStep(r), pc'[r] \in SlotPC,
           NEW why \in Passed(pc'[r])
    PROVE  \/ UNCHANGED memory /\ ~ReadShut(cand'[r], why)
           \/ cand'[r] = cand[r] /\ pc[r] \in SlotPC /\ why \in Passed(pc[r])
<1> USE DEF TypeOK, RequestTypeOK
<1>1. ~Onward(r) /\ ~End(r) /\ ~StickyTake(r) /\ ~Take(r) /\ ~Load(r)
  BY DEF Onward, End, StickyTake, Take, Load, Grant, PassOver, Goto, RunPC, SlotPC
<1>2. ~Lookup(r)
  BY DEF Lookup, Goto, SlotPC, Passed
<1>3. ReadDisabled(r) \/ ReadCooldown(r) \/ ReadQuota(r) \/ ReadPermits(r)
  BY <1>1, <1>2, SeeksReads
<1> QED BY <1>3, CheckPasses

\* The slot of an account that is referred to outlives an edit.
LEMMA ReplaceRefers ==
    ASSUME TypeOK, ReplaceAccounts, NEW a \in present \cap present',
           \E r \in Requests : Cur(a) \in list[r] \cup {cand[r]}
    PROVE  Cur(a)' = Cur(a)
<1>1. a \notin (diskHas' \ present) \cup Renewed
  BY DEF Renewed, Unshared
<1>2. gen'[a] = gen[a]
  BY <1>1 DEF ReplaceAccounts, TypeOK, MemoryTypeOK
<1> QED BY <1>2 DEF Cur

\* What a try refers to stays current.
LEMMA TriedStep == ASSUME TryInv, [Next]_vars PROVE Tried'
<1> USE DEF TryInv
<1> DEFINE Fine(r) ==
      /\ \A a, why : <<a, why>> \in shut'[r] => Shut(a, why)'
      /\ \A x \in list'[r] \cup {cand'[r]} : \A why : <<x[1], why>> \in shut'[r] => x = Cur(x[1])'
      /\ pc'[r] \in SlotPC =>
            \A why \in Passed(pc'[r]) : <<cand'[r][1], why>> \notin shut'[r]
<1>1. ASSUME NEW r \in Requests, Next, NEW x \in list[r] \cup {cand[r]}, NEW why,
             <<x[1], why>> \in shut'[r],
             list'[r] = list[r], cand'[r] = cand[r], pc'[r] = pc[r]
      PROVE  x = Cur(x[1])'
  <2>0. PICK a : a = x[1]
    OBVIOUS
  <2>1. <<a, why>> \in shut[r] /\ Shut(a, why)' /\ a \in Accounts
    BY <1>1, <2>0, StepObserves, Observed
  <2>2. x = Cur(a) /\ Shut(a, why)
    BY <1>1, <2>0, <2>1 DEF Tried
  <2>6. CASE Cur(a)' = Cur(a)
    BY <2>0, <2>2, <2>6 DEF Cur
  <2>3. CASE Steady
    BY <2>3, <2>6 DEF Steady, Cur
  <2>4. CASE ReplaceAccounts
    <3>1. a \in present \cap present'
      BY <2>1, <2>2 DEF Shut
    <3> QED BY <1>1, <2>2, <2>4, <2>6, <3>1, ReplaceRefers
  <2>5. CASE Restart
    BY <1>1, <2>0, <2>5, NoSlotIsNone, PoolAssumption, <2>1 DEF Restart, NoSlot
  <2> QED BY <1>1, <2>3, <2>4, <2>5, RequestShape, OtherShape DEF Next
<1>2. ASSUME NEW r \in Requests, Next, list'[r] = list[r], cand'[r] = cand[r], pc'[r] = pc[r]
      PROVE  Fine(r)
  <2>1. \A a, why : <<a, why>> \in shut'[r] => Shut(a, why)' /\ <<a, why>> \in shut[r]
    BY <1>2, StepObserves, Observed
  <2> QED BY <1>1, <1>2, <2>1 DEF Tried
<1>3. ASSUME NEW r \in Requests, RequestStep(r) PROVE Fine(r)
  <2>0. Observe /\ Steady /\ SnapNow' /\ Tidy' /\ TypeOK'
    BY <1>3, StepObserves, RequestShape, SnapStep, TidyStep, StepTyped DEF Next
  <2>1. \A a, why : <<a, why>> \in shut'[r] =>
          /\ a \in Accounts /\ Shut(a, why)'
          /\ <<a, why>> \in shut[r] \/ (pc'[r] = "lookup" /\ pc[r] # "lookup")
    BY <2>0, Observed
  <2>2. ASSUME NEW x \in list'[r] \cup {cand'[r]}, NEW why, <<x[1], why>> \in shut'[r]
        PROVE  x = Cur(x[1])'
    <3>0. PICK b : b = x[1]
      OBVIOUS
    <3>1. x # NoSlot
      BY <2>1, <2>2, <3>0, PoolAssumption DEF NoSlot
    <3>2. pc'[r] # "lookup"
      BY <2>0, <2>2, <3>1 DEF Tidy, SlotPC
    <3>3. <<b, why>> \in shut[r] /\ b \in present'
      BY <2>1, <2>2, <3>0, <3>2 DEF Shut
    <3>4. CASE x \in list[r] \cup {cand[r]}
      <4>1. x = Cur(b)
        BY <3>0, <3>3, <3>4 DEF Tried
      <4> QED BY <2>0, <3>0, <4>1 DEF Steady, Cur
    <3>5. CASE x \in snap'
      BY <2>0, <3>0, <3>3, <3>5 DEF SnapNow
    <3>6. ASSUME NEW a, x = Cur(a) PROVE x = Cur(x[1])'
      BY <2>0, <3>6 DEF Steady, Cur
    <3> QED BY <1>3, <2>2, <3>1, <3>4, <3>5, <3>6, ReferStep
  <2>3. ASSUME pc'[r] \in SlotPC, NEW why \in Passed(pc'[r]), <<cand'[r][1], why>> \in shut'[r]
        PROVE  FALSE
    <3>2. PICK x : x = cand'[r]
      OBVIOUS
    <3>3. PICK a : a = x[1]
      OBVIOUS
    <3>6. x = Cur(a)' /\ Shut(a, why)' /\ <<a, why>> \in shut[r]
      BY <2>1, <2>2, <2>3, <3>2, <3>3 DEF SlotPC
    <3>4. CASE UNCHANGED memory /\ ~ReadShut(cand'[r], why)
      <4>1. x = Cur(a) /\ Shut(a, why) /\ a = x[1]
        BY <3>3, <3>4, <3>6 DEF memory, Cur, Shut
      <4> QED BY <3>2, <3>4, <4>1 DEF Shut, ReadShut
    <3>5. CASE cand'[r] = cand[r] /\ pc[r] \in SlotPC /\ why \in Passed(pc[r])
      BY <3>2, <3>3, <3>5, <3>6 DEF Tried
    <3> QED BY <1>3, <2>3, <3>4, <3>5, NewlyPassed
  <2> QED BY <2>1, <2>2, <2>3
<1>4. CASE Next
  <2>1. ASSUME NEW q \in Requests, RequestStep(q) PROVE Tried'
    <3>1. OthersAlone(q)
      BY <2>1, RequestShape
    <3> QED BY <1>2, <1>3, <1>4, <2>1, <3>1 DEF OthersAlone, Tried
  <2>2. CASE UNCHANGED requests
    BY <1>2, <1>4, <2>2 DEF requests, Tried
  <2>3. CASE Restart
    <3>1. \A r \in Requests : pc'[r] = "idle" /\ list'[r] = {} /\ cand'[r] = NoSlot
      BY <2>3 DEF Restart
    <3>2. \A r \in Requests : shut'[r] = {}
      BY <1>4, <3>1, StepObserves DEF Observe, TryPC, SlotPC
    <3> QED BY <3>1, <3>2 DEF Tried, SlotPC
  <2>4. CASE ReplaceAccounts
    BY <2>2, <2>4 DEF ReplaceAccounts
  <2> QED BY <1>4, <2>1, <2>2, <2>3, <2>4, OtherShape DEF Next
<1>5. CASE UNCHANGED vars
  BY <1>5 DEF vars, memory, requests, Tried, Shut, Cur
<1> QED BY <1>4, <1>5

\* A check of a ready account passes.
LEMMA ReadyPasses ==
    ASSUME TypeOK, NEW r \in Requests, NEW a, Ready(a), cand[r] = Cur(a), best[r] = 0,
           pc[r] \in BoundPC, ReadDisabled(r) \/ ReadCooldown(r) \/ ReadQuota(r) \/ ReadPermits(r)
    PROVE  pc'[r] \in {"cool", "quota", "sticky"} /\ cand'[r] = cand[r] /\ best'[r] = 0
<1> USE DEF TypeOK, RequestTypeOK
<1>1. /\ a \in present /\ a \notin disabled /\ Cur(a) \notin cooling /\ a \notin quotaOut
      /\ cand[r][1] = a
  BY DEF Ready, Shut, Reasons, Cur
<1>2. ASSUME NEW label, Check(r, cand[r], TRUE, label)
      PROVE  pc'[r] = label /\ cand'[r] = cand[r] /\ best'[r] = best[r]
  BY <1>2 DEF Check, Goto
<1>3. CASE ReadDisabled(r)
  <2>1. Check(r, cand[r], TRUE, "cool")
    BY <1>1, <1>3 DEF ReadDisabled, BoundPC
  <2> QED BY <1>2, <2>1
<1>4. CASE ReadCooldown(r)
  <2>1. Check(r, cand[r], TRUE, "quota")
    BY <1>1, <1>4 DEF ReadCooldown
  <2> QED BY <1>2, <2>1
<1>5. CASE ReadQuota(r)
  <2>1. Check(r, cand[r], TRUE, "sticky")
    BY <1>1, <1>5 DEF ReadQuota
  <2> QED BY <1>2, <2>1
<1>6. ~ReadPermits(r)
  BY DEF ReadPermits, BoundPC
<1> QED BY <1>3, <1>4, <1>5, <1>6

\* A session's account that is ready all along is tried first.
LEMMA FirmStep == ASSUME TryInv, [Next]_vars PROVE Firm'
<1> USE DEF TryInv
<1> DEFINE Sure(r) ==
      firm'[r] # NoAccount =>
        /\ firm'[r] = BoundReady(r)' /\ pc'[r] \in BoundPC /\ best'[r] = 0
        /\ pc'[r] # "lookup" => cand'[r] = <<firm'[r], gen'[firm'[r]]>>
<1>1. ASSUME NEW r \in Requests, Next, cand'[r] = cand[r], pc'[r] = pc[r], best'[r] = best[r]
      PROVE  Sure(r)
  <2> SUFFICES ASSUME firm'[r] # NoAccount
               PROVE  /\ firm'[r] = BoundReady(r)' /\ pc'[r] \in BoundPC /\ best'[r] = 0
                      /\ pc'[r] # "lookup" => cand'[r] = <<firm'[r], gen'[firm'[r]]>>
    OBVIOUS
  <2>1. firm'[r] = BoundReady(r)' /\ firm'[r] = firm[r] /\ pc'[r] \in TryPC
    BY <1>1, StepObserves, Observed
  <2>2. firm[r] # NoAccount /\ firm[r] = BoundReady(r) /\ pc'[r] \in BoundPC /\ best'[r] = 0
    BY <1>1, <2>1 DEF Firm
  <2>3. PICK a : a = firm[r]
    OBVIOUS
  <2>4. a \in present \cap present'
    <3>1. Ready(a)
      BY <2>2, <2>3 DEF BoundReady
    <3>2. a \in present'
      BY <2>1, <2>2, <2>3 DEF BoundReady, Ready
    <3> QED BY <3>1, <3>2 DEF Ready
  <2>5. ASSUME pc[r] # "lookup" PROVE cand[r] = <<a, gen'[a]>>
    <3>1. cand[r] = Cur(a)
      BY <2>1, <2>2, <2>3, <2>5 DEF Firm
    <3>2. CASE Steady
      BY <3>1, <3>2 DEF Steady, Cur
    <3>3. CASE ReplaceAccounts
      BY <2>4, <3>1, <3>3, ReplaceRefers DEF Cur
    <3>4. CASE Restart
      BY <2>2, <3>4 DEF Restart, BoundPC, TypeOK, RequestTypeOK
    <3> QED BY <1>1, <3>2, <3>3, <3>4, RequestShape, OtherShape DEF Next
  <2> QED BY <1>1, <2>1, <2>2, <2>3, <2>5
<1>2. ASSUME NEW r \in Requests, RequestStep(r) PROVE Sure(r)
  <2> SUFFICES ASSUME firm'[r] # NoAccount
               PROVE  /\ firm'[r] = BoundReady(r)' /\ pc'[r] \in BoundPC /\ best'[r] = 0
                      /\ pc'[r] # "lookup" => cand'[r] = <<firm'[r], gen'[firm'[r]]>>
    OBVIOUS
  <2>0. Observe /\ Tidy' /\ Steady
    BY <1>2, StepObserves, TidyStep, RequestShape DEF Next
  <2>1. /\ firm'[r] = BoundReady(r)' /\ pc'[r] \in TryPC
        /\ firm'[r] = firm[r] \/ (pc'[r] = "lookup" /\ pc[r] # "lookup")
    BY <2>0, Observed
  <2>2. CASE pc'[r] = "lookup"
    BY <2>0, <2>1, <2>2 DEF Tidy, BoundPC, SlotPC
  <2>3. CASE pc'[r] # "lookup"
    <3>1. PICK a : a = firm[r]
      OBVIOUS
    <3>2. /\ a # NoAccount /\ a = BoundReady(r) /\ pc[r] \in BoundPC /\ best[r] = 0
          /\ a = firm'[r]
          /\ pc[r] # "lookup" => cand[r] = Cur(a)
      BY <2>1, <2>3, <3>1 DEF Firm
    <3>3. UsesSession(r) /\ a = sess[sid[r]] /\ Ready(a)
      BY <3>2 DEF BoundReady
    <3>4. a \in present /\ Permits(Cur(a)) > 0 /\ Cur(a)' = Cur(a)
      BY <2>0, <3>3 DEF Ready, Steady, Cur
    <3>a. ASSUME pc'[r] \in BoundPC, cand'[r] = Cur(a), best'[r] = 0
          PROVE  /\ firm'[r] = BoundReady(r)' /\ pc'[r] \in BoundPC /\ best'[r] = 0
                 /\ pc'[r] # "lookup" => cand'[r] = <<firm'[r], gen'[firm'[r]]>>
      BY <2>1, <3>2, <3>4, <3>a DEF Cur
    <3>5. CASE Lookup(r)
      <4>1. pc'[r] = "on" /\ cand'[r] = Cur(a) /\ best'[r] = 0
        BY <3>2, <3>3, <3>4, <3>5 DEF Lookup, Goto, TypeOK, RequestTypeOK
      <4> QED BY <3>a, <4>1 DEF BoundPC
    <3>6. CASE StickyTake(r)
      <4>1. cand[r] = Cur(a)
        BY <3>2, <3>6 DEF StickyTake
      <4>2. pc'[r] = "run"
        BY <3>4, <3>6, <4>1 DEF StickyTake, Grant, Goto, TypeOK, RequestTypeOK
      <4> QED BY <2>1, <4>2 DEF TryPC, SlotPC
    <3>7. ~Onward(r) /\ ~Load(r) /\ ~Take(r)
      BY <3>2 DEF Onward, Load, Take, RunPC, BoundPC
    <3>8. ~End(r)
      BY <2>1 DEF End, Goto, TryPC, SlotPC, TypeOK, RequestTypeOK
    <3>9. CASE ReadDisabled(r) \/ ReadCooldown(r) \/ ReadQuota(r) \/ ReadPermits(r)
      <4>1. cand[r] = Cur(a)
        BY <3>2, <3>9 DEF ReadDisabled, ReadCooldown, ReadQuota, ReadPermits, BoundPC
      <4>2. pc'[r] \in {"cool", "quota", "sticky"} /\ cand'[r] = cand[r] /\ best'[r] = 0
        BY <3>2, <3>3, <3>9, <4>1, ReadyPasses
      <4> QED BY <3>a, <4>1, <4>2 DEF BoundPC
    <3> QED BY <1>2, <3>5, <3>6, <3>7, <3>8, <3>9, SeeksReads
  <2> QED BY <2>2, <2>3
<1>3. CASE Next
  <2>1. ASSUME NEW q \in Requests, RequestStep(q) PROVE Firm'
    <3>1. OthersAlone(q)
      BY <2>1, RequestShape
    <3> QED BY <1>1, <1>2, <1>3, <2>1, <3>1 DEF OthersAlone, Firm, Cur
  <2>2. CASE UNCHANGED requests
    BY <1>1, <1>3, <2>2 DEF requests, Firm, Cur
  <2>3. CASE Restart
    <3>1. \A r \in Requests : pc'[r] = "idle"
      BY <2>3 DEF Restart
    <3>2. \A r \in Requests : firm'[r] = NoAccount
      BY <1>3, <3>1, StepObserves DEF Observe, TryPC, SlotPC
    <3> QED BY <3>2 DEF Firm
  <2>4. CASE ReplaceAccounts
    BY <2>2, <2>4 DEF ReplaceAccounts
  <2> QED BY <1>3, <2>1, <2>2, <2>3, <2>4, OtherShape DEF Next
<1>4. CASE UNCHANGED vars
  <2>1. \A r \in Requests : BoundReady(r)' = BoundReady(r)
    BY <1>4 DEF vars, memory, requests, BoundReady, UsesSession, Ready, Shut, Cur, Permits, Holders
  <2> QED BY <1>4, <2>1 DEF vars, memory, requests, Firm, Cur
<1> QED BY <1>3, <1>4

\* The invariant of the tries is inductive.
LEMMA TryInductive == (Init => TryInv) /\ (TryInv /\ [Next]_vars => TryInv')
<1>1. ASSUME Init PROVE TryInv
  <2>1. TypeOK /\ InHand
    BY <1>1, InitTyped
  <2>2. SnapNow /\ Tidy /\ Tried /\ Firm
    BY <1>1 DEF Init, SnapNow, Tidy, Tried, Firm, SlotPC
  <2> QED BY <2>1, <2>2 DEF TryInv
<1>2. ASSUME TryInv, [Next]_vars PROVE TryInv'
  <2>1. TypeOK' /\ InHand' /\ SnapNow' /\ Tidy'
    BY <1>2, StepTyped, SnapStep, TidyStep DEF TryInv
  <2> QED BY <1>2, <2>1, TriedStep, FirmStep DEF TryInv
<1> QED BY <1>1, <1>2

\* A permit is taken by the request's own step, of the slot it tried.
LEMMA GrantedByTake ==
    ASSUME TypeOK, [Next]_vars, NEW r \in Requests, Granted(r)
    PROVE  /\ held'[r] = cand[r] /\ pc[r] \in {"take", "sticky"}
<1>1. pc'[r] # pc[r] /\ pc'[r] # "idle"
  BY DEF Granted
<1>2. ~UNCHANGED requests /\ ~Restart /\ ~ReplaceAccounts /\ ~UNCHANGED vars
  BY <1>1 DEF requests, Restart, ReplaceAccounts, vars
<1>3. PICK q \in Requests : RequestStep(q)
  BY <1>2, OtherShape DEF Next
<1>4. RequestStep(r)
  BY <1>1, <1>3, RequestShape DEF OthersAlone
<1>5. CASE StickyTake(r)
  BY <1>5 DEF StickyTake, Grant, PassOver, Goto, Granted, TypeOK, RequestTypeOK
<1>6. CASE Take(r)
  BY <1>6 DEF Take, Grant, PassOver, Goto, Granted, TypeOK, RequestTypeOK
<1>7. ~Onward(r) /\ ~Load(r) /\ ~Seeks(r) /\ ~Lookup(r)
  BY DEF Granted, Onward, Load, Seeks, Seek, Lookup, Goto, RunPC, SlotPC, TypeOK, RequestTypeOK
<1>8. ~End(r)
  BY DEF Granted, End, Goto, TypeOK, RequestTypeOK
<1> QED BY <1>4, <1>5, <1>6, <1>7, <1>8, RequestShape

(* Closing an account takes effect on every try that starts afterwards:      *)
(* whatever snapshot of available_slots a request works on, whatever edits   *)
(* come between its steps and although the flag, the cooldown and the quota  *)
(* are read one after the other, it is never given an account that one of    *)
(* the three kept shut at every moment of the try.                           *)
THEOREM ShutIsRespected == Spec => NoGrantWhileShut
<1>1. ASSUME TryInv, [Next]_vars, NEW r \in Requests, Granted(r), NEW why \in Reasons
      PROVE  <<held'[r][1], why>> \notin shut[r]
  <2>1. held'[r] = cand[r] /\ pc[r] \in {"take", "sticky"}
    BY <1>1, GrantedByTake DEF TryInv
  <2>2. pc[r] \in SlotPC /\ why \in Passed(pc[r])
    BY <1>1, <2>1 DEF SlotPC, Passed, Reasons
  <2> QED BY <1>1, <2>1, <2>2 DEF TryInv, Tried
<1>2. TryInv /\ [Next]_vars =>
        [\A r \in Requests : Granted(r) =>
            \A why \in Reasons : <<held'[r][1], why>> \notin shut[r]]_vars
  BY <1>1
<1> QED BY <1>2, TryInductive, PTL DEF Spec, NoGrantWhileShut

(* A session keeps its account: one that stays bound, open and with a free   *)
(* permit during the whole try is the account the try ends with.             *)
THEOREM SessionsStick == Spec => StickyHonoured
<1>1. ASSUME TryInv, [Next]_vars, NEW r \in Requests, Granted(r), firm[r] # NoAccount
      PROVE  held'[r][1] = firm[r]
  <2>1. held'[r] = cand[r] /\ pc[r] \in {"take", "sticky"}
    BY <1>1, GrantedByTake DEF TryInv
  <2>2. cand[r] = Cur(firm[r])
    BY <1>1, <2>1 DEF TryInv, Firm
  <2> QED BY <2>1, <2>2 DEF Cur
<1>2. TryInv /\ [Next]_vars =>
        [\A r \in Requests :
            Granted(r) /\ firm[r] # NoAccount => held'[r][1] = firm[r]]_vars
  BY <1>1
<1> QED BY <1>2, TryInductive, PTL DEF Spec, StickyHonoured
============================================================================
