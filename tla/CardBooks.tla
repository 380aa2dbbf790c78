----------------------------- MODULE CardBooks -----------------------------
(***************************************************************************)
(* Cards and plans as the panel, the portal and the customers change them  *)
(* (src/cards.rs, src/admin/cards.rs): issue, activation, extensions,      *)
(* lanes, appeals and trust, revocation, deletion, plans and policy, and   *)
(* what of them is in cards.json and cards.db.                             *)
(*                                                                         *)
(* Cards and plans are DashMaps.  Some operations change an entry in       *)
(* place; others read a clone first and change or replace the entry later. *)
(* Each then takes a snapshot of everything and writes it; no lock spans   *)
(* these steps.  atomic_write is one step here (ConfigStore has its own    *)
(* steps).  Time counts in hours.                                          *)
(***************************************************************************)
EXTENDS Naturals, FiniteSets

CONSTANTS
    Handlers, CardKeys, Plans,
    Preset,         \* the plans of CardPlan::presets
    MaxLanes,       \* max_concurrency of every plan
    ExtraHours,     \* hours of an extension
    TrustHours,     \* appeal_trust_hours
    RejectHours,    \* hours after a rejection without a new appeal: 6 in the code
    StartTime,      \* the hour the process starts, long after hour 0
    Policies,       \* cost models and risk policies
    MaxJobs, MaxFaults, MaxTicks    \* bounds

\* enabled, duration in hours, FirstCall billing, fixed price that stacks time
Plan == [on : BOOLEAN, hours : Nat, lazy : BOOLEAN]
Statuses == {"none", "pending", "approved", "rejected"}
Card == [plan : Plans, on : BOOLEAN, expires : Nat, lanes : Nat, used : Nat,
         appeal : Statuses, decided : Nat, trust : Nat]

\* A DashMap has entries for some of the keys.
IsTable(f, K, V) == DOMAIN f \subseteq K /\ f \in [DOMAIN f -> V]
\* Something save() writes.
IsSnapshot(s) ==
    IsTable(s.cards, CardKeys, Card) /\ IsTable(s.plans, Plans, Plan) /\ s.policy \in Policies

ASSUME BooksAssumption ==
    /\ CardKeys # {} /\ Plans # {} /\ Policies # {}
    /\ Preset \in [Plans -> Plan] /\ \A p \in Plans : Preset[p].hours > 0
    /\ MaxLanes \in Nat \ {0} /\ ExtraHours \in Nat \ {0} /\ TrustHours \in Nat
    /\ RejectHours \in Nat /\ StartTime \in Nat
    /\ \A p \in Plans : Preset[p].hours + ExtraHours < StartTime
    /\ MaxJobs \in Nat /\ MaxFaults \in Nat /\ MaxTicks \in Nat

VARIABLES
    cards, plans, policy,
    file,       \* cards.json
    db,         \* card_face_used of cards.db
    sticky,     \* cards whose runtime is held degraded
    now,
    pc, job,
    seen,       \* the clone a handler has read
    shot,       \* the snapshot save() has taken
    total,      \* the total a settlement has computed
    (* history *)
    start, bought,  \* when a card was activated and the hours paid for since
    idle,           \* cards whose countdown was started by no activation
    known,          \* card keys generated so far
    outdated,       \* handlers whose snapshot another save has overtaken
    raced,          \* a clone or a snapshot was stale when it was used
    unsaved,        \* a save failed
    jobs, faults

books == <<cards, plans, policy>>
store == <<file, db>>
process == <<pc, job, seen, shot, total>>
paidTime == <<start, bought, idle>>
history == <<paidTime, known, outdated, raced, unsaved, jobs, faults>>
vars == <<books, store, sticky, now, process, history>>

CardOps ==
    {"issue", "revoke", "delete", "settle", "extend", "stack", "extendHours", "activate",
     "firstCall", "lanes", "submit", "approve", "reject", "trust", "distrust"}
\* Operations that read a clone before they change the entry.
Cloning == {"issue", "stack", "extendHours", "activate", "firstCall", "lanes", "submit",
            "approve", "reject", "trust", "distrust", "editHours", "toggle", "deletePlan"}

Jobs == [op : CardOps \ {"issue"}, key : CardKeys]
        \cup [op : {"issue"}, key : CardKeys, plan : Plans]
        \cup [op : {"editHours", "toggle", "deletePlan"}, plan : Plans]
        \cup [op : {"seed"}, overwrite : BOOLEAN]
        \cup [op : {"policy"}, value : Policies]

Later(a, b) == IF a > b THEN a ELSE b
Put(f, x, v) == [y \in DOMAIN f \cup {x} |-> IF y = x THEN v ELSE f[y]]
Drop(f, x) == [y \in DOMAIN f \ {x} |-> f[y]]

NewCard(p, plan) ==
    [plan |-> p, on |-> TRUE, lanes |-> MaxLanes, used |-> 0, appeal |-> "none", decided |-> 0,
     trust |-> 0, expires |-> IF plan.lazy THEN 0 ELSE now + plan.hours]
Snapshot == [cards |-> cards, plans |-> plans, policy |-> policy]
NoClone == [card |-> 0, plan |-> 0]

Init ==
    /\ now = StartTime
    /\ plans = Preset /\ policy = CHOOSE v \in Policies : TRUE
    /\ \E p \in Plans, k \in CardKeys : cards = [c \in {k} |-> NewCard(p, Preset[p])]
    /\ file = Snapshot /\ db = [k \in {} |-> 0] /\ sticky = CardKeys
    /\ pc = [h \in Handlers |-> "idle"]
    /\ job = [h \in Handlers |-> [op |-> "none"]]
    /\ seen = [h \in Handlers |-> NoClone]
    /\ shot = [h \in Handlers |-> Snapshot] /\ total = [h \in Handlers |-> 0]
    /\ start = [k \in CardKeys |-> StartTime]
    /\ bought = [k \in CardKeys |-> IF k \in DOMAIN cards /\ cards[k].expires > 0
                                    THEN cards[k].expires - StartTime ELSE 0]
    /\ idle = {} /\ known = DOMAIN cards /\ outdated = {} /\ raced = FALSE /\ unsaved = FALSE
    /\ jobs = 0 /\ faults = 0

Goto(h, l) == pc' = [pc EXCEPT ![h] = l]

\* first_call or a manual activation has begun the countdown.
Activated(c) == c.expires > 0
Expired(c) == Activated(c) /\ now >= c.expires

------------------------------------------------------------------------------
(* What a request is refused for, on the clone it reads. *)

\* delete_plan leaves a plan that has cards.
InUse(p) == \E k \in DOMAIN cards : cards[k].plan = p

\* The entry of a card does not allow the operation.
Unfit(op, c) ==
    \/ /\ op = "submit"
       /\ \/ c.appeal = "pending"
          \/ c.appeal = "rejected" /\ now < c.decided + RejectHours
    \/ op \in {"activate", "firstCall"} /\ Activated(c)
    \/ op = "stack" /\ Expired(c)
    \/ /\ op \in {"activate", "firstCall", "stack", "extendHours", "lanes"}
       /\ ~c.on \/ c.plan \notin DOMAIN plans

Refused(j) ==
    CASE j.op = "issue"      -> \/ j.plan \notin DOMAIN plans \/ j.key \in known
                                \/ ~plans[j.plan].on
      [] j.op = "deletePlan" -> InUse(j.plan)
      [] j.op \in {"editHours", "toggle", "seed", "policy"} -> FALSE
      [] OTHER               -> j.key \notin DOMAIN cards \/ Unfit(j.op, cards[j.key])

\* A plan that is not there is edited from the default one.
PlanRead(p) == IF p \in DOMAIN plans THEN plans[p] ELSE Preset[p]

Receive(h) ==
    /\ pc[h] = "idle" /\ jobs < MaxJobs
    /\ jobs' = jobs + 1
    /\ \E j \in Jobs :
         /\ ~Refused(j)
         /\ job' = [job EXCEPT ![h] = j]
         /\ seen' = [seen EXCEPT ![h] =
              CASE j.op \notin Cloning -> NoClone
                [] j.op \in {"issue", "editHours", "toggle", "deletePlan"} ->
                     [card |-> 0, plan |-> PlanRead(j.plan)]
                [] OTHER ->
                     [card |-> cards[j.key],
                      plan |-> IF cards[j.key].plan \in DOMAIN plans
                               THEN plans[cards[j.key].plan] ELSE 0]]
         /\ known' = IF j.op = "issue" THEN known \cup {j.key} ELSE known
    /\ Goto(h, "apply")
    /\ UNCHANGED <<books, store, sticky, now, shot, total, paidTime, outdated, raced,
                   unsaved, faults>>

------------------------------------------------------------------------------
(* The new entry, from the entry there is (c) and the clone that was read (s). *)

\* extend_card_hours counts from now.
ExtendedFromNow(c) == [c EXCEPT !.expires = now + ExtraHours]

\* extend_card_hours: on from the end of a card that runs, otherwise from now.
Extended(c) ==
    [c EXCEPT !.expires = (IF Activated(c) THEN Later(c.expires, now) ELSE now) + ExtraHours]

\* extend_card, by the panel.
ExtendedByPanel(c) == [c EXCEPT !.expires = @ + ExtraHours]

\* Stacked time is added to the end that was read.
Stacked(c, s, plan) == [c EXCEPT !.expires = s.expires + plan.hours]

ActivatedNow(c, plan) == [c EXCEPT !.expires = now + plan.hours]

LanesSet(c) == [c EXCEPT !.lanes = IF @ > 1 THEN @ - 1 ELSE MaxLanes]

\* Appeals and trust put the whole clone back.
Submitted(s) == [s EXCEPT !.appeal = "pending", !.decided = 0]
Approved(s) == [s EXCEPT !.appeal = "approved", !.decided = now, !.trust = now + TrustHours]
Rejected(s) == [s EXCEPT !.appeal = "rejected", !.decided = now]
Trusted(s) == [s EXCEPT !.trust = now + TrustHours]
Distrusted(s) == [s EXCEPT !.trust = 0]

Changed(op, c, s, plan) ==
    CASE op = "revoke"      -> [c EXCEPT !.on = FALSE]
      [] op = "settle"      -> [c EXCEPT !.used = @ + 1]
      [] op = "extend"      -> ExtendedByPanel(c)
      [] op = "extendHours" -> Extended(c)
      [] op = "stack"       -> Stacked(c, s, plan)
      [] op \in {"activate", "firstCall"} -> ActivatedNow(c, plan)
      [] op = "lanes"       -> LanesSet(c)
      [] op = "submit"      -> Submitted(s)
      [] op = "approve"     -> Approved(s)
      [] op = "reject"      -> Rejected(s)
      [] op = "trust"       -> Trusted(s)
      [] op = "distrust"    -> Distrusted(s)

\* These insert, and so bring back a card that is gone.
Inserting == {"submit", "approve", "reject", "trust", "distrust"}

\* The hours a card comes with that was not activated yet.
PlanHours(k) == IF cards[k].plan \in DOMAIN plans THEN plans[cards[k].plan].hours ELSE 0

\* The hours paid for, after an operation on card k.
Counted(op, k, plan) ==
    LET on == Activated(cards[k])
        before == IF on THEN bought[k] ELSE PlanHours(k)
    IN  /\ start' = [start EXCEPT ![k] = IF op \in {"activate", "firstCall"} \/ ~on
                                         THEN now ELSE @]
        /\ bought' = [bought EXCEPT ![k] = CASE op \in {"activate", "firstCall"} -> plan.hours
                                             [] op = "stack" -> before + plan.hours
                                             [] OTHER -> before + ExtraHours]
        /\ idle' = IF op \in {"stack", "extend", "extendHours"} /\ ~on
                   THEN idle \cup {k} ELSE idle

\* The clone is put back over a newer entry, or a countdown that has changed
\* since is replaced.
Stale(op, k, s) ==
    \/ op \in Inserting /\ (k \in DOMAIN cards => cards[k] # s)
    \/ op \in {"stack", "activate", "firstCall"} /\ cards[k].expires # s.expires

ApplyToCard(h) ==
    LET j == job[h]
        k == j.key
    IN  /\ pc[h] = "apply" /\ j.op \in CardOps \ {"issue", "delete"}
        /\ IF k \in DOMAIN cards \/ j.op \in Inserting
           THEN /\ cards' = Put(cards, k, Changed(j.op, IF k \in DOMAIN cards THEN cards[k]
                                                        ELSE seen[h].card,
                                                  seen[h].card, seen[h].plan))
                /\ raced' = (raced \/ Stale(j.op, k, seen[h].card))
                /\ sticky' = IF j.op \in {"approve", "trust"} THEN sticky \ {k} ELSE sticky
                /\ total' = [total EXCEPT ![h] = cards'[k].used]
                /\ IF j.op \in {"activate", "firstCall", "stack", "extend", "extendHours"}
                   THEN Counted(j.op, k, seen[h].plan) ELSE UNCHANGED paidTime
                /\ Goto(h, IF j.op = "settle" THEN "ledger" ELSE "snap")
           ELSE /\ Goto(h, "idle")
                /\ UNCHANGED <<cards, raced, sticky, total, paidTime>>
        /\ UNCHANGED <<plans, policy, store, now, job, seen, shot, known, outdated,
                       unsaved, jobs, faults>>

Conflicts(h, op) ==
    \E g \in Handlers \ {h} : pc[g] = "apply" /\ job[g].op = op /\ job[g].plan = job[h].plan

IssueCard(h) ==
    LET j == job[h]
    IN  /\ pc[h] = "apply" /\ j.op = "issue"
        /\ cards' = Put(cards, j.key, NewCard(j.plan, seen[h].plan))
        /\ start' = [start EXCEPT ![j.key] = now]
        /\ bought' = [bought EXCEPT ![j.key] = IF seen[h].plan.lazy THEN 0 ELSE seen[h].plan.hours]
        /\ raced' = (raced \/ Conflicts(h, "deletePlan") \/ j.plan \notin DOMAIN plans)
        /\ idle' = idle \ {j.key}
        /\ Goto(h, "snap")
        /\ UNCHANGED <<plans, policy, store, sticky, now, job, seen, shot, total, known, outdated,
                       unsaved, jobs, faults>>

DeleteCard(h) ==
    LET k == job[h].key
    IN  /\ pc[h] = "apply" /\ job[h].op = "delete"
        /\ cards' = Drop(cards, k) /\ sticky' = sticky \ {k}
        /\ Goto(h, IF k \in DOMAIN cards THEN "ledger" ELSE "idle")
        /\ UNCHANGED <<plans, policy, store, now, job, seen, shot, total, history>>

\* The whole plan is put back.
UpsertPlan(h) ==
    LET j == job[h]
        p == seen[h].plan
    IN  /\ pc[h] = "apply" /\ j.op \in {"editHours", "toggle"}
        /\ plans' = Put(plans, j.plan, IF j.op = "editHours" THEN [p EXCEPT !.hours = @ + 1]
                                                             ELSE [p EXCEPT !.on = ~@])
        /\ Goto(h, "snap")
        /\ UNCHANGED <<cards, policy, store, sticky, now, job, seen, shot, total, history>>

\* delete_plan has looked at the cards before.
DeletePlan(h) ==
    LET p == job[h].plan
    IN  /\ pc[h] = "apply" /\ job[h].op = "deletePlan"
        /\ plans' = Drop(plans, p)
        /\ raced' = (raced \/ Conflicts(h, "issue"))
        /\ Goto(h, IF p \in DOMAIN plans THEN "snap" ELSE "idle")
        /\ UNCHANGED <<cards, policy, store, sticky, now, job, seen, shot, total, paidTime,
                       known, outdated, unsaved, jobs, faults>>

\* The presets replace plans that are there only when they are to overwrite them.
SeedPresets(h) ==
    LET written == IF job[h].overwrite THEN Plans ELSE Plans \ DOMAIN plans
    IN  /\ pc[h] = "apply" /\ job[h].op = "seed"
        /\ plans' = [p \in Plans |-> IF p \in written THEN Preset[p] ELSE plans[p]]
        /\ Goto(h, IF written = {} THEN "idle" ELSE "snap")
        /\ UNCHANGED <<cards, policy, store, sticky, now, job, seen, shot, total, history>>

SetPolicy(h) ==
    /\ pc[h] = "apply" /\ job[h].op = "policy"
    /\ policy' = job[h].value
    /\ Goto(h, "snap")
    /\ UNCHANGED <<cards, plans, store, sticky, now, job, seen, shot, total, history>>

------------------------------------------------------------------------------
(* cards.db and cards.json. *)

\* A settlement that SQLite refuses is saved with the rest instead.
Ledger(h) ==
    LET k == job[h].key
    IN  /\ pc[h] = "ledger"
        /\ \/ /\ job[h].op = "settle" /\ db' = Put(db, k, total[h])
              /\ raced' = (raced \/ (k \in DOMAIN db /\ db[k] > total[h]))
              /\ Goto(h, "idle") /\ UNCHANGED faults
           \/ /\ job[h].op = "delete" /\ db' = Drop(db, k)
              /\ Goto(h, "snap") /\ UNCHANGED <<raced, faults>>
           \/ /\ faults < MaxFaults /\ faults' = faults + 1
              /\ Goto(h, "snap") /\ UNCHANGED <<db, raced>>
        /\ UNCHANGED <<books, file, sticky, now, job, seen, shot, total, paidTime,
                       known, outdated, unsaved, jobs>>

\* The plans only.
TakeSnapshotPlans(h) ==
    /\ pc[h] = "snap"
    /\ shot' = [shot EXCEPT ![h] = [file EXCEPT !.plans = plans]]
    /\ outdated' = outdated \ {h}
    /\ Goto(h, "write")
    /\ UNCHANGED <<books, store, sticky, now, job, seen, total, paidTime, known, raced,
                   unsaved, jobs, faults>>

TakeSnapshot(h) ==
    /\ pc[h] = "snap"
    /\ shot' = [shot EXCEPT ![h] = Snapshot]
    /\ outdated' = outdated \ {h}
    /\ Goto(h, "write")
    /\ UNCHANGED <<books, store, sticky, now, job, seen, total, paidTime, known, raced,
                   unsaved, jobs, faults>>

\* A save that fails is only logged.
WriteFile(h) ==
    /\ pc[h] = "write"
    /\ \/ /\ file' = shot[h]
          /\ raced' = (raced \/ h \in outdated)
          /\ outdated' = outdated \cup {g \in Handlers \ {h} : pc[g] = "write"}
          /\ UNCHANGED <<unsaved, faults>>
       \/ /\ faults < MaxFaults /\ faults' = faults + 1 /\ unsaved' = TRUE
          /\ UNCHANGED <<file, raced, outdated>>
    /\ Goto(h, "idle")
    /\ UNCHANGED <<books, db, sticky, now, job, seen, shot, total, paidTime, known, jobs>>

\* ledger_sync_on_load: a total is the larger of the two.
Loaded ==
    [k \in DOMAIN file.cards |->
       [file.cards[k] EXCEPT !.used = IF k \in DOMAIN db THEN Later(@, db[k]) ELSE @]]

\* The file's totals go into the table.
Synced ==
    [k \in DOMAIN db \cup {c \in DOMAIN file.cards : file.cards[c].used > 0} |->
       IF k \in DOMAIN file.cards THEN Loaded[k].used ELSE db[k]]

Unanswered(k) == \E h \in Handlers : pc[h] # "idle" /\ job[h].op \in CardOps /\ job[h].key = k

\* What no request was answered for may be lost.
Restart ==
    /\ faults < MaxFaults /\ faults' = faults + 1
    /\ cards' = Loaded /\ db' = Synced
    /\ plans' = file.plans /\ policy' = file.policy /\ sticky' = {}
    /\ pc' = [h \in Handlers |-> "idle"]
    /\ bought' = [k \in CardKeys |-> IF k \in DOMAIN Loaded /\ Unanswered(k)
                                       THEN Later(Loaded[k].expires, start[k]) - start[k]
                                       ELSE bought[k]]
    /\ UNCHANGED <<file, now, job, seen, shot, total, start, idle, known, outdated,
                   raced, unsaved, jobs>>

Tick ==
    /\ now < StartTime + MaxTicks
    /\ now' = now + 1
    /\ UNCHANGED <<books, store, sticky, process, history>>

Step(h) ==
    \/ Receive(h) \/ ApplyToCard(h) \/ IssueCard(h) \/ DeleteCard(h)
    \/ UpsertPlan(h) \/ DeletePlan(h) \/ SeedPresets(h) \/ SetPolicy(h)
    \/ Ledger(h) \/ TakeSnapshot(h) \/ WriteFile(h)

Next == (\E h \in Handlers : Step(h)) \/ Restart \/ Tick

Spec == Init /\ [][Next]_vars

------------------------------------------------------------------------------
(* Properties. *)

\* Cards, plans, stores and requests hold what their types say.
TypeOK ==
    /\ IsTable(cards, CardKeys, Card) /\ IsTable(plans, Plans, Plan) /\ policy \in Policies
    /\ IsSnapshot(file) /\ IsTable(db, CardKeys, Nat)
    /\ sticky \subseteq CardKeys /\ now \in Nat
    /\ pc \in [Handlers -> {"idle", "apply", "ledger", "snap", "write"}]
    /\ job \in [Handlers -> Jobs \cup {[op |-> "none"]}]
    /\ DOMAIN seen = Handlers /\ total \in [Handlers -> Nat]
    /\ DOMAIN shot = Handlers /\ \A h \in Handlers : IsSnapshot(shot[h])
    /\ start \in [CardKeys -> Nat] /\ bought \in [CardKeys -> Nat]
    /\ idle \subseteq CardKeys /\ known \subseteq CardKeys /\ outdated \subseteq Handlers
    /\ raced \in BOOLEAN /\ unsaved \in BOOLEAN

Quiet == \A h \in Handlers : pc[h] = "idle"

\* A restart at a quiet moment changes nothing: cards.json and cards.db together
\* give back every card, plan and policy in memory, whatever mixture of edits,
\* settlements, failed ledger writes and earlier restarts came before; unless a
\* save failed, or a stale clone or snapshot was written over a newer one.
RestartLosesNothing ==
    (Quiet /\ ~raced /\ ~unsaved) =>
        cards = Loaded /\ plans = file.plans /\ policy = file.policy

\* A card runs for all the hours paid for since it was activated: extensions and
\* stacked time never shorten it, however they interleave with its first call, its
\* expiry and each other; unless one of them used a stale clone, or started the
\* countdown itself: then the hours the card came with are lost.
PaidTimeKept ==
    ~raced /\ ~unsaved => \A k \in DOMAIN cards \ idle :
                Activated(cards[k]) => cards[k].expires >= start[k] + bought[k]

\* cards.rs: a card that was not activated begins its countdown at the first call
\* or when it is activated by hand.
CountdownStartsByActivation == idle = {}
=============================================================================
