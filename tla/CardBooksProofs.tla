-------------------------- MODULE CardBooksProofs --------------------------
(***************************************************************************)
(* Proofs about cards, plans and their two stores, for any number of       *)
(* handlers, cards, plans, operations and restarts.                        *)
(***************************************************************************)
EXTENDS CardBooks, TLAPS

------------------------------------------------------------------------------
(* The inductive invariant. *)

Clean == ~raced /\ ~unsaved

\* A handler whose change of an entry is made and not yet saved.
Due(h, k) ==
    /\ pc[h] \in {"ledger", "snap", "write"} /\ job[h].op \in CardOps \ {"settle"}
    /\ job[h].key = k
\* A handler that will take a snapshot or write one.
Busy(h) == pc[h] \in {"snap", "write"} \/ (pc[h] = "ledger" /\ job[h].op = "delete")
\* A settlement that is in memory and not yet in cards.db.
Settling(h, k) == pc[h] = "ledger" /\ job[h].op = "settle" /\ job[h].key = k

\* What a handler has read, by its operation.
Reads(h) ==
    pc[h] = "apply" =>
        /\ job[h].op \in Inserting \cup {"stack", "activate", "firstCall"} => seen[h].card \in Card
        /\ job[h].op \in {"issue", "editHours", "toggle", "stack", "activate", "firstCall"} =>
             seen[h].plan \in Plan
        /\ job[h].op \in {"activate", "firstCall"} => seen[h].card.expires = 0

\* A handler's operation fits where it is.
Placed(h) ==
    /\ pc[h] # "idle" => job[h] \in Jobs
    /\ pc[h] = "ledger" => job[h].op \in {"settle", "delete"}

\* A key that is in memory or in a store, or in a snapshot.
Present(k) ==
    \/ k \in DOMAIN cards \/ k \in DOMAIN db \/ k \in DOMAIN file.cards
    \/ \E g \in Handlers : k \in DOMAIN shot[g].cards
\* A request on card k is not answered.
Holds(h, k) == pc[h] # "idle" /\ job[h].op \in CardOps /\ job[h].key = k

\* Keys in use were generated.
KeysKnown == \A k : Present(k) \/ (\E h \in Handlers : Holds(h, k)) => k \in known

\* Nobody else has a key that is about to be issued.
NewKey(h) ==
    pc[h] = "apply" /\ job[h].op = "issue" =>
        ~Present(job[h].key) /\ \A g \in Handlers \ {h} : ~Holds(g, job[h].key)

Frame == TypeOK /\ KeysKnown /\ \A h \in Handlers : Reads(h) /\ Placed(h) /\ NewKey(h)

\* The total in cards.db; a card without a row has none.
Stored(k) == IF k \in DOMAIN db THEN db[k] ELSE 0

\* Loading s with cards.db would give the total there is in memory, or the
\* settlement that makes it so is on its way.
Covers(s, k) ==
    /\ s.cards[k].used <= cards[k].used
    /\ \/ Later(s.cards[k].used, Stored(k)) = cards[k].used
       \/ \E h \in Handlers : Settling(h, k) /\ total[h] = cards[k].used

\* Loading s would give what there is in memory.
Faithful(s) ==
    /\ s.plans = plans /\ s.policy = policy /\ DOMAIN s.cards = DOMAIN cards
    /\ \A k \in DOMAIN cards :
         cards[k] = [s.cards[k] EXCEPT !.used = cards[k].used] /\ Covers(s, k)

\* No total that is stored or about to be is ahead of memory.
TotalsBehind ==
    /\ \A k \in DOMAIN cards \cap DOMAIN db : db[k] <= cards[k].used
    /\ \A h \in Handlers, k \in DOMAIN cards : Settling(h, k) => total[h] <= cards[k].used

\* The file is what is in memory, or somebody will write it.
FileDue == Faithful(file) \/ \E h \in Handlers : Busy(h)

\* A snapshot that may be written is what is in memory, or somebody else will
\* write after it.
ShotDue(g) ==
    pc[g] = "write" /\ g \notin outdated =>
        Faithful(shot[g]) \/ \E h \in Handlers \ {g} : Busy(h)

Recorded == TotalsBehind /\ FileDue /\ \A g \in Handlers : ShotDue(g)

\* s has card k exactly if there is one, with its end.
SameTime(s, k) ==
    /\ k \in DOMAIN s.cards <=> k \in DOMAIN cards
    /\ k \in DOMAIN cards => s.cards[k].expires = cards[k].expires

FileTimed == \A k \in CardKeys : (\A h \in Handlers : ~Due(h, k)) => SameTime(file, k)

ShotTimed(g) ==
    pc[g] = "write" /\ g \notin outdated =>
        \A k \in CardKeys : (\A h \in Handlers \ {g} : ~Due(h, k)) => SameTime(shot[g], k)

\* What was written of a card is no later than what there is, and no earlier
\* than the beginning of its countdown.
BehindAt(s, k) ==
    /\ k \in DOMAIN cards => s.cards[k].expires <= cards[k].expires
    /\ k \notin idle => s.cards[k].expires = 0 \/ s.cards[k].expires >= start[k]
Behind(s) == \A k \in DOMAIN s.cards : BehindAt(s, k)

\* The hours paid for are in the card's end.
PaidAt(k) ==
    k \in DOMAIN cards /\ k \notin idle /\ Activated(cards[k]) =>
        cards[k].expires >= start[k] + bought[k]

Timed ==
    /\ FileTimed /\ \A g \in Handlers : ShotTimed(g)
    /\ Behind(file) /\ \A g \in Handlers : pc[g] = "write" => Behind(shot[g])
    /\ \A k \in CardKeys : PaidAt(k)

BooksInv == Frame /\ (Clean => Recorded /\ Timed)

------------------------------------------------------------------------------
(* The operators. *)

\* What a job carries, by its operation.
LEMMA JobFields ==
    ASSUME NEW j \in Jobs
    PROVE  /\ j.op \in CardOps => j.key \in CardKeys
           /\ j.op \in {"issue", "editHours", "toggle", "deletePlan"} => j.plan \in Plans
           /\ j.op = "policy" => j.value \in Policies
           /\ j.op \in CardOps \cup {"editHours", "toggle", "deletePlan", "seed", "policy"}
<1>1. CASE j \in [op : CardOps \ {"issue"}, key : CardKeys]
  BY <1>1 DEF CardOps
<1>2. CASE j \in [op : {"issue"}, key : CardKeys, plan : Plans]
  BY <1>2 DEF CardOps
<1>3. CASE j \in [op : {"editHours", "toggle", "deletePlan"}, plan : Plans]
  BY <1>3 DEF CardOps
<1>4. CASE j \in [op : {"policy"}, value : Policies]
  BY <1>4 DEF CardOps
<1>5. CASE j \in [op : {"seed"}, overwrite : BOOLEAN]
  BY <1>5 DEF CardOps
<1> QED BY <1>1, <1>2, <1>3, <1>4, <1>5 DEF Jobs

\* What an operation makes of an entry.
LEMMA ChangedCard ==
    ASSUME NEW op \in CardOps \ {"issue", "delete"}, NEW c \in Card, NEW s, NEW plan, now \in Nat,
           op \in Inserting \cup {"stack", "activate", "firstCall"} => s \in Card,
           op \in {"stack", "activate", "firstCall"} => plan \in Plan
    PROVE  /\ Changed(op, c, s, plan) \in Card
           /\ op = "settle" => Changed(op, c, s, plan) = [c EXCEPT !.used = c.used + 1]
           /\ op \notin Inserting \cup {"settle"} => Changed(op, c, s, plan).used = c.used
           /\ op \in Inserting => /\ Changed(op, c, s, plan).used = s.used
                                  /\ Changed(op, c, s, plan).expires = s.expires
           /\ op \in {"revoke", "settle", "lanes"} => Changed(op, c, s, plan).expires = c.expires
           /\ op = "extend" => Changed(op, c, s, plan).expires = c.expires + ExtraHours
           /\ op = "extendHours" =>
                Changed(op, c, s, plan).expires =
                  (IF Activated(c) THEN Later(c.expires, now) ELSE now) + ExtraHours
           /\ op = "stack" => Changed(op, c, s, plan).expires = s.expires + plan.hours
           /\ op \in {"activate", "firstCall"} =>
                Changed(op, c, s, plan).expires = now + plan.hours
<1>0. /\ MaxLanes \in Nat /\ ExtraHours \in Nat /\ TrustHours \in Nat
      /\ c.expires \in Nat /\ c.used \in Nat /\ c.lanes \in Nat
  BY BooksAssumption DEF Card
<1>1. CASE op = "revoke"
  BY <1>1 DEF Changed, Inserting, Card
<1>2. CASE op = "settle"
  BY <1>0, <1>2 DEF Changed, Inserting, Card
<1>3. CASE op = "extend"
  BY <1>0, <1>3 DEF Changed, Inserting, Card, ExtendedByPanel
<1>4. CASE op = "extendHours"
  BY <1>0, <1>4 DEF Changed, Inserting, Card, Extended, Later, Activated
<1>5. CASE op = "stack"
  BY <1>0, <1>5 DEF Changed, Inserting, Card, Stacked, Plan
<1>6. CASE op \in {"activate", "firstCall"}
  BY <1>0, <1>6 DEF Changed, Inserting, Card, ActivatedNow, Plan
<1>7. CASE op = "lanes"
  BY <1>0, <1>7 DEF Changed, Inserting, Card, LanesSet
<1>8. CASE op = "submit"
  BY <1>0, <1>8 DEF Changed, Inserting, Card, Submitted, Statuses
<1>9. CASE op = "approve"
  <2>1. Changed(op, c, s, plan) = Approved(s) /\ s \in Card
    BY <1>9 DEF Changed, Inserting
  <2>2. Approved(s) \in Card /\ Approved(s).used = s.used /\ Approved(s).expires = s.expires
    <3>1. now + TrustHours \in Nat
      BY <1>0
    <3> QED BY ONLY <2>1, <3>1, now \in Nat DEF Card, Approved, Statuses
  <2> QED BY <1>9, <2>1, <2>2 DEF Inserting
<1>10. CASE op = "reject"
  BY <1>0, <1>10 DEF Changed, Inserting, Card, Rejected, Statuses
<1>11. CASE op = "trust"
  BY <1>0, <1>11 DEF Changed, Inserting, Card, Trusted
<1>12. CASE op = "distrust"
  BY <1>0, <1>12 DEF Changed, Inserting, Card, Distrusted
<1> QED
  BY <1>1, <1>2, <1>3, <1>4, <1>5, <1>6, <1>7, <1>8, <1>9, <1>10, <1>11, <1>12 DEF CardOps

\* A new card.
LEMMA CardIssued ==
    ASSUME NEW p \in Plans, NEW plan \in Plan, now \in Nat
    PROVE  /\ NewCard(p, plan) \in Card /\ NewCard(p, plan).used = 0
           /\ NewCard(p, plan).expires = IF plan.lazy THEN 0 ELSE now + plan.hours
BY BooksAssumption DEF NewCard, Card, Plan, Statuses

\* A restart gives back cards.
LEMMA LoadedTable ==
    ASSUME IsSnapshot(file), IsTable(db, CardKeys, Nat)
    PROVE  /\ IsTable(Loaded, CardKeys, Card) /\ DOMAIN Loaded = DOMAIN file.cards
           /\ IsTable(Synced, CardKeys, Nat)
           /\ DOMAIN Synced = DOMAIN db \cup {c \in DOMAIN file.cards : file.cards[c].used > 0}
           /\ \A k \in DOMAIN Loaded :
                /\ Loaded[k].expires = file.cards[k].expires
                /\ Loaded[k].used = Later(file.cards[k].used, Stored(k))
                /\ Loaded[k] = [file.cards[k] EXCEPT !.used = Loaded[k].used]
           /\ \A k \in DOMAIN Synced \cap DOMAIN file.cards : Synced[k] = Loaded[k].used
<1>1. ASSUME NEW k \in DOMAIN file.cards
      PROVE  /\ Loaded[k] \in Card /\ Loaded[k].expires = file.cards[k].expires
             /\ Loaded[k].used = Later(file.cards[k].used, Stored(k))
             /\ Loaded[k] = [file.cards[k] EXCEPT !.used = Loaded[k].used]
  <2>1. file.cards[k] \in Card /\ (k \in DOMAIN db => db[k] \in Nat)
    BY <1>1 DEF IsSnapshot, IsTable
  <2>2. PICK c \in Card : c = file.cards[k]
    BY <2>1
  <2>3. c.used \in Nat /\ Stored(k) \in Nat
    BY <2>1, <2>2 DEF Stored, Card
  <2>4. Loaded[k] = [c EXCEPT !.used = IF k \in DOMAIN db THEN Later(c.used, db[k]) ELSE c.used]
    BY <1>1, <2>2 DEF Loaded
  <2>5. Loaded[k] = [c EXCEPT !.used = Later(c.used, Stored(k))]
    BY <2>3, <2>4 DEF Stored, Later
  <2>6. Later(c.used, Stored(k)) \in Nat
    BY <2>3 DEF Later
  <2> QED BY <2>2, <2>5, <2>6 DEF Card
<1>2. DOMAIN Loaded = DOMAIN file.cards /\ Loaded = [k \in DOMAIN Loaded |-> Loaded[k]]
  BY DEF Loaded
<1>3. IsTable(Loaded, CardKeys, Card)
  BY <1>1, <1>2 DEF IsSnapshot, IsTable
<1>4. /\ DOMAIN Synced = DOMAIN db \cup {c \in DOMAIN file.cards : file.cards[c].used > 0}
      /\ Synced = [k \in DOMAIN Synced |-> Synced[k]]
      /\ \A k \in DOMAIN Synced \cap DOMAIN file.cards : Synced[k] = Loaded[k].used
      /\ \A k \in DOMAIN Synced \ DOMAIN file.cards : k \in DOMAIN db /\ Synced[k] = db[k]
  BY DEF Synced
<1>5. \A k \in DOMAIN Loaded : Loaded[k].used \in Nat
  BY <1>1, <1>2 DEF Card
<1>6. IsTable(Synced, CardKeys, Nat)
  BY <1>2, <1>4, <1>5 DEF IsSnapshot, IsTable
<1> QED BY <1>1, <1>2, <1>3, <1>4, <1>6

------------------------------------------------------------------------------
(* Types and keys. *)

\* A step of a handler that has read leaves what the others have read.
LEMMA MoveReads ==
    ASSUME Frame, NEW h \in Handlers, NEW l \in {"idle", "ledger", "snap", "write"}, Goto(h, l),
           UNCHANGED <<job, seen>>, pc[h] # "idle",
           l = "ledger" => job[h].op \in {"settle", "delete"}
    PROVE  \A g \in Handlers : Reads(g)' /\ Placed(g)'
BY DEF Frame, TypeOK, Goto, Reads, Placed

\* A step brings in no key but that of its own request.
LEMMA MoveKeys ==
    ASSUME Frame, NEW h \in Handlers, NEW l \in {"idle", "ledger", "snap", "write"}, Goto(h, l),
           UNCHANGED <<job, known>>, pc[h] # "idle",
           \A k : Present(k)' => Present(k) \/ Holds(h, k)
    PROVE  KeysKnown' /\ \A g \in Handlers : NewKey(g)'
<1>1. \A g \in Handlers : \A k : Holds(g, k)' => Holds(g, k)
  BY DEF Frame, TypeOK, Goto, Holds
<1>2. KeysKnown'
  BY <1>1 DEF Frame, KeysKnown
<1>3. ASSUME NEW g \in Handlers, (pc[g] = "apply" /\ job[g].op = "issue")'
      PROVE  (~Present(job[g].key) /\ \A f \in Handlers \ {g} : ~Holds(f, job[g].key))'
  <2>1. g # h /\ pc[g] = "apply" /\ job[g].op = "issue" /\ job'[g].key = job[g].key
    BY <1>3 DEF Frame, TypeOK, Goto
  <2>2. PICK k : k = job[g].key
    OBVIOUS
  <2>3. ~Present(k) /\ \A f \in Handlers \ {g} : ~Holds(f, k)
    BY <2>1, <2>2 DEF Frame, NewKey
  <2>4. ~Present(k)' /\ \A f \in Handlers \ {g} : ~Holds(f, k)'
    BY <1>1, <2>1, <2>3
  <2> QED BY <2>1, <2>2, <2>4
<1> QED BY <1>2, <1>3 DEF NewKey

\* The two together.
LEMMA MoveFrame ==
    ASSUME Frame, NEW h \in Handlers, NEW l \in {"idle", "ledger", "snap", "write"}, Goto(h, l),
           UNCHANGED <<job, seen, known>>, pc[h] # "idle", TypeOK',
           l = "ledger" => job[h].op \in {"settle", "delete"},
           \A k : Present(k)' => Present(k) \/ Holds(h, k)
    PROVE  Frame'
BY MoveReads, MoveKeys DEF Frame

\* A request that is received has read what its operation needs.
LEMMA FrameReceive ==
    ASSUME Frame, NEW h \in Handlers, Receive(h)
    PROVE  Frame'
<1>1. PICK j \in Jobs :
        /\ ~Refused(j) /\ job' = [job EXCEPT ![h] = j]
        /\ seen' = [seen EXCEPT ![h] =
             CASE j.op \notin Cloning -> NoClone
               [] j.op \in {"issue", "editHours", "toggle", "deletePlan"} ->
                    [card |-> 0, plan |-> PlanRead(j.plan)]
               [] OTHER ->
                    [card |-> cards[j.key],
                     plan |-> IF cards[j.key].plan \in DOMAIN plans
                              THEN plans[cards[j.key].plan] ELSE 0]]
        /\ known' = IF j.op = "issue" THEN known \cup {j.key} ELSE known
  BY DEF Receive
<1>2. /\ pc[h] = "idle" /\ Goto(h, "apply")
      /\ UNCHANGED <<books, store, sticky, now, shot, total, paidTime, outdated, raced, unsaved>>
  BY DEF Receive
<1>3. TypeOK
  BY DEF Frame
<1>4. /\ j.op \in CardOps => j.key \in CardKeys
      /\ j.op \in {"issue", "editHours", "toggle", "deletePlan"} => j.plan \in Plans
      /\ j.op \in CardOps \cup {"editHours", "toggle", "deletePlan", "seed", "policy"}
  BY JobFields
<1>5. known' \subseteq CardKeys /\ known \subseteq known'
  BY <1>1, <1>3, <1>4 DEF TypeOK, CardOps
<1>6. TypeOK'
  BY <1>1, <1>2, <1>3, <1>5 DEF TypeOK, Goto, books, store, paidTime
<1>7. /\ pc'[h] = "apply" /\ job'[h] = j
      /\ \A g \in Handlers \ {h} : pc'[g] = pc[g] /\ job'[g] = job[g]
  BY <1>1, <1>2, <1>3 DEF TypeOK, Goto
<1>8. \A g \in Handlers : Reads(g)' /\ Placed(g)'
  <2>1. \A g \in Handlers \ {h} : seen'[g] = seen[g]
    BY <1>1, <1>3 DEF TypeOK
  <2>2. \A g \in Handlers \ {h} : Reads(g)' /\ Placed(g)'
    BY <1>7, <2>1 DEF Frame, Reads, Placed
  <2>3. Placed(h)'
    BY <1>7 DEF Placed
  <2>4. ASSUME j.op \in {"issue", "editHours", "toggle"}
        PROVE  seen'[h].plan \in Plan
    <3>1. seen'[h] = [card |-> 0, plan |-> PlanRead(j.plan)]
      BY <1>1, <1>3, <2>4 DEF TypeOK, Cloning
    <3>2. PlanRead(j.plan) \in Plan
      BY <1>3, <1>4, <2>4, BooksAssumption DEF PlanRead, TypeOK, IsTable
    <3> QED BY <3>1, <3>2
  <2>5. ASSUME j.op \in Inserting \cup {"stack", "activate", "firstCall"}
        PROVE  /\ seen'[h].card \in Card
               /\ j.op \notin Inserting => seen'[h].plan \in Plan
               /\ j.op \in {"activate", "firstCall"} => seen'[h].card.expires = 0
    <3>1. seen'[h] = [card |-> cards[j.key],
                      plan |-> IF cards[j.key].plan \in DOMAIN plans
                               THEN plans[cards[j.key].plan] ELSE 0]
      BY <1>1, <1>3, <2>5 DEF TypeOK, Cloning, Inserting
    <3>2. j.key \in DOMAIN cards /\ ~Unfit(j.op, cards[j.key])
      BY <1>1, <2>5 DEF Refused, Inserting
    <3>3. cards[j.key] \in Card
      BY <1>3, <3>2 DEF TypeOK, IsTable
    <3>4. ASSUME j.op \notin Inserting
          PROVE  cards[j.key].plan \in DOMAIN plans
      BY <2>5, <3>2, <3>4 DEF Unfit
    <3>5. \A p \in DOMAIN plans : plans[p] \in Plan
      BY <1>3 DEF TypeOK, IsTable
    <3>6. ASSUME j.op \in {"activate", "firstCall"}
          PROVE  cards[j.key].expires = 0
      BY <3>2, <3>3, <3>6 DEF Unfit, Activated, Card
    <3> QED BY <3>1, <3>3, <3>4, <3>5, <3>6
  <2>6. Reads(h)'
    BY <1>7, <2>4, <2>5 DEF Reads, Inserting
  <2> QED BY <2>2, <2>3, <2>6
<1>9. \A k : Present(k)' <=> Present(k)
  BY <1>2 DEF Present, books, store
<1>10. \A g \in Handlers \ {h} : \A k : Holds(g, k)' <=> Holds(g, k)
  BY <1>7 DEF Holds
<1>11. \A k : Holds(h, k)' <=> j.op \in CardOps /\ j.key = k
  BY <1>7 DEF Holds
<1>12. ASSUME j.op \in CardOps \ {"issue"}
       PROVE  Present(j.key)
  BY <1>1, <1>12 DEF Refused, CardOps, Present
<1>13. KeysKnown'
  <2>1. ASSUME NEW k, Present(k)' \/ \E g \in Handlers : Holds(g, k)'
        PROVE  k \in known'
    <3>1. CASE Present(k) \/ \E g \in Handlers : Holds(g, k)
      BY <1>5, <3>1 DEF Frame, KeysKnown
    <3>2. CASE j.op \in CardOps /\ j.key = k
      <4>1. CASE j.op = "issue"
        BY <1>1, <3>2, <4>1
      <4>2. CASE j.op # "issue"
        BY <1>5, <1>12, <3>2, <4>2 DEF Frame, KeysKnown
      <4> QED BY <4>1, <4>2
    <3> QED BY <1>9, <1>10, <1>11, <2>1, <3>1, <3>2
  <2> QED BY <2>1 DEF KeysKnown
<1>14. ASSUME NEW g \in Handlers
       PROVE  NewKey(g)'
  <2>1. CASE g = h
    <3>1. ASSUME j.op = "issue"
          PROVE  ~Present(j.key) /\ \A f \in Handlers \ {h} : ~Holds(f, j.key)
      <4>1. j.key \notin known
        BY <1>1, <3>1 DEF Refused
      <4> QED BY <4>1 DEF Frame, KeysKnown
    <3>2. PICK k : k = j.key
      OBVIOUS
    <3>3. j.op = "issue" => ~Present(k)' /\ \A f \in Handlers \ {h} : ~Holds(f, k)'
      BY <1>9, <1>10, <3>1, <3>2
    <3> QED BY <1>7, <2>1, <3>2, <3>3 DEF NewKey
  <2>2. CASE g # h /\ pc[g] = "apply" /\ job[g].op = "issue"
    <3>1. PICK k : k = job[g].key
      OBVIOUS
    <3>2. ~Present(k) /\ \A f \in Handlers \ {g} : ~Holds(f, k)
      BY <2>2, <3>1 DEF Frame, NewKey
    <3>3. Holds(g, k) /\ k \in known
      BY <2>2, <3>1 DEF Holds, CardOps, Frame, KeysKnown
    <3>4. ~Holds(h, k)'
      <4>1. ASSUME j.op \in CardOps, j.key = k
            PROVE  FALSE
        <5>1. j.op = "issue"
          BY <1>12, <3>2, <4>1
        <5> QED BY <1>1, <3>3, <4>1, <5>1 DEF Refused
      <4> QED BY <1>11, <4>1
    <3>5. ~Present(k)' /\ \A f \in Handlers \ {g} : ~Holds(f, k)'
      BY <1>9, <1>10, <3>2, <3>4
    <3> QED BY <1>7, <2>2, <3>1, <3>5 DEF NewKey
  <2>3. CASE g # h /\ ~(pc[g] = "apply" /\ job[g].op = "issue")
    BY <1>7, <2>3 DEF NewKey
  <2> QED BY <2>1, <2>2, <2>3
<1> QED BY <1>6, <1>8, <1>13, <1>14 DEF Frame

\* A change of a card: c is the entry it starts from, n the one it makes.
ChangeOf(h, c, n) ==
    LET k == job[h].key
        op == job[h].op
    IN  /\ k \in DOMAIN cards => c = cards[k]
        /\ k \notin DOMAIN cards => op \in Inserting
        /\ n = Changed(op, c, seen[h].card, seen[h].plan)
        /\ cards' = Put(cards, k, n)
        /\ raced' = (raced \/ Stale(op, k, seen[h].card))
        /\ sticky' \subseteq CardKeys
        /\ total' = [total EXCEPT ![h] = n.used]
        /\ IF op \in {"activate", "firstCall", "stack", "extend", "extendHours"}
           THEN Counted(op, k, seen[h].plan) ELSE UNCHANGED paidTime
        /\ Goto(h, IF op = "settle" THEN "ledger" ELSE "snap")

\* An operation on a card changes it, or finds none.
LEMMA ApplyCases ==
    ASSUME Frame, NEW h \in Handlers, ApplyToCard(h)
    PROVE  /\ pc[h] = "apply" /\ job[h].key \in CardKeys
           /\ job[h].op \in CardOps \ {"issue", "delete"}
           /\ UNCHANGED <<plans, policy, store, now, job, seen, shot, known, outdated, unsaved>>
           /\ \/ Goto(h, "idle") /\ UNCHANGED <<cards, raced, sticky, total, paidTime>>
              \/ \E c, n \in Card : ChangeOf(h, c, n)
<1>1. /\ pc[h] = "apply" /\ job[h].op \in CardOps \ {"issue", "delete"}
      /\ UNCHANGED <<plans, policy, store, now, job, seen, shot, known, outdated, unsaved>>
  BY DEF ApplyToCard
<1>2. job[h] \in Jobs /\ Reads(h) /\ TypeOK
  BY <1>1 DEF Frame, Placed
<1>3. job[h].key \in CardKeys
  BY <1>1, <1>2, JobFields
<1>4. ASSUME job[h].key \in DOMAIN cards \/ job[h].op \in Inserting
      PROVE  \E c, n \in Card : ChangeOf(h, c, n)
  <2>1. PICK c : c = IF job[h].key \in DOMAIN cards THEN cards[job[h].key] ELSE seen[h].card
    OBVIOUS
  <2>2. c \in Card
    BY <1>1, <1>2, <1>4, <2>1 DEF Reads, TypeOK, IsTable
  <2>3. PICK n : n = Changed(job[h].op, c, seen[h].card, seen[h].plan)
    OBVIOUS
  <2>4. n \in Card
    BY <1>1, <1>2, <2>2, <2>3, ChangedCard DEF Reads, TypeOK
  <2>5. cards' = Put(cards, job[h].key, n)
    BY <1>4, <2>1, <2>3 DEF ApplyToCard
  <2>6. cards'[job[h].key] = n
    <3>1. IsTable(cards, CardKeys, Card)
      BY <1>2 DEF TypeOK
    <3>2. Put(cards, job[h].key, n)[job[h].key] = n
      BY ONLY <1>3, <2>4, <3>1 DEF IsTable, Put
    <3> QED BY <2>5, <3>2
  <2>7. sticky' \subseteq CardKeys
    BY <1>2, <1>4 DEF ApplyToCard, TypeOK
  <2>8. total' = [total EXCEPT ![h] = n.used]
    BY <1>4, <2>6 DEF ApplyToCard
  <2>9. /\ raced' = (raced \/ Stale(job[h].op, job[h].key, seen[h].card))
        /\ IF job[h].op \in {"activate", "firstCall", "stack", "extend", "extendHours"}
           THEN Counted(job[h].op, job[h].key, seen[h].plan) ELSE UNCHANGED paidTime
        /\ Goto(h, IF job[h].op = "settle" THEN "ledger" ELSE "snap")
    BY <1>4 DEF ApplyToCard
  <2>10. ChangeOf(h, c, n)
    BY <1>4, <2>1, <2>3, <2>5, <2>7, <2>8, <2>9 DEF ChangeOf
  <2> QED BY <2>2, <2>4, <2>10
<1>5. ASSUME ~(job[h].key \in DOMAIN cards \/ job[h].op \in Inserting)
      PROVE  Goto(h, "idle") /\ UNCHANGED <<cards, raced, sticky, total, paidTime>>
  BY <1>5 DEF ApplyToCard
<1> QED BY <1>1, <1>3, <1>4, <1>5

\* The hours of a card before an operation counts more.
Before(k) == IF Activated(cards[k]) THEN bought[k] ELSE PlanHours(k)

\* They are a number.
LEMMA BeforeTypes == ASSUME TypeOK, NEW k \in CardKeys PROVE Before(k) \in Nat
<1>1. bought[k] \in Nat
  BY DEF TypeOK
<1>2. ASSUME NEW p \in DOMAIN plans PROVE plans[p].hours \in Nat
  BY <1>2 DEF TypeOK, IsTable, Plan
<1>3. PlanHours(k) \in Nat
  BY <1>2 DEF PlanHours
<1> QED BY <1>1, <1>3 DEF Before

\* The hours counted are numbers.
LEMMA CountedTypes ==
    ASSUME TypeOK, NEW op, NEW k \in CardKeys, NEW plan, Counted(op, k, plan),
           op \in {"stack", "activate", "firstCall"} => plan \in Plan
    PROVE  start' \in [CardKeys -> Nat] /\ bought' \in [CardKeys -> Nat] /\ idle' \subseteq CardKeys
<1>1. /\ start \in [CardKeys -> Nat] /\ bought \in [CardKeys -> Nat]
      /\ now \in Nat /\ idle \subseteq CardKeys
  BY DEF TypeOK
<1>2. start' \in [CardKeys -> Nat]
  BY <1>1 DEF Counted
<1>3. idle' \subseteq CardKeys
  BY <1>1 DEF Counted
<1>4. ExtraHours \in Nat /\ (op \in {"stack", "activate", "firstCall"} => plan.hours \in Nat)
  BY BooksAssumption DEF Plan
<1>5. PICK b : /\ b = CASE op \in {"activate", "firstCall"} -> plan.hours
                        [] op = "stack" -> Before(k) + plan.hours
                        [] OTHER -> Before(k) + ExtraHours
               /\ bought' = [bought EXCEPT ![k] = b]
  BY <1>1 DEF Counted, Before
<1>6. Before(k) \in Nat
  BY BeforeTypes
<1>7. b \in Nat
  <2>1. CASE op \in {"activate", "firstCall"}
    BY <1>4, <1>5, <2>1
  <2>2. CASE op = "stack"
    BY <1>4, <1>5, <1>6, <2>2
  <2>3. CASE op \notin {"activate", "firstCall", "stack"}
    BY <1>4, <1>5, <1>6, <2>3
  <2> QED BY <2>1, <2>2, <2>3
<1>8. bought' \in [CardKeys -> Nat]
  BY <1>1, <1>5, <1>7
<1> QED BY <1>2, <1>3, <1>8

\* An operation on a card.
LEMMA FrameApply ==
    ASSUME Frame, NEW h \in Handlers, ApplyToCard(h)
    PROVE  Frame'
<1>1. /\ pc[h] = "apply" /\ job[h].key \in CardKeys
      /\ job[h].op \in CardOps \ {"issue", "delete"}
      /\ UNCHANGED <<plans, policy, store, now, job, seen, shot, known, outdated, unsaved>>
  BY ApplyCases
<1>2. TypeOK
  BY DEF Frame
<1>3. CASE Goto(h, "idle") /\ UNCHANGED <<cards, raced, sticky, total, paidTime>>
  <2>1. TypeOK'
    BY <1>1, <1>2, <1>3 DEF TypeOK, Goto, store, paidTime
  <2>2. \A k : Present(k)' => Present(k)
    BY <1>1, <1>3 DEF Present, store
  <2> QED BY <1>1, <1>3, <2>1, <2>2, MoveFrame
<1>4. ASSUME NEW c \in Card, NEW n \in Card, ChangeOf(h, c, n)
      PROVE  Frame'
  <2>1. /\ IsTable(cards', CardKeys, Card)
        /\ DOMAIN cards' = DOMAIN cards \cup {job[h].key}
    <3>1. IsTable(cards, CardKeys, Card) /\ cards' = Put(cards, job[h].key, n)
      BY <1>2, <1>4 DEF TypeOK, ChangeOf
    <3> QED BY ONLY <1>1, <1>4, <3>1 DEF IsTable, Put
  <2>2. start' \in [CardKeys -> Nat] /\ bought' \in [CardKeys -> Nat] /\ idle' \subseteq CardKeys
    <3>1. CASE job[h].op \in {"activate", "firstCall", "stack", "extend", "extendHours"}
      BY <1>1, <1>2, <1>4, <3>1, CountedTypes DEF ChangeOf, Frame, Reads
    <3>2. CASE job[h].op \notin {"activate", "firstCall", "stack", "extend", "extendHours"}
      BY <1>2, <1>4, <3>2 DEF ChangeOf, TypeOK, paidTime
    <3> QED BY <3>1, <3>2
  <2>3. raced' \in BOOLEAN
    BY <1>4 DEF ChangeOf
  <2>4. sticky' \subseteq CardKeys /\ total' \in [Handlers -> Nat]
    BY <1>2, <1>4 DEF ChangeOf, TypeOK, Card
  <2>5. PICK l \in {"ledger", "snap"} : Goto(h, l) /\ (l = "ledger" => job[h].op = "settle")
    BY <1>4 DEF ChangeOf
  <2>6. TypeOK'
    BY <1>1, <1>2, <2>1, <2>2, <2>3, <2>4, <2>5 DEF TypeOK, Goto, store
  <2>7. \A k : Present(k)' => Present(k) \/ Holds(h, k)
    BY <1>1, <2>1 DEF Present, Holds, store
  <2> QED BY <1>1, <2>5, <2>6, <2>7, MoveFrame
<1> QED BY <1>3, <1>4, ApplyCases

\* The other operations on memory.
LEMMA FrameIssue ==
    ASSUME Frame, NEW h \in Handlers, IssueCard(h)
    PROVE  Frame'
<1>1. TypeOK /\ pc[h] = "apply" /\ job[h].op = "issue" /\ job[h] \in Jobs /\ seen[h].plan \in Plan
  BY DEF Frame, IssueCard, Placed, Reads
<1>2. job[h].key \in CardKeys /\ job[h].plan \in Plans
  BY <1>1, JobFields DEF CardOps
<1>3. NewCard(job[h].plan, seen[h].plan) \in Card
  BY <1>1, <1>2, CardIssued DEF TypeOK
<1>4. IsTable(cards', CardKeys, Card) /\ DOMAIN cards' = DOMAIN cards \cup {job[h].key}
  <2>1. /\ IsTable(cards, CardKeys, Card)
        /\ cards' = Put(cards, job[h].key, NewCard(job[h].plan, seen[h].plan))
    BY <1>1 DEF TypeOK, IssueCard
  <2> QED BY ONLY <1>2, <1>3, <2>1 DEF IsTable, Put
<1>5. start' \in [CardKeys -> Nat] /\ bought' \in [CardKeys -> Nat] /\ idle' \subseteq CardKeys
  <2>1. (IF seen[h].plan.lazy THEN 0 ELSE seen[h].plan.hours) \in Nat
    BY <1>1 DEF Plan
  <2> QED BY <1>1, <2>1 DEF TypeOK, IssueCard
<1>6. raced' \in BOOLEAN
  BY DEF IssueCard
<1>7. /\ Goto(h, "snap")
      /\ UNCHANGED <<plans, policy, store, sticky, now, job, seen, shot, total, known, outdated,
                     unsaved>>
  BY DEF IssueCard
<1>8. TypeOK'
  BY <1>1, <1>4, <1>5, <1>6, <1>7 DEF TypeOK, Goto, store
<1>9. \A k : Present(k)' => Present(k) \/ Holds(h, k)
  BY <1>1, <1>4, <1>7 DEF Present, Holds, store, CardOps
<1> QED BY <1>1, <1>7, <1>8, <1>9, MoveFrame

\* A deletion takes a key away and brings none in.
LEMMA FrameDelete ==
    ASSUME Frame, NEW h \in Handlers, DeleteCard(h)
    PROVE  Frame'
<1>1. TypeOK /\ pc[h] = "apply" /\ job[h].op = "delete"
  BY DEF Frame, DeleteCard
<1>2. IsTable(cards', CardKeys, Card) /\ DOMAIN cards' = DOMAIN cards \ {job[h].key}
  <2>1. IsTable(cards, CardKeys, Card) /\ cards' = Drop(cards, job[h].key)
    BY <1>1 DEF TypeOK, DeleteCard
  <2> QED BY ONLY <2>1 DEF IsTable, Drop
<1>3. PICK l \in {"ledger", "idle"} : Goto(h, l)
  BY DEF DeleteCard
<1>4. /\ UNCHANGED <<plans, policy, store, now, job, seen, shot, total, history>>
      /\ sticky' \subseteq CardKeys
  BY <1>1 DEF DeleteCard, TypeOK
<1>5. TypeOK'
  BY <1>1, <1>2, <1>3, <1>4 DEF TypeOK, Goto, store, history, paidTime
<1>6. \A k : Present(k)' => Present(k)
  BY <1>2, <1>4 DEF Present, store
<1> QED BY <1>1, <1>3, <1>4, <1>5, <1>6, MoveFrame DEF history

\* A step on the plans or the policy.
PlanStep(h) == UpsertPlan(h) \/ DeletePlan(h) \/ SeedPresets(h) \/ SetPolicy(h)

\* What such a step does: it is followed by a save, unless it changed nothing.
LEMMA PlanCases ==
    ASSUME Frame, NEW h \in Handlers, PlanStep(h)
    PROVE  /\ pc[h] = "apply" /\ job[h].op \notin CardOps
           /\ IsTable(plans', Plans, Plan) /\ policy' \in Policies
           /\ UNCHANGED <<cards, store, sticky, now, job, seen, shot, total, paidTime, known,
                          outdated, unsaved>>
           /\ raced' \in BOOLEAN /\ (raced => raced')
           /\ \/ Goto(h, "snap")
              \/ Goto(h, "idle") /\ UNCHANGED <<plans, policy>>
<1>1. TypeOK /\ Reads(h) /\ Placed(h)
  BY DEF Frame
<1>2. CASE UpsertPlan(h)
  <2>1. pc[h] = "apply" /\ job[h].op \in {"editHours", "toggle"} /\ job[h] \in Jobs
    BY <1>1, <1>2 DEF UpsertPlan, Placed
  <2>2. job[h].plan \in Plans /\ seen[h].plan \in Plan
    BY <1>1, <2>1, JobFields DEF Reads
  <2>3. PICK p \in Plan : plans' = Put(plans, job[h].plan, p)
    <3>1. CASE job[h].op = "editHours"
      <4>1. [seen[h].plan EXCEPT !.hours = @ + 1] \in Plan
        BY <2>2 DEF Plan
      <4> QED BY <1>2, <3>1, <4>1 DEF UpsertPlan
    <3>2. CASE job[h].op = "toggle"
      <4>1. [seen[h].plan EXCEPT !.on = ~@] \in Plan
        BY <2>2 DEF Plan
      <4> QED BY <1>2, <3>2, <4>1 DEF UpsertPlan
    <3> QED BY <2>1, <3>1, <3>2
  <2>4. IsTable(plans', Plans, Plan)
    <3>1. IsTable(plans, Plans, Plan)
      BY <1>1 DEF TypeOK
    <3> QED BY ONLY <2>2, <2>3, <3>1 DEF IsTable, Put
  <2> QED BY <1>1, <1>2, <2>1, <2>4 DEF UpsertPlan, TypeOK, history, paidTime, CardOps
<1>3. CASE DeletePlan(h)
  <2>1. /\ IsTable(plans', Plans, Plan)
        /\ job[h].plan \notin DOMAIN plans => plans' = plans
    <3>1. IsTable(plans, Plans, Plan) /\ plans' = Drop(plans, job[h].plan)
      BY <1>1, <1>3 DEF DeletePlan, TypeOK
    <3> QED BY ONLY <3>1 DEF IsTable, Drop
  <2>2. raced' \in BOOLEAN /\ (raced => raced')
    BY <1>3 DEF DeletePlan
  <2> QED BY <1>1, <1>3, <2>1, <2>2 DEF DeletePlan, TypeOK, CardOps
<1>4. CASE SeedPresets(h)
  <2>1. pc[h] = "apply" /\ job[h].op = "seed" /\ job[h] \in Jobs
    BY <1>1, <1>4 DEF SeedPresets, Placed
  <2>2. PICK w : /\ w = IF job[h].overwrite THEN Plans ELSE Plans \ DOMAIN plans
                 /\ plans' = [p \in Plans |-> IF p \in w THEN Preset[p] ELSE plans[p]]
                 /\ pc' = [pc EXCEPT ![h] = IF w = {} THEN "idle" ELSE "snap"]
    BY <1>4 DEF SeedPresets, Goto
  <2>3. \A p \in Plans : p \notin w => p \in DOMAIN plans
    BY <2>2
  <2>4. IsTable(plans', Plans, Plan)
    <3>1. IsTable(plans, Plans, Plan) /\ Preset \in [Plans -> Plan]
      BY <1>1, BooksAssumption DEF TypeOK
    <3> QED BY ONLY <2>2, <2>3, <3>1 DEF IsTable
  <2>5. w = {} => plans' = plans
    <3>1. IsTable(plans, Plans, Plan)
      BY <1>1 DEF TypeOK
    <3> QED BY ONLY <2>2, <2>3, <3>1 DEF IsTable
  <2> QED BY <1>1, <1>4, <2>1, <2>2, <2>4, <2>5 DEF SeedPresets, TypeOK, history, paidTime, CardOps
<1>5. CASE SetPolicy(h)
  <2>1. pc[h] = "apply" /\ job[h].op = "policy" /\ job[h] \in Jobs
    BY <1>1, <1>5 DEF SetPolicy, Placed
  <2>2. job[h].value \in Policies
    BY <2>1, JobFields
  <2> QED BY <1>1, <1>5, <2>1, <2>2 DEF SetPolicy, TypeOK, history, paidTime, CardOps
<1> QED BY <1>2, <1>3, <1>4, <1>5 DEF PlanStep

\* A change of a plan or of the policy leaves cards and keys.
LEMMA FramePlan ==
    ASSUME Frame, NEW h \in Handlers, PlanStep(h)
    PROVE  Frame'
<1>1. /\ pc[h] = "apply" /\ IsTable(plans', Plans, Plan) /\ policy' \in Policies
      /\ UNCHANGED <<cards, store, sticky, now, job, seen, shot, total, paidTime, known,
                     outdated, unsaved>>
      /\ raced' \in BOOLEAN
  BY PlanCases
<1>2. PICK l \in {"snap", "idle"} : Goto(h, l)
  BY PlanCases
<1>3. TypeOK'
  BY <1>1, <1>2 DEF Frame, TypeOK, Goto, store, paidTime
<1>4. \A k : Present(k)' => Present(k)
  BY <1>1 DEF Present, store
<1> QED BY <1>1, <1>2, <1>3, <1>4, MoveFrame

\* The ways a step of the ledger ends.
LEMMA LedgerCases ==
    ASSUME Frame, NEW h \in Handlers, Ledger(h)
    PROVE  /\ pc[h] = "ledger" /\ job[h].op \in {"settle", "delete"} /\ job[h].key \in CardKeys
           /\ UNCHANGED <<books, file, sticky, now, job, seen, shot, total, paidTime, known,
                          outdated, unsaved>>
           /\ \/ /\ job[h].op = "settle" /\ db' = Put(db, job[h].key, total[h])
                 /\ raced' = (raced \/ (job[h].key \in DOMAIN db /\ db[job[h].key] > total[h]))
                 /\ Goto(h, "idle")
              \/ /\ db' = db \/ (job[h].op = "delete" /\ db' = Drop(db, job[h].key))
                 /\ raced' = raced /\ Goto(h, "snap")
<1>1. pc[h] = "ledger"
  BY DEF Ledger
<1>2. job[h] \in Jobs /\ job[h].op \in {"settle", "delete"}
  BY <1>1 DEF Frame, Placed
<1>3. job[h].key \in CardKeys
  BY <1>2, JobFields DEF CardOps
<1> QED BY <1>1, <1>2, <1>3 DEF Ledger

\* A row of cards.db is written or dropped for a key that is known.
LEMMA FrameLedger ==
    ASSUME Frame, NEW h \in Handlers, Ledger(h)
    PROVE  Frame'
<1>1. /\ pc[h] = "ledger" /\ job[h].op \in {"settle", "delete"} /\ job[h].key \in CardKeys
      /\ UNCHANGED <<books, file, sticky, now, job, seen, shot, total, paidTime, known,
                     outdated, unsaved>>
  BY LedgerCases
<1>2. IsTable(db, CardKeys, Nat) /\ total[h] \in Nat
  BY DEF Frame, TypeOK
<1>3. PICK l \in {"idle", "snap"} : Goto(h, l)
  BY LedgerCases
<1>4. raced' \in BOOLEAN
  <2>1. raced \in BOOLEAN
    BY DEF Frame, TypeOK
  <2> QED BY <2>1, LedgerCases
<1>5. IsTable(db', CardKeys, Nat) /\ DOMAIN db' \subseteq DOMAIN db \cup {job[h].key}
  <2>1. CASE db' = Put(db, job[h].key, total[h])
    BY ONLY <1>1, <1>2, <2>1 DEF IsTable, Put
  <2>2. CASE db' = db
    BY ONLY <1>2, <2>2
  <2>3. CASE db' = Drop(db, job[h].key)
    BY ONLY <1>2, <2>3 DEF IsTable, Drop
  <2> QED BY <2>1, <2>2, <2>3, LedgerCases
<1>6. TypeOK'
  BY <1>1, <1>3, <1>4, <1>5 DEF Frame, TypeOK, Goto, books, paidTime
<1>7. \A k : Present(k)' => Present(k) \/ Holds(h, k)
  BY <1>1, <1>5 DEF Present, Holds, books, CardOps
<1> QED BY <1>1, <1>3, <1>6, <1>7, MoveFrame

\* A snapshot holds the keys there are in memory.
LEMMA FrameSnapshot ==
    ASSUME Frame, NEW h \in Handlers, TakeSnapshot(h)
    PROVE  Frame'
<1>1. /\ pc[h] = "snap" /\ Goto(h, "write") /\ outdated' = outdated \ {h}
      /\ shot' = [shot EXCEPT ![h] = Snapshot]
      /\ UNCHANGED <<books, store, sticky, now, job, seen, total, paidTime, known, raced, unsaved>>
  BY DEF TakeSnapshot
<1>2. TypeOK
  BY DEF Frame
<1>3. IsSnapshot(Snapshot) /\ Snapshot.cards = cards
  BY <1>2 DEF TypeOK, IsSnapshot, Snapshot
<1>4. DOMAIN shot' = Handlers /\ \A g \in Handlers : shot'[g] = Snapshot \/ shot'[g] = shot[g]
  BY <1>1, <1>2 DEF TypeOK
<1>5. \A g \in Handlers : IsSnapshot(shot'[g])
  BY <1>2, <1>3, <1>4 DEF TypeOK
<1>6. TypeOK'
  BY <1>1, <1>2, <1>4, <1>5 DEF TypeOK, Goto, books, store, paidTime
<1>7. \A k : Present(k)' => Present(k)
  BY <1>1, <1>3, <1>4 DEF Present, books, store
<1> QED BY <1>1, <1>6, <1>7, MoveFrame

\* The file takes the keys of a snapshot.
LEMMA FrameWrite ==
    ASSUME Frame, NEW h \in Handlers, WriteFile(h)
    PROVE  Frame'
<1>1. /\ pc[h] = "write" /\ Goto(h, "idle") /\ (file' = shot[h] \/ file' = file)
      /\ UNCHANGED <<books, db, sticky, now, job, seen, shot, total, paidTime, known>>
  BY DEF WriteFile
<1>2. TypeOK
  BY DEF Frame
<1>3. raced' \in BOOLEAN /\ unsaved' \in BOOLEAN
  BY <1>2 DEF WriteFile, TypeOK
<1>4. outdated' \subseteq Handlers
  BY <1>2 DEF WriteFile, TypeOK
<1>5. IsSnapshot(file')
  BY <1>1, <1>2 DEF TypeOK
<1>6. TypeOK'
  BY <1>1, <1>2, <1>3, <1>4, <1>5 DEF TypeOK, Goto, books, paidTime
<1>7. \A k : Present(k)' => Present(k)
  BY <1>1 DEF Present, books
<1> QED BY <1>1, <1>6, <1>7, MoveFrame

\* A restart gives back the file's keys, which are known.
LEMMA FrameRestart ==
    ASSUME Frame, Restart
    PROVE  Frame'
<1>1. /\ cards' = Loaded /\ db' = Synced /\ plans' = file.plans /\ policy' = file.policy
      /\ sticky' = {} /\ pc' = [h \in Handlers |-> "idle"]
      /\ bought' = [k \in CardKeys |-> IF k \in DOMAIN Loaded /\ Unanswered(k)
                                       THEN Later(Loaded[k].expires, start[k]) - start[k]
                                       ELSE bought[k]]
      /\ UNCHANGED <<file, now, job, seen, shot, total, start, idle, known, outdated, raced, unsaved>>
  BY DEF Restart
<1>2. TypeOK
  BY DEF Frame
<1>3. /\ IsTable(Loaded, CardKeys, Card) /\ DOMAIN Loaded = DOMAIN file.cards
      /\ IsTable(Synced, CardKeys, Nat)
      /\ DOMAIN Synced = DOMAIN db \cup {c \in DOMAIN file.cards : file.cards[c].used > 0}
  BY <1>2, LoadedTable DEF TypeOK
<1>4. bought' \in [CardKeys -> Nat]
  <2>1. ASSUME NEW k \in CardKeys, k \in DOMAIN Loaded
        PROVE  Later(Loaded[k].expires, start[k]) - start[k] \in Nat
    <3>1. Loaded[k].expires \in Nat /\ start[k] \in Nat
      BY <1>2, <1>3, <2>1 DEF TypeOK, IsTable, Card
    <3> QED BY ONLY <3>1 DEF Later
  <2>2. \A k \in CardKeys : bought[k] \in Nat
    BY <1>2 DEF TypeOK
  <2> QED BY <1>1, <2>1, <2>2
<1>5. IsTable(plans', Plans, Plan) /\ policy' \in Policies
  BY <1>1, <1>2 DEF TypeOK, IsSnapshot
<1>6. TypeOK'
  BY <1>1, <1>2, <1>3, <1>4, <1>5 DEF TypeOK
<1>7. \A k : Present(k)' => Present(k)
  BY <1>1, <1>3 DEF Present
<1>8. \A h \in Handlers : pc'[h] = "idle"
  BY <1>1
<1>9. KeysKnown'
  BY <1>1, <1>7, <1>8 DEF Frame, KeysKnown, Holds
<1>10. \A h \in Handlers : Reads(h)' /\ Placed(h)' /\ NewKey(h)'
  BY <1>8 DEF Reads, Placed, NewKey
<1> QED BY <1>6, <1>9, <1>10 DEF Frame

\* Time alone changes no entry.
LEMMA FrameTick ==
    ASSUME Frame, Tick \/ UNCHANGED vars
    PROVE  Frame'
<1>1. /\ UNCHANGED <<books, store, sticky, process, paidTime, known, outdated, raced, unsaved>>
      /\ now' \in Nat
  BY DEF Frame, TypeOK, Tick, vars, history
<1>2. TypeOK'
  BY <1>1 DEF Frame, TypeOK, books, store, process, paidTime
<1>3. \A k : Present(k)' <=> Present(k)
  BY <1>1 DEF Present, books, store, process
<1>4. \A h \in Handlers : \A k : Holds(h, k)' <=> Holds(h, k)
  BY <1>1 DEF Holds, process
<1>5. KeysKnown'
  BY <1>1, <1>3, <1>4 DEF Frame, KeysKnown
<1>6. ASSUME NEW h \in Handlers
      PROVE  Reads(h)' /\ Placed(h)'
  BY <1>1 DEF Frame, Reads, Placed, process
<1>7. ASSUME NEW h \in Handlers
      PROVE  NewKey(h)'
  <2>1. PICK k : k = job[h].key
    OBVIOUS
  <2>2. pc[h] = "apply" /\ job[h].op = "issue" =>
          ~Present(k) /\ \A g \in Handlers \ {h} : ~Holds(g, k)
    BY <2>1 DEF Frame, NewKey
  <2>3. (pc[h] = "apply" /\ job[h].op = "issue")' =>
          ~Present(k)' /\ \A g \in Handlers \ {h} : ~Holds(g, k)'
    BY <1>1, <1>3, <1>4, <2>2 DEF process
  <2>4. k = job'[h].key
    BY <1>1, <2>1 DEF process
  <2> QED BY <2>3, <2>4 DEF NewKey
<1> QED BY <1>2, <1>5, <1>6, <1>7 DEF Frame

\* The process starts with one card.
LEMMA FrameInit ==
    ASSUME Init
    PROVE  Frame
<1>1. PICK p \in Plans, k \in CardKeys : cards = [c \in {k} |-> NewCard(p, Preset[p])]
  BY DEF Init
<1>2. now \in Nat /\ Preset[p] \in Plan
  BY BooksAssumption DEF Init
<1>3. NewCard(p, Preset[p]) \in Card
  BY <1>2, CardIssued
<1>4. IsTable(cards, CardKeys, Card) /\ DOMAIN cards = {k}
  BY <1>1, <1>3 DEF IsTable
<1>5. IsTable(plans, Plans, Plan) /\ policy \in Policies
  BY BooksAssumption DEF Init, IsTable
<1>6. IsSnapshot(file) /\ file.cards = cards
  BY <1>4, <1>5 DEF Init, Snapshot, IsSnapshot
<1>7. IsTable(db, CardKeys, Nat) /\ DOMAIN db = {}
  BY DEF Init, IsTable
<1>8. /\ DOMAIN shot = Handlers /\ \A h \in Handlers : IsSnapshot(shot[h]) /\ shot[h].cards = cards
  BY <1>6 DEF Init
<1>9. bought \in [CardKeys -> Nat]
  <2>1. ASSUME NEW c \in DOMAIN cards, cards[c].expires > 0
        PROVE  cards[c].expires - StartTime \in Nat
    <3>1. cards[c] = NewCard(p, Preset[p]) /\ now = StartTime
      BY <1>1, <2>1 DEF Init
    <3>2. cards[c].expires = IF Preset[p].lazy THEN 0 ELSE StartTime + Preset[p].hours
      BY <1>2, <3>1, CardIssued
    <3>3. StartTime \in Nat /\ Preset[p].hours \in Nat
      BY <1>2, BooksAssumption DEF Plan
    <3> QED BY ONLY <2>1, <3>2, <3>3
  <2> QED BY <2>1 DEF Init
<1>10. /\ sticky = CardKeys /\ pc = [h \in Handlers |-> "idle"]
       /\ job = [h \in Handlers |-> [op |-> "none"]] /\ DOMAIN seen = Handlers
       /\ total = [h \in Handlers |-> 0] /\ start = [c \in CardKeys |-> StartTime]
       /\ idle = {} /\ known = DOMAIN cards /\ outdated = {} /\ raced = FALSE /\ unsaved = FALSE
  BY DEF Init
<1>11. TypeOK
  BY <1>2, <1>4, <1>5, <1>6, <1>7, <1>8, <1>9, <1>10, BooksAssumption DEF TypeOK
<1>12. KeysKnown
  BY <1>6, <1>7, <1>8, <1>10 DEF KeysKnown, Present, Holds
<1>13. \A h \in Handlers : Reads(h) /\ Placed(h) /\ NewKey(h)
  BY <1>10 DEF Reads, Placed, NewKey
<1> QED BY <1>11, <1>12, <1>13 DEF Frame

------------------------------------------------------------------------------
(* What the two stores give back. *)

\* A handler that is about to take a snapshot answers for the file.
LEMMA BusyDue ==
    ASSUME NEW h \in Handlers, Busy(h)', pc'[h] # "write"
    PROVE  FileDue' /\ \A g \in Handlers : ShotDue(g)'
BY DEF FileDue, ShotDue

\* A step that adds no total to memory or to the table.
LEMMA TotalsSame ==
    ASSUME TotalsBehind,
           \A k \in DOMAIN cards' : k \in DOMAIN cards /\ cards'[k].used = cards[k].used,
           \A k \in DOMAIN db' : k \in DOMAIN db /\ db'[k] = db[k],
           \A g \in Handlers : \A k : Settling(g, k)' => Settling(g, k) /\ total'[g] = total[g]
    PROVE  TotalsBehind'
BY DEF TotalsBehind

\* A step that leaves memory, table and settlements alone.
LEMMA SameMemory ==
    ASSUME UNCHANGED <<books, db>>,
           \A g \in Handlers : \A k : Settling(g, k)' <=> Settling(g, k),
           \A g \in Handlers : \A k : Settling(g, k) => total'[g] = total[g]
    PROVE  /\ TotalsBehind' <=> TotalsBehind
           /\ \A s : Faithful(s)' <=> Faithful(s)
<1>1. TotalsBehind' <=> TotalsBehind
  BY DEF TotalsBehind, books
<1>2. ASSUME NEW s, NEW k
      PROVE  Covers(s, k)' <=> Covers(s, k)
  BY DEF Covers, Stored, books
<1>3. \A s : Faithful(s)' <=> Faithful(s)
  BY <1>2 DEF Faithful, books
<1> QED BY <1>1, <1>3

\* A step that leaves the stores alone as well.
LEMMA RecordedSame ==
    ASSUME Recorded, UNCHANGED <<books, store, shot, total, outdated>>,
           \A g \in Handlers : \A k : Settling(g, k)' <=> Settling(g, k),
           \A g \in Handlers : (Busy(g)' <=> Busy(g)) /\ (pc'[g] = "write" <=> pc[g] = "write")
    PROVE  Recorded'
<1>1. /\ TotalsBehind' <=> TotalsBehind
      /\ \A s : Faithful(s)' <=> Faithful(s)
  BY SameMemory DEF store
<1>2. PICK f : f = file /\ f = file'
  BY DEF store
<1>3. FileDue'
  BY <1>1, <1>2 DEF Recorded, FileDue
<1>4. ASSUME NEW g \in Handlers
      PROVE  ShotDue(g)'
  <2>1. PICK s : s = shot[g] /\ s = shot'[g]
    OBVIOUS
  <2> QED BY <1>1, <2>1 DEF Recorded, ShotDue
<1> QED BY <1>1, <1>3, <1>4 DEF Recorded

\* Only the requests themselves move.
LEMMA RecordedReceive ==
    ASSUME Frame, Recorded, NEW h \in Handlers, Receive(h)
    PROVE  Recorded'
<1>1. /\ pc[h] = "idle" /\ pc' = [pc EXCEPT ![h] = "apply"]
      /\ \A g \in Handlers \ {h} : job'[g] = job[g]
      /\ UNCHANGED <<books, store, shot, total, outdated>>
  BY DEF Receive, Goto, Frame, TypeOK
<1>2. pc'[h] = "apply" /\ \A g \in Handlers \ {h} : pc'[g] = pc[g]
  BY <1>1 DEF Frame, TypeOK
<1>3. \A g \in Handlers : \A k : Settling(g, k)' <=> Settling(g, k)
  BY <1>1, <1>2 DEF Settling
<1>4. \A g \in Handlers : (Busy(g)' <=> Busy(g)) /\ (pc'[g] = "write" <=> pc[g] = "write")
  BY <1>1, <1>2 DEF Busy
<1> QED BY <1>1, <1>3, <1>4, RecordedSame

\* An operation that finds nothing to change.
LEMMA RecordedNothing ==
    ASSUME Frame, Recorded, NEW h \in Handlers, pc[h] = "apply", Goto(h, "idle"),
           UNCHANGED <<books, store, shot, total, outdated, job>>
    PROVE  Recorded'
<1>1. pc'[h] = "idle" /\ \A g \in Handlers \ {h} : pc'[g] = pc[g]
  BY DEF Frame, TypeOK, Goto
<1>2. \A g \in Handlers : \A k : Settling(g, k)' <=> Settling(g, k)
  BY <1>1 DEF Settling
<1>3. \A g \in Handlers : (Busy(g)' <=> Busy(g)) /\ (pc'[g] = "write" <=> pc[g] = "write")
  BY <1>1 DEF Busy
<1> QED BY <1>2, <1>3, RecordedSame

\* An operation on memory that is followed by a snapshot.
LEMMA RecordedSnap ==
    ASSUME Frame, TotalsBehind, NEW h \in Handlers, pc[h] = "apply", Goto(h, "snap"),
           UNCHANGED <<db, job>>, \A g \in Handlers \ {h} : total'[g] = total[g],
           \A k \in DOMAIN cards' : k \in DOMAIN cards /\ cards'[k].used = cards[k].used
    PROVE  Recorded'
<1>1. pc'[h] = "snap" /\ \A g \in Handlers \ {h} : pc'[g] = pc[g]
  BY DEF Frame, TypeOK, Goto
<1>2. Busy(h)'
  BY <1>1 DEF Busy
<1>3. \A g \in Handlers : \A k : Settling(g, k)' => Settling(g, k) /\ total'[g] = total[g]
  BY <1>1 DEF Settling
<1>4. TotalsBehind'
  BY <1>3, TotalsSame
<1> QED BY <1>1, <1>2, <1>4, BusyDue DEF Recorded

\* A change that used no stale clone keeps the total, but for a settlement, and
\* finds the card there.
LEMMA FreshChange ==
    ASSUME Frame, NEW h \in Handlers, pc[h] = "apply", job[h].op \in CardOps \ {"issue", "delete"},
           job[h].key \in CardKeys,
           NEW c \in Card, NEW n \in Card, ChangeOf(h, c, n), ~raced'
    PROVE  /\ job[h].key \in DOMAIN cards /\ c = cards[job[h].key]
           /\ DOMAIN cards' = DOMAIN cards /\ cards'[job[h].key] = n
           /\ \A k \in DOMAIN cards \ {job[h].key} : cards'[k] = cards[k]
           /\ job[h].op = "settle" => n = [c EXCEPT !.used = c.used + 1]
           /\ job[h].op # "settle" => n.used = c.used
           /\ job[h].op \in Inserting \cup {"revoke", "settle", "lanes"} => n.expires = c.expires
           /\ job[h].op = "extend" => n.expires = c.expires + ExtraHours
           /\ job[h].op = "extendHours" =>
                n.expires = (IF Activated(c) THEN Later(c.expires, now) ELSE now) + ExtraHours
           /\ job[h].op = "stack" => n.expires = c.expires + seen[h].plan.hours
           /\ job[h].op \in {"activate", "firstCall"} =>
                c.expires = 0 /\ n.expires = now + seen[h].plan.hours
<1> DEFINE k == job[h].key
           op == job[h].op
<1>0. TypeOK /\ Reads(h)
  BY DEF Frame
<1>1. ~raced /\ ~Stale(op, k, seen[h].card)
  BY DEF ChangeOf
<1>2. op \in Inserting => k \in DOMAIN cards /\ cards[k] = seen[h].card
  BY <1>1 DEF Stale
<1>3. k \in DOMAIN cards /\ c = cards[k]
  BY <1>2 DEF ChangeOf
<1>4. op \in {"stack", "activate", "firstCall"} => c.expires = seen[h].card.expires
  BY <1>1, <1>3 DEF Stale
<1>5. /\ DOMAIN cards' = DOMAIN cards /\ cards'[k] = n
      /\ \A x \in DOMAIN cards \ {k} : cards'[x] = cards[x]
  <2>1. cards' = Put(cards, k, n)
    BY DEF ChangeOf
  <2> QED BY ONLY <1>3, <2>1 DEF Put
<1>6. n = Changed(op, c, seen[h].card, seen[h].plan)
  BY DEF ChangeOf
<1>7. /\ op \in Inserting \cup {"stack", "activate", "firstCall"} => seen[h].card \in Card
      /\ op \in {"stack", "activate", "firstCall"} => seen[h].plan \in Plan
      /\ op \in {"activate", "firstCall"} => seen[h].card.expires = 0
      /\ now \in Nat
  BY <1>0 DEF Reads, TypeOK
<1> HIDE DEF op, k
<1>8. op \in CardOps \ {"issue", "delete"}
  BY DEF op
<1>9. /\ op = "settle" => n = [c EXCEPT !.used = c.used + 1]
      /\ op \notin Inserting \cup {"settle"} => n.used = c.used
      /\ op \in Inserting => n.used = seen[h].card.used /\ n.expires = seen[h].card.expires
      /\ op \in {"revoke", "settle", "lanes"} => n.expires = c.expires
      /\ op = "extend" => n.expires = c.expires + ExtraHours
      /\ op = "extendHours" =>
           n.expires = (IF Activated(c) THEN Later(c.expires, now) ELSE now) + ExtraHours
      /\ op = "stack" => n.expires = seen[h].card.expires + seen[h].plan.hours
      /\ op \in {"activate", "firstCall"} => n.expires = now + seen[h].plan.hours
  BY ONLY <1>6, <1>7, <1>8, c \in Card, ChangedCard
<1> USE DEF op, k
<1>10. op \in Inserting => n.used = c.used /\ n.expires = c.expires
  BY <1>2, <1>3, <1>9
<1>11. op # "settle" => n.used = c.used
  BY <1>9, <1>10 DEF Inserting
<1>12. op \in Inserting \cup {"revoke", "settle", "lanes"} => n.expires = c.expires
  BY <1>9, <1>10
<1>13. op = "stack" => n.expires = c.expires + seen[h].plan.hours
  BY <1>4, <1>9
<1>14. op \in {"activate", "firstCall"} => c.expires = 0 /\ n.expires = now + seen[h].plan.hours
  BY <1>4, <1>7, <1>9
<1> QED BY <1>3, <1>5, <1>9, <1>11, <1>12, <1>13, <1>14

\* A settlement in memory.
LEMMA RecordedSettle ==
    ASSUME Frame, Recorded, NEW h \in Handlers, pc[h] = "apply", job[h].op = "settle",
           job[h].key \in DOMAIN cards, NEW c \in Card, c = cards[job[h].key],
           DOMAIN cards' = DOMAIN cards, cards'[job[h].key] = [c EXCEPT !.used = c.used + 1],
           \A k \in DOMAIN cards \ {job[h].key} : cards'[k] = cards[k],
           total' = [total EXCEPT ![h] = c.used + 1], Goto(h, "ledger"),
           UNCHANGED <<plans, policy, store, job, shot, outdated>>
    PROVE  Recorded'
<1> DEFINE k == job[h].key
<1>0. TypeOK /\ c.used \in Nat
  BY DEF Frame, Card
<1>1. /\ pc'[h] = "ledger" /\ \A g \in Handlers \ {h} : pc'[g] = pc[g]
      /\ total'[h] = c.used + 1 /\ \A g \in Handlers \ {h} : total'[g] = total[g]
  BY <1>0 DEF TypeOK, Goto
<1>2. cards'[k] \in Card /\ cards'[k].used = c.used + 1
  BY <1>0 DEF Card
<1>3. \A x \in DOMAIN cards : cards[x] \in Card /\ cards[x].used \in Nat
  BY <1>0 DEF TypeOK, IsTable, Card
<1>4. Settling(h, k)' /\ \A x : Settling(h, x)' => x = k
  BY <1>1 DEF Settling
<1>5. \A g \in Handlers \ {h} : \A x : Settling(g, x)' <=> Settling(g, x)
  BY <1>1 DEF Settling
<1>6. \A x : ~Settling(h, x)
  BY DEF Settling
<1>7. TotalsBehind'
  <2>1. ASSUME NEW x \in DOMAIN cards, x \in DOMAIN db
        PROVE  db[x] <= cards'[x].used
    <3>1. db[x] <= cards[x].used /\ db[x] \in Nat
      BY <1>0, <2>1 DEF Recorded, TotalsBehind, TypeOK, IsTable
    <3>2. CASE x = k
      <4>1. db[x] <= c.used /\ cards'[x].used = c.used + 1
        BY <1>2, <3>1, <3>2
      <4>2. c.used \in Nat /\ db[x] \in Nat
        BY <1>0, <3>1
      <4> QED BY ONLY <4>1, <4>2
    <3>3. CASE x # k
      BY <2>1, <3>1, <3>3
    <3> QED BY <3>2, <3>3
  <2>2. ASSUME NEW g \in Handlers, NEW x \in DOMAIN cards, Settling(g, x)'
        PROVE  total'[g] <= cards'[x].used
    <3>1. CASE g = h
      <4>1. x = k /\ total'[g] = c.used + 1
        BY <1>1, <1>4, <2>2, <3>1
      <4>2. cards'[x].used = c.used + 1
        BY <1>2, <4>1
      <4>3. c.used \in Nat
        BY <1>0
      <4> QED BY ONLY <4>1, <4>2, <4>3
    <3>2. CASE g # h
      <4>1. total[g] <= cards[x].used /\ total'[g] = total[g] /\ total[g] \in Nat
        BY <1>0, <1>1, <1>5, <2>2, <3>2 DEF Recorded, TotalsBehind, TypeOK
      <4>2. CASE x = k
        <5>1. total[g] <= c.used /\ cards'[x].used = c.used + 1
          BY <1>2, <4>1, <4>2
        <5>2. c.used \in Nat
          BY <1>0
        <5> QED BY ONLY <4>1, <5>1, <5>2
      <4>3. CASE x # k
        BY <2>2, <4>1, <4>3
      <4> QED BY <4>2, <4>3
    <3> QED BY <3>1, <3>2
  <2> QED BY <2>1, <2>2 DEF TotalsBehind, store
<1>8. ASSUME NEW s, IsSnapshot(s), Faithful(s)
      PROVE  Faithful(s)'
  <2>1. /\ s.plans = plans' /\ s.policy = policy' /\ DOMAIN s.cards = DOMAIN cards'
    BY <1>8 DEF Faithful
  <2>2. s.cards[k] \in Card /\ c = [s.cards[k] EXCEPT !.used = c.used] /\ s.cards[k].used <= c.used
    BY <1>8 DEF Faithful, Covers, IsSnapshot, IsTable
  <2>3. cards'[k] = [s.cards[k] EXCEPT !.used = cards'[k].used]
    <3>1. PICK d \in Card : d = s.cards[k]
      BY <2>2
    <3>2. c = [d EXCEPT !.used = c.used] /\ cards'[k] = [c EXCEPT !.used = c.used + 1]
      BY <2>2, <3>1
    <3>3. cards'[k] = [d EXCEPT !.used = c.used + 1]
      BY ONLY <3>2, c \in Card, d \in Card DEF Card
    <3> QED BY <1>2, <3>1, <3>3
  <2>4. Covers(s, k)'
    <3>1. s.cards[k].used <= cards'[k].used
      <4>1. s.cards[k].used \in Nat
        BY <2>2 DEF Card
      <4> QED BY <1>0, <1>2, <2>2, <4>1
    <3>2. \E g \in Handlers : Settling(g, k)' /\ total'[g] = cards'[k].used
      BY <1>1, <1>2, <1>4
    <3> QED BY <3>1, <3>2 DEF Covers
  <2>5. ASSUME NEW x \in DOMAIN cards, x # k
        PROVE  cards'[x] = [s.cards[x] EXCEPT !.used = cards'[x].used] /\ Covers(s, x)'
    <3>1. cards[x] = [s.cards[x] EXCEPT !.used = cards[x].used] /\ Covers(s, x)
      BY <1>8, <2>5 DEF Faithful
    <3>2. cards'[x] = cards[x]
      BY <2>5
    <3>3. Stored(x)' = Stored(x)
      BY DEF Stored, store
    <3>4. \A g \in Handlers : Settling(g, x) => Settling(g, x)' /\ total'[g] = total[g]
      BY <1>1, <1>5, <1>6
    <3> QED BY <3>1, <3>2, <3>3, <3>4 DEF Covers
  <2> QED BY <2>1, <2>3, <2>4, <2>5 DEF Faithful
<1>9. \A g \in Handlers : (Busy(g)' <=> Busy(g)) /\ (pc'[g] = "write" <=> pc[g] = "write")
  BY <1>1 DEF Busy
<1>10. FileDue'
  <2>1. PICK f : f = file /\ f = file'
    BY DEF store
  <2>2. IsSnapshot(f)
    BY <1>0, <2>1 DEF TypeOK
  <2> QED BY <1>8, <1>9, <2>1, <2>2 DEF Recorded, FileDue
<1>11. ASSUME NEW g \in Handlers
       PROVE  ShotDue(g)'
  <2>1. PICK f : f = shot[g] /\ f = shot'[g]
    OBVIOUS
  <2>2. IsSnapshot(f)
    BY <1>0, <2>1 DEF TypeOK
  <2> QED BY <1>8, <1>9, <2>1, <2>2 DEF Recorded, ShotDue
<1> QED BY <1>7, <1>10, <1>11 DEF Recorded

\* A changed entry has a save or a settlement to follow.
LEMMA RecordedApply ==
    ASSUME Frame, Recorded, NEW h \in Handlers, ApplyToCard(h), ~raced'
    PROVE  Recorded'
<1>1. /\ pc[h] = "apply" /\ job[h].key \in CardKeys
      /\ job[h].op \in CardOps \ {"issue", "delete"}
      /\ UNCHANGED <<plans, policy, store, now, job, seen, shot, known, outdated, unsaved>>
  BY ApplyCases
<1>2. CASE Goto(h, "idle") /\ UNCHANGED <<cards, raced, sticky, total, paidTime>>
  BY <1>1, <1>2, RecordedNothing DEF books
<1>3. ASSUME NEW c \in Card, NEW n \in Card, ChangeOf(h, c, n)
      PROVE  Recorded'
  <2>1. /\ job[h].key \in DOMAIN cards /\ c = cards[job[h].key]
        /\ DOMAIN cards' = DOMAIN cards /\ cards'[job[h].key] = n
        /\ \A k \in DOMAIN cards \ {job[h].key} : cards'[k] = cards[k]
        /\ job[h].op = "settle" => n = [c EXCEPT !.used = c.used + 1]
        /\ job[h].op # "settle" => n.used = c.used
    BY <1>1, <1>3, FreshChange
  <2>2. /\ total' = [total EXCEPT ![h] = n.used]
        /\ Goto(h, IF job[h].op = "settle" THEN "ledger" ELSE "snap")
    BY <1>3 DEF ChangeOf
  <2>3. CASE job[h].op = "settle"
    <3>1. n.used = c.used + 1
      BY <2>1, <2>3 DEF Card
    <3> QED BY <1>1, <2>1, <2>2, <2>3, <3>1, RecordedSettle
  <2>4. CASE job[h].op # "settle"
    <3>1. \A k \in DOMAIN cards' : k \in DOMAIN cards /\ cards'[k].used = cards[k].used
      BY <2>1, <2>4
    <3>2. \A g \in Handlers \ {h} : total'[g] = total[g]
      BY <2>2 DEF Frame, TypeOK
    <3>3. Goto(h, "snap") /\ UNCHANGED db
      BY <1>1, <2>2, <2>4 DEF store
    <3> QED BY <1>1, <3>1, <3>2, <3>3, RecordedSnap DEF Recorded
  <2> QED BY <2>3, <2>4
<1> QED BY <1>2, <1>3, ApplyCases

\* A new card has no total, and no settlement is on its way to it.
LEMMA RecordedIssue ==
    ASSUME Frame, Recorded, NEW h \in Handlers, IssueCard(h)
    PROVE  Recorded'
<1>1. /\ TypeOK /\ pc[h] = "apply" /\ job[h].op = "issue" /\ job[h] \in Jobs
      /\ seen[h].plan \in Plan /\ ~Present(job[h].key)
      /\ \A g \in Handlers \ {h} : ~Holds(g, job[h].key)
  BY DEF Frame, IssueCard, Placed, Reads, NewKey
<1>2. job[h].key \in CardKeys /\ job[h].plan \in Plans
  BY <1>1, JobFields DEF CardOps
<1>3. PICK n : n = NewCard(job[h].plan, seen[h].plan)
  OBVIOUS
<1>4. n \in Card /\ n.used = 0
  BY <1>1, <1>2, <1>3, CardIssued DEF TypeOK
<1>5. PICK k : k = job[h].key
  OBVIOUS
<1>6. k \notin DOMAIN cards /\ k \notin DOMAIN db
  BY <1>1, <1>5 DEF Present
<1>7. DOMAIN cards' = DOMAIN cards \cup {k} /\ cards'[k] = n /\ \A x \in DOMAIN cards : cards'[x] = cards[x]
  <2>1. cards' = Put(cards, k, n)
    BY <1>3, <1>5 DEF IssueCard
  <2> QED BY ONLY <1>6, <2>1 DEF Put
<1>8. pc'[h] = "snap" /\ \A g \in Handlers \ {h} : pc'[g] = pc[g]
  BY <1>1 DEF IssueCard, Goto, TypeOK
<1>9. \A g \in Handlers : \A x : Settling(g, x)' => Settling(g, x) /\ x # k
  <2>1. \A g \in Handlers : \A x : Settling(g, x)' => g # h /\ Settling(g, x)
    BY <1>8 DEF Settling, IssueCard
  <2>2. \A g \in Handlers : Settling(g, k) => Holds(g, k)
    BY DEF Settling, Holds, CardOps
  <2> QED BY <1>1, <1>5, <2>1, <2>2
<1>10. TotalsBehind'
  BY <1>6, <1>7, <1>9 DEF Recorded, TotalsBehind, IssueCard, store
<1>11. Busy(h)'
  BY <1>8 DEF Busy
<1> QED BY <1>8, <1>10, <1>11, BusyDue DEF Recorded

\* A deleted card has its row and its save to follow.
LEMMA RecordedDelete ==
    ASSUME Frame, Recorded, NEW h \in Handlers, DeleteCard(h)
    PROVE  Recorded'
<1>1. /\ TypeOK /\ pc[h] = "apply" /\ job[h].op = "delete"
      /\ UNCHANGED <<plans, policy, store, now, job, seen, shot, total, history>>
  BY DEF Frame, DeleteCard
<1>2. /\ DOMAIN cards' = DOMAIN cards \ {job[h].key}
      /\ \A k \in DOMAIN cards' : cards'[k] = cards[k]
      /\ job[h].key \notin DOMAIN cards => cards' = cards
  <2>1. IsTable(cards, CardKeys, Card) /\ cards' = Drop(cards, job[h].key)
    BY <1>1 DEF TypeOK, DeleteCard
  <2> QED BY ONLY <2>1 DEF IsTable, Drop
<1>3. CASE job[h].key \notin DOMAIN cards
  <2>1. Goto(h, "idle")
    BY <1>3 DEF DeleteCard
  <2> QED BY <1>1, <1>2, <1>3, <2>1, RecordedNothing DEF books, history
<1>4. CASE job[h].key \in DOMAIN cards
  <2>1. pc'[h] = "ledger" /\ \A g \in Handlers \ {h} : pc'[g] = pc[g]
    BY <1>1, <1>4 DEF DeleteCard, Goto, TypeOK
  <2>2. \A g \in Handlers : \A k : Settling(g, k)' => Settling(g, k) /\ total'[g] = total[g]
    BY <1>1, <2>1 DEF Settling
  <2>3. TotalsBehind'
    BY <1>1, <1>2, <2>2, TotalsSame DEF Recorded, store
  <2>4. Busy(h)'
    BY <1>1, <2>1 DEF Busy
  <2> QED BY <2>1, <2>3, <2>4, BusyDue DEF Recorded
<1> QED BY <1>3, <1>4

\* A changed plan has a save to follow.
LEMMA RecordedPlan ==
    ASSUME Frame, Recorded, NEW h \in Handlers, PlanStep(h)
    PROVE  Recorded'
<1>1. /\ pc[h] = "apply"
      /\ UNCHANGED <<cards, store, job, shot, total, outdated>>
  BY PlanCases
<1>2. CASE Goto(h, "snap")
  BY <1>1, <1>2, RecordedSnap DEF Recorded, store
<1>3. CASE Goto(h, "idle") /\ UNCHANGED <<plans, policy>>
  BY <1>1, <1>3, RecordedNothing DEF books
<1> QED BY <1>2, <1>3, PlanCases

\* A settlement that reaches the table.
LEMMA RecordedRow ==
    ASSUME Frame, Recorded, NEW h \in Handlers, pc[h] = "ledger", job[h].op = "settle",
           NEW k \in CardKeys, k = job[h].key, db' = Put(db, k, total[h]),
           ~(k \in DOMAIN db /\ db[k] > total[h]), Goto(h, "idle"),
           UNCHANGED <<books, file, job, shot, total, outdated>>
    PROVE  Recorded'
<1>0. TypeOK /\ total[h] \in Nat
  BY DEF Frame, TypeOK
<1>1. pc'[h] = "idle" /\ \A g \in Handlers \ {h} : pc'[g] = pc[g]
  BY <1>0 DEF TypeOK, Goto
<1>2. Settling(h, k) /\ \A x : ~Settling(h, x)'
  BY <1>1 DEF Settling
<1>3. \A g \in Handlers \ {h} : \A x : Settling(g, x)' <=> Settling(g, x)
  BY <1>1 DEF Settling
<1>4. \A x : x # k => ~Settling(h, x)
  BY DEF Settling
<1>5. /\ DOMAIN db' = DOMAIN db \cup {k} /\ db'[k] = total[h]
      /\ \A x \in DOMAIN db \ {k} : db'[x] = db[x]
  BY ONLY db' = Put(db, k, total[h]) DEF Put
<1>6. k \in DOMAIN cards => total[h] <= cards[k].used
  BY <1>2 DEF Recorded, TotalsBehind
<1>7. TotalsBehind'
  <2>1. ASSUME NEW x \in DOMAIN cards, x \in DOMAIN db'
        PROVE  db'[x] <= cards[x].used
    <3>1. CASE x = k
      BY <1>5, <1>6, <2>1, <3>1
    <3>2. CASE x # k
      BY <1>5, <2>1, <3>2 DEF Recorded, TotalsBehind
    <3> QED BY <3>1, <3>2
  <2>2. ASSUME NEW g \in Handlers, NEW x \in DOMAIN cards, Settling(g, x)'
        PROVE  total[g] <= cards[x].used
    BY <1>2, <1>3, <2>2 DEF Recorded, TotalsBehind
  <2> QED BY <2>1, <2>2 DEF TotalsBehind, books
<1>8. ASSUME NEW s, IsSnapshot(s), Faithful(s)
      PROVE  Faithful(s)'
  <2>1. ASSUME NEW x \in DOMAIN cards
        PROVE  Covers(s, x)'
    <3>1. Covers(s, x) /\ x \in DOMAIN s.cards
      BY <1>8, <2>1 DEF Faithful
    <3>2. CASE x # k
      <4>1. Stored(x)' = Stored(x)
        BY <1>5, <3>2 DEF Stored
      <4>2. \A g \in Handlers : Settling(g, x) => Settling(g, x)'
        BY <1>3, <1>4, <3>2
      <4> QED BY <3>1, <4>1, <4>2 DEF Covers, books
    <3>3. CASE x = k
      <4>1. PICK u, t, v : u = s.cards[k].used /\ t = total[h] /\ v = cards[k].used
        OBVIOUS
      <4>2. u \in Nat /\ t \in Nat /\ v \in Nat /\ Stored(k) \in Nat /\ u <= v /\ t <= v
        <5>1. s.cards[k] \in Card /\ cards[k] \in Card
          BY <1>0, <1>8, <2>1, <3>1, <3>3 DEF IsSnapshot, IsTable, TypeOK
        <5>2. u \in Nat /\ v \in Nat
          BY <4>1, <5>1 DEF Card
        <5>3. Stored(k) \in Nat
          BY <1>0 DEF Stored, TypeOK, IsTable
        <5> QED BY <1>0, <1>6, <2>1, <3>1, <3>3, <4>1, <5>2, <5>3 DEF Covers
      <4>3. Stored(k)' = t
        BY <1>5, <4>1 DEF Stored
      <4>4. Stored(k) <= t \/ Stored(k) = 0
        <5>1. k \in DOMAIN db => db[k] \in Nat
          BY <1>0 DEF TypeOK, IsTable
        <5> QED BY <1>0, <4>1, <4>2, <5>1 DEF Stored
      <4>5. \/ Later(u, t) = v
            \/ \E g \in Handlers \ {h} : Settling(g, k) /\ total[g] = v
        <5>1. CASE Later(u, Stored(k)) = v
          BY ONLY <4>2, <4>4, <5>1 DEF Later
        <5>2. ASSUME NEW g \in Handlers, Settling(g, k), total[g] = v
              PROVE  \/ Later(u, t) = v
                     \/ \E f \in Handlers \ {h} : Settling(f, k) /\ total[f] = v
          <6>1. CASE g = h
            BY <4>1, <4>2, <5>2, <6>1 DEF Later
          <6>2. CASE g # h
            BY <5>2, <6>2
          <6> QED BY <6>1, <6>2
        <5> QED BY <3>1, <3>3, <4>1, <5>1, <5>2 DEF Covers
      <4>6. s.cards[k].used <= cards'[k].used /\ v = cards'[k].used
        BY <4>1, <4>2 DEF books
      <4>7. \/ Later(s.cards[k].used, Stored(k)') = cards'[k].used
            \/ \E g \in Handlers : Settling(g, k)' /\ total'[g] = cards'[k].used
        BY <1>3, <4>1, <4>3, <4>5, <4>6
      <4> QED BY <3>3, <4>6, <4>7 DEF Covers
    <3> QED BY <3>2, <3>3
  <2> QED BY <1>8, <2>1 DEF Faithful, books
<1>9. \A g \in Handlers : (Busy(g)' <=> Busy(g)) /\ (pc'[g] = "write" <=> pc[g] = "write")
  BY <1>1 DEF Busy
<1>10. FileDue'
  <2>1. PICK f : f = file /\ f = file'
    OBVIOUS
  <2>2. IsSnapshot(f)
    BY <1>0, <2>1 DEF TypeOK
  <2> QED BY <1>8, <1>9, <2>1, <2>2 DEF Recorded, FileDue
<1>11. ASSUME NEW g \in Handlers
       PROVE  ShotDue(g)'
  <2>1. PICK f : f = shot[g] /\ f = shot'[g]
    OBVIOUS
  <2>2. IsSnapshot(f)
    BY <1>0, <2>1 DEF TypeOK
  <2> QED BY <1>8, <1>9, <2>1, <2>2 DEF Recorded, ShotDue
<1> QED BY <1>7, <1>10, <1>11 DEF Recorded

\* A settlement is in cards.db, or a save takes its place.
LEMMA RecordedLedger ==
    ASSUME Frame, Recorded, NEW h \in Handlers, Ledger(h), ~raced'
    PROVE  Recorded'
<1>1. /\ pc[h] = "ledger" /\ job[h].op \in {"settle", "delete"} /\ job[h].key \in CardKeys
      /\ UNCHANGED <<books, file, sticky, now, job, seen, shot, total, paidTime, known,
                     outdated, unsaved>>
  BY LedgerCases
<1>2. CASE /\ job[h].op = "settle" /\ db' = Put(db, job[h].key, total[h])
           /\ raced' = (raced \/ (job[h].key \in DOMAIN db /\ db[job[h].key] > total[h]))
           /\ Goto(h, "idle")
  <2>1. ~(job[h].key \in DOMAIN db /\ db[job[h].key] > total[h])
    BY <1>2
  <2> QED BY <1>1, <1>2, <2>1, RecordedRow
<1>3. CASE /\ db' = db \/ (job[h].op = "delete" /\ db' = Drop(db, job[h].key))
           /\ raced' = raced /\ Goto(h, "snap")
  <2>1. pc'[h] = "snap" /\ \A g \in Handlers \ {h} : pc'[g] = pc[g]
    BY <1>3 DEF Frame, TypeOK, Goto
  <2>2. \A k \in DOMAIN db' : k \in DOMAIN db /\ db'[k] = db[k]
    BY <1>3 DEF Drop
  <2>3. \A g \in Handlers : \A k : Settling(g, k)' => Settling(g, k) /\ total'[g] = total[g]
    BY <1>1, <2>1 DEF Settling
  <2>4. TotalsBehind'
    BY <1>1, <2>2, <2>3, TotalsSame DEF Recorded, books
  <2>5. Busy(h)'
    BY <2>1 DEF Busy
  <2> QED BY <2>1, <2>4, <2>5, BusyDue DEF Recorded
<1> QED BY <1>2, <1>3, LedgerCases

\* A snapshot is faithful when it is taken.
LEMMA RecordedSnapshot ==
    ASSUME Frame, Recorded, NEW h \in Handlers, TakeSnapshot(h)
    PROVE  Recorded'
<1>1. /\ pc[h] = "snap" /\ Goto(h, "write") /\ outdated' = outdated \ {h}
      /\ shot' = [shot EXCEPT ![h] = Snapshot]
      /\ UNCHANGED <<books, store, job, total>>
  BY DEF TakeSnapshot
<1>2. TypeOK
  BY DEF Frame
<1>3. /\ pc'[h] = "write" /\ \A g \in Handlers \ {h} : pc'[g] = pc[g]
      /\ shot'[h] = Snapshot
  BY <1>1, <1>2 DEF TypeOK, Goto
<1>4. \A g \in Handlers : \A k : Settling(g, k)' <=> Settling(g, k)
  BY <1>1, <1>3 DEF Settling
<1>5. /\ TotalsBehind'
      /\ \A s : Faithful(s)' <=> Faithful(s)
  BY <1>1, <1>4, SameMemory DEF store, Recorded
<1>6. PICK s : s = Snapshot
  OBVIOUS
<1>7. Faithful(s)
  <2>1. s.cards = cards /\ s.plans = plans /\ s.policy = policy
    BY <1>6 DEF Snapshot
  <2>2. ASSUME NEW k \in DOMAIN cards
        PROVE  cards[k] = [s.cards[k] EXCEPT !.used = cards[k].used] /\ Covers(s, k)
    <3>1. cards[k] \in Card
      BY <1>2 DEF TypeOK, IsTable
    <3>2. cards[k].used \in Nat
      BY <3>1 DEF Card
    <3>3. Stored(k) \in Nat /\ Stored(k) <= cards[k].used
      BY <1>2, <3>2 DEF Stored, TypeOK, IsTable, Recorded, TotalsBehind
    <3>4. Later(cards[k].used, Stored(k)) = cards[k].used
      BY ONLY <3>2, <3>3 DEF Later
    <3>5. cards[k] = [cards[k] EXCEPT !.used = cards[k].used]
      BY ONLY <3>1 DEF Card
    <3> QED BY <2>1, <3>2, <3>4, <3>5 DEF Covers
  <2> QED BY <2>1, <2>2 DEF Faithful
<1>8. Busy(h)'
  BY <1>3 DEF Busy
<1>9. FileDue'
  BY <1>8 DEF FileDue
<1>10. ASSUME NEW g \in Handlers
       PROVE  ShotDue(g)'
  <2>1. CASE g = h
    BY <1>3, <1>5, <1>6, <1>7, <2>1 DEF ShotDue
  <2>2. CASE g # h
    BY <1>8, <2>2 DEF ShotDue
  <2> QED BY <2>1, <2>2
<1> QED BY <1>5, <1>9, <1>10 DEF Recorded

\* A save that is not outdated leaves a faithful file, or one somebody else
\* will write again.
LEMMA RecordedWrite ==
    ASSUME Frame, Recorded, NEW h \in Handlers, WriteFile(h), ~raced', ~unsaved'
    PROVE  Recorded'
<1>1. /\ pc[h] = "write" /\ Goto(h, "idle") /\ file' = shot[h] /\ h \notin outdated
      /\ outdated' = outdated \cup {g \in Handlers \ {h} : pc[g] = "write"}
      /\ UNCHANGED <<books, db, job, shot, total>>
  BY DEF WriteFile
<1>2. pc'[h] = "idle" /\ \A g \in Handlers \ {h} : pc'[g] = pc[g]
  BY <1>1 DEF Frame, TypeOK, Goto
<1>3. \A g \in Handlers : \A k : Settling(g, k)' <=> Settling(g, k)
  BY <1>1, <1>2 DEF Settling
<1>4. /\ TotalsBehind'
      /\ \A s : Faithful(s)' <=> Faithful(s)
  BY <1>1, <1>3, SameMemory DEF Recorded
<1>5. PICK s : s = shot[h] /\ s = file'
  BY <1>1
<1>6. \A g \in Handlers \ {h} : Busy(g) => Busy(g)'
  BY <1>1, <1>2 DEF Busy
<1>7. FileDue'
  <2>1. Faithful(s) \/ \E g \in Handlers \ {h} : Busy(g)
    BY <1>1, <1>5 DEF Recorded, ShotDue
  <2> QED BY <1>4, <1>5, <1>6, <2>1 DEF FileDue
<1>8. \A g \in Handlers : ShotDue(g)'
  BY <1>1, <1>2 DEF ShotDue
<1> QED BY <1>4, <1>7, <1>8 DEF Recorded

\* After a restart the stores give back what they have just given.
LEMMA RecordedRestart ==
    ASSUME Frame, Restart
    PROVE  Recorded'
<1>1. /\ cards' = Loaded /\ db' = Synced /\ plans' = file.plans /\ policy' = file.policy
      /\ file' = file /\ \A h \in Handlers : pc'[h] = "idle"
  BY DEF Restart
<1>2. TypeOK
  BY DEF Frame
<1>3. /\ IsTable(Loaded, CardKeys, Card) /\ DOMAIN Loaded = DOMAIN file.cards
      /\ DOMAIN Synced = DOMAIN db \cup {c \in DOMAIN file.cards : file.cards[c].used > 0}
      /\ \A k \in DOMAIN Loaded :
           /\ Loaded[k].used = Later(file.cards[k].used, Stored(k))
           /\ Loaded[k] = [file.cards[k] EXCEPT !.used = Loaded[k].used]
      /\ \A k \in DOMAIN Synced \cap DOMAIN file.cards : Synced[k] = Loaded[k].used
  BY <1>2, LoadedTable DEF TypeOK
<1>4. \A k \in DOMAIN Loaded : Loaded[k].used \in Nat
  BY <1>3 DEF IsTable, Card
<1>5. TotalsBehind'
  BY <1>1, <1>3, <1>4 DEF TotalsBehind, Settling
<1>6. PICK f : f = file /\ f = file'
  BY <1>1
<1>7. ASSUME NEW k \in DOMAIN Loaded
      PROVE  Covers(f, k)'
  <2>1. PICK u : u = f.cards[k].used
    OBVIOUS
  <2>2. u \in Nat /\ Stored(k) \in Nat
    BY <1>2, <1>3, <1>6, <1>7, <2>1 DEF TypeOK, IsSnapshot, IsTable, Card, Stored
  <2>3. Loaded[k].used = Later(u, Stored(k))
    BY <1>3, <1>6, <1>7, <2>1
  <2>4. k \in DOMAIN Synced => Synced[k] = Loaded[k].used
    BY <1>3, <1>7
  <2>5. k \notin DOMAIN Synced => Stored(k) = 0 /\ ~(u > 0)
    BY <1>3, <1>6, <1>7, <2>1 DEF Stored
  <2>6. Stored(k)' = IF k \in DOMAIN Synced THEN Loaded[k].used ELSE 0
    BY <1>1, <2>4 DEF Stored
  <2>7. u <= Loaded[k].used
    BY ONLY <2>2, <2>3 DEF Later
  <2>8. Later(u, Stored(k)') = Loaded[k].used
    <3>1. CASE k \in DOMAIN Synced
      <4>1. Stored(k)' = Loaded[k].used
        BY <2>6, <3>1
      <4> QED BY ONLY <2>2, <2>3, <4>1 DEF Later
    <3>2. CASE k \notin DOMAIN Synced
      <4>1. Stored(k)' = 0 /\ Stored(k) = 0 /\ ~(u > 0)
        BY <2>5, <2>6, <3>2
      <4> QED BY ONLY <2>2, <2>3, <4>1 DEF Later
    <3> QED BY <3>1, <3>2
  <2> QED BY <1>1, <2>1, <2>7, <2>8 DEF Covers
<1>8. Faithful(f)'
  BY <1>1, <1>3, <1>6, <1>7 DEF Faithful
<1>9. FileDue'
  BY <1>6, <1>8 DEF FileDue
<1>10. \A g \in Handlers : ShotDue(g)'
  BY <1>1 DEF ShotDue
<1> QED BY <1>5, <1>9, <1>10 DEF Recorded

\* Time and stuttering.
LEMMA RecordedTick ==
    ASSUME Recorded, Tick \/ UNCHANGED vars
    PROVE  Recorded'
<1>1. UNCHANGED <<books, store, pc, job, shot, total, outdated>>
  BY DEF Tick, vars, process, history
<1>2. \A g \in Handlers : \A k : Settling(g, k)' <=> Settling(g, k)
  BY <1>1 DEF Settling
<1>3. \A g \in Handlers : (Busy(g)' <=> Busy(g)) /\ (pc'[g] = "write" <=> pc[g] = "write")
  BY <1>1 DEF Busy
<1> QED BY <1>1, <1>2, <1>3, RecordedSame

\* The process starts from its own file.
LEMMA RecordedInit ==
    ASSUME Init, Frame
    PROVE  Recorded
<1>1. /\ \A h \in Handlers : pc[h] = "idle"
      /\ file.cards = cards /\ file.plans = plans /\ file.policy = policy /\ DOMAIN db = {}
  BY DEF Init, Snapshot
<1>2. TotalsBehind
  BY <1>1 DEF TotalsBehind, Settling
<1>3. ASSUME NEW k \in DOMAIN cards
      PROVE  cards[k] = [file.cards[k] EXCEPT !.used = cards[k].used] /\ Covers(file, k)
  <2>1. cards[k] \in Card
    BY DEF Frame, TypeOK, IsTable
  <2>2. cards[k] = [cards[k] EXCEPT !.used = cards[k].used] /\ cards[k].used \in Nat
    BY ONLY <2>1 DEF Card
  <2>3. Stored(k) = 0
    BY <1>1 DEF Stored
  <2>4. Later(cards[k].used, Stored(k)) = cards[k].used
    BY ONLY <2>2, <2>3 DEF Later
  <2> QED BY <1>1, <2>2, <2>4 DEF Covers
<1>4. Faithful(file)
  BY <1>1, <1>3 DEF Faithful
<1> QED BY <1>1, <1>2, <1>4 DEF Recorded, FileDue, ShotDue

------------------------------------------------------------------------------
(* The time paid for. *)

\* A step that changes the end of no card.
LEMMA TimedSame ==
    ASSUME Timed, DOMAIN cards' = DOMAIN cards,
           \A k \in DOMAIN cards : cards'[k].expires = cards[k].expires,
           UNCHANGED <<file, shot, outdated, paidTime>>,
           \A g \in Handlers : \A k : Due(g, k) => Due(g, k)',
           \A g \in Handlers : pc'[g] = "write" => pc[g] = "write"
    PROVE  Timed'
<1>1. \A s, k : SameTime(s, k) => SameTime(s, k)'
  BY DEF SameTime
<1>2. \A s, k : BehindAt(s, k) => BehindAt(s, k)'
  BY DEF BehindAt, paidTime
<1>3. \A s : Behind(s) => Behind(s)'
  BY <1>2 DEF Behind
<1>4. PICK f : f = file /\ f = file'
  OBVIOUS
<1>5. FileTimed' /\ Behind(file)'
  BY <1>1, <1>3, <1>4 DEF Timed, FileTimed
<1>6. ASSUME NEW g \in Handlers
      PROVE  ShotTimed(g)' /\ (pc'[g] = "write" => Behind(shot[g])')
  <2>1. PICK s : s = shot[g] /\ s = shot'[g]
    OBVIOUS
  <2>2. ASSUME pc'[g] = "write", g \notin outdated', NEW k \in CardKeys,
               \A h \in Handlers \ {g} : ~Due(h, k)'
        PROVE  SameTime(s, k)'
    <3>1. SameTime(s, k)
      BY <2>1, <2>2 DEF Timed, ShotTimed
    <3> QED BY <1>1, <3>1
  <2>3. pc'[g] = "write" => Behind(s)'
    BY <1>3, <2>1 DEF Timed
  <2> QED BY <2>1, <2>2, <2>3 DEF ShotTimed
<1>7. \A k \in CardKeys : PaidAt(k)'
  BY DEF Timed, PaidAt, Activated, paidTime
<1> QED BY <1>5, <1>6, <1>7 DEF Timed

\* A snapshot that was written or may be.
Saved(s) == s = file \/ \E g \in Handlers : s = shot[g]

\* A step that changes one card, whose request is not answered.
LEMMA TimedOne ==
    ASSUME Frame, Timed, NEW h \in Handlers, NEW k \in CardKeys, Due(h, k)', pc'[h] # "write",
           \A g \in Handlers : \A x : Due(g, x) => Due(g, x)',
           \A g \in Handlers : pc'[g] = "write" => pc[g] = "write",
           UNCHANGED <<file, shot, outdated>>,
           \A x \in CardKeys \ {k} :
             /\ x \in DOMAIN cards' <=> x \in DOMAIN cards
             /\ x \in DOMAIN cards => cards'[x].expires = cards[x].expires
             /\ start'[x] = start[x] /\ bought'[x] = bought[x] /\ (x \in idle' <=> x \in idle),
           \A s : Saved(s) /\ k \in DOMAIN s.cards /\ BehindAt(s, k) => BehindAt(s, k)',
           PaidAt(k)'
    PROVE  Timed'
<1>0. TypeOK
  BY DEF Frame
<1>1. ASSUME NEW s, NEW x \in CardKeys \ {k}
      PROVE  /\ SameTime(s, x) => SameTime(s, x)'
             /\ BehindAt(s, x) => BehindAt(s, x)'
             /\ PaidAt(x) => PaidAt(x)'
  <2>1. SameTime(s, x) => SameTime(s, x)'
    BY DEF SameTime
  <2>2. BehindAt(s, x) => BehindAt(s, x)'
    BY DEF BehindAt
  <2>3. PaidAt(x) => PaidAt(x)'
    BY DEF PaidAt, Activated
  <2> QED BY <2>1, <2>2, <2>3
<1>2. ASSUME NEW s, IsSnapshot(s), Behind(s), Saved(s)
      PROVE  Behind(s)'
  <2>1. ASSUME NEW x \in DOMAIN s.cards
        PROVE  BehindAt(s, x)'
    <3>1. BehindAt(s, x) /\ x \in CardKeys
      BY <1>2, <2>1 DEF Behind, IsSnapshot, IsTable
    <3>2. CASE x = k
      BY <1>2, <2>1, <3>1, <3>2
    <3>3. CASE x # k
      BY <1>1, <3>1, <3>3
    <3> QED BY <3>2, <3>3
  <2> QED BY <2>1 DEF Behind
<1>3. PICK f : f = file /\ f = file'
  OBVIOUS
<1>4. Behind(file)'
  <2>1. IsSnapshot(f) /\ Behind(f) /\ Saved(f)
    BY <1>0, <1>3 DEF TypeOK, Timed, Saved
  <2> QED BY <1>2, <1>3, <2>1
<1>5. FileTimed'
  <2>1. ASSUME NEW x \in CardKeys, \A g \in Handlers : ~Due(g, x)'
        PROVE  SameTime(f, x)'
    <3>1. x # k
      BY <2>1
    <3>2. SameTime(f, x)
      BY <1>3, <2>1 DEF Timed, FileTimed
    <3> QED BY <1>1, <3>1, <3>2
  <2> QED BY <1>3, <2>1 DEF FileTimed
<1>6. ASSUME NEW g \in Handlers
      PROVE  ShotTimed(g)' /\ (pc'[g] = "write" => Behind(shot[g])')
  <2>1. PICK s : s = shot[g] /\ s = shot'[g]
    OBVIOUS
  <2>2. ASSUME pc'[g] = "write", g \notin outdated', NEW x \in CardKeys,
               \A e \in Handlers \ {g} : ~Due(e, x)'
        PROVE  SameTime(s, x)'
    <3>1. x # k
      BY <2>2
    <3>2. SameTime(s, x)
      BY <2>1, <2>2 DEF Timed, ShotTimed
    <3> QED BY <1>1, <3>1, <3>2
  <2>3. ASSUME pc'[g] = "write"
        PROVE  Behind(s)'
    <3>1. IsSnapshot(s) /\ Behind(s) /\ Saved(s)
      BY <1>0, <2>1, <2>3 DEF TypeOK, Timed, Saved
    <3> QED BY <1>2, <3>1
  <2> QED BY <2>1, <2>2, <2>3 DEF ShotTimed
<1>7. \A x \in CardKeys : PaidAt(x)'
  BY <1>1 DEF Timed
<1> QED BY <1>4, <1>5, <1>6, <1>7 DEF Timed

\* What the hours counted become.
LEMMA CountedHours ==
    ASSUME TypeOK, NEW op \in {"activate", "firstCall", "stack", "extend", "extendHours"},
           NEW k \in CardKeys, NEW plan, Counted(op, k, plan)
    PROVE  /\ \A x \in CardKeys \ {k} :
                start'[x] = start[x] /\ bought'[x] = bought[x] /\ (x \in idle' <=> x \in idle)
           /\ start'[k] = IF op \in {"activate", "firstCall"} \/ ~Activated(cards[k])
                          THEN now ELSE start[k]
           /\ op \in {"activate", "firstCall"} => bought'[k] = plan.hours
           /\ op = "stack" => bought'[k] = Before(k) + plan.hours
           /\ op \in {"extend", "extendHours"} => bought'[k] = Before(k) + ExtraHours
           /\ k \notin idle' =>
                k \notin idle /\ (op \in {"stack", "extend", "extendHours"} => Activated(cards[k]))
<1>1. start \in [CardKeys -> Nat] /\ bought \in [CardKeys -> Nat]
  BY DEF TypeOK
<1>2. /\ start' = [start EXCEPT ![k] = IF op \in {"activate", "firstCall"} \/ ~Activated(cards[k])
                                       THEN now ELSE @]
      /\ bought' = [bought EXCEPT ![k] = CASE op \in {"activate", "firstCall"} -> plan.hours
                                           [] op = "stack" -> Before(k) + plan.hours
                                           [] OTHER -> Before(k) + ExtraHours]
      /\ idle' = IF op \in {"stack", "extend", "extendHours"} /\ ~Activated(cards[k])
                 THEN idle \cup {k} ELSE idle
  BY DEF Counted, Before
<1>3. \A x \in CardKeys \ {k} : /\ start'[x] = start[x] /\ bought'[x] = bought[x]
                                /\ x \in idle' <=> x \in idle
  BY <1>1, <1>2
<1>4. start'[k] = IF op \in {"activate", "firstCall"} \/ ~Activated(cards[k]) THEN now ELSE start[k]
  BY <1>1, <1>2
<1>5. op \in {"activate", "firstCall"} => bought'[k] = plan.hours
  BY <1>1, <1>2
<1>6. op = "stack" => bought'[k] = Before(k) + plan.hours
  BY <1>1, <1>2
<1>7. op \in {"extend", "extendHours"} => bought'[k] = Before(k) + ExtraHours
  BY <1>1, <1>2
<1>8. k \notin idle' =>
        k \notin idle /\ (op \in {"stack", "extend", "extendHours"} => Activated(cards[k]))
  BY <1>2
<1> QED BY <1>3, <1>4, <1>5, <1>6, <1>7, <1>8

\* The numbers of a change of the end: it is not earlier than before, and has the
\* hours paid for.
LEMMA EndMoves ==
    ASSUME TypeOK, NEW op \in {"activate", "firstCall", "stack", "extend", "extendHours"},
           NEW k \in CardKeys, NEW plan, Counted(op, k, plan),
           op \in {"stack", "activate", "firstCall"} => plan \in Plan,
           NEW c \in Card, NEW n \in Card, c = cards[k], PaidAt(k), k \in DOMAIN cards,
           op = "extend" => n.expires = c.expires + ExtraHours,
           op = "extendHours" =>
             n.expires = (IF Activated(c) THEN Later(c.expires, now) ELSE now) + ExtraHours,
           op = "stack" => n.expires = c.expires + plan.hours,
           op \in {"activate", "firstCall"} => c.expires = 0 /\ n.expires = now + plan.hours
    PROVE  /\ c.expires <= n.expires
           /\ start'[k] = start[k] \/ c.expires = 0
           /\ k \notin idle' => k \notin idle /\ n.expires >= start'[k] + bought'[k]
<1>1. /\ start'[k] = IF op \in {"activate", "firstCall"} \/ ~Activated(cards[k])
                     THEN now ELSE start[k]
      /\ op \in {"activate", "firstCall"} => bought'[k] = plan.hours
      /\ op = "stack" => bought'[k] = Before(k) + plan.hours
      /\ op \in {"extend", "extendHours"} => bought'[k] = Before(k) + ExtraHours
      /\ k \notin idle' =>
           k \notin idle /\ (op \in {"stack", "extend", "extendHours"} => Activated(cards[k]))
  BY CountedHours
<1>2. PICK e, t, b, x, w : e = c.expires /\ t = start[k] /\ b = bought[k] /\ x = n.expires /\ w = now
  OBVIOUS
<1>3. e \in Nat /\ t \in Nat /\ b \in Nat /\ x \in Nat /\ w \in Nat /\ ExtraHours \in Nat
  BY <1>2, BooksAssumption DEF TypeOK, Card
<1>4. Activated(cards[k]) <=> e > 0
  BY <1>2 DEF Activated
<1>5. k \notin idle /\ e > 0 => e >= t + b
  BY <1>2, <1>4 DEF PaidAt
<1>10. Before(k) \in Nat /\ (e > 0 => Before(k) = b)
  BY <1>2, <1>4, BeforeTypes DEF Before
<1>6. CASE op \in {"activate", "firstCall"}
  <2>1. plan.hours \in Nat
    BY <1>6 DEF Plan
  <2>2. e = 0 /\ x = w + plan.hours /\ start'[k] = w /\ bought'[k] = plan.hours
    BY <1>1, <1>2, <1>6
  <2> QED BY <1>1, <1>2, <1>3, <2>1, <2>2
<1>7. CASE op = "stack"
  <2>1. plan.hours \in Nat
    BY <1>7 DEF Plan
  <2>2. /\ x = e + plan.hours /\ bought'[k] = Before(k) + plan.hours
        /\ e > 0 => bought'[k] = b + plan.hours
    BY <1>1, <1>2, <1>7, <1>10
  <2>3. CASE e > 0
    <3>1. start'[k] = t
      BY <1>1, <1>2, <1>4, <1>7, <2>3
    <3>2. k \notin idle => x >= t + bought'[k]
      BY <1>3, <1>5, <2>1, <2>2, <2>3
    <3> QED BY <1>1, <1>2, <1>3, <2>1, <2>2, <3>1, <3>2
  <2>4. CASE ~(e > 0)
    <3>1. e = 0 /\ k \in idle'
      BY <1>1, <1>3, <1>4, <1>7, <2>4
    <3> QED BY <1>2, <1>3, <2>1, <2>2, <3>1
  <2> QED BY <2>3, <2>4
<1>8. CASE op = "extend"
  <2>1. x = e + ExtraHours
    BY <1>2, <1>8
  <2>2. CASE e > 0
    <3>1. start'[k] = t /\ bought'[k] = b + ExtraHours
      BY <1>1, <1>2, <1>4, <1>8, <1>10, <2>2
    <3>2. k \notin idle => x >= t + bought'[k]
      BY <1>3, <1>5, <2>1, <2>2, <3>1
    <3> QED BY <1>1, <1>2, <1>3, <2>1, <3>1, <3>2
  <2>3. CASE ~(e > 0)
    <3>1. e = 0 /\ k \in idle'
      BY <1>1, <1>3, <1>4, <1>8, <2>3
    <3> QED BY <1>2, <1>3, <2>1, <3>1
  <2> QED BY <2>2, <2>3
<1>9. CASE op = "extendHours"
  <2>1. CASE e > 0
    <3>1. x = Later(e, w) + ExtraHours /\ start'[k] = t /\ bought'[k] = b + ExtraHours
      BY <1>1, <1>2, <1>4, <1>9, <1>10, <2>1
    <3>2. Later(e, w) \in Nat /\ Later(e, w) >= e
      BY ONLY <1>3 DEF Later
    <3>3. e <= x /\ (k \notin idle => x >= t + bought'[k])
      <4>1. PICK m : m = Later(e, w)
        OBVIOUS
      <4> QED BY ONLY <1>3, <1>5, <2>1, <3>1, <3>2, <4>1
    <3> QED BY <1>1, <1>2, <3>1, <3>3
  <2>2. CASE ~(e > 0)
    <3>1. e = 0 /\ x = w + ExtraHours /\ k \in idle'
      BY <1>1, <1>2, <1>3, <1>4, <1>9, <2>2
    <3> QED BY <1>2, <1>3, <3>1
  <2> QED BY <2>1, <2>2
<1> QED BY <1>6, <1>7, <1>8, <1>9

\* Every operation on an entry keeps the hours paid for, unless its clone is stale.
LEMMA TimedApply ==
    ASSUME Frame, Timed, NEW h \in Handlers, ApplyToCard(h), ~raced'
    PROVE  Timed'
<1>0. TypeOK
  BY DEF Frame
<1>1. /\ pc[h] = "apply" /\ job[h].key \in CardKeys
      /\ job[h].op \in CardOps \ {"issue", "delete"}
      /\ UNCHANGED <<plans, policy, store, now, job, seen, shot, known, outdated, unsaved>>
  BY ApplyCases
<1>2. \A x : ~Due(h, x)
  BY <1>1 DEF Due
<1>3. CASE Goto(h, "idle") /\ UNCHANGED <<cards, raced, sticky, total, paidTime>>
  <2>1. pc'[h] = "idle" /\ \A g \in Handlers \ {h} : pc'[g] = pc[g]
    BY <1>0, <1>3 DEF TypeOK, Goto
  <2>2. \A g \in Handlers : \A x : Due(g, x) => Due(g, x)'
    BY <1>1, <1>2, <2>1 DEF Due
  <2> QED BY <1>1, <1>3, <2>1, <2>2, TimedSame DEF store
<1>4. ASSUME NEW c \in Card, NEW n \in Card, ChangeOf(h, c, n)
      PROVE  Timed'
  <2>1. PICK k : k = job[h].key
    OBVIOUS
  <2>2. PICK op : op = job[h].op
    OBVIOUS
  <2>3. /\ k \in DOMAIN cards /\ c = cards[k] /\ DOMAIN cards' = DOMAIN cards /\ cards'[k] = n
        /\ \A x \in DOMAIN cards \ {k} : cards'[x] = cards[x]
        /\ op \in Inserting \cup {"revoke", "settle", "lanes"} => n.expires = c.expires
        /\ op = "extend" => n.expires = c.expires + ExtraHours
        /\ op = "extendHours" =>
             n.expires = (IF Activated(c) THEN Later(c.expires, now) ELSE now) + ExtraHours
        /\ op = "stack" => n.expires = c.expires + seen[h].plan.hours
        /\ op \in {"activate", "firstCall"} =>
             c.expires = 0 /\ n.expires = now + seen[h].plan.hours
    BY <1>1, <1>4, <2>1, <2>2, FreshChange
  <2>4. /\ pc'[h] = IF op = "settle" THEN "ledger" ELSE "snap"
        /\ \A g \in Handlers \ {h} : pc'[g] = pc[g]
    BY <1>0, <1>4, <2>2 DEF TypeOK, Goto, ChangeOf
  <2>5. \A g \in Handlers : \A x : Due(g, x) => Due(g, x)'
    BY <1>1, <1>2, <2>4 DEF Due
  <2>6. pc'[h] # "write" /\ \A g \in Handlers : pc'[g] = "write" => pc[g] = "write"
    BY <2>4
  <2>7. CASE op \in Inserting \cup {"revoke", "settle", "lanes"}
    <3>1. UNCHANGED paidTime
      BY <1>4, <2>2, <2>7 DEF ChangeOf, Inserting
    <3>2. \A x \in DOMAIN cards : cards'[x].expires = cards[x].expires
      BY <2>3, <2>7
    <3> QED BY <1>1, <2>3, <2>5, <2>6, <3>1, <3>2, TimedSame DEF store
  <2>8. CASE op \in {"activate", "firstCall", "stack", "extend", "extendHours"}
    <3>1. Counted(op, k, seen[h].plan)
      BY <1>4, <2>1, <2>2, <2>8 DEF ChangeOf
    <3>2. op \in {"stack", "activate", "firstCall"} => seen[h].plan \in Plan
      BY <1>1, <2>2 DEF Frame, Reads
    <3>3. PaidAt(k) /\ k \in CardKeys
      BY <1>1, <2>1 DEF Timed
    <3>4. /\ c.expires <= n.expires
          /\ start'[k] = start[k] \/ c.expires = 0
          /\ k \notin idle' => k \notin idle /\ n.expires >= start'[k] + bought'[k]
      BY <1>0, <2>3, <2>8, <3>1, <3>2, <3>3, EndMoves
    <3>5. \A x \in CardKeys \ {k} :
            start'[x] = start[x] /\ bought'[x] = bought[x] /\ (x \in idle' <=> x \in idle)
      BY <1>0, <2>8, <3>1, <3>3, CountedHours
    <3>6. \A x \in CardKeys \ {k} :
            /\ x \in DOMAIN cards' <=> x \in DOMAIN cards
            /\ x \in DOMAIN cards => cards'[x].expires = cards[x].expires
      BY <2>3
    <3>7. PaidAt(k)'
      BY <2>3, <3>4 DEF PaidAt
    <3>8. ASSUME NEW s, Saved(s), k \in DOMAIN s.cards, BehindAt(s, k)
          PROVE  BehindAt(s, k)'
      <4>1. IsSnapshot(s)
        BY <1>0, <3>8 DEF Saved, TypeOK
      <4>2. s.cards[k] \in Card
        BY <3>8, <4>1 DEF IsSnapshot, IsTable
      <4>3. PICK e : e = s.cards[k].expires
        OBVIOUS
      <4>4. e \in Nat /\ c.expires \in Nat /\ n.expires \in Nat
        BY <4>2, <4>3 DEF Card
      <4>5. e <= c.expires /\ (k \notin idle => e = 0 \/ e >= start[k])
        BY <2>3, <3>8, <4>3 DEF BehindAt
      <4>6. e <= n.expires
        BY ONLY <3>4, <4>4, <4>5
      <4>7. k \notin idle' => e = 0 \/ e >= start'[k]
        BY <3>4, <4>4, <4>5
      <4> QED BY <2>3, <4>3, <4>6, <4>7 DEF BehindAt
    <3>9. Due(h, k)'
      BY <1>1, <2>1, <2>2, <2>4, <2>8 DEF Due
    <3>10. UNCHANGED <<file, shot, outdated>>
      BY <1>1 DEF store
    <3> QED BY <2>5, <2>6, <3>3, <3>5, <3>6, <3>7, <3>8, <3>9, <3>10, TimedOne
  <2> QED BY <1>1, <2>2, <2>7, <2>8 DEF CardOps, Inserting
<1> QED BY <1>3, <1>4, ApplyCases

\* The steps that touch no card.
LEMMA TimedOther ==
    ASSUME Frame, Timed, NEW h \in Handlers, Receive(h) \/ PlanStep(h) \/ Ledger(h)
    PROVE  Timed'
<1>0. TypeOK
  BY DEF Frame
<1>1. CASE Receive(h)
  <2>1. /\ pc[h] = "idle" /\ pc' = [pc EXCEPT ![h] = "apply"]
        /\ \A g \in Handlers \ {h} : job'[g] = job[g]
        /\ UNCHANGED <<cards, file, shot, outdated, paidTime>>
    BY <1>0, <1>1 DEF Receive, Goto, TypeOK, books, store
  <2>2. pc'[h] = "apply" /\ \A g \in Handlers \ {h} : pc'[g] = pc[g]
    BY <1>0, <2>1 DEF TypeOK
  <2>3. \A g \in Handlers : \A k : Due(g, k) => Due(g, k)'
    BY <2>1, <2>2 DEF Due
  <2> QED BY <2>1, <2>2, <2>3, TimedSame
<1>2. CASE PlanStep(h)
  <2>1. pc[h] = "apply" /\ UNCHANGED <<cards, job, file, shot, outdated, paidTime>>
    BY <1>2, PlanCases DEF store
  <2>2. pc'[h] # "write" /\ \A g \in Handlers \ {h} : pc'[g] = pc[g]
    BY <1>0, <1>2, PlanCases DEF TypeOK, Goto
  <2>3. \A g \in Handlers : \A k : Due(g, k) => Due(g, k)'
    BY <2>1, <2>2 DEF Due
  <2> QED BY <2>1, <2>2, <2>3, TimedSame
<1>3. CASE Ledger(h)
  <2>1. pc[h] = "ledger" /\ UNCHANGED <<cards, job, file, shot, outdated, paidTime>>
    BY <1>3, LedgerCases DEF books
  <2>2. /\ pc'[h] = "snap" \/ (job[h].op = "settle" /\ pc'[h] = "idle")
        /\ \A g \in Handlers \ {h} : pc'[g] = pc[g]
    BY <1>0, <1>3, LedgerCases DEF TypeOK, Goto
  <2>3. \A g \in Handlers : \A k : Due(g, k) => Due(g, k)'
    BY <2>1, <2>2 DEF Due
  <2> QED BY <2>1, <2>2, <2>3, TimedSame
<1> QED BY <1>1, <1>2, <1>3

\* Time alone takes no hours away.
LEMMA TimedTick ==
    ASSUME Timed, Tick \/ UNCHANGED vars
    PROVE  Timed'
<1>1. UNCHANGED <<cards, pc, job, file, shot, outdated, paidTime>>
  BY DEF Tick, vars, books, store, process, history
<1>2. \A g \in Handlers : \A k : Due(g, k) => Due(g, k)'
  BY <1>1 DEF Due
<1> QED BY <1>1, <1>2, TimedSame

\* A new card has the hours of its plan, and is in no snapshot.
LEMMA TimedIssue ==
    ASSUME Frame, Timed, NEW h \in Handlers, IssueCard(h)
    PROVE  Timed'
<1>1. /\ TypeOK /\ pc[h] = "apply" /\ job[h].op = "issue" /\ job[h] \in Jobs
      /\ seen[h].plan \in Plan /\ ~Present(job[h].key)
  BY DEF Frame, IssueCard, Placed, Reads, NewKey
<1>2. PICK k : k = job[h].key
  OBVIOUS
<1>3. k \in CardKeys /\ job[h].plan \in Plans
  BY <1>1, <1>2, JobFields DEF CardOps
<1>4. PICK n : n = NewCard(job[h].plan, seen[h].plan)
  OBVIOUS
<1>5. /\ n \in Card /\ now \in Nat /\ seen[h].plan.hours \in Nat
      /\ n.expires = IF seen[h].plan.lazy THEN 0 ELSE now + seen[h].plan.hours
  BY <1>1, <1>3, <1>4, CardIssued DEF TypeOK, Plan
<1>6. /\ DOMAIN cards' = DOMAIN cards \cup {k} /\ cards'[k] = n
      /\ \A x \in DOMAIN cards \ {k} : cards'[x] = cards[x]
  <2>1. cards' = Put(cards, k, n)
    BY <1>2, <1>4 DEF IssueCard
  <2> QED BY ONLY <2>1 DEF Put
<1>7. /\ start'[k] = now /\ bought'[k] = (IF seen[h].plan.lazy THEN 0 ELSE seen[h].plan.hours)
      /\ \A x \in CardKeys \ {k} :
           start'[x] = start[x] /\ bought'[x] = bought[x] /\ (x \in idle' <=> x \in idle)
  BY <1>1, <1>2, <1>3 DEF IssueCard, TypeOK
<1>8. pc'[h] = "snap" /\ \A g \in Handlers \ {h} : pc'[g] = pc[g]
  BY <1>1 DEF IssueCard, Goto, TypeOK
<1>9. \A g \in Handlers : \A x : Due(g, x) => Due(g, x)'
  BY <1>1, <1>8 DEF Due, IssueCard
<1>10. Due(h, k)'
  BY <1>1, <1>2, <1>8 DEF Due, IssueCard, CardOps
<1>11. PaidAt(k)'
  <2>1. CASE seen[h].plan.lazy
    BY <1>5, <1>6, <2>1 DEF PaidAt, Activated
  <2>2. CASE ~seen[h].plan.lazy
    BY <1>5, <1>6, <1>7, <2>2 DEF PaidAt, Activated
  <2> QED BY <2>1, <2>2
<1>12. \A s : Saved(s) => k \notin DOMAIN s.cards
  BY <1>1, <1>2 DEF Saved, Present
<1>13. UNCHANGED <<file, shot, outdated>>
  BY DEF IssueCard, store
<1>14. \A x \in CardKeys \ {k} :
         /\ x \in DOMAIN cards' <=> x \in DOMAIN cards
         /\ x \in DOMAIN cards => cards'[x].expires = cards[x].expires
  BY <1>6
<1> QED BY <1>3, <1>7, <1>8, <1>9, <1>10, <1>11, <1>12, <1>13, <1>14, TimedOne

\* A deleted card's save is due.
LEMMA TimedDelete ==
    ASSUME Frame, Timed, NEW h \in Handlers, DeleteCard(h)
    PROVE  Timed'
<1>1. /\ TypeOK /\ pc[h] = "apply" /\ job[h].op = "delete" /\ job[h] \in Jobs
      /\ UNCHANGED <<plans, policy, store, now, job, seen, shot, total, history>>
  BY DEF Frame, DeleteCard, Placed
<1>2. PICK k : k = job[h].key
  OBVIOUS
<1>3. k \in CardKeys
  BY <1>1, <1>2, JobFields DEF CardOps
<1>4. /\ DOMAIN cards' = DOMAIN cards \ {k}
      /\ \A x \in DOMAIN cards' : cards'[x] = cards[x]
  <2>1. cards' = Drop(cards, k)
    BY <1>2 DEF DeleteCard
  <2> QED BY ONLY <2>1 DEF Drop
<1>5. /\ pc'[h] = IF k \in DOMAIN cards THEN "ledger" ELSE "idle"
      /\ \A g \in Handlers \ {h} : pc'[g] = pc[g]
  BY <1>1, <1>2 DEF DeleteCard, Goto, TypeOK
<1>6. \A g \in Handlers : \A x : Due(g, x) => Due(g, x)'
  BY <1>1, <1>5 DEF Due
<1>7. UNCHANGED <<file, shot, outdated, paidTime>>
  BY <1>1 DEF store, history
<1>8. CASE k \notin DOMAIN cards
  <2>1. DOMAIN cards' = DOMAIN cards /\ \A x \in DOMAIN cards : cards'[x].expires = cards[x].expires
    BY <1>4, <1>8
  <2> QED BY <1>5, <1>6, <1>7, <2>1, TimedSame
<1>9. CASE k \in DOMAIN cards
  <2>1. Due(h, k)'
    BY <1>1, <1>2, <1>5, <1>9 DEF Due, CardOps
  <2>2. \A x \in CardKeys \ {k} :
          /\ x \in DOMAIN cards' <=> x \in DOMAIN cards
          /\ x \in DOMAIN cards => cards'[x].expires = cards[x].expires
          /\ start'[x] = start[x] /\ bought'[x] = bought[x] /\ (x \in idle' <=> x \in idle)
    BY <1>4, <1>7 DEF paidTime
  <2>3. \A s : BehindAt(s, k) => BehindAt(s, k)'
    BY <1>4, <1>7 DEF BehindAt, paidTime
  <2>4. PaidAt(k)'
    BY <1>4 DEF PaidAt
  <2> QED BY <1>3, <1>5, <1>6, <1>7, <2>1, <2>2, <2>3, <2>4, TimedOne
<1> QED BY <1>8, <1>9

\* A snapshot has the ends there are.
LEMMA TimedSnapshot ==
    ASSUME Frame, Timed, NEW h \in Handlers, TakeSnapshot(h)
    PROVE  Timed'
<1>1. /\ pc[h] = "snap" /\ Goto(h, "write") /\ outdated' = outdated \ {h}
      /\ shot' = [shot EXCEPT ![h] = Snapshot]
      /\ UNCHANGED <<cards, file, job, paidTime>>
  BY DEF TakeSnapshot, books, store
<1>2. TypeOK
  BY DEF Frame
<1>3. /\ pc'[h] = "write" /\ \A g \in Handlers \ {h} : pc'[g] = pc[g] /\ shot'[g] = shot[g]
      /\ shot'[h] = Snapshot
  BY <1>1, <1>2 DEF TypeOK, Goto
<1>4. \A g \in Handlers : \A x : Due(g, x)' <=> Due(g, x)
  BY <1>1, <1>3 DEF Due
<1>5. /\ \A s, k : SameTime(s, k)' <=> SameTime(s, k)
      /\ \A s, k : BehindAt(s, k)' <=> BehindAt(s, k)
  BY <1>1 DEF SameTime, BehindAt, paidTime
<1>6. \A s : Behind(s)' <=> Behind(s)
  BY <1>5 DEF Behind
<1>7a. PICK s : s = Snapshot
  OBVIOUS
<1>7. s = Snapshot /\ s.cards = cards
  BY <1>7a DEF Snapshot
<1>8. \A k : SameTime(s, k)
  BY <1>7 DEF SameTime
<1>9. Behind(s)
  <2>1. ASSUME NEW k \in DOMAIN s.cards
        PROVE  BehindAt(s, k)
    <3>1. PICK e : e = cards[k].expires
      OBVIOUS
    <3>2. k \in CardKeys /\ cards[k] \in Card
      BY <1>2, <1>7, <2>1 DEF TypeOK, IsTable
    <3>3. e \in Nat /\ start[k] \in Nat /\ bought[k] \in Nat
      BY <1>2, <3>1, <3>2 DEF TypeOK, Card
    <3>4. k \notin idle /\ e > 0 => e >= start[k] + bought[k]
      BY <1>7, <2>1, <3>1, <3>2 DEF Timed, PaidAt, Activated
    <3>5. k \notin idle => e = 0 \/ e >= start[k]
      BY <3>3, <3>4
    <3> QED BY <1>7, <3>1, <3>3, <3>5 DEF BehindAt
  <2> QED BY <2>1 DEF Behind
<1>10. PICK f : f = file /\ f = file'
  BY <1>1
<1>11. FileTimed' /\ Behind(file)'
  BY <1>4, <1>5, <1>6, <1>10 DEF Timed, FileTimed
<1>12. ASSUME NEW g \in Handlers
       PROVE  ShotTimed(g)' /\ (pc'[g] = "write" => Behind(shot[g])')
  <2>1. CASE g = h
    BY <1>3, <1>5, <1>6, <1>7, <1>8, <1>9, <2>1 DEF ShotTimed
  <2>2. CASE g # h
    <3>1. PICK r : r = shot[g] /\ r = shot'[g]
      BY <1>3, <2>2
    <3>2. pc'[g] = "write" => Behind(r)'
      BY <1>3, <1>6, <2>2, <3>1 DEF Timed
    <3>3. ASSUME pc'[g] = "write", g \notin outdated', NEW x \in CardKeys,
                 \A e \in Handlers \ {g} : ~Due(e, x)'
          PROVE  SameTime(r, x)'
      <4>1. pc[g] = "write" /\ g \notin outdated /\ \A e \in Handlers \ {g} : ~Due(e, x)
        BY <1>1, <1>3, <1>4, <2>2, <3>3
      <4>2. SameTime(r, x)
        BY <3>1, <4>1 DEF Timed, ShotTimed
      <4> QED BY <1>5, <4>2
    <3> QED BY <3>1, <3>2, <3>3 DEF ShotTimed
  <2> QED BY <2>1, <2>2
<1>13. \A k \in CardKeys : PaidAt(k)'
  BY <1>1 DEF Timed, PaidAt, paidTime
<1> QED BY <1>11, <1>12, <1>13 DEF Timed

\* The file takes the ends of a snapshot that nobody has overtaken.
LEMMA TimedWrite ==
    ASSUME Frame, Timed, NEW h \in Handlers, WriteFile(h), ~raced', ~unsaved'
    PROVE  Timed'
<1>1. /\ pc[h] = "write" /\ Goto(h, "idle") /\ file' = shot[h] /\ h \notin outdated
      /\ outdated' = outdated \cup {g \in Handlers \ {h} : pc[g] = "write"}
      /\ UNCHANGED <<cards, job, shot, paidTime>>
  BY DEF WriteFile, books
<1>2. pc'[h] = "idle" /\ \A g \in Handlers \ {h} : pc'[g] = pc[g]
  BY <1>1 DEF Frame, TypeOK, Goto
<1>3. \A g \in Handlers \ {h} : \A x : Due(g, x)' <=> Due(g, x)
  BY <1>1, <1>2 DEF Due
<1>4. /\ \A s, k : SameTime(s, k)' <=> SameTime(s, k)
      /\ \A s, k : BehindAt(s, k)' <=> BehindAt(s, k)
  BY <1>1 DEF SameTime, BehindAt, paidTime
<1>5. \A s : Behind(s)' <=> Behind(s)
  BY <1>4 DEF Behind
<1>6. PICK s : s = shot[h] /\ s = file'
  BY <1>1
<1>7. Behind(file)'
  BY <1>1, <1>5, <1>6 DEF Timed
<1>8. FileTimed'
  <2>1. ASSUME NEW x \in CardKeys, \A g \in Handlers : ~Due(g, x)'
        PROVE  SameTime(s, x)'
    <3>1. SameTime(s, x)
      BY <1>1, <1>3, <1>6, <2>1 DEF Timed, ShotTimed
    <3> QED BY <1>4, <3>1
  <2> QED BY <1>6, <2>1 DEF FileTimed
<1>9. ASSUME NEW g \in Handlers
      PROVE  ShotTimed(g)' /\ (pc'[g] = "write" => Behind(shot[g])')
  <2>1. PICK r : r = shot[g] /\ r = shot'[g]
    BY <1>1
  <2>2. pc'[g] = "write" => g \in outdated'
    BY <1>1, <1>2
  <2>3. pc'[g] = "write" => Behind(r)'
    BY <1>2, <1>5, <2>1 DEF Timed
  <2> QED BY <2>1, <2>2, <2>3 DEF ShotTimed
<1>10. \A k \in CardKeys : PaidAt(k)'
  BY <1>1 DEF Timed, PaidAt, paidTime
<1> QED BY <1>7, <1>8, <1>9, <1>10 DEF Timed

\* A restart goes back to the file; what it knows of a card whose last request was
\* answered is what there was.
LEMMA TimedRestart ==
    ASSUME Frame, Timed, Restart
    PROVE  Timed'
<1>1. /\ cards' = Loaded /\ \A h \in Handlers : pc'[h] = "idle"
      /\ bought' = [k \in CardKeys |-> IF k \in DOMAIN Loaded /\ Unanswered(k)
                                       THEN Later(Loaded[k].expires, start[k]) - start[k]
                                       ELSE bought[k]]
      /\ UNCHANGED <<file, shot, start, idle>>
  BY DEF Restart
<1>2. TypeOK
  BY DEF Frame
<1>3. /\ IsTable(Loaded, CardKeys, Card) /\ DOMAIN Loaded = DOMAIN file.cards
      /\ \A k \in DOMAIN Loaded : Loaded[k].expires = file.cards[k].expires
  BY <1>2, LoadedTable DEF TypeOK
<1>4. \A k \in DOMAIN Loaded : Loaded[k].expires \in Nat /\ k \in CardKeys
  BY <1>3 DEF IsTable, Card
<1>5. PICK f : f = file /\ f = file'
  BY <1>1
<1>6. \A k : SameTime(f, k)'
  BY <1>1, <1>3, <1>5 DEF SameTime
<1>7. FileTimed'
  BY <1>5, <1>6 DEF FileTimed
<1>8. Behind(f)'
  <2>1. ASSUME NEW k \in DOMAIN f.cards
        PROVE  BehindAt(f, k)'
    <3>1. BehindAt(f, k)
      BY <1>5, <2>1 DEF Timed, Behind
    <3>2. f.cards[k].expires <= cards'[k].expires
      BY <1>1, <1>3, <1>4, <1>5, <2>1
    <3> QED BY <1>1, <3>1, <3>2 DEF BehindAt
  <2> QED BY <2>1 DEF Behind
<1>9. ASSUME NEW k \in CardKeys, k \in DOMAIN Loaded, k \notin idle, Activated(Loaded[k])
      PROVE  Loaded[k].expires >= start[k] + bought'[k]
  <2>1. PICK e, t : e = Loaded[k].expires /\ t = start[k]
    OBVIOUS
  <2>2. e \in Nat /\ t \in Nat /\ e > 0
    BY <1>2, <1>4, <1>9, <2>1 DEF TypeOK, Activated
  <2>3. CASE Unanswered(k)
    <3>1. e >= t
      <4>1. BehindAt(file, k)
        BY <1>3, <1>9 DEF Timed, Behind
      <4>2. e = 0 \/ e >= t
        BY <1>3, <1>9, <2>1, <4>1 DEF BehindAt
      <4> QED BY <2>2, <4>2
    <3>2. bought'[k] = Later(e, t) - t
      BY <1>1, <1>9, <2>1, <2>3
    <3>3. e >= t + (Later(e, t) - t)
      BY ONLY <2>2, <3>1 DEF Later
    <3> QED BY <2>1, <3>2, <3>3
  <2>4. CASE ~Unanswered(k)
    <3>1. bought'[k] = bought[k]
      BY <1>1, <2>4
    <3>2. \A h \in Handlers : ~Due(h, k)
      BY <2>4 DEF Unanswered, Due
    <3>3. SameTime(file, k)
      BY <3>2 DEF Timed, FileTimed
    <3>4. k \in DOMAIN cards /\ cards[k].expires = e
      BY <1>3, <1>9, <2>1, <3>3 DEF SameTime
    <3>5. cards[k].expires >= start[k] + bought[k]
      BY <1>9, <2>2, <3>4 DEF Timed, PaidAt, Activated
    <3> QED BY <2>1, <3>1, <3>4, <3>5
  <2> QED BY <2>3, <2>4
<1>10. \A k \in CardKeys : PaidAt(k)'
  BY <1>1, <1>9 DEF PaidAt, Activated
<1>11. \A g \in Handlers : ShotTimed(g)'
  BY <1>1 DEF ShotTimed
<1> QED BY <1>1, <1>5, <1>7, <1>8, <1>10, <1>11 DEF Timed

\* A card that starts its countdown at issue has the hours of its plan.
LEMMA TimedInit ==
    ASSUME Init, Frame
    PROVE  Timed
<1>1. /\ \A h \in Handlers : pc[h] = "idle"
      /\ file.cards = cards /\ start = [k \in CardKeys |-> StartTime]
      /\ bought = [k \in CardKeys |-> IF k \in DOMAIN cards /\ cards[k].expires > 0
                                      THEN cards[k].expires - StartTime ELSE 0]
  BY DEF Init, Snapshot
<1>2. PICK p \in Plans, c \in CardKeys : cards = [k \in {c} |-> NewCard(p, Preset[p])]
  BY DEF Init
<1>3. Preset[p] \in Plan /\ StartTime \in Nat /\ now = StartTime
  BY BooksAssumption DEF Init
<1>4. \A k \in DOMAIN cards :
        cards[k].expires = IF Preset[p].lazy THEN 0 ELSE StartTime + Preset[p].hours
  <2>1. NewCard(p, Preset[p]).expires = IF Preset[p].lazy THEN 0 ELSE StartTime + Preset[p].hours
    BY <1>3, CardIssued
  <2> QED BY <1>2, <2>1
<1>5. ASSUME NEW k \in DOMAIN cards
      PROVE  /\ k \in CardKeys /\ cards[k].expires \in Nat
             /\ cards[k].expires = 0 \/ cards[k].expires >= StartTime
  <2>1. Preset[p].hours \in Nat
    BY <1>3 DEF Plan
  <2> QED BY <1>2, <1>3, <1>4, <2>1
<1>6. FileTimed
  BY <1>1 DEF FileTimed, SameTime
<1>7. Behind(file)
  BY <1>1, <1>5 DEF Behind, BehindAt
<1>8. \A k \in CardKeys : PaidAt(k)
  <2>1. ASSUME NEW k \in DOMAIN cards, cards[k].expires > 0
        PROVE  cards[k].expires >= start[k] + bought[k]
    <3>1. PICK e : e = cards[k].expires
      OBVIOUS
    <3>2. start[k] = StartTime /\ bought[k] = e - StartTime
      BY <1>1, <1>5, <2>1, <3>1
    <3>3. e \in Nat /\ StartTime \in Nat
      BY <1>3, <1>5, <3>1
    <3> QED BY <3>1, <3>2, <3>3
  <2> QED BY <2>1 DEF PaidAt, Activated
<1> QED BY <1>1, <1>6, <1>7, <1>8 DEF Timed, ShotTimed

------------------------------------------------------------------------------
(* The theorems. *)

\* A race or a failed save stays on record.
LEMMA CleanBefore ==
    ASSUME Frame, [Next]_vars, Clean'
    PROVE  Clean
<1>1. ~raced' /\ ~unsaved'
  BY DEF Clean
<1>2. ASSUME NEW h \in Handlers, Step(h)
      PROVE  ~raced /\ ~unsaved
  <2>1. CASE Receive(h)
    BY <1>1, <2>1 DEF Receive
  <2>2. CASE ApplyToCard(h)
    <3>1. raced' = raced \/ raced' = (raced \/ Stale(job[h].op, job[h].key, seen[h].card))
      BY <2>2 DEF ApplyToCard
    <3>2. unsaved' = unsaved
      BY <2>2 DEF ApplyToCard
    <3>3. raced \in BOOLEAN
      BY DEF Frame, TypeOK
    <3> QED BY <1>1, <3>1, <3>2, <3>3
  <2>3. CASE IssueCard(h)
    BY <1>1, <2>3 DEF IssueCard
  <2>4. CASE DeleteCard(h)
    BY <1>1, <2>4 DEF DeleteCard, history
  <2>5. CASE PlanStep(h)
    BY <1>1, <2>5, PlanCases
  <2>6. CASE Ledger(h)
    BY <1>1, <2>6, LedgerCases
  <2>7. CASE TakeSnapshot(h)
    BY <1>1, <2>7 DEF TakeSnapshot
  <2>8. CASE WriteFile(h)
    <3>1. unsaved' = unsaved /\ raced' = (raced \/ h \in outdated)
      BY <1>1, <2>8 DEF WriteFile
    <3> QED BY <1>1, <3>1
  <2> QED BY <1>2, <2>1, <2>2, <2>3, <2>4, <2>5, <2>6, <2>7, <2>8 DEF Step, PlanStep
<1>3. CASE Restart
  BY <1>1, <1>3 DEF Restart, Clean
<1>4. CASE Tick
  BY <1>1, <1>4 DEF Tick, history, Clean
<1>5. CASE UNCHANGED vars
  BY <1>1, <1>5 DEF vars, history, Clean
<1> QED BY <1>2, <1>3, <1>4, <1>5 DEF Next, Clean

\* The invariant holds at the start.
LEMMA BooksInvInit == Init => BooksInv
BY FrameInit, RecordedInit, TimedInit DEF BooksInv

\* Every step keeps it.
LEMMA BooksInvStep ==
    ASSUME BooksInv, [Next]_vars
    PROVE  BooksInv'
<1>1. Frame /\ (Clean => Recorded /\ Timed)
  BY DEF BooksInv
<1>2. ASSUME Clean'
      PROVE  Recorded /\ Timed /\ ~raced' /\ ~unsaved'
  <2>1. Clean
    BY <1>1, <1>2, CleanBefore
  <2> QED BY <1>1, <1>2, <2>1 DEF Clean
<1>3. ASSUME NEW h \in Handlers, Step(h)
      PROVE  Frame' /\ (Clean' => Recorded' /\ Timed')
  <2>1. CASE Receive(h)
    BY <1>1, <1>2, <2>1, FrameReceive, RecordedReceive, TimedOther
  <2>2. CASE ApplyToCard(h)
    BY <1>1, <1>2, <2>2, FrameApply, RecordedApply, TimedApply
  <2>3. CASE IssueCard(h)
    BY <1>1, <1>2, <2>3, FrameIssue, RecordedIssue, TimedIssue
  <2>4. CASE DeleteCard(h)
    BY <1>1, <1>2, <2>4, FrameDelete, RecordedDelete, TimedDelete
  <2>5. CASE PlanStep(h)
    BY <1>1, <1>2, <2>5, FramePlan, RecordedPlan, TimedOther
  <2>6. CASE Ledger(h)
    BY <1>1, <1>2, <2>6, FrameLedger, RecordedLedger, TimedOther
  <2>7. CASE TakeSnapshot(h)
    BY <1>1, <1>2, <2>7, FrameSnapshot, RecordedSnapshot, TimedSnapshot
  <2>8. CASE WriteFile(h)
    BY <1>1, <1>2, <2>8, FrameWrite, RecordedWrite, TimedWrite
  <2> QED BY <1>3, <2>1, <2>2, <2>3, <2>4, <2>5, <2>6, <2>7, <2>8 DEF Step, PlanStep
<1>4. CASE Restart
  BY <1>1, <1>2, <1>4, FrameRestart, RecordedRestart, TimedRestart DEF BooksInv
<1>5. CASE Tick \/ UNCHANGED vars
  BY <1>1, <1>2, <1>5, FrameTick, RecordedTick, TimedTick DEF BooksInv
<1> QED BY <1>3, <1>4, <1>5 DEF Next, BooksInv

\* The invariant holds throughout.
LEMMA BooksInvariant == Spec => []BooksInv
<1>1. Init => BooksInv
  BY BooksInvInit
<1>2. BooksInv /\ [Next]_vars => BooksInv'
  BY BooksInvStep
<1> QED BY <1>1, <1>2, PTL DEF Spec

\* When nobody is under way, loading the two stores gives what is in memory.
LEMMA QuietLoads ==
    ASSUME TypeOK, Recorded, Quiet
    PROVE  cards = Loaded /\ plans = file.plans /\ policy = file.policy
<1>1. \A h \in Handlers : ~Busy(h) /\ \A k : ~Settling(h, k)
  BY DEF Quiet, Busy, Settling
<1>2. Faithful(file)
  BY <1>1 DEF Recorded, FileDue
<1>3. /\ IsTable(cards, CardKeys, Card) /\ IsTable(Loaded, CardKeys, Card)
      /\ DOMAIN Loaded = DOMAIN file.cards
      /\ \A k \in DOMAIN Loaded : /\ Loaded[k].used = Later(file.cards[k].used, Stored(k))
                                  /\ Loaded[k] = [file.cards[k] EXCEPT !.used = Loaded[k].used]
  BY LoadedTable DEF TypeOK
<1>4. DOMAIN cards = DOMAIN Loaded
  BY <1>2, <1>3 DEF Faithful
<1>5. ASSUME NEW k \in DOMAIN cards
      PROVE  cards[k] = Loaded[k]
  <2>1. cards[k] = [file.cards[k] EXCEPT !.used = cards[k].used] /\ Covers(file, k)
    BY <1>2 DEF Faithful
  <2>2. Later(file.cards[k].used, Stored(k)) = cards[k].used
    BY <1>1, <2>1 DEF Covers
  <2>3. Loaded[k].used = cards[k].used
    BY <1>3, <1>4, <2>2
  <2> QED BY <1>3, <1>4, <2>1, <2>3
<1>6. cards = Loaded
  BY <1>3, <1>4, <1>5 DEF IsTable
<1> QED BY <1>2, <1>6 DEF Faithful

\* Cards, plans, the two stores and the requests under way hold what their types
\* say, whatever clones are put back and whenever the process restarts (cards.rs).
THEOREM TypeCorrect == Spec => []TypeOK
<1>1. BooksInv => TypeOK
  BY DEF BooksInv, Frame
<1> QED BY <1>1, BooksInvariant, PTL

\* At a quiet moment load() gives back every card, plan and policy there is in
\* memory, for any number of cards, requests, failed ledger writes and restarts;
\* unless a save failed, or a stale clone or snapshot was written.
THEOREM RestartIsLossless == Spec => []RestartLosesNothing
<1>1. BooksInv => RestartLosesNothing
  <2>1. BooksInv => TypeOK /\ (Clean => Recorded)
    BY DEF BooksInv, Frame
  <2>2. Clean <=> ~raced /\ ~unsaved
    BY DEF Clean
  <2> QED BY <2>1, <2>2, QuietLoads DEF RestartLosesNothing
<1> QED BY <1>1, BooksInvariant, PTL

\* A card's end is never before its activation and the hours paid for since
\* (extend_card_hours, extend_card, activate_card, the first call), for any number
\* of them in any order and across restarts, with the same exceptions.
THEOREM PaidTimeIsKept == Spec => []PaidTimeKept
<1>1. BooksInv => PaidTimeKept
  <2>1. SUFFICES ASSUME BooksInv, ~raced, ~unsaved, NEW k \in DOMAIN cards \ idle,
                        Activated(cards[k])
                 PROVE  cards[k].expires >= start[k] + bought[k]
    BY DEF PaidTimeKept
  <2>2. Timed /\ TypeOK
    BY <2>1 DEF BooksInv, Frame, Clean
  <2>3. k \in CardKeys
    BY <2>1, <2>2 DEF TypeOK, IsTable
  <2> QED BY <2>1, <2>2, <2>3 DEF Timed, PaidAt
<1> QED BY <1>1, BooksInvariant, PTL
=============================================================================
