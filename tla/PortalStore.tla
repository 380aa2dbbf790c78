---------------------------- MODULE PortalStore ----------------------------
(***************************************************************************)
(* The user portal (src/portal.rs) and its handlers (src/admin/portal.rs): *)
(* users and balances, groups, call keys, sessions, and purchases.         *)
(*                                                                         *)
(* The data is an ArcSwap.  Every change loads it, edits a clone, writes   *)
(* the clone to portal.tmp, renames that to portal.json and stores the     *)
(* clone; no lock spans these steps.  A purchase adds to them a check on a *)
(* user record read earlier, the delivery by the card store, and a refund. *)
(* Amounts are whole cents.                                                *)
(***************************************************************************)
EXTENDS Integers, FiniteSets

CONSTANTS
    Handlers, Names,
    Groups, Plans,
    Price,          \* price of a plan, of an extension or of more lanes of its card
    Tokens,         \* call keys that may be generated
    Cards, OwnerOf, \* cards of the card store, and the name of their owner
    Deltas,         \* what an operator may add to a balance
    Opening,        \* balance of the user there is at start
    None, Torn,
    MaxJobs,        \* bound: requests of a behaviour
    MaxFaults       \* bound: failed writes and crashes

Ids == 1..(MaxJobs + 1)
User == [name : Names, balance : Int, on : BOOLEAN, group : Groups \cup {None}]
Modes == {"quota", "card"}

\* checked is history: the card of the key was once compared with its user.
PortalKey == [user : Ids, mode : Modes, card : Cards \cup {None}, checked : BOOLEAN]
Table(K, V) == UNION {[D -> V] : D \in SUBSET K}
Data == [users : Table(Ids, User), keys : Table(Tokens, PortalKey),
         groups : Table(Groups, SUBSET Plans), seq : Nat]

ASSUME PortalAssumption ==
    /\ Price \in [Plans -> Nat \ {0}] /\ OwnerOf \in [Cards -> Names]
    /\ Names # {} /\ Deltas \subseteq Int /\ Opening \in Nat
    /\ None \notin Groups \cup Cards /\ Torn # None
    /\ Torn \notin Data /\ None \notin Data
    /\ MaxJobs \in Nat /\ MaxFaults \in Nat

VARIABLES
    data,           \* PortalStore.data
    file, tmp,      \* portal.json and portal.tmp
    sessions,       \* users with a token that has not expired
    pc, job, me, phase, new,
    place,          \* where the inode is that a handler has open
    (* history *)
    paid, got,      \* what a purchase charged and whether it was delivered
    broke,          \* an update of this request failed
    logged,         \* sum of a user's portal_balance_log
    opened,         \* balance a user was created with
    issued,         \* call keys generated so far
    overlapped,     \* an update began while another was under way
    unlogged,       \* a balance change was not logged
    jobs, faults

disk == <<file, tmp, place>>
request == <<pc, job, me, phase, new>>
money == <<paid, got, broke>>
books == <<logged, opened, issued>>
history == <<overlapped, unlogged, jobs, faults>>
vars == <<data, disk, sessions, request, money, books, history>>

Purchases == {"quota", "card", "stack", "extend", "slots"}

\* "stack" buys a plan again whose card the user holds and whose stack mode
\* multiplies the time; "shrink" gives lanes back.  Edits with a note or a
\* password update the user a second time.  An update of a key sends a mode, a
\* card, perhaps the empty one, both, or neither.
Jobs ==
    [op : Purchases \cup {"shrink"}, plan : Plans]
    \cup [op : {"createKey"}, mode : Modes, card : Cards \cup {None}]
    \cup [op : {"updateKey"}, token : Tokens, mode : Modes \cup {"same"},
          rebind : BOOLEAN, card : Cards \cup {None}]
    \cup [op : {"deleteKey"}, token : Tokens]
    \cup [op : {"createUser"}, name : Names, again : BOOLEAN]
    \cup [op : {"updateUser"}, id : Ids, on : BOOLEAN, group : Groups, again : BOOLEAN]
    \cup [op : {"addBalance"}, id : Ids, delta : Deltas]
    \cup [op : {"upsertGroup"}, group : Groups, plans : SUBSET Plans]

PortalOps == Purchases \cup {"shrink", "createKey", "updateKey", "deleteKey"}

Nobody == [id |-> 0, balance |-> 0, name |-> None]
Empty == [users |-> [i \in {} |-> 0], keys |-> [t \in {} |-> 0],
          groups |-> [g \in {} |-> 0], seq |-> 0]
First == [Empty EXCEPT
    !.users = [i \in {1} |-> [name |-> CHOOSE n \in Names : TRUE, balance |-> Opening,
                              on |-> TRUE, group |-> None]],
    !.seq = 1]

Init ==
    /\ data = First /\ file = First /\ tmp = None /\ sessions = {}
    /\ pc = [h \in Handlers |-> "idle"]
    /\ job = [h \in Handlers |-> [op |-> "createUser", name |-> CHOOSE n \in Names : TRUE,
                                  again |-> FALSE]]
    /\ me = [h \in Handlers |-> Nobody]
    /\ phase = [h \in Handlers |-> "edit"]
    /\ new = [h \in Handlers |-> Empty]
    /\ place = [h \in Handlers |-> "closed"]
    /\ paid = [h \in Handlers |-> 0]
    /\ got = [h \in Handlers |-> FALSE] /\ broke = [h \in Handlers |-> FALSE]
    /\ logged = [i \in Ids |-> 0]
    /\ opened = [i \in Ids |-> IF i = 1 THEN Opening ELSE 0]
    /\ issued = {} /\ overlapped = FALSE /\ unlogged = FALSE /\ jobs = 0 /\ faults = 0

------------------------------------------------------------------------------
(* The edits, as functions of the data they clone. *)

Add(f, x, v) == [y \in DOMAIN f \cup {x} |-> IF y = x THEN v ELSE f[y]]

\* The balance is taken from the record the request began with.
BalanceAddedStale(h, d, i, x) == [d EXCEPT !.users[i].balance = me[h].balance + x]

BalanceAdded(h, d, i, x) == [d EXCEPT !.users[i].balance = @ + x]

UserCreated(d, name) ==
    [d EXCEPT !.seq = @ + 1,
              !.users = Add(@, d.seq + 1, [name |-> name, balance |-> Opening, on |-> TRUE,
                                           group |-> None])]

UserUpdated(d, i, on, g) == [d EXCEPT !.users[i].on = on, !.users[i].group = g]

GroupUpserted(d, g, plans) == [d EXCEPT !.groups = Add(@, g, plans)]

KeyCreated(d, i, t, mode, card) ==
    [d EXCEPT !.keys = Add(@, t, [user |-> i, mode |-> mode, card |-> card,
                                  checked |-> mode = "card"])]

KeyUpdated(d, t, mode, rebind, card) ==
    [d EXCEPT !.keys[t] = [d.keys[t] EXCEPT !.mode = IF mode = "same" THEN @ ELSE mode,
                                            !.card = IF rebind THEN card ELSE @,
                                            !.checked = @ \/ rebind]]

KeyDeleted(d, t) == [d EXCEPT !.keys = [s \in DOMAIN @ \ {t} |-> @[s]]]

\* What the clone is refused for: a name that is taken, a user or a key that is
\* not there.
Applies(h, d) ==
    LET j == job[h]
    IN  IF phase[h] # "edit" THEN me[h].id \in DOMAIN d.users
        ELSE CASE j.op = "createUser" -> \A i \in DOMAIN d.users : d.users[i].name # j.name
               [] j.op \in {"updateUser", "addBalance"} -> j.id \in DOMAIN d.users
               [] j.op \in {"updateKey", "deleteKey"} ->
                     j.token \in DOMAIN d.keys /\ d.keys[j.token].user = me[h].id
               [] j.op = "createKey"  -> Tokens \ issued # {}   \* the bound on tokens
               [] OTHER               -> TRUE

Edited(h, d) ==
    LET j == job[h]
    IN  CASE j.op = "createUser" -> UserCreated(d, j.name)
          [] j.op = "updateUser" -> UserUpdated(d, j.id, j.on, j.group)
          [] j.op = "addBalance" -> BalanceAdded(h, d, j.id, j.delta)
          [] j.op = "createKey"  -> KeyCreated(d, me[h].id, CHOOSE t \in Tokens \ issued : TRUE,
                                               j.mode, j.card)
          [] j.op = "updateKey"  -> KeyUpdated(d, j.token, j.mode, j.rebind, j.card)
          [] j.op = "deleteKey"  -> KeyDeleted(d, j.token)
          [] OTHER               -> GroupUpserted(d, j.group, j.plans)

Updated(h, d) ==
    CASE phase[h] = "charge" -> BalanceAdded(h, d, me[h].id, -Price[job[h].plan])
      [] phase[h] = "refund" -> BalanceAdded(h, d, me[h].id, Price[job[h].plan])
      [] phase[h] = "again"  -> d
      [] phase[h] = "edit"   -> Edited(h, d)

\* visible_plan_ids: no group, an unknown one and an empty list allow every plan.
Visible(d, i, p) ==
    LET g == d.users[i].group
    IN  g \in DOMAIN d.groups => d.groups[g] = {} \/ p \in d.groups[g]

\* The balance a request began with covers the price.
Affords(h) == me[h].balance >= Price[job[h].plan]

\* A key may be bound to any card.
OwnCardLoosely(h) == me[h].id \in DOMAIN data.users

\* A new key is compared with its card in card mode only, an old one when a card
\* is sent with it.
OwnCard(h) ==
    LET j == job[h]
    IN  /\ j.op = "createKey" /\ j.mode = "card" =>
              j.card # None /\ OwnerOf[j.card] = me[h].name
        /\ j.op = "updateKey" /\ j.rebind /\ j.card # None => OwnerOf[j.card] = me[h].name

\* The early returns of the handlers, on the user record they began with.
Permitted(h) ==
    LET op == job[h].op
    IN  /\ op \in PortalOps => me[h].id \in DOMAIN data.users
        /\ op \in {"quota", "card", "stack"} => Visible(data, me[h].id, job[h].plan)
        /\ op \in {"quota", "card", "extend", "slots"} => Affords(h)
        /\ op \in {"createKey", "updateKey"} => OwnCard(h)

------------------------------------------------------------------------------
(* Sessions. *)

Login(i) ==
    /\ i \in DOMAIN data.users /\ data.users[i].on /\ i \notin sessions
    /\ sessions' = sessions \cup {i}
    /\ UNCHANGED <<data, disk, request, money, books, history>>

\* logout, or a day has passed.
EndSession(i) ==
    /\ i \in sessions
    /\ sessions' = sessions \ {i}
    /\ UNCHANGED <<data, disk, request, money, books, history>>

------------------------------------------------------------------------------
(* A request up to its first update. *)

Goto(h, l) == pc' = [pc EXCEPT ![h] = l]

Updating(g) == pc[g] \in {"open", "write", "rename", "store"}

\* auth_user resolves the session to the user record of now.
Receive(h) ==
    /\ pc[h] = "idle" /\ jobs < MaxJobs
    /\ jobs' = jobs + 1
    /\ \E j \in Jobs :
         /\ job' = [job EXCEPT ![h] = j]
         /\ IF j.op \in PortalOps
            THEN \E i \in sessions \cap DOMAIN data.users :
                   me' = [me EXCEPT ![h] = [id |-> i, balance |-> data.users[i].balance,
                                            name |-> data.users[i].name]]
            ELSE me' = [me EXCEPT ![h] = Nobody]
    /\ paid' = [paid EXCEPT ![h] = 0]
    /\ got' = [got EXCEPT ![h] = FALSE] /\ broke' = [broke EXCEPT ![h] = FALSE]
    /\ Goto(h, "check")
    /\ UNCHANGED <<data, disk, sessions, phase, new, books, overlapped, unlogged, faults>>

\* A key's card may also be gone or disabled.
Refuse(h) ==
    /\ pc[h] = "check"
    /\ ~Permitted(h) \/ (job[h].op \in {"createKey", "updateKey"} /\ job[h].card # None)
    /\ Goto(h, "idle")
    /\ UNCHANGED <<data, disk, sessions, job, me, phase, new, money, books, history>>

\* Time that is stacked and lanes that are given back are not checked against
\* the balance and are delivered first.
Begin(h) ==
    /\ pc[h] = "check" /\ Permitted(h)
    /\ Goto(h, IF job[h].op \in {"stack", "shrink"} THEN "deliver" ELSE "load")
    /\ phase' = [phase EXCEPT ![h] = IF job[h].op \in Purchases THEN "charge" ELSE "edit"]
    /\ UNCHANGED <<data, disk, sessions, job, me, new, money, books, history>>

------------------------------------------------------------------------------
(* update_user and its like: clone, edit, save. *)

Load(h) ==
    /\ pc[h] = "load"
    /\ IF Applies(h, data)
       THEN /\ new' = [new EXCEPT ![h] = Updated(h, data)]
            /\ issued' = issued \cup (DOMAIN new'[h].keys \ DOMAIN data.keys)
            /\ Goto(h, "open") /\ UNCHANGED broke
       ELSE /\ broke' = [broke EXCEPT ![h] = TRUE]
            /\ Goto(h, "done") /\ UNCHANGED <<new, issued>>
    /\ overlapped' = (overlapped \/ \E g \in Handlers : Updating(g))
    /\ UNCHANGED <<data, disk, sessions, job, me, phase, paid, got, logged, opened,
                   unlogged, jobs, faults>>

Open(h) ==
    /\ pc[h] = "open"
    /\ tmp' = Torn /\ place' = [place EXCEPT ![h] = "tmp"]
    /\ Goto(h, "write")
    /\ UNCHANGED <<data, file, sessions, job, me, phase, new, money, books, history>>

Write(h) ==
    /\ pc[h] = "write"
    /\ tmp' = IF place[h] = "tmp" THEN new[h] ELSE tmp
    /\ file' = IF place[h] = "file" THEN new[h] ELSE file
    /\ place' = [place EXCEPT ![h] = "closed"]
    /\ Goto(h, "rename")
    /\ UNCHANGED <<data, sessions, job, me, phase, new, money, books, history>>

\* The inodes open under the temporary name are portal.json from now on.
Moved(p) == CASE p = "tmp" -> "file" [] p = "file" -> "gone" [] OTHER -> p

\* The memory is replaced first.
RenameLate(h) ==
    /\ pc[h] = "rename" /\ tmp # None
    /\ data' = tmp /\ tmp' = None /\ place' = [g \in Handlers |-> Moved(place[g])]
    /\ Goto(h, "store")
    /\ UNCHANGED <<file, sessions, job, me, phase, new, money, books, history>>

Rename(h) ==
    /\ pc[h] = "rename" /\ tmp # None
    /\ file' = tmp /\ tmp' = None /\ place' = [g \in Handlers |-> Moved(place[g])]
    /\ Goto(h, "store")
    /\ UNCHANGED <<data, sessions, job, me, phase, new, money, books, history>>

\* The disk refuses, or another save has renamed the file already.
SaveFails(h) ==
    /\ \/ pc[h] \in {"open", "write"} /\ faults < MaxFaults /\ faults' = faults + 1
       \/ pc[h] = "rename" /\ tmp = None /\ faults' = faults
    /\ place' = [place EXCEPT ![h] = "closed"]
    /\ broke' = [broke EXCEPT ![h] = TRUE]
    /\ Goto(h, "done")
    /\ UNCHANGED <<data, file, tmp, sessions, job, me, phase, new, paid, got, books,
                   overlapped, unlogged, jobs>>

Money(h) == phase[h] \in {"charge", "refund"} \/ job[h].op = "addBalance"

\* Where a request goes after an update: a charge is followed by the delivery
\* unless that came first, a user with a note is updated once more.
Onward(h) ==
    CASE phase[h] = "charge" /\ job[h].op # "stack" -> "deliver"
      [] phase[h] = "edit" /\ job[h].op \in {"createUser", "updateUser"} ->
            IF job[h].again THEN "load" ELSE "done"
      [] OTHER -> "done"

Store(h) ==
    /\ pc[h] = "store"
    /\ data' = new[h]
    /\ paid' = [paid EXCEPT ![h] = CASE phase[h] = "charge" -> @ + 1
                                     [] phase[h] = "refund" -> @ - 1
                                     [] OTHER -> @]
    /\ opened' = IF phase[h] = "edit" /\ job[h].op = "createUser"
                 THEN [opened EXCEPT ![new[h].seq] = Opening] ELSE opened
    /\ me' = [me EXCEPT ![h].id = IF phase[h] # "edit" THEN @
                                  ELSE CASE job[h].op = "createUser" -> new[h].seq
                                         [] job[h].op = "updateUser" -> job[h].id
                                         [] OTHER -> @]
    /\ phase' = [phase EXCEPT ![h] = IF Onward(h) = "load" THEN "again" ELSE @]
    /\ Goto(h, IF Money(h) THEN "log" ELSE Onward(h))
    /\ UNCHANGED <<disk, sessions, job, new, got, broke, logged, issued, history>>

Delta(h) ==
    CASE phase[h] = "charge" -> -Price[job[h].plan]
      [] phase[h] = "refund" -> Price[job[h].plan]
      [] OTHER               -> job[h].delta

\* A log entry that cannot be written is passed over.
Log(h) ==
    /\ pc[h] = "log"
    /\ \/ /\ logged' = [logged EXCEPT
              ![IF phase[h] = "edit" THEN job[h].id ELSE me[h].id] = @ + Delta(h)]
          /\ UNCHANGED <<unlogged, faults>>
       \/ /\ faults < MaxFaults /\ faults' = faults + 1
          /\ unlogged' = TRUE /\ UNCHANGED logged
    /\ Goto(h, Onward(h))
    /\ UNCHANGED <<data, disk, sessions, job, me, phase, new, money, opened, issued,
                   overlapped, jobs>>

\* Stacked time is charged once it was delivered; lanes given back cost nothing.
DeliverFirst(h) ==
    /\ pc[h] = "deliver" /\ job[h].op \in {"stack", "shrink"}
    /\ \E ok \in BOOLEAN :
         /\ got' = [got EXCEPT ![h] = ok]
         /\ Goto(h, IF ok /\ job[h].op = "stack" THEN "load" ELSE "done")
    /\ UNCHANGED <<data, disk, sessions, job, me, phase, new, paid, broke, books, history>>

\* A delivery that fails is answered with an error.
DeliverUnrefunded(h) ==
    /\ pc[h] = "deliver" /\ job[h].op \notin {"stack", "shrink"}
    /\ \E ok \in BOOLEAN : got' = [got EXCEPT ![h] = ok]
    /\ Goto(h, "done")
    /\ UNCHANGED <<data, disk, sessions, job, me, phase, new, paid, broke, books, history>>

\* The card store issues, extends or credits, or refuses: a plan or a card that
\* is gone by now, cards.db out of order.  What was charged is then refunded.
Deliver(h) ==
    /\ pc[h] = "deliver" /\ job[h].op \notin {"stack", "shrink"}
    /\ \E ok \in BOOLEAN :
         /\ got' = [got EXCEPT ![h] = ok]
         /\ Goto(h, IF ok THEN "done" ELSE "load")
         /\ phase' = [phase EXCEPT ![h] = IF ok THEN @ ELSE "refund"]
    /\ UNCHANGED <<data, disk, sessions, job, me, new, paid, broke, books, history>>

Answer(h) ==
    /\ pc[h] = "done"
    /\ Goto(h, "idle")
    /\ UNCHANGED <<data, disk, sessions, job, me, phase, new, money, books, history>>

\* The process ends and opens portal.json again; a file it cannot read is taken
\* for no users at all.
Crash ==
    /\ faults < MaxFaults /\ faults' = faults + 1
    /\ data' = IF file = Torn THEN Empty ELSE file
    /\ sessions' = {}
    /\ pc' = [h \in Handlers |-> "idle"] /\ place' = [h \in Handlers |-> "closed"]
    /\ unlogged' = TRUE
    /\ UNCHANGED <<file, tmp, job, me, phase, new, money, books, overlapped, jobs>>

Step(h) ==
    \/ Receive(h) \/ Refuse(h) \/ Begin(h) \/ Load(h) \/ Open(h) \/ Write(h) \/ Rename(h)
    \/ SaveFails(h) \/ Store(h) \/ Log(h) \/ DeliverFirst(h) \/ Deliver(h) \/ Answer(h)

Next ==
    \/ \E h \in Handlers : Step(h)
    \/ \E i \in Ids : Login(i) \/ EndSession(i)
    \/ Crash

Spec == Init /\ [][Next]_vars

------------------------------------------------------------------------------
(* Properties. *)

\* The data, its file and the requests hold what their types say.
TypeOK ==
    /\ data \in Data /\ file \in Data \cup {Torn} /\ tmp \in Data \cup {Torn, None}
    /\ sessions \subseteq Ids /\ job \in [Handlers -> Jobs]
    /\ me \in [Handlers -> [id : Ids \cup {0}, balance : Int, name : Names \cup {None}]]
    /\ pc \in [Handlers -> {"idle", "check", "load", "open", "write", "rename", "store",
                            "log", "deliver", "done"}]
    /\ phase \in [Handlers -> {"edit", "again", "charge", "refund"}]
    /\ new \in [Handlers -> Data]
    /\ place \in [Handlers -> {"closed", "tmp", "file", "gone"}]
    /\ paid \in [Handlers -> {0, 1}] /\ got \in [Handlers -> BOOLEAN]
    /\ broke \in [Handlers -> BOOLEAN] /\ logged \in [Ids -> Int] /\ opened \in [Ids -> Int]
    /\ issued \subseteq Tokens /\ overlapped \in BOOLEAN /\ unlogged \in BOOLEAN
    /\ jobs \in Nat /\ faults \in Nat

Sound(d) ==
    /\ \A i, j \in DOMAIN d.users : d.users[i].name = d.users[j].name => i = j
    /\ \A i \in DOMAIN d.users : i <= d.seq
    /\ \A t \in DOMAIN d.keys :
         LET k == d.keys[t]
         IN  k.checked /\ k.card # None /\ k.user \in DOMAIN d.users
               => OwnerOf[k.card] = d.users[k.user].name \/ overlapped

\* Changes overwrite each other, but each stores a whole clone: whatever overlaps,
\* in memory and in the file no two users share a name and no id is beyond the
\* counter; and, as long as no two changes overlapped, no key whose card the
\* handlers compared with its user is bound to the card of another.
SnapshotsSound == Sound(data) /\ (file # Torn => Sound(file))

\* Every purchase, at its end: what was delivered was charged, once, unless it is
\* stacked time, delivered before a charge that then failed; what was charged and
\* not delivered was refunded, unless the refund itself failed.
ChargedIffDelivered ==
    \A h \in Handlers : pc[h] = "done" /\ job[h].op \in Purchases =>
        /\ got[h] /\ paid[h] = 0 => job[h].op = "stack" /\ broke[h]
        /\ paid[h] = 1 /\ ~got[h] => phase[h] = "refund" /\ broke[h]

\* A balance is what the user was created with and the sum of the log, between
\* changes, as long as none overlapped another and none went unlogged: neither
\* time between check and charge nor refunds or failed saves blur it.
BalanceExplained ==
    (~overlapped /\ ~unlogged) =>
        \A i \in DOMAIN data.users :
            (\A h \in Handlers : pc[h] # "log") =>
                data.users[i].balance = opened[i] + logged[i]

\* The file is ahead of the memory only while a save is under way, and never
\* unreadable, as long as no two changes overlapped, crashes and failed writes
\* included: what the portal has told a user survives.
FileFollowed ==
    ~overlapped => /\ file # Torn
                   /\ (\A h \in Handlers : pc[h] # "store") => data = file

\* admin/portal.rs says that the owner of a card is checked before a key enters
\* card mode, so that a key in card mode is bound to a card of its user.
OwnCardAlways ==
    \A t \in DOMAIN data.keys :
        LET k == data.keys[t]
        IN  k.mode = "card" /\ k.card # None /\ k.user \in DOMAIN data.users
              => OwnerOf[k.card] = data.users[k.user].name \/ overlapped

\* docs/portal-design.md: the balance is checked on purchase and an insufficient
\* one refused, so that it does not become negative.
BalanceCoversPurchase ==
    [][\A h \in Handlers : Store(h) /\ phase[h] = "charge" =>
         new[h].users[me[h].id].balance >= 0]_vars
=============================================================================
