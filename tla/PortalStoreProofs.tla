------------------------- MODULE PortalStoreProofs -------------------------
(***************************************************************************)
(* Proofs about the user portal, for any number of handlers, users, plans  *)
(* and requests.                                                           *)
(***************************************************************************)
EXTENDS PortalStore, FiniteSetTheorems, TLAPS

------------------------------------------------------------------------------
(* The edits. *)

\* A table is a function from some of the keys.
LEMMA TableIff ==
    ASSUME NEW K, NEW V, NEW f
    PROVE  f \in Table(K, V) <=> /\ f = [x \in DOMAIN f |-> f[x]]
                                 /\ DOMAIN f \subseteq K
                                 /\ \A x \in DOMAIN f : f[x] \in V
<1>1. ASSUME f \in Table(K, V)
      PROVE  f = [x \in DOMAIN f |-> f[x]] /\ DOMAIN f \subseteq K
             /\ \A x \in DOMAIN f : f[x] \in V
  <2>1. PICK D \in SUBSET K : f \in [D -> V]
    BY <1>1 DEF Table
  <2> QED BY <2>1
<1>2. ASSUME f = [x \in DOMAIN f |-> f[x]], DOMAIN f \subseteq K,
             \A x \in DOMAIN f : f[x] \in V
      PROVE  f \in Table(K, V)
  <2>1. f \in [DOMAIN f -> V]
    BY <1>2
  <2> QED BY <1>2, <2>1 DEF Table
<1> QED BY <1>1, <1>2

\* Adding an entry to a table.
LEMMA AddTable ==
    ASSUME NEW K, NEW V, NEW f \in Table(K, V), NEW x \in K, NEW v \in V
    PROVE  /\ Add(f, x, v) \in Table(K, V) /\ DOMAIN Add(f, x, v) = DOMAIN f \cup {x}
           /\ Add(f, x, v)[x] = v
           /\ \A y \in DOMAIN f \ {x} : Add(f, x, v)[y] = f[y]
<1> DEFINE g == Add(f, x, v)
<1>0. DOMAIN f \subseteq K /\ \A y \in DOMAIN f : f[y] \in V
  BY TableIff
<1>1. /\ DOMAIN g = DOMAIN f \cup {x} /\ g = [y \in DOMAIN g |-> g[y]]
      /\ g[x] = v /\ \A y \in DOMAIN f \ {x} : g[y] = f[y]
  BY DEF Add
<1> HIDE DEF g
<1>2. \A y \in DOMAIN g : g[y] \in V
  BY <1>0, <1>1
<1>3. g \in Table(K, V)
  BY <1>0, <1>1, <1>2, TableIff
<1> QED BY <1>1, <1>3 DEF g

\* Changing an entry of a table.
LEMMA ExceptTable ==
    ASSUME NEW K, NEW V, NEW f \in Table(K, V), NEW x, NEW v \in V
    PROVE  /\ [f EXCEPT ![x] = v] \in Table(K, V)
           /\ DOMAIN [f EXCEPT ![x] = v] = DOMAIN f
           /\ x \in DOMAIN f => [f EXCEPT ![x] = v][x] = v
           /\ \A y \in DOMAIN f \ {x} : [f EXCEPT ![x] = v][y] = f[y]
<1> DEFINE g == [f EXCEPT ![x] = v]
<1>0. DOMAIN f \subseteq K /\ \A y \in DOMAIN f : f[y] \in V
  BY TableIff
<1>1. /\ DOMAIN g = DOMAIN f /\ g = [y \in DOMAIN g |-> g[y]]
      /\ x \in DOMAIN f => g[x] = v
      /\ \A y \in DOMAIN f \ {x} : g[y] = f[y]
  OBVIOUS
<1> HIDE DEF g
<1>2. \A y \in DOMAIN g : g[y] \in V
  BY <1>0, <1>1
<1>3. g \in Table(K, V)
  BY <1>0, <1>1, <1>2, TableIff
<1> QED BY <1>1, <1>3 DEF g

\* The user a request's money goes to or comes from.
Target(h) == IF phase[h] = "edit" THEN job[h].id ELSE me[h].id

Creating(h) == phase[h] = "edit" /\ job[h].op = "createUser"

\* A card that counts as checked is the card of the request's user.
Vouched(h, k) == k.checked /\ k.card # None => OwnerOf[k.card] = me[h].name

\* How an edited clone n relates to the data d it was made from: users stay, keep
\* their names, and their balances but for the target's; one that is new has the
\* next id; a key keeps its user, its card and whether that was checked, or it is
\* the request's, whose card was checked and is its user's.
Edit(h, d, n) ==
    /\ \A i \in DOMAIN d.users :
         /\ i \in DOMAIN n.users /\ n.users[i].name = d.users[i].name
         /\ n.users[i].balance =
              d.users[i].balance + (IF Money(h) /\ i = Target(h) THEN Delta(h) ELSE 0)
    /\ \A i \in DOMAIN n.users \ DOMAIN d.users :
         /\ Creating(h) /\ i = d.seq + 1
         /\ n.users[i].name = job[h].name /\ n.users[i].balance = Opening
    /\ n.seq = IF Creating(h) THEN d.seq + 1 ELSE d.seq
    /\ \A t \in DOMAIN n.keys :
         \/ /\ t \in DOMAIN d.keys
            /\ n.keys[t].user = d.keys[t].user /\ n.keys[t].card = d.keys[t].card
            /\ n.keys[t].checked = d.keys[t].checked
         \/ /\ job[h].op \in {"createKey", "updateKey"} /\ n.keys[t].user = me[h].id
            /\ Vouched(h, n.keys[t])
    /\ Money(h) => Target(h) \in DOMAIN d.users

\* What a job carries, by its kind.
LEMMA JobFields ==
    ASSUME NEW j \in Jobs
    PROVE  /\ j.op \in Purchases => j.plan \in Plans
           /\ j.op \in {"createKey", "updateKey"} => j.card \in Cards \cup {None}
           /\ j.op = "createKey" => j.mode \in Modes
           /\ j.op = "updateKey" => j.mode \in Modes \cup {"same"} /\ j.rebind \in BOOLEAN
           /\ j.op \in {"updateKey", "deleteKey"} => j.token \in Tokens
           /\ j.op = "createUser" => j.name \in Names
           /\ j.op = "updateUser" => j.id \in Ids /\ j.on \in BOOLEAN /\ j.group \in Groups
           /\ j.op = "addBalance" => j.id \in Ids /\ j.delta \in Deltas
           /\ j.op = "upsertGroup" => j.group \in Groups /\ j.plans \in SUBSET Plans
           /\ j.op \in Purchases \cup {"shrink", "createKey", "updateKey", "deleteKey",
                       "createUser", "updateUser", "addBalance", "upsertGroup"}
<1>1. CASE j \in [op : Purchases \cup {"shrink"}, plan : Plans]
  BY <1>1 DEF Purchases
<1>2. CASE j \in [op : {"createKey"}, mode : Modes, card : Cards \cup {None}]
  BY <1>2 DEF Purchases
<1>3. CASE j \in [op : {"updateKey"}, token : Tokens, mode : Modes \cup {"same"},
                rebind : BOOLEAN, card : Cards \cup {None}]
  BY <1>3 DEF Purchases
<1>4. CASE j \in [op : {"deleteKey"}, token : Tokens]
  BY <1>4 DEF Purchases
<1>5. CASE j \in [op : {"createUser"}, name : Names, again : BOOLEAN]
  BY <1>5 DEF Purchases
<1>6. CASE j \in [op : {"updateUser"}, id : Ids, on : BOOLEAN, group : Groups, again : BOOLEAN]
  BY <1>6 DEF Purchases
<1>7. CASE j \in [op : {"addBalance"}, id : Ids, delta : Deltas]
  BY <1>7 DEF Purchases
<1>8. CASE j \in [op : {"upsertGroup"}, group : Groups, plans : SUBSET Plans]
  BY <1>8 DEF Purchases
<1> QED BY <1>1, <1>2, <1>3, <1>4, <1>5, <1>6, <1>7, <1>8 DEF Jobs

\* The fields of the data.
LEMMA DataFields ==
    ASSUME NEW d \in Data
    PROVE  /\ d.users \in Table(Ids, User) /\ d.keys \in Table(Tokens, PortalKey)
           /\ d.groups \in Table(Groups, SUBSET Plans) /\ d.seq \in Nat
           /\ \A i \in DOMAIN d.users : d.users[i] \in User /\ i \in Ids
           /\ \A t \in DOMAIN d.keys : d.keys[t] \in PortalKey /\ t \in Tokens
<1>1. /\ d.users \in Table(Ids, User) /\ d.keys \in Table(Tokens, PortalKey)
      /\ d.groups \in Table(Groups, SUBSET Plans) /\ d.seq \in Nat
  BY DEF Data
<1> QED BY <1>1, TableIff

\* A change of one balance.
LEMMA BalanceEdit ==
    ASSUME NEW h, NEW d \in Data, NEW i \in DOMAIN d.users, NEW x \in Int,
           NEW n, n = BalanceAdded(h, d, i, x)
    PROVE  /\ n \in Data /\ n.seq = d.seq /\ n.keys = d.keys
           /\ DOMAIN n.users = DOMAIN d.users
           /\ \A k \in DOMAIN d.users :
                /\ n.users[k].name = d.users[k].name
                /\ n.users[k].balance = d.users[k].balance + (IF k = i THEN x ELSE 0)
<1> DEFINE u == [d.users[i] EXCEPT !.balance = @ + x]
<1>1. d.users[i] \in User /\ u \in User /\ u.name = d.users[i].name
      /\ u.balance = d.users[i].balance + x
  BY DataFields DEF User
<1>2. n = [d EXCEPT !.users = [d.users EXCEPT ![i] = u]]
  BY DEF BalanceAdded
<1> HIDE DEF u
<1>3. /\ [d.users EXCEPT ![i] = u] \in Table(Ids, User)
      /\ DOMAIN [d.users EXCEPT ![i] = u] = DOMAIN d.users
      /\ [d.users EXCEPT ![i] = u][i] = u
      /\ \A y \in DOMAIN d.users \ {i} : [d.users EXCEPT ![i] = u][y] = d.users[y]
  BY <1>1, DataFields, ExceptTable
<1>4. n \in Data /\ n.seq = d.seq /\ n.keys = d.keys /\ n.users = [d.users EXCEPT ![i] = u]
  BY <1>2, <1>3 DEF Data
<1>5. \A k \in DOMAIN d.users : /\ n.users[k].name = d.users[k].name
            /\ n.users[k].balance = d.users[k].balance + (IF k = i THEN x ELSE 0)
  <2> TAKE k \in DOMAIN d.users
  <2>1. d.users[k].balance \in Int
    BY DataFields DEF User
  <2>2. CASE k = i
    BY <1>1, <1>3, <1>4, <2>2
  <2>3. CASE k # i
    BY <1>3, <1>4, <2>1, <2>3
  <2> QED BY <2>2, <2>3
<1> QED BY <1>3, <1>4, <1>5

\* A request that is past its checks: the phase fits the job, money moves only
\* in purchases and balance changes, and a portal request has a user.
Kind(h) ==
    /\ phase[h] \in {"charge", "refund"} <=> job[h].op \in Purchases
    /\ phase[h] = "again" => job[h].op \in {"createUser", "updateUser"}
    /\ job[h].op \in PortalOps => me[h].id \in Ids

\* Every edit is one, and gives data.
LEMMA Edits ==
    ASSUME NEW h, NEW d \in Data, job[h] \in Jobs, job[h].op # "shrink", Kind(h),
           phase[h] \in {"edit", "again", "charge", "refund"}, issued \in SUBSET Tokens,
           Creating(h) => d.seq + 1 \in Ids \ DOMAIN d.users, Applies(h, d),
           job[h].op \in {"createKey", "updateKey"} => OwnCard(h)
    PROVE  Updated(h, d) \in Data /\ Edit(h, d, Updated(h, d))
<1> DEFINE j == job[h]
           n == Updated(h, d)
<1>0. /\ d.users \in Table(Ids, User) /\ d.keys \in Table(Tokens, PortalKey)
      /\ d.groups \in Table(Groups, SUBSET Plans) /\ d.seq \in Nat
  BY DataFields
<1>a. \A i \in DOMAIN d.users : d.users[i].balance \in Int
  BY DataFields DEF User
<1>b. \A i \in DOMAIN d.users : d.users[i].balance + 0 = d.users[i].balance
  BY <1>a
<1>1. CASE phase[h] \in {"charge", "refund"}
  <2>1. j.op \in Purchases /\ me[h].id \in DOMAIN d.users
    BY <1>1 DEF Kind, Applies
  <2>2. Price[j.plan] \in Int /\ Delta(h) \in Int
    BY <1>1, <2>1, JobFields, PortalAssumption DEF Delta
  <2>3. n = BalanceAdded(h, d, me[h].id, Delta(h))
    BY <1>1 DEF Updated, Delta
  <2>4. Money(h) /\ Target(h) = me[h].id /\ ~Creating(h)
    BY <1>1 DEF Money, Target, Creating
  <2> HIDE DEF n
  <2>5. /\ n \in Data /\ n.seq = d.seq /\ n.keys = d.keys /\ DOMAIN n.users = DOMAIN d.users
        /\ \A k \in DOMAIN d.users :
             /\ n.users[k].name = d.users[k].name
             /\ n.users[k].balance =
                  d.users[k].balance + (IF k = me[h].id THEN Delta(h) ELSE 0)
    BY ONLY d \in Data, <2>1, <2>2, <2>3, BalanceEdit
  <2> QED BY <2>1, <2>4, <2>5 DEF Edit, n
<1>2. CASE phase[h] = "again"
  <2>1. n = d /\ ~Money(h) /\ ~Creating(h)
    BY <1>2 DEF Updated, Money, Creating, Kind
  <2> HIDE DEF n
  <2> QED BY <1>b, <2>1 DEF Edit, n
<1>3. CASE phase[h] = "edit"
  <2>0. j.op \notin Purchases
    BY <1>3 DEF Kind
  <2>1. CASE j.op = "createUser"
    <3> DEFINE u == [name |-> j.name, balance |-> Opening, on |-> TRUE, group |-> None]
               k == d.seq + 1
               us == Add(d.users, k, u)
    <3>1. u \in User /\ u.name = j.name /\ u.balance = Opening
      BY <2>1, JobFields, PortalAssumption DEF User
    <3>2. n = [d EXCEPT !.seq = k, !.users = us]
      BY <1>3, <2>1 DEF Updated, Edited, UserCreated
    <3>3. ~Money(h) /\ Creating(h) /\ k \in Ids /\ k \in Nat /\ k \notin DOMAIN d.users
      BY <1>0, <1>3, <2>1 DEF Money, Creating
    <3> HIDE DEF u, n, k
    <3>5. /\ us \in Table(Ids, User) /\ DOMAIN us = DOMAIN d.users \cup {k}
          /\ us[k] = u /\ \A y \in DOMAIN d.users \ {k} : us[y] = d.users[y]
      <4>1. d.users \in Table(Ids, User) /\ k \in Ids /\ u \in User
        BY <1>0, <3>1, <3>3
      <4>2. us \in Table(Ids, User)
        BY <4>1, AddTable
      <4> QED BY <4>2 DEF Add
    <3> HIDE DEF us
    <3>6. n \in Data /\ n.seq = k /\ n.keys = d.keys /\ n.users = us
      BY <1>0, <3>2, <3>3, <3>5 DEF Data
    <3> QED BY <1>b, <3>1, <3>3, <3>5, <3>6 DEF Edit, n, k
  <2>2. CASE j.op = "updateUser"
    <3> DEFINE u == [d.users[j.id] EXCEPT !.on = j.on, !.group = j.group]
               us == [d.users EXCEPT ![j.id] = u]
    <3>0. j.id \in DOMAIN d.users /\ d.users[j.id] \in User
      BY <1>3, <2>2, DataFields DEF Applies
    <3>1. u \in User /\ u.name = d.users[j.id].name /\ u.balance = d.users[j.id].balance
      BY <2>2, <3>0, JobFields DEF User
    <3>2. n = [d EXCEPT !.users = us]
      BY <1>0, <1>3, <2>2, <3>0 DEF Updated, Edited, UserUpdated, User
    <3>3. ~Money(h) /\ ~Creating(h)
      BY <1>3, <2>2 DEF Money, Creating
    <3> HIDE DEF u, n
    <3>4. us \in Table(Ids, User)
      BY <1>0, <3>1, ExceptTable
    <3>5. DOMAIN us = DOMAIN d.users /\ us[j.id] = u
          /\ \A y \in DOMAIN d.users \ {j.id} : us[y] = d.users[y]
      BY <3>0
    <3> HIDE DEF us
    <3>6. n \in Data /\ n.seq = d.seq /\ n.keys = d.keys /\ n.users = us
      BY <3>2, <3>4 DEF Data
    <3>7. \A i \in DOMAIN d.users : /\ n.users[i].name = d.users[i].name
                                   /\ n.users[i].balance = d.users[i].balance
      BY <3>1, <3>5, <3>6
    <3> QED BY <1>b, <3>3, <3>5, <3>6, <3>7 DEF Edit, n
  <2>3. CASE j.op = "addBalance"
    <3>1. j.id \in DOMAIN d.users /\ j.delta \in Int
      BY <1>3, <2>3, JobFields, PortalAssumption DEF Applies
    <3>2. n = BalanceAdded(h, d, j.id, j.delta) /\ Delta(h) = j.delta
      BY <1>3, <2>3 DEF Updated, Edited, Delta
    <3>3. Money(h) /\ Target(h) = j.id /\ ~Creating(h)
      BY <1>3, <2>3 DEF Money, Target, Creating
    <3> HIDE DEF n
    <3>4. /\ n \in Data /\ n.seq = d.seq /\ n.keys = d.keys
          /\ DOMAIN n.users = DOMAIN d.users
          /\ \A k \in DOMAIN d.users :
               /\ n.users[k].name = d.users[k].name
               /\ n.users[k].balance =
                    d.users[k].balance + (IF k = j.id THEN j.delta ELSE 0)
      <4>1. n = BalanceAdded(h, d, j.id, j.delta)
        BY <3>2
      <4> QED BY <3>1, <4>1, BalanceEdit
    <3> QED BY <3>1, <3>2, <3>3, <3>4 DEF Edit, n
  <2>4. CASE j.op = "createKey"
    <3> DEFINE t == CHOOSE t \in Tokens \ issued : TRUE
               e == [user |-> me[h].id, mode |-> j.mode, card |-> j.card,
                     checked |-> j.mode = "card"]
               ks == Add(d.keys, t, e)
    <3>1. t \in Tokens
      BY <1>3, <2>4 DEF Applies
    <3>2. e \in PortalKey /\ e.user = me[h].id
      BY <2>4, JobFields DEF Kind, PortalOps, PortalKey
    <3>8. Vouched(h, e)
      BY <2>4 DEF OwnCard, Vouched
    <3>3. n = [d EXCEPT !.keys = ks]
      BY <1>3, <2>4 DEF Updated, Edited, KeyCreated
    <3>4. ~Money(h) /\ ~Creating(h)
      BY <1>3, <2>4 DEF Money, Creating
    <3> HIDE DEF t, e, n
    <3>5. ks \in Table(Tokens, PortalKey)
      BY <1>0, <3>1, <3>2, AddTable
    <3>6. DOMAIN ks = DOMAIN d.keys \cup {t} /\ ks[t] = e
          /\ \A y \in DOMAIN d.keys \ {t} : ks[y] = d.keys[y]
      BY DEF Add
    <3> HIDE DEF ks
    <3>7. n \in Data /\ n.seq = d.seq /\ n.users = d.users /\ n.keys = ks
      BY <3>3, <3>5 DEF Data
    <3> QED BY <1>b, <2>4, <3>2, <3>4, <3>6, <3>7, <3>8 DEF Edit, n
  <2>5. CASE j.op = "updateKey"
    <3> DEFINE k == d.keys[j.token]
               e == [k EXCEPT !.mode = IF j.mode = "same" THEN @ ELSE j.mode,
                              !.card = IF j.rebind THEN j.card ELSE @,
                              !.checked = @ \/ j.rebind]
               ks == [d.keys EXCEPT ![j.token] = e]
    <3>1. /\ j.token \in DOMAIN d.keys /\ d.keys[j.token].user = me[h].id
          /\ d.keys[j.token] \in PortalKey
      BY <1>3, <2>5, DataFields DEF Applies
    <3>2. e \in PortalKey /\ e.user = me[h].id
      BY <2>5, <3>1, JobFields DEF PortalKey
    <3>8. \/ e.card = k.card /\ e.checked = k.checked
          \/ Vouched(h, e)
      <4>1. CASE j.rebind
        <5>1. e.card = j.card
          BY <3>1, <4>1 DEF PortalKey
        <5> QED BY <2>5, <4>1, <5>1 DEF OwnCard, Vouched
      <4>2. CASE ~j.rebind
        BY <3>1, <4>2 DEF PortalKey
      <4> QED BY <4>1, <4>2
    <3>3. n = [d EXCEPT !.keys = ks]
      <4>1. n = KeyUpdated(d, j.token, j.mode, j.rebind, j.card)
        BY <1>3, <2>5 DEF Updated, Edited
      <4> HIDE DEF n
      <4>2. n = [d EXCEPT !.keys[j.token] = e]
        BY <4>1 DEF KeyUpdated
      <4> HIDE DEF e
      <4> QED BY <4>2
    <3>4. ~Money(h) /\ ~Creating(h)
      BY <1>3, <2>5 DEF Money, Creating
    <3> HIDE DEF e, n
    <3>5. ks \in Table(Tokens, PortalKey)
      BY <1>0, <3>2, ExceptTable
    <3>6. DOMAIN ks = DOMAIN d.keys /\ ks[j.token] = e
          /\ \A y \in DOMAIN d.keys \ {j.token} : ks[y] = d.keys[y]
      BY <3>1
    <3> HIDE DEF ks
    <3>7. n \in Data /\ n.seq = d.seq /\ n.users = d.users /\ n.keys = ks
      BY <3>3, <3>5 DEF Data
    <3> QED BY <1>b, <2>5, <3>1, <3>2, <3>4, <3>6, <3>7, <3>8 DEF Edit, n
  <2>6. CASE j.op = "deleteKey"
    <3> DEFINE ks == [s \in DOMAIN d.keys \ {j.token} |-> d.keys[s]]
    <3>1. n = [d EXCEPT !.keys = ks]
      BY <1>3, <2>6 DEF Updated, Edited, KeyDeleted
    <3>2. ~Money(h) /\ ~Creating(h)
      BY <1>3, <2>6 DEF Money, Creating
    <3> HIDE DEF n
    <3>3. /\ ks = [x \in DOMAIN ks |-> ks[x]] /\ DOMAIN ks = DOMAIN d.keys \ {j.token}
          /\ \A s \in DOMAIN ks : ks[s] = d.keys[s]
      OBVIOUS
    <3> HIDE DEF ks
    <3>4. DOMAIN ks \subseteq Tokens /\ \A s \in DOMAIN ks : ks[s] \in PortalKey
      BY <3>3, DataFields
    <3>5. ks \in Table(Tokens, PortalKey)
      BY <3>3, <3>4, TableIff
    <3>6. n \in Data /\ n.seq = d.seq /\ n.users = d.users /\ n.keys = ks
      BY <3>1, <3>5 DEF Data
    <3> QED BY <1>b, <3>2, <3>3, <3>6 DEF Edit, n
  <2>7. CASE j.op = "upsertGroup"
    <3>1. n = [d EXCEPT !.groups = Add(@, j.group, j.plans)]
      BY <1>3, <2>7 DEF Updated, Edited, GroupUpserted
    <3>2. Add(d.groups, j.group, j.plans) \in Table(Groups, SUBSET Plans)
      BY ZenonT(40), <1>0, <2>7, JobFields, AddTable
    <3>3. ~Money(h) /\ ~Creating(h)
      BY <1>3, <2>7 DEF Money, Creating
    <3> HIDE DEF n
    <3>4. n \in Data /\ n.seq = d.seq /\ n.keys = d.keys /\ n.users = d.users
      BY <3>1, <3>2 DEF Data
    <3> QED BY <1>b, <3>3, <3>4 DEF Edit, n
  <2> QED BY <2>0, <2>1, <2>2, <2>3, <2>4, <2>5, <2>6, <2>7, JobFields
<1> QED BY <1>1, <1>2, <1>3

------------------------------------------------------------------------------
(* The inductive invariant. *)

\* All the data there is: in memory, in the clones, in the files.
Copies == {data} \cup {new[h] : h \in Handlers} \cup ({file, tmp} \ {Torn, None})

\* Requests that have not created their user yet.
Creators ==
    {h \in Handlers : /\ job[h].op = "createUser"
                      /\ pc[h] = "check" \/ (pc[h] = "load" /\ phase[h] = "edit")}

\* A request has a user if it needs one and, past its checks, fits its kind.
Kinds ==
    \A h \in Handlers :
        /\ pc[h] # "idle" /\ job[h].op \in PortalOps => me[h].id \in Ids
        /\ pc[h] \notin {"idle", "check"} =>
             Kind(h) /\ (job[h].op \in {"createKey", "updateKey"} => OwnCard(h))
        /\ pc[h] \in {"load", "open", "write", "rename", "store", "log"} =>
             job[h].op # "shrink"
        /\ pc[h] = "log" => Money(h)
        /\ pc[h] = "deliver" => job[h].op \in Purchases \cup {"shrink"}

\* The id counter counts requests that created a user: whatever clones overtake
\* each other, it leaves room for the requests that are still to do so.
Numbered ==
    /\ jobs <= MaxJobs /\ IsFiniteSet(Creators)
    /\ \A d \in Copies : d.seq + Cardinality(Creators) <= jobs + 1

\* No two users share a name and no id is beyond the counter.
Basic(d) ==
    /\ \A i, j \in DOMAIN d.users : d.users[i].name = d.users[j].name => i = j
    /\ \A i \in DOMAIN d.users : i <= d.seq

AllBasic == \A d \in Copies : Basic(d)

\* Types make copies data.
LEMMA CopiesTyped == ASSUME TypeOK PROVE Copies \in SUBSET Data
BY DEF TypeOK, Copies

\* A step makes no data but the clone a request edits and the empty store a
\* restart may begin with.
LEMMA CopiesStep ==
    ASSUME TypeOK, [Next]_vars
    PROVE  \/ Copies' \subseteq Copies \cup {Empty}
           \/ \E h \in Handlers : /\ Load(h) /\ Applies(h, data)
                                  /\ Copies' \subseteq Copies \cup {Updated(h, data)}
<1> USE DEF TypeOK
<1>1. ASSUME NEW h \in Handlers, Load(h), Applies(h, data)
      PROVE  Copies' \subseteq Copies \cup {Updated(h, data)}
  <2>1. /\ new' = [new EXCEPT ![h] = Updated(h, data)] /\ UNCHANGED <<data, file, tmp>>
    BY <1>1 DEF Load, disk
  <2> QED BY <2>1 DEF Copies
<1>2. ASSUME NEW h \in Handlers, Load(h), ~Applies(h, data) PROVE Copies' \subseteq Copies
  <2>1. UNCHANGED <<data, file, tmp, new>>
    BY <1>2 DEF Load, disk
  <2> QED BY <2>1 DEF Copies
<1>3. ASSUME NEW h \in Handlers, Open(h) PROVE Copies' \subseteq Copies
  BY <1>3 DEF Open, Copies
<1>4. ASSUME NEW h \in Handlers, Write(h) PROVE Copies' \subseteq Copies
  <2>1. UNCHANGED <<data, new>> /\ tmp' \in {tmp, new[h]} /\ file' \in {file, new[h]}
    BY <1>4 DEF Write
  <2> QED BY <2>1 DEF Copies
<1>5. ASSUME NEW h \in Handlers, Rename(h) PROVE Copies' \subseteq Copies
  BY <1>5 DEF Rename, Copies
<1>6. ASSUME NEW h \in Handlers, Store(h) PROVE Copies' \subseteq Copies
  <2>1. UNCHANGED <<new, file, tmp>> /\ data' = new[h]
    BY <1>6 DEF Store, disk
  <2> QED BY <2>1 DEF Copies
<1>7. CASE UNCHANGED <<data, file, tmp, new>>
  BY <1>7 DEF Copies
<1>8. ASSUME NEW h \in Handlers, Receive(h) \/ Refuse(h) \/ Begin(h) \/ SaveFails(h) \/ Log(h)
                                 \/ DeliverFirst(h) \/ Deliver(h) \/ Answer(h)
      PROVE  UNCHANGED <<data, file, tmp, new>>
  BY <1>8 DEF Receive, Refuse, Begin, SaveFails, Log, DeliverFirst, Deliver, Answer, disk
<1>9. ASSUME NEW i \in Ids, Login(i) \/ EndSession(i) PROVE UNCHANGED <<data, file, tmp, new>>
  BY <1>9 DEF Login, EndSession, disk, request
<1>10. CASE Crash
  <2>1. UNCHANGED <<new, file, tmp>> /\ (data' = Empty \/ (data' = file /\ file # Torn))
    BY <1>10 DEF Crash
  <2>2. file # None
    BY PortalAssumption
  <2> QED BY <2>1, <2>2 DEF Copies
<1>11. CASE UNCHANGED vars
  BY <1>7, <1>11 DEF vars, disk, request
<1> QED BY <1>1, <1>2, <1>3, <1>4, <1>5, <1>6, <1>7, <1>8, <1>9, <1>10, <1>11 DEF Next, Step

\* Only a new request joins those that are to create a user, and a request that
\* edits its clone leaves them.
LEMMA CreatorsStep ==
    ASSUME TypeOK, Kinds, [Next]_vars
    PROVE  /\ jobs' = jobs => Creators' \subseteq Creators
           /\ jobs' # jobs => /\ jobs' = jobs + 1 /\ jobs < MaxJobs
                              /\ \E h \in Handlers : Creators' \subseteq Creators \cup {h}
           /\ \A h \in Handlers : Load(h) => h \notin Creators' /\ jobs' = jobs
<1> USE DEF TypeOK
<1>0. \A h \in Handlers : Load(h) => h \notin Creators' /\ jobs' = jobs
  <2> SUFFICES ASSUME NEW h \in Handlers, Load(h) PROVE h \notin Creators' /\ jobs' = jobs
    OBVIOUS
  <2>1. pc'[h] \in {"open", "done"} /\ jobs' = jobs
    BY DEF Load, Goto
  <2> QED BY <2>1 DEF Creators
<1>1. ASSUME NEW h \in Handlers, Receive(h)
      PROVE  jobs' = jobs + 1 /\ jobs < MaxJobs /\ Creators' \subseteq Creators \cup {h}
  <2>1. \A g \in Handlers \ {h} : pc'[g] = pc[g] /\ job'[g] = job[g] /\ phase'[g] = phase[g]
    BY <1>1 DEF Receive, Goto
  <2> QED BY <1>1, <2>1 DEF Receive, Creators
<1>2. ASSUME NEW h \in Handlers, Refuse(h) \/ Load(h) \/ Open(h) \/ Write(h) \/ Rename(h)
                                 \/ SaveFails(h) \/ Answer(h)
      PROVE  jobs' = jobs /\ Creators' \subseteq Creators
  <2>1. /\ jobs' = jobs /\ job' = job /\ phase' = phase /\ pc'[h] \notin {"check", "load"}
        /\ \A g \in Handlers \ {h} : pc'[g] = pc[g]
    BY <1>2 DEF Refuse, Load, Open, Write, Rename, SaveFails, Answer, Goto, history
  <2> QED BY <2>1 DEF Creators
<1>3. ASSUME NEW h \in Handlers, Begin(h) PROVE jobs' = jobs /\ Creators' \subseteq Creators
  <2>1. /\ jobs' = jobs /\ job' = job /\ pc[h] = "check"
        /\ \A g \in Handlers \ {h} : pc'[g] = pc[g] /\ phase'[g] = phase[g]
    BY <1>3 DEF Begin, Goto, history
  <2> QED BY <2>1 DEF Creators
<1>4. ASSUME NEW h \in Handlers, Store(h) PROVE jobs' = jobs /\ Creators' \subseteq Creators
  <2>1. /\ jobs' = jobs /\ job' = job
        /\ pc' = [pc EXCEPT ![h] = IF Money(h) THEN "log" ELSE Onward(h)]
        /\ phase' = [phase EXCEPT ![h] = IF Onward(h) = "load" THEN "again" ELSE @]
    BY <1>4 DEF Store, Goto, history
  <2>2. pc'[h] # "check" /\ (pc'[h] = "load" => phase'[h] = "again")
    BY <2>1 DEF Onward
  <2> QED BY <2>1, <2>2 DEF Creators
<1>5. ASSUME NEW h \in Handlers, Log(h) PROVE jobs' = jobs /\ Creators' \subseteq Creators
  <2>1. /\ jobs' = jobs /\ job' = job /\ phase' = phase /\ Money(h)
        /\ pc' = [pc EXCEPT ![h] = Onward(h)]
    BY <1>5 DEF Log, Goto, Kinds
  <2>2. pc'[h] # "check" /\ (pc'[h] = "load" => phase'[h] = "edit" /\ job[h].op # "addBalance")
    BY <2>1 DEF Onward
  <2>3. pc'[h] # "load"
    BY <2>1, <2>2 DEF Money
  <2> QED BY <2>1, <2>2, <2>3 DEF Creators
<1>6. ASSUME NEW h \in Handlers, DeliverFirst(h) \/ Deliver(h)
      PROVE  jobs' = jobs /\ Creators' \subseteq Creators
  <2>1. /\ jobs' = jobs /\ job' = job /\ pc'[h] # "check" /\ pc[h] = "deliver"
        /\ \A g \in Handlers \ {h} : pc'[g] = pc[g] /\ phase'[g] = phase[g]
    BY <1>6 DEF DeliverFirst, Deliver, Goto, history
  <2>2. job[h].op # "createUser"
    BY <2>1 DEF Kinds, Purchases
  <2> QED BY <2>1, <2>2 DEF Creators
<1>7. ASSUME NEW i \in Ids, Login(i) \/ EndSession(i)
      PROVE  jobs' = jobs /\ Creators' \subseteq Creators
  BY <1>7 DEF Login, EndSession, request, history, Creators
<1>8. CASE Crash
  BY <1>8 DEF Crash, Creators
<1>9. CASE UNCHANGED vars
  <2>1. jobs' = jobs
    BY <1>9 DEF vars, history
  <2>2. UNCHANGED <<job, pc, phase>>
    BY <1>9 DEF vars, request
  <2>3. Creators' = Creators
    BY <2>2 DEF Creators
  <2> QED BY <1>0, <2>1, <2>3
<1>10. \/ jobs' = jobs /\ Creators' \subseteq Creators
       \/ /\ jobs' = jobs + 1 /\ jobs < MaxJobs
          /\ \E h \in Handlers : Creators' \subseteq Creators \cup {h}
  BY <1>1, <1>2, <1>3, <1>4, <1>5, <1>6, <1>7, <1>8, <1>9 DEF Next, Step
<1> QED BY <1>0, <1>10

\* A handler's step touches no other's request.
LEMMA OthersKept ==
    ASSUME TypeOK, NEW g \in Handlers, NEW h \in Handlers, g # h, Step(g)
    PROVE  /\ pc'[h] = pc[h] /\ job'[h] = job[h] /\ me'[h] = me[h] /\ phase'[h] = phase[h]
           /\ new'[h] = new[h] /\ paid'[h] = paid[h] /\ got'[h] = got[h]
           /\ broke'[h] = broke[h]
<1> USE DEF TypeOK, Goto
<1>1. CASE Receive(g)
  BY <1>1 DEF Receive
<1>2. CASE Refuse(g) \/ Begin(g) \/ Open(g) \/ Write(g) \/ Rename(g) \/ Answer(g)
  BY <1>2 DEF Refuse, Begin, Open, Write, Rename, Answer, money
<1>3. CASE Load(g) \/ SaveFails(g) \/ Log(g)
  BY <1>3 DEF Load, SaveFails, Log, money
<1>4. CASE Store(g)
  BY <1>4 DEF Store
<1>5. CASE DeliverFirst(g) \/ Deliver(g)
  BY <1>5 DEF DeliverFirst, Deliver
<1> QED BY <1>1, <1>2, <1>3, <1>4, <1>5 DEF Step

\* A request past its checks keeps its kind.
LEMMA KindsStep == ASSUME TypeOK, Kinds, Numbered, [Next]_vars PROVE Kinds'
<1> USE DEF TypeOK
<1> SUFFICES ASSUME NEW h \in Handlers
             PROVE  (/\ pc[h] # "idle" /\ job[h].op \in PortalOps => me[h].id \in Ids
                     /\ pc[h] \notin {"idle", "check"} =>
                          Kind(h) /\ (job[h].op \in {"createKey", "updateKey"} => OwnCard(h))
                     /\ pc[h] \in {"load", "open", "write", "rename", "store", "log"} =>
                          job[h].op # "shrink"
                     /\ pc[h] = "log" => Money(h)
                     /\ pc[h] = "deliver" => job[h].op \in Purchases \cup {"shrink"})'
  BY DEF Kinds
<1> USE DEF Kinds, Kind, OwnCard, Money
<1>1. CASE Receive(h)
  <2>1. job'[h].op \in PortalOps => me'[h].id \in Ids
    <3>1. PICK j \in Jobs :
            /\ job' = [job EXCEPT ![h] = j]
            /\ IF j.op \in PortalOps
               THEN \E i \in sessions \cap DOMAIN data.users :
                      me' = [me EXCEPT ![h] = [id |-> i, balance |-> data.users[i].balance,
                                               name |-> data.users[i].name]]
               ELSE me' = [me EXCEPT ![h] = Nobody]
      BY <1>1 DEF Receive
    <3> QED BY <3>1
  <2>2. pc'[h] = "check"
    BY <1>1 DEF Receive, Goto
  <2> QED BY <2>1, <2>2
<1>2. CASE Refuse(h) \/ Answer(h)
  BY <1>2 DEF Refuse, Answer, Goto
<1>3. CASE Begin(h)
  <2>1. /\ UNCHANGED <<job, me>> /\ Permitted(h) /\ pc[h] = "check"
        /\ pc'[h] = IF job[h].op \in {"stack", "shrink"} THEN "deliver" ELSE "load"
        /\ phase'[h] = IF job[h].op \in Purchases THEN "charge" ELSE "edit"
    BY <1>3 DEF Begin, Goto
  <2> QED BY <2>1 DEF Permitted, Purchases
<1>4. CASE Load(h) \/ Open(h) \/ Write(h) \/ Rename(h) \/ SaveFails(h)
  <2>1. /\ UNCHANGED <<job, me, phase>> /\ pc[h] \in {"load", "open", "write", "rename"}
        /\ pc'[h] \in {"open", "write", "rename", "store", "done"}
    BY <1>4 DEF Load, Open, Write, Rename, SaveFails, Goto
  <2> QED BY <2>1
<1>5. CASE Store(h)
  <2>1. /\ job' = job /\ pc[h] = "store"
        /\ pc' = [pc EXCEPT ![h] = IF Money(h) THEN "log" ELSE Onward(h)]
        /\ phase' = [phase EXCEPT ![h] = IF Onward(h) = "load" THEN "again" ELSE @]
    BY <1>5 DEF Store, Goto
  <2>2. job[h].op \in PortalOps => me'[h].id = me[h].id /\ me'[h].name = me[h].name
    BY <1>5 DEF Store, PortalOps, Purchases
  <2>3. Onward(h) \in {"deliver", "load", "done"}
        /\ (Onward(h) = "load" => phase[h] = "edit" /\ job[h].op \in {"createUser", "updateUser"})
        /\ (Onward(h) = "deliver" => phase[h] = "charge")
    BY DEF Onward
  <2>4. CASE Onward(h) = "load"
    <3>1. pc'[h] = "load" /\ phase'[h] = "again"
      BY <2>1, <2>3, <2>4
    <3> QED BY <2>1, <2>2, <2>3, <2>4, <3>1 DEF Purchases, PortalOps
  <2>5. CASE Onward(h) # "load"
    <3>1. phase'[h] = phase[h] /\ pc'[h] \in {"log", "deliver", "done"}
          /\ (pc'[h] = "log" <=> Money(h)) /\ (pc'[h] = "deliver" => phase[h] = "charge")
      BY <2>1, <2>3, <2>5
    <3>2. Kind(h)' /\ (job'[h].op \in PortalOps => me'[h].id \in Ids)
      BY <2>1, <2>2, <3>1 DEF Purchases, PortalOps
    <3>3. job'[h].op \in {"createKey", "updateKey"} => OwnCard(h)'
      BY <2>1, <2>2 DEF PortalOps
    <3>4. Money(h)' = Money(h)
      BY <2>1, <3>1
    <3>5. pc'[h] = "deliver" => job'[h].op \in Purchases
      BY <2>1, <3>1
    <3>6. job'[h].op # "shrink"
      BY <2>1
    <3> HIDE DEF Kind, OwnCard, Money
    <3> QED BY <3>1, <3>2, <3>3, <3>4, <3>5, <3>6
  <2> QED BY <2>4, <2>5
<1>6. CASE Log(h)
  <2>1. /\ UNCHANGED <<job, me, phase>> /\ pc[h] = "log" /\ pc'[h] = Onward(h)
    BY <1>6 DEF Log, Goto
  <2>2. Onward(h) \in {"deliver", "done"} /\ (Onward(h) = "deliver" => phase[h] = "charge")
    BY <2>1 DEF Onward
  <2> QED BY <2>1, <2>2
<1>7. CASE DeliverFirst(h) \/ Deliver(h)
  <2>1. /\ UNCHANGED <<job, me>> /\ pc[h] = "deliver" /\ pc'[h] \in {"load", "done"}
        /\ (pc'[h] = "load" => job[h].op # "shrink")
        /\ phase'[h] = phase[h] \/ (phase'[h] = "refund" /\ job[h].op # "shrink")
    <3>1. CASE DeliverFirst(h)
      BY <3>1 DEF DeliverFirst, Goto
    <3>2. CASE Deliver(h)
      BY <3>2 DEF Deliver, Goto
    <3> QED BY <1>7, <3>1, <3>2
  <2> QED BY <2>1
<1>8. ASSUME NEW g \in Handlers, g # h, Step(g)
      PROVE  pc'[h] = pc[h] /\ job'[h] = job[h] /\ me'[h] = me[h] /\ phase'[h] = phase[h]
  BY <1>8, OthersKept
<1>9. CASE UNCHANGED <<pc, job, me, phase>>
  BY <1>9
<1>10. ASSUME NEW i \in Ids, Login(i) \/ EndSession(i) PROVE UNCHANGED <<pc, job, me, phase>>
  BY <1>10 DEF Login, EndSession, request
<1>11. CASE Crash
  BY <1>11 DEF Crash
<1>12. CASE UNCHANGED vars
  BY <1>9, <1>12 DEF vars, request
<1> QED BY <1>1, <1>2, <1>3, <1>4, <1>5, <1>6, <1>7, <1>8, <1>9, <1>10, <1>11, <1>12
        DEF Next, Step

\* A request that may edit its clone has room for a new user, and edits it.
LEMMA LoadEdits ==
    ASSUME TypeOK, Kinds, Numbered, AllBasic, NEW h \in Handlers, Load(h), Applies(h, data)
    PROVE  /\ Updated(h, data) \in Data /\ Edit(h, data, Updated(h, data))
           /\ Creating(h) => h \in Creators
<1>1. Creating(h) => h \in Creators
  BY DEF Load, Creating, Creators
<1>2. data \in Copies /\ data \in Data /\ data.seq \in Nat
  BY DataFields DEF TypeOK, Copies
<1>3. ASSUME Creating(h) PROVE data.seq + 1 \in Ids \ DOMAIN data.users
  <2>1. Cardinality(Creators) \in Nat /\ Cardinality(Creators) # 0
    BY <1>1, <1>3, FS_CardinalityType, FS_EmptySet DEF Numbered
  <2>2. data.seq + Cardinality(Creators) <= jobs + 1 /\ jobs <= MaxJobs
    BY <1>2 DEF Numbered
  <2>3. data.seq + 1 \in Ids
    BY SMTT(30), <1>2, <2>1, <2>2, PortalAssumption DEF Ids, TypeOK
  <2>4. \A i \in DOMAIN data.users : i <= data.seq
    BY <1>2 DEF AllBasic, Basic
  <2> QED BY <1>2, <2>3, <2>4
<1>4. /\ job[h] \in Jobs /\ job[h].op # "shrink" /\ Kind(h) /\ issued \in SUBSET Tokens
      /\ phase[h] \in {"edit", "again", "charge", "refund"}
      /\ job[h].op \in {"createKey", "updateKey"} => OwnCard(h)
  BY DEF TypeOK, Kinds, Load
<1>5. Updated(h, data) \in Data /\ Edit(h, data, Updated(h, data))
  BY <1>2, <1>3, <1>4, Edits
<1> QED BY <1>1, <1>5

\* The counter keeps leaving room.
LEMMA NumberedStep == ASSUME TypeOK, Kinds, Numbered, AllBasic, [Next]_vars PROVE Numbered'
<1>1. /\ jobs \in Nat /\ IsFiniteSet(Creators) /\ Cardinality(Creators) \in Nat
      /\ \A d \in Copies : d.seq \in Nat /\ d.seq + Cardinality(Creators) <= jobs + 1
  BY FS_CardinalityType, CopiesTyped, DataFields DEF TypeOK, Numbered
<1>2. /\ IsFiniteSet(Creators') /\ Cardinality(Creators') \in Nat /\ jobs' <= MaxJobs
      /\ jobs' \in Nat /\ jobs' >= jobs
      /\ Cardinality(Creators') <= Cardinality(Creators) + (jobs' - jobs)
  <2>1. CASE jobs' = jobs
    <3>1. Creators' \subseteq Creators
      BY <2>1, CreatorsStep
    <3>2. IsFiniteSet(Creators') /\ Cardinality(Creators') <= Cardinality(Creators)
      BY <1>1, <3>1, FS_Subset
    <3>3. Cardinality(Creators') \in Nat
      BY <3>2, FS_CardinalityType
    <3> QED BY <1>1, <2>1, <3>2, <3>3 DEF Numbered
  <2>2. CASE jobs' # jobs
    <3>1. /\ jobs' = jobs + 1 /\ jobs < MaxJobs
          /\ \E h \in Handlers : Creators' \subseteq Creators \cup {h}
      BY <2>2, CreatorsStep
    <3>2. PICK h \in Handlers : Creators' \subseteq Creators \cup {h}
      BY <3>1
    <3>3. /\ IsFiniteSet(Creators \cup {h})
          /\ Cardinality(Creators \cup {h}) \in {Cardinality(Creators), Cardinality(Creators) + 1}
      <4>1. CASE h \in Creators
        <5>1. Creators \cup {h} = Creators
          BY <4>1
        <5> QED BY <1>1, <5>1
      <4>2. CASE h \notin Creators
        BY <1>1, <4>2, FS_AddElement
      <4> QED BY <4>1, <4>2
    <3>4. /\ IsFiniteSet(Creators')
          /\ Cardinality(Creators') <= Cardinality(Creators \cup {h})
      BY <3>2, <3>3, FS_Subset
    <3>5. Cardinality(Creators') \in Nat
      BY <3>4, FS_CardinalityType
    <3> QED BY <1>1, <3>1, <3>3, <3>4, <3>5, PortalAssumption
  <2> QED BY <2>1, <2>2
<1>3. \A d \in Copies : d.seq + Cardinality(Creators') <= jobs' + 1
  BY <1>1, <1>2
<1>4. CASE Copies' \subseteq Copies \cup {Empty}
  <2>1. data \in Copies /\ Empty.seq = 0
    BY DEF Copies, Empty
  <2>2. Empty.seq + Cardinality(Creators') <= jobs' + 1
    BY <1>1, <1>2, <1>3, <2>1
  <2>3. \A d \in Copies' : d.seq + Cardinality(Creators') <= jobs' + 1
    BY <1>3, <1>4, <2>2
  <2> QED BY <1>2, <2>3 DEF Numbered
<1>5. ASSUME NEW h \in Handlers, Load(h), Applies(h, data),
             Copies' \subseteq Copies \cup {Updated(h, data)}
      PROVE  Numbered'
  <2> DEFINE n == Updated(h, data)
  <2>1. data \in Copies
    BY DEF Copies
  <2>2. n.seq = (IF Creating(h) THEN data.seq + 1 ELSE data.seq) /\ (Creating(h) => h \in Creators)
    BY <1>5, LoadEdits DEF Edit
  <2> HIDE DEF n
  <2>3. jobs' = jobs /\ Creators' \subseteq Creators /\ h \notin Creators'
    BY <1>5, CreatorsStep
  <2>4. n.seq + Cardinality(Creators') <= jobs' + 1
    <3>1. CASE Creating(h)
      <4>1. h \in Creators /\ Creators' \subseteq Creators \ {h}
        BY <2>2, <2>3, <3>1
      <4>2. /\ IsFiniteSet(Creators \ {h})
            /\ Cardinality(Creators \ {h}) = Cardinality(Creators) - 1
        BY <1>1, <4>1, FS_RemoveElement
      <4>3. Cardinality(Creators') <= Cardinality(Creators \ {h})
        BY <4>1, <4>2, FS_Subset
      <4> QED BY <1>1, <1>2, <2>1, <2>2, <2>3, <3>1, <4>2, <4>3
    <3>2. CASE ~Creating(h)
      BY <1>3, <2>1, <2>2, <3>2
    <3> QED BY <3>1, <3>2
  <2>5. \A d \in Copies' : d.seq + Cardinality(Creators') <= jobs' + 1
    BY <1>3, <1>5, <2>4 DEF n
  <2> QED BY <1>2, <2>5 DEF Numbered
<1> QED BY <1>4, <1>5, CopiesStep

\* Names stay apart and ids below the counter, in every copy.
LEMMA AllBasicStep == ASSUME TypeOK, Kinds, Numbered, AllBasic, [Next]_vars PROVE AllBasic'
<1>1. CASE Copies' \subseteq Copies \cup {Empty}
  <2>1. Basic(Empty)
    BY DEF Basic, Empty
  <2>2. \A d \in Copies' : Basic(d)
    BY <1>1, <2>1 DEF AllBasic
  <2> QED BY <2>2 DEF AllBasic
<1>2. ASSUME NEW h \in Handlers, Load(h), Applies(h, data),
             Copies' \subseteq Copies \cup {Updated(h, data)}
      PROVE  AllBasic'
  <2> DEFINE n == Updated(h, data)
  <2>1. Edit(h, data, n)
    BY <1>2, LoadEdits
  <2>2. Basic(data) /\ data.seq \in Nat
    BY DataFields DEF AllBasic, Copies, TypeOK
  <2>3. Creating(h) => \A i \in DOMAIN data.users : data.users[i].name # job[h].name
    BY <1>2 DEF Applies, Creating
  <2> HIDE DEF n
  <2>4. \A i \in DOMAIN n.users :
          \/ i \in DOMAIN data.users /\ n.users[i].name = data.users[i].name
          \/ Creating(h) /\ i = data.seq + 1 /\ n.users[i].name = job[h].name
    BY <2>1 DEF Edit
  <2>5. n.seq = IF Creating(h) THEN data.seq + 1 ELSE data.seq
    BY <2>1 DEF Edit
  <2>6. \A i, j \in DOMAIN n.users : n.users[i].name = n.users[j].name => i = j
    BY <2>2, <2>3, <2>4 DEF Basic
  <2>7. \A i \in DOMAIN data.users : i \in Int /\ i <= data.seq
    BY <2>2, DataFields DEF Basic, TypeOK, Ids
  <2>8. \A i \in DOMAIN n.users : i <= n.seq
    BY <2>2, <2>4, <2>5, <2>7
  <2>9. Basic(n)
    BY <2>6, <2>8 DEF Basic
  <2>10. \A d \in Copies' : Basic(d)
    BY <1>2, <2>9 DEF AllBasic, n
  <2> QED BY <2>10 DEF AllBasic
<1> QED BY <1>1, <1>2, CopiesStep

------------------------------------------------------------------------------
(* Purchases. *)

\* What a purchase has charged and delivered, by the step it is at.
PaidOf(h) ==
    /\ pc[h] = "check" => paid[h] = 0 /\ ~got[h] /\ ~broke[h]
    /\ pc[h] \in {"load", "open", "write", "rename", "store"} =>
         /\ ~broke[h] /\ (got[h] <=> job[h].op = "stack")
         /\ paid[h] = IF phase[h] = "charge" THEN 0 ELSE 1
    /\ pc[h] = "log" =>
         /\ ~broke[h] /\ (got[h] <=> job[h].op = "stack")
         /\ paid[h] = IF phase[h] = "charge" THEN 1 ELSE 0
    /\ pc[h] = "deliver" =>
         /\ ~broke[h] /\ ~got[h] /\ phase[h] = "charge"
         /\ paid[h] = IF job[h].op = "stack" THEN 0 ELSE 1
    /\ pc[h] \notin {"idle", "check"} /\ job[h].op = "stack" => phase[h] = "charge"
    /\ pc[h] = "done" =>
         /\ got[h] /\ paid[h] = 0 => job[h].op = "stack" /\ broke[h]
         /\ paid[h] = 1 /\ ~got[h] => phase[h] = "refund" /\ broke[h]

Paying == \A h \in Handlers : job[h].op \in Purchases => PaidOf(h)

\* Every step of a purchase keeps its books.
LEMMA PayingStep == ASSUME TypeOK, Kinds, Paying, [Next]_vars PROVE Paying'
<1> USE DEF TypeOK
<1> SUFFICES ASSUME NEW h \in Handlers, job'[h].op \in Purchases PROVE PaidOf(h)'
  BY DEF Paying
<1>0. /\ job[h].op \in Purchases => PaidOf(h)
      /\ pc[h] \notin {"idle", "check"} =>
           (phase[h] \in {"charge", "refund"} <=> job[h].op \in Purchases)
  BY DEF Paying, Kinds, Kind
<1>1. CASE Receive(h)
  BY <1>1 DEF Receive, Goto, PaidOf
<1>2. CASE Refuse(h) \/ Answer(h)
  BY <1>2 DEF Refuse, Answer, Goto, PaidOf
<1>3. CASE Begin(h)
  <2>1. /\ UNCHANGED <<job, paid, got, broke>> /\ pc[h] = "check"
        /\ pc'[h] = IF job[h].op \in {"stack", "shrink"} THEN "deliver" ELSE "load"
        /\ phase'[h] = "charge"
    BY <1>3 DEF Begin, Goto, money
  <2> QED BY <1>0, <2>1 DEF PaidOf, Purchases
<1>4. CASE Load(h)
  <2>1. /\ UNCHANGED <<job, phase, paid, got>> /\ pc[h] = "load"
        /\ \/ pc'[h] = "open" /\ broke' = broke
           \/ pc'[h] = "done" /\ broke'[h] = TRUE
    BY <1>4 DEF Load, Goto
  <2> QED BY <1>0, <2>1 DEF PaidOf
<1>5. CASE Open(h) \/ Write(h) \/ Rename(h)
  <2>1. /\ UNCHANGED <<job, phase, paid, got, broke>> /\ pc[h] \in {"open", "write", "rename"}
        /\ pc'[h] \in {"write", "rename", "store"}
    BY <1>5 DEF Open, Write, Rename, Goto, money
  <2> QED BY <1>0, <2>1 DEF PaidOf
<1>6. CASE SaveFails(h)
  <2>1. /\ UNCHANGED <<job, phase, paid, got>> /\ pc[h] \in {"open", "write", "rename"}
        /\ pc'[h] = "done" /\ broke'[h] = TRUE
    BY <1>6 DEF SaveFails, Goto
  <2> QED BY <1>0, <2>1 DEF PaidOf
<1>7. CASE Store(h)
  <2>1. UNCHANGED <<job, got, broke>> /\ pc[h] = "store" /\ job[h].op \in Purchases
    BY <1>7 DEF Store
  <2>2. phase[h] \in {"charge", "refund"} /\ Onward(h) # "load" /\ Money(h)
    BY <1>0, <2>1 DEF Onward, Money
  <2>3. pc'[h] = "log" /\ phase'[h] = phase[h]
    BY <1>7, <2>2 DEF Store, Goto
  <2>4. paid'[h] = IF phase[h] = "charge" THEN paid[h] + 1 ELSE paid[h] - 1
    BY <1>7, <2>2 DEF Store
  <2> QED BY <1>0, <2>1, <2>2, <2>3, <2>4 DEF PaidOf
<1>8. CASE Log(h)
  <2>1. UNCHANGED <<job, phase, paid, got, broke>> /\ pc[h] = "log" /\ pc'[h] = Onward(h)
    BY <1>8 DEF Log, Goto, money
  <2>2. phase[h] \in {"charge", "refund"}
    BY <1>0, <2>1
  <2>3. Onward(h) = IF phase[h] = "charge" /\ job[h].op # "stack" THEN "deliver" ELSE "done"
    BY <2>2 DEF Onward
  <2> QED BY <1>0, <2>1, <2>2, <2>3 DEF PaidOf
<1>9. CASE DeliverFirst(h)
  <2>1. /\ UNCHANGED <<job, phase, paid, broke>> /\ pc[h] = "deliver"
        /\ job[h].op = "stack" /\ got'[h] \in BOOLEAN
        /\ pc'[h] = IF got'[h] THEN "load" ELSE "done"
    BY <1>9 DEF DeliverFirst, Goto, Purchases
  <2> QED BY <1>0, <2>1 DEF PaidOf
<1>10. CASE Deliver(h)
  <2>1. /\ UNCHANGED <<job, paid, broke>> /\ pc[h] = "deliver"
        /\ job[h].op # "stack" /\ got'[h] \in BOOLEAN
        /\ pc'[h] = IF got'[h] THEN "done" ELSE "load"
        /\ phase'[h] = IF got'[h] THEN phase[h] ELSE "refund"
    BY <1>10 DEF Deliver, Goto
  <2> QED BY <1>0, <2>1 DEF PaidOf
<1>11. ASSUME NEW g \in Handlers, g # h, Step(g) PROVE PaidOf(h)'
  <2>1. /\ pc'[h] = pc[h] /\ job'[h] = job[h] /\ phase'[h] = phase[h]
        /\ paid'[h] = paid[h] /\ got'[h] = got[h] /\ broke'[h] = broke[h]
    BY <1>11, OthersKept
  <2> QED BY <1>0, <2>1 DEF PaidOf
<1>12. CASE UNCHANGED <<pc, job, phase, paid, got, broke>>
  BY <1>0, <1>12 DEF PaidOf
<1>13. ASSUME NEW i \in Ids, Login(i) \/ EndSession(i)
       PROVE  UNCHANGED <<pc, job, phase, paid, got, broke>>
  BY <1>13 DEF Login, EndSession, request, money
<1>14. CASE Crash
  BY <1>14 DEF Crash, PaidOf
<1>15. CASE UNCHANGED vars
  BY <1>12, <1>15 DEF vars, request, money
<1> QED BY <1>1, <1>2, <1>3, <1>4, <1>5, <1>6, <1>7, <1>8, <1>9, <1>10, <1>11, <1>12, <1>13,
           <1>14, <1>15 DEF Next, Step

------------------------------------------------------------------------------
(* Types. *)

\* Amounts are integers.
LEMMA DeltaInt ==
    ASSUME TypeOK, NEW h \in Handlers, Kind(h), Money(h)
    PROVE  Delta(h) \in Int
<1>1. phase[h] \in {"charge", "refund"} => Price[job[h].plan] \in Int
  BY JobFields, PortalAssumption DEF Kind, TypeOK
<1>2. job[h].op = "addBalance" => job[h].delta \in Int
  BY JobFields, PortalAssumption DEF TypeOK
<1> QED BY <1>1, <1>2 DEF Delta, Money

\* A step of a handler keeps the types.
LEMMA TypeOfStep ==
    ASSUME TypeOK, Kinds, Numbered, AllBasic, Paying, NEW h \in Handlers, Step(h)
    PROVE  TypeOK'
<1> USE DEF TypeOK, Goto, disk, request, money, books, history
<1>1. CASE Receive(h)
  <2>1. PICK j \in Jobs :
          /\ job' = [job EXCEPT ![h] = j]
          /\ IF j.op \in PortalOps
             THEN \E i \in sessions \cap DOMAIN data.users :
                    me' = [me EXCEPT ![h] = [id |-> i, balance |-> data.users[i].balance,
                                             name |-> data.users[i].name]]
             ELSE me' = [me EXCEPT ![h] = Nobody]
    BY <1>1 DEF Receive
  <2>2. \A i \in DOMAIN data.users : data.users[i] \in User /\ i \in Ids
    BY DataFields
  <2>3. me' \in [Handlers -> [id : Ids \cup {0}, balance : Int, name : Names \cup {None}]]
    BY SMTT(30), <2>1, <2>2 DEF User, Nobody
  <2>4. job' \in [Handlers -> Jobs]
    BY <2>1
  <2> QED BY <1>1, <2>3, <2>4 DEF Receive
<1>2. CASE Refuse(h) \/ Answer(h)
  BY <1>2 DEF Refuse, Answer
<1>3. CASE Begin(h)
  BY <1>3 DEF Begin
<1>4. CASE Load(h)
  <2>1. CASE Applies(h, data)
    <3>1. Updated(h, data) \in Data
      BY <1>4, <2>1, LoadEdits
    <3>2. /\ new' = [new EXCEPT ![h] = Updated(h, data)] /\ pc' = [pc EXCEPT ![h] = "open"]
          /\ issued' = issued \cup (DOMAIN new'[h].keys \ DOMAIN data.keys)
          /\ UNCHANGED <<data, file, tmp, place, sessions, job, me, phase, paid, got, broke,
                         logged, opened, unlogged, jobs, faults>>
          /\ overlapped' \in BOOLEAN
      BY <1>4, <2>1 DEF Load
    <3>3. new'[h] \in Data /\ new' \in [Handlers -> Data]
      BY <3>1, <3>2
    <3>4. issued' \subseteq Tokens
      BY <3>2, <3>3, DataFields
    <3> QED BY <3>2, <3>3, <3>4
  <2>2. CASE ~Applies(h, data)
    BY <1>4, <2>2 DEF Load
  <2> QED BY <2>1, <2>2
<1>5. CASE Open(h)
  BY <1>5 DEF Open
<1>6. CASE Write(h)
  <2>1. new[h] \in Data
    OBVIOUS
  <2> QED BY <1>6, <2>1 DEF Write
<1>7. CASE Rename(h)
  <2>1. place' \in [Handlers -> {"closed", "tmp", "file", "gone"}]
    BY <1>7 DEF Rename, Moved
  <2>2. file' \in Data \cup {Torn}
    BY <1>7 DEF Rename
  <2> QED BY <1>7, <2>1, <2>2 DEF Rename
<1>8. CASE SaveFails(h)
  BY <1>8 DEF SaveFails
<1>9. CASE Store(h)
  <2>1. /\ data' = new[h] /\ pc[h] = "store" /\ new[h] \in Data
        /\ UNCHANGED <<file, tmp, place, sessions, job, new, got, broke, logged, issued,
                       overlapped, unlogged, jobs, faults>>
    BY <1>9 DEF Store
  <2>2. paid' \in [Handlers -> {0, 1}]
    <3>1. phase[h] \in {"charge", "refund"} => paid[h] = IF phase[h] = "charge" THEN 0 ELSE 1
      BY <2>1 DEF Paying, PaidOf, Kinds, Kind
    <3>2. paid' = [paid EXCEPT ![h] = CASE phase[h] = "charge" -> @ + 1
                                        [] phase[h] = "refund" -> @ - 1
                                        [] OTHER -> @]
      BY <1>9 DEF Store
    <3> QED BY <3>1, <3>2
  <2>3. opened' \in [Ids -> Int]
    <3>1. opened' = opened \/ opened' = [opened EXCEPT ![new[h].seq] = Opening]
      BY <1>9 DEF Store
    <3>2. Opening \in Int
      BY PortalAssumption
    <3> QED BY <3>1, <3>2
  <2>4. me' \in [Handlers -> [id : Ids \cup {0}, balance : Int, name : Names \cup {None}]]
    <3> DEFINE k == IF phase[h] # "edit" THEN me[h].id
                    ELSE CASE job[h].op = "createUser" -> new[h].seq
                           [] job[h].op = "updateUser" -> job[h].id
                           [] OTHER -> me[h].id
    <3>1. me' = [me EXCEPT ![h].id = k]
      BY <1>9 DEF Store
    <3>2. k \in Ids \cup {0}
      <4>1. job[h].op = "updateUser" => job[h].id \in Ids
        BY JobFields
      <4>2. new[h] \in Copies /\ new[h].seq \in Nat
        BY DataFields DEF Copies
      <4>3. new[h].seq + Cardinality(Creators) <= jobs + 1 /\ jobs <= MaxJobs
            /\ Cardinality(Creators) \in Nat
        BY <4>2, FS_CardinalityType DEF Numbered
      <4>4. new[h].seq \in Ids \cup {0}
        BY SMTT(30), <4>2, <4>3, PortalAssumption DEF Ids
      <4> QED BY <4>1, <4>4
    <3> HIDE DEF k
    <3>3. me' = [me EXCEPT ![h] = [me[h] EXCEPT !.id = k]]
      BY <3>1
    <3>4. [me[h] EXCEPT !.id = k] \in [id : Ids \cup {0}, balance : Int, name : Names \cup {None}]
      <4>1. me[h] \in [id : Ids \cup {0}, balance : Int, name : Names \cup {None}]
        OBVIOUS
      <4> HIDE DEF TypeOK
      <4> QED BY <3>2, <4>1
    <3> QED BY <3>3, <3>4
  <2>5. phase' \in [Handlers -> {"edit", "again", "charge", "refund"}]
    BY <1>9 DEF Store
  <2>6. pc' \in [Handlers -> {"idle", "check", "load", "open", "write", "rename", "store",
                              "log", "deliver", "done"}]
    <3>1. Onward(h) \in {"deliver", "load", "done"}
      BY DEF Onward
    <3> QED BY <1>9, <3>1 DEF Store
  <2> QED BY <2>1, <2>2, <2>3, <2>4, <2>5, <2>6
<1>10. CASE Log(h)
  <2>1. Onward(h) \in {"deliver", "load", "done"}
    BY DEF Onward
  <2>2. Delta(h) \in Int
    BY <1>10, DeltaInt DEF Log, Kinds
  <2>3. logged' \in [Ids -> Int] /\ unlogged' \in BOOLEAN /\ faults' \in Nat
    <3> DEFINE i == IF phase[h] = "edit" THEN job[h].id ELSE me[h].id
    <3>1. \/ logged' = [logged EXCEPT ![i] = @ + Delta(h)] /\ UNCHANGED <<unlogged, faults>>
          \/ logged' = logged /\ unlogged' = TRUE /\ faults' = faults + 1
      BY <1>10 DEF Log
    <3> HIDE DEF i
    <3>2. i \in Ids => logged[i] + Delta(h) \in Int
      BY <2>2
    <3>3. [logged EXCEPT ![i] = @ + Delta(h)] \in [Ids -> Int]
      BY <3>2
    <3>4. logged' \in [Ids -> Int]
      BY <3>1, <3>3
    <3>5. faults' \in Nat
      BY <3>1
    <3>6. unlogged' \in BOOLEAN
      BY <3>1
    <3> QED BY <3>4, <3>5, <3>6
  <2>4. pc' \in [Handlers -> {"idle", "check", "load", "open", "write", "rename", "store",
                              "log", "deliver", "done"}]
    BY <1>10, <2>1 DEF Log
  <2> QED BY <1>10, <2>3, <2>4 DEF Log
<1>11. CASE DeliverFirst(h)
  BY <1>11 DEF DeliverFirst
<1>12. CASE Deliver(h)
  BY <1>12 DEF Deliver
<1> QED BY <1>1, <1>2, <1>3, <1>4, <1>5, <1>6, <1>7, <1>8, <1>9, <1>10, <1>11, <1>12 DEF Step

\* The empty store is data.
LEMMA EmptyData == Empty \in Data
<1>1. /\ Empty.users \in Table(Ids, User) /\ Empty.keys \in Table(Tokens, PortalKey)
      /\ Empty.groups \in Table(Groups, SUBSET Plans)
  BY ZenonT(40), TableIff DEF Empty
<1> QED BY <1>1 DEF Data, Empty

\* Every step keeps the types.
LEMMA TypeStep ==
    ASSUME TypeOK, Kinds, Numbered, AllBasic, Paying, [Next]_vars
    PROVE  TypeOK'
<1> USE DEF TypeOK, disk, request, money, books, history
<1>1. ASSUME NEW h \in Handlers, Step(h) PROVE TypeOK'
  BY <1>1, TypeOfStep
<1>2. ASSUME NEW i \in Ids, Login(i) \/ EndSession(i) PROVE TypeOK'
  BY <1>2 DEF Login, EndSession
<1>3. CASE Crash
  BY <1>3, EmptyData DEF Crash
<1>4. CASE UNCHANGED vars
  BY <1>4 DEF vars
<1> QED BY <1>1, <1>2, <1>3, <1>4 DEF Next

------------------------------------------------------------------------------
(* Changes that do not overlap. *)

\* There is one change at a time, whose clone is carried through the temporary
\* file to portal.json and then to memory.
OneChange ==
    /\ file # Torn /\ \A g, h \in Handlers : Updating(g) /\ Updating(h) => g = h
    /\ (\A h \in Handlers : pc[h] # "store") => data = file
    /\ \A h \in Handlers : /\ pc[h] = "write" => place[h] = "tmp"
                           /\ pc[h] = "rename" => tmp = new[h]
                           /\ pc[h] = "store" => file = new[h]

\* Every open inode is a writer's.
Followed ==
    /\ \A h \in Handlers : place[h] # "closed" => pc[h] = "write"
    /\ ~overlapped => OneChange

\* The clone that is being saved is an edit of the data there still is.
Cloned == ~overlapped => \A h \in Handlers : Updating(h) => Edit(h, data, new[h])

\* The keys of d belong to users of d, and the cards that were checked are theirs.
OwnKeys(d) ==
    \A t \in DOMAIN d.keys :
        /\ d.keys[t].user \in DOMAIN d.users
        /\ d.keys[t].checked /\ d.keys[t].card # None =>
             OwnerOf[d.keys[t].card] = d.users[d.keys[t].user].name

\* So do those in memory, and the user of a request is still there.
Owned ==
    ~overlapped =>
        /\ OwnKeys(data)
        /\ \A h \in Handlers : pc[h] # "idle" /\ job[h].op \in PortalOps =>
             /\ me[h].id \in DOMAIN data.users /\ data.users[me[h].id].name = me[h].name

\* What is stored and not yet logged, one pair for each cent.
Plus(i) == {p \in Handlers \X Nat :
              pc[p[1]] = "log" /\ Target(p[1]) = i /\ 1 <= p[2] /\ p[2] <= Delta(p[1])}
Minus(i) == {p \in Handlers \X Nat :
              pc[p[1]] = "log" /\ Target(p[1]) = i /\ 1 <= p[2] /\ p[2] <= -Delta(p[1])}

\* What is to be added, less what is to be taken.
Net(P, M) == Cardinality(P) - Cardinality(M)

\* A balance is the opening one, what is logged, and what is still to be logged.
Explained ==
    (~overlapped /\ ~unlogged) =>
        /\ \A i \in Ids : IsFiniteSet(Plus(i)) /\ IsFiniteSet(Minus(i))
        /\ \A i \in DOMAIN data.users :
             data.users[i].balance =
               opened[i] + logged[i] + Net(Plus(i), Minus(i))
        /\ \A i \in Ids \ DOMAIN data.users : logged[i] = 0
        /\ \A h \in Handlers : pc[h] = "log" => Target(h) \in DOMAIN data.users

\* The steps of a request outside an update.
Calm(h) ==
    \/ Receive(h) \/ Refuse(h) \/ Begin(h) \/ Log(h) \/ DeliverFirst(h) \/ Deliver(h)
    \/ Answer(h)

\* They leave the data, its files and the clones alone.
LEMMA CalmStep ==
    ASSUME TypeOK, NEW h \in Handlers, Calm(h)
    PROVE  /\ UNCHANGED <<data, file, tmp, place, new, opened, overlapped>>
           /\ ~Updating(h) /\ ~Updating(h)'
<1> USE DEF TypeOK, Goto, Updating, disk, books, history
<1>1. CASE Receive(h)
  BY <1>1 DEF Receive
<1>2. CASE Refuse(h) \/ Begin(h) \/ Answer(h)
  BY <1>2 DEF Refuse, Begin, Answer
<1>3. CASE Log(h)
  <2>1. /\ UNCHANGED <<data, file, tmp, place, new, opened, overlapped>>
        /\ pc[h] = "log" /\ pc'[h] = Onward(h)
    BY <1>3 DEF Log
  <2>2. Onward(h) \in {"deliver", "load", "done"}
    BY DEF Onward
  <2> QED BY <2>1, <2>2
<1>4. CASE DeliverFirst(h)
  BY <1>4 DEF DeliverFirst
<1>5. CASE Deliver(h)
  BY <1>5 DEF Deliver
<1> QED BY <1>1, <1>2, <1>3, <1>4, <1>5 DEF Calm

\* The steps there are.
LEMMA Steps ==
    ASSUME [Next]_vars
    PROVE  \/ \E h \in Handlers : \/ Calm(h) \/ Load(h) \/ Open(h) \/ Write(h) \/ Rename(h)
                                  \/ SaveFails(h) \/ Store(h)
           \/ Crash
           \/ UNCHANGED <<data, disk, request, money, books, history>>
<1>1. ASSUME NEW i \in Ids, Login(i) \/ EndSession(i)
      PROVE  UNCHANGED <<data, disk, request, money, books, history>>
  BY <1>1 DEF Login, EndSession
<1> QED BY <1>1 DEF Next, Step, Calm, vars

\* The inodes that are open stay the writers'.
LEMMA PlacesStep ==
    ASSUME TypeOK, Followed, [Next]_vars
    PROVE  \A h \in Handlers : place'[h] # "closed" => pc'[h] = "write"
<1> USE DEF TypeOK, Goto
<1>0. \A h \in Handlers : place[h] # "closed" => pc[h] = "write"
  BY DEF Followed
<1>1. ASSUME NEW g \in Handlers, Calm(g)
      PROVE  \A h \in Handlers : place'[h] # "closed" => pc'[h] = "write"
  <2>1. place' = place /\ pc[g] # "write" /\ \A h \in Handlers \ {g} : pc'[h] = pc[h]
    BY <1>1, CalmStep, OthersKept DEF Calm, Step, Updating
  <2> QED BY <1>0, <2>1
<1>2. ASSUME NEW g \in Handlers, Load(g) \/ Store(g)
      PROVE  \A h \in Handlers : place'[h] # "closed" => pc'[h] = "write"
  <2>1. place' = place /\ pc[g] # "write" /\ \A h \in Handlers \ {g} : pc'[h] = pc[h]
    BY <1>2 DEF Load, Store, disk
  <2> QED BY <1>0, <2>1
<1>3. ASSUME NEW g \in Handlers, Open(g)
      PROVE  \A h \in Handlers : place'[h] # "closed" => pc'[h] = "write"
  BY <1>0, <1>3 DEF Open
<1>4. ASSUME NEW g \in Handlers, Write(g) \/ SaveFails(g)
      PROVE  \A h \in Handlers : place'[h] # "closed" => pc'[h] = "write"
  <2>1. /\ place' = [place EXCEPT ![g] = "closed"]
        /\ \A h \in Handlers \ {g} : pc'[h] = pc[h]
    BY <1>4 DEF Write, SaveFails
  <2> QED BY <1>0, <2>1
<1>5. ASSUME NEW g \in Handlers, Rename(g)
      PROVE  \A h \in Handlers : place'[h] # "closed" => pc'[h] = "write"
  <2>1. /\ pc[g] = "rename" /\ \A h \in Handlers \ {g} : pc'[h] = pc[h]
        /\ \A h \in Handlers : place'[h] = Moved(place[h])
    BY <1>5 DEF Rename
  <2>2. \A h \in Handlers : place'[h] # "closed" => place[h] # "closed"
    BY <2>1 DEF Moved
  <2> QED BY <1>0, <2>1, <2>2
<1>6. CASE Crash
  BY <1>6 DEF Crash
<1>7. CASE UNCHANGED <<data, disk, request, money, books, history>>
  BY <1>0, <1>7 DEF disk, request
<1> QED BY <1>1, <1>2, <1>3, <1>4, <1>5, <1>6, <1>7, Steps

\* Whether changes overlapped is not forgotten.
LEMMA OverlapStays == ASSUME TypeOK, [Next]_vars, ~overlapped' PROVE ~overlapped
<1>1. ASSUME NEW h \in Handlers, Calm(h) PROVE ~overlapped
  BY <1>1, CalmStep
<1>2. ASSUME NEW h \in Handlers,
             Load(h) \/ Open(h) \/ Write(h) \/ Rename(h) \/ SaveFails(h) \/ Store(h)
      PROVE  ~overlapped
  BY <1>2 DEF Load, Open, Write, Rename, SaveFails, Store, history
<1>3. CASE Crash
  BY <1>3 DEF Crash
<1>4. CASE UNCHANGED <<data, disk, request, money, books, history>>
  BY <1>4 DEF history
<1> QED BY <1>1, <1>2, <1>3, <1>4, Steps

\* One change at a time goes its way to the file and to memory.
LEMMA FollowedStep == ASSUME TypeOK, Followed, [Next]_vars PROVE Followed'
<1> USE DEF TypeOK, Goto
<1> SUFFICES ASSUME ~overlapped' PROVE OneChange'
  BY PlacesStep DEF Followed
<1>0. ~overlapped /\ OneChange
  BY OverlapStays DEF Followed
<1> USE DEF Updating, OneChange
<1>1. ASSUME NEW g \in Handlers, Calm(g) PROVE OneChange'
  <2>1. /\ UNCHANGED <<data, file, tmp, place, new>> /\ ~Updating(g) /\ ~Updating(g)'
        /\ \A h \in Handlers \ {g} : pc'[h] = pc[h]
    BY <1>1, CalmStep, OthersKept DEF Calm, Step
  <2> QED BY <1>0, <2>1
<1>2. ASSUME NEW g \in Handlers, Load(g) PROVE OneChange'
  <2>1. /\ UNCHANGED <<data, file, tmp, place>> /\ pc'[g] \in {"open", "done"}
        /\ \A h \in Handlers \ {g} : pc'[h] = pc[h] /\ new'[h] = new[h]
        /\ pc[g] = "load" /\ \A h \in Handlers : ~Updating(h)
    BY <1>2 DEF Load, disk
  <2> QED BY <1>0, <2>1
<1>3. ASSUME NEW g \in Handlers, Open(g) PROVE OneChange'
  <2>1. /\ UNCHANGED <<data, file, new>> /\ pc[g] = "open" /\ pc'[g] = "write"
        /\ place'[g] = "tmp" /\ \A h \in Handlers \ {g} : pc'[h] = pc[h] /\ ~Updating(h)
    BY <1>0, <1>3 DEF Open
  <2> QED BY <1>0, <2>1
<1>4. ASSUME NEW g \in Handlers, Write(g) PROVE OneChange'
  <2>1. /\ UNCHANGED <<data, new>> /\ pc[g] = "write" /\ pc'[g] = "rename"
        /\ file' = file /\ tmp' = new[g]
        /\ \A h \in Handlers \ {g} : pc'[h] = pc[h] /\ ~Updating(h)
    BY <1>0, <1>4 DEF Write
  <2> QED BY <1>0, <2>1
<1>5. ASSUME NEW g \in Handlers, Rename(g) PROVE OneChange'
  <2>1. /\ UNCHANGED <<data, new>> /\ pc[g] = "rename" /\ pc'[g] = "store"
        /\ file' = new[g] /\ \A h \in Handlers \ {g} : pc'[h] = pc[h] /\ ~Updating(h)
    BY <1>0, <1>5 DEF Rename
  <2>2. new[g] # Torn
    BY PortalAssumption
  <2> QED BY <1>0, <2>1, <2>2
<1>6. ASSUME NEW g \in Handlers, SaveFails(g) PROVE OneChange'
  <2>1. /\ UNCHANGED <<data, file, new>> /\ pc[g] \in {"open", "write", "rename"}
        /\ pc'[g] = "done" /\ \A h \in Handlers \ {g} : pc'[h] = pc[h] /\ ~Updating(h)
    BY <1>0, <1>6 DEF SaveFails
  <2> QED BY <1>0, <2>1
<1>7. ASSUME NEW g \in Handlers, Store(g) PROVE OneChange'
  <2>1. /\ UNCHANGED <<file, new>> /\ pc[g] = "store" /\ data' = new[g]
        /\ \A h \in Handlers \ {g} : pc'[h] = pc[h] /\ ~Updating(h)
        /\ pc'[g] = IF Money(g) THEN "log" ELSE Onward(g)
    BY <1>0, <1>7 DEF Store, disk
  <2>2. pc'[g] \in {"log", "deliver", "load", "done"}
    BY <2>1 DEF Onward
  <2> QED BY <1>0, <2>1, <2>2
<1>8. CASE Crash
  BY <1>0, <1>8 DEF Crash
<1>9. CASE UNCHANGED <<data, disk, request, money, books, history>>
  <2>1. UNCHANGED <<data, file, tmp, place, new, pc>>
    BY <1>9 DEF disk, request
  <2> QED BY <1>0, <2>1
<1> QED BY <1>1, <1>2, <1>3, <1>4, <1>5, <1>6, <1>7, <1>8, <1>9, Steps

\* What an edit says depends on the request, the data and the clone alone.
LEMMA EditKept ==
    ASSUME NEW h, job'[h] = job[h], me'[h] = me[h], phase'[h] = phase[h],
           data' = data, new'[h] = new[h], Edit(h, data, new[h])
    PROVE  Edit(h, data, new[h])'
<1>1. /\ Money(h)' = Money(h) /\ Target(h)' = Target(h) /\ Delta(h)' = Delta(h)
      /\ Creating(h)' = Creating(h)
  BY DEF Money, Target, Delta, Creating
<1> QED BY <1>1 DEF Edit, Vouched

\* The clone that is being saved stays an edit of the data there is.
LEMMA ClonedStep ==
    ASSUME TypeOK, Kinds, Numbered, AllBasic, Followed, Cloned, [Next]_vars
    PROVE  Cloned'
<1> USE DEF TypeOK, Goto
<1> SUFFICES ASSUME ~overlapped', NEW h \in Handlers, Updating(h)'
             PROVE  Edit(h, data, new[h])'
  BY DEF Cloned
<1>0. /\ ~overlapped /\ (Updating(h) => Edit(h, data, new[h]))
      /\ \A g \in Handlers : Updating(g) /\ Updating(h) => g = h
  BY OverlapStays DEF Followed, OneChange, Cloned
<1>1. ASSUME NEW g \in Handlers, Calm(g) PROVE Edit(h, data, new[h])'
  <2>1. g # h /\ UNCHANGED <<data, new>>
    BY <1>1, CalmStep
  <2>2. /\ pc'[h] = pc[h] /\ job'[h] = job[h] /\ me'[h] = me[h] /\ phase'[h] = phase[h]
    BY <1>1, <2>1, OthersKept DEF Calm, Step
  <2>3. Updating(h)
    BY <2>2 DEF Updating
  <2> QED BY <1>0, <2>1, <2>2, <2>3, EditKept
<1>2. ASSUME NEW g \in Handlers, Load(g) PROVE Edit(h, data, new[h])'
  <2>1. /\ UNCHANGED <<data, job, me, phase>> /\ \A k \in Handlers : ~Updating(k)
        /\ \A k \in Handlers \ {g} : pc'[k] = pc[k]
    BY <1>2 DEF Load
  <2>2. g = h
    BY <2>1 DEF Updating
  <2>3. Applies(h, data) /\ new'[h] = Updated(h, data)
    BY <1>2, <2>2 DEF Load, Updating
  <2>4. Edit(h, data, Updated(h, data))
    BY <1>2, <2>2, <2>3, LoadEdits
  <2>5. /\ Money(h)' = Money(h) /\ Target(h)' = Target(h) /\ Delta(h)' = Delta(h)
        /\ Creating(h)' = Creating(h)
    BY <2>1 DEF Money, Target, Delta, Creating
  <2> DEFINE n == Updated(h, data)
  <2>6. Edit(h, data, n) /\ new'[h] = n
    BY <2>3, <2>4
  <2> HIDE DEF n, TypeOK
  <2> QED BY <2>1, <2>5, <2>6 DEF Edit, Vouched
<1>3. ASSUME NEW g \in Handlers, Open(g) \/ Write(g) \/ Rename(g) \/ SaveFails(g)
      PROVE  Edit(h, data, new[h])'
  <2>1. /\ UNCHANGED <<data, new, job, me, phase>> /\ Updating(g)
        /\ \A k \in Handlers \ {g} : pc'[k] = pc[k]
    BY <1>3 DEF Open, Write, Rename, SaveFails, Updating
  <2>2. Updating(h)
    BY <2>1 DEF Updating
  <2> QED BY <1>0, <2>1, <2>2, EditKept
<1>4. ASSUME NEW g \in Handlers, Store(g) PROVE Edit(h, data, new[h])'
  <2>1. /\ Updating(g) /\ \A k \in Handlers \ {g} : pc'[k] = pc[k]
        /\ pc'[g] = IF Money(g) THEN "log" ELSE Onward(g)
    BY <1>4 DEF Store, Updating
  <2>2. pc'[g] \in {"log", "deliver", "load", "done"}
    BY <2>1 DEF Onward
  <2>3. g # h
    BY <2>2 DEF Updating
  <2>4. Updating(h)
    BY <2>1, <2>3 DEF Updating
  <2> QED BY <1>0, <2>1, <2>3, <2>4
<1>5. CASE Crash
  BY <1>5 DEF Crash, Updating
<1>6. CASE UNCHANGED <<data, disk, request, money, books, history>>
  <2>1. UNCHANGED <<data, new, job, me, phase, pc>>
    BY <1>6 DEF request
  <2>2. Updating(h)
    BY <2>1 DEF Updating
  <2> QED BY <1>0, <2>1, <2>2, EditKept
<1> QED BY <1>1, <1>2, <1>3, <1>4, <1>5, <1>6, Steps

\* A clone keeps the users, and its keys are bound as they should be.
LEMMA CloneOwned ==
    ASSUME TypeOK, Kinds, Cloned, Owned, ~overlapped, NEW h \in Handlers, Updating(h)
    PROVE  /\ OwnKeys(new[h])
           /\ \A i \in DOMAIN data.users :
                i \in DOMAIN new[h].users /\ new[h].users[i].name = data.users[i].name
<1> DEFINE n == new[h]
           Mine == /\ me[h].id \in DOMAIN data.users /\ data.users[me[h].id].name = me[h].name
<1>1. Edit(h, data, n) /\ OwnKeys(data)
  BY DEF Cloned, Owned
<1>2. job[h].op \in {"createKey", "updateKey"} => Mine
  BY DEF Owned, Updating, PortalOps
<1> HIDE DEF n, Mine
<1>3. \A i \in DOMAIN data.users : i \in DOMAIN n.users /\ n.users[i].name = data.users[i].name
  BY <1>1 DEF Edit
<1>4. ASSUME NEW t \in DOMAIN n.keys
      PROVE  /\ n.keys[t].user \in DOMAIN n.users
             /\ n.keys[t].checked /\ n.keys[t].card # None =>
                  OwnerOf[n.keys[t].card] = n.users[n.keys[t].user].name
  <2>1. CASE /\ t \in DOMAIN data.keys
             /\ n.keys[t].user = data.keys[t].user /\ n.keys[t].card = data.keys[t].card
             /\ n.keys[t].checked = data.keys[t].checked
    <3>1. /\ data.keys[t].user \in DOMAIN data.users
          /\ data.keys[t].checked /\ data.keys[t].card # None =>
               OwnerOf[data.keys[t].card] = data.users[data.keys[t].user].name
      BY <1>1, <2>1 DEF OwnKeys
    <3> QED BY <1>3, <2>1, <3>1
  <2>2. CASE /\ job[h].op \in {"createKey", "updateKey"} /\ n.keys[t].user = me[h].id
             /\ Vouched(h, n.keys[t])
    BY <1>2, <1>3, <2>2 DEF Mine, Vouched
  <2> QED BY <1>1, <2>1, <2>2 DEF Edit
<1>5. OwnKeys(n)
  BY <1>4 DEF OwnKeys
<1> QED BY <1>3, <1>5 DEF n

\* So is what the file holds.
LEMMA FileOwned ==
    ASSUME TypeOK, Kinds, Followed, Cloned, Owned, ~overlapped
    PROVE  OwnKeys(file)
<1>1. CASE \A h \in Handlers : pc[h] # "store"
  BY <1>1 DEF Followed, OneChange, Owned
<1>2. ASSUME NEW h \in Handlers, pc[h] = "store" PROVE OwnKeys(file)
  <2>1. file = new[h] /\ Updating(h)
    BY <1>2 DEF Followed, OneChange, Updating
  <2> QED BY <2>1, CloneOwned
<1> QED BY <1>1, <1>2

\* Keys stay bound to cards of their users, and a request's user stays there.
LEMMA OwnedStep ==
    ASSUME TypeOK, Kinds, Followed, Cloned, Owned, [Next]_vars
    PROVE  Owned'
<1> USE DEF TypeOK, Goto
<1> DEFINE Mine(h) == pc[h] # "idle" /\ job[h].op \in PortalOps =>
             /\ me[h].id \in DOMAIN data.users /\ data.users[me[h].id].name = me[h].name
<1> SUFFICES ASSUME ~overlapped' PROVE OwnKeys(data)' /\ \A h \in Handlers : Mine(h)'
  BY DEF Owned
<1>0. ~overlapped /\ OwnKeys(data) /\ \A h \in Handlers : Mine(h)
  BY OverlapStays DEF Owned
<1>1. ASSUME data' = data PROVE OwnKeys(data)'
  BY <1>0, <1>1 DEF OwnKeys
<1>2. ASSUME NEW g \in Handlers, Calm(g) PROVE OwnKeys(data)' /\ \A h \in Handlers : Mine(h)'
  <2>1. data' = data
    BY <1>2, CalmStep
  <2>2. \A h \in Handlers \ {g} : pc'[h] = pc[h] /\ job'[h] = job[h] /\ me'[h] = me[h]
    BY <1>2, OthersKept DEF Calm, Step
  <2>3. Mine(g)'
    <3>1. CASE Receive(g)
      <4>1. PICK j \in Jobs :
              /\ job' = [job EXCEPT ![g] = j]
              /\ IF j.op \in PortalOps
                 THEN \E i \in sessions \cap DOMAIN data.users :
                        me' = [me EXCEPT ![g] = [id |-> i, balance |-> data.users[i].balance,
                                                 name |-> data.users[i].name]]
                 ELSE me' = [me EXCEPT ![g] = Nobody]
        BY <3>1 DEF Receive
      <4> QED BY <2>1, <4>1
    <3>2. CASE Refuse(g) \/ Answer(g)
      BY <3>2 DEF Refuse, Answer
    <3>3. CASE Begin(g) \/ Log(g) \/ DeliverFirst(g) \/ Deliver(g)
      <4>1. pc[g] # "idle" /\ UNCHANGED <<job, me>>
        BY <3>3 DEF Begin, Log, DeliverFirst, Deliver
      <4> QED BY <1>0, <2>1, <4>1
    <3> QED BY <1>2, <3>1, <3>2, <3>3 DEF Calm
  <2>4. \A h \in Handlers : Mine(h)'
    BY <1>0, <2>1, <2>2, <2>3
  <2> QED BY <1>1, <2>1, <2>4
<1>3. ASSUME NEW g \in Handlers, Load(g) \/ Open(g) \/ Write(g) \/ Rename(g) \/ SaveFails(g)
      PROVE  OwnKeys(data)' /\ \A h \in Handlers : Mine(h)'
  <2>1. UNCHANGED <<data, job, me>> /\ pc[g] # "idle" /\ \A h \in Handlers \ {g} : pc'[h] = pc[h]
    BY <1>3 DEF Load, Open, Write, Rename, SaveFails
  <2>2. \A h \in Handlers : Mine(h)'
    BY <1>0, <2>1
  <2> QED BY <1>1, <2>1, <2>2
<1>4. ASSUME NEW g \in Handlers, Store(g) PROVE OwnKeys(data)' /\ \A h \in Handlers : Mine(h)'
  <2>1. data' = new[g] /\ job' = job /\ Updating(g) /\ pc[g] # "idle"
    BY <1>4 DEF Store, Updating
  <2>2. /\ OwnKeys(new[g])
        /\ \A i \in DOMAIN data.users :
             i \in DOMAIN new[g].users /\ new[g].users[i].name = data.users[i].name
    BY <1>0, <2>1, CloneOwned
  <2>3. \A h \in Handlers \ {g} : pc'[h] = pc[h] /\ me'[h] = me[h]
    BY <1>4, OthersKept DEF Step
  <2>4. job[g].op \in PortalOps => me'[g].id = me[g].id /\ me'[g].name = me[g].name
    BY <1>4 DEF Store, PortalOps, Purchases
  <2>5. \A h \in Handlers : Mine(h)'
    <3> TAKE h \in Handlers
    <3>1. CASE h = g
      BY <1>0, <2>1, <2>2, <2>4, <3>1
    <3>2. CASE h # g
      BY <1>0, <2>1, <2>2, <2>3, <3>2
    <3> QED BY <3>1, <3>2
  <2>6. OwnKeys(data)'
    BY <2>1, <2>2 DEF OwnKeys
  <2> QED BY <2>5, <2>6
<1>5. CASE Crash
  <2>1. data' = file /\ pc' = [h \in Handlers |-> "idle"]
    BY <1>0, <1>5 DEF Crash, Followed, OneChange
  <2>2. OwnKeys(file)
    BY <1>0, FileOwned
  <2>3. OwnKeys(data)'
    BY <2>1, <2>2 DEF OwnKeys
  <2> QED BY <2>1, <2>3
<1>6. CASE UNCHANGED <<data, disk, request, money, books, history>>
  <2>1. UNCHANGED <<data, job, me, pc>>
    BY <1>6 DEF request
  <2>2. \A h \in Handlers : Mine(h)'
    BY <1>0, <2>1
  <2> QED BY <1>1, <2>1, <2>2
<1> QED BY <1>2, <1>3, <1>4, <1>5, <1>6, Steps

------------------------------------------------------------------------------
(* Balances. *)

\* The cents of a change by handler h.
Row(h, n) == {h} \X (1..n)

NoneOf(h, S) == \A k : <<h, k>> \notin S

\* Adding the cents of a change to those pending adds its amount.
LEMMA RowAdded ==
    ASSUME NEW S, IsFiniteSet(S), NEW h, NEW n \in Int, NoneOf(h, S)
    PROVE  /\ IsFiniteSet(S \cup Row(h, n))
           /\ Cardinality(S \cup Row(h, n)) = Cardinality(S) + (IF n > 0 THEN n ELSE 0)
<1>1. IsFiniteSet(1..n) /\ Cardinality(1..n) = IF n > 0 THEN n ELSE 0
  BY FS_Interval
<1>2. IsFiniteSet({h}) /\ Cardinality({h}) = 1
  BY FS_Singleton
<1>3. IsFiniteSet(Row(h, n)) /\ Cardinality(Row(h, n)) = Cardinality({h}) * Cardinality(1..n)
  BY <1>1, <1>2, FS_Product DEF Row
<1>4. S \cap Row(h, n) = {}
  BY DEF Row, NoneOf
<1>5. Cardinality(S \cap Row(h, n)) = 0
  BY <1>4, FS_EmptySet
<1>6. Cardinality(S) \in Nat
  BY FS_CardinalityType
<1>7. Cardinality(Row(h, n)) = IF n > 0 THEN n ELSE 0
  BY <1>1, <1>2, <1>3
<1>8. /\ IsFiniteSet(S \cup Row(h, n))
      /\ Cardinality(S \cup Row(h, n)) =
           Cardinality(S) + Cardinality(Row(h, n)) - Cardinality(S \cap Row(h, n))
  BY <1>3, FS_Union
<1> QED BY <1>5, <1>6, <1>7, <1>8

\* A change moves the net amount pending by its own.
LEMMA NetAdded ==
    ASSUME NEW P, NEW M, IsFiniteSet(P), IsFiniteSet(M), NEW h, NEW x \in Int,
           NEW y \in Int, y = -x, NoneOf(h, P), NoneOf(h, M)
    PROVE  Net(P, M) \in Int /\ Net(P \cup Row(h, x), M \cup Row(h, y)) = Net(P, M) + x
<1>1. Cardinality(P \cup Row(h, x)) = Cardinality(P) + (IF x > 0 THEN x ELSE 0)
  BY RowAdded
<1>2. Cardinality(M \cup Row(h, y)) = Cardinality(M) + (IF y > 0 THEN y ELSE 0)
  BY RowAdded
<1>3. Cardinality(P) \in Nat /\ Cardinality(M) \in Nat
  BY FS_CardinalityType
<1> QED BY <1>1, <1>2, <1>3 DEF Net

\* Changes stay pending as long as their requests wait to log them.
LEMMA PendingKept ==
    ASSUME \A h \in Handlers : pc'[h] = "log" <=> pc[h] = "log",
           \A h \in Handlers : pc[h] = "log" => Target(h)' = Target(h) /\ Delta(h)' = Delta(h),
           NEW i
    PROVE  Plus(i)' = Plus(i) /\ Minus(i)' = Minus(i)
<1>1. Plus(i)' = Plus(i)
  BY DEF Plus
<1>2. Minus(i)' = Minus(i)
  BY DEF Minus
<1> QED BY <1>1, <1>2

\* A request that has stored its change adds it to what is pending.
LEMMA PendingAdded ==
    ASSUME NEW g \in Handlers, pc[g] # "log", pc'[g] = "log", Delta(g)' \in Int,
           \A h \in Handlers \ {g} :
              pc'[h] = pc[h] /\ Target(h)' = Target(h) /\ Delta(h)' = Delta(h),
           NEW i
    PROVE  /\ i # Target(g)' => Plus(i)' = Plus(i) /\ Minus(i)' = Minus(i)
           /\ i = Target(g)' => /\ Plus(i)' = Plus(i) \cup Row(g, Delta(g)')
                                /\ Minus(i)' = Minus(i) \cup Row(g, -Delta(g)')
           /\ NoneOf(g, Plus(i)) /\ NoneOf(g, Minus(i))
<1>1. ASSUME i # Target(g)' PROVE Plus(i)' = Plus(i) /\ Minus(i)' = Minus(i)
  <2>1. Plus(i)' = Plus(i)
    BY <1>1 DEF Plus
  <2>2. Minus(i)' = Minus(i)
    BY <1>1 DEF Minus
  <2> QED BY <2>1, <2>2
<1>2. ASSUME i = Target(g)' PROVE Plus(i)' = Plus(i) \cup Row(g, Delta(g)')
  BY <1>2 DEF Plus, Row
<1>3. ASSUME i = Target(g)' PROVE Minus(i)' = Minus(i) \cup Row(g, -Delta(g)')
  BY <1>3 DEF Minus, Row
<1>4. NoneOf(g, Plus(i)) /\ NoneOf(g, Minus(i))
  BY DEF Plus, Minus, NoneOf
<1> QED BY <1>1, <1>2, <1>3, <1>4

\* One that has logged it takes it away.
LEMMA PendingRemoved ==
    ASSUME NEW g \in Handlers, pc[g] = "log", pc'[g] # "log", Delta(g) \in Int,
           \A h \in Handlers \ {g} :
              pc'[h] = pc[h] /\ Target(h)' = Target(h) /\ Delta(h)' = Delta(h),
           NEW i
    PROVE  /\ i # Target(g) => Plus(i)' = Plus(i) /\ Minus(i)' = Minus(i)
           /\ i = Target(g) => /\ Plus(i) = Plus(i)' \cup Row(g, Delta(g))
                               /\ Minus(i) = Minus(i)' \cup Row(g, -Delta(g))
           /\ NoneOf(g, Plus(i)') /\ NoneOf(g, Minus(i)')
<1>1. ASSUME i # Target(g) PROVE Plus(i)' = Plus(i) /\ Minus(i)' = Minus(i)
  <2>1. Plus(i)' = Plus(i)
    BY <1>1 DEF Plus
  <2>2. Minus(i)' = Minus(i)
    BY <1>1 DEF Minus
  <2> QED BY <2>1, <2>2
<1>2. ASSUME i = Target(g) PROVE Plus(i) = Plus(i)' \cup Row(g, Delta(g))
  BY <1>2 DEF Plus, Row
<1>3. ASSUME i = Target(g) PROVE Minus(i) = Minus(i)' \cup Row(g, -Delta(g))
  BY <1>3 DEF Minus, Row
<1>4. NoneOf(g, Plus(i)') /\ NoneOf(g, Minus(i)')
  BY DEF Plus, Minus, NoneOf
<1> QED BY <1>1, <1>2, <1>3, <1>4

\* A step that changes no balance, logs nothing and leaves what is pending alone
\* explains balances as before.
LEMMA ExplainedKept ==
    ASSUME Explained, ~overlapped, ~unlogged, UNCHANGED <<data, opened, logged>>,
           \A h \in Handlers : pc'[h] = "log" <=> pc[h] = "log",
           \A h \in Handlers : pc[h] = "log" => Target(h)' = Target(h) /\ Delta(h)' = Delta(h)
    PROVE  Explained'
<1>1. \A i : Plus(i)' = Plus(i) /\ Minus(i)' = Minus(i)
  BY PendingKept
<1>2. /\ \A i \in Ids : IsFiniteSet(Plus(i)) /\ IsFiniteSet(Minus(i))
      /\ \A i \in DOMAIN data.users :
           data.users[i].balance =
             opened[i] + logged[i] + Net(Plus(i), Minus(i))
      /\ \A i \in Ids \ DOMAIN data.users : logged[i] = 0
      /\ \A h \in Handlers : pc[h] = "log" => Target(h) \in DOMAIN data.users
  BY DEF Explained
<1>3. \A h \in Handlers : pc'[h] = "log" => Target(h)' \in DOMAIN data'.users
  BY <1>2
<1>4. \A i \in DOMAIN data'.users :
        data'.users[i].balance =
          opened'[i] + logged'[i] + Net(Plus(i)', Minus(i)')
  BY <1>1, <1>2
<1>5. \A i \in Ids : IsFiniteSet(Plus(i)') /\ IsFiniteSet(Minus(i)')
  BY <1>1, <1>2
<1>6. \A i \in Ids \ DOMAIN data'.users : logged'[i] = 0
  BY <1>2
<1> QED BY <1>3, <1>4, <1>5, <1>6 DEF Explained

\* Logging a change moves it from what is pending to what is logged.
LEMMA LogExplained ==
    ASSUME TypeOK, Kinds, Explained, ~overlapped, ~unlogged, ~unlogged',
           NEW g \in Handlers, Log(g)
    PROVE  Explained'
<1>x. Delta(g) \in Int
  BY DeltaInt DEF Kinds, Log
<1>0. PICK x \in Int : x = Delta(g)
  BY <1>x
<1>t. PICK t : t = Target(g)
  OBVIOUS
<1>1. /\ pc[g] = "log" /\ UNCHANGED <<data, opened, job, me, phase>> /\ pc'[g] = Onward(g)
      /\ logged' = [logged EXCEPT ![t] = @ + x]
      /\ \A h \in Handlers \ {g} : pc'[h] = pc[h]
  BY <1>0, <1>t DEF Log, Goto, Target, TypeOK
<1>2. pc'[g] # "log"
  BY <1>1 DEF Onward
<1>4. \A h \in Handlers : Target(h)' = Target(h) /\ Delta(h)' = Delta(h)
  BY <1>1 DEF Target, Delta
<1>5. /\ t \in DOMAIN data.users /\ DOMAIN data.users \subseteq Ids
      /\ \A i \in Ids : IsFiniteSet(Plus(i)) /\ IsFiniteSet(Minus(i))
      /\ \A i \in DOMAIN data.users :
           data.users[i].balance =
             opened[i] + logged[i] + Net(Plus(i), Minus(i))
      /\ \A i \in Ids \ DOMAIN data.users : logged[i] = 0
      /\ \A h \in Handlers : pc[h] = "log" => Target(h) \in DOMAIN data.users
  BY <1>0, <1>t, <1>1, DataFields DEF Explained, TypeOK
<1>6. ASSUME NEW i
      PROVE  /\ i # t => Plus(i)' = Plus(i) /\ Minus(i)' = Minus(i)
             /\ i = t => /\ Plus(i) = Plus(i)' \cup Row(g, x)
                         /\ Minus(i) = Minus(i)' \cup Row(g, -x)
             /\ NoneOf(g, Plus(i)') /\ NoneOf(g, Minus(i)')
  BY <1>0, <1>t, <1>1, <1>2, <1>4, PendingRemoved
<1>7. IsFiniteSet(Plus(t)') /\ IsFiniteSet(Minus(t)')
  BY <1>5, <1>6, FS_Subset
<1>8. /\ Net(Plus(t)', Minus(t)') \in Int
      /\ Net(Plus(t), Minus(t)) = Net(Plus(t)', Minus(t)') + x
  <2>0. PICK P, M : P = Plus(t)' /\ M = Minus(t)'
    OBVIOUS
  <2>1. PICK y \in Int : y = -x
    OBVIOUS
  <2>2. /\ IsFiniteSet(P) /\ IsFiniteSet(M) /\ NoneOf(g, P) /\ NoneOf(g, M)
        /\ Plus(t) = P \cup Row(g, x) /\ Minus(t) = M \cup Row(g, y)
    BY <1>6, <1>7, <2>0, <2>1
  <2>3. Net(P, M) \in Int /\ Net(P \cup Row(g, x), M \cup Row(g, y)) = Net(P, M) + x
    BY <2>1, <2>2, NetAdded
  <2> QED BY <2>0, <2>2, <2>3
<1>9. \A i \in Ids : IsFiniteSet(Plus(i)') /\ IsFiniteSet(Minus(i)')
  BY <1>5, <1>6, <1>7
<1>10. logged[t] \in Int /\ opened[t] \in Int /\ t \in Ids /\ logged'[t] = logged[t] + x
       /\ \A i \in Ids \ {t} : logged'[i] = logged[i]
  BY <1>1, <1>5 DEF TypeOK
<1>11. \A i \in DOMAIN data'.users :
         data'.users[i].balance =
           opened'[i] + logged'[i] + Net(Plus(i)', Minus(i)')
  <2> SUFFICES ASSUME NEW i \in DOMAIN data.users
               PROVE  data.users[i].balance =
                        opened[i] + logged'[i] + Net(Plus(i)', Minus(i)')
    BY <1>1
  <2>1. CASE i = t
    <3>1. data.users[t].balance = opened[t] + logged[t] + Net(Plus(t), Minus(t))
      BY <1>5
    <3>2. opened[t] + logged[t] + Net(Plus(t), Minus(t)) =
            opened[t] + (logged[t] + x) + Net(Plus(t)', Minus(t)')
      BY <1>8, <1>10
    <3> QED BY <1>10, <2>1, <3>1, <3>2
  <2>2. CASE i # t
    BY <1>5, <1>6, <1>10, <2>2
  <2> QED BY <2>1, <2>2
<1>12. \A i \in Ids \ DOMAIN data'.users : logged'[i] = 0
  BY <1>1, <1>5, <1>10
<1>13. \A h \in Handlers : pc'[h] = "log" => Target(h)' \in DOMAIN data'.users
  BY <1>1, <1>2, <1>4, <1>5
<1> QED BY <1>9, <1>11, <1>12, <1>13 DEF Explained

\* What storing a clone does to the request that made it.
LEMMA StoreFacts ==
    ASSUME TypeOK, Kinds, NEW g \in Handlers, Store(g)
    PROVE  /\ data' = new[g] /\ logged' = logged /\ unlogged' = unlogged
           /\ pc[g] = "store" /\ (pc'[g] = "log" <=> Money(g))
           /\ Money(g) => /\ Target(g)' = Target(g) /\ Delta(g)' = Delta(g) /\ Delta(g) \in Int
                          /\ ~Creating(g)
           /\ opened' = IF Creating(g) THEN [opened EXCEPT ![new[g].seq] = Opening] ELSE opened
<1> USE DEF TypeOK
<1>1. /\ data' = new[g] /\ logged' = logged /\ unlogged' = unlogged /\ pc[g] = "store"
      /\ job' = job
      /\ pc'[g] = IF Money(g) THEN "log" ELSE Onward(g)
      /\ opened' = IF Creating(g) THEN [opened EXCEPT ![new[g].seq] = Opening] ELSE opened
      /\ phase' = [phase EXCEPT ![g] = IF Onward(g) = "load" THEN "again" ELSE @]
  BY DEF Store, Goto, history, Creating
<1>2. pc'[g] = "log" <=> Money(g)
  BY <1>1 DEF Onward
<1>3. ASSUME Money(g)
      PROVE  /\ Target(g)' = Target(g) /\ Delta(g)' = Delta(g) /\ Delta(g) \in Int
             /\ ~Creating(g)
  <2>1. Kind(g)
    BY <1>1 DEF Kinds
  <2>2. Onward(g) # "load" /\ ~Creating(g)
    BY <1>3 DEF Money, Onward, Creating
  <2>3. phase'[g] = phase[g]
    BY <1>1, <2>2
  <2>4. phase[g] # "edit" => me'[g].id = me[g].id
    BY DEF Store
  <2>5. Target(g)' = Target(g) /\ Delta(g)' = Delta(g)
    BY <1>1, <2>3, <2>4 DEF Target, Delta
  <2> QED BY <1>3, <2>1, <2>2, <2>5, DeltaInt
<1> QED BY <1>1, <1>2, <1>3

\* Storing a change of a balance makes it pending.
LEMMA StoreExplained ==
    ASSUME TypeOK, Kinds, AllBasic, Cloned, Explained, ~overlapped, ~unlogged,
           NEW g \in Handlers, Store(g)
    PROVE  Explained'
<1> DEFINE n == new[g]
<1>1. /\ data' = n /\ logged' = logged /\ pc[g] = "store" /\ (pc'[g] = "log" <=> Money(g))
      /\ opened' = IF Creating(g) THEN [opened EXCEPT ![n.seq] = Opening] ELSE opened
  BY StoreFacts
<1>2. Edit(g, data, n)
  BY <1>1 DEF Cloned, Updating
<1>3. /\ DOMAIN n.users \subseteq Ids /\ DOMAIN data.users \subseteq Ids
      /\ \A i \in DOMAIN data.users : i <= data.seq /\ data.users[i].balance \in Int
      /\ data.seq \in Nat /\ opened \in [Ids -> Int] /\ logged \in [Ids -> Int]
  BY DataFields DEF TypeOK, AllBasic, Basic, Copies, User
<1> HIDE DEF n
<1>4. \A h \in Handlers \ {g} :
        pc'[h] = pc[h] /\ Target(h)' = Target(h) /\ Delta(h)' = Delta(h)
  BY OthersKept DEF Step, Target, Delta
<1>5. /\ \A i \in Ids : IsFiniteSet(Plus(i)) /\ IsFiniteSet(Minus(i))
      /\ \A i \in DOMAIN data.users :
           data.users[i].balance = opened[i] + logged[i] + Net(Plus(i), Minus(i))
      /\ \A i \in Ids \ DOMAIN data.users : logged[i] = 0
      /\ \A h \in Handlers : pc[h] = "log" => Target(h) \in DOMAIN data.users
  BY DEF Explained
<1>6. /\ \A i \in DOMAIN data.users :
           /\ i \in DOMAIN n.users
           /\ n.users[i].balance =
                data.users[i].balance + (IF Money(g) /\ i = Target(g) THEN Delta(g) ELSE 0)
      /\ \A i \in DOMAIN n.users \ DOMAIN data.users :
           Creating(g) /\ i = data.seq + 1 /\ n.users[i].balance = Opening
      /\ n.seq = IF Creating(g) THEN data.seq + 1 ELSE data.seq
      /\ Money(g) => Target(g) \in DOMAIN data.users
  BY <1>2 DEF Edit
<1>7. \A i \in Ids \ DOMAIN data'.users : logged'[i] = 0
  BY <1>1, <1>5, <1>6
<1>8. \A i \in DOMAIN data.users : opened'[i] = opened[i] /\ i \in Ids
  <2>1. CASE Creating(g)
    <3> TAKE i \in DOMAIN data.users
    <3>1. i \in Int /\ i <= data.seq /\ i \in Ids
      BY <1>3 DEF Ids
    <3>2. i # n.seq
      BY <1>3, <1>6, <2>1, <3>1
    <3> QED BY <1>1, <1>3, <2>1, <3>1, <3>2
  <2>2. CASE ~Creating(g)
    BY <1>1, <1>3, <2>2
  <2> QED BY <2>1, <2>2
<1>9. CASE Money(g)
  <2>1. PICK x \in Int : x = Delta(g)
    BY <1>9, StoreFacts
  <2>2. PICK t : t = Target(g)
    OBVIOUS
  <2>3. t = Target(g)' /\ x = Delta(g)' /\ ~Creating(g) /\ t \in DOMAIN data.users
    BY <1>6, <1>9, <2>1, <2>2, StoreFacts
  <2>4. PICK y \in Int : y = -x
    OBVIOUS
  <2>5. ASSUME NEW i
        PROVE  /\ i # t => Plus(i)' = Plus(i) /\ Minus(i)' = Minus(i)
               /\ i = t => /\ Plus(i)' = Plus(i) \cup Row(g, x)
                           /\ Minus(i)' = Minus(i) \cup Row(g, y)
               /\ NoneOf(g, Plus(i)) /\ NoneOf(g, Minus(i))
    <3>1. /\ i # Target(g)' => Plus(i)' = Plus(i) /\ Minus(i)' = Minus(i)
          /\ i = Target(g)' => /\ Plus(i)' = Plus(i) \cup Row(g, Delta(g)')
                               /\ Minus(i)' = Minus(i) \cup Row(g, -Delta(g)')
          /\ NoneOf(g, Plus(i)) /\ NoneOf(g, Minus(i))
      BY <1>1, <1>4, <1>9, <2>3, PendingAdded
    <3> QED BY <2>3, <2>4, <3>1
  <2>6. /\ Net(Plus(t), Minus(t)) \in Int
        /\ Net(Plus(t)', Minus(t)') = Net(Plus(t), Minus(t)) + x
        /\ IsFiniteSet(Plus(t)') /\ IsFiniteSet(Minus(t)')
    <3>0. PICK P, M : P = Plus(t) /\ M = Minus(t)
      OBVIOUS
    <3>1. IsFiniteSet(P) /\ IsFiniteSet(M) /\ NoneOf(g, P) /\ NoneOf(g, M)
      BY <1>3, <1>5, <2>3, <2>5, <3>0
    <3>2. Net(P, M) \in Int /\ Net(P \cup Row(g, x), M \cup Row(g, y)) = Net(P, M) + x
      BY <2>4, <3>1, NetAdded
    <3>3. IsFiniteSet(P \cup Row(g, x)) /\ IsFiniteSet(M \cup Row(g, y))
      BY <2>4, <3>1, RowAdded
    <3> QED BY <2>5, <3>0, <3>2, <3>3
  <2>7. \A i \in Ids : IsFiniteSet(Plus(i)') /\ IsFiniteSet(Minus(i)')
    BY <1>5, <2>5, <2>6
  <2>8. \A i \in DOMAIN data'.users :
          data'.users[i].balance = opened'[i] + logged'[i] + Net(Plus(i)', Minus(i)')
    <3> SUFFICES ASSUME NEW i \in DOMAIN n.users
                 PROVE  n.users[i].balance = opened[i] + logged[i] + Net(Plus(i)', Minus(i)')
      BY <1>1, <2>3
    <3>1. i \in DOMAIN data.users /\ opened[i] \in Int /\ logged[i] \in Int
      BY <1>3, <1>6, <2>3
    <3>2. CASE i = t
      <4>1. n.users[i].balance = data.users[i].balance + x
        BY <1>6, <1>9, <2>1, <2>2, <3>1, <3>2
      <4>2. data.users[i].balance = opened[i] + logged[i] + Net(Plus(i), Minus(i))
        BY <1>5, <3>1
      <4> QED BY <2>6, <3>1, <3>2, <4>1, <4>2
    <3>3. CASE i # t
      <4>1. n.users[i].balance = data.users[i].balance
        BY <1>3, <1>6, <2>2, <3>1, <3>3
      <4> QED BY <1>5, <2>5, <3>1, <3>3, <4>1
    <3> QED BY <3>2, <3>3
  <2>9. \A h \in Handlers : pc'[h] = "log" => Target(h)' \in DOMAIN data'.users
    BY <1>1, <1>4, <1>5, <1>6, <2>3
  <2> QED BY <1>7, <2>7, <2>8, <2>9 DEF Explained
<1>10. CASE ~Money(g)
  <2>1. \A i : Plus(i)' = Plus(i) /\ Minus(i)' = Minus(i)
    BY <1>1, <1>4, <1>10, PendingKept
  <2>2. \A i \in Ids : IsFiniteSet(Plus(i)') /\ IsFiniteSet(Minus(i)')
    BY <1>5, <2>1
  <2>3. \A h \in Handlers : pc'[h] = "log" => Target(h)' \in DOMAIN data'.users
    BY <1>1, <1>4, <1>5, <1>6, <1>10
  <2>4. \A i \in DOMAIN data'.users :
          data'.users[i].balance = opened'[i] + logged'[i] + Net(Plus(i)', Minus(i)')
    <3> SUFFICES ASSUME NEW i \in DOMAIN n.users
                 PROVE  n.users[i].balance = opened'[i] + logged[i] + Net(Plus(i), Minus(i))
      BY <1>1, <2>1
    <3>1. CASE i \in DOMAIN data.users
      <4>1. n.users[i].balance = data.users[i].balance
        BY <1>3, <1>6, <1>10, <3>1
      <4> QED BY <1>5, <1>8, <3>1, <4>1
    <3>2. CASE i \notin DOMAIN data.users
      <4>1. Creating(g) /\ i = n.seq /\ n.users[i].balance = Opening /\ i \in Ids
        BY <1>3, <1>6, <3>2
      <4>2. opened'[i] = Opening /\ logged[i] = 0
        BY <1>1, <1>3, <1>5, <3>2, <4>1
      <4>3. Plus(i) = {} /\ Minus(i) = {}
        BY <1>5, <3>2 DEF Plus, Minus
      <4>4. Net(Plus(i), Minus(i)) = 0
        BY <4>3, FS_EmptySet DEF Net
      <4>5. Opening \in Int
        BY PortalAssumption
      <4> QED BY <4>1, <4>2, <4>4, <4>5
    <3> QED BY <3>1, <3>2
  <2> QED BY <1>7, <2>2, <2>3, <2>4 DEF Explained
<1> QED BY <1>9, <1>10

\* Balances stay explained.
LEMMA ExplainedStep ==
    ASSUME TypeOK, Kinds, AllBasic, Cloned, Explained, [Next]_vars
    PROVE  Explained'
<1> USE DEF TypeOK, Goto
<1> SUFFICES ASSUME ~overlapped', ~unlogged' PROVE Explained'
  BY DEF Explained
<1>0. ~overlapped
  BY OverlapStays
<1>1. ASSUME NEW g \in Handlers, Calm(g) PROVE Explained'
  <2>1. UNCHANGED <<data, opened>>
    BY <1>1, CalmStep
  <2>2. \A h \in Handlers \ {g} :
          pc'[h] = pc[h] /\ Target(h)' = Target(h) /\ Delta(h)' = Delta(h)
    BY <1>1, OthersKept DEF Calm, Step, Target, Delta
  <2>3. CASE Log(g)
    <3>1. ~unlogged
      BY <2>3 DEF Log
    <3> QED BY <1>0, <2>3, <3>1, LogExplained
  <2>4. CASE Receive(g) \/ Refuse(g) \/ Begin(g) \/ DeliverFirst(g) \/ Deliver(g) \/ Answer(g)
    <3>1. pc[g] # "log" /\ pc'[g] # "log" /\ UNCHANGED <<logged, unlogged>>
      BY <2>4 DEF Receive, Refuse, Begin, DeliverFirst, Deliver, Answer, books, history
    <3> QED BY <1>0, <2>1, <2>2, <3>1, ExplainedKept
  <2> QED BY <1>1, <2>3, <2>4 DEF Calm
<1>2. ASSUME NEW g \in Handlers, Load(g) \/ Open(g) \/ Write(g) \/ Rename(g) \/ SaveFails(g)
      PROVE  Explained'
  <2>1. /\ pc[g] # "log" /\ pc'[g] # "log" /\ UNCHANGED <<data, opened, logged, unlogged>>
    BY <1>2 DEF Load, Open, Write, Rename, SaveFails, books, history
  <2>2. \A h \in Handlers \ {g} :
          pc'[h] = pc[h] /\ Target(h)' = Target(h) /\ Delta(h)' = Delta(h)
    BY <1>2, OthersKept DEF Step, Target, Delta
  <2> QED BY <1>0, <2>1, <2>2, ExplainedKept
<1>3. ASSUME NEW g \in Handlers, Store(g) PROVE Explained'
  BY <1>0, <1>3, StoreFacts, StoreExplained
<1>4. CASE Crash
  BY <1>4 DEF Crash
<1>5. CASE UNCHANGED <<data, disk, request, money, books, history>>
  <2>1. UNCHANGED <<data, opened, logged, unlogged, pc, job, me, phase>>
    BY <1>5 DEF books, history, request
  <2>2. \A h \in Handlers : Target(h)' = Target(h) /\ Delta(h)' = Delta(h)
    BY <2>1 DEF Target, Delta
  <2> QED BY <1>0, <2>1, <2>2, ExplainedKept
<1> QED BY <1>1, <1>2, <1>3, <1>4, <1>5, Steps

------------------------------------------------------------------------------
(* The theorems. *)

\* The inductive invariant.
IInv ==
    /\ TypeOK /\ Kinds /\ Numbered /\ AllBasic /\ Paying
    /\ Followed /\ Cloned /\ Owned /\ Explained

\* The portal begins with one user.
LEMMA FirstData ==
    /\ First \in Data /\ Basic(First) /\ OwnKeys(First) /\ First.seq = 1
    /\ DOMAIN First.users = {1} /\ First.users[1].balance = Opening
<1> DEFINE u == [name |-> CHOOSE n \in Names : TRUE, balance |-> Opening, on |-> TRUE,
                 group |-> None]
           us == [i \in {1} |-> u]
<1>1. u \in User /\ 1 \in Ids /\ u.balance = Opening
  BY PortalAssumption DEF User, Ids
<1>2. First = [Empty EXCEPT !.users = us, !.seq = 1]
  BY DEF First
<1> HIDE DEF u
<1>3. DOMAIN us = {1} /\ us[1] = u /\ us = [x \in DOMAIN us |-> us[x]]
  OBVIOUS
<1> HIDE DEF us
<1>4. us \in Table(Ids, User)
  BY <1>1, <1>3, TableIff
<1>5. First.users = us /\ First.seq = 1 /\ First.keys = Empty.keys /\ First \in Data
  BY <1>2, <1>4, EmptyData DEF Data
<1>6. Basic(First)
  BY <1>3, <1>5 DEF Basic
<1>7. OwnKeys(First)
  BY <1>5 DEF OwnKeys, Empty
<1> QED BY <1>1, <1>3, <1>5, <1>6, <1>7

\* The initial state satisfies the invariant.
LEMMA InitInv == Init => IInv
<1> SUFFICES ASSUME Init PROVE IInv
  OBVIOUS
<1>1. TypeOK
  <2>1. \A h \in Handlers : job[h] \in Jobs
    BY PortalAssumption DEF Init, Jobs
  <2>2. job \in [Handlers -> Jobs]
    BY <2>1 DEF Init
  <2>3. data \in Data /\ file \in Data
    BY FirstData DEF Init
  <2>4. new \in [Handlers -> Data]
    BY EmptyData DEF Init
  <2>5. opened \in [Ids -> Int] /\ logged \in [Ids -> Int]
    BY PortalAssumption DEF Init
  <2>6. me \in [Handlers -> [id : Ids \cup {0}, balance : Int, name : Names \cup {None}]]
    BY DEF Init, Nobody
  <2> QED BY <2>2, <2>3, <2>4, <2>5, <2>6 DEF Init, TypeOK
<1>2. \A h \in Handlers : pc[h] = "idle" /\ place[h] = "closed"
  BY DEF Init
<1>3. Copies \subseteq {First, Empty}
  BY DEF Init, Copies
<1>4. Kinds /\ Paying
  BY <1>2 DEF Kinds, Paying, PaidOf
<1>5. Numbered
  <2>1. Creators = {}
    BY <1>2 DEF Creators
  <2>2. IsFiniteSet(Creators) /\ Cardinality(Creators) = 0
    BY <2>1, FS_EmptySet
  <2>3. First.seq = 1 /\ Empty.seq = 0 /\ jobs = 0
    BY FirstData DEF Init, Empty
  <2> QED BY <1>3, <2>2, <2>3, PortalAssumption DEF Numbered
<1>6. AllBasic
  <2>1. Basic(Empty)
    BY DEF Basic, Empty
  <2> QED BY <1>3, <2>1, FirstData DEF AllBasic
<1>7. Followed
  <2>1. First # Torn /\ data = First /\ file = First
    BY FirstData, PortalAssumption DEF Init
  <2> QED BY <1>2, <2>1 DEF Followed, OneChange, Updating
<1>8. Cloned
  BY <1>2 DEF Cloned, Updating
<1>9. Owned
  BY <1>2, FirstData DEF Owned, Init
<1>10. Explained
  <2>1. \A i : Plus(i) = {} /\ Minus(i) = {}
    BY <1>2 DEF Plus, Minus
  <2>2. \A i : IsFiniteSet(Plus(i)) /\ IsFiniteSet(Minus(i)) /\ Net(Plus(i), Minus(i)) = 0
    BY <2>1, FS_EmptySet DEF Net
  <2>3. /\ DOMAIN data.users = {1} /\ data.users[1].balance = Opening /\ 1 \in Ids
        /\ opened = [i \in Ids |-> IF i = 1 THEN Opening ELSE 0] /\ logged = [i \in Ids |-> 0]
    BY FirstData, PortalAssumption DEF Init, Ids
  <2>4. Opening = opened[1] + logged[1] + 0
    BY <2>3, PortalAssumption
  <2> QED BY <1>2, <2>2, <2>3, <2>4 DEF Explained
<1> QED BY <1>1, <1>4, <1>5, <1>6, <1>7, <1>8, <1>9, <1>10 DEF IInv

\* Every step preserves the invariant.
LEMMA Inductive == IInv /\ [Next]_vars => IInv'
BY TypeStep, KindsStep, NumberedStep, AllBasicStep, PayingStep, FollowedStep, ClonedStep,
   OwnedStep, ExplainedStep DEF IInv

\* It holds throughout.
LEMMA Invariance == Spec => []IInv
<1>1. IInv /\ [Next]_vars => IInv'
  BY Inductive
<1> QED BY <1>1, InitInv, PTL DEF Spec

\* The data, its files and the requests hold what their types say; in particular
\* the id counter never runs past the users there is room for.
THEOREM TypeCorrect == Spec => []TypeOK
<1>1. IInv => TypeOK
  BY DEF IInv
<1> QED BY <1>1, Invariance, PTL

\* Whatever changes overlap, fail or are cut off by a crash: in memory and in the
\* file no two users share a name and no id is beyond the counter; and, as long as
\* no two changes overlapped, no key whose card was compared with its user is bound
\* to the card of another.
THEOREM SnapshotsAreSound == Spec => []SnapshotsSound
<1>1. IInv => SnapshotsSound
  <2> SUFFICES ASSUME IInv PROVE SnapshotsSound
    OBVIOUS
  <2> USE DEF IInv
  <2>1. Basic(data) /\ (file # Torn => Basic(file))
    <3>1. data \in Copies
      BY DEF Copies
    <3>2. file # Torn => file \in Copies
      BY PortalAssumption DEF Copies, TypeOK
    <3> QED BY <3>1, <3>2 DEF AllBasic
  <2>2. ~overlapped => OwnKeys(data) /\ OwnKeys(file)
    BY FileOwned DEF Owned
  <2>3. Sound(data)
    BY <2>1, <2>2 DEF Sound, Basic, OwnKeys
  <2>4. file # Torn => Sound(file)
    BY <2>1, <2>2 DEF Sound, Basic, OwnKeys
  <2> QED BY <2>3, <2>4 DEF SnapshotsSound
<1> QED BY <1>1, Invariance, PTL

\* A purchase at its end has been charged once and delivered, or neither, but for
\* the two exceptions the code leaves open: stacked time whose charge failed, and
\* a refund that failed.
THEOREM PurchasesBalanced == Spec => []ChargedIffDelivered
<1>1. IInv => ChargedIffDelivered
  BY DEF IInv, Paying, PaidOf, ChargedIffDelivered
<1> QED BY <1>1, Invariance, PTL

\* As long as no two changes overlapped and none went unlogged, a balance is what
\* its user was created with and the sum of the log.
THEOREM BalancesExplained == Spec => []BalanceExplained
<1>1. IInv => BalanceExplained
  <2> SUFFICES ASSUME IInv, ~overlapped, ~unlogged, NEW i \in DOMAIN data.users,
                      \A h \in Handlers : pc[h] # "log"
               PROVE  data.users[i].balance = opened[i] + logged[i]
    BY DEF BalanceExplained
  <2>1. data.users[i].balance = opened[i] + logged[i] + Net(Plus(i), Minus(i))
    BY DEF IInv, Explained
  <2>2. Plus(i) = {} /\ Minus(i) = {}
    BY DEF Plus, Minus
  <2>3. Net(Plus(i), Minus(i)) = 0
    BY <2>2, FS_EmptySet DEF Net
  <2>4. i \in Ids
    BY DataFields DEF IInv, TypeOK
  <2>5. opened[i] \in Int /\ logged[i] \in Int
    BY <2>4 DEF IInv, TypeOK
  <2> QED BY <2>1, <2>3, <2>5
<1> QED BY <1>1, Invariance, PTL

\* As long as no two changes overlapped, portal.json is readable and is what
\* memory holds unless a save is between its rename and its store, whatever
\* writes fail and whenever the process ends.
THEOREM FileIsFollowed == Spec => []FileFollowed
<1>1. IInv => FileFollowed
  BY DEF IInv, Followed, OneChange, FileFollowed
<1> QED BY <1>1, Invariance, PTL
=============================================================================
