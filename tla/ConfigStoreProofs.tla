------------------------- MODULE ConfigStoreProofs -------------------------
(***************************************************************************)
(* Proofs about config.json and its copies, for any number of panel        *)
(* requests at a time, any keys, settings, crashes and failed writes; and  *)
(* about the component that reads the proxy section of it, EgressProxies,  *)
(* for any accounts, nodes, requests and sections.                         *)
(***************************************************************************)
EXTENDS ConfigStore, EgressProxies, FiniteSetTheorems, FunctionTheorems,
        SequenceTheorems, WellFoundedInduction, TLAPS

------------------------------------------------------------------------------
(* The edits keep a configuration a configuration. *)

\* What a job carries, by its kind.
LEMMA JobFields ==
    ASSUME NEW j \in Jobs
    PROVE  /\ j.op \in {"settings", "proxy"} => j.v \in Values
           /\ j.op = "add" => j.key \in KeyNames
           /\ j.op = "import" => j.keys[1] \in KeyNames /\ j.keys[2] \in KeyNames
           /\ j.op \in {"patchKey", "delete"} => j.i \in 1..(Len(FirstKeys) + 1)
           /\ j.op = "import" => j.keys \in {<<a, b>> : a, b \in KeyNames}
<1>1. CASE j \in [op : {"settings", "proxy"}, v : Values]
  BY <1>1
<1>2. CASE j \in [op : {"reject"}]
  BY <1>2
<1>3. CASE j \in [op : {"add"}, key : KeyNames]
  BY <1>3
<1>4. CASE j \in [op : {"import"}, keys : {<<a, b>> : a, b \in KeyNames}]
  BY <1>4
<1>5. CASE j \in [op : {"patchKey", "delete"}, i : 1..(Len(FirstKeys) + 1)]
  BY <1>5
<1>6. CASE j \in [op : {"batch"}, is : {1..(Len(FirstKeys) + 1)}]
  BY <1>6
<1> QED BY <1>1, <1>2, <1>3, <1>4, <1>5, <1>6 DEF Jobs

\* Taking a key out leaves a list of keys.
LEMMA WithoutType ==
    ASSUME NEW c \in Config, NEW i \in 1..Len(c.keys)
    PROVE  Without(c, i) \in Config
<1> DEFINE k == c.keys
<1>1. k \in Seq(Entry) /\ Len(k) \in Nat /\ \A n \in 1..Len(k) : k[n] \in Entry
  BY DEF Config
<1>2. SubSeq(k, 1, i - 1) \in Seq(Entry)
  <2>1. 1 \in Int /\ i - 1 \in Int /\ \A n \in 1..(i - 1) : k[n] \in Entry
    BY <1>1
  <2> HIDE DEF k
  <2> QED BY <2>1, SubSeqProperties
<1>3. SubSeq(k, i + 1, Len(k)) \in Seq(Entry)
  <2>1. i + 1 \in Int /\ Len(k) \in Int /\ \A n \in (i + 1)..Len(k) : k[n] \in Entry
    BY <1>1
  <2> HIDE DEF k
  <2> QED BY <2>1, SubSeqProperties
<1>4. SubSeq(k, 1, i - 1) \o SubSeq(k, i + 1, Len(k)) \in Seq(Entry)
  BY <1>2, <1>3, ConcatProperties
<1> QED BY <1>4 DEF Without, Config

\* Every edit the panel makes gives a configuration.
LEMMA EditedType ==
    ASSUME NEW c \in Config, NEW j \in Jobs, ~Refused(j, c),
           j.op \in {"settings", "proxy", "add", "patchKey", "batch", "import"}
    PROVE  Edited(j, c) \in Config
<1> DEFINE k == c.keys
<1>0. k \in Seq(Entry) /\ Len(k) \in Nat /\ \A n \in 1..Len(k) : k[n] \in Entry
  BY DEF Config
<1>1. CASE j.op = "settings"
  BY <1>1, JobFields DEF Edited, SettingsPatched, Config
<1>2. CASE j.op = "proxy"
  <2>1. [on |-> TRUE, nodes |-> j.v] \in [on : BOOLEAN, nodes : Values]
    BY <1>2, JobFields
  <2>2. Edited(j, c) = [c EXCEPT !.proxy = [on |-> TRUE, nodes |-> j.v]]
    BY <1>2 DEF Edited, ProxyPatched
  <2> QED BY <2>1, <2>2 DEF Config
<1>3. CASE j.op = "add"
  <2>1. Fresh(j.key) \in Entry
    BY <1>3, JobFields DEF Fresh, Entry
  <2>2. Append(k, Fresh(j.key)) \in Seq(Entry)
    BY <1>0, <2>1
  <2>3. Edited(j, c) = [c EXCEPT !.keys = Append(@, Fresh(j.key))]
    BY <1>3 DEF Edited, KeyAdded
  <2> QED BY <2>2, <2>3 DEF Config
<1>4. CASE j.op = "patchKey"
  <2>1. j.i \in 1..Len(k)
    BY <1>0, <1>4, JobFields DEF Refused
  <2> DEFINE patched == [k EXCEPT ![j.i].on = ~@]
  <2>2. patched \in Seq(Entry)
    <3>1. [k[j.i] EXCEPT !.on = ~@] \in Entry
      BY <1>0, <2>1 DEF Entry
    <3> QED BY <1>0, <2>1, <3>1
  <2>3. Edited(j, c) = [c EXCEPT !.keys = patched]
    BY <1>4 DEF Edited, KeyPatched, Config
  <2> HIDE DEF patched
  <2> QED BY <2>2, <2>3 DEF Config
<1>5. CASE j.op = "batch"
  <2> DEFINE s == [i \in DOMAIN k |-> IF i \in j.is THEN [k[i] EXCEPT !.on = FALSE]
                                                    ELSE k[i]]
  <2>0. DOMAIN k = 1..Len(k)
    BY <1>0
  <2>1. \A i \in 1..Len(k) : s[i] \in Entry
    <3> TAKE i \in 1..Len(k)
    <3>1. k[i] \in Entry /\ [k[i] EXCEPT !.on = FALSE] \in Entry
      BY <1>0 DEF Entry
    <3>2. s[i] = k[i] \/ s[i] = [k[i] EXCEPT !.on = FALSE]
      BY <2>0
    <3> QED BY <3>1, <3>2
  <2>2. s \in Seq(Entry)
    <3>1. s \in [1..Len(k) -> Entry]
      <4> DOMAIN s = 1..Len(k) /\ s = [i \in DOMAIN s |-> s[i]]
        BY <2>0
      <4> HIDE DEF s
      <4> QED BY <2>1
    <3> HIDE DEF s
    <3> QED BY <1>0, <3>1, SeqDef
  <2>3. Edited(j, c) = [c EXCEPT !.keys = s]
    BY <1>5 DEF Edited, KeysPatched, Config
  <2> HIDE DEF s
  <2> QED BY <2>2, <2>3 DEF Config
<1>6. CASE j.op = "import"
  <2> DEFINE kept(x) == IF x \in Names(c) THEN <<>> ELSE <<Fresh(x)>>
  <2>1. kept(j.keys[1]) \in Seq(Entry) /\ kept(j.keys[2]) \in Seq(Entry)
    <3>1. \A x \in KeyNames : Fresh(x) \in Entry
      BY DEF Fresh, Entry
    <3> QED BY <1>6, <3>1, JobFields
  <2>2. k \o kept(j.keys[1]) \o kept(j.keys[2]) \in Seq(Entry)
    <3> HIDE DEF kept
    <3> QED BY <1>0, <2>1, ConcatProperties
  <2>3. Edited(j, c) = [c EXCEPT !.keys = @ \o kept(j.keys[1]) \o kept(j.keys[2])]
    BY <1>6 DEF Edited, KeysImported
  <2> HIDE DEF kept
  <2> QED BY <2>2, <2>3 DEF Config
<1> QED BY <1>1, <1>2, <1>3, <1>4, <1>5, <1>6

\* The configuration the gateway starts with is one.
LEMMA StartType == Start \in Config
<1> DEFINE ks == [i \in DOMAIN FirstKeys |-> Fresh(FirstKeys[i])]
<1>1. Len(FirstKeys) \in Nat /\ DOMAIN FirstKeys = 1..Len(FirstKeys)
      /\ \A i \in 1..Len(FirstKeys) : FirstKeys[i] \in KeyNames
  BY ConfigAssumption
<1>2. ks \in [1..Len(FirstKeys) -> Entry]
  BY <1>1 DEF Fresh, Entry
<1>3. ks \in Seq(Entry)
  <2> HIDE DEF ks
  <2> QED BY <1>1, <1>2, SeqDef
<1>4. (CHOOSE v \in Values : TRUE) \in Values
  BY ConfigAssumption
<1> QED BY <1>3, <1>4 DEF Start, Config

------------------------------------------------------------------------------
(* Types. *)

\* Only a deletion comes to the place between its two readings of the list.
Deleting == \A h \in Handlers : pc[h] = "remove" => job[h].op = "delete"

\* A copy that is not torn or missing is a configuration, after every step.
LEMMA TypeStep == ASSUME TypeOK, Deleting, [Next]_vars PROVE TypeOK'
<1> USE DEF TypeOK
<1>0. \A c \in Config : c.proxy \in [on : BOOLEAN, nodes : Values]
  BY DEF Config
<1>1. ASSUME NEW h \in Handlers, Receive(h) PROVE TypeOK'
  BY <1>1 DEF Receive, watch
<1>2. ASSUME NEW h \in Handlers, Refuse(h) PROVE TypeOK'
  BY <1>2 DEF Refuse, copies, watch, history
<1>3. ASSUME NEW h \in Handlers, Publish(h) PROVE TypeOK'
  <2>1. Edited(job[h], memory) \in Config
    <3>1. job[h] \in Jobs /\ ~Refused(job[h], memory)
          /\ job[h].op \in {"settings", "proxy", "add", "patchKey", "batch", "import"}
      BY <1>3 DEF Publish
    <3> QED BY <3>1, EditedType
  <2>2. /\ memory' = Edited(job[h], memory)
        /\ snap' = [snap EXCEPT ![h] = memory'] /\ pc' = [pc EXCEPT ![h] = "open"]
        /\ UNCHANGED <<lock, file, tmp, applied, events, watch, job, place, down, history>>
    BY <1>3 DEF Publish
  <2> QED BY <2>1, <2>2 DEF watch, history
<1>4. ASSUME NEW h \in Handlers, RejectPatch(h) PROVE TypeOK'
  <2>1. [memory EXCEPT !.proxy.on = ~@] \in Config
    BY DEF Config
  <2> QED BY <1>4, <2>1 DEF RejectPatch, watch
<1>5. ASSUME NEW h \in Handlers, BeginImport(h) PROVE TypeOK'
  <2>1. Edited(job[h], memory) \in Config
    <3>1. job[h] \in Jobs /\ ~Refused(job[h], memory)
          /\ job[h].op \in {"settings", "proxy", "add", "patchKey", "batch", "import"}
      BY <1>5 DEF BeginImport
    <3> QED BY <3>1, EditedType
  <2> QED BY <1>5, <2>1 DEF BeginImport, copies, watch, history
<1>6. ASSUME NEW h \in Handlers, ReadDeleted(h) PROVE TypeOK'
  BY <1>6 DEF ReadDeleted, copies, watch, history
<1>7. ASSUME NEW h \in Handlers, Remove(h) PROVE TypeOK'
  <2>1. job[h].i \in 1..Len(memory.keys)
    <3>1. job[h] \in Jobs /\ job[h].op = "delete" /\ job[h].i <= Len(memory.keys)
      BY <1>7 DEF Remove, Deleting
    <3>2. memory.keys \in Seq(Entry)
      BY DEF Config
    <3> QED BY <3>1, <3>2, JobFields, ConfigAssumption
  <2>2. Without(memory, job[h].i) \in Config
    BY <2>1, WithoutType
  <2> QED BY <1>7, <2>2 DEF Remove, copies, watch, history
<1>8. ASSUME NEW h \in Handlers, StoreDeleted(h) PROVE TypeOK'
  BY <1>8 DEF StoreDeleted, watch
<1>9. ASSUME NEW h \in Handlers, Open(h) PROVE TypeOK'
  BY <1>9 DEF Open, copies, watch
<1>10. ASSUME NEW h \in Handlers, Write(h) PROVE TypeOK'
  BY <1>10 DEF Write, watch, history
<1>11. ASSUME NEW h \in Handlers, Rename(h) PROVE TypeOK'
  BY <1>11 DEF Rename, Moved, watch, history
<1>12. ASSUME NEW h \in Handlers, SaveFails(h) PROVE TypeOK'
  BY <1>12 DEF SaveFails, copies, watch
<1>13. ASSUME NEW h \in Handlers, Answer(h) PROVE TypeOK'
  BY <1>13 DEF Answer, copies, watch, history
<1>14. ASSUME NEW h \in Handlers, ReplacePool(h) PROVE TypeOK'
  BY <1>0, <1>14 DEF ReplacePool, watch
<1>15. ASSUME NEW h \in Handlers, PopAdded(h) PROVE TypeOK'
  <2>1. memory.keys # <<>> => Without(memory, Len(memory.keys)) \in Config
    <3> HAVE memory.keys # <<>>
    <3>1. memory.keys \in Seq(Entry)
      BY DEF Config
    <3>2. Len(memory.keys) \in 1..Len(memory.keys)
      BY <3>1
    <3> QED BY <3>2, WithoutType
  <2> QED BY <1>15, <2>1 DEF PopAdded, watch, history
<1>16. ASSUME NEW h \in Handlers, EndImport(h) PROVE TypeOK'
  BY <1>16 DEF EndImport, watch, history
<1>17. CASE WatchLoad
  BY <1>17 DEF WatchLoad, copies, process, watch, history
<1>18. CASE WatchApply
  BY <1>0, <1>18 DEF WatchApply, disk, process, history
<1>19. CASE WatchStore
  BY <1>19 DEF WatchStore, disk, process, history
<1>20. CASE Restart /\ faults' \in Nat
  BY <1>0, <1>20 DEF Restart
<1>21. CASE Crash \/ Abort
  BY <1>20, <1>21 DEF Crash, Abort
<1>22. CASE UNCHANGED vars
  BY <1>22 DEF vars
<1> QED BY <1>1, <1>2, <1>3, <1>4, <1>5, <1>6, <1>7, <1>8, <1>9, <1>10, <1>11, <1>12, <1>13,
           <1>14, <1>15, <1>16, <1>17, <1>18, <1>19, <1>21, <1>22 DEF Next, HandlerStep

------------------------------------------------------------------------------
(* The inductive invariant. *)

Writing(h) == pc[h] \in {"open", "write", "rename"}

\* An import keeps the write lock until it ends.
LockHeld ==
    \A h \in Handlers :
        job[h].op = "import" /\ (Writing(h) \/ pc[h] \in {"saved", "failed"}) => lock = {h}

\* A failed save leaves its mark; only a handler that writes has an inode open.
Noted ==
    \A h \in Handlers : /\ pc[h] = "failed" => failed
                        /\ place[h] # "closed" => pc[h] = "write"

\* Without overlapping saves the temporary file belongs to the one that saves.
Alone ==
    ~overlapped =>
        /\ file # Torn /\ ~down
        /\ \A g, h \in Handlers : Saving(g) /\ Saving(h) => g = h
        /\ \A h \in Handlers : /\ pc[h] = "write" => place[h] = "tmp"
                               /\ pc[h] = "rename" => tmp = snap[h]

\* A torn file has a handler that is going to write it, unless a save failed or
\* the process is gone.
TornIsPending ==
    ~failed /\ ~down =>
        /\ tmp = Torn /\ (\E h \in Handlers : Saving(h))
             => \E g \in Handlers : pc[g] = "write" /\ place[g] = "tmp"
        /\ file = Torn => \E g \in Handlers : pc[g] = "write" /\ place[g] = "file"

\* The file is going to be read again: an event waits or a save is under way.
Pending == events > 0 \/ \E h \in Handlers : Writing(h)

\* When nothing is going to be read again, the watcher has read the last file,
\* and what it has done of its two steps is in the pool and in the memory.  An
\* import that was saved and still keeps the lock holds the watcher back.
Converging ==
    ~down /\ ~failed /\ ~overtaken /\ ~Pending =>
        /\ watcher = "idle" =>
             /\ memory = file /\ applied = file.proxy
             /\ \A h \in Handlers : ~(pc[h] = "saved" /\ job[h].op = "import")
        /\ watcher = "apply" => loaded = file
        /\ watcher = "store" => loaded = file /\ applied = file.proxy

IInv == TypeOK /\ Deleting /\ LockHeld /\ Noted /\ Alone /\ TornIsPending /\ Converging

\* At start everything agrees and nobody writes.
LEMMA InitInv == Init => IInv
<1> SUFFICES ASSUME Init PROVE IInv
  OBVIOUS
<1>1. TypeOK
  <2>1. Start.proxy \in [on : BOOLEAN, nodes : Values] /\ [op |-> "reject"] \in Jobs
    BY StartType DEF Config, Jobs
  <2> QED BY <2>1, StartType DEF Init, TypeOK
<1>2. Start # Torn
  BY StartType, ConfigAssumption
<1>3. Deleting /\ LockHeld /\ Noted /\ Alone /\ TornIsPending
  BY <1>2 DEF Init, Deleting, LockHeld, Noted, Alone, TornIsPending, Writing, Saving
<1>4. Converging
  BY DEF Init, Converging
<1> QED BY <1>1, <1>3, <1>4 DEF IInv

\* The way to the second reading is by the first.
LEMMA DeletingStep == ASSUME TypeOK, Deleting, [Next]_vars PROVE Deleting'
<1> USE DEF TypeOK, Deleting
<1>1. ASSUME NEW h \in Handlers, Receive(h) \/ HandlerStep(h) PROVE Deleting'
  <2>1. CASE Receive(h)
    BY <2>1 DEF Receive
  <2>2. CASE Refuse(h) \/ Publish(h) \/ RejectPatch(h) \/ BeginImport(h) \/ ReadDeleted(h)
    BY <2>2 DEF Refuse, Publish, RejectPatch, BeginImport, ReadDeleted
  <2>3. CASE Remove(h) \/ StoreDeleted(h) \/ Open(h) \/ Write(h) \/ Rename(h) \/ SaveFails(h)
    BY <2>3 DEF Remove, StoreDeleted, Open, Write, Rename, SaveFails
  <2>4. CASE Answer(h) \/ ReplacePool(h) \/ PopAdded(h) \/ EndImport(h)
    BY <2>4 DEF Answer, ReplacePool, PopAdded, EndImport
  <2> QED BY <1>1, <2>1, <2>2, <2>3, <2>4 DEF HandlerStep
<1>2. CASE WatchLoad \/ WatchApply \/ WatchStore \/ UNCHANGED vars
  BY <1>2 DEF WatchLoad, WatchApply, WatchStore, process, vars
<1>3. CASE Crash \/ Abort
  BY <1>3 DEF Crash, Abort, Restart
<1> QED BY <1>1, <1>2, <1>3 DEF Next

\* Nobody takes the lock from an import: who needs it waits for it.
LEMMA LockStep == ASSUME TypeOK, Deleting, LockHeld, [Next]_vars PROVE LockHeld'
<1> USE DEF TypeOK, LockHeld, Writing
<1>1. ASSUME NEW h \in Handlers, Receive(h) \/ HandlerStep(h) PROVE LockHeld'
  <2>1. CASE Receive(h)
    BY <2>1 DEF Receive
  <2>2. CASE Refuse(h) \/ Publish(h) \/ RejectPatch(h) \/ BeginImport(h) \/ ReadDeleted(h)
    BY <2>2 DEF Refuse, Publish, RejectPatch, BeginImport, ReadDeleted, Unlocked
  <2>3. CASE Remove(h) \/ StoreDeleted(h)
    BY <2>3 DEF Remove, StoreDeleted, Deleting, Unlocked
  <2>4. CASE Open(h) \/ Write(h)
    BY <2>4 DEF Open, Write
  <2>5. CASE Rename(h) \/ SaveFails(h)
    BY <2>5 DEF Rename, SaveFails
  <2>6. CASE Answer(h) \/ ReplacePool(h) \/ PopAdded(h)
    BY <2>6 DEF Answer, ReplacePool, PopAdded
  <2>7. CASE EndImport(h)
    BY <2>7 DEF EndImport
  <2> QED BY <1>1, <2>1, <2>2, <2>3, <2>4, <2>5, <2>6, <2>7 DEF HandlerStep
<1>2. CASE WatchLoad \/ WatchApply \/ WatchStore \/ UNCHANGED vars
  BY <1>2 DEF WatchLoad, WatchApply, WatchStore, process, vars
<1>3. CASE Crash \/ Abort
  BY <1>3 DEF Crash, Abort, Restart
<1> QED BY <1>1, <1>2, <1>3 DEF Next

\* A handler closes its inode when it is done with it.
LEMMA NotedStep == ASSUME TypeOK, Noted, [Next]_vars PROVE Noted'
<1> USE DEF TypeOK, Noted
<1>1. ASSUME NEW h \in Handlers, Receive(h) \/ HandlerStep(h) PROVE Noted'
  <2>1. CASE Receive(h)
    BY <2>1 DEF Receive
  <2>2. CASE Refuse(h) \/ Publish(h) \/ RejectPatch(h) \/ BeginImport(h) \/ ReadDeleted(h)
    BY <2>2 DEF Refuse, Publish, RejectPatch, BeginImport, ReadDeleted, history
  <2>3. CASE Remove(h) \/ StoreDeleted(h) \/ Open(h) \/ Write(h)
    BY <2>3 DEF Remove, StoreDeleted, Open, Write, history
  <2>4. CASE Rename(h) \/ SaveFails(h)
    BY <2>4 DEF Rename, SaveFails, Moved, history
  <2>5. CASE Answer(h) \/ ReplacePool(h) \/ PopAdded(h) \/ EndImport(h)
    BY <2>5 DEF Answer, ReplacePool, PopAdded, EndImport, history
  <2> QED BY <1>1, <2>1, <2>2, <2>3, <2>4, <2>5 DEF HandlerStep
<1>2. CASE WatchLoad \/ WatchApply \/ WatchStore \/ UNCHANGED vars
  BY <1>2 DEF WatchLoad, WatchApply, WatchStore, process, vars, disk, history
<1>3. CASE Crash \/ Abort
  BY <1>3 DEF Crash, Abort, Restart
<1> QED BY <1>1, <1>2, <1>3 DEF Next

\* One save at a time: the inode it opened is still the temporary file when it
\* writes, and what it renames is what it wrote.
LEMMA AloneStep == ASSUME TypeOK, Noted, Alone, [Next]_vars PROVE Alone'
<1> USE DEF TypeOK, Alone, Saving
<1>0. \A h \in Handlers : snap[h] # Torn /\ snap[h] # Absent
  BY ConfigAssumption
<1>1. ASSUME NEW h \in Handlers, Receive(h) \/ HandlerStep(h) PROVE Alone'
  <2>1. CASE Receive(h)
    BY <2>1 DEF Receive
  <2>2. CASE Refuse(h) \/ Publish(h) \/ RejectPatch(h) \/ BeginImport(h) \/ ReadDeleted(h)
    BY <2>2 DEF Refuse, Publish, RejectPatch, BeginImport, ReadDeleted, history, copies
  <2>3. CASE Remove(h) \/ StoreDeleted(h)
    BY <2>3 DEF Remove, StoreDeleted, history, copies
  <2>4. CASE Open(h)
    BY <2>4 DEF Open, copies
  <2>5. CASE Write(h)
    BY <2>5 DEF Write, history
  <2>6. CASE Rename(h)
    BY <1>0, <2>6 DEF Rename, Moved, history
  <2>7. CASE SaveFails(h)
    BY <2>7 DEF SaveFails, copies
  <2>8. CASE Answer(h) \/ ReplacePool(h) \/ PopAdded(h) \/ EndImport(h)
    BY <2>8 DEF Answer, ReplacePool, PopAdded, EndImport, history, copies
  <2> QED BY <1>1, <2>1, <2>2, <2>3, <2>4, <2>5, <2>6, <2>7, <2>8 DEF HandlerStep
<1>2. CASE WatchLoad \/ WatchApply \/ WatchStore \/ UNCHANGED vars
  BY <1>2 DEF WatchLoad, WatchApply, WatchStore, process, vars, disk, history, copies
<1>3. CASE Crash \/ Abort
  BY <1>3 DEF Crash, Abort, Restart
<1> QED BY <1>1, <1>2, <1>3 DEF Next

\* Whoever truncated the temporary file writes it; a rename in between makes the
\* inode it has open the file.
LEMMA TornStep ==
    ASSUME TypeOK, Noted, TornIsPending, [Next]_vars PROVE TornIsPending'
<1> USE DEF TypeOK, Noted, TornIsPending, Saving
<1>0. \A h \in Handlers : snap[h] # Torn
  BY ConfigAssumption
<1>1. ASSUME NEW h \in Handlers, Receive(h) \/ HandlerStep(h) PROVE TornIsPending'
  <2>1. CASE Receive(h)
    BY <2>1 DEF Receive
  <2>2. CASE Refuse(h) \/ Publish(h) \/ RejectPatch(h) \/ BeginImport(h) \/ ReadDeleted(h)
    BY <2>2 DEF Refuse, Publish, RejectPatch, BeginImport, ReadDeleted, history, copies
  <2>3. CASE Remove(h) \/ StoreDeleted(h)
    BY <2>3 DEF Remove, StoreDeleted, history, copies
  <2>4. CASE Open(h)
    <3>1. pc'[h] = "write" /\ place'[h] = "tmp" /\ UNCHANGED <<file, failed, down>>
          /\ \A g \in Handlers \ {h} : pc'[g] = pc[g] /\ place'[g] = place[g]
      BY <2>4 DEF Open, copies
    <3>2. pc[h] = "open" /\ place[h] = "closed"
      BY <2>4 DEF Open
    <3> QED BY <3>1, <3>2
  <2>5. CASE Write(h)
    <3>1. pc'[h] = "rename" /\ UNCHANGED <<failed, down>> /\ pc[h] = "write"
          /\ \A g \in Handlers \ {h} : pc'[g] = pc[g] /\ place'[g] = place[g]
      BY <2>5 DEF Write, history
    <3>2. /\ tmp' = IF place[h] = "tmp" THEN snap[h] ELSE tmp
          /\ file' = IF place[h] = "file" THEN snap[h] ELSE file
      BY <2>5 DEF Write
    <3> QED BY <1>0, <3>1, <3>2
  <2>6. CASE Rename(h)
    <3>1. file' = tmp /\ tmp' = Absent /\ Absent # Torn
      BY <2>6, ConfigAssumption DEF Rename
    <3>2. \A g \in Handlers : place[g] = "tmp" => place'[g] = "file" /\ pc'[g] = pc[g]
      BY <2>6 DEF Rename, Moved
    <3>3. UNCHANGED <<failed, down>> /\ Saving(h)
      BY <2>6 DEF Rename, history
    <3> QED BY <3>1, <3>2, <3>3
  <2>7. CASE SaveFails(h)
    BY <2>7 DEF SaveFails
  <2>8. CASE Answer(h) \/ ReplacePool(h) \/ PopAdded(h) \/ EndImport(h)
    BY <2>8 DEF Answer, ReplacePool, PopAdded, EndImport, history, copies
  <2> QED BY <1>1, <2>1, <2>2, <2>3, <2>4, <2>5, <2>6, <2>7, <2>8 DEF HandlerStep
<1>2. CASE WatchLoad \/ WatchApply \/ WatchStore \/ UNCHANGED vars
  BY <1>2 DEF WatchLoad, WatchApply, WatchStore, process, vars, disk, history, copies
<1>3. CASE Crash \/ Abort
  BY <1>3 DEF Crash, Abort, Restart
<1> QED BY <1>1, <1>2, <1>3 DEF Next

\* A new file is announced, so nothing is quiet before the watcher has read it;
\* a step that changes the memory or the pool outside the watcher is followed by
\* a save, finds its own file in place, holds the watcher back by the lock, or
\* is noted as failed or overtaken.
LEMMA ConvergingStep == ASSUME IInv, [Next]_vars PROVE Converging'
<1>0. TypeOK /\ LockHeld /\ Noted /\ TornIsPending /\ Converging
  BY DEF IInv
<1> USE <1>0 DEF TypeOK, Converging, Pending, Writing
<1>1. ASSUME NEW h \in Handlers, Receive(h) \/ HandlerStep(h) PROVE Converging'
  <2>0. \A g \in Handlers \ {h} : pc'[g] = pc[g]
    BY <1>1 DEF Receive, HandlerStep, Refuse, Publish, RejectPatch, BeginImport, ReadDeleted,
                Remove, StoreDeleted, Open, Write, Rename, SaveFails, Answer, ReplacePool,
                PopAdded, EndImport
  <2>1. CASE Receive(h)
    BY <2>1 DEF Receive, watch
  <2>2. CASE Refuse(h)
    BY <2>2 DEF Refuse, history, copies, watch
  <2>3. CASE Publish(h) \/ BeginImport(h) \/ Remove(h) \/ Open(h) \/ Write(h)
    <3>1. pc'[h] \in {"open", "write", "rename"}
      BY <2>3 DEF Publish, BeginImport, Remove, Open, Write
    <3> QED BY <3>1
  <2>4. CASE RejectPatch(h) \/ SaveFails(h)
    BY <2>4 DEF RejectPatch, SaveFails
  <2>5. CASE ReadDeleted(h)
    BY <2>5 DEF ReadDeleted, history, copies, watch
  <2>6. CASE Rename(h)
    BY <2>6 DEF Rename
  <2>7. CASE StoreDeleted(h)
    BY <2>7 DEF StoreDeleted, watch
  <2>8. CASE Answer(h)
    BY <2>8 DEF Answer, history, copies, watch, Noted
  <2>9. CASE ReplacePool(h)
    BY <2>9 DEF ReplacePool, watch
  <2>10. CASE PopAdded(h)
    BY <2>10 DEF PopAdded, Noted, history
  <2>11. CASE EndImport(h)
    <3>1. CASE pc[h] = "failed"
      BY <2>11, <3>1 DEF EndImport, Noted, history
    <3>2. CASE pc[h] = "saved"
      BY <2>11, <3>2 DEF EndImport, history, watch
    <3> QED BY <2>11, <3>1, <3>2 DEF EndImport
  <2> QED BY <1>1, <2>1, <2>2, <2>3, <2>4, <2>5, <2>6, <2>7, <2>8, <2>9, <2>10, <2>11
          DEF HandlerStep
<1>2. CASE WatchLoad
  BY <1>2 DEF WatchLoad, TornIsPending, history, copies, process, watch
<1>3. CASE WatchApply
  BY <1>3 DEF WatchApply, disk, process, history
<1>4. CASE WatchStore
  BY <1>4 DEF WatchStore, disk, process, history, LockHeld, Unlocked
<1>5. CASE Crash \/ Abort
  BY <1>5 DEF Crash, Abort, Restart
<1>6. CASE UNCHANGED vars
  BY <1>6 DEF vars
<1> QED BY <1>1, <1>2, <1>3, <1>4, <1>5, <1>6 DEF Next

\* The invariant holds in every state.
LEMMA Inductive == Spec => []IInv
<1>1. IInv /\ [Next]_vars => IInv'
  BY TypeStep, DeletingStep, LockStep, NotedStep, AloneStep, TornStep, ConvergingStep
     DEF IInv
<1> QED BY <1>1, InitInv, PTL DEF Spec

------------------------------------------------------------------------------
(* The theorems. *)

\* Memory, file and pool hold configurations: no edit, import, deletion or
\* rollback makes anything else of them.
THEOREM TypeCorrect == Spec => []TypeOK
<1>1. IInv => TypeOK
  BY DEF IInv
<1> QED BY <1>1, Inductive, PTL

\* atomic_write keeps config.json whole through crashes and failed writes, for
\* any number of handlers, as long as no two saves overlap.
THEOREM WholeUnlessOverlapped == Spec => []TornOnlyByOverlap
<1>1. IInv => TornOnlyByOverlap
  BY DEF IInv, Alone, TornOnlyByOverlap
<1> QED BY <1>1, Inductive, PTL

\* However edits, saves and reloads interleave, when all is quiet the three
\* copies agree, but for a failed save or a handler overtaken in its last step.
THEOREM EditsDoConverge == Spec => []EditsConverge
<1>1. IInv => EditsConverge
  BY DEF IInv, Converging, EditsConverge, Settled, Pending, Writing, TypeOK
<1> QED BY <1>1, Inductive, PTL

------------------------------------------------------------------------------
(* What pick returns. *)

\* A set of natural numbers that is not empty has a least element.
LEMMA LeastNat ==
    ASSUME NEW T \in SUBSET Nat, T # {}
    PROVE  \E x \in T : \A y \in T : x <= y
<1>1. IsWellFoundedOn(OpToRel(<, Nat), Nat)
  BY NatLessThanWellFounded
<1>2. PICK x \in T : \A y \in T : ~ (<<y, x>> \in OpToRel(<, Nat))
  BY <1>1, WFMin
<1>3. \A y \in T : ~ (y < x)
  <2> SUFFICES ASSUME NEW y \in T, y < x PROVE FALSE
    OBVIOUS
  <2>1. <<y, x>> \in OpToRel(<, Nat)
    BY DEF OpToRel
  <2> QED BY <2>1, <1>2
<1> QED BY <1>3

\* Every place of a candidate among the candidates is taken: counting the ones
\* before it maps the candidates one to one onto 0 .. n - 1.
LEMMA NthIn ==
    ASSUME NEW cands \in SUBSET Nat, IsFiniteSet(cands), NEW k \in Nat,
           k < Cardinality(cands)
    PROVE  Nth(cands, k) \in cands
<1> DEFINE Before1(i) == {j \in cands : j < i}
           n == Cardinality(cands)
           f == [i \in cands |-> Cardinality(Before1(i))]
<1>0. \A i \in cands : i \in Nat
  OBVIOUS
<1>1. n \in Nat /\ n > 0
  BY FS_CardinalityType
<1>2. \A i \in cands : /\ IsFiniteSet(Before1(i)) /\ Cardinality(Before1(i)) \in Nat
                       /\ Cardinality(Before1(i)) < n
  <2> TAKE i \in cands
  <2>1. Before1(i) \in SUBSET cands /\ Before1(i) # cands
    BY DEF Before1
  <2>2. IsFiniteSet(Before1(i)) /\ Cardinality(Before1(i)) <= n
        /\ (n = Cardinality(Before1(i)) => cands = Before1(i))
    BY <2>1, FS_Subset
  <2>3. Cardinality(Before1(i)) \in Nat
    BY <2>2, FS_CardinalityType
  <2> QED BY <2>1, <2>2, <2>3, <1>1
<1>3. f \in [cands -> 0..(n - 1)]
  BY <1>1, <1>2
<1>4. \A i, j \in cands : i < j => f[i] < f[j]
  <2> TAKE i, j \in cands
  <2> HAVE i < j
  <2>0. \A x \in cands : x < i => x < j
    BY <1>0
  <2>1. Before1(i) \in SUBSET Before1(j) /\ i \in Before1(j)
    BY <2>0
  <2>3. i \notin Before1(i)
    BY <1>0
  <2>2. /\ Cardinality(Before1(i)) <= Cardinality(Before1(j))
        /\ Cardinality(Before1(j)) = Cardinality(Before1(i)) => Before1(j) = Before1(i)
    BY <2>1, <1>2, FS_Subset
  <2> QED BY <2>1, <2>2, <2>3, <1>2
<1> HIDE DEF n, f
<1>5. \A i, j \in cands : f[i] = f[j] => i = j
  <2> TAKE i, j \in cands
  <2> HAVE f[i] = f[j]
  <2>1. i \in Nat /\ j \in Nat /\ f[i] \in Int /\ f[j] \in Int
    BY <1>0, <1>1, <1>3
  <2> QED BY <2>1, <1>4
<1>6. f \in Injection(cands, 0..(n - 1))
  BY <1>3, <1>5, Fun_IsInj
<1>7. IsFiniteSet(0..(n - 1)) /\ Cardinality(0..(n - 1)) = n
  <2>1. n - 1 \in Int /\ 0 \in Int /\ ~(0 > n - 1) /\ n - 1 - 0 + 1 = n
    BY <1>1
  <2> QED BY <2>1, FS_Interval
<1>8. f \in Surjection(cands, 0..(n - 1))
  BY <1>6, <1>7, FS_Injection DEF n
<1>9. PICK i \in cands : f[i] = k
  <2>1. k \in 0..(n - 1)
    BY <1>1 DEF n
  <2> QED BY <1>8, <2>1 DEF Surjection
<1> QED BY <1>9 DEF Nth, f

\* A candidate with the fewest accounts exists.
LEMMA LeastBoundIn ==
    ASSUME NEW c, NEW cands \in SUBSET Nat, cands # {},
           IsFiniteSet(Accounts)
    PROVE  LeastBound(c, cands) \in cands
<1> DEFINE bound(i) == BoundCount(c.nodes[i].id)
<1>1. \A i \in cands : bound(i) \in Nat
  <2> TAKE i \in cands
  <2> DEFINE A == {a \in Accounts : bindings[a] = c.nodes[i].id}
  <2>1. IsFiniteSet(A)
    BY FS_Subset
  <2>2. Cardinality(A) \in Nat
    BY <2>1, FS_CardinalityType
  <2> QED BY <2>2 DEF BoundCount
<1> DEFINE Counts == {bound(i) : i \in cands}
<1>2. Counts \in SUBSET Nat /\ Counts # {}
  BY <1>1
<1>3. PICK m \in Counts : \A y \in Counts : m <= y
  <2> HIDE DEF Counts
  <2> QED BY <1>2, LeastNat
<1> DEFINE Mins == {i \in cands : bound(i) = m}
<1>4. Mins \in SUBSET Nat /\ Mins # {}
  BY <1>3
<1>5. PICK i \in Mins : \A j \in Mins : i <= j
  <2> HIDE DEF Mins
  <2> QED BY <1>4, LeastNat
<1>6. \A j \in cands : bound(i) < bound(j) \/ (bound(i) = bound(j) /\ i <= j)
  <2> TAKE j \in cands
  <2>1. m <= bound(j) /\ bound(i) = m /\ bound(i) \in Nat /\ bound(j) \in Nat
    BY <1>1, <1>3, <1>5
  <2>2. CASE bound(j) = m
    BY <2>1, <2>2, <1>5
  <2>3. CASE bound(j) # m
    BY <2>1, <2>3
  <2> QED BY <2>2, <2>3
<1>7. i \in cands
  BY <1>5
<1> HIDE DEF bound
<1>8. (CHOOSE x \in cands : \A j \in cands :
          bound(x) < bound(j) \/ (bound(x) = bound(j) /\ x <= j)) \in cands
  BY <1>6, <1>7
<1> QED BY <1>8 DEF LeastBound, bound

\* An id names one node of a configuration.
LEMMA NodeOfPlace ==
    ASSUME NEW c \in Configs, NEW i \in DOMAIN c.nodes
    PROVE  NodeOf(c, c.nodes[i].id) = c.nodes[i]
BY ProxyAssumption DEF NodeOf

\* The node of an id is a node of the configuration.
LEMMA NodeOfType ==
    ASSUME NEW c \in Configs
    PROVE  /\ Ids(c) \in SUBSET Nodes /\ None \notin Ids(c)
           /\ \A n \in Ids(c) : NodeOf(c, n) \in Node /\ NodeOf(c, n).url \in Urls
<1>1. c.nodes \in Seq(Node)
  BY ProxyAssumption DEF PoolConfig
<1>2. \A i \in DOMAIN c.nodes : c.nodes[i] \in Node
  BY <1>1
<1>3. Ids(c) \in SUBSET Nodes
  BY <1>2 DEF Ids, Node
<1>4. \A n \in Ids(c) : NodeOf(c, n) \in Node
  <2> TAKE n \in Ids(c)
  <2>1. PICK i \in DOMAIN c.nodes : c.nodes[i].id = n
    BY DEF Ids
  <2> QED BY <2>1, <1>2, NodeOfPlace
<1> QED BY <1>3, <1>4, ProxyAssumption DEF Node

\* auto_assign gives no node, or one that is configured and on.
LEMMA PickByUsable ==
    ASSUME NEW c \in Configs, NEW a \in Accounts, NEW i,
           rr \in Nat, PickBy(c, a, i) # None
    PROVE  Usable(c, PickBy(c, a, i))
<1> DEFINE try == Tries(c)[i]
           cands == Candidates(c, try.nodes, try.mode)
           n == Cardinality(cands)
<1>1. c.nodes \in Seq(Node)
  BY ProxyAssumption DEF PoolConfig
<1>2. DOMAIN c.nodes = 1..Len(c.nodes) /\ Len(c.nodes) \in Nat
  BY <1>1
<1>3. cands \in SUBSET (DOMAIN c.nodes) /\ cands \in SUBSET Nat
  BY <1>2 DEF Candidates
<1>4. IsFiniteSet(cands)
  <2>1. IsFiniteSet(1..Len(c.nodes))
    BY <1>2, FS_Interval
  <2> HIDE DEF cands
  <2> QED BY <2>1, <1>2, <1>3, FS_Subset
<1>5. \A k \in cands : c.nodes[k].enabled
  BY DEF Candidates
<1> DEFINE spot == CASE try.mode = "hash"        -> Nth(cands, HashOf[a] % n)
                      [] try.mode = "round_robin" -> Nth(cands, rr % n)
                      [] OTHER                    -> LeastBound(c, cands)
<1>6. cands # {} /\ PickBy(c, a, i) = c.nodes[spot].id
  <2>1. PickBy(c, a, i) = Pick(c, a, cands, try.mode)
    BY DEF PickBy
  <2> HIDE DEF cands
  <2> QED BY <2>1 DEF Pick
<1> HIDE DEF cands, try
<1>7. n \in Nat \ {0}
  BY <1>4, <1>6, FS_CardinalityType, FS_EmptySet
<1>8. spot \in cands
  <2>1. HashOf[a] \in Nat
    BY ProxyAssumption
  <2>2. HashOf[a] % n \in Nat /\ HashOf[a] % n < n
    <3> HIDE DEF n
    <3> QED BY <2>1, <1>7
  <2>3. rr % n \in Nat /\ rr % n < n
    <3> HIDE DEF n
    <3> QED BY <1>7
  <2>4. Nth(cands, HashOf[a] % n) \in cands
    BY <2>2, <1>3, <1>4, NthIn
  <2>5. Nth(cands, rr % n) \in cands
    BY <2>3, <1>3, <1>4, NthIn
  <2>6. LeastBound(c, cands) \in cands
    BY <1>3, <1>6, LeastBoundIn, ProxyAssumption
  <2> QED BY <2>4, <2>5, <2>6
<1> HIDE DEF spot
<1>9. spot \in DOMAIN c.nodes /\ c.nodes[spot].enabled
  BY <1>3, <1>5, <1>8
<1> QED BY <1>6, <1>9, NodeOfPlace DEF Usable, Ids

\* What auto_assign returns is what some rule, or the default, picked.
LEMMA AutoAssignUsable ==
    ASSUME NEW c \in Configs, NEW a \in Accounts,
           rr \in Nat, AutoAssign(c, a) # None
    PROVE  Usable(c, AutoAssign(c, a))
<1>1. AutoAssign(c, a) = PickBy(c, a, Assigning(c, a))
  BY DEF AutoAssign
<1> QED BY <1>1, PickByUsable

------------------------------------------------------------------------------
(* The inductive invariant: what a request knows at each place of resolve. *)

\* At its places after the snapshot a request has a pool that is on; it asks
\* the rules only for an account that is not bound by hand; the node it takes
\* to for_node is on in its snapshot, and the one bound by hand if there is one.
Resolving(r) ==
    /\ at[r] \in {"bound", "assign", "bind", "client"} => seen[r].enabled
    /\ at[r] \in {"assign", "bind"} => ManualNode[account[r]] = None
    /\ at[r] \in {"bind", "client"} => Usable(seen[r], choice[r])
    /\ at[r] = "client" /\ ManualNode[account[r]] # None
         => choice[r] = ManualNode[account[r]]

ProxyInv == ProxyTypeOK /\ EgressLawful /\ CacheFresh /\ BoundToKnown
        /\ \A r \in Requests : Resolving(r)

\* The initial states have no request under way and empty maps.
LEMMA ProxyInitInv == ProxyInit => ProxyInv
<1> SUFFICES ASSUME ProxyInit PROVE ProxyInv
  OBVIOUS
<1>1. Unseen \in Configs /\ Ids(cfg) \in SUBSET Nodes
  BY NodeOfType, ProxyAssumption DEF Unseen, ProxyInit
<1>2. ProxyTypeOK
  BY <1>1, ProxyAssumption DEF ProxyInit, ProxyTypeOK, Free, Direct
<1>3. EgressLawful /\ \A r \in Requests : Resolving(r)
  BY DEF ProxyInit, EgressLawful, Resolving
<1>4. CacheFresh /\ BoundToKnown
  <2>1. \A n \in Ids(cfg) : cache[n] = None
    BY <1>1 DEF ProxyInit
  <2>2. \A a \in Accounts : bindings[a] = None
    BY DEF ProxyInit, Free
  <2> QED BY <2>1, <2>2 DEF CacheFresh, BoundToKnown
<1> QED BY <1>2, <1>3, <1>4 DEF ProxyInv

\* A step keeps the types.  for_node is the step that needs more than types:
\* the node it is given must be configured for it to have a url.
LEMMA ProxyTypeStep ==
    ASSUME ProxyInv, [ProxyNext]_proxyVars PROVE ProxyTypeOK'
<1> USE DEF ProxyTypeOK
<1>0. ProxyTypeOK /\ Ids(cfg) \in SUBSET Nodes /\ Unseen \in Configs
  BY NodeOfType, ProxyAssumption DEF Unseen, ProxyInv
<1>1. ASSUME NEW r \in Requests, Load(r) PROVE ProxyTypeOK'
  <2>1. CASE cfg.enabled
    BY <1>0, <1>1, <2>1 DEF Load, Goto, pool
  <2>2. CASE ~cfg.enabled
    <3>1. Direct \in [node : Nodes \cup {None}, url : Urls \cup {None}]
      BY DEF Direct
    <3> QED BY <1>0, <1>1, <2>2, <3>1 DEF Load, Goto, Leave, pool
  <2> QED BY <2>1, <2>2
<1>2. ASSUME NEW r \in Requests, ResolveManual(r) PROVE ProxyTypeOK'
  <2> DEFINE n == ManualNode[account[r]]
  <2>1. n \in Nodes
    BY <1>0, <1>2, ProxyAssumption DEF ResolveManual
  <2>2. CASE Usable(seen[r], n)
    <3>1. late' \in SUBSET Accounts
      BY <1>0, <1>2, <2>2 DEF ResolveManual, BindTo
    <3>2. /\ bindings' = [bindings EXCEPT ![account[r]] = n]
          /\ choice' = [choice EXCEPT ![r] = n] /\ at' = [at EXCEPT ![r] = "client"]
          /\ UNCHANGED <<cfg, tracked, fails, rr, cache, panel, probing, account, seen,
                         client, edits, probes, straddled>>
      BY <1>2, <2>2 DEF ResolveManual, BindTo, Goto
    <3> HIDE DEF n
    <3> QED BY <1>0, <2>1, <3>1, <3>2
  <2>3. CASE ~Usable(seen[r], n)
    BY <1>0, <1>2, <2>3 DEF ResolveManual, Goto
  <2> QED BY <2>2, <2>3
<1>3. ASSUME NEW r \in Requests, ResolveBound(r) PROVE ProxyTypeOK'
  BY SMTT(30), <1>0, <1>3 DEF ResolveBound, Goto
<1>4. ASSUME NEW r \in Requests, Assign(r) PROVE ProxyTypeOK'
  <2>1. AutoAssign(seen[r], account[r]) \in Nodes \cup {None}
    BY <1>0, AutoAssignUsable, NodeOfType DEF Usable
  <2>2. Turned(seen[r], account[r]) \in Nat
    BY <1>0, ProxyAssumption DEF Turned
  <2>3. UNCHANGED <<cfg, tracked, fails, bindings, cache, panel, probing, account, seen,
                    edits, probes, straddled, late>>
    BY <1>4 DEF Assign
  <2>4. /\ rr' = Turned(seen[r], account[r])
        /\ choice' = [choice EXCEPT ![r] = AutoAssign(seen[r], account[r])]
    BY <1>4 DEF Assign
  <2>5. \/ at' = [at EXCEPT ![r] = "bind"] /\ client' = client
        \/ at' = [at EXCEPT ![r] = "refused"] /\ client' = client
        \/ at' = [at EXCEPT ![r] = "done"] /\ client' = [client EXCEPT ![r] = Direct]
    BY <1>4 DEF Assign, Goto, Leave
  <2>6. Direct \in [node : Nodes \cup {None}, url : Urls \cup {None}]
    BY DEF Direct
  <2>7. /\ at' \in [Requests -> {"idle", "bound", "assign", "bind", "client", "done",
                                 "refused"}]
        /\ client' \in [Requests -> [node : Nodes \cup {None}, url : Urls \cup {None}]]
    BY <1>0, <2>5, <2>6
  <2> QED BY <1>0, <2>1, <2>2, <2>3, <2>4, <2>7
<1>5. ASSUME NEW r \in Requests, Bind(r) PROVE ProxyTypeOK'
  BY <1>0, <1>5 DEF Bind, BindTo, Goto
<1>6. ASSUME NEW r \in Requests, ForNode(r) PROVE ProxyTypeOK'
  <2>1. choice[r] \in Nodes /\ NodeOf(seen[r], choice[r]).url \in Urls
    BY <1>0, <1>6, NodeOfType DEF ForNode, ProxyInv, Resolving, Usable
  <2>2. CASE cache[choice[r]] # None
    <3>1. [node |-> choice[r], url |-> cache[choice[r]]]
             \in [node : Nodes \cup {None}, url : Urls \cup {None}]
      BY <1>0, <2>1
    <3>2. /\ at' = [at EXCEPT ![r] = "done"]
          /\ client' = [client EXCEPT ![r] = [node |-> choice[r], url |-> cache[choice[r]]]]
          /\ UNCHANGED <<cfg, tracked, fails, bindings, rr, cache, panel, probing, account,
                         seen, choice, edits, probes, straddled, late>>
      BY <1>6, <2>2 DEF ForNode, Leave, Goto
    <3> QED BY <1>0, <3>1, <3>2
  <2>3. CASE cache[choice[r]] = None
    <3>1. straddled' \in SUBSET Nodes
      BY <1>0, <1>6, <2>1, <2>3 DEF ForNode
    <3> DEFINE url == NodeOf(seen[r], choice[r]).url
    <3>2. /\ cache' = [cache EXCEPT ![choice[r]] = url]
          /\ at' = [at EXCEPT ![r] = "done"]
          /\ client' = [client EXCEPT ![r] = [node |-> choice[r], url |-> url]]
          /\ UNCHANGED <<cfg, tracked, fails, bindings, rr, panel, probing, account, seen,
                         choice, edits, probes, late>>
      BY <1>6, <2>3 DEF ForNode, Leave, Goto
    <3> HIDE DEF url
    <3>3. url \in Urls
      BY <2>1 DEF url
    <3> QED BY <1>0, <2>1, <3>1, <3>2, <3>3
  <2> QED BY <2>2, <2>3
<1>7. ASSUME NEW r \in Requests, Again(r) PROVE ProxyTypeOK'
  BY <1>0, <1>7 DEF Again, Goto, Direct, pool
<1>8. ASSUME Replace PROVE ProxyTypeOK'
  BY <1>0, <1>8 DEF Replace, request
<1>9. ASSUME SyncRuntime PROVE ProxyTypeOK'
  BY <1>0, <1>9 DEF SyncRuntime, request
<1>10. ASSUME Invalidate PROVE ProxyTypeOK'
  BY <1>0, <1>10 DEF Invalidate, request
<1>11. ASSUME Rebalance PROVE ProxyTypeOK'
  <2> DEFINE K == Cardinality({a \in Accounts : ManualNode[a] = None})
  <2>0. K \in Nat
    <3>1. IsFiniteSet({a \in Accounts : ManualNode[a] = None})
      BY FS_Subset, ProxyAssumption
    <3> QED BY <3>1, FS_CardinalityType
  <2>a. rr' = rr \/ \E k \in 0..K : rr' = (rr + k) % RrModulus
    BY <1>11 DEF Rebalance
  <2> HIDE DEF K
  <2>1. rr' \in Nat
    <3>1. \A k \in 0..K : (rr + k) % RrModulus \in Nat
      BY <1>0, <2>0, ProxyAssumption
    <3> QED BY <1>0, <2>a, <3>1
  <2> QED BY <1>0, <1>11, <2>1 DEF Rebalance, Free, request
<1>12. ASSUME BeginProbe PROVE ProxyTypeOK'
  BY <1>0, <1>12 DEF BeginProbe, pool, request
<1>13. ASSUME NEW n \in Nodes, NEW ok \in BOOLEAN, RecordProbe(n, ok) PROVE ProxyTypeOK'
  BY <1>0, <1>13 DEF RecordProbe, request
<1>14. CASE UNCHANGED proxyVars
  BY <1>0, <1>14 DEF proxyVars, pool, request
<1> QED BY <1>1, <1>2, <1>3, <1>4, <1>5, <1>6, <1>7, <1>8, <1>9, <1>10, <1>11, <1>12,
           <1>13, <1>14 DEF ProxyNext, Step

\* A step of the panel or of a probe touches no request.
LEMMA PanelLeavesRequests ==
    ASSUME Replace \/ SyncRuntime \/ Invalidate \/ Rebalance \/ BeginProbe
           \/ (\E n \in Nodes, ok \in BOOLEAN : RecordProbe(n, ok)) \/ UNCHANGED proxyVars
    PROVE  UNCHANGED request
BY DEF Replace, SyncRuntime, Invalidate, Rebalance, BeginProbe, RecordProbe, proxyVars

\* What EgressLawful says of one request.
Lawful(r) ==
    at[r] = "done" =>
        /\ seen[r].enabled /\ ManualNode[account[r]] # None
             => client[r].node = ManualNode[account[r]]
        /\ seen[r].enabled /\ seen[r].requireProxy => client[r].node # None
        /\ client[r].node # None => Usable(seen[r], client[r].node)

\* A request that steps stays lawful: it leaves directly only from a pool that
\* is off or does not require a proxy and for an account not bound by hand, and
\* through a node only with the one it brought to for_node.
LEMMA OwnStep ==
    ASSUME ProxyInv, NEW r \in Requests, Step(r)
    PROVE  Resolving(r)' /\ Lawful(r)'
<1>0. ProxyTypeOK /\ Resolving(r)
  BY DEF ProxyInv
<1> USE <1>0 DEF ProxyTypeOK
<1>1. CASE Load(r)
  <2>1. /\ seen'[r] = cfg /\ account' = account
        /\ \/ cfg.enabled /\ at'[r] = "bound"
           \/ ~cfg.enabled /\ at'[r] = "done" /\ client'[r].node = None
    <3>1. CASE cfg.enabled
      BY <1>1, <3>1 DEF Load, Goto
    <3>2. CASE ~cfg.enabled
      BY <1>1, <3>2 DEF Load, Goto, Leave, Direct
    <3> QED BY <3>1, <3>2
  <2> QED BY <2>1 DEF Resolving, Lawful
<1>2. CASE ResolveManual(r)
  <2> DEFINE n == ManualNode[account[r]]
  <2>1. /\ UNCHANGED <<seen, account>> /\ at[r] = "bound" /\ n # None
        /\ \/ Usable(seen[r], n) /\ at'[r] = "client" /\ choice'[r] = n
           \/ at'[r] = "refused"
    <3>1. CASE Usable(seen[r], n)
      BY <1>2, <3>1 DEF ResolveManual, Goto
    <3>2. CASE ~Usable(seen[r], n)
      BY <1>2, <3>2 DEF ResolveManual, Goto
    <3>3. UNCHANGED <<seen, account>> /\ at[r] = "bound" /\ n # None
      BY <1>2 DEF ResolveManual
    <3> QED BY <3>1, <3>2, <3>3
  <2>2. Usable(seen[r], n)' = Usable(seen[r], n)
    BY <2>1 DEF Usable, Ids, NodeOf
  <2> QED BY <2>1, <2>2 DEF Resolving, Lawful
<1>3. CASE ResolveBound(r)
  <2>1. /\ UNCHANGED <<seen, account>> /\ at[r] = "bound" /\ ManualNode[account[r]] = None
        /\ \/ Usable(seen[r], bindings[account[r]]) /\ at'[r] = "client"
              /\ choice'[r] = bindings[account[r]]
           \/ at'[r] = "assign"
    BY <1>3 DEF ResolveBound, Goto
  <2> QED BY <2>1 DEF Resolving, Lawful
<1>4. CASE Assign(r)
  <2> DEFINE n == AutoAssign(seen[r], account[r])
  <2>1. UNCHANGED <<seen, account>> /\ at[r] = "assign" /\ choice'[r] = n
    BY <1>4 DEF Assign
  <2>2. \/ n # None /\ at'[r] = "bind"
        \/ at'[r] = "refused"
        \/ ~seen[r].requireProxy /\ at'[r] = "done" /\ client'[r].node = None
    BY <1>4 DEF Assign, Goto, Leave, Direct
  <2>3. n # None => Usable(seen[r], n)
    BY AutoAssignUsable
  <2> HIDE DEF n
  <2> QED BY <2>1, <2>2, <2>3 DEF Resolving, Lawful
<1>5. CASE Bind(r)
  <2>1. /\ UNCHANGED <<seen, account, choice>> /\ at[r] = "bind" /\ at'[r] = "client"
    BY <1>5 DEF Bind, Goto
  <2> QED BY <2>1 DEF Resolving, Lawful
<1>6. CASE ForNode(r)
  <2>1. /\ UNCHANGED <<seen, account, choice>> /\ at[r] = "client" /\ at'[r] = "done"
        /\ client'[r].node = choice[r]
    <3>1. CASE cache[choice[r]] # None
      BY <1>6, <3>1 DEF ForNode, Leave, Goto
    <3>2. CASE cache[choice[r]] = None
      BY <1>6, <3>2 DEF ForNode, Leave, Goto
    <3> QED BY <3>1, <3>2
  <2>2. choice[r] # None
    BY <2>1, NodeOfType DEF Resolving, Usable
  <2> QED BY <2>1, <2>2 DEF Resolving, Lawful
<1>7. CASE Again(r)
  <2>1. at'[r] = "idle"
    BY <1>7 DEF Again, Goto
  <2> QED BY <2>1 DEF Resolving, Lawful
<1> QED BY <1>1, <1>2, <1>3, <1>4, <1>5, <1>6, <1>7 DEF Step

\* A request is not touched by the steps of another.
LEMMA OtherStep ==
    ASSUME ProxyInv, NEW r \in Requests, NEW q \in Requests, q # r, Step(q)
    PROVE  /\ at'[r] = at[r] /\ account'[r] = account[r] /\ seen'[r] = seen[r]
           /\ choice'[r] = choice[r] /\ client'[r] = client[r]
<1>0. ProxyTypeOK
  BY DEF ProxyInv
<1> USE <1>0 DEF ProxyTypeOK, Goto, Leave
<1>1. CASE Load(q) \/ Again(q)
  BY <1>1 DEF Load, Again
<1>2. CASE ResolveManual(q) \/ ResolveBound(q)
  BY <1>2 DEF ResolveManual, ResolveBound
<1>3. CASE Assign(q) \/ Bind(q)
  BY <1>3 DEF Assign, Bind
<1>4. CASE ForNode(q)
  BY <1>4 DEF ForNode
<1> QED BY <1>1, <1>2, <1>3, <1>4 DEF Step

\* Whoever steps, every request stays lawful and knows what it should.
LEMMA ProxyRequestStep ==
    ASSUME ProxyInv, [ProxyNext]_proxyVars
    PROVE  EgressLawful' /\ \A r \in Requests : Resolving(r)'
<1> SUFFICES ASSUME NEW r \in Requests PROVE Resolving(r)' /\ Lawful(r)'
  BY DEF EgressLawful, Lawful
<1>0. Resolving(r) /\ Lawful(r)
  BY DEF ProxyInv, EgressLawful, Lawful
<1>1. CASE Step(r)
  BY <1>1, OwnStep
<1>2. ASSUME NEW q \in Requests, q # r, Step(q) PROVE Resolving(r)' /\ Lawful(r)'
  BY <1>0, <1>2, OtherStep DEF Resolving, Lawful
<1>3. CASE UNCHANGED request
  BY <1>0, <1>3 DEF request, Resolving, Lawful
<1> QED BY <1>1, <1>2, <1>3, PanelLeavesRequests DEF ProxyNext

\* The cache of an idle panel is that of the configuration: for_node notes the
\* clients it builds from another one, and an edit is over only when the cache
\* was emptied.
LEMMA ProxyCacheStep ==
    ASSUME ProxyInv, [ProxyNext]_proxyVars PROVE CacheFresh'
<1>0. ProxyTypeOK /\ CacheFresh /\ Ids(cfg) \in SUBSET Nodes
  BY NodeOfType DEF ProxyInv, ProxyTypeOK
<1>1. ASSUME NEW r \in Requests, ForNode(r), panel = "idle" PROVE CacheFresh'
  <2> DEFINE m == choice[r]
  <2>0. UNCHANGED <<cfg, panel>> /\ m \in Nodes
    BY <1>0, <1>1, NodeOfType DEF ForNode, ProxyInv, Resolving, Usable, ProxyTypeOK
  <2>1. CASE cache[m] # None
    BY <1>0, <1>1, <2>0, <2>1 DEF ForNode, CacheFresh, Ids, NodeOf
  <2>2. CASE cache[m] = None
    <3> SUFFICES ASSUME NEW n \in Ids(cfg), n \notin straddled'
                 PROVE  cache'[n] \in {None, NodeOf(cfg, n).url}
      BY <2>0 DEF CacheFresh, Ids, NodeOf
    <3>1. cache' = [cache EXCEPT ![m] = NodeOf(seen[r], m).url]
      BY <1>1, <2>2 DEF ForNode
    <3>2. straddled' = IF seen[r] = cfg THEN straddled \ {m} ELSE straddled \cup {m}
      BY <1>1, <2>2 DEF ForNode
    <3>3. CASE n = m
      <4>1. seen[r] = cfg
        BY <3>2, <3>3
      <4> QED BY <1>0, <2>0, <3>1, <3>3, <4>1 DEF ProxyTypeOK
    <3>4. CASE n # m
      <4>1. n \notin straddled
        BY <3>2, <3>4
      <4>2. cache'[n] = cache[n]
        BY <1>0, <3>1, <3>4 DEF ProxyTypeOK
      <4> QED BY <1>0, <1>1, <4>1, <4>2 DEF CacheFresh
    <3> QED BY <3>3, <3>4
  <2> QED BY <2>1, <2>2
<1>2. ASSUME NEW r \in Requests, ForNode(r), panel # "idle" PROVE CacheFresh'
  BY <1>2 DEF ForNode, CacheFresh
<1>3. ASSUME NEW r \in Requests, Step(r), ~ForNode(r)
      PROVE  UNCHANGED <<cfg, panel, cache, straddled>>
  BY <1>3 DEF Step, Load, ResolveManual, ResolveBound, Assign, Bind, Again, pool
<1>4. CASE UNCHANGED <<cfg, panel, cache, straddled>>
  BY <1>0, <1>4 DEF CacheFresh, Ids, NodeOf
<1>5. CASE Replace \/ SyncRuntime \/ Rebalance
  BY <1>5 DEF Replace, SyncRuntime, Rebalance, CacheFresh
<1>6. CASE Invalidate
  <2>1. cfg' = cfg /\ \A n \in Nodes : cache'[n] = None
    BY <1>6 DEF Invalidate
  <2>2. Ids(cfg') = Ids(cfg)
    BY <2>1
  <2> QED BY <1>0, <2>1, <2>2 DEF CacheFresh
<1>7. CASE BeginProbe \/ \E n \in Nodes, ok \in BOOLEAN : RecordProbe(n, ok)
  <2>1. UNCHANGED <<cfg, panel, cache, straddled>>
    BY <1>7 DEF BeginProbe, RecordProbe, pool
  <2> QED BY <2>1, <1>4
<1>8. CASE UNCHANGED proxyVars
  <2>1. UNCHANGED <<cfg, panel, cache, straddled>>
    BY <1>8 DEF proxyVars, pool
  <2> QED BY <2>1, <1>4
<1> QED BY <1>1, <1>2, <1>3, <1>4, <1>5, <1>6, <1>7, <1>8 DEF ProxyNext

\* A binding is to a configured node unless the request that made it had another
\* configuration in its hands.
LEMMA ProxyBindStep ==
    ASSUME ProxyInv, [ProxyNext]_proxyVars PROVE BoundToKnown'
<1>0. ProxyTypeOK /\ BoundToKnown
  BY DEF ProxyInv
<1>1. ASSUME NEW r \in Requests, NEW n, Usable(seen[r], n), BindTo(r, n),
             UNCHANGED <<cfg, panel>>
      PROVE  BoundToKnown'
  <2> SUFFICES ASSUME panel # "sync", NEW a \in Accounts, a \notin late'
               PROVE  bindings'[a] \in Ids(cfg) \cup {None}
    BY <1>1 DEF BoundToKnown, Ids
  <2>1. CASE a = account[r]
    <3>1. seen[r] = cfg
      BY <1>1, <2>1 DEF BindTo
    <3>2. bindings'[a] = n
      BY <1>0, <1>1, <2>1 DEF BindTo, ProxyTypeOK
    <3> QED BY <1>1, <3>1, <3>2 DEF Usable
  <2>2. CASE a # account[r]
    <3>1. bindings'[a] = bindings[a] /\ a \notin late
      BY <1>0, <1>1, <2>2 DEF BindTo, ProxyTypeOK
    <3> QED BY <1>0, <3>1 DEF BoundToKnown
  <2> QED BY <2>1, <2>2
<1>2. CASE UNCHANGED <<cfg, panel, bindings, late>>
  BY <1>0, <1>2 DEF BoundToKnown, Ids
<1>3. ASSUME NEW r \in Requests, ResolveManual(r) PROVE BoundToKnown'
  <2>1. CASE Usable(seen[r], ManualNode[account[r]])
    <3>1. BindTo(r, ManualNode[account[r]]) /\ UNCHANGED <<cfg, panel>>
      BY <1>3, <2>1 DEF ResolveManual
    <3> QED BY <1>1, <2>1, <3>1
  <2>2. CASE ~Usable(seen[r], ManualNode[account[r]])
    <3>1. UNCHANGED <<cfg, panel, bindings, late>>
      BY <1>3, <2>2 DEF ResolveManual
    <3> QED BY <1>2, <3>1
  <2> QED BY <2>1, <2>2
<1>4. ASSUME NEW r \in Requests, ResolveBound(r) PROVE BoundToKnown'
  <2>1. UNCHANGED <<cfg, panel, late>>
        /\ \A a \in Accounts : bindings'[a] \in {bindings[a], None}
    BY <1>0, <1>4 DEF ResolveBound, ProxyTypeOK
  <2> QED BY <1>0, <2>1 DEF BoundToKnown, Ids
<1>5. ASSUME NEW r \in Requests, Bind(r) PROVE BoundToKnown'
  <2>1. /\ Usable(seen[r], choice[r]) /\ BindTo(r, choice[r]) /\ UNCHANGED <<cfg, panel>>
    BY <1>5 DEF Bind, ProxyInv, Resolving
  <2> QED BY <1>1, <2>1
<1>6. ASSUME NEW r \in Requests, Load(r) \/ Assign(r) \/ ForNode(r) \/ Again(r)
      PROVE  UNCHANGED <<cfg, panel, bindings, late>>
  BY <1>6 DEF Load, Assign, ForNode, Again, pool
<1>7. CASE Replace
  BY <1>7 DEF Replace, BoundToKnown
<1>8. CASE SyncRuntime
  <2>1. cfg' = cfg /\ \A a \in Accounts : bindings'[a] \in Ids(cfg) \cup {None}
    BY <1>8 DEF SyncRuntime
  <2> QED BY <2>1 DEF BoundToKnown, Ids
<1>9. CASE Rebalance
  BY <1>9 DEF Rebalance, BoundToKnown, Free
<1>10. CASE Invalidate
  BY <1>0, <1>10 DEF Invalidate, BoundToKnown, Ids
<1>11. CASE BeginProbe \/ \E n \in Nodes, ok \in BOOLEAN : RecordProbe(n, ok)
  BY <1>2, <1>11 DEF BeginProbe, RecordProbe, pool
<1>12. CASE UNCHANGED proxyVars
  BY <1>2, <1>12 DEF proxyVars, pool
<1> QED BY <1>2, <1>3, <1>4, <1>5, <1>6, <1>7, <1>8, <1>9, <1>10, <1>11, <1>12
        DEF ProxyNext, Step

\* The invariant holds in every state.
LEMMA ProxyInductive == ProxySpec => []ProxyInv
<1>1. ProxyInv /\ [ProxyNext]_proxyVars => ProxyInv'
  BY ProxyTypeStep, ProxyRequestStep, ProxyCacheStep, ProxyBindStep DEF ProxyInv
<1> QED BY <1>1, ProxyInitInv, PTL DEF ProxySpec

------------------------------------------------------------------------------
(* The theorems. *)

\* The maps, the panel and the requests keep their types; a client that
\* for_node builds always has a node's url.
THEOREM ProxyTypeCorrect == ProxySpec => []ProxyTypeOK
<1>1. ProxyInv => ProxyTypeOK
  BY DEF ProxyInv
<1> QED BY <1>1, ProxyInductive, PTL

\* resolve keeps its promise to every request, however many requests, nodes and
\* configurations there are and however edits, probes and rebalances fall among
\* its steps: bound by hand means that node or none, a required proxy is never
\* gone round, a node that is off is never used.
THEOREM EgressIsLawful == ProxySpec => []EgressLawful
<1>1. ProxyInv => EgressLawful
  BY DEF ProxyInv
<1> QED BY <1>1, ProxyInductive, PTL

\* The client cache is fresh between edits but for clients built across one.
THEOREM CacheIsFresh == ProxySpec => []CacheFresh
<1>1. ProxyInv => CacheFresh
  BY DEF ProxyInv
<1> QED BY <1>1, ProxyInductive, PTL

\* Bindings do not outlive their nodes but for those made across an edit.
THEOREM BindingsKnown == ProxySpec => []BoundToKnown
<1>1. ProxyInv => BoundToKnown
  BY DEF ProxyInv
<1> QED BY <1>1, ProxyInductive, PTL
=============================================================================
