---------------------------- MODULE ConfigStore ----------------------------
(***************************************************************************)
(* config.json and its copies (src/config.rs, src/admin/keys.rs,           *)
(* src/admin/settings.rs, src/admin/proxies.rs, watch_config of main.rs).  *)
(*                                                                         *)
(* The configuration lives three times: in memory (ConfigCell, replaced    *)
(* under a write lock), in config.json, and, for its proxy section, in the *)
(* proxy pool.  A panel handler edits the memory, writes the file through  *)
(* config.json.tmp, and passes the proxy section on; the watcher reloads   *)
(* the file whenever it changes.  No lock spans two of these steps.        *)
(*                                                                         *)
(* std::fs::write opens and truncates the temporary file, then writes it:  *)
(* what it writes goes to the inode it opened, wherever a rename has moved *)
(* that inode meanwhile.                                                   *)
(***************************************************************************)
EXTENDS Naturals, Sequences, FiniteSets

CONSTANTS
    Handlers,   \* panel requests being served
    KeyNames,   \* secrets of API keys
    Values,     \* values of a setting, node lists of the proxy section
    FirstKeys,  \* the keys in config.json at start
    Torn,       \* a file that was truncated and not written yet
    Absent,     \* no such file
    MaxJobs,    \* bound: panel requests of a behaviour
    MaxFaults   \* bound: failed writes and crashes

Entry == [key : KeyNames, on : BOOLEAN]
Config == [keys : Seq(Entry), model : Values, proxy : [on : BOOLEAN, nodes : Values]]

ASSUME ConfigAssumption ==
    /\ FirstKeys \in Seq(KeyNames)
    /\ Values # {}
    /\ MaxJobs \in Nat /\ MaxFaults \in Nat
    /\ Torn \notin Config /\ Absent \notin Config /\ Torn # Absent

VARIABLES
    memory,     \* ConfigCell.current
    lock,       \* the handler that keeps ConfigCell.write_lock over a write
    file, tmp,  \* config.json and config.json.tmp
    applied,    \* ProxyPool.cfg
    events,     \* file events the watcher has not handled
    watcher, loaded,
    pc, job, snap,
    place,      \* where the inode is that a handler has open
    down,       \* the process is gone and cannot read its file
    (* history *)
    jobs, faults,
    failed,     \* an edit was not saved: its write failed or it was rejected
    overtaken,  \* a last step came after another handler's file
    overlapped  \* config.json.tmp was opened while another save was under way

copies == <<memory, file, applied>>
disk == <<file, tmp, place>>
process == <<pc, job, snap>>
watch == <<watcher, loaded>>
history == <<jobs, faults, failed, overtaken, overlapped>>
vars == <<memory, lock, file, tmp, applied, events, watcher, loaded, pc, job, snap,
          place, down, jobs, faults, failed, overtaken, overlapped>>

\* What a panel request asks for; "reject" is a proxy patch whose node list is
\* refused.
Jobs ==
    [op : {"settings", "proxy"}, v : Values]
    \cup [op : {"reject"}]
    \cup [op : {"add"}, key : KeyNames]
    \cup [op : {"import"}, keys : {<<a, b>> : a, b \in KeyNames}]
    \cup [op : {"patchKey", "delete"}, i : 1..(Len(FirstKeys) + 1)]
    \cup [op : {"batch"}, is : {1..(Len(FirstKeys) + 1)}]

Fresh(k) == [key |-> k, on |-> TRUE]
Names(c) == {c.keys[i].key : i \in DOMAIN c.keys}
Without(c, i) ==
    [c EXCEPT !.keys = SubSeq(@, 1, i - 1) \o SubSeq(@, i + 1, Len(@))]

\* The file config.json held when the process began, and the boundary.
Start == [keys |-> [i \in DOMAIN FirstKeys |-> Fresh(FirstKeys[i])],
          model |-> CHOOSE v \in Values : TRUE,
          proxy |-> [on |-> FALSE, nodes |-> CHOOSE v \in Values : TRUE]]

Init ==
    /\ memory = Start /\ file = Start /\ applied = Start.proxy /\ tmp = Absent
    /\ lock = {} /\ events = 0
    /\ watcher = "idle" /\ loaded = Start
    /\ pc = [h \in Handlers |-> "idle"]
    /\ job = [h \in Handlers |-> [op |-> "reject"]]
    /\ snap = [h \in Handlers |-> Start]
    /\ place = [h \in Handlers |-> "closed"]
    /\ down = FALSE /\ jobs = 0 /\ faults = 0
    /\ failed = FALSE /\ overtaken = FALSE /\ overlapped = FALSE

Unlocked == lock = {}

Saving(h) == pc[h] \in {"write", "rename"}

------------------------------------------------------------------------------
(* Plausible bugs, for the properties to catch. *)

\* save_config writes config.json itself.
OpenInPlace(h) ==
    /\ pc[h] = "open"
    /\ file' = Torn
    /\ place' = [place EXCEPT ![h] = "file"]
    /\ overlapped' = (overlapped \/ \E g \in Handlers : Saving(g))
    /\ pc' = [pc EXCEPT ![h] = "write"]
    /\ UNCHANGED <<memory, applied, tmp, lock, events, watch, job, snap, down, jobs,
                   faults, failed, overtaken>>

\* The watcher hands the proxy section over after the memory was replaced, and
\* takes it from the memory of before.
WatchApplyOld ==
    /\ watcher = "apply"
    /\ applied' = memory.proxy
    /\ watcher' = "store"
    /\ UNCHANGED <<memory, lock, disk, events, loaded, process, down, history>>

------------------------------------------------------------------------------
(* The edit of the memory. *)

Receive(h) ==
    /\ pc[h] = "idle" /\ jobs < MaxJobs /\ ~down
    /\ jobs' = jobs + 1
    /\ \E j \in Jobs : job' = [job EXCEPT ![h] = j]
    /\ pc' = [pc EXCEPT ![h] = "begin"]
    /\ UNCHANGED <<memory, lock, file, tmp, applied, events, watch, snap, place, down,
                   faults, failed, overtaken, overlapped>>

\* A request answered 404 or 409, or an import with nothing new: no change.
Refused(j, c) ==
    \/ j.op = "add" /\ j.key \in Names(c)
    \/ j.op \in {"patchKey", "delete"} /\ j.i > Len(c.keys)
    \/ j.op = "import" /\ {j.keys[n] : n \in DOMAIN j.keys} \subseteq Names(c)

SettingsPatched(c, v) == [c EXCEPT !.model = v]

ProxyPatched(c, v) == [c EXCEPT !.proxy = [on |-> TRUE, nodes |-> v]]

KeyAdded(c, k) == [c EXCEPT !.keys = Append(@, Fresh(k))]

KeyPatched(c, i) == [c EXCEPT !.keys[i].on = ~@]

\* The batch edit passes over indices that are not there.
KeysPatched(c, I) ==
    [c EXCEPT !.keys = [i \in DOMAIN @ |-> IF i \in I THEN [@[i] EXCEPT !.on = FALSE]
                                                      ELSE @[i]]]

\* Each imported record is compared with the keys there are, not with the
\* records before it.
KeysImported(c, ks) ==
    LET kept(k) == IF k \in Names(c) THEN <<>> ELSE <<Fresh(k)>>
    IN  [c EXCEPT !.keys = @ \o kept(ks[1]) \o kept(ks[2])]

Edited(j, c) ==
    CASE j.op = "settings" -> SettingsPatched(c, j.v)
      [] j.op = "proxy"    -> ProxyPatched(c, j.v)
      [] j.op = "add"      -> KeyAdded(c, j.key)
      [] j.op = "patchKey" -> KeyPatched(c, j.i)
      [] j.op = "batch"    -> KeysPatched(c, j.is)
      [] j.op = "import"   -> KeysImported(c, j.keys)

Refuse(h) ==
    /\ pc[h] = "begin" /\ Unlocked /\ Refused(job[h], memory)
    /\ pc' = [pc EXCEPT ![h] = "idle"]
    /\ UNCHANGED <<copies, lock, tmp, events, watch, job, snap, place, down, history>>

\* The edit is published when the guard is dropped, before the file is written.
Publish(h) ==
    /\ pc[h] = "begin" /\ Unlocked
    /\ job[h].op \in {"settings", "proxy", "add", "patchKey", "batch"}
    /\ ~Refused(job[h], memory)
    /\ memory' = Edited(job[h], memory)
    /\ snap' = [snap EXCEPT ![h] = memory']
    /\ pc' = [pc EXCEPT ![h] = "open"]
    /\ UNCHANGED <<lock, file, tmp, applied, events, watch, job, place, down, history>>

\* A proxy patch is applied field by field: the fields before a bad node are
\* published although the request is answered 400 and nothing is saved.
RejectPatch(h) ==
    /\ pc[h] = "begin" /\ Unlocked /\ job[h].op = "reject"
    /\ memory' = [memory EXCEPT !.proxy.on = ~@]
    /\ failed' = TRUE
    /\ pc' = [pc EXCEPT ![h] = "idle"]
    /\ UNCHANGED <<lock, file, tmp, applied, events, watch, job, snap, place, down,
                   jobs, faults, overtaken, overlapped>>

\* api_keys_import writes the file before its guard is dropped.
BeginImport(h) ==
    /\ pc[h] = "begin" /\ Unlocked /\ job[h].op = "import" /\ ~Refused(job[h], memory)
    /\ lock' = {h}
    /\ snap' = [snap EXCEPT ![h] = Edited(job[h], memory)]
    /\ pc' = [pc EXCEPT ![h] = "open"]
    /\ UNCHANGED <<copies, tmp, events, watch, job, place, down, history>>

\* api_keys_delete takes the lock three times: to read the key it deletes, ...
ReadDeleted(h) ==
    /\ pc[h] = "begin" /\ Unlocked /\ job[h].op = "delete" /\ ~Refused(job[h], memory)
    /\ snap' = [snap EXCEPT ![h] = memory]
    /\ pc' = [pc EXCEPT ![h] = "remove"]
    /\ UNCHANGED <<copies, lock, tmp, events, watch, job, place, down, history>>

\* ... to compute the list without the index, ...
Remove(h) ==
    /\ pc[h] = "remove" /\ Unlocked /\ job[h].i <= Len(memory.keys)
    /\ snap' = [snap EXCEPT ![h] = Without(memory, job[h].i)]
    /\ pc' = [pc EXCEPT ![h] = "open"]
    /\ UNCHANGED <<copies, lock, tmp, events, watch, job, place, down, history>>

\* ... and, after the file was written, to replace the whole configuration.
StoreDeleted(h) ==
    /\ pc[h] = "saved" /\ job[h].op = "delete" /\ Unlocked
    /\ memory' = snap[h]
    /\ overtaken' = (overtaken \/ file # snap[h])
    /\ pc' = [pc EXCEPT ![h] = "idle"]
    /\ UNCHANGED <<lock, file, tmp, applied, events, watch, job, snap, place, down,
                   jobs, faults, failed, overlapped>>

------------------------------------------------------------------------------
(* atomic_write: truncate and write config.json.tmp, rename it. *)

Open(h) ==
    /\ pc[h] = "open"
    /\ tmp' = Torn
    /\ place' = [place EXCEPT ![h] = "tmp"]
    /\ overlapped' = (overlapped \/ \E g \in Handlers : Saving(g))
    /\ pc' = [pc EXCEPT ![h] = "write"]
    /\ UNCHANGED <<copies, lock, events, watch, job, snap, down, jobs, faults, failed,
                   overtaken>>

Write(h) ==
    /\ pc[h] = "write"
    /\ tmp' = IF place[h] = "tmp" THEN snap[h] ELSE tmp
    /\ file' = IF place[h] = "file" THEN snap[h] ELSE file
    /\ events' = IF place[h] = "file" THEN events + 1 ELSE events
    /\ place' = [place EXCEPT ![h] = "closed"]
    /\ pc' = [pc EXCEPT ![h] = "rename"]
    /\ UNCHANGED <<memory, applied, lock, watch, job, snap, down, history>>

\* The inodes open under the temporary name are config.json from now on.
Moved(p) == CASE p = "tmp" -> "file" [] p = "file" -> "gone" [] OTHER -> p

Rename(h) ==
    /\ pc[h] = "rename" /\ tmp # Absent
    /\ file' = tmp /\ tmp' = Absent
    /\ place' = [g \in Handlers |-> Moved(place[g])]
    /\ events' = events + 1
    /\ pc' = [pc EXCEPT ![h] = "saved"]
    /\ UNCHANGED <<memory, applied, lock, watch, job, snap, down, history>>

\* The disk refuses the write, or another save has renamed the file already.
SaveFails(h) ==
    /\ \/ pc[h] \in {"open", "write"} /\ faults < MaxFaults /\ faults' = faults + 1
       \/ pc[h] = "rename" /\ tmp = Absent /\ faults' = faults
    /\ place' = [place EXCEPT ![h] = "closed"]
    /\ failed' = TRUE
    /\ pc' = [pc EXCEPT ![h] = "failed"]
    /\ UNCHANGED <<copies, lock, tmp, events, watch, job, snap, down, jobs, overtaken,
                   overlapped>>

------------------------------------------------------------------------------
(* What follows the write. *)

\* Settings and keys: nothing.  A failed edit other than an added key stays in
\* memory.
Answer(h) ==
    /\ \/ pc[h] = "saved" /\ job[h].op \in {"settings", "add", "patchKey", "batch"}
       \/ pc[h] = "failed" /\ job[h].op \in {"settings", "proxy", "patchKey", "batch", "delete"}
    /\ pc' = [pc EXCEPT ![h] = "idle"]
    /\ UNCHANGED <<copies, lock, tmp, events, watch, job, snap, place, down, history>>

ReplacePool(h) ==
    /\ pc[h] = "saved" /\ job[h].op = "proxy"
    /\ applied' = snap[h].proxy
    /\ overtaken' = (overtaken \/ file # snap[h])
    /\ pc' = [pc EXCEPT ![h] = "idle"]
    /\ UNCHANGED <<memory, file, lock, tmp, events, watch, job, snap, place, down,
                   jobs, faults, failed, overlapped>>

\* The key that could not be saved is taken to be the last one.
PopAdded(h) ==
    /\ pc[h] = "failed" /\ job[h].op = "add" /\ Unlocked
    /\ memory' = IF memory.keys = <<>> THEN memory ELSE Without(memory, Len(memory.keys))
    /\ pc' = [pc EXCEPT ![h] = "idle"]
    /\ UNCHANGED <<file, applied, lock, tmp, events, watch, job, snap, place, down, history>>

EndImport(h) ==
    /\ pc[h] \in {"saved", "failed"} /\ job[h].op = "import"
    /\ memory' = snap[h]
    /\ lock' = {}
    /\ pc' = [pc EXCEPT ![h] = "idle"]
    /\ UNCHANGED <<file, applied, tmp, events, watch, job, snap, place, down, history>>

------------------------------------------------------------------------------
(* watch_config. *)

WatchLoad ==
    /\ watcher = "idle" /\ events > 0
    /\ events' = events - 1
    /\ IF file = Torn
       THEN UNCHANGED watch
       ELSE loaded' = file /\ watcher' = "apply"
    /\ UNCHANGED <<copies, lock, tmp, process, place, down, history>>

WatchApply ==
    /\ watcher = "apply"
    /\ applied' = loaded.proxy
    /\ watcher' = "store"
    /\ UNCHANGED <<memory, lock, disk, events, loaded, process, down, history>>

WatchStore ==
    /\ watcher = "store" /\ Unlocked
    /\ memory' = loaded
    /\ watcher' = "idle"
    /\ UNCHANGED <<lock, disk, applied, events, loaded, process, down, history>>

------------------------------------------------------------------------------
(* The process ends, by a signal or because Vec::remove panics (the build   *)
(* aborts on a panic), and starts again on the file it finds.               *)

Restart ==
    /\ IF file = Torn
       THEN down' = TRUE /\ UNCHANGED <<memory, applied>>
       ELSE memory' = file /\ applied' = file.proxy /\ UNCHANGED down
    /\ lock' = {} /\ events' = 0 /\ watcher' = "idle"
    /\ pc' = [h \in Handlers |-> "idle"]
    /\ place' = [h \in Handlers |-> "closed"]
    /\ UNCHANGED <<file, tmp, loaded, job, snap, jobs, failed, overtaken, overlapped>>

Crash == ~down /\ faults < MaxFaults /\ faults' = faults + 1 /\ Restart

Abort ==
    /\ \E h \in Handlers :
         pc[h] = "remove" /\ Unlocked /\ job[h].i > Len(memory.keys)
    /\ faults' = faults /\ Restart

HandlerStep(h) ==
    \/ Refuse(h) \/ Publish(h) \/ RejectPatch(h) \/ BeginImport(h)
    \/ ReadDeleted(h) \/ Remove(h) \/ StoreDeleted(h)
    \/ Open(h) \/ Write(h) \/ Rename(h) \/ SaveFails(h)
    \/ Answer(h) \/ ReplacePool(h) \/ PopAdded(h) \/ EndImport(h)

Next ==
    \/ \E h \in Handlers : Receive(h) \/ HandlerStep(h)
    \/ WatchLoad \/ WatchApply \/ WatchStore
    \/ Crash \/ Abort

Spec == Init /\ [][Next]_vars

------------------------------------------------------------------------------
(* Properties. *)

\* Every copy is a configuration, or a file that is missing or being written.
TypeOK ==
    /\ memory \in Config /\ loaded \in Config
    /\ file \in Config \cup {Torn} /\ tmp \in Config \cup {Torn, Absent}
    /\ applied \in [on : BOOLEAN, nodes : Values]
    /\ lock \subseteq Handlers /\ events \in Nat
    /\ watcher \in {"idle", "apply", "store"}
    /\ pc \in [Handlers -> {"idle", "begin", "remove", "open", "write", "rename",
                            "saved", "failed"}]
    /\ job \in [Handlers -> Jobs] /\ snap \in [Handlers -> Config]
    /\ place \in [Handlers -> {"closed", "tmp", "file", "gone"}]
    /\ down \in BOOLEAN /\ failed \in BOOLEAN /\ overtaken \in BOOLEAN
    /\ overlapped \in BOOLEAN /\ jobs \in Nat /\ faults \in Nat

\* config.json is never seen truncated, and so the gateway can always start
\* again, as long as no two saves were under way at once: atomic_write keeps
\* that promise against crashes and failed writes, and against nothing more.
TornOnlyByOverlap == (file = Torn \/ down) => overlapped

Settled ==
    /\ \A h \in Handlers : pc[h] = "idle"
    /\ watcher = "idle" /\ events = 0

\* Whatever the interleaving of edits, saves and reloads, when all is quiet the
\* memory, the file and the proxy pool agree, unless an edit was not saved or a
\* handler took its last step (a deleted key's store, a proxy patch's replace)
\* after another handler's file had replaced its own.
EditsConverge ==
    (Settled /\ ~down /\ ~failed /\ ~overtaken)
        => memory = file /\ applied = file.proxy

\* config.rs: "the write path is copy-on-write and serialised with a mutex".
\* The store that ends api_keys_delete, or the rollback of api_keys_add, changes
\* no entry but the one it is about.
WritesSerialised ==
    [][\A h \in Handlers :
         /\ StoreDeleted(h) => \E i \in DOMAIN memory.keys : memory' = Without(memory, i)
         /\ PopAdded(h) => memory'.keys = SelectSeq(memory.keys,
                                            LAMBDA e : e.key # job[h].key)]_vars
=============================================================================
