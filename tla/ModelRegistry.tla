--------------------------- MODULE ModelRegistry ---------------------------
(***************************************************************************)
(* The registry of models (models.rs), its administration                  *)
(* (admin/models.rs, admin/model_center.rs) and the list of upstream names *)
(* kept by the card store, under concurrent edits, failed saves and        *)
(* restarts.                                                               *)
(*                                                                         *)
(* An edit reads the entry it starts from, loads and edits a clone of the  *)
(* data, renames its file into place and only then stores the clone; no    *)
(* lock spans these steps.  Of an entry the model keeps what decides on    *)
(* menu, routing and gate; the flags "upstream" and "known" decide on      *)
(* nothing, as any entry makes a name known.                               *)
(***************************************************************************)
EXTENDS ModelRouting, FiniteSets, TLC

CONSTANTS Segments,     \* what names are made of: strings without a hyphen
          Handlers,     \* admin requests that may run at the same time
          Managed,      \* names an operator enters, hides or deletes
          Rules,        \* family rules an operator may set
          RuledFamily,  \* the family they are set for
          Groups,       \* ids of model groups
          Members,      \* contents a group may be given
          UsedGroups,   \* groups that a key or a plan refers to
          Lists,        \* lists the upstream may report
          PriceMaps,    \* prices analytics may have
          Seen,         \* names the billing ledger holds
          Default,      \* config.default_model
          MaxJobs,      \* bound: edits of a behaviour
          MaxFaults     \* bound: failed saves and restarts

Names == Seq(Segments) \ {<<>>}

\* A list the upstream may report: names, with "cursor-" before them at most once.
Reportable(L) == /\ L \subseteq Names
                 /\ \A u \in L : ~(Len(u) > 1 /\ u[1] = "cursor" /\ u[2] = "cursor")

\* What is assumed of the constants.
Wellformed ==
    /\ VariantSuffixes \cup {"cursor"} \subseteq Segments
    /\ Builtin \cup Managed \cup Seen \cup {Alias, Default, RuledFamily} \subseteq Names
    /\ \A L \in Lists : Reportable(L)
    /\ \A r \in Rules : r.tier \in Levels \cup {NoLevel}
    /\ \A p \in PriceMaps : \A u \in DOMAIN p : p[u] \in Nat

ASSUME RegistryAssumption == Wellformed

VARIABLES data,         \* ModelRegistry.data
          file,         \* models.json
          up,           \* CardStore.upstream and upstream-models.json
          prices,       \* the price map of the last five minutes
          job,          \* what each handler does, Idle without a request
          phase,        \* its next step
          copy,         \* its edited clone of the data
          (* history *)
          hidden,       \* names an operator has hidden and not brought back
          lost,         \* those of them whose entry another edit took away since
          overlapped,   \* an edit ran while another was under way
          jobs, faults

store == <<data, file>>
handlers == <<job, phase, copy>>
history == <<hidden, lost, overlapped>>
registryVars ==
    <<data, file, up, prices, job, phase, copy, hidden, lost, overlapped, jobs, faults>>

Group == [members : Members, excluded : {{}}, on : BOOLEAN]
Idle == [op |-> "idle"]
Quiet == \A h \in Handlers : job[h] = Idle

Without(f, x) == [y \in DOMAIN f \ {x} |-> f[y]]
Put(f, x, v) == [y \in DOMAIN f \cup {x} |-> IF y = x THEN v ELSE f[y]]

(***************************************************************************)
(* Requests                                                                *)
(***************************************************************************)
Hides(m) == m \in DOMAIN data.models /\ data.models[m].hidden

\* Mutant: a bulk save that keeps only what the panel sent.
BulkTableReset(on) == [m \in DOMAIN on |-> [enabled |-> on[m], hidden |-> FALSE]]
\* The entries of a bulk save take over the hidden flag of the present ones.
BulkTable(on) == [m \in DOMAIN on |-> [enabled |-> on[m], hidden |-> Hides(m)]]

Upsert(m, enabled) ==
    [op |-> "upsert", model |-> m, entry |-> [enabled |-> enabled, hidden |-> Hides(m)]]

\* What the operator may ask for now.  Each entry of an import, and each
\* family of a synchronisation with the upstream, is one upsert of its own.
api_models_upsert == {Upsert(m, on) : m \in Managed, on \in BOOLEAN}
api_models_bulk ==
    {[op |-> "replace", table |-> BulkTable(on)] :
        on \in UNION {[T -> BOOLEAN] : T \in SUBSET Managed}}
api_models_import_builtin == {Upsert(m, TRUE) : m \in Builtin}
api_models_sync_from_upstream ==
    {Upsert(b, TRUE) : b \in {family_base(u) : u \in up} \ DOMAIN data.models}
\* The catalogue that is found first prices the names it knows, and leaves the
\* flags of the entries there are.
api_models_sync_litellm ==
    {Upsert(m, m \in DOMAIN data.models => data.models[m].enabled) :
        m \in Builtin \cup DOMAIN data.models \cup Seen}
api_models_delete ==
    {[op |-> IF m \in DOMAIN data.models THEN "delete" ELSE "hide", model |-> m] :
        m \in Managed}
\* A variant whose base has the same price is dropped.
api_models_prune_variant_prices ==
    {[op |-> "prune", model |-> m] :
        m \in {v \in DOMAIN data.models :
                 /\ family_base(v) # v
                 /\ family_base(v) \in DOMAIN data.models \cup Builtin}}
api_models_unhide == {[op |-> "unhide", model |-> m] : m \in Managed}
api_models_mark_known == {[op |-> "mark"]}
api_models_family_rule_set == {[op |-> "rule", rule |-> r] : r \in Rules}
api_models_family_rule_delete == {[op |-> "unrule"]}
api_groups_upsert == {[op |-> "group", id |-> g, group |-> c] : g \in Groups, c \in Group}
api_groups_delete == {[op |-> "ungroup", id |-> g] : g \in Groups \ UsedGroups}

Edits ==
    api_models_upsert \cup api_models_bulk \cup api_models_import_builtin
    \cup api_models_sync_from_upstream \cup api_models_sync_litellm \cup api_models_delete
    \cup api_models_prune_variant_prices \cup api_models_unhide
    \cup api_models_mark_known \cup api_models_family_rule_set
    \cup api_models_family_rule_delete \cup api_groups_upsert \cup api_groups_delete

(***************************************************************************)
(* The edit of a clone                                                     *)
(***************************************************************************)
Hide(d, m) == Put(d.models, m, IF m \in DOMAIN d.models
                               THEN [d.models[m] EXCEPT !.hidden = TRUE]
                               ELSE [enabled |-> TRUE, hidden |-> TRUE])
Edited(d, j) ==
    CASE j.op = "upsert"  -> [d EXCEPT !.models = Put(@, j.model, j.entry)]
      [] j.op = "replace" -> [d EXCEPT !.models = j.table]
      [] j.op \in {"delete", "prune"} -> [d EXCEPT !.models = Without(@, j.model)]
      [] j.op = "hide"    -> [d EXCEPT !.models = Hide(d, j.model)]
      [] j.op = "unhide"  -> [d EXCEPT !.models[j.model].hidden = FALSE]
      [] j.op = "mark"    -> d
      [] j.op = "rule"    -> [d EXCEPT !.rules = Put(@, RuledFamily, j.rule)]
      [] j.op = "unrule"  -> [d EXCEPT !.rules = Without(@, RuledFamily)]
      [] j.op = "group"   -> [d EXCEPT !.groups = Put(@, j.id, j.group)]
      [] j.op = "ungroup" -> [d EXCEPT !.groups = Without(@, j.id)]

\* Nothing to change, and nothing is saved.
Void(d, j) ==
    \/ j.op = "unhide" /\ ~(j.model \in DOMAIN d.models /\ d.models[j.model].hidden)
    \/ j.op = "mark" /\ DOMAIN d.models = {}
    \/ j.op = "unrule" /\ RuledFamily \notin DOMAIN d.rules

\* What the operator wants hidden once the edit is stored.
HiddenAfter(j) ==
    CASE j.op = "hide" -> hidden \cup {j.model}
      [] j.op \in {"unhide", "delete"} -> hidden \ {j.model}
      [] OTHER -> hidden

\* A bulk table without the name and the pruning of variants take its entry away.
LostAfter(j) ==
    CASE j.op \in {"hide", "unhide", "delete"} -> lost \ {j.model}
      [] j.op = "replace" -> lost \cup (hidden \ DOMAIN j.table)
      [] j.op = "prune"   -> lost \cup (hidden \cap {j.model})
      [] OTHER -> lost

(***************************************************************************)
(* Steps                                                                   *)
(***************************************************************************)
Empty == [models |-> <<>>, rules |-> <<>>, groups |-> <<>>]

RegistryInit ==
    /\ data = Empty /\ file = Empty
    /\ up = {} /\ prices \in PriceMaps
    /\ job = [h \in Handlers |-> Idle]
    /\ phase = [h \in Handlers |-> "idle"]
    /\ copy = [h \in Handlers |-> Empty]
    /\ hidden = {} /\ lost = {} /\ overlapped = FALSE
    /\ jobs = 0 /\ faults = 0

Ask(h, j) ==
    /\ job[h] = Idle /\ jobs < MaxJobs
    /\ job' = [job EXCEPT ![h] = j]
    /\ phase' = [phase EXCEPT ![h] = "load"]
    /\ overlapped' = (overlapped \/ ~Quiet)
    /\ jobs' = jobs + 1
    /\ UNCHANGED <<store, up, prices, copy, hidden, lost, faults>>

Done(h) ==
    /\ job' = [job EXCEPT ![h] = Idle]
    /\ phase' = [phase EXCEPT ![h] = "idle"]
    /\ copy' = [copy EXCEPT ![h] = Empty]

Load(h) ==
    /\ phase[h] = "load" /\ ~Void(data, job[h])
    /\ copy' = [copy EXCEPT ![h] = Edited(data, job[h])]
    /\ phase' = [phase EXCEPT ![h] = "save"]
    /\ UNCHANGED <<store, up, prices, job, history, jobs, faults>>

RefuseEdit(h) ==
    /\ phase[h] = "load" /\ Void(data, job[h])
    /\ Done(h)
    /\ UNCHANGED <<store, up, prices, history, jobs, faults>>

Save(h) ==
    /\ phase[h] = "save"
    /\ file' = copy[h]
    /\ phase' = [phase EXCEPT ![h] = "store"]
    /\ UNCHANGED <<data, up, prices, job, copy, history, jobs, faults>>

\* A file that cannot be written leaves the data as it was.
SaveFails(h) ==
    /\ phase[h] = "save" /\ faults < MaxFaults
    /\ Done(h)
    /\ faults' = faults + 1
    /\ UNCHANGED <<store, up, prices, history, jobs>>

Store(h) ==
    /\ phase[h] = "store"
    /\ data' = copy[h]
    /\ hidden' = HiddenAfter(job[h]) /\ lost' = LostAfter(job[h])
    /\ Done(h)
    /\ UNCHANGED <<file, up, prices, overlapped, jobs, faults>>

\* The list the upstream reports replaces the one before.
refresh_upstream_names ==
    /\ up' \in Lists
    /\ UNCHANGED <<store, prices, handlers, history, jobs, faults>>

analytics_price_map ==
    /\ prices' \in PriceMaps
    /\ UNCHANGED <<store, up, handlers, history, jobs, faults>>

\* After a restart the data is what models.json holds, an edit that was saved and
\* not stored yet included.
Restart ==
    /\ faults < MaxFaults
    /\ faults' = faults + 1
    /\ data' = file
    /\ job' = [h \in Handlers |-> Idle]
    /\ phase' = [h \in Handlers |-> "idle"]
    /\ copy' = [h \in Handlers |-> Empty]
    /\ IF \E h \in Handlers : phase[h] = "store"
       THEN \E h \in Handlers : /\ phase[h] = "store"
                                /\ hidden' = HiddenAfter(job[h]) /\ lost' = LostAfter(job[h])
       ELSE UNCHANGED <<hidden, lost>>
    /\ UNCHANGED <<file, up, prices, overlapped, jobs>>

RegistryNext ==
    \/ \E h \in Handlers :
          \/ \E j \in Edits : Ask(h, j)
          \/ Load(h) \/ RefuseEdit(h) \/ Save(h) \/ SaveFails(h) \/ Store(h)
    \/ refresh_upstream_names
    \/ analytics_price_map
    \/ Restart

RegistrySpec == RegistryInit /\ [][RegistryNext]_registryVars

(***************************************************************************)
(* What requests meet.  A body asks for a level or leaves it to its size.  *)
(***************************************************************************)
Bodies == [asked : Levels \cup {NoLevel}, guess : {"low", "high", "max"}]
KeyHolders == {[card |-> TRUE, groups |-> g] : g \in SUBSET Groups}
           \cup {[card |-> FALSE, groups |-> {}]}
Family(m) == RuleName(family_base(m))
Asked == UNION {{m, family_base(m), Family(m), Append(Family(m), "fast")} :
                    m \in up \cup Managed \cup Seen}

(***************************************************************************)
(* Whatever entries, rules and prices there are, smart routing replaces    *)
(* only a name the upstream does not report, by one that it does report    *)
(* and of the same family; and a level asked for that is neither blocked   *)
(* nor missing in the family is the level used (resolve_smart_model_full). *)
(***************************************************************************)
RouteLawful ==
    Quiet => \A m \in Asked, b \in Bodies :
        LET r == resolve_smart_model(data, m, b, up, prices)
        IN /\ r # <<>> => m \notin up /\ r \in up /\ Family(r) = Family(m)
           /\ (/\ m \notin up /\ family_base(m) = m
               /\ b.asked # NoLevel /\ Append(m, b.asked) \in up
               /\ b.asked \notin family_rule(data, RuleName(m)).blocked)
              => r = Append(m, b.asked)

Variants(m) == {u \in up : Family(u) = Family(m)}

\* The family of a name has a high and a lower variant, under the name customers
\* use or, when it has no variant under that one, with "cursor-".
OffersAllLevels(m) ==
    LET base == family_base(m)
        f == IF family_has_variants(base, up) THEN base ELSE Cursor(base)
    IN /\ base \notin up /\ family_has_variants(f, up)
       /\ Append(f, "high") \in up
       /\ {Append(f, "low"), Append(f, "medium")} \cap up # {}

(***************************************************************************)
(* A name on the menu of a card, or of a key without model groups, that is *)
(* the base of a family, its -fast form or reported by the upstream is     *)
(* never refused as unknown or forbidden, and reaches the upstream under a *)
(* name the upstream reports, at every level, if its family has a high and *)
(* a lower variant and no entry disables one of them (visible_models       *)
(* against resolve_smart_model, model_known, is_disabled and the groups).  *)
(* The alias is left out: auto_select_kimi_model does not look at the list.*)
(***************************************************************************)
ListedIsServed ==
    Quiet => \A holder \in KeyHolders :
        \A m \in Menu(data, holder, Default, up, Seen) \ {Alias} :
            (/\ m \in up \/ family_base(m) = m \/ (IsFast(m) /\ family_base(m) = Front(m))
             /\ OffersAllLevels(m)
             /\ \A v \in Variants(m) : ~is_disabled(data, v))
            => \A b \in Bodies : /\ Gate(data, holder, m, b, up, prices) = "open"
                                  /\ Route(data, m, b, up, prices) \in up

(***************************************************************************)
(* A name an operator has hidden stays hidden through upserts, imports,    *)
(* bulk saves, synchronisations and restarts until it is brought back or   *)
(* deleted, as long as edits do not overlap and none takes its entry away  *)
(* (a bulk table without it, the pruning of variants), and is then not on  *)
(* the menu unless its family lists every variant (the comment on          *)
(* ModelEntry.hidden: every write path must carry the flag over).          *)
(***************************************************************************)
HiddenKept ==
    ~overlapped => \A m \in hidden \ lost :
        /\ Hides(m)
        /\ m \in visible_models(data, up, Seen)
              => family_rule(data, family_base(m)).menu = "all"

(***************************************************************************)
(* What comments of the code say otherwise: none of these holds.           *)
(***************************************************************************)
\* "Every write path carries the flag over, or hidden rows come back"
\* (ModelEntry.hidden, api_models_bulk): not when the row itself is left out.
HiddenUntilBroughtBack == ~overlapped => \A m \in hidden : Hides(m)

\* "A blocked level gives way to the family's" (FamilyRule.blocked_tiers).
BlockedTierAvoided ==
    Quiet => \A m \in Asked, b \in Bodies :
        LET r == resolve_smart_model(data, m, b, up, prices)
        IN r # <<>> => Last(r) \notin family_rule(data, Family(r)).blocked

\* "A missing level falls back to the nearest there is" (resolve_smart_model).
EveryLevelRouted ==
    Quiet => \A m \in visible_models(data, up, Seen), b \in Bodies :
        family_has_variants(m, up) => Route(data, m, b, up, prices) \in up

\* "Listed, and routed to a fast variant" (visible_models, <base>-fast).
FastEntryRouted ==
    Quiet => \A m \in visible_models(data, up, Seen), b \in Bodies :
        (IsFast(m) /\ m \notin DOMAIN data.models) =>
            Route(data, m, b, up, prices) \in up
=============================================================================
