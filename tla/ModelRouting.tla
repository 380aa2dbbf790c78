---------------------------- MODULE ModelRouting ----------------------------
(***************************************************************************)
(* Model names, the menu of models and the smart routing of models.rs, as  *)
(* pure operators over a state d of the registry, the list up of names the *)
(* upstream reported and a map of prices.                                  *)
(*                                                                         *)
(* A name is the sequence of the segments between its hyphens, a variant   *)
(* suffix such as "extra-high" being one segment: claude-opus-high-fast is *)
(* <<"claude-opus", "high", "fast">>.  <<>> stands for "no name".          *)
(***************************************************************************)
EXTENDS Naturals, Sequences, SequencesExt

CONSTANTS Builtin,      \* names of the built-in price table
          Alias         \* kimi-k3, the name the gateway itself resolves

VariantSuffixes == {"fast", "extra-high", "minimal", "medium", "xhigh", "high", "low",
                    "max", "none", "thinking"}
Levels == {"low", "medium", "high", "max"}
NoLevel == "auto"

\* All variant suffixes stripped; the first segment always stays.
family_base(m) ==
    SubSeq(m, 1, Max({1} \cup {i \in 1 .. Len(m) : m[i] \notin VariantSuffixes}))
Stripped(m) == {SubSeq(m, 1, k) : k \in Len(family_base(m)) .. Len(m)}
IsFast(m) == Len(m) > 1 /\ Last(m) = "fast"
Cursor(m) == <<"cursor">> \o m

family_has_variants(base, up) ==
    \E u \in up : IsStrictPrefix(base, u) /\ family_base(u) = base
Reported(m, up) == m \in up \/ family_has_variants(m, up)
upstream_present(m, up) ==
    up = {} \/ m = Alias \/ \E s \in Stripped(m) : Reported(s, up)

(***************************************************************************)
(* Groups of models.  A pattern is an exact name, or with star a prefix of *)
(* the plain names or, with fast, of the fast ones.                        *)
(***************************************************************************)
pattern_matches(p, m) ==
    IF p.star THEN IsFast(m) = p.fast /\ IsPrefix(p.prefix, m) ELSE p.prefix = m
GroupContains(g, m) ==
    /\ ~\E p \in g.excluded : pattern_matches(p, m)
    /\ \E p \in g.members : pattern_matches(p, m)
\* A group that is gone or off admits nothing.
allowed_by_groups(d, allowed, m) ==
    allowed = {} \/ \E g \in allowed \cap DOMAIN d.groups :
                        d.groups[g].on /\ GroupContains(d.groups[g], m)

(***************************************************************************)
(* Entries and family rules                                                *)
(***************************************************************************)
\* The entry of a name is the longest one that is a prefix of it.
Entries(d, m) == {e \in DOMAIN d.models : IsPrefix(e, m)}
lookup(d, m) == CHOOSE e \in Entries(d, m) : \A f \in Entries(d, m) : Len(f) <= Len(e)
is_disabled(d, m) == Entries(d, m) # {} /\ ~d.models[lookup(d, m)].enabled

DefaultRule == [tier |-> NoLevel, menu |-> "base_and_fast", blocked |-> {}]
family_rule(d, f) == IF f \in DOMAIN d.rules THEN d.rules[f] ELSE DefaultRule
\* Rules are kept under the name customers use, without "cursor-".
RuleName(base) == IF Len(base) > 1 /\ Head(base) = "cursor" THEN Tail(base) ELSE base

is_hidden(d, m) ==
    \/ m \in DOMAIN d.models /\ d.models[m].hidden
    \/ \E f \in {family_base(m), RuleName(family_base(m))} :
           family_rule(d, f).menu = "hidden"

builtin_model_known(m) ==
    \E n \in Builtin : IsPrefix(n, IF IsFast(m) THEN Front(m) ELSE m)
model_known(d, m, up) ==
    \/ Entries(d, m) # {}
    \/ builtin_model_known(m)
    \/ upstream_present(m, up) \/ upstream_present(Cursor(m), up)

(***************************************************************************)
(* The menu of /v1/models                                                  *)
(***************************************************************************)
\* For a name without an entry the longest stripped form decides that the
\* upstream reports or an entry is for.
is_visible(d, m, up) ==
    LET hits == {s \in Stripped(m) : Reported(s, up) \/ s \in DOMAIN d.models}
        best == CHOOSE s \in hits : \A t \in hits : Len(t) <= Len(s)
    IN IF m \in DOMAIN d.models THEN d.models[m].enabled
       ELSE hits # {} /\ (Reported(best, up) \/ d.models[best].enabled)

HasFast(base, up) == \E u \in up : IsFast(u) /\ family_base(u) = base
FamilyMenu(d, m, up) ==
    LET base == family_base(m)
        fast == Append(base, "fast")
        mode == family_rule(d, base).menu
    IN IF ~is_visible(d, base, up) \/ is_hidden(d, base) THEN {}
       ELSE {base}
            \cup (IF mode = "all" THEN {m} \cap up ELSE {})
            \cup (IF mode = "base_and_fast" /\ HasFast(base, up) /\ ~is_hidden(d, fast)
                  THEN {fast} ELSE {})

\* An enabled entry is offered whatever the upstream says.
Published(d) ==
    {m \in DOMAIN d.models : /\ d.models[m].enabled /\ ~d.models[m].hidden
                             /\ family_rule(d, family_base(m)).menu # "hidden"}
visible_models(d, up, seen) ==
    Published(d)
    \cup {b \in Builtin : /\ up # {} /\ b \notin up
                          /\ upstream_present(Cursor(b), up) /\ ~is_hidden(d, b)}
    \cup UNION {FamilyMenu(d, m, up) : m \in up \cup seen}

(***************************************************************************)
(* The routing of a requested name to a variant the upstream reports.  The *)
(* body gives the level asked for, if any, and the one its size suggests.  *)
(* The code's second look at prices compares a variant only with itself.   *)
(***************************************************************************)
Candidates(level) ==
    CASE level = "max"    -> <<"max", "xhigh", "extra-high", "high">>
      [] level = "high"   -> <<"high", "medium", "low", "xhigh">>
      [] level = "medium" -> <<"medium", "low", "high">>
      [] level = "low"    -> <<"low", "minimal", "none", "medium">>
Pick(base, level, up) ==
    LET i == SelectInSeq(Candidates(level), LAMBDA c : Append(base, c) \in up)
    IN IF i = 0 THEN <<>> ELSE Append(base, Candidates(level)[i])

\* The level asked for, or the family's; one that is blocked gives way to the
\* family's, and to none when that is blocked too.
LevelFor(rule, asked) ==
    LET level == IF asked # NoLevel THEN asked ELSE rule.tier
    IN IF level \notin rule.blocked THEN level
       ELSE IF rule.tier \notin rule.blocked THEN rule.tier
       ELSE NoLevel

Cheapest(base, up, prices) ==
    LET priced == {u \in up \cap DOMAIN prices : family_base(u) = base /\ prices[u] > 0}
    IN IF priced = {} THEN <<>>
       ELSE CHOOSE u \in priced : \A v \in priced : prices[u] <= prices[v]

OrElse(m, n) == IF m # <<>> THEN m ELSE n

\* Mutant: a candidate is taken without looking it up.
FamilyVariantBlind(d, base, body, up, prices) ==
    LET level == LevelFor(family_rule(d, RuleName(base)), body.asked)
    IN Append(base, Candidates(IF level = NoLevel THEN body.guess ELSE level)[1])
FamilyVariant(d, base, body, up, prices) ==
    LET level == LevelFor(family_rule(d, RuleName(base)), body.asked)
        fast == Append(base, "fast")
        chosen == IF level # NoLevel THEN Pick(base, level, up)
                  ELSE OrElse(Cheapest(base, up, prices), Pick(base, body.guess, up))
    IN OrElse(chosen, IF fast \in up THEN fast ELSE <<>>)

\* Mutant: a family is looked for under the name customers use only.
ResolveBasePlain(d, m, body, up, prices) ==
    IF m \in up \/ family_base(m) # m \/ ~family_has_variants(m, up) THEN <<>>
    ELSE FamilyVariant(d, m, body, up, prices)
\* A family known only as cursor-<name> is routed to under that name.
ResolveBase(d, m, body, up, prices) ==
    LET base == IF family_has_variants(m, up) \/ ~family_has_variants(Cursor(m), up)
                THEN m ELSE Cursor(m)
    IN IF m \in up \/ family_base(m) # m \/ ~family_has_variants(base, up) THEN <<>>
       ELSE FamilyVariant(d, base, body, up, prices)

resolve_smart_model(d, m, body, up, prices) ==
    IF up = {} \/ m \in up THEN <<>>
    ELSE IF IsFast(m) /\ family_base(Front(m)) = Front(m)
    THEN LET plain == ResolveBase(d, Front(m), body, up, prices)
             fast == Append(plain, "fast")
         IN IF plain # <<>> /\ fast \in up THEN fast ELSE plain
    ELSE ResolveBase(d, m, body, up, prices)

auto_select_kimi_model(body) ==
    LET level == IF body.asked # NoLevel THEN body.asked ELSE body.guess
    IN Append(Alias, IF level = "medium" THEN "high" ELSE level)

Route(d, m, body, up, prices) ==
    LET named == IF m = Alias THEN auto_select_kimi_model(body) ELSE m
    IN OrElse(resolve_smart_model(d, named, body, up, prices), named)

(***************************************************************************)
(* The gate of a request.  The groups of a card's plan are checked on the  *)
(* name asked for, those of an API key on the name it is routed to.        *)
(***************************************************************************)
Gate(d, holder, m, body, up, prices) ==
    LET routed == Route(d, m, body, up, prices)
    IN IF holder.card /\ ~allowed_by_groups(d, holder.groups, m) THEN "forbidden"
       ELSE IF ~model_known(d, routed, up) THEN "unknown"
       ELSE IF is_disabled(d, routed) THEN "disabled"
       ELSE IF ~holder.card /\ ~allowed_by_groups(d, holder.groups, routed)
       THEN "forbidden" ELSE "open"

Menu(d, holder, default, up, seen) ==
    {m \in {default, Alias} \cup visible_models(d, up, seen) :
        allowed_by_groups(d, holder.groups, m)}
=============================================================================
