--------------------------- MODULE EgressProxies ---------------------------
(***************************************************************************)
(* The egress proxy pool (src/proxypool.rs), the clients CursorFactory     *)
(* keeps per proxy (main.rs), and the panel operations on them             *)
(* (src/admin/proxies.rs).                                                 *)
(*                                                                         *)
(* The configuration is an ArcSwap, runtime and bindings are DashMaps, the *)
(* client cache is another: a request takes one snapshot of the            *)
(* configuration and reads the maps as it goes, while the panel replaces   *)
(* the configuration, prunes the maps and clears the cache in three steps. *)
(***************************************************************************)
EXTENDS Naturals, Sequences, FiniteSets

CONSTANTS
    Requests, Accounts, Nodes, Urls,
    Configs,        \* proxy sections the panel may store
    ManualNode,     \* Account.proxy_id, None when empty
    HashOf,         \* DefaultHasher of an account id
    FailThreshold,  \* fail_threshold
    RrModulus,      \* values of the counter rr: 2^64 in the code
    None,
    MaxEdits,       \* bound: configurations stored and rebalances
    MaxProbes       \* bound: probes answered

Modes == {"hash", "round_robin", "least_accounts", "exclusive"}
Node == [id : Nodes, url : Urls, enabled : BOOLEAN, maxAccounts : Nat]
\* The accounts a rule's prefix and tags match, the nodes its tags and region do.
Rule == [accounts : SUBSET Accounts, nodes : SUBSET Nodes, mode : Modes, priority : Nat]
PoolConfig == [enabled : BOOLEAN, requireProxy : BOOLEAN, mode : Modes,
               nodes : Seq(Node), rules : Seq(Rule)]

ASSUME ProxyAssumption ==
    /\ Configs \subseteq PoolConfig /\ Configs # {}
    /\ \A c \in Configs : \A i, j \in DOMAIN c.nodes :
         c.nodes[i].id = c.nodes[j].id => i = j
    /\ None \notin Nodes \cup Urls /\ IsFiniteSet(Accounts)
    /\ ManualNode \in [Accounts -> Nodes \cup {None}]
    /\ HashOf \in [Accounts -> Nat]
    /\ FailThreshold \in Nat \ {0} /\ RrModulus \in Nat \ {0}
    /\ MaxEdits \in Nat /\ MaxProbes \in Nat

VARIABLES
    cfg,
    tracked, fails, \* runtime: the nodes it has, their consecutive_fails
    bindings,       \* account -> node
    rr,             \* the round-robin counter
    cache,          \* CursorFactory.proxied: the url of each node's client
    panel,          \* what an edit has left to do
    probing,        \* nodes whose probe is under way
    at, account, seen, choice,
    client,         \* the client of a request: its node and url
    edits, probes,
    (* history *)
    straddled,      \* nodes whose client was built from a replaced configuration
    late            \* accounts bound from a replaced configuration

pool == <<cfg, tracked, fails, bindings, rr, cache, panel>>
request == <<at, account, seen, choice, client>>
proxyVars == <<pool, probing, request, edits, probes, straddled, late>>

Ids(c) == {c.nodes[i].id : i \in DOMAIN c.nodes}
NodeOf(c, n) == c.nodes[CHOOSE i \in DOMAIN c.nodes : c.nodes[i].id = n]
Usable(c, n) == n \in Ids(c) /\ NodeOf(c, n).enabled

\* What a request has seen before it looks.
Unseen == CHOOSE c \in Configs : TRUE
Direct == [node |-> None, url |-> None]
Free == [a \in Accounts |-> None]

ProxyInit ==
    /\ cfg \in Configs /\ tracked = Ids(cfg)
    /\ fails = [n \in Nodes |-> 0]
    /\ bindings = Free /\ rr = 0
    /\ cache = [n \in Nodes |-> None]
    /\ panel = "idle" /\ probing = {}
    /\ at = [r \in Requests |-> "idle"]
    /\ account \in [Requests -> Accounts]
    /\ seen = [r \in Requests |-> Unseen]
    /\ choice = [r \in Requests |-> None]
    /\ client = [r \in Requests |-> Direct]
    /\ edits = 0 /\ probes = 0 /\ straddled = {} /\ late = {}

------------------------------------------------------------------------------
(* auto_assign, as a function of the maps. *)

BoundCount(n) == Cardinality({a \in Accounts : bindings[a] = n})

\* A node the runtime does not know counts as healthy.
Healthy(n) == n \in tracked => fails[n] < FailThreshold

\* cap_for: no cap is 0 accounts allowed in no other mode than exclusive.
Full(node, mode) ==
    LET cap == IF mode = "exclusive" /\ node.maxAccounts = 0 THEN 1 ELSE node.maxAccounts
    IN  cap # 0 /\ BoundCount(node.id) >= cap

\* The nodes to choose from, by their place in the list.
Candidates(c, allowed, mode) ==
    {i \in DOMAIN c.nodes : /\ c.nodes[i].enabled /\ Healthy(c.nodes[i].id)
                            /\ c.nodes[i].id \in allowed /\ ~Full(c.nodes[i], mode)}

\* The candidate that has k others before it.
Nth(cands, k) == CHOOSE i \in cands : Cardinality({j \in cands : j < i}) = k

\* The first of the candidates with the fewest accounts.
LeastBound(c, cands) ==
    LET bound(i) == BoundCount(c.nodes[i].id)
    IN  CHOOSE i \in cands : \A j \in cands :
            bound(i) < bound(j) \/ (bound(i) = bound(j) /\ i <= j)

Pick(c, a, cands, mode) ==
    LET n == Cardinality(cands)
        place == CASE mode = "hash"        -> Nth(cands, HashOf[a] % n)
                   [] mode = "round_robin" -> Nth(cands, rr % n)
                   [] OTHER                -> LeastBound(c, cands)
    IN  IF cands = {} THEN None ELSE c.nodes[place].id

\* The rules that apply, by falling priority and then by place; the default
\* mode over all nodes comes last.
Tries(c) == c.rules \o <<[accounts |-> Accounts, nodes |-> Nodes, mode |-> c.mode,
                          priority |-> 0]>>
Before(c, i, j) ==
    LET last == Len(Tries(c))
    IN  \/ i # last /\ j = last
        \/ i # last /\ j # last /\ \/ c.rules[i].priority > c.rules[j].priority
                                   \/ c.rules[i].priority = c.rules[j].priority /\ i < j

PickBy(c, a, i) ==
    LET try == Tries(c)[i]
    IN  IF a \in try.accounts
        THEN Pick(c, a, Candidates(c, try.nodes, try.mode), try.mode) ELSE None

\* The index of the rule that assigns, 0 when none does.
Assigning(c, a) ==
    LET hits == {i \in DOMAIN Tries(c) : PickBy(c, a, i) # None}
    IN  IF hits = {} THEN 0 ELSE CHOOSE i \in hits : \A j \in hits \ {i} : Before(c, i, j)

AutoAssign(c, a) ==
    LET i == Assigning(c, a) IN IF i = 0 THEN None ELSE PickBy(c, a, i)

\* Only the pick that succeeds advances the counter.
Turned(c, a) ==
    LET i == Assigning(c, a)
    IN  IF i # 0 /\ Tries(c)[i].mode = "round_robin" THEN (rr + 1) % RrModulus ELSE rr

------------------------------------------------------------------------------
(* A request: ProxyPool::resolve and CursorFactory::for_node. *)

Goto(r, l) == at' = [at EXCEPT ![r] = l]
Leave(r, cl) == Goto(r, "done") /\ client' = [client EXCEPT ![r] = cl]

\* set_binding, for a node of the request's snapshot.
BindTo(r, n) ==
    /\ bindings' = [bindings EXCEPT ![account[r]] = n]
    /\ late' = IF seen[r] = cfg THEN late \ {account[r]} ELSE late \cup {account[r]}

\* resolve takes its snapshot; a disabled pool is a direct connection.
Load(r) ==
    /\ at[r] = "idle"
    /\ seen' = [seen EXCEPT ![r] = cfg]
    /\ IF cfg.enabled THEN Goto(r, "bound") /\ UNCHANGED client ELSE Leave(r, Direct)
    /\ UNCHANGED <<pool, probing, account, choice, edits, probes, straddled, late>>

\* A missing node falls back to the rules.
ResolveManualLoosely(r) ==
    LET n == ManualNode[account[r]]
    IN  /\ at[r] = "bound" /\ n # None
        /\ IF Usable(seen[r], n)
           THEN BindTo(r, n) /\ choice' = [choice EXCEPT ![r] = n] /\ Goto(r, "client")
           ELSE Goto(r, "assign") /\ UNCHANGED <<bindings, late, choice>>
        /\ UNCHANGED <<cfg, tracked, fails, rr, cache, panel, probing, account, seen,
                       client, edits, probes, straddled>>

\* An account bound by hand uses its node or none.
ResolveManual(r) ==
    LET n == ManualNode[account[r]]
    IN  /\ at[r] = "bound" /\ n # None
        /\ IF Usable(seen[r], n)
           THEN BindTo(r, n) /\ choice' = [choice EXCEPT ![r] = n] /\ Goto(r, "client")
           ELSE Goto(r, "refused") /\ UNCHANGED <<bindings, late, choice>>
        /\ UNCHANGED <<cfg, tracked, fails, rr, cache, panel, probing, account, seen,
                       client, edits, probes, straddled>>

\* A binding to a node that is gone, off or unhealthy is dropped.
ResolveBound(r) ==
    LET a == account[r]
        n == bindings[a]
    IN  /\ at[r] = "bound" /\ ManualNode[a] = None
        /\ IF n # None /\ Usable(seen[r], n) /\ Healthy(n)
           THEN choice' = [choice EXCEPT ![r] = n] /\ Goto(r, "client") /\ UNCHANGED bindings
           ELSE bindings' = [bindings EXCEPT ![a] = None] /\ Goto(r, "assign")
                /\ UNCHANGED choice
        /\ UNCHANGED <<cfg, tracked, fails, rr, cache, panel, probing, account, seen,
                       client, edits, probes, straddled, late>>

Assign(r) ==
    LET n == AutoAssign(seen[r], account[r])
    IN  /\ at[r] = "assign"
        /\ rr' = Turned(seen[r], account[r])
        /\ choice' = [choice EXCEPT ![r] = n]
        /\ CASE n # None -> Goto(r, "bind") /\ UNCHANGED client
             [] n = None /\ seen[r].requireProxy -> Goto(r, "refused") /\ UNCHANGED client
             [] OTHER -> Leave(r, Direct)
        /\ UNCHANGED <<cfg, tracked, fails, bindings, cache, panel, probing, account, seen,
                       edits, probes, straddled, late>>

Bind(r) ==
    /\ at[r] = "bind"
    /\ BindTo(r, choice[r])
    /\ Goto(r, "client")
    /\ UNCHANGED <<cfg, tracked, fails, rr, cache, panel, probing, account, seen, choice,
                   client, edits, probes, straddled>>

\* The client of a node is built from the node of the request's snapshot.
ForNode(r) ==
    LET n == choice[r]
        url == NodeOf(seen[r], n).url
    IN  /\ at[r] = "client"
        /\ IF cache[n] # None
           THEN Leave(r, [node |-> n, url |-> cache[n]]) /\ UNCHANGED <<cache, straddled>>
           ELSE /\ cache' = [cache EXCEPT ![n] = url]
                /\ straddled' = IF seen[r] = cfg /\ panel = "idle"
                                THEN straddled \ {n} ELSE straddled \cup {n}
                /\ Leave(r, [node |-> n, url |-> url])
        /\ UNCHANGED <<cfg, tracked, fails, bindings, rr, panel, probing, account, seen,
                       choice, edits, probes, late>>

\* The next request of the same account.
Again(r) ==
    /\ at[r] \in {"done", "refused"}
    /\ Goto(r, "idle")
    /\ choice' = [choice EXCEPT ![r] = None]
    /\ client' = [client EXCEPT ![r] = Direct]
    /\ seen' = [seen EXCEPT ![r] = Unseen]
    /\ UNCHANGED <<pool, probing, account, edits, probes, straddled, late>>

------------------------------------------------------------------------------
(* The panel and the watcher store a configuration, prune, and invalidate. *)

Replace ==
    /\ panel = "idle" /\ edits < MaxEdits
    /\ edits' = edits + 1
    /\ \E c \in Configs \ {cfg} : cfg' = c
    /\ panel' = "sync"
    /\ UNCHANGED <<tracked, fails, bindings, rr, cache, probing, request, probes, straddled,
                   late>>

\* The bindings of nodes that are gone stay.
SyncRuntimeOnly ==
    /\ panel = "sync"
    /\ tracked' = Ids(cfg)
    /\ fails' = [n \in Nodes |-> IF n \in tracked \cap Ids(cfg) THEN fails[n] ELSE 0]
    /\ panel' = "invalidate" /\ late' = {}
    /\ UNCHANGED <<cfg, bindings, rr, cache, probing, request, edits, probes, straddled>>

SyncRuntime ==
    /\ panel = "sync"
    /\ tracked' = Ids(cfg)
    /\ fails' = [n \in Nodes |-> IF n \in tracked \cap Ids(cfg) THEN fails[n] ELSE 0]
    /\ bindings' = [a \in Accounts |-> IF bindings[a] \in Ids(cfg) THEN bindings[a] ELSE None]
    /\ panel' = "invalidate" /\ late' = {}
    /\ UNCHANGED <<cfg, rr, cache, probing, request, edits, probes, straddled>>

\* Only the clients of nodes that are gone are dropped.
InvalidateGone ==
    /\ panel = "invalidate"
    /\ cache' = [n \in Nodes |-> IF n \in Ids(cfg) THEN cache[n] ELSE None]
    /\ panel' = "idle"
    /\ straddled' = {}
    /\ UNCHANGED <<cfg, tracked, fails, bindings, rr, probing, request, edits, probes, late>>

Invalidate ==
    /\ panel = "invalidate"
    /\ cache' = [n \in Nodes |-> None]
    /\ panel' = "idle"
    /\ straddled' = {}
    /\ UNCHANGED <<cfg, tracked, fails, bindings, rr, probing, request, edits, probes, late>>

\* rebalance clears the bindings, runs auto_assign for the accounts not bound by
\* hand and counts its results; it binds nobody.  Each round-robin pick among
\* them advances rr.
Rebalance ==
    /\ panel = "idle" /\ edits < MaxEdits /\ cfg.enabled
    /\ edits' = edits + 1
    /\ bindings' = Free
    /\ rr' \in IF \E i \in DOMAIN Tries(cfg) : Tries(cfg)[i].mode = "round_robin"
               THEN {(rr + k) % RrModulus :
                        k \in 0..Cardinality({a \in Accounts : ManualNode[a] = None})}
               ELSE {rr}
    /\ panel' = "invalidate"
    /\ UNCHANGED <<cfg, tracked, fails, cache, probing, request, probes, straddled, late>>

\* probe_nodes: every node of the configuration at its beginning, in parallel.
BeginProbe ==
    /\ probing = {} /\ probes < MaxProbes
    /\ probing' \in SUBSET Ids(cfg) \ {{}}
    /\ UNCHANGED <<pool, request, edits, probes, straddled, late>>

\* record_probe makes a runtime entry when there is none.
RecordProbe(n, ok) ==
    /\ n \in probing /\ probes < MaxProbes
    /\ probing' = probing \ {n} /\ probes' = probes + 1
    /\ tracked' = tracked \cup {n}
    /\ fails' = [fails EXCEPT ![n] = CASE ok -> 0
                                       [] OTHER -> @ + 1]
    /\ UNCHANGED <<cfg, bindings, rr, cache, panel, request, edits, straddled, late>>

Step(r) ==
    \/ Load(r) \/ ResolveManual(r) \/ ResolveBound(r) \/ Assign(r) \/ Bind(r)
    \/ ForNode(r) \/ Again(r)

ProxyNext ==
    \/ \E r \in Requests : Step(r)
    \/ Replace \/ SyncRuntime \/ Invalidate \/ Rebalance \/ BeginProbe
    \/ \E n \in Nodes, ok \in BOOLEAN : RecordProbe(n, ok)

ProxySpec == ProxyInit /\ [][ProxyNext]_proxyVars

------------------------------------------------------------------------------
(* Properties. *)

\* Maps and requests hold what their types say.
ProxyTypeOK ==
    /\ cfg \in Configs /\ tracked \subseteq Nodes /\ fails \in [Nodes -> Nat]
    /\ \A n \in Nodes \ tracked : fails[n] = 0
    /\ bindings \in [Accounts -> Nodes \cup {None}] /\ rr \in Nat
    /\ cache \in [Nodes -> Urls \cup {None}]
    /\ panel \in {"idle", "sync", "invalidate"} /\ probing \subseteq Nodes
    /\ at \in [Requests -> {"idle", "bound", "assign", "bind", "client", "done", "refused"}]
    /\ account \in [Requests -> Accounts] /\ seen \in [Requests -> Configs]
    /\ choice \in [Requests -> Nodes \cup {None}]
    /\ client \in [Requests -> [node : Nodes \cup {None}, url : Urls \cup {None}]]
    /\ edits \in Nat /\ probes \in Nat /\ straddled \subseteq Nodes /\ late \subseteq Accounts

\* What resolve promises for every request, whatever is replaced, probed or
\* rebalanced meanwhile: an account bound by hand leaves through its node or not
\* at all, no request goes out directly where the pool it saw requires a proxy,
\* and a node that was off in that pool is not used.
EgressLawful ==
    \A r \in Requests : at[r] = "done" =>
        /\ seen[r].enabled /\ ManualNode[account[r]] # None
             => client[r].node = ManualNode[account[r]]
        /\ seen[r].enabled /\ seen[r].requireProxy => client[r].node # None
        /\ client[r].node # None => Usable(seen[r], client[r].node)

\* Once an edit is complete, the cached client of a node connects to the url the
\* node is configured with, except for a client that a request built across the
\* edit, from the configuration it had loaded before.
CacheFresh ==
    panel = "idle" =>
        \A n \in Ids(cfg) \ straddled : cache[n] \in {None, NodeOf(cfg, n).url}

\* A binding does not outlive its node: when no edit is pending, an account is
\* bound to a configured node unless a request bound it across an edit.
BoundToKnown ==
    panel # "sync" => \A a \in Accounts \ late : bindings[a] \in Ids(cfg) \cup {None}

\* admin/proxies.rs: rebalance binds the accounts without a node of their own
\* by the current rules.
RebalanceRebinds ==
    [][Rebalance => \A a \in Accounts :
         ManualNode[a] = None /\ AutoAssign(cfg, a) # None => bindings'[a] # None]_proxyVars
=============================================================================
