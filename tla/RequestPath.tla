---------------------------- MODULE RequestPath ----------------------------
(***************************************************************************)
(* A request from its token to its last exit (inference_handler_inner in   *)
(* src/main.rs), with what it holds on the way: an amount of the wallet    *)
(* (user_quota in cards.db), a card permit, a permit of the semaphore of   *)
(* its key, and its one record in the billing ledger.                      *)
(*                                                                         *)
(* The gates next to it are taken by what they promise: the card gate      *)
(* (CardGate) grants a permit or refuses, the account pool (AccountPool)   *)
(* grants an account or refuses, and the retry loop ends with a stream of  *)
(* frames or an error.  The wallet is the row of one user; rows of other   *)
(* users are touched by no request of this one.                            *)
(***************************************************************************)
EXTENDS Integers, FiniteSets

CONSTANTS
    Requests,
    PortalKeys,     \* uk- keys of the user, in quota or in card mode
    ApiKeys,        \* keys the operator may list in config.api_keys
    Cards,          \* card- tokens
    Semaphores,     \* identities of tokio semaphores
    NoSem,
    Caps,           \* values of max_concurrency
    Holds,          \* values of hold_estimate_micro
    Amounts,        \* what a request may turn out to cost, and credits
    InitialCredit,  \* credited_micro at the start
    MaxEvents       \* bound: configuration edits, credits, crashes

Keys == PortalKeys \cup ApiKeys
Tokens == Keys \cup Cards

ASSUME PathAssumption ==
    /\ IsFiniteSet(Requests) /\ IsFiniteSet(Keys)
    /\ PortalKeys \cap ApiKeys = {} /\ Cards \cap Keys = {}
    /\ IsFiniteSet(Semaphores) /\ NoSem \notin Semaphores
    \* a semaphore nobody refers to can always be found
    /\ Cardinality(Semaphores) > Cardinality(Requests) + Cardinality(Keys)
    /\ Caps \in SUBSET (Nat \ {0})
    /\ Holds \in SUBSET Nat
    /\ Amounts \in SUBSET Nat
    /\ InitialCredit \in Nat
    /\ MaxEvents \in Nat

VARIABLES
    apiKeys,    \* keys of config.api_keys
    apiCap,     \* their max_concurrency, NoCap without
    keySem,     \* AppState.key_semaphores
    semCap,     \* permits a semaphore was created with
    sweep,      \* {} or {active}, the keys the 60 s task has read
    credited, used,     \* the row of user_quota
    (* requests *)
    pc,
    token,
    cap,        \* max_concurrency of its key, until it has the semaphore
    sem,        \* the semaphore it has an Arc of
    claim,      \* card_permit or quota_hold, and what became of it
    hold,       \* quota_hold: the amount it has in used_micro
    (* observations *)
    granted,    \* the pool gave the request an account
    served,     \* upstream output for the request exists
    exit,       \* how it left
    records,    \* ledger.record calls
    spent,      \* amounts settled
    forgiven,   \* taken off used_micro by negative adjustments
    overshoot,  \* sum of what settlements exceeded their holds by
    peak,       \* the largest max_concurrency a key ever had
    kept,       \* api keys whose semaphore the 60 s task has no reason to drop
    events

config == <<apiKeys, apiCap, peak, kept>>
semaphores == <<keySem, semCap, sweep>>
wallet == <<credited, used, spent, forgiven, overshoot>>
request == <<pc, token, cap, sem, claim, hold, granted, served, exit, records>>
vars == <<config, semaphores, wallet, request, events>>

Label == {"arrived", "admit", "sem", "try", "parse", "pool", "upstream", "stream", "full",
          "settle", "record", "done"}
Claim == {"none", "card", "quota", "settled", "failed", "refunded"}

\* How a request leaves: at a gate, before anything is held for it; because its key
\* is busy; at a check after the gates; without frames; with an empty answer; after
\* its settlement; or cut off, by a dropped future or the end of the process.
Exit == {"none", "gate", "busy", "refused", "exhausted", "empty", "answered", "cut"}

\* A key record without max_concurrency
NoCap == 0

TypeOK ==
    /\ apiKeys \subseteq ApiKeys /\ kept \subseteq apiKeys
    /\ apiCap \in [ApiKeys -> Caps \cup {NoCap}] /\ peak \in [ApiKeys -> Caps \cup {NoCap}]
    /\ keySem \in [Keys -> Semaphores \cup {NoSem}]
    /\ semCap \in [Semaphores -> Caps \cup {0}]
    /\ sweep \in SUBSET SUBSET ApiKeys
    /\ credited \in Nat /\ used \in Nat
    /\ spent \in Nat /\ forgiven \in Nat /\ overshoot \in Nat
    /\ pc \in [Requests -> Label]
    /\ token \in [Requests -> Tokens]
    /\ cap \in [Requests -> Caps \cup {0}]
    /\ sem \in [Requests -> Semaphores \cup {NoSem}]
    /\ claim \in [Requests -> Claim]
    /\ hold \in [Requests -> Holds \cup {0}]
    /\ granted \in [Requests -> BOOLEAN]
    /\ served \in [Requests -> BOOLEAN]
    /\ exit \in [Requests -> Exit]
    /\ records \in [Requests -> Nat]
    /\ events \in 0..MaxEvents
----------------------------------------------------------------------------
\* The limits the operator may give to listed keys
Limits(keys) ==
    {limit \in [ApiKeys -> Caps \cup {NoCap}] : \A k \in ApiKeys \ keys : limit[k] = NoCap}

Init ==
    /\ apiKeys \in SUBSET ApiKeys /\ kept = apiKeys
    /\ apiCap \in Limits(apiKeys) /\ peak = apiCap
    /\ keySem = [k \in Keys |-> NoSem]
    /\ semCap = [s \in Semaphores |-> 0]
    /\ sweep = {}
    /\ credited = InitialCredit
    /\ used = 0 /\ spent = 0 /\ forgiven = 0 /\ overshoot = 0
    /\ pc = [r \in Requests |-> "arrived"]
    /\ token \in [Requests -> Tokens]
    /\ cap = [r \in Requests |-> 0]
    /\ sem = [r \in Requests |-> NoSem]
    /\ claim = [r \in Requests |-> "none"]
    /\ hold = [r \in Requests |-> 0]
    /\ granted = [r \in Requests |-> FALSE]
    /\ served = [r \in Requests |-> FALSE]
    /\ exit = [r \in Requests |-> "none"]
    /\ records = [r \in Requests |-> 0]
    /\ events = 0

Goto(r, label) == pc' = [pc EXCEPT ![r] = label]

\* What becomes of the claim of a request whose variables go out of scope: a
\* CardPermit gives its hold back in Drop, quota_hold is a pair of values.
Unwound(r) == IF claim[r] = "card" THEN "refunded" ELSE claim[r]

\* The request is over.  Its key permit and its claim go with it.
Leave(r, how) ==
    /\ Goto(r, "done")
    /\ exit' = [exit EXCEPT ![r] = how]
    /\ sem' = [sem EXCEPT ![r] = NoSem]
    /\ claim' = [claim EXCEPT ![r] = Unwound(r)]

\* An exit that changes nothing else.
Refuse(r, how) ==
    /\ Leave(r, how)
    /\ UNCHANGED <<config, semaphores, wallet, token, cap, hold, granted, served, records, events>>

\* A step of the request alone.
Step(r, label) ==
    /\ Goto(r, label)
    /\ UNCHANGED <<config, semaphores, wallet, token, cap, sem, claim, hold, granted, served, exit,
                   records, events>>
----------------------------------------------------------------------------
(* Gates *)

\* card_store.acquire granted its permit; otherwise the request is refused.
TakeCard(r) ==
    \/ /\ claim' = [claim EXCEPT ![r] = "card"]
       /\ Goto(r, "parse")
       /\ UNCHANGED <<config, semaphores, wallet, token, cap, sem, hold, granted, served, exit,
                      records, events>>
    \/ Refuse(r, "gate")

AuthCard(r) ==
    /\ pc[r] = "arrived" /\ token[r] \in Cards
    /\ TakeCard(r)

\* check_auth and the limits of the key.  Without any api key everyone passes;
\* a key without max_concurrency has no semaphore.
AuthApiKey(r) ==
    /\ pc[r] = "arrived" /\ token[r] \in ApiKeys
    /\ \/ apiKeys = {} /\ Step(r, "parse")
       \/ token[r] \in apiKeys /\ apiCap[token[r]] = NoCap /\ Step(r, "parse")
       \/ /\ token[r] \in apiKeys /\ apiCap[token[r]] # NoCap
          /\ cap' = [cap EXCEPT ![r] = apiCap[token[r]]]
          /\ Goto(r, "sem")
          /\ UNCHANGED <<config, semaphores, wallet, token, sem, claim, hold, granted, served, exit,
                         records, events>>
       \/ apiKeys # {} /\ Refuse(r, "gate")

\* A uk- key is looked up in the portal when check_auth let it through, which
\* it does only when there is no api key.  The key may be unknown or disabled,
\* or its user disabled; its mode and its cap are what the user last chose.
AuthPortalKey(r) ==
    /\ pc[r] = "arrived" /\ token[r] \in PortalKeys
    /\ \/ Refuse(r, "gate")
       \/ apiKeys = {} /\ TakeCard(r)
       \/ /\ apiKeys = {}
          /\ \E c \in Caps : cap' = [cap EXCEPT ![r] = c]
          /\ Goto(r, "admit")
          /\ UNCHANGED <<config, semaphores, wallet, token, sem, claim, hold, granted, served, exit,
                         records, events>>

\* Mutant: the balance is checked without the hold of the request itself.
QuotaAdmitBeforeHold(r) ==
    /\ pc[r] = "admit"
    /\ used < credited
    /\ \E h \in Holds :
          /\ used' = used + h
          /\ hold' = [hold EXCEPT ![r] = h]
    /\ claim' = [claim EXCEPT ![r] = "quota"]
    /\ Goto(r, "sem")
    /\ UNCHANGED <<config, semaphores, credited, spent, forgiven, overshoot, token, cap, sem,
                   granted, served, exit, records, events>>

\* quota_admit: one UPDATE checks the balance and adds the hold.
QuotaAdmit(r) ==
    /\ pc[r] = "admit"
    /\ \E h \in Holds :
          /\ used + h <= credited
          /\ used' = used + h
          /\ hold' = [hold EXCEPT ![r] = h]
    /\ claim' = [claim EXCEPT ![r] = "quota"]
    /\ Goto(r, "sem")
    /\ UNCHANGED <<config, semaphores, credited, spent, forgiven, overshoot, token, cap, sem,
                   granted, served, exit, records, events>>

\* The UPDATE changed no row (402) or failed (500).
QuotaRefuse(r) ==
    /\ pc[r] = "admit"
    /\ Refuse(r, "gate")

\* The semaphore of the key, created on demand.  The Arc is cloned out of the
\* map: the map may forget the semaphore before the permit is taken.
InUse(s) == (\E k \in Keys : keySem[k] = s) \/ (\E r \in Requests : sem[r] = s)

KeySemaphore(r) ==
    LET k == token[r]
        fresh == CHOOSE s \in Semaphores : ~InUse(s)
        new == keySem[k] = NoSem
        s0 == IF new THEN fresh ELSE keySem[k]
    IN
    /\ pc[r] = "sem"
    /\ keySem' = [keySem EXCEPT ![k] = s0]
    /\ semCap' = IF new THEN [semCap EXCEPT ![s0] = cap[r]] ELSE semCap
    /\ sem' = [sem EXCEPT ![r] = s0]
    /\ cap' = [cap EXCEPT ![r] = 0]
    /\ Goto(r, "try")
    /\ UNCHANGED <<config, sweep, wallet, token, claim, hold, granted, served, exit, records,
                   events>>

Holders(s) == {r \in Requests : sem[r] = s /\ pc[r] # "try"}

KeyPermit(r) ==
    /\ pc[r] = "try"
    /\ Cardinality(Holders(sem[r])) < semCap[sem[r]]
    /\ Step(r, "parse")
----------------------------------------------------------------------------
(* The wallet *)

AtLeastZero(n) == IF n < 0 THEN 0 ELSE n

\* quota_settle: used = MAX(0, used - hold + actual), in one UPDATE.
QuotaSettle(r, actual) ==
    /\ used' = AtLeastZero(used - hold[r] + actual)
    /\ spent' = spent + actual
    /\ overshoot' = overshoot + AtLeastZero(actual - hold[r])
    /\ hold' = [hold EXCEPT ![r] = 0]
    /\ UNCHANGED <<credited, forgiven>>

\* quota_settle ignores an error of the UPDATE.
QuotaSettleFails == UNCHANGED <<wallet, hold>>

\* Mutant: the refusal for a busy key does not release the hold.
KeyBusyUnreleased(r) ==
    /\ pc[r] = "try"
    /\ Cardinality(Holders(sem[r])) >= semCap[sem[r]]
    /\ Refuse(r, "busy")

\* No permit for the key: quota_release, then 429.
KeyBusy(r) ==
    /\ pc[r] = "try"
    /\ Cardinality(Holders(sem[r])) >= semCap[sem[r]]
    /\ Goto(r, "done")
    /\ exit' = [exit EXCEPT ![r] = "busy"]
    /\ sem' = [sem EXCEPT ![r] = NoSem]
    /\ IF claim[r] # "quota"
       THEN UNCHANGED <<wallet, hold, claim>>
       ELSE \/ /\ QuotaSettle(r, 0)
               /\ claim' = [claim EXCEPT ![r] = "refunded"]
            \/ /\ QuotaSettleFails
               /\ claim' = [claim EXCEPT ![r] = "failed"]
    /\ UNCHANGED <<config, semaphores, token, cap, granted, served, records, events>>

\* quota_credit: a positive amount is credited, a negative one is taken off
\* what was used.
QuotaCredit ==
    /\ events < MaxEvents
    /\ events' = events + 1
    /\ \E n \in Amounts \ {0} :
          \/ /\ credited' = credited + n
             /\ UNCHANGED <<used, forgiven>>
          \/ /\ used' = AtLeastZero(used - n)
             /\ forgiven' = forgiven + (used - used')
             /\ UNCHANGED credited
    /\ UNCHANGED <<config, semaphores, spent, overshoot, request>>
----------------------------------------------------------------------------
(* After the gates *)

\* Parameters, messages and the model are checked: 400, 403 and 404 return.
Validate(r) ==
    /\ pc[r] = "parse"
    /\ Step(r, "pool") \/ Refuse(r, "refused")

\* acquire_by_session: an account, or 503.
PoolAnswers(r) ==
    /\ pc[r] = "pool"
    /\ \/ /\ granted' = [granted EXCEPT ![r] = TRUE]
          /\ Goto(r, "upstream")
          /\ UNCHANGED <<config, semaphores, wallet, token, cap, sem, claim, hold, served, exit,
                         records, events>>
       \/ Refuse(r, "refused")

\* ledger.record, and the request returns.
RecordAndLeave(r, how) ==
    /\ records' = [records EXCEPT ![r] = @ + 1]
    /\ Leave(r, how)
    /\ UNCHANGED <<config, semaphores, wallet, token, cap, hold, granted, served, events>>

\* The retry loop ends without frames: 400, 502 or 503, recorded.
Exhausted(r) ==
    /\ pc[r] = "upstream"
    /\ RecordAndLeave(r, "exhausted")

\* Frames, for a client that wants the whole answer.
AwaitFull(r) ==
    /\ pc[r] = "upstream"
    /\ Step(r, "full")

\* Frames, for a client that wants a stream: a task takes the card permit and
\* the hold, and the handler returns; _key_permit is a local of the handler.
Spawn(r) ==
    /\ pc[r] = "upstream"
    /\ Goto(r, "stream")
    /\ sem' = [sem EXCEPT ![r] = NoSem]
    /\ UNCHANGED <<config, semaphores, wallet, token, cap, claim, hold, granted, served, exit,
                   records, events>>

\* The task passes a frame on.
Frame(r) ==
    /\ pc[r] = "stream"
    /\ served' = [served EXCEPT ![r] = TRUE]
    /\ UNCHANGED <<config, semaphores, wallet, pc, token, cap, sem, claim, hold, granted, exit,
                   records, events>>

\* Mutant: a client that goes away ends the task without a settlement.
StreamStopsUnsettled(r) ==
    /\ pc[r] = "stream"
    /\ Step(r, "settle") \/ Step(r, "record")

\* The stream ended, the client went away, upstream failed or was idle for too
\* long, or the output cap was hit.
StreamStops(r) ==
    /\ pc[r] = "stream"
    /\ Step(r, "settle")

\* The whole answer arrived, or a timeout or a translation error instead of it.
FullStops(r) ==
    /\ pc[r] = "full"
    /\ \E ok \in BOOLEAN : served' = [served EXCEPT ![r] = ok]
    /\ Goto(r, "settle")
    /\ UNCHANGED <<config, semaphores, wallet, token, cap, sem, claim, hold, granted, exit, records,
                   events>>

\* Mutant: the exit with an empty answer forgets its record.
FullEmptyUnrecorded(r) ==
    /\ pc[r] = "full"
    /\ Refuse(r, "empty")

\* The whole answer has no content: 502, recorded and not settled.
FullEmpty(r) ==
    /\ pc[r] = "full"
    /\ RecordAndLeave(r, "empty")

\* settle_permit, or quota_settle.
Settle(r) ==
    /\ pc[r] = "settle"
    /\ Goto(r, "record")
    /\ CASE claim[r] = "quota" ->
              \/ /\ \E actual \in Amounts : QuotaSettle(r, actual)
                 /\ claim' = [claim EXCEPT ![r] = "settled"]
              \/ /\ QuotaSettleFails
                 /\ claim' = [claim EXCEPT ![r] = "failed"]
         [] claim[r] = "card" ->
              /\ claim' = [claim EXCEPT ![r] = "settled"]
              /\ UNCHANGED <<wallet, hold>>
         [] OTHER -> UNCHANGED <<wallet, hold, claim>>
    /\ UNCHANGED <<config, semaphores, token, cap, sem, granted, served, exit, records, events>>

Record(r) ==
    /\ pc[r] = "record"
    /\ RecordAndLeave(r, "answered")

\* The client goes away while the handler awaits: its future is dropped.
Dropped(r) ==
    /\ pc[r] \in {"pool", "upstream", "full"}
    /\ Leave(r, "cut")
    /\ UNCHANGED <<config, semaphores, wallet, token, cap, hold, granted, served, records, events>>
----------------------------------------------------------------------------
(* Around the requests *)

\* The 60 s task reads the api keys and then drops the semaphores of all others.
SweepReads ==
    /\ sweep = {}
    /\ sweep' = {apiKeys}
    /\ UNCHANGED <<config, keySem, semCap, wallet, request, events>>

\* Mutant: the task clears the map.
SweepDropsAll ==
    /\ sweep # {}
    /\ keySem' = [k \in Keys |-> NoSem]
    /\ sweep' = {}
    /\ UNCHANGED <<config, semCap, wallet, request, events>>

\* main.rs: the list of keys is read, and then the map is filtered by it.
SweepDrops ==
    /\ \E active \in sweep :
          keySem' = [k \in Keys |-> IF k \in active THEN keySem[k] ELSE NoSem]
    /\ sweep' = {}
    /\ UNCHANGED <<config, semCap, wallet, request, events>>

\* The operator adds, edits or deletes api keys.  A listed key is kept unless the
\* sweep under way has read a list without it, or a request still has a semaphore
\* of the key from before it was deleted.
EditApiKeys ==
    /\ events < MaxEvents
    /\ events' = events + 1
    /\ apiKeys' \in SUBSET ApiKeys
    /\ apiCap' \in Limits(apiKeys')
    /\ <<apiKeys', apiCap'>> # <<apiKeys, apiCap>>
    /\ peak' = [k \in ApiKeys |-> IF apiCap'[k] > peak[k] THEN apiCap'[k] ELSE peak[k]]
    /\ LET spared(k) == \A active \in sweep : k \in active
           idle(k) == \A r \in Requests : token[r] = k => sem[r] = NoSem
       IN  kept' = {k \in apiKeys' : k \in kept \/ (spared(k) /\ idle(k))}
    /\ UNCHANGED <<semaphores, wallet, request>>

\* The process dies and is started again.  cards.db and the configuration are
\* what is left.
Crash ==
    /\ events < MaxEvents
    /\ events' = events + 1
    /\ keySem' = [k \in Keys |-> NoSem]
    /\ sweep' = {}
    /\ exit' = [r \in Requests |-> IF pc[r] \in {"arrived", "done"} THEN exit[r] ELSE "cut"]
    /\ pc' = [r \in Requests |-> IF pc[r] = "arrived" THEN "arrived" ELSE "done"]
    /\ sem' = [r \in Requests |-> NoSem]
    /\ kept' = apiKeys
    /\ UNCHANGED <<apiKeys, apiCap, peak, semCap, wallet, token, cap, claim, hold, granted, served, records>>

RequestStep(r) ==
    \/ AuthCard(r) \/ AuthApiKey(r) \/ AuthPortalKey(r)
    \/ QuotaAdmit(r) \/ QuotaRefuse(r)
    \/ KeySemaphore(r) \/ KeyPermit(r) \/ KeyBusy(r)
    \/ Validate(r) \/ PoolAnswers(r)
    \/ Exhausted(r) \/ AwaitFull(r) \/ Spawn(r)
    \/ Frame(r) \/ StreamStops(r) \/ FullStops(r) \/ FullEmpty(r)
    \/ Settle(r) \/ Record(r) \/ Dropped(r)

Next ==
    \/ \E r \in Requests : RequestStep(r)
    \/ QuotaCredit \/ SweepReads \/ SweepDrops \/ EditApiKeys \/ Crash

Spec == Init /\ [][Next]_vars
----------------------------------------------------------------------------
(* Properties *)

\* The wallet never has more in use than was credited, but for what answers
\* cost above their estimate: whatever requests of the user's keys are admitted
\* together, the holds fit the balance (quota_admit: "并发安全靠 SQLite").
NoOverspend == used <= credited + overshoot

\* The sum of f over all requests, as the number of units: each has f[r] of them.
Units(f) == UNION {{r} \X (1..f[r]) : r \in Requests}
Total(f) == Cardinality(Units(f))

\* The exits that leave the amount of a request in used_micro: refusals after the
\* admission (parameters, model, no account), an exhausted retry loop, an empty
\* answer, a dropped future or the end of the process.
Forgetful == {"refused", "exhausted", "empty", "cut"}

\* Requests whose amount is in used_micro: those under way, those that left by a
\* forgetful exit, and those whose settlement SQLite refused.
Owing(r) == pc[r] # "done" \/ exit[r] \in Forgetful \/ claim[r] = "failed"

\* used_micro is what was settled, once each, and the amounts of the requests that
\* owe them; negative adjustments alone take anything away.  No other exit of the
\* handler or of the stream task (the answer, a client that went away, a failed or
\* idle upstream, a busy key) skips its settlement or leaves an amount behind.
WalletExact ==
    LET claims == spent + Total([r \in Requests |-> IF Owing(r) THEN hold[r] ELSE 0]) IN
    /\ used <= claims
    /\ used + forgiven >= claims

\* A request whose answer reached the client was settled (B3): the client
\* cannot avoid it by going away before the usage frame.  A settlement SQLite
\* refused leaves the hold in used_micro.
ServedIsPaid ==
    \A r \in Requests :
        pc[r] = "done" /\ served[r] /\ exit[r] # "cut" => claim[r] \in {"none", "settled", "failed"}

\* The ledger has one record of every request the pool gave an account, and
\* none of a request refused at a gate, or cut off before its exit.
RecordedOnce ==
    \A r \in Requests :
        pc[r] = "done" => records[r] = IF granted[r] /\ exit[r] # "cut" THEN 1 ELSE 0

\* Requests that hold a permit of the key
Running(k) == {r \in Requests : token[r] = k /\ sem[r] # NoSem /\ pc[r] # "try"}

\* Requests of an api key that run in their handlers together are within its
\* max_concurrency (the largest it has had, for a semaphore keeps the size it was
\* made with), whenever the key was listed and whatever the 60 s task collects.
\* Two cases are left out: a key listed while that task is between reading the
\* keys and dropping the semaphores of the others, and one listed again while
\* requests from before its deletion still run.
ApiKeyCap == \A k \in kept : Cardinality(Running(k)) <= peak[k]

\* max_concurrency as it reads, for every listed key: a list that changes under
\* the 60 s task gives a key a second semaphore.
ApiKeyCapAlways == \A k \in apiKeys : Cardinality(Running(k)) <= peak[k]

\* No amount stays held by a request that is over (docs/portal-wallet-keys-plan
\* lists the leak as excluded by a guard that releases in Drop).
HoldsReturned == \A r \in Requests : pc[r] = "done" => claim[r] # "quota"
============================================================================
