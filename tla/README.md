# cursor-proxy: a TLA+ verification project

cursor-proxy is a gateway in Rust. It takes chat requests in three dialects,
authenticates them by an API key, a prepaid card or a portal key, gives each an
account of a pool, calls the upstream, translates the answer and bills it. It is
one process: requests run on 16 tokio workers next to a few background tasks,
admin handlers and one writer thread. There is no global lock. State lives in
`DashMap`s, atomics and `ArcSwap` snapshots, and in files written on the side. So
most of what can go wrong is an interleaving of short operations, a request
whose future is dropped at an `await`, or a restart between two writes.

Paths below are relative to the repository (`src/pool.rs`).

## 1. Inventory

| Part | State | Operations | What makes it correct |
|---|---|---|---|
| account pool `src/pool.rs` | slots with a semaphore and a cooldown, `disabled`, `auto_disabled_until`, `ineligible`, `stats`, `quotas`, `sessions`, `available_slots` snapshot; `accounts.json`, `account-state.json` | acquire by session, release, auto_disable, mark_ineligible, reap, set_enabled, toggle, replace_accounts, set_quota, clear_cooldown, persist, restore | at most max_concurrency requests per account; a closed account is not handed out; a quarantine ends; an operator's decision stands; edits arrive |
| retry loop, in `src/main.rs` | attempt, permit, account of a request | one attempt per upstream call, six classes of failure | bounded attempts, a permit always goes back |
| card gate `src/cards.rs` | card, `CardRuntime` (in_flight, hold_micro, day_count, Notify), permit; `cards.db`, `cards.json` | admit, acquire, settle_permit, drop, revoke, load, save | lanes are counted exactly, no waiter is forgotten, holds keep concurrent requests from overdrawing, no charge is lost or made twice |
| billing ledger `src/billing.rs` | channel, batch, counters; `billing.db` | record, flush, request_checkpoint, writer_loop, write_batch | one row per request id, a flush is a barrier, every record is decided |
| wallet `src/cards.rs` 1406-1527 | row of `user_quota` in `cards.db` | credit, admit (hold), settle, release | never overspent by admissions; holds are released or settled on every exit |
| card administration, appeals `src/cards.rs`, `src/admin/cards.rs` | plans, cards, appeals | issue, update, extend, delete, appeal, trust | no lost update, older files do not replace newer ones |
| portal `src/portal.rs`, `src/admin/portal.rs` | users, balances, groups, keys, login sessions; `portal.json` | purchase, extend, add_balance, key and user edits | balance is conserved, nothing is delivered unpaid |
| request path `src/main.rs` 1490-3060 | key semaphores, holds, permits | gates in order, stream task | every hold and permit is given back once, one billing record per request |
| proxy pool `src/proxypool.rs` | nodes, bindings, health | resolve, auto_assign, probe, rebalance | caps, sticky assignment, unhealthy nodes avoided |
| stream translation `src/translate.rs`, `src/cursor.rs`, `src/protocol.rs` | decoder buffer, block state of a stream, collected answer | read a chunk, feed a frame, emit events, finish | an answer ends once and only when it is whole; blocks are paired; stream and non-stream clients get the same answer |
| request translation `src/protocol.rs`, `src/cursor.rs`, `src/main.rs` | none of its own: the client repeats the conversation | three dialects to Chat, Chat to Cursor, conversation ids and sticky keys | results stay next to their calls, dialects agree, the prefix cache can hit |
| models `src/models.rs`, `src/admin/models.rs`, `src/admin/model_center.rs` | entries, family rules, groups, upstream names, price map; `models.json`, `upstream-models.json` | upsert, hide, delete, import, sync, menu, smart routing | a route stays in its family and upstream's list, what is listed is served, what is hidden stays hidden |
| configuration `src/config.rs`, `src/admin/keys.rs`, `settings.rs`, `proxies.rs` | `ConfigCell`, its copy in the proxy pool; `config.json` | panel edits with rollback, atomic_write, hot reload | the copies come to agree, the file is always readable |
| account quota refresh `src/quota.rs` | remaining quota per account | refresh, probe | its effect on the pool |
| rate limiter, key usage | windows | count, reset | window counts |
| analytics, logs, metrics, audit, health, dumps, panels | derived | read | none that the gateway depends on |

How they interact. The request path calls the card gate (or the wallet), then the
pool, then the upstream through the proxy pool; its outcome goes back to the pool
(`release`, `auto_disable`, `mark_ineligible`), to the card (`settle_permit`) and to
the ledger (`record`). Admin handlers change the pool's memory and
`accounts.json` in two steps. Panel edits of `config.json` reach the proxy pool both from
the handler and from the file watcher. The portal charges a balance and has the card
store deliver. The request path asks the model registry for the upstream name, and
the proxy pool for a client. A 30 s task reaps quarantines. A 60 s task collects
session bindings, writes `account-state.json`, asks for a WAL checkpoint and probes
cooling accounts. At shutdown the ledger is flushed.

The hard behaviours, listed at their lines in `PROJECT.json` under `hazards`: snapshots
used after what they were taken from changed; methods that write two maps with other tasks
in between; check-then-add on an atomic; a future dropped while it waits; totals computed
under a guard and written after it; restarts that merge two files; two saves through one
temporary file; compensation after a failed second step; answers that break off inside a
frame; and what must come true eventually (a quarantine ends, a waiter is woken, a record
is decided).

## 2. Modules

| Module | Models |
|---|---|
| `AccountPool` | pool, retry loop, reaper, probes, account admin, both files, restart |
| `AccountPoolProofs` | theorems `TypeCorrect`, `NeverStranded`, `PermitsBounded`, `ShutIsRespected`, `SessionsStick` |
| `CardGate` | one quota card: admit, lanes, permit, settlement, both stores, restart |
| `CardGateProofs` | theorems `LanesExact`, `NoLostWakeup`, `TypeCorrect`, `HoldsAreKept`, `ChargesAreCosts` |
| `LedgerPromise` | what the ledger promises its callers (abstract) |
| `BillingLedger` | channel, writer thread, flush, restart; refines `LedgerPromise` |
| `BillingLedgerProofs` | theorems `FlushIsBarrier`, `LedgerRefinesPromise`, `CountersExact`, `TypeCorrect` |
| `RequestPath` | a request through all gates to its last exit, with wallet, card claim, key semaphore and record |
| `RequestPathProofs` | theorems `WalletNotOverspent`, `AnswersArePaid`, `OneRecordEach`, `TypeCorrect`, `ApiKeysCapped`, `WalletIsExact`; for `ModelRegistry` `HiddenStaysHidden`, `RoutingIsLawful`, `MenuIsServed`; for `Shaping` `ResultsStayWithCalls`, `DialectsSayTheSame`, `CacheStaysWarm` |
| `ConfigStore` | `config.json`, its copies, the panel edits and the watcher |
| `ConfigStoreProofs` | theorems `TypeCorrect`, `WholeUnlessOverlapped`, `EditsDoConverge`; for `EgressProxies` `ProxyTypeCorrect`, `EgressIsLawful`, `CacheIsFresh`, `BindingsKnown` |
| `EgressProxies` | proxy pool, bindings, health, client cache |
| `PortalStore` | users, balances, call keys, purchases, `portal.json` |
| `PortalStoreProofs` | theorems `TypeCorrect`, `SnapshotsAreSound`, `PurchasesBalanced`, `BalancesExplained`, `FileIsFollowed` |
| `CardBooks` | card administration, plans, appeals, `cards.json` next to `cards.db` |
| `CardBooksProofs` | theorems `TypeCorrect`, `RestartIsLossless`, `PaidTimeIsKept` |
| `AssistantOut` | operators: what an answer adds up to, tool-call merging, usage, the full answer |
| `StreamTranslator` | frames, translator, end of a streamed answer (extends `AssistantOut`) |
| `TranslationProofs` | for `StreamTranslator` theorems `AnswerEndsOnce`, `StreamIsFull`, `ClientReadsAll`, `BlocksArePaired` |
| `Conversation` | operators: the three dialects to Chat, Chat to Cursor messages, ids, hints |
| `Shaping` | a client's conversation over several requests and retries (extends `Conversation`) |
| `ModelRouting` | operators: names, menu, smart routing, gate |
| `ModelRegistry` | the registry under edits, saves, refreshes and restarts (extends `ModelRouting`) |
| `MC...` | instances of the state machines for TLC |

Composition. `RequestPath` uses what `CardGate`, `AccountPool` and `BillingLedger` promise;
`EgressProxies` and `ConfigStore` meet in the proxy section (`applied`); `PortalStore` uses
the card store's delivery, which `CardBooks` models; `Shaping` leaves the choice of an
account to `AccountPool`. Only `BillingLedger` refines an abstract specification
(`LedgerPromise`).

Definitions next to the action they vary (`RenewedAlways` before `Renewed`,
`AutoDisableForever` before `AutoDisable`, ...) are faulty variants. No
specification uses them; they show that a property notices that fault.

### AccountPool

A slot is a pair of an account and the number of its semaphore: a slot object in an
old snapshot is another one than the account's current slot when the semaphore was
replaced. `present`, `disabled`, `until`, `ineligible`, `quotaOut`, `errs`, `sess`
and `snap` are the maps of `AccountPool`; `cooling` is a set of slot objects because
the cooldown lives in the object. `snap` holds every slot, as `rebuild_available_slots`
puts all of them into the list and availability is read live.

A request walks `lookup -> on -> cool -> quota -> sticky` for the account its session is
bound to and `load -> pick -> cool -> quota -> free -> take` for the list, then `run`; the
labels are the points where another task can change what it read. `is_slot_available`
reads `disabled`, the cooldown and the quota one after the other: `ReadDisabled`,
`ReadCooldown` and `ReadQuota` are steps of their own, for the bound slot and for each slot
of the list, and `ReadPermits` is the comparison with `best_avail`. An account can therefore
be closed at every moment of a try, for one reason and then another, and still be granted. `run` covers one upstream
attempt; each way it can end is an action, with all it tells the pool.
`auto_disable` and `mark_ineligible` are two steps each (`AutoFlag`/`AutoDisable`,
`Ineligible`/`MarkIneligible`): the flag is set first, the record follows. The reaper
is three steps, `set_enabled` two, the admin handler then persists or rolls back.

Abstractions. Time: a cooldown, a quarantine or a binding ends by an action of its own,
at any moment. Error counts saturate at the threshold; the dynamic cooldown is
"some cooldown". `replace_accounts` with the file write before it is one step: the
admin panel is used by one person at a time, and concurrent edits of
`accounts.json` are not modelled. The first selection loop reads every slot too, and hands
on nothing but `best_avail`, which is any number here; the second loop, which decides,
reads every slot again.
Observers (`autoClosed`, `stray`, `adminOff`, `churned`, `shut`, `firm`) record history for
the properties and influence nothing. `shut[r]` is the set of accounts with a reason that
has held since the try of `r` began. `autoClosed` has the accounts `auto_disable` was the
last to decide about; an operator takes an account out of it by switching it off, or on once
it is open. `stray` has those whose record a `set_enabled` removed that was opening the
account (its flag was cleared, `auto_disable` set flag and record, then the record went:
`src/pool.rs:612-616`) or that was rolling back (`src/admin/accounts.rs:158`).

### CardGate

One card and its requests. `ReadCard`, `CheckBalance` and `Commit` are the three places
where `admit` touches shared state: the card's clone, `hold_micro.load`, and the
`fetch_add`s. `TakeLane`, `Await`, `Wake`, `LaneTimeout` are the loop of `acquire`.
The Notify is modelled from its contract: one stored permit, a FIFO queue, and a
dropped waiter that had been notified passes the notification on. `CancelWait` is the
client that disconnects while the handler waits. `Settle`, `Charge`, `Store`
are `settle_permit`: release the hold, add to the card under its guard, write the
total without it. When the DB refuses, `save()` writes `cards.json`. `Restart` is
`load`: the larger of the two stored amounts wins.

Amounts are small integers in place of micro-dollars. The behaviour score and the
load only choose a throttle level, so below the daily limit the model takes any
level and above it only `degraded`. `day_count` wraps at `CountModulus`. The card is
activated and unexpired; a refusal for any other reason is the second disjunct of
`CheckBalance`.

### BillingLedger

`Record` and `Send` are the two halves of `Ledger::record`. `Receive` is `recv` or
`recv_timeout`, `WriteBatch` is the transaction with its counters (committed or failed as
a whole), `Uncount` the later `pending.fetch_sub`, `Ack` the rest of the round. The 20 ms
deadline may pass at any time, so a batch is ready as soon as it is not empty. `Restart`
ends the process at any point: what was handed over and not decided is lost, which
`LedgerPromise` allows and calls `Lose`. `LedgerPromise` has the fate of each record, the
rows, and `owed`, the number of records whose caller is owed a decision; in the ledger
that is the atomic `pending`, less the batch that is written and not yet uncounted. Log
mirroring is left out. The writer thread does not die while the process lives, so the
error branches of `send` are not taken.

### RequestPath

`inference_handler_inner` composed from what its parts promise: the card gate grants a
permit or refuses, the pool grants an account or refuses, the retry loop ends with
frames or an error. What `CardGate`, `AccountPool` and `BillingLedger` model inside is
not repeated. The labels are the gates in their order: token (`arrived`), wallet
(`admit`), semaphore of the key (`sem`, `try`), validation (`parse`), `pool`,
`upstream`, then `stream` in the spawned task or `full` in the handler, `settle`, `record`.

`claim` is the card permit or the wallet hold and its end. The difference between the
two is `Unwound`: a `CardPermit` that goes out of scope gives its hold back, the pair
`quota_hold` does not. `Spawn` moves the claim into the task and drops the key permit
with the handler. `Dropped` is the client that disconnects at an `await` of the handler; the
task is not cancelled by it. `QuotaAdmit`, `QuotaSettle` and `QuotaCredit` are the SQL
statements, each atomic; `quota_settle` ignores an error, so `QuotaSettleFails` leaves
the row. Key semaphores have identities, because the 60 s task may remove one from the
map while requests have it; it reads the keys and removes in two steps.

Abstractions. Portal data is a choice: the key is unknown or disabled, or has the mode and the
cap the user last set. Limits and RPM of an api key are a choice to refuse. An edit
of the api keys results in any other list, with any `max_concurrency` or none (`apiCap`).
The upstream client always exists, since `main`
inserts it, so the exit for a missing one is not taken. `spent`, `forgiven`, `overshoot`,
`granted`, `served`, `exit`, `records`, `peak` and `kept` observe. `exit` is how a request
left, from which the property on the wallet knows whether its hold is to be back; `peak` is
the largest cap a key has had; `kept` has the listed keys, those added later among them, but
for the ones added while a collection that has read the list without them is on its way,
or listed again while requests from before their deletion still have the old semaphore.

### ConfigStore

`memory` is `ConfigCell.current`, `lock` its write lock, `file` and `tmp` the two files,
`applied` the section the proxy pool works with. The panel requests are the settings and
proxy patches and the addition, edit, deletion and import of API keys; each edits the
memory, saves, and deals with a failed save in its own way (an added key is popped from
the end, other edits stay in memory, a deletion is not stored). `atomic_write` is `Open`,
`Write`, `Rename`: what is written goes to the inode that was opened, wherever another
rename has moved it (`place`). The watcher loads, replaces the proxy section and stores,
in three steps. A configuration is its key list, one setting and the proxy section.
`Crash` ends the process at any point, `Abort` is a start that cannot read the file.

### EgressProxies

`resolve` is the walk `idle -> bound | assign -> bind -> client` of a request with the
configuration it loaded (`seen`): manual node, existing binding, `auto_assign` by rules and mode
with caps and health, and the client of `CursorFactory`, cached per node. A panel edit
is `Replace`, `SyncRuntime`, `Invalidate`. Probes are answered one by one, from the list
of nodes at their beginning. A rule is the set of accounts and of nodes it matches; the hash of
an account is any number; `rr` wraps at `RrModulus`. Import of a node list is a new section.

### PortalStore

Every change of `PortalData` is `Load` (clone and edit), `Open`, `Write`, `Rename` and
`Store`, with other requests in between. A purchase of quota, a card, stacked time, an
extension or more lanes is a check on the user record read at the session, then charge,
delivery and, when the delivery fails, refund; stacked time is delivered before it is
charged. `logged` is
the sum of a user's `portal_balance_log` rows; a lost log row sets `unlogged`. Sessions
are those with a valid token. Passwords and token texts are left out; the wallet that a
purchase of quota credits is in `RequestPath`. A key has a mode and perhaps a card, in
either mode: `create_key` compares the card with its user in card mode, `update_key` when a
card is sent (`OwnCard`); `checked` records that one of them did.

### CardBooks

An operation reads a clone or edits in place (`apply`), may write the ledger (`ledger`),
takes a snapshot of everything (`snap`) and writes it (`write`). Which of these an
operation has, and what it does with a clone that is stale, is in its own action: appeals
and trust put back the whole card, stacked time and activation take the expiry from the
clone, extensions work in place. `Tick` is an hour. `bought` counts the hours paid since the
countdown began, the plan's among them, and `idle` has the cards whose countdown an extension
or stacked time began. `Restart` merges `cards.json` with the
used amounts of `cards.db`. A card has status, plan, expiry, lanes, used amount, appeal
and trust; `atomic_write` is one step here.

### AssistantOut, StreamTranslator

`ReadChunk` appends bytes: some whole frames and perhaps the beginning of one (`partial`).
`SkipEmpty`, `Peek`, `Feed`, `Fail`, `EndOfStream` are `FrameStream::poll_next` with the
loop that uses it. The translator's state `tr` has what was collected (`out`), the blocks
that are open, the index, the calls begun and completed, and `sent`, the events in order.
`full` is what the loop for clients without a stream makes of the same frames. Text is a
sequence of tokens; some argument texts parse as an object, which is what
`merge_tool_arg_text` asks. Left out: bytes of frames and their compression, an upstream
that speaks OpenAI's SSE, the wording and classes of errors, sequence numbers.

### Conversation, Shaping

`Conversation` translates a request body step by step as the code does:
`anthropic_to_openai_chat`, `responses_to_openai_chat`, `openai_messages_to_cursor` with
`flush_results`, hints, tool choice, the conversation id and the sticky key. `Shaping` is
a client that appends the answer it got, returns the results of parallel calls in any
order with or without text, attaches images, and sends again after failures; and the retry
loop that moves the request to another account. Texts are lists of pieces, so joining is
visible. Left out: tool schemas, sampling parameters, reasoning signatures, calls without
an id.

### ModelRouting, ModelRegistry

A name is the sequence of its segments, so suffix and prefix tests are what they are in
the code. `ModelRouting` has `family_base`, `visible_models` (`Menu`),
`resolve_smart_model_full` with tiers, levels, fast and prices, `is_disabled`, groups and
the gate. `ModelRegistry` runs the panel edits (one-by-one, bulk, visibility, import,
synchronisation from the price list, rules and groups) as `Ask`, `Load`, `Save`, `Store`,
with refreshes of the upstream list and the price map. Prices of an entry decide no route
and are left out. `Segments` are the parts names are made of (all strings for TLC);
`Wellformed`, the assumption of the module, says of the other constants what the code's
inputs guarantee: names are not empty, a list the upstream reports has "cursor-" at most
once in front of a name, levels are levels, prices are natural numbers.

Operations on atomics are taken as sequentially consistent. The code uses `Relaxed`, but
each property here concerns single atomics, or values ordered by a channel, a
`DashMap` guard or a semaphore.

## 3. Runs

All twelve hold. States are the distinct states TLC finds; `pool` counts those that differ in
`Deciding`, the part of the state on which behaviour and the properties of that run depend.

| Run | Configuration | States | Properties |
|---|---|---|---|
| `pool` | 2 accounts, 2 requests, 1 session, 1 permit, threshold 2, 1 attempt, 2 events | 1 355 000 | `PermitBound`, `NoGrantWhileShut`, `StickyHonoured` |
| `pool_recovery` | 1 account, 2 requests, threshold 1, 2 attempts, 2 events, fairness | 477 000 | `PermitBound`, `NoStranded`, `QuarantineIsTemporary` |
| `card` | 3 requests, 2 lanes, face 3, hold 2, 1 event, fairness | 219 000 | `LanesCounted`, `NoSleepBeforeIdleCard`, `HoldCovers`, `NeverOvercharged`, `WaitersProceed` |
| `billing` | 3 records, 2 ids, batches of 2, 2 processes, fairness | 80 000 | `FlushedIsDecided`, `KeepsPromise`, `EveryRecordDecided` |
| `path` | 2 requests, a portal key, an api key, a card, caps 1 and 2, hold 2, costs 1 and 3, credit 3, 2 events | 4 738 000 | `NoOverspend`, `WalletExact`, `ServedIsPaid`, `RecordedOnce`, `ApiKeyCap` |
| `config` | 2 handlers, 2 panel requests, 3 keys, 1 fault | 371 000 | `TornOnlyByOverlap`, `EditsConverge` |
| `proxy` | 2 requests, 3 accounts, 2 nodes, 4 sections, 1 edit, 1 probe | 1 650 000 | `EgressLawful`, `CacheFresh`, `BoundToKnown` |
| `portal` | 2 handlers, 2 requests, 2 names, 1 plan, 1 card, 1 fault | 1 295 000 | `SnapshotsSound`, `ChargedIffDelivered`, `BalanceExplained`, `FileFollowed` |
| `cardbooks` | 2 operations, 2 cards, 2 plans, 2 faults, 2 hours | 1 093 000 | `RestartLosesNothing`, `PaidTimeKept` |
| `stream` | 4 frames of 18 kinds, 2 in a chunk, 3 dialects | 1 150 000 | `EndedOnce`, `StreamAgreesWithFull`, `ClientReadsAnswer`, `BlocksPaired` |
| `shaping` | 5 turns, 7 clients, 2 accounts, 2 attempts | 263 000 | `ResultsFollowCalls`, `DialectsAgree`, `CacheKept` |
| `models` | 2 edits, 3 upstream lists, 3 rules, 1 fault | 170 000 | `RouteLawful`, `ListedIsServed`, `HiddenKept` |

Every module has a type invariant. It is proved for the modules with a `TypeCorrect`; those of
the others hold on the same instances (add `TypeOK` to the INVARIANTS of a configuration).

What they say:

- `PermitBound`: while an account stays in the pool, at most `max_concurrency` requests
  run on it. That `replace_accounts` skips shared slots is what makes this true; a
  semaphore renewed always would break it.
- `NoGrantWhileShut`: an account that was disabled during the whole of a try, or cooling, or
  out of quota, is not handed out, however old the snapshot. One that was closed all along
  for changing reasons may be: the three are read one by one. `StickyHonoured`: a session whose account stays
  bound, open and with a free permit gets it.
- `NoStranded`, `QuarantineIsTemporary`: an account `auto_disable` closed has a date of
  return, or a task is about to write it, and it comes back; but for the accounts in `stray`,
  which section 4 shows not to come back.
- `LanesCounted`, `NoSleepBeforeIdleCard`, `WaitersProceed`: lanes are neither lost nor
  given twice; waiters depend on no timeout. `WaitersProceed` has the premise
  `HoldersLetGo`: whoever has a lane gives it back in the end.
- `HoldCovers`: no rollback or release takes another request's hold.
  `NeverOvercharged`: no order of settlement, DB failure and restart charges more than
  was used.
- `KeepsPromise`: a record is decided once, an id has one row, rows are not rewritten, and
  `pending` never counts a record too much or too little, restarts included.
  `FlushedIsDecided`: an acknowledged flush covers all that was sent before.
- `NoOverspend`: admissions of several keys never exceed the credit; only answers that cost
  more than estimated do. `WalletExact`: `used_micro` is the settled amounts and the holds
  still owed, each once, less what the operator took off. Owed are those of requests under
  way, of settlements that SQLite refused, and of the four exits that forget the hold
  (`Forgetful`); any other exit that skipped its settlement or release would violate it.
- `ServedIsPaid`, `RecordedOnce`: whatever ends a request, an answer is settled and a
  request with an account has one record. `ApiKeyCap`: no more requests of a key in
  `kept` run in their handlers than the largest cap it was given.
- `TornOnlyByOverlap`: crashes and failed writes leave `config.json` readable; only two
  saves under way at once can truncate it. `EditsConverge`: after any interleaving of
  edits and reloads the three copies agree, with the exceptions its definition names.
- `EgressLawful`: a manual node, a required proxy and a switched-off node are respected
  against the configuration the request saw. `CacheFresh`, `BoundToKnown`: clients and
  bindings of replaced nodes go away, but for what a request that straddles the edit puts
  back.
- `ChargedIffDelivered`: compensation covers every exit of a purchase. `BalanceExplained`:
  balance and log agree. `FileFollowed`: memory is never ahead of the file.
  `SnapshotsSound`: overlapping changes lose updates, but never mix two snapshots; a key
  whose card was compared with its user is not bound to another user's.
- `RestartLosesNothing`: the merge of two stores gives back what was in memory.
  `PaidTimeKept`: no sequence of extension, stacking, activation and expiry shortens a
  card that was activated by a call or by hand.
- `EndedOnce`: a cut-off or undecodable answer is never finished as whole.
  `StreamAgreesWithFull`, `ClientReadsAnswer`: the two loops, and the increments and the
  whole, are the same answer. `BlocksPaired`: each block is started, filled and stopped in
  that order, for answers in the order upstreams send them.
- `ResultsFollowCalls`: no text of the client comes between calls and results, in any
  dialect. `CacheKept`: messages sent stay a prefix of the next request, under one id per
  account.
- `RouteLawful`, `ListedIsServed`: menu, routing and gate, three separate pieces of code,
  fit together for every list, rule and price. What the menu offers is served on two
  conditions: the family has a high and a lower variant under the name routing looks it up
  by (an entry of one's own for a variant the upstream lacks is listed and not served), and
  the name is not the alias, whose level is chosen without a look at the list.
  `HiddenKept`: no import or sync brings a hidden name back, as long as its row is not left
  out of a bulk table or pruned (`lost`).

Conditions inside the properties (`overlapped`, `raced`, `overtaken`, `straddled`, `late`,
`stray`, `kept`, `checked`, `idle`, `lost`) name
exactly the overlaps for which the code gives no guarantee: without them the property is
violated, section 4 lists what then happens.

Bounds. Two requests are enough for every pool hazard found in the code, each of which is
a race of two tasks; the second account gives a request somewhere else to go, and the
threshold of 2 leaves room for an error that does not yet close an account. Retries are in `pool_recovery`, whose requests have two
attempts. A card with three
requests and two lanes has a running one, a waiting one and one that races them; the daily
limit of 1 makes the caps of two requests differ. Two records of one id and a third make a
duplicate inside a batch, across batches and across a restart. On the request path a
credit of 3 admits one hold of 2 and not two, a cost is below or above the hold, and two
events allow a credit or an adjustment next to a crash or an edit of the keys, and the
caps 1 and 2 an edit that raises or lowers the limit of a key. The stores
(`config`, `portal`, `cardbooks`, `models`) run two requests of every kind against each
other with a failure and a crash: every clobbered file, stale clone or lost update in them
is a race of two, and the faults fall between any two steps. Four frames are the shortest
answers with thinking, text and two parts of a call, and all combinations of two calls;
five turns are two rounds of calls and results and a last question. The upstream lists
have a family that is complete, one with gaps and one whose base is itself listed.
`MaxEvents`, `MaxGen`, `MaxRuns`, `MaxJobs`, `MaxFaults`, `MaxTicks`, `MaxEdits`,
`MaxProbes`, `MaxFrames`, `ChunkFrames`, `MaxTurns` and the single checkpoint message
bound what the environment may do. The proofs hold for every value of those that occur in
them.

Fairness. `pool_recovery`: the clock advances, the 30 s task ticks and its loop runs
to the end, and `auto_disable` and `set_enabled`, which have no `await` between the flag and
the record, return once begun; nothing is assumed of requests.
`card`: a task that can take a step does (tokio polls ready tasks); nothing is assumed of
timeouts, of cancellations, or of the end of an answer. The stream task waits for its client
in `tx.send(..).await` without a deadline (`src/main.rs:2618`, `:2691`), so a client that stops
reading keeps its lane: that holders let go is a premise of `WaitersProceed`, not an
assumption. `billing`: the writer thread is scheduled, `recv_timeout` ends, and
`record` returns.

Deadlock is checked for `AccountPool` and `BillingLedger`. In the other modules the bounded
number of requests of a behaviour comes to its end, and the model may stop there.

## 4. What the code does otherwise than it says

Each configuration below checks one statement of a comment or a document, and TLC reports
how the code departs from it (`tlc -config <cfg> <MC module>`). They are kept next to the runs
and are not part of them. Where a configuration has several, TLC stops at the first: remove
the one reported to see the next.

| Configuration | Statement | What happens |
|---|---|---|
| `MCAccountPoolOperator`, `OperatorHasPrecedence` | `src/pool.rs:610`: the operator goes before the reaper | `auto_disable` does not look at the flag: a request in flight gives an account that was switched off a quarantine record, and the reaper opens it |
| `MCAccountPoolOperator`, `AlwaysComesBack` | `src/pool.rs:576`: a quarantined account "永远会回来再试" | `auto_disable` between the two writes of a `set_enabled(true)` (`src/pool.rs:612-616`), or before a rollback (`src/admin/accounts.rs:158`), loses its record: the account stays off until an operator or a restart |
| `MCAccountPoolEdits`, `EditsApplied` | `src/pool.rs:307`: the kept account is updated | `Arc::get_mut` fails while the list of slots holds the slot; the edit waits for a restart |
| `MCCardGateClaims`, `NoOvercommit` | `src/cards.rs:2198`: concurrent admissions see each other's holds | load and add are separate operations |
| `MCCardGateHeld`, `NothingHeldAtRest` | `src/cards.rs:2135`: without a lane everything is rolled back | a dropped `acquire` does not |
| `MCCardGateClaims`, `StoredTotalIsCurrent` | `src/cards.rs:1310`: writing totals keeps the DB from diverging | totals are written after the guard is gone, perhaps in the opposite order |
| `MCRequestPathHolds`, `HoldsReturned` | `docs/portal-wallet-keys-plan.md:187`: a guard releases wallet holds in `Drop` | there is none: after `quota_admit` every error exit but the 429 of a busy key, and every dropped handler, leaves the hold in `used_micro` |
| `MCRequestPathHolds`, `ApiKeyCapAlways` | `max_concurrency` of an api key | the 60 s task reads the keys and filters the map in two steps (`src/main.rs:437`, `:440`): a key added in between, or listed again while its old requests run, gets a second semaphore |
| `MCConfigSerial`, `WritesSerialised` | `src/config.rs:230`: "写路径 copy-on-write 并用互斥锁串行化" | deletion and rollback of keys take effect in a second write and change other entries |
| `MCEgressRebalance`, `RebalanceRebinds` | `src/admin/proxies.rs`: "按当前规则重绑未手动指定的账号" | bindings are cleared, and what `auto_assign` chooses is counted but not stored; accounts are bound at their next request |
| `MCPortalBalance`, `BalanceCoversPurchase` | `docs/portal-design.md:315`: purchases check the balance, operations on it are atomic | two purchases check the same record and both are charged |
| `MCPortalBalance`, `OwnCardAlways` | `src/admin/portal.rs:437`: "改 card 模式前先校验卡归属" | a key created in quota mode with any card is not compared (`:404`, `src/portal.rs:456`), nor is one put in card mode without a card in the request (`:438`) |
| `MCCardCountdown`, `CountdownStartsByActivation` | `src/cards.rs:563`: "首调或手动激活才倒计时" | stacked time or an extension starts the countdown of an unactivated card; with `extend_card_hours` (`src/cards.rs:1579`) the hours of its plan are lost |
| `MCStreamUsage`, `UsageCountedOnce` | `src/translate.rs:92`: cached tokens are taken out of the input | with `cache_read` 0 and `cache_write` above 0 they are not |
| `MCShapingClaims`, `HintsKeepPrefix` | `src/cursor.rs:394`: "避免后续轮次 hint 变化破坏前缀缓存" | the hint of the first round is missing in the second |
| `MCShapingClaims`, `ForcedToolNamed` | `src/main.rs:1818`: a forced tool is named in the hint | the choice is normalised to `required` before the hint is made, and the name is lost |
| `MCShapingClaims`, `LinksSkipped` | `src/protocol.rs:233`: "http(s) 外链上游无抓取通道, 跳过并保文本" | a link is passed on |
| `MCShapingClaims`, `NamedIdKept` | `src/main.rs:2033`: an id the client names is kept | a retry replaces it (`src/main.rs:2118`) |
| `MCModelClaims`, `HiddenUntilBroughtBack` | `src/admin/models.rs:215`: the flag is inherited, or a bulk save brings hidden rows back | a row that is left out of the table (`:224`) or pruned (`:312`) is forgotten with its flag, and the name is listed again |
| `MCModelClaims`, `BlockedTierAvoided` | `src/models.rs`: "客户请求被禁档时回落到 default_tier" | the candidates of the level that replaces it, and the cheapest variant, may be of a blocked level |
| `MCModelClaims`, `EveryLevelRouted` | `src/models.rs`: a missing level falls back to the nearest one | every level has its own list of candidates; a family that has none of them is not routed |
| `MCModelClaims`, `FastEntryRouted` | `src/models.rs`: an entry `-fast` is routed to `-<level>-fast` | not when the base name resolves to nothing, because the upstream reports it itself or has no candidate of the level |

Without the conditions named in section 3 the following happens, each of it visible in the
model of its component.

- `ConfigStore`: of two deletions of API keys the second removes an index that no longer
  exists (`src/admin/keys.rs:284`), the pop of a rollback takes another request's key
  (`src/admin/keys.rs:140`), a refused proxy patch stays published in memory
  (`src/admin/proxies.rs:60`).
- `PortalStore`: two changes lose one, two new users get one id, a disabled user keeps the
  session.
- `CardBooks`: appeals and trust put a stale card back over a settlement or a revocation,
  an older snapshot replaces a newer file, a plan is deleted while a card of it is issued.
- `StreamTranslator`: text after a call opens the Anthropic index of the text again; with
  calls partly completed the last Responses events carry other indices; a delta without an
  id is reported for the last call.
- `Shaping`: images of the Anthropic dialect are dropped; two clients with the same system
  and first text share a conversation id.
- `ModelRegistry`: the card's gate looks at the requested name and the key's groups at the
  routed one; a request without `-fast` may get a cheaper fast variant; overlapping edits
  lose the hidden flag; deleting a hidden entry lists the name again.
- Stated by no property: streams of one API key are not bounded by its cap after the
  handler has returned (`src/main.rs:1760`); the stream task waits for a full channel
  without a deadline (`src/main.rs:2691`); the rate limiter resets its window in two
  operations.

## 5. Proofs

All for arbitrary constants under the named assumptions, one in each module
(`PoolAssumption`, `CardAssumption`, `LedgerAssumption`, `PathAssumption`,
`ConfigAssumption`, `ProxyAssumption`, `PortalAssumption`, `BooksAssumption`,
`RegistryAssumption`, `StreamAssumption`, `ClientsAssumption`): finite sets of requests or
records where they are counted, positive limits, markers that are no accounts, sessions or records, plans with hours, a process that
starts long after hour 0, well-formed names, and frames whose parts are texts over the
constant `Tokens`, and clients that send the fields their dialect has. Every safety invariant
and action property of the runs is a theorem; each was checked by TLC first, and so was
each inductive invariant.

Each proof has a lemma for every action, or for a group of actions that leave the same
part of the state alone, and ends in an invariance argument. Sums of amounts (holds, charges, log
rows) are cardinalities of sets of unit pairs (`Units`, `Total`; `Row`): adding an
amount adds a disjoint row, and the facts on finite sets replace an induction over requests.

**AccountPool.**

- `NeverStranded` (`NoStranded`). `PoolInv` is `TypeOK`, `InHand` (a request past its
  grant owns a slot of an account, an admin handler has an account) and `NoStranded`.
  `InHand` is needed because `AutoDisable` and `MarkIneligible` write the record of
  `held[r][1]`. `NoStranded` is inductive next to it because it admits the half-done state:
  between flag and record, `HalfDone` names the task that will finish. An account in `stray`
  is excepted as long as it has no record, is closed and nobody else decides; `StrayKept`
  shows that a step takes out only accounts of which one of these has changed.
- `PermitsBounded` (`PermitBound`). `PermitInv` adds `Kept`: whatever a request holds or
  refers to, and whatever a session is bound to, is the slot its account has now, unless the
  account was removed in between. This is why no semaphore is renewed while a
  request has the old one; `Bounded` counts the holders of each semaphore, and a grant
  needs a free permit.
- `ShutIsRespected` (`NoGrantWhileShut`) and `SessionsStick` (`StickyHonoured`), action
  properties. `TryInv`: the snapshot has no old slot of an account that is there
  (`SnapNow`), what a try refers to of an account that was shut all along is its slot of now,
  and none of the flags it has read of it at its label (`Passed`) was the reason (`Tried`);
  a session's account that was ready all along is the one tried first (`Firm`, at the labels
  `BoundPC`). At the grant all three flags have been read.

**CardGate.**

- `LanesExact` (`LanesCounted`) and `NoLostWakeup` (`NoSleepBeforeIdleCard`). `LaneInv`
  adds `QueueOK` (the queue is the sleeping requests, each once; a stored permit finds
  nobody asleep; caps are positive) and `WakeOnItsWay`, which covers requests about to fall
  asleep: those are the ones a wake-up can miss. The count changes by one with a request
  entering or leaving `InLane`.
- `HoldsAreKept` (`HoldCovers`), `ChargesAreCosts` (`NeverOvercharged`) and `TypeCorrect`.
  `MoneyInv`, next to `LaneInv`, adds `InHand`: what a request has of hold, lane and computed
  total at its label. The saturating subtraction of a release takes no more than the
  request's own hold because the sum covers it.

**BillingLedger.**

- `FlushIsBarrier` (`FlushedIsDecided`). `LedgerInv` says where a record that precedes a
  waiting flush can be: before the flush message in the channel, in the batch of the round
  that received it, or decided. FIFO order and the answer after the batch then give the
  claim.
- `LedgerRefinesPromise` (`KeepsPromise`). `fate` and `rows` map to themselves, `owed` to
  `pending` less the batch that was written and not yet uncounted. `LedgerInv` shows that a
  batch consists of records handed over and undecided, each once, so `WriteBatch` is a
  `Write` or a `Refuse` of the batch, `Restart` is `Lose`, and the rest stutters. For
  `owed` the lemmas `CountSound`, `CountInit`, `CountStep`, `BatchSize` and `SameCount` relate the
  counter to the cardinality of the undecided records.
- `CountersExact` and `TypeCorrect`. `Booked` is inductive next to `LedgerInv`: `written`,
  `ignored` and `failed` are the numbers of records of this process with that fate, and
  `pending` owes the undecided ones. A batch is counted record by record only because no
  record is in it twice and none of it was decided before (`RecordSets`); from the equations
  follows that no counter is ever taken below 0, which `TypeOK` needs.

**RequestPath.**

- `WalletNotOverspent` (`NoOverspend`) is inductive next to the types of the wallet: an
  admission checks the sum it writes, a settlement raises `used` by at most what it adds to
  `overshoot`, and the clamp at 0 is below any credit.
- `AnswersArePaid` (`ServedIsPaid`) and `OneRecordEach` (`RecordedOnce`). `PathInv` adds
  `Standing`: at each label, whether the request has an account, output and records, and
  that at `record` the claim is over. One lemma (`OneRequestMoves`) reduces a step to the
  request that makes it.
- `ApiKeysCapped` (`ApiKeyCap`) and `TypeCorrect`. `SemOK`: requests of a key in `kept`
  share the semaphore in the map (`Shared`), and a collection under way, between
  its reading of the keys and the removal, spares those keys. So the permits of one
  semaphore are all the permits of the key, and by `PeakOK` it was made with no more than
  the largest cap of that key.
- `WalletIsExact` (`WalletExact`). With the sum in units `WalletSummed` is inductive: each
  admission, settlement or release changes `used` and one request's row by the same
  amount, and a clamped adjustment is what `forgiven` counts. `AllHeld` relates the rows to
  the exits: a request that is over and owes nothing has no row, since its exit settled or
  released it.

**ConfigStore.** `WholeUnlessOverlapped` (`TornOnlyByOverlap`) and `EditsDoConverge`
(`EditsConverge`). `IInv` says that without overlapping saves the temporary file belongs to
the one that saves (`Alone`), that a torn file has a handler about to write it or a
mark of failure (`TornIsPending`, `Noted`), and that when no event waits and no save is
under way the watcher has read the last file (`Converging`). `LockHeld` is needed for the
import, whose guard holds the watcher back over the whole save.

**EgressProxies.** `EgressIsLawful`, `CacheIsFresh` and `BindingsKnown` are inductive
together with `Resolving`, which says what a request at each label has established of the
configuration it saw: the pool is on, the account has no manual node when the rules are
asked, the node it takes to `for_node` is on. The proofs are in `ConfigStoreProofs`, next to
those of the configuration the pool is fed from.

**ModelRegistry** (in `RequestPathProofs`: where a request goes, after what it pays).

- `RoutingIsLawful` (`RouteLawful`) and `MenuIsServed` (`ListedIsServed`). `ShapeInv`: the
  registry in memory, in the file and in every handler's hand consists of names, tiers and
  levels, the upstream list is one of the reported ones. The rest is about the operators:
  lemmas on names (a base has no suffix left to take off, the family of a variant is the
  family of its base, "cursor-" comes off once), on what each branch of
  `resolve_smart_model_full` can return, and on the entries a gate looks at.
- `HiddenStaysHidden` (`HiddenKept`). `HiddenInv`: as long as edits do not overlap, a
  name hidden whose row no edit took away (`Flagged`) is hidden in memory, in the file that a restart reads, in the save under
  way and in the copy of a handler that will store it; and each write path of an entry
  (upsert, import, bulk table, price-list synchronisation, rename) keeps the flag.

**StreamTranslator** (`TranslationProofs`). What the operators compute over sequences of any
length is proved by induction over natural numbers: `LeastNat` takes the least element of a set
of naturals from the library's `WFMin`, and `AllNat` concludes that a set with 0 and
successors has them all. `FlattenAppend` and `HeardAppend` then reduce what was sent
to one event more.

- `AnswerEndsOnce` (`EndedOnce`) and `StreamIsFull` (`StreamAgreesWithFull`). `StreamInv` has
  the types of translator and frames, that the closing event is there exactly when the
  result is "ok" (`StreamEnded`, `EndedForGood`), and that what both loops collected agrees
  (`StreamAgrees`): they share `apply_tool_call_part` and differ in what they send.
- `ClientReadsAll` (`ClientReadsAnswer`). `StreamHeard` says the increments of text and of
  thinking add up to what was collected; for calls, `CallsInv` needs the premise of the
  property in a form that steps keep: fragments come in the order of the calls (`InOrder`)
  and each call that was collected has been reported (`Noticed`, with `ReportCall` and
  `Unsent`: what of a call's arguments the client has not seen).
- `BlocksArePaired` (`BlocksPaired`). `LayoutInv` says what the events add up to: while the answer
  goes on, the blocks begun so far are thinking, text and one per call, in the order of their
  first event, all but the open ones stopped (`Laid`, of `Shows` and `Tidy`); when it broke
  off, `Tidy` alone; when it ended, all are stopped and the last event of a Responses
  stream names every item (`Settled`). `OrderlyRanks` and `OrderlyPart` turn the order of a frame's
  parts into the fact that thinking and text are over before a call begins. `StopIdxIs` shows
  that a stop recomputes the index its call was begun with, which for Responses holds only when
  all calls or none have a name (`AllOrNone`); `StopsTidy` goes over the calls by `AllNat`.

**Shaping** (in `RequestPathProofs`: what a request says upstream). Turns, accounts, clients, texts
and retries are unbounded; an answer has at most two parallel calls, as in the model.
`ShapingInv` is `Talk` and `SentBefore`. A turn is one `Append`, and each lemma says what one
turn more adds to the messages that are sent.

- `ResultsStayWithCalls` (`ResultsFollowCalls`). `Good` is the invariant of the fold of
  `openai_messages_to_cursor`: after any message, with the pending results flushed, each TOOL
  message answers the calls before it, and the calls that are open at the end are known by
  name. `Sound` says this of a whole list; `Agreed` says it of all three dialects with the same
  open calls, those of the last answer (`Unanswered`), which are none while the client awaits
  one. Without the open calls the statement is not inductive: a result could arrive for a call
  nobody made.
- `DialectsSayTheSame` (`DialectsAgree`). The rest of `Agreed`. Responses spreads an answer over
  items, and `Merged` puts them together only if the message in front is not an answer, which
  is `Hushed` and a part of `Talk`.
- `CacheStaysWarm` (`CacheKept`). `Continued`: every turn extends the messages of each
  dialect and changes none, so what was sent still begins what is sent (`Begins`). `Settled`:
  the first text of the user, from which the id is made, has been said, and later turns
  come after it; so all ids issued on an account are the one of now (`OneId`).

The lemmas on `FlattenSeq`, `FoldLeft` and `Chosen` (a list with one element more, the fold's
last step, what is chosen from a concatenation) are proved by induction over lengths with
`LeastNat`.

**PortalStore.** `IInv` has one part per theorem. `SnapshotsAreSound` rests on `Numbered`:
clones that overtake each other may repeat ids, but the counter leaves room for
every request still to create a user; and on `Cloned` and `Owned` for the keys, whose card
is their user's when a handler compared it (`Vouched`).
`PurchasesBalanced` rests on `Paying`, what a purchase has charged and delivered at each
step, `FileIsFollowed` on `Followed`, the one clone on its way through the temporary file.
`BalancesExplained` counts, in cents, what is stored and not yet logged (`Plus`, `Minus`).

**CardBooks.** `BooksInv` is `Frame` and, as long as nothing stale was written and no save
failed, `Recorded` and `Timed`. `Frame` has the types, what a handler has read, and that a
key about to be issued is nowhere in memory, stores, snapshots or other requests
(otherwise an old row of `cards.db` would be merged into a new card).
`Recorded` gives `RestartIsLossless`: the file is what is in memory or somebody is
still going to write it, and so is every snapshot that may yet be written; a total that is
missing in `cards.db` belongs to a settlement on its way, and no stored total is ahead of
memory, which the merge by the larger one needs. `Timed` gives `PaidTimeIsKept`, across
restarts that go back to an older end: for a card without an unanswered request the file and
the current snapshots have its end; for the others they have an earlier one, not before
the activation.

What the proofs changed in the model: `CASE`s with overlapping guards were made disjoint,
sums became cardinalities, `CardBooks`' type invariant was made complete, and `Conversation`
selects with `Chosen`, which is `SelectSeq` without a recursive operator inside. Three
conditions of `ListedIsServed` and one of `RouteLawful` were implicit in the constants of the
run and are now stated: the alias is left out, the variants are looked for under the name that
routing takes, a menu name is a family's base, its fast form or a reported one, and
the request names a level.

Only model-checked: all liveness (`WaitersProceed`, `QuarantineIsTemporary`,
`EveryRecordDecided`; the prover has no fairness).

Where two components share a module of proofs, the specification of one carries its name
(`ProxySpec`, `RegistrySpec`, `StreamSpec`, `ShapingSpec`).

## 6. Not modelled, and the plan

Not modelled: analytics and reports (read-only; the price map that routing uses is an input of
`ModelRegistry`), logs, metrics, audit, health pages, dumps, panels and scripts (nothing depends
on them); tool-schema validation (stateless); HTTP, TLS and the transports; the Grok
sign-in (a conversation with an external service); the rate limiter of the admin API.

Parts of modelled components left out: account import and batch edit (both end in
`replace_accounts`), health scores; extra limits and pacing of a card (a throttle level of any
kind); the RPM window and key usage (a choice to refuse); `SseStream` of an OpenAI
upstream; classes and texts of errors; sampling parameters, reasoning signatures and calls
without an id; names of imported proxy nodes; the history file of account quotas.

Planned, in this order:

1. An abstract specification of the portal's purchase (a charge and a delivery, both or
   neither) for `PortalStore` to refine, with its proof: `Paying` has what it needs.
2. `RateLimiter`.
