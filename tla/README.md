# Verification of the arbitrage bot

TLA+ models of the Rust program under `src/src`: an arbitrage bot for Solana that asks a
local Metis (Jupiter) server for quotes, keeps the opportunities whose round trip gains
more than a threshold, turns them into transactions and submits those as Jito bundles.
TLC checks the models on small instances; TLAPS proves the main safety properties for
every value of the constants. `PROJECT.json` lists the runs, their mutants, the source
lines every definition stands for, the findings, the hazards and the theorems.

## 1. The system

| Part | State it keeps | Operations | Status |
|---|---|---|---|
| Start-up, scan loop (`main.rs`) | none after start; owns the tasks | load caches, subscribe, warm up, spawn workers, flush task and reporters, run `scan_all_tokens` for ever | the start-up order in `TemplateStore` and `AccountCache`, what is subscribed to and prefetched in `PoolFiles`, the loop in `Scanner` |
| Scanner (`arbitrage.rs`: `scan_all_tokens`, `quote_check`) | nothing shared; one check per token, amount and kind of route, a bounded number at once | two quotes, profit test, three tiers: exact route, hop pair, Metis | modelled: the cycle in `Scanner`, the filters in `Quotes`, the tiers in `TemplateStore`, a check's counters in `TokenBooks` |
| Metis client (`metis.rs`) | HTTP client | `get_quote`, `get_swap_instructions`, `merge_quotes` | `merge_quotes` in `Quotes`; its answers and failures as inputs |
| Template store (`template_cache.rs`) | one `RwLock<StoreInner>`: hop map, two route segments, hop-pair index; the files under `cache/` | `get_route`, `get_route_for_hops`, `insert_route`, `record_hops`, `check_hops`, flush, load | modelled |
| Opportunity pipeline (`arbitrage.rs`: `Pipeline`) | the LIFO stack, its semaphore, the depth gauge, the workers | push, pop, age check, rate limit, put back, build, submit | modelled |
| Rate limiter (`rate_limiter.rs`) | timestamps of the grants of the last second | `try_acquire` | modelled |
| Transaction builder (`transaction.rs`) | none | build, look accounts up in tables, count account locks | tables in `AltTables`, outcomes in `Pipeline` |
| Lookup-table cache (`alt_cache.rs`) | table address -> addresses | `get_or_fetch`, `clear` (never called) | modelled |
| Jito REST (`jito.rs`) | HTTP client, endpoints | `send_bundle`: all endpoints at once, first success | modelled |
| Jito gRPC (`jito_grpc.rs`) | per region: channel, access and refresh token | connect, `send_bundle`, authentication, `token_refresh_loop` | modelled |
| Blockhash cache (`blockhash_cache.rs`) | the last blockhash | periodic refresh, `get` | not modelled |
| Metrics (`metrics.rs`) | atomic counters of a window | increments; a reporter that swaps them to zero | the funnel and the depth gauge |
| Token metrics (`token_metrics.rs`) | per-token counters, a half-hour accumulator | increments, reporter with two files | modelled |
| Account cache (`account_cache.rs`) | account -> data, the stream's slot | RPC fetch, stream updates, reconnection | modelled |
| Pool files (`dex_accounts.rs`) | none after start | which accounts to subscribe to and to prefetch | `PoolFiles` |
| Simulator (`litesvm_sim.rs`) | a pool of in-process VMs, each behind a mutex | `acquire`, `simulate` | modelled, although no worker calls it yet |
| Configuration, tools, `vendor/` | - | parsing, one-off utilities, third-party VM | not modelled |

How they interact. `main` starts one scan loop, `calc_workers` workers, the flush task and
the reporters. The scanner looks an opportunity up in the template store; a hit is pushed
on the stack by the scanner itself, a miss spawns a task that asks Metis, records what it
learns in the store and pushes its own result. A worker pops, checks the age, takes a slot
of the REST limiter or else of the gRPC limiter or else puts the item back, builds the
transaction and submits it through the channel whose slot it took. All tasks run on a
multi-threaded tokio runtime: any two steps between two accesses to shared state may be
interleaved.

Hard behaviours, and where they bite (PROJECT.json lists each as a hazard with its line):

- the stack, its semaphore and its gauge are three separate objects, updated one after the
  other by every producer and worker, in different orders (`arbitrage.rs:305-347`);
- an opportunity refused by both limiters is moved back to the stack, perhaps many times,
  while its age keeps growing;
- the stack is last-in-first-out, the age is only looked at after a pop;
- the slot is taken before the transaction is built, and building may fail;
- `get_route` takes the lock twice: a route found cold is promoted later, when it may have
  been promoted, evicted or replaced by somebody else (`template_cache.rs:387-442`);
- a full hot segment replaces the cold one, whose routes are lost, while the index that
  names them is not touched (`template_cache.rs:534-545`);
- a flush is two snapshots and several files, any of which may fail to be written; the
  process may die between any two of them and starts again on what is there;
- a bundle goes to every endpoint at once, with a timeout each, and the worker stays with it
  while the other opportunities age; tokens expire while they are in use; a stream and a
  one-off fetch update the same account;
- a scan cycle shares a bounded number of places between free and direct checks of every
  amount and token, and ends only when all of them have ended;
- a report that cannot be written is logged and not tried again;
- the amounts of a cached instruction are found by searching its bytes for their values.

A simulator keeps what earlier transactions left in it, and its callers share it. That is hard too,
but reached by no caller at this commit, so it is not among the hazards; `Simulation` is kept for
the day `simulate` is called (section 7).

What makes each component correct:

- *pipeline*: no opportunity is lost, duplicated or submitted twice; no wake-up is lost or
  invented; every opportunity gets a verdict; an overdue one is never submitted;
- *scanner*: each cycle asks every pair once, and ends; what it pushes is a round trip through
  distinct pools, with the hop count and the floor of the plan that is swapped;
- *limiter*: no more grants in any one second than configured;
- *template store*: it is one table with atomic operations; what it serves swaps the amount
  asked for along the hops asked for; its size is bounded; its file is one past moment of it;
- *lookup tables*: a position compiled against a cached table means the same account in the
  table on chain, or is off by exactly the tip accounts ahead of it; the tip is never looked up;
- *accounts*: once the stream has delivered an account, its copy is the latest;
- *simulator*: a transaction runs on the accounts its own simulation read;
- *senders*: a bundle is reported as sent only if an endpoint accepted it, as failed only if
  all of them were tried, and one of the two in bounded time;
- *authentication*: an access token is replaced before it expires, also when one attempt
  fails, and a region that lost its tokens gets new ones;
- *metrics*: every event is counted in exactly one window, the counts of one opportunity agree
  over the windows, and every window is in exactly one summary, whichever writes fail.

## 2. Modules

| Module | What it is |
|---|---|
| `Quotes` | pure: the route helpers, `merge_quotes`, the signature and hop keys of a plan |
| `Scanner`, `MCScanner` | the scan cycle, its checks and its Metis tasks; its instance |
| `ScannerProofs` | theorems about `Scanner` and `Quotes` |
| `Pipeline` | the stack, semaphore, gauge, producers, workers and both limiters, one action per access |
| `Dispatch` | what the pipeline promises: offered, waiting, dropped stale or granted a slot, one verdict |
| `MCPipeline` | small instances of `Pipeline` |
| `PipelineProofs` | theorems about `Pipeline` |
| `TemplateStore` | the store, the scanner's tiers, the Metis tasks, the flush task, the files, restarts |
| `RouteTable` | what the store promises: one atomic table, and a file holding one moment of it |
| `AmountPatch` | pure: `discover_offsets` and `patch_amounts_b64`, byte by byte |
| `MCTemplateStore` | small instances of `TemplateStore`, whose routes and hops are the signatures and keys (`Quotes`) of three plans |
| `TemplateStoreProofs` | theorems about `AmountPatch` and `TemplateStore`: offsets, segments, what is served, the refinement |
| `AltTables`, `MCAltTables` | the builders that share the table cache, the tables on chain, `try_compile`; its instances |
| `AltTablesProofs` | theorems about `AltTables` |
| `Broadcast` | `send_bundle` of both clients |
| `Submission`, `MCSubmission` | `Pipeline` and `Broadcast` together: the worker waits for the calls it makes; its instance |
| `SubmissionProofs` | theorems about `Broadcast` and `Submission` |
| `GrpcAuth` | a region's tokens and its refresh loop |
| `GrpcAuthProofs` | theorems about `GrpcAuth` |
| `MetricsWindow` | the counters of the funnel and the 30-s reporter |
| `TokenBooks` | the counters of a token's quote checks and the 5-min reporter |
| `ReporterProofs` | theorems about `TokenBooks` and `MetricsWindow` |
| `PoolFiles`, `MCPoolFiles` | pure: the accounts of the pool files, subscribed to and prefetched; one file and one token |
| `AccountCache`, `MCAccountCache` | the account stream and the warm-up; its instances |
| `Simulation`, `MCSimulation` | `AccountCache` with the simulators and their callers; its instance |
| `SimulationProofs` | theorems about `AccountCache` and `Simulation` |

How they compose. `Scanner` pushes the items of `Pipeline`: there a push is a `Produce`, here
it is `pushed`. Its tiers are one step, which `TemplateStore` takes apart by lock acquisition;
`TokenBooks` and `MetricsWindow` take apart the counters of the same steps. `Pipeline` contains
the limiters, and takes a build and a submission for one step with any outcome. `AltTables` is
what happens inside the build. `Submission` puts `Broadcast` in the place of the submission and
is shown to implement `Pipeline`, its fairness included (`ImplementsPipeline`): the worker's step
ends because every call does. `Pipeline` in turn implements `Dispatch`, and `TemplateStore`
implements `RouteTable`. `GrpcAuth` is beside `Broadcast`: a bundle reads the access token of
each region as it finds it. `Simulation` extends `AccountCache`, whose start-up is `PoolFiles`.
The operators whose comment begins with *Mutation of* are variants of the definition after
them, each a plausible mistake; PROJECT.json pairs each property with one that breaks it.
No specification uses them.

### Scanner

| Variable | Code |
|---|---|
| `config` | the settings that decide: amounts, `max_concurrent_quotes`, the serving switches |
| `todo`, `flying` | what is left of `all_pairs` in the stream; the futures `buffer_unordered` holds, each with the answer to its first request |
| `task` | the spawned Metis tasks and the merged quote each captured |
| `pushed` | the opportunity pushed to the pipeline in the last step |
| `asked` | the checks of this cycle (no variable of the code) |

`buffer_unordered` fills its buffer before it looks for an answer (`Filled`). All checks and
the body of the loop are one task, which is switched at an await only, so that everything
after the answer to a check's second request is one step, up to the push or the spawn.
What Metis may answer is a set of plans for each pair of mints, including plans that are not
arrays; amounts out are chosen around the thresholds. In `Quotes`, a label is the set of the
words that the code looks for in it, and a swapInfo is a record of the fields that matter.

### Pipeline

| Variable | Code |
|---|---|
| `lifo`, `permits`, `depth` | `Pipeline.lifo` (last element on top), `Pipeline.lifo_sem`, `Metrics.queue_depth` |
| `offer` | how far the producer of an item is in `push_to_queue`: push, `fetch_add`, `add_permits` |
| `pc`, `held` | how far a worker is in its loop of `spawn_workers` and the `ReadyInstruction` it owns |
| `age`, `waited` | `arrived_at.elapsed()`, `waited_for_slot` |
| `stamps`, `slot`, `slotAge` | `RateLimiter.timestamps`; which channel granted an item its slot and how long ago |
| `verdict` | which of the counters `dropped_stale`, build failure, locks, size, sent, failed it ended in |

Every lock, semaphore, atomic or await in the code is one action, in the order of the code.
Without a gRPC client there is no gRPC limiter, which is a limiter of 0. `try_acquire` is one action because the limiter holds its mutex throughout: it forgets the
old timestamps (also when it then refuses), compares, and remembers the new one. Building
and submitting are external: any outcome the code distinguishes is possible.

Time is kept as ages, not as a clock: one unit per `Tick`, saturated one past the last
value the code compares with, so that runs can last for ever in a finite state space. A
`Recycle` step gives the identity of a finished opportunity, whose grant has left the
window, to a new one: a finite set of `Items` bounds how many opportunities are live or in
a window at once, not how many a run sees. `OverdueNeverClaims` and `EveryItemSettles` are
about one opportunity each, and are checked without `Recycle`.

The `None => continue` branch after a pop is not in the model: `PopFindsItem`, checked and
proved, says that no reachable state takes it.

### TemplateStore

| Variable | Code |
|---|---|
| `hot`, `cold`, `index`, `hops` | `StoreInner.routes_hot`, `routes_cold`, `hop_pair_index`, `hops` |
| `scan`, `outcome` | the scanner's position in the three tiers for one opportunity; what its last lookup served |
| `task` | each spawned Metis task: fetching, `insert_route`, `record_hops` |
| `flush`, `disk` | the flush task with its snapshots; `cache/routes.json` and the hop files |
| `mode`, `boot` | the `[template_cache]` switches; how many routes the process loaded |

The lock is taken once per action. An instruction is abstracted to the route it swaps along
and its data, a sequence of bytes that holds the two amounts somewhere: `Layout`
says what Metis writes before and after them, `Embeds` what it writes as quoted amount, and
where they are found is computed by `DiscoverOffsets` of `AmountPatch`, as the code does, with
the two passes and the give-up on an ambiguous match. Base64 and the statistics of a template,
which no decision reads, are left out. `NoAccidentAssumption` is what the second pass takes for
granted (`template_cache.rs:276-279`): where Metis writes another out amount than the floor it was
given, the bytes of amount and floor do not happen to follow each other elsewhere.

Files are written beside their name and renamed, so one is replaced as a whole or not at all;
`Restart` is a process crash (or a redeployment with other switches), not a loss of power in
the middle of a disk write.

### AltTables

| Variable | Code |
|---|---|
| `chain` | the lookup tables on chain, which their owners extend and close |
| `cache` | `AltCache.inner` |
| `build` | each `build_arb_transaction`: the tables it goes through, the lists it got, the compiled positions |

`get_or_fetch` is a hit under the read lock, or a miss, a fetch from the chain as it is then,
and a store under the write lock. The accounts of the swap and the tip are chosen in
`Compile`, since no step before it looks at them. `try_compile` is external and modelled
from what the Solana SDK promises: tables are gone through in order, an account is looked
up in the first that lists it, at its first position, which has to fit in a byte (`Width`).
A table that was closed cannot be fetched any more, and a transaction that names it is
rejected; `ResolvesAsBuilt` is about the tables that are open when it lands.

### Broadcast

| Variable | Code |
|---|---|
| `caller` | where the worker is in `send_bundle`, and what it was told |
| `call`, `seen` | the state of each call in the `FuturesUnordered`; the errors `next()` has returned |
| `wire` | what becomes of a request beyond the worker, also after its call timed out or was dropped |

In `Submission` a bundle is named by the opportunity it is built from. A worker's steps are those
of `Pipeline`; the one that leaves the build begins the calls, and the one that counts the
verdict waits for the caller's answer. Calls and requests go on by themselves.

### GrpcAuth

| Variable | Code |
|---|---|
| `stage` | `connect_region`, then where `token_refresh_loop` is: planning, asleep, in a call, in the pause |
| `access`, `refresh`, `timer` | what is left of the tokens and of the sleep, in units of 5 s |
| `lag` | whether the calls of a round have gone on past a `Tick` |
| `missed` | rounds in a row without a new access token, 2 for more |

Time passes in `Tick`s and a task whose sleep is over goes on before the next one: the
timers of tokio are early by nothing and late by much less than 5 s. A round makes at most
three calls (a refresh, and a challenge and its tokens when that failed) that the channel ends
after one second, so that it straddles at most one tick.
The wall clocks of the bot and of the server are taken to agree, as the code does.

### MetricsWindow and TokenBooks

| Variable | Code |
|---|---|
| `metric`, `counter` | the atomics of `Metrics`, of one `TokenStat` |
| `path`, `check` | which counters a task has still to increment; how far a `quote_check` is |
| `swapped`, `collected` | how many counters the reporter of each has swapped |
| `window`, `snap` | what it got |
| `acc`, `windows` | the half-hour accumulator and its number of windows |
| `printed`, `filed`, `summed` | what was printed and written, added up (no variable of the code) |
| `discarded` | what was swapped out of `tx_dropped`, which is not shown (no variable of the code) |
| `unfiled`, `unsummed` | the windows and the summaries that `write_json` could not write, added up (no variable of the code) |
| `counted`, `booked` | history: every increment (no variable of the code) |

Every `fetch_add` and every `swap(0)` is a step. `events` bounds the walks of a run. Each write of
`write_json` may fail; the reporter goes on as if it had not (`WriteJson`). The two files are
overwritten each time: `filed` and `summed` add up what they have held.

### AccountCache

| Variable | Code |
|---|---|
| `now`, `written` | the chain: the latest slot, and the slots that wrote each account |
| `stream`, `pending`, `hand` | the subscription, the updates on their way, the one being applied |
| `cache`, `clock` | `AccountCache.inner` (an account is the slot that wrote it), `stream_slot` |
| `todo`, `fetching` | the `prefetch` of the start-up |
| `live` | accounts whose copy this connection put there (no variable of the code) |
| `next`, `svm` | in `Simulation`: `SimulatorPool.next`; the clock and the accounts of each machine |
| `sim` | in `Simulation`: how far each call of `simulate` is, and what it has read (`saw`) |

The RPC node answers with any state the account has had: its commitment and its lag are its
own. Forks are left out, slots are handed out in order. What is streamed and prefetched is
computed by `PoolFiles` from a pool file and a token. Executing a transaction is external: it
changes nothing in the machine, and answers anything, once the machine has the lookup tables.

## 3. Runs

| Run | Question | Instance |
|---|---|---|
| `scanner` | types and the bound on checks in flight; each cycle asks every wanted pair once, and ends; free checks are not behind direct ones; what is pushed is a round trip through distinct pools, has the hop count of its plan, and a floor below its quote | 2 tokens, 5 pools, legs of one and two hops, 1 and 2 amounts, 1, 2 or all checks at once, with and without Tier 3 |
| `pipeline_safety` | types; permits account for the stack, the gauge never shows fewer than none; no item lost or doubled; no second has more grants than its budget; the pipeline implements `Dispatch` | 3 items, 2 workers, both channels at 1 per window, window 2, max age 1, identities reused |
| `submission` | what is counted is what happened on the network; every opportunity settles; an overdue one never takes a slot; with the calls spelt out, the pipeline implements `Pipeline` | 2 items, 1 worker, REST at 1 per window, 2 endpoints |
| `store_safety` | types; a route is in one segment; the bound of a segment; index and routes agree, in memory and on disk | 3 routes, capacity 1, 2 tasks, every switch on |
| `store_serves` | what is served swaps what was asked; the store implements `RouteTable`; a route that stays in memory gets to the file | 2 routes of the same hops, capacity 1, 2 amounts of one byte, instructions that hold an amount's byte twice, 1 task, restarts with two sets of switches |
| `alt_tables` | positions stand for the accounts they were compiled from; where a table lists tip accounts, they are short by those ahead; the tip is static | 2 builders, 2 tables, 2 accounts and a tip, 3 addresses in all, positions up to 2 fit |
| `alt_shift` | *violated*: the same, also for tables that list a tip account | 1 builder, 1 table |
| `auth` | one failed round is harmless; refresh tokens are live when used; a region recovers | the delays of the code in 5-s units, access tokens of 70, 200 and 500 s, refresh tokens of 150 and 500 s |
| `metrics` | the books of the funnel balance; everything that is shown is printed | 2 tasks, 2 walks, all 20 counters |
| `token_books` | the books of the checks balance; windows and summaries agree whichever writes fail; everything counted is given to a summary | 2 checks, 2 windows to a summary, any write failing |
| `simulation` | a streamed copy is current; the clock is not behind it; a transaction runs on what its simulation read | a streamed and prefetched vault, a program, a lookup table, 3 slots, 2 callers of 1 simulator |
| `account_undone` | *violated*: a fetch never sets a streamed account back | the wallet's account and a vault, streamed and prefetched, a pool, a mint, 4 slots |

Why these bounds are enough for what they ask. Two tokens let a leg go through the other one, so
that two legs may share a pool away from the token they meet at; the amounts end on the
greatest in two settings and before it in one; the outputs lie on both sides of the threshold and
at it. Two workers and three items are the least with which one item can be in each worker's
hands and one in the stack, with a producer of each kind in between; three items at a limit of
one make refusals and requeues happen, and a window of two ticks makes grants overlap. In
`submission`, two items for one worker are the least with which one ages while the worker is
with the other, or is put back before it; two endpoints let an acceptance come before and after
an error; what more of either adds is asked of `pipeline_safety` and by `VerdictsAreHonest`, which
holds for any number. Three routes at capacity one fill the hot segment, push a segment to cold
and evict it; at that capacity a promotion always meets a full hot segment, and the promotion
into one with room rests on the theorem `SegmentsAlwaysDisjoint`, which holds for every capacity. Two
tasks that missed on one route are the least with which insertions race; where there is one
(`store_serves`), its insertion, a critical section of its own, is interleaved with the scanner's
promotions and the flush. Two amounts are what it takes to serve a patched instruction. Two
tables are what it takes for one account to be listed twice, two builders for a store over
another's, three addresses for a tip account ahead of two others. Two checks let one
be between any two of its increments while the other is done or still to come, at each of the
reporter's swaps; two windows to a summary let either, both or none fail to be written. Regions share nothing, so one is enough; the lifetimes include the shortest assumed,
and ones that hit the 300-s limit of a sleep. Three or four slots let an account be written
before, during and after a fetch and a reconnection; two callers of one simulator are what it
takes for one's accounts to be in the other's way. Symmetry is used in runs of safety
properties only.

`store_safety` and `store_serves` differ in their instance because two amounts, three routes
and two tasks together are out of TLC's reach in reasonable time; the same holds for the
safety of `Pipeline` at three items and its liveness under submissions at two.

Deadlock is checked in every run but `submission`, whose two opportunities are settled and
done. In the others time passes, a reporter goes on, a table can be built from or a process
restarted at any moment, so that check says little; that work goes on is what the liveness
properties say.

### Fairness

`Scanner`: weak fairness of taking the next check, of the next cycle, and of each Metis task and
of the checks in flight taken together. Every request of `metis.rs` has a time-out of the client
(98-112), and the scan task is polled when an answer or a time-out is there. Nothing is assumed of
what Metis answers, which may fail every time.

`Pipeline`: weak fairness of the rest of a producer's steps once it has pushed, of every
worker, and of time. tokio polls a ready task, the mutexes are held for a few instructions
and every HTTP or gRPC call has a timeout, so none of these steps is postponed for ever.
Nothing is assumed of `Push` and `Recycle`: new opportunities may keep coming or stop.

`TemplateStore`: weak fairness of the flush task, which an interval drives, and strong
fairness of a route file being written: it may fail now and then, not every time. Nothing
is assumed of the scanner, of Metis or of restarts; a route lost to a crash before its
flush satisfies `RoutesPersisted` because it has left the store.

`Broadcast`, in `Submission`: weak fairness of the worker's poll and of every call. The executor
polls a ready task, and each call is wrapped in a time-out of a second. Nothing is assumed of the
network. A worker in a submission is only assumed to go on once `send_bundle` has answered; the
fairness of that step in `Pipeline`, which assumes no such thing, is a consequence.

`GrpcAuth`: weak fairness of time and of the loop, which sleeps for a bounded time and whose
calls time out; strong fairness of a full authentication: the server may refuse it now and
then, not every time it is asked. Nothing is assumed of a refresh, which may fail or come
back empty every time.

`MetricsWindow`, `TokenBooks`: weak fairness of the reporter, which an interval drives.
Nothing is assumed of the tasks that count, nor of the file system: every write may fail.

`AltTables`, `AccountCache`, `Simulation`: none, since only safety is asked.

## 4. Theorems

The theorems are about the safety part of each specification, without its fairness. An invariant
is proved by a stronger one that every action preserves, one lemma for each action or process.

`PipelineProofs` (any finite number of items and workers, any limits, ages and window;
`SafetyForever`, that is with identities reused):

- `TypeCorrect`: `TypeOK`.
- `AccountsBalance`: `PermitAccounting` and `GaugeAccounting`. They are inductive together
  with `HeldOK`: a worker holds an item exactly in the stages in which it does. Each step
  moves at most one element into or out of each of the counted sets; `QueueDelta`,
  `WorkerDelta` and `ProducerDelta` say by how much for each kind of step, and
  `BalancedStep` adds the differences up.
- `QueueIsSafe`: `PopFindsItem`, and `GaugeIsSafe`: `GaugeNeverNegative`, from the balances: a
  worker about to pop is itself one of the terms of the sum, so the stack cannot be empty; every
  decrement not yet made is matched by an element that has left the stack.
- `BudgetHolds`: `BudgetRespected`. It is not inductive: the limiter compares the grants it
  remembers. The strengthening `GrantsRemembered` says that every grant younger than the
  window is still remembered, so that the set compared contains the set bounded.
- `NothingDuplicated`: `NeverDuplicated`. A pop that leaves two copies of an item would not be seen
  in the stack; `Places` says that what lives is in the stack or in one worker's hands, in one
  place only, that what waits has no slot and that what is being built or sent has one.
- `DispatchImplemented`: `ImplementsDispatch`. Only the push, the two grants, the
  drops and verdicts, the recycling and the passing of time show in `Dispatch`, and each is one of
  its steps; that its guards hold there follows from `Places` and `BudgetInv`.
- `OverdueNeverAdmitted`: `OverdueNeverClaims`, for `Safety`, without reuse. Its
  inner box is an invariant from the moment an item is too old in the stack: from there it is in
  the stack, or with a worker that has yet to look at its age, or dropped.
- `NothingTakenBack`, an action property: a slot and a verdict stand until the item is recycled, and
  the age of what lives only grows, requeued or not. `OwnedLives` and `Places` give each
  writing step its item: held by that worker, without a verdict, and without a slot before a grant.
- `SlotsExplainVerdicts`: what was dropped for its age had no slot, what has any other verdict had one.
- `NoWorkStranded`: when every worker waits for a permit, there is none and no producer is
  midway, the stack is empty and nothing is alive. It follows from the balances and `Places`: the
  safety half of what `EveryItemSettles` says under fairness, a permit that is never lost.

`SubmissionProofs` (any number of bundles and workers, any finite set of endpoints, all limits):

- `VerdictsAreHonest`: `SentHasLanded` and `FailedEverywhere`, of `Broadcast` by itself. The
  inductive invariant relates what the worker knows of a call with what became of the request:
  a call answered `ok` has landed, and an error that was seen is still one.
- `PipelineImplemented`: every step of `Submission` is a step of `Pipeline` or changes nothing of it.
  The invariants of `PipelineProofs` therefore hold here too, and are used by the following.
- `CountsAlwaysTrue`: `CountsAreTrue`; `SubmissionsAreHonest`: `SentHasLanded`. The invariant keeps
  the worker and its caller in step: nothing of a bundle has left the process before its worker
  submits it, and the caller's answer is what the worker counts.
- `OverdueNeverAdmitted`: `OverdueNeverClaims` where workers are held up by their calls.

`TemplateStoreProofs` (any finite set of routes, any capacity, hops, layouts of the instructions,
amounts, tasks and switches; from `ServedAsAskedAlways` on under `NoAccidentAssumption`):

- `DiscoverSound`: for any data, any number of values of a byte and any width, `discover_offsets`
  points at the two amounts that Metis wrote, or at nothing, whichever of its passes decides: the
  place they were written at is among the matches, and `Unique` gives up if there is another. It
  takes `NoAccident`. `PatchHolds` then says that patching there puts the two new amounts there
  and changes nothing else.
- `SegmentsAlwaysDisjoint`, `SegmentsAlwaysBounded`: with finiteness of the store and of the
  flushed and saved maps as the strengthening: after a restart the hot segment is what the file
  holds, and the bound is on its cardinality.
- `ServedAsAskedAlways`: `ServedAsAsked`. The strengthening `Serving` says that every template, in
  either segment, in a flush and on disk, holds Metis's answers for its own route with offsets
  that are sound, that the index leads from a hop pair to a route of those hops, and what the
  scanner and the tasks carry between their critical sections.
- `PairsIndexedAlways`: `PairsIndexed`, from the same invariant: index and routes are snapshot under
  one lock, and every insertion of a route of two hops has indexed its pair.
- `TableImplemented`: `ImplementsTable`. A lookup or a promotion maps to one atomic lookup: the two
  segments are one table (`Known`), disjoint by `Segments`, so that a promotion moves a template
  and changes nothing of the table, unless it evicts; a served instruction is the one the table
  gives by `Serving`. An insertion is the table's, with or without an eviction, and the file is
  a moment of the table because it is written from one snapshot.
- `TypeCorrect`: `TypeOK`, from `Serving` and `Typed`, which has the parts `Serving` does not need.
- `OnlyEnriched`, an action property: while a route stays live its template keeps base, offset and
  variants, and only gains variants; a restart brings back what the file held. `RouteTable` says
  so of what it sees; the offsets and amounts that a patch takes are hidden from it.

`ScannerProofs` (any list of distinct tokens, settings, answers of Metis within `PlanAssumption`,
tasks):

- The invariant `ScanInv`: the checks taken and the checks to do are `AllPairs`, cut in two
  (`Progress`); what is in flight was taken, and holds an answer to its own first request
  (`InFlight`); what a task holds or the last step pushed comes from two answers that
  passed every filter of the loop (`Opportunities`, `Offered`).
- `EveryPairAlwaysOnce`, `FreeNeverBehind`, `TypeCorrect`: from `Progress` and `AllPairsListed`, which
  says that the enumeration lists the wanted checks, each once. The enumeration is a recursive
  function of the amount; that there is one follows by induction on the distance from the
  greatest amount, stated for sets (`InductionOnSet`) from the well-ordering of the naturals.
- `AlwaysRoundTrip`, `AlwaysAsCounted`, `AlwaysAboveFloor`: from `Offered`, by `LegsMeet` (two legs
  that pass `SharePool` meet in no pool) and `MergedRoute` (two such legs, one after the other, are a
  round trip). `PlanAssumption` says of Metis that a leg by itself is a chain of hops from its input
  to its output through different pools: the code looks into neither leg.
- `SignatureDecidesHops`, about `Quotes`: two plans with one `route_sig` have the same hop keys, in
  order. It is what lets `TemplateStore` take the hops of a route for a function of its
  signature, `HopsOf`. Collisions of the hash are left out, as in `RouteSig`.

`AltTablesProofs` (any finite set of tables, any accounts and builders):

- `PositionsResolve`: `ResolvesAsBuilt`; `TipAlwaysStatic`: `TipIsStatic`. In `AltInv`, a list in the cache or with a builder has no tip account
  and is the beginning of its table as long as that is open and lists none: tables only grow, so
  a list that is stale, or stored late over a longer one, still names positions that stand.
  What `Retained` leaves, a recursive function, is characterised by the same induction.
- `ResolvesWithoutTips`: `ResolvesAlways`, if nobody lists a tip account (`OnlyListable`).
- `ShiftIsTipsAhead`: `ShiftedByTips`, a named position is short of its account's place in an open table by exactly the
  tip accounts listed ahead of that place. `RetainedShift` says so of `retain`; `ShiftInv` carries it
  through the cache and the builders, because a table only grows behind what was copied.
- `PositionsBeforeTipsStand`, from it: with no tip account up to a position, the position stands.

`GrpcAuthProofs` (any regions, lifetimes and delays, under the named assumptions):

- `TypeCorrect`: `TypeOK`.
- `MissesCovered`: `OneMissIsHarmless`. Not inductive: that the token is alive says nothing of
  how long it still is. `MarginInv` bounds from below what is left of it in every stage, by
  the rounds missed: after a renewal the sleep leaves `Margin`, or is `MinSleep` of a token
  that lives at least `Margin + MinSleep`; a failed round costs a unit of calls, `Retry` and
  `MinSleep`. It takes `MinSleep + Retry + 2 < Margin` (10 + 30 s and two units within 60 s) and
  lifetimes of at least `Margin + MinSleep`, which the server is assumed to issue.
- `RefreshInTime`: `RefreshTokenLive`, from `Renew > 1`: the refresh token is looked at when the
  loop wakes, not when it goes to sleep.

`SimulationProofs` (any accounts, filters, prefetch lists, pools, callers and transactions):

- `LiveAlwaysCurrent`: `LiveIsCurrent`. Not inductive: an update that arrives late would set the
  copy back. `Delivers` says that the last update of an account that is under way is its latest
  write, and `Connected` that a new connection begins with none.
- `ClockNeverBehind`: `ClockNotBehind`, by `Ordered`: updates come in the order of their slots, the
  clock between those applied and those to come.
- `RunsAlwaysOnWhatItRead`: `RunsOnWhatItRead`. A machine belongs to one caller from injection to
  run (`Exclusive`), has what its caller has injected as it was read (`Injected`), and nothing of
  an account that the cache lacks (`NoLeftover`), since the cache loses no account.
- `StreamOnlyNeverUndone`, an action property: the copy of an account that is streamed and not
  prefetched never goes back. No fetch of it is ever under way (`Prefetching`), and the update in
  hand is no older than the copy (`Behind`). `NeverUndoneApart`: `StreamNeverUndone`, if no account is both.

`ReporterProofs` (any finite set of checks, any number of windows to a summary; any set of tasks):

- `FunnelAlwaysBalances`: `FunnelBalances`, of `MetricsWindow`, with its sums over counters written
  out. What was entered of a counter is in it, in the window being collected, printed (or, of
  `tx_dropped`, discarded), or due from a walk under way (`Entered`). A walk adds as much to both sides (`Balanced`) when it starts, and
  an increment or a swap moves what was entered: a walk has no counter twice (`NoRepeats`), and a
  swap overwrites a place that is still zero (`NotYetTaken`).

- `BooksAlwaysBalance`: `BooksBalance`; `SummariesAlwaysAddUp`: `SummariesAddUp`. A swap overwrites
  its place in the window, so that the totals stay only if that place is still zero:
  `NotYetSwapped`, which needs that no counter is in `Order` twice. What is given to `write_json` is
  written or lost, whole, so that each case adds the same to both sides (`EachAddsUp`).

The assumptions are the named `ASSUME`s of the modules; TLC evaluates them in every run. Those that
say more than types and finiteness: `NoAccidentAssumption`, `PlanAssumption`, the delays and
lifetimes of `GrpcAuth`, and that tokens are listed once (`TokenAssumption`).

`GaugeAccounting`, `FailedEverywhere` and the type invariants of `Broadcast` and `GrpcAuth` are proved,
and no run is spent on them.

Only model-checked: what takes fairness, which is out of the prover's reach (`EveryItemSettles`,
`RoutesPersisted`, `CyclesRecur`, `RegionRecovers`, `EveryShownCountIsPrinted`, `EveryCountEntersASummary`, and the
fairness that `ImplementsPipeline` claims of `Submission`). `ResolvesAlways` and `StreamNeverUndone` do
not hold in general (section 5); the theorems named after them say when they do.

## 5. Findings

Two disagreements are recorded in PROJECT.json; each has a run with the shortest behaviour
that shows it.

1. *A tip account in a lookup table shifts the positions behind it* (`alt_shift`).
   `AltCache::get_or_fetch` drops tip accounts from the list it caches (`alt_cache.rs:44`), and
   positions are then taken from the shortened list, while the cluster looks them up in the
   full one. It takes a table that lists a tip account: without one every position is right
   (`ResolvesWithoutTips`), and in a table that has some, those before the first of them are
   (`PositionsBeforeTipsStand`); behind it each is off by the tip accounts ahead (`ShiftIsTipsAhead`).
2. *A fetch can undo the stream* (`account_undone`). `get_or_fetch` inserts its answer
   unconditionally (`account_cache.rs:91`); its comment (74-75) says that it is for accounts that
   are not streamed, and `main.rs:152-176` prefetches accounts it has just subscribed to. It takes an
   account that is both (`NeverUndoneApart`); of the others the copy never goes back
   (`StreamOnlyNeverUndone`).

Other behaviour that the models have, as the code does, and that a reader of its comments
would not expect. No run is spent on it:

- The rate-limiter slot is taken before the transaction is built (`arbitrage.rs:328`), so a
  drop for too many locks costs a slot, although `arbitrage.rs:378-381` drops it to save one.
- The age of an opportunity is only looked at after a pop (`arbitrage.rs:322`). While fresh ones
  keep coming the bottom of the stack is neither popped nor dropped, against the bound that
  `config.rs:199-200` describes.
- `load_routes_from_disk` (`template_cache.rs:695`) fills the hot segment whatever the file holds,
  so hot and cold may exceed twice the capacity after a restart (`template_cache.rs:9-10`).
  `SegmentsBounded` therefore bounds a segment by what the process loaded.
- A hop-pair entry is never replaced (`template_cache.rs:501`) and may name an evicted route
  while another one of the same pair is live; Tier 2 then misses. `PairsIndexed` claims less.
- A refresh answered without an access token "will re-auth" (`jito_grpc.rs:395`), but goes back
  to sleep and refreshes again (`RefreshEmpty`).
- `swap_ix_failed` and its breakdown (`metrics.rs:30`, `140`) are swapped one after the other: they
  agree over the windows (`FunnelBalances`), not within one. The sum of the drops, `tx_dropped`, is
  drained and discarded (`metrics.rs:68`, 160): it is in no window that is printed.
- A summary that cannot be written is lost: `write_json` only logs (`token_metrics.rs:172-174`), and the
  accumulator is cleared all the same (115-121). A window whose own file fails is still in its summary.
- A limited opportunity is put back (`arbitrage.rs:342-347`), where `rate_limiter.rs:4` and 19 and
  `config.toml:96-98` say it is dropped. The limit is applied "before the gRPC SendBundle call"
  (`config.rs:147`), but also before the build: what reaches the block engine in one second may
  be more than the limit, since builds take unequal time. `BudgetRespected` is about the grants.
- Free pairs are said to be "filtered later by the hop_count==2 gate" (`arbitrage.rs:485-487`); the
  gate is for direct pairs only (533-539). The free and the direct check of a pair may find the
  same route, which is then submitted twice.
- Tier 2 is said to be "metrics only" (`arbitrage.rs:462-464`); it serves (582-596).
- Free and direct checks "never block each other" (`arbitrage.rs:177-179`), up to the bound on
  checks in flight. `FreeNotBehindDirect` says what does hold: a direct check never has a place
  that its own free check still waits for.
- The floor is the amount and 6 600 lamports (`arbitrage.rs:26-27`, 276-278); `config.toml:11` says
  10 000. With `min_profit_lamports` below 6 600 an opportunity may have a floor above what was
  quoted, and is sent all the same; `QuotedAboveFloor` is about settings that are not.
- `discover_offsets` is said to give up when the pair of amounts is not found
  (`template_cache.rs:281-282`); it then looks for the first amount alone. `NoAccidentAssumption` is
  what this takes.
- `metis.rs:120` says `restrictIntermediateTokens=false`, the request says true (147).
- `pairs_per_scan` (`main.rs:221-226`) is computed in floats and may be a step short of the
  enumeration, which counts in lamports.
- `[simulation]` is said to run every bundle before it is sent (`config.toml:72-74`). `main.rs` builds
  the simulators and the account cache; nothing calls `simulate`.
- `simulate` injects the lookup tables "so the SVM can expand v0 address lookups"
  (`litesvm_sim.rs:195`), but reads them from an account cache that is never given one: they are
  not among the accounts it fetches (`collect_tx_accounts`), not streamed, not prefetched, and
  `bin/alt_loader.rs`, which its lines 5-6 recommend for "pre-populating", only prints their sizes. In
  `Simulation` a transaction with a table therefore never finds it (`Expands`).
- `simulate` makes "ZERO RPC calls" (`litesvm_sim.rs:163`), but fetches what is missing (176-187); it
  "returns Err for reverts" (161), but `Ok` with `fail_closed = false`. Simulations run "in parallel
  without contention" (330-332), but a caller may wait for its simulator while another is free,
  since the turn alone decides. The clock is set before the accounts are read, one after the
  other, so the accounts of one simulation may be newer than its clock and of several slots.
- `quote_check` counts two requests before the first (`arbitrage.rs:194`), also when the second
  is never sent.

## 6. Not modelled

- Prices and tips: arithmetic on one opportunity, with no state. The comparisons that decide
  (threshold, floor, quote) are in `Scanner`.
- JSON, Base64, logging, HTTP; the instruction bytes other than the two amounts.
- Counters that no decision reads (`seen_count`, `hit_count`, latency sums, template hit rates).
- `account_lock_count`: a sum over a compiled message, whose keys are distinct by the SDK's contract.
  Being over the limit is an outcome of the build in `Pipeline`.
- What a transaction does in the virtual machine, and the bytecode files it is loaded with.
- The blockhash cache: one writer and readers of one register.
- The parsing of the configuration, the wallet and the token list: read once at start-up. Nothing
  is validated. A step of less than a lamport makes the enumeration of the amounts
  (`arbitrage.rs:491`) endless, and a least amount above the greatest makes the outer loop spin;
  `ConfigAssumption` excludes the first.
- How many Metis tasks run at once: the code has no bound (`Tasks` in the models).
- What a bundle does once an endpoint has accepted it.
- Loss of power during a write: the code does not `fsync`; a process crash is modelled.
- `vendor/litesvm`: third-party. `src/bin`, `scripts`, `proto`: tools and generated code.

## 7. Plan

Done: the scan cycle and its quotes, the pipeline and the store with their abstract
specifications, the patching of amounts, lookup tables, both senders inside the workers,
authentication, both reporters, the account stream with its start-up and the simulators; every
invariant and action property that a run checks, the safety of the three refinements, and the
conditions under which the two findings cannot occur, for all parameters. What is left of the
models is listed in section 6, and of the proofs what takes fairness.

Next, if the code changes: when `simulate` gets its caller, it is a step of `Pipeline` between build
and send, and `Simulation` takes the place of that step as `Broadcast` does of the submission. When
`get_or_fetch` of `alt_cache.rs` keeps the tip accounts, `ResolvesAlways` moves to `alt_tables`.
