# BrokerBridge: a verification project

BrokerBridge places orders of many clients at several brokers, each client's
broker account behind a static IP of its own. It is a FastAPI process (the API),
a worker process, PostgreSQL, Redis and an event bus. Neither process holds row
locks; between two `await`s any other request, in either process, may run. The
modules here model the parts whose correctness depends on that.

All code references are relative to `src/app/` unless they start with `src/`.

## 1. Inventory

### Components, their state and how they meet

| Component | Code | State | Operations |
|---|---|---|---|
| Order engine | `orders/service.py` | `orders`, `order_attempts`, `failover_events`; the in-flight semaphore and counter | place, walk down the failover chain, cancel |
| Replay (recovery) | `replay/service.py` | none of its own | run: adopt or re-submit CREATED and SUBMITTING orders; only an administrator starts it |
| Mock broker | `providers/broker/mock.py` | its book of orders, tokens, faults | place_order, cancel_order, authenticate |
| Routing engine | `routing/engine.py` | none | filter, score and order candidates into a chain |
| IP manager | `ip_manager/service.py` | `static_ips`, `ip_assignments`, `broker_ip_usage_history`, `instances` | allocate, assign, attach, detach, release; create, suspend, start, destroy an instance |
| IP rotation | `ip_manager/rotation.py` | the same tables | rotate: new IP, drain, abort or cutover |
| Infrastructure providers | `providers/infrastructure/` | the provider's IPs and instances | create, attach, detach, delete |
| Outbox | `events/outbox.py`, `events/bus_buffer.py` | `outbox_events`; ring buffer of the last 500 events | enqueue with the business commit, drain, feed |
| Consumer and worker loops | `events/consumer.py`, `workers/main.py`, `main.py` | the provider subscribed to | publish every 2 s, consume, expire subscriptions every 30 s |
| Provider manager | `providers/manager.py`, `api/routes/admin_providers.py` | cached providers by version; `provider_configurations` | look up, invalidate, activate a new version |
| Redis adapters | `providers/redis_adapters.py`, `providers/memory.py` | locks, sessions, sliding windows | acquire and release, get and set, consume |
| Rate limiter, sessions, whitelist, health, configuration | `rate_limit/`, `sessions/`, `whitelist/`, `health/`, `config/` | windows, tokens, entries, scores, items with versions | check and consume; ensure; sync; probe; put |
| Subscriptions | `subscriptions/service.py` | `subscriptions`, client status, instance status | create, assert trading allowed, enforce expiry |
| Monitoring, authentication, schemas, fault injection, admin UI | `monitoring/`, `auth/`, `schemas/`, `sim/`, `static/` | nothing shared that is changed | reading, validation, test tooling |

How they meet: `place` asks Subscriptions, then Routing (which reads Health, the
rate limiter and the active IP assignment), then per candidate the limiter,
Sessions (under a Redis lock) and the broker. Replay calls the same
`_submit_inline`. Every business commit may carry outbox rows; the worker's
publisher and the API's drain endpoint both publish them. Rotation reads the
order table to see what is in flight and writes the assignment that routing
reads. Subscription expiry, in both processes, suspends instances that the IP
manager hosts IPs on.

### What is hard here

- *Interleavings without row locks.* A request reads rows, awaits a broker or a
  provider, and commits from its copy. The session writes only the columns that
  it changed, so two commits over one row mix.
- *Two stores, no common transaction.* A broker's or an infrastructure
  provider's answer and the commit that records it can be split by a crash.
- *Locks that expire.* Redis locks have a time to live that is not renewed, and
  the work under them (a drain, an authentication) has no upper bound below it.
- *Recovery concurrent with what it recovers.* Replay takes rows by status only.
- *At-least-once publishing by two drainers*, with a provider that may be swapped
  under the loops.
- *Boundaries*: the admission limit, the cooldown, the end of a subscription.

### What makes each component correct

- Orders: one client order is accepted by at most one broker, once; a cancelled
  order is live nowhere; permits are not lost; what the row, the attempts, the
  events and the broker's book say agrees.
- IPs: a broker has at most one active IP, which is usable, unused before its
  cooldown ended and written down in the usage history; a rotation leaves the
  old or the new IP in use and nothing between; order and drain respect each other.
- Outbox: a committed event is published at least once, in order per aggregate.
- Subscriptions: nobody trades past the end; nobody covered is torn down.
- Providers: after an activation every loop ends up at the new version.
- Locks, limiter, sessions: mutual exclusion while the time to live lasts; never
  more than the limit in a window; one login per expiry.

PROJECT.json lists each hazard at its line, with the property that covers it or
the reason why none does.

## 2. Plan

| Step | Modules | Composes | Abstract specification | Theorems |
|---|---|---|---|---|
| A (done) | `Orders`, `MCOrders`, `OrdersProofs`, `OrderTablesProofs` | order engine, replay, broker | none: `AtMostOneAccepted` says it in one line | every safety property of the runs |
| B (done) | `IpManager`, `MCIpManager`, `IpManagerProofs` | IP manager, rotation, locks, in-flight orders | none | every safety property; some without rotation, two with rotation but no release (section 4 says why) |
| C (done) | `Outbox`, `OutboxSpec`, `OutboxProofs` | business transactions, two drainers, bus, consumer, feed | at-least-once delivery, refined | every safety property, the safety half of the refinement |
| D (done) | `Subscriptions`, `MCSubscriptions`, `SubscriptionsProofs` | expiry in both processes, requests on instances, provider, trading check | none | types, `ExpiryIsAllOrNothing`, `TeardownIsComplete` |
| E (done) | `EventProvider`, `EventProviderProofs` | activation, manager cache, publisher, drain requests, consumer | none | types, `CacheIsOpen`, `UsesTheRowRead` |
| F (done) | `Gateway`, `MCGateway`, `GatewayProofs` | limiter and session lock under three callers, Redis or memory | none | types, the limit, one refresher, tokens move on |
| G (done) | `Routing`, `MCRouting`, `RoutingProofs` | accounts, health, limiter, IPs, faults, engine | none | `DecisionIsRight`, `FaultsSteerRoutes` |

The order follows the damage a mistake does: money first, then the IPs that the
regulation is about, then the events, then what limits and switches. Every safety
and action property that a run checks is a theorem now; the sections below say
under which assumptions. What is left to prove is wider: of the theorems on
`IpManager` that exclude rotation, reuse and history are proved with rotation too;
`ActiveIpUsable` could be for brokers that do not share an IP.

Every run stays within three minutes of model checking on two workers, so that the
suite can be repeated for every change; larger instances that were tried are
named with each module.

## 3. Orders

`Orders` models `OrderService.place`, `_submit_inline` and `cancel`,
`ReplayService.run` and `_recover_one`, and the broker's `place_order` and
`cancel_order`. A task is a request; an action is the code between two awaits at
which another task can see or change something. `pc[t]` says where the request
is, `cur[t]` which order it works on, and `local[t]` what its frame and its
session hold: the loaded row, the chain and the position in it, the attempt.

| State | Code |
|---|---|
| `row`, `attempts`, `failovers`, `events` | the tables `orders`, `order_attempts`, `failover_events` and the order's outbox rows |
| `book` | the broker's own list of orders, over all brokers |
| `inflight` | `_inflight_count` beside the semaphore |
| `scans`, `crashes` | counters that bound the behaviours |
| `blind` | no code: whether a cancel or a recovery of an order started when something was hidden from it |

| Actions | Code |
|---|---|
| `Place`, `Admit`, `QueueFull`, `Insert`, `InsertConflict`, `Route`, `NoRoute` | `place`, 124-221 |
| `Consume`, `RejectRateLimited`, `Reroute`, `Escape` | limiter and session of a candidate, 231-260 |
| `StartAttempt`, `BrokerAccepts`, `RecordSuccess`, `AttemptFails`, `RejectOrder`, `Failover`, `Exhaust` | an attempt and its outcomes, 260-367 |
| `Cancel`, `CancelLocally`, `CancelAtBroker`, `RecordCancel` | `cancel`, 369-428 |
| `Scan`, `Recover`, `Skip`, `LookupAttempts`, `Adopt`, `EndScan` | `replay/service.py`, 51-143 |
| `Crash` | the API process dies: tasks and counter are gone, tables and book stay |

`Flush` is the write-back of SQLAlchemy: of a loaded row, the columns that
changed. Without it most races here would look either harmless or far worse.

`Escape` is every exception that nobody turns into an answer, at any await: Redis
is down, a session is refused, the broker refuses a cancel, or a commit fails.
After a failed commit the session refuses the commits of the `except` clauses as
well, so nothing is written; at `record` that loses an acceptance as a crash does
(`orders/service.py:314`), but in a process that lives on.

Where cancel, recovery and placing overlap, some of what one would like to say is
false. The module excludes none of these overlaps. It says instead which of them
do harm: an order is *hidden* (`Hidden`) while a task submits it, or while a broker
has accepted it and no attempt says so. A recovery that takes an order up, or a
cancel that finds no `broker_order_id`, is *blind* if the order is hidden at that
moment, and a recovery blinds a cancel that it overtakes. The ghost `blind`
remembers it per order; an order no recovery was blind for is `Sighted`. What the
engine promises to an order is then stated for all others: not because the rest
does not matter (findings 1 and 2 are the rest), but because these are shown to be
the only ways to lose it.

Not in the module: which chain routing returns (any sequence of distinct brokers
is allowed, so every real one is), whether a limiter denies or a broker fails
(both may always happen), quantities and prices, `order.submitting` logging, and the
answer's body. An order that exists already returns at once and changes nothing,
so `Place` is the case that goes on. The status INDOUBT, which recovery also looks
for, is written by nothing in `src/app` (a test seeds one), so no row has it.

### Runs

| Run | Shows | Bounds |
|---|---|---|
| `orders_tables` | two requests for one `client_order_id`, a cancel and a recovery overlap, any commit may fail and the process may die: at most one acceptance, no lost permit, events agree with attempts and with the last status, cancelled is dead, rows name their broker, a submitted order is not taken back, each with blindness as its only exception | 1 order, 2 brokers, 2 placers, 1 canceller, 1 scan, limit 1, 1 crash |
| `orders_recovery` | a row's broker order is recorded by an attempt and by the broker, a failover leaves its trail, every request and every scan ends | 1 order, 2 brokers, 2 placers, 1 scan, limit 1, 1 crash; no symmetry, no canceller |
| `orders_resubmit` | *violated*: recovery buys again | 1 order, 1 broker, 1 placer, 1 scan, 1 crash |
| `orders_cancel_race` | *violated*: an order that a broker holds is cancelled as one that "never reached broker" | 1 order, 1 broker, 1 placer, 1 canceller |

Two placers contend for the limit and for the unique key, two brokers make a
failover, and a scan that begins at any time meets a placing task at every await,
a cancel between its read and its commit, and what a crash left. One order is
enough: two of them share nothing but the admission limit. Deadlock is not
checked: with no request left the engine rests.

Fairness (`FairSpec`): weak fairness of every task's `Proceed`, which is its `Step`
without `Escape`. The event loop runs a task that can go on; broker and Redis
calls return or raise. Nobody has to send a request, and no request is ended by
a crash or an exception that has to come.

### What is proved

`OrdersProofs` proves for any number of orders, brokers, tasks and crashes, and
for any admission limit:

- `TypeCorrect`: `Spec => []TypeOK`.
- `PermitsBalanced`: `Spec => []InflightBalanced`.

Both come from the inductive invariant `IInv = StoreOK /\ TasksOK /\
CountersOK`. Types alone are not inductive: a task indexes its chain with `idx`
and an order's attempts with `att`, so `FrameOK` says where each kind of task can
be and that what it points at exists; and `inflight` stays in `0..MaxInflight` only
because it counts exactly the requests inside (`Inside`), which is why the
balance is part of it. One lemma per action shows that tasks stay in order (most
of them through `MovesTypes`: a task moves, the others see attempts that only
grow), and `CountStep` treats the counter.

Assumptions, all in `Orders`: the kinds of task are disjoint and finitely many
(`TaskAssumption`), the limit is positive and the bounds are numbers
(`BoundAssumption`), and `None` is no order and no broker (`NoneAssumption`).

`OrderTablesProofs` goes on with what the tables of an order say about each other
and about the books:

- `RowsAreBacked`, `EventsTellSubmissions` and `FailoversLeaveATrail`. The first
  rests on `BackInv`: a broker order that an attempt names was issued for the
  attempt's order (`AttemptsBacked`), an attempt's broker and order do not change
  (`AttemptsOwned`), and what a task carries between its broker call and its
  commit, or has read in order to adopt it, was issued too (`KnowledgeOK`). The
  third adds to the trail itself where on its chain each walking task is
  (`LedHere`).
- `BuysAtMostOnce`, `CancelledIsNotLive`, `EventsTellStatus`, `RowsNameTheirBroker`
  and `SubmittedStaysSettled`, from `SightedInv`. It says of a sighted order that
  the task which submits it is the only one, knows the broker the row names, and
  has in its hands whatever a broker accepted (`SubmitterOK`); that a cancel still
  acts on what it found (`CancellerOK`); and that at most one broker has the order,
  which the row names once the acceptance is recorded (`OrderOK`). The unique key
  makes the first submitter the only one; a recovery can be a second only by
  starting while the order is hidden, which is to be blind.

None of these theorems assumes anything of scans, crashes or overlaps: all are
about `Spec` with any constants.

Only model-checked: `EveryRequestReturns`, since liveness under fairness is out of
the prover's reach.

## 4. IPs

`IpManager` models `allocate_ip`, `assign`, `attach`, `detach`, `release` and
`destroy_instance` of `IpManagerService`, `RotationService.rotate`, the Redis
locks they take, and the orders as far as they name an IP.

| State | Code |
|---|---|
| `ips`, `assignments`, `instances` | `static_ips`, `ip_assignments`, `instances` (status and instance columns) |
| `open`, `cooling` | `broker_ip_usage_history`: rows without `released_at`; pairs whose `reuse_eligible_at` is to come |
| `cloud` | the database mock's status of each IP, lost with the process |
| `lock` | who holds `lock:broker:{b}:ip` and `lock:ip:{i}`; `Lost` when the holder died |
| `orders` | routed (the chain names the IP), counted (the row names it and is not terminal), done |
| `pc`, `local` | each request's place and frame |

| Actions | Code |
|---|---|
| `Allocate`, `Assign`, `Attach`, `Detach`, `Release`, `Rotate` | the request takes its locks, or fails and changes nothing |
| `Check`, `Refuse` | what the operation reads and refuses |
| `Call`, `AllocateFails` | the infrastructure provider |
| `Commit` | the operation's commit and the `finally` that gives back the locks |
| `ReadAssignment`, `NoAssignment`, `CreateNewIp`, `CreateNewIpFails`, `Rehost`, `RehostFails`, `MarkDraining` | `rotate`, 131-187 |
| `Drained`, `DrainTimesOut`, `Abort`, `Cutover`, `BadConfig`, `CleanUp`, `CleanUpFails` | `rotate`, 189-314 |
| `RouteOrder`, `SendOrder`, `EndOrder` | `RoutingEngine._active_assignment`, the first commit of an attempt, FAILED or CANCELLED |
| `CooldownEnds`, `LockExpires`, `Crash`, `Destroy` | time, Redis, the process, an instance that goes away |

Simplifications: an operation takes all its locks in one action (taking one and
failing at the other changes nothing in the end); the reads of a check are one
action, as is `create_ip` with the commit of its row during a rotation, and the
refresh of the old IP with the cutover's commit; of the provider's calls only
`create_ip` fails (`delete_ip`, `attach_ip` and `detach_ip` of the mock never
raise, `mock_database.py`, 71-89), while the clean-up at a rotation's end may
fail at any of its steps, which the code only logs (`rotation.py:312`);
allocation retries are a choice of an unused address; the whitelist
synchronisation and the outbox rows of IP events are left out; "quarantined",
which nothing sets, does not exist.

### Runs

| Run | Shows | Bounds |
|---|---|---|
| `ips_locks` | two requests of any kind but rotation, and a crash: the locks give one active IP per broker, a faithful history, rows and provider that agree, no reuse before the cooldown ends | 2 brokers, 2 IPs, 1 instance, 2 assignments |
| `ips_rotation` | a rotation, forced or not, beside allocation, assignment, attachment and orders, with one fault (a crash, a failing provider call or clean-up, or a configuration value that cannot be parsed): one active IP, draining ends with the rotation, the new IP is used or released; every request ends | 1 broker, 2 IPs, 1 instance, 1 order, 3 assignments, no symmetry |

Two requests are enough for every lock to be contended; `MaxAssignments` counts
the rows that exist and those that requests under way may add, so no request is
cut off in the middle. `LocksExpire` is FALSE in the runs: only a dead request's
lock expires there, and observation 4 of section 9 says what happens otherwise.
`ips_rotation` leaves out `release` and a second broker because of observations 5
and 6. Its third assignment is for an `assign` that runs beside the rotation of
an assignment that exists. `DrainingIsResolved` says nothing after a fault, the
unparseable value of observation 7 included, and `NewIpSettled` nothing of the
step in which the clean-up itself fails. A new IP that was released is settled
for `NewIpSettled`, whoever has it: the `finally` clause leaves an assigned IP
alone, but the abort of a drain does not ask (`rotation.py:204`), and would take
the new IP from another broker that was assigned it during the drain. (The
rotated broker's own assignments wait for its lock.)

Fairness: weak fairness of every task's `Step`, as for orders; the drain's
deadline makes `DrainTimesOut` possible as long as something is in flight.

### What is proved

`IpManagerProofs` is for any brokers, IPs, instances, requests and assignments.
`FrameInv` says for each place of a request what its frame holds (`FrameOK`): a
rotation knows an assignment from `create` on, a new IP after that, and so on;
everything below rests on it.

- Even if locks expire under their owners: the types; `DrainingEnds` from
  `DrainInv` (as long as nothing failed, what drains is in the frame of a rotation
  that will abort or cut over); and the action property `NewIpsSettled`.
- If no request outlives its lock (`~LocksExpire`): `OneActiveIp`. One active
  assignment per broker is not inductive: a request about to commit an assignment
  must know that there is none. `OneInv` therefore adds that a request has its
  locks until it returns (`LocksHeld`), and that under the broker's lock the
  active assignments are the ones it saw (`SeesActive`). Observation 4 is what
  happens without the assumption.
- If, besides, nobody rotates: `UsageHistoryMatches`, `ActiveIpsAreUsable`,
  `NoReuseBeforeItsTime`, `ProviderAndRowAgree` and `InstancesMatchStatus`. Assign,
  attach, detach and release hold the lock of their IP, so `QuietInv` can say that
  what a request checked is still so when it commits (`AllFresh`), and that no two
  requests work on one IP (`Apart`). Rotation breaks both, as observations 5 and 6
  show: it holds the broker's lock only, so a release or an attach can race it, and
  its cutover releases an IP that another broker may share.
- If requests rotate but nobody releases, the broker's lock is enough for two of
  these. `NoReuseByRotation` rests on `CoolInv`: the pairs a request may make
  active (the one it assigns, a rotation's old and new one) do not cool down
  (`WarmOK`), because only a cutover of the same broker starts a cooldown
  (`Cools`); and a new IP's row did not exist before, so it has no history
  (`CoolPresent`). `HistoryByRotation` needs more: a cutover closes the usage row
  of a pair, and no other assignment may have the pair, so a broker must have one
  assignment that is active or drains (`OneLive`, from `OneInv` and `DrainInv`),
  and the old assignment must not be released before (`OldLive`). It assumes
  `MaxFaults = 0`: a rotation that failed leaves an assignment draining
  (observation 7), beside which the same pair can be assigned again, and then a
  later cutover closes the row of both.

## 5. Events

### Outbox and OutboxSpec

`OutboxSpec` is the promise: an event that was committed with its business change
is published at least once, or a publish call for it failed and its row says so;
nothing that was not committed is published, and every event is settled in the
end. `Outbox` is the code: rows staged by business transactions, the worker's loop
and the API's drain endpoint over the same rows, the topic, the API's consumer
and the ring buffer behind the admin feed.

| State | Code |
|---|---|
| `rows` | `outbox_events`: a row is staged, then pending or rolled back, then sent or error |
| `topic`, `position` | what the bus holds; the messages the API's consumer has handled |
| `pc`, `todo`, `marks` | each `drain_outbox`: its batch, the statuses set and not committed |
| `feed`, `counted` | `EventBusBuffer`: the ring and `total_seen` |
| `failed`, `failures`, `faults` | which publish calls raised (a ghost the promise speaks of) and the bounds |

| Actions | Code |
|---|---|
| `Enqueue`, `EndTransaction` | `enqueue_outbox` and the commit or rollback of the caller's session |
| `Select`, `Published`, `PublishFails`, `CommitMarks`, `CommitFails` | `drain_outbox`, 61-116; a call may fail before or after the bus took the message |
| `Consume` | the consumer's handler with `EventBusBuffer.append` |
| `Crash` | a process dies: its batch is pending again, its ring is empty, its consumer goes back to the offset it committed |

The refinement mapping is direct: `committed` are the events whose row is visible,
`published` those in the topic, `told` those whose row is sent or error, `failed`
is itself. `AtLeastOnce` is `OutboxSpec`'s whole specification, fairness
included; it holds because `Written` overwrites only what the drainer itself
tried. `created_at` is the database's `now()`, the beginning of the transaction:
two transactions about one order may overlap (a cancel keeps its own open across
the broker's call), and then the rows are published in an order that neither the
commits nor the order table shows. `AggregateInOrder` says that this and a failed
call are the only ways to overtake; `beside` is the ghost that names the
overlapping transactions. It needs one topic partition, which is how topics are
created here (`kafka_event.py`, 91).

Run `outbox`: 2 events of up to 2 aggregates, both drainers, one fault, one failing
call. Two events suffice for overtaking and for two overlapping batches; one fault
puts a crash or a failed commit at every place. Fairness: the worker's loop and
the consumer run for ever, a drain request that has begun goes on. Deadlock is not
checked: with every row settled nothing is left to do. An instance with a viewer
of the websocket took three minutes and showed nothing new.

`OutboxProofs` proves for any events, aggregates, batch size, ring size and faults
that the types are kept, and:

- `SentWasPublished` and `OutboxImplements` from `RowsInv`: what is in a batch,
  marked or on the bus was committed; a mark or a row says sent only of an event
  on the bus and error only of one whose publish call failed.
  `OutboxImplements` is `Spec => Abstract!Spec`: initial states map to initial
  states and each step to a step of `OutboxSpec` or a stutter. It is the safety
  half of the property `AtLeastOnce`, whose `Abstract!FairSpec` adds that every
  event is settled; that half is TLC's.
- `AggregatesStayInOrder` from `OrderInv`: transactions are numbered by their begin
  (`Numbered`), and a committed event of the same aggregate whose transaction had
  ended when that of an event in a batch began is in that batch, on the bus, or
  failed (`BatchInOrder`).
- `FeedCountsEachOnce` from `FeedInv`: the ring is never longer than the count.

### EventProvider

Which provider the events go through. Processes share only the table, so the
module is about one process, the API or the worker, as the initial state says.

| State | Code |
|---|---|
| `configs` | `provider_configs` of kind event |
| `request` | each `activate_provider`: the version it read, the rows it retires |
| `cache`, `cacheVer`, `stale` | the manager's `_cache["event"]`, `_event_version`, `_stale` |
| `providers` | the providers built, each open or closed |
| `pc`, `seen`, `last`, `row`, `using` | each task: the version its tick read, `last_version`, the row `get_event_provider` read, the provider it holds |

| Actions | Code |
|---|---|
| `ReadLatest`, `RetireActive`, `CommitConfig`, `InvalidateApi` | `activate_provider`, 349-392 |
| `ReadVersion`, `CancelConsume`, `Reconnect`, `NoChange` | a tick of `outbox_publisher_loop` and of `event_consumer_loop` |
| `DrainRequest` | the drain endpoint |
| `CloseOne`, `NoneStale`, `ReadRow`, `UseCached`, `Replace`, `Build` | `_close_stale` and `get_event_provider`, awaits in between |
| `Subscribe`, `EndDrain` | what the caller does with the provider |
| `TickFails` | the query, the build, the subscription or the drain raises; the loop logs it (`consumer.py:109`, `workers/main.py:36`) and sleeps, without noting the version |

Runs: `event_provider` (one administrator, a publisher or a drain request, a
consumer, two configurations, one tick that fails) and `consumer_swap`,
*violated*, on a smaller one. Two configurations give a swap of a configured
provider, and of the environment's; staging instead of activating is among the
choices. Fairness: the loops tick, and what has begun goes on; nobody has to
activate anything, and `failures` is bounded, since a loop whose every tick
fails never catches up. `LoopsCatchUp` has activations come to an end through
the bound on configurations. The version it asks for is the one the code takes
for active: after staging (observation 12) that is the environment's.

`EventProviderProofs` proves for any numbers of activations, loops and requests:

- `TypeCorrect` and `CachedIsOpen`, from `ProviderInv`: there is a newest version,
  references are to providers that were built (`RefsOK`), what is cached is of the
  version noted beside it (`CacheOfVersion`), and each task holds a provider of the
  version of the row it read (`TaskOK`), however the awaits of closing, reading and
  building interleave.
- `RowReadIsUsed`, if activations come one after the other (at most one
  administrator). `ProviderInv` gives a provider of the same version; `RisingOK`
  says that versions rise with their rows and that an activation under way has
  taken one above all others, so that the version names the row. Two activations
  at once take the same version (observation 11), and then the property is
  false.

## 6. Gateway

`Gateway` models what an order passes on its way to one broker: the sliding
window of the limiter and `SessionService.ensure` under its lock, each over
Redis or over the process's memory, as two settings say (`lock_provider` and
`rate_limit_provider`), with administrators' `sessions/ensure` beside it.

| State | Code |
|---|---|
| `locks`, `limits` | the two settings, read once |
| `window` | members of `rl:broker:{id}` younger than the window |
| `session`, `issued` | the `broker_sessions` row, tokens in the order of their issue |
| `lock` | `lock:session:{id}`: whose token it holds |
| `late`, `byLate` | ghosts: tasks that outlived their lock; such a task wrote the row |
| `task` | each request: where it is, the row it read, the token it got |

| Actions | Code |
|---|---|
| `Order`, `Count`, `Add`, `CountInMemory` | `consume`: two Redis calls, or one step in memory |
| `Ensure`, `Acquire`, `Contended`, `Read`, `Login`, `LoginFails`, `Save`, `Release` | `ensure`, 50-123 |
| `Slide`, `SessionExpires`, `LockExpires` | time |
| `Dies`, `Restart` | a request or the process dies, or Redis does during a call; what a setting keeps in memory is lost with the process |

A request for a broker that is missing or disabled ends before it asks for the
lock (`sessions/service.py`, 53-56) and is left out: it changes nothing. Two calls
get two members of the window; in the code they would share one if one adapter
read the same `time.time()` twice (`redis_adapters.py:125`).

Run `gateway`: three callers, limit 1, three tokens, one fault. Three is the least
number for which the lock of one can expire, pass to a second and be contended by
a third. `LimitHolds` states the bound the code gives: the limit in memory, less
than the limit plus the number of callers in Redis. There is no liveness here:
no request waits for anything. Deadlock is checked.

### What is proved

`GatewayProofs` proves the three properties of the run, and the types, for any
number of requests, any limit, and any number of tokens and faults:

- `GatewayTyped`: `Spec => []TypeOK`.
- `LimitKept`: `Spec => []LimitHolds`. `LimitHolds` is not inductive: a request
  that has counted and not added will add whatever the window holds by then.
  `LimitInv` adds these requests (`Adders`) to the calls of the window; counting
  lets one in only below the limit, when fewer than all are on their way.
- `RefreshedByOne`: `Spec => []OneRefresher`, from `LockInv`: who is inside has the
  lock or is late. It needs that `None` is no request (`GatewayAssumption`).
- `TokensMoveOn`: `Spec => NewerTokensStay`, from `TokenInv`: a token on its way to
  the row is newer than the row's, unless its request is late or a late one wrote
  last. `Save` keeps it because, by `LockInv`, no other request that is not late
  is about to save.

`Inv == TypeOK /\ LimitInv /\ LockInv /\ TokenInv` is inductive; one lemma for
each conjunct has one step per action.

## 7. Subscriptions

`Subscriptions` models `create`, `assert_trading_allowed`, `enforce_expiry` and
`expire_now`, run by the worker's loop and by the API at once, with creation,
start, suspension and destruction of instances (`ip_manager/service.py`, 40-129) and
the machines the Docker mock has.

| State | Code |
|---|---|
| `subs`, `clients`, `insts`, `events` | `subscriptions`, `clients.status`, `instances`, outbox rows of `subscription.expired` |
| `machines` | the provider's side |
| `run` | each `enforce_expiry`: the rows due, done, the copies it loaded and set, what it has still to tear down |
| `request` | an administrator's request between its read, its call and its commit |
| `reactivating` | suspended clients that a trading check has found covered and not committed yet |
| `clock` | time, as far as windows tell it apart |

| Actions | Code |
|---|---|
| `Select`, `Claim`, `Load`, `TearDown`, `TearDownFails`, `NextSub`, `CommitRun`, `Abort` | `enforce_expiry`, 184-246 |
| `Deadlock` | the database ends one of the transactions that wait for one another, in a cycle of any length |
| `AskToSubscribe`, `Subscribe`; `AssertTrading`, `ResumeTrading`; `AskToExpire`, `ExpireNow` | the other operations, each a read and a commit |
| `Ask`, `AskToCreate`, `CallProvider`, `Save`, `RequestFails` | requests on instances |

The enforcers are the worker's loop and any set `ApiRuns` of requests to
`enforce-expiry` or `expire`, which may overlap in any number
(`api/routes/subscriptions.py:89`, 116).

The database is PostgreSQL at READ COMMITTED: a row another transaction has
updated is waited for (`SubFree`, `ClientFree`), a query sees what is committed
and what its own transaction flushed (`OwnView`), and a copy set to the value it
was loaded with is not written (`WrittenBy`). `excused` is a ghost: what was
started, created or made active since a run began, or since one began that
overlaps it, or whose provider call failed, is not held against that run.

Run `subscriptions`: the worker and one API request at a time, 2 subscriptions
of one client, 1 instance, 3 requests, one fault, two instants. Two
subscriptions that fall due together are what the two enforcers take in opposite
orders; the second instant is the last moment of a window. Fairness: the
worker's loop runs for ever, a run of the API goes on, the database ends
deadlocks. `ExpiryIsEnforced` assumes that administrators do not call
enforce-expiry for ever. A second API request at once (`ApiRuns = {api1, api2}`)
was run with 2 requests instead of 3, without error; with 3 there are too many
states for a run, but the theorems are for any number. Deadlock is not checked:
after the last instant and the last request nothing is left to do.

### What is proved

`SubscriptionsProofs` proves `TypeCorrect`, `AllOrNothing` and
`TeardownCompletes` for any number of enforcers, subscriptions, clients,
instances, requests and faults. The inductive invariant `SubsInv` has the parts
`WorldOK` (tables), `RequestOK` (what an administrator's request knows between
its steps), `EventOK` (an event is committed or in the hands of a run) and, for
each enforcement run, `RunOK` (where it is), `CopyOK` (what it may have loaded
and set), `StagedOK` (an instance it is about to write as suspended does not
run, unless every run is excused for it) and `WorkOK` (what it has dealt with is
down, or excused).

The invariant at first was not inductive, and not for want of strengthening. A run that
begins after an instance was started and destroyed again sees a destroyed row;
an older run that overlaps it, and that loaded the row before, then writes
"suspended" over it, while the machine that was started runs on. The later run
excused nothing and commits with a machine up. Four requests and two runs are
needed, more than the run's bound allows; TLC confirmed it from the state in the
middle. The ghost `excused` of a run is therefore inherited from the runs it
overlaps, as `Select` has it, and `TeardownIsComplete` says so.

## 8. Routing

`Routing` is `RoutingEngine.select` over what it reads: accounts, active IPs,
health snapshots, windows, configuration. Each of these may change between any
two calls; snapshots change only when somebody probes, looks at the health list,
toggles a fault, or when `select` finds none. A fault's flag is set first; then
the brokers are probed one after the other (`probing`, `Probe`), each with a commit
of its own, and orders are routed in between, as they are while the probe endpoint
is at work. `select` itself awaits between its reads, and is one step all the
same: both properties judge a decision by the values it was made from, whenever
it read them. Scores are computed as
`compute_health_score` does, in hundredths, with the default weights, from a
latency that is at its best or over budget. Sorting is a choice of any falling
ordering, since the order of equal scores is the database's.

Run `routing`: 2 accounts, 2 regions, 2 priorities, both threshold settings, any
two changes, every route after and between them and the probes they start. Two
changes are enough for one that makes a snapshot stale and one that makes the
stale snapshot matter. Deadlock is checked. `DecisionIsRight` relates the
decision to the state it was made in; `FaultsSteerRoutes` relates it to a probe
that may lie behind the changes.

Only pairs of brokers are compared, and a chain of two has every order; a third
broker multiplies the states many times.

### What is proved

`RoutingProofs` is for any finite set of brokers and any regions, priorities,
latencies, thresholds and limits:

- `DecisionsAreRight`: `Spec => DecisionIsRight`. `ChainFacts` says that moving the
  preferred broker to the front of a sorted list keeps its members, its length and
  the order of the rest; `CandidateFacts` what a broker that was not excluded has.
- `FaultsSteer`: `Spec => FaultsSteerRoutes`, provided that no configuration asks
  more of a degraded broker than 64, what one scores at least that answers at
  once and rejects (the default is 50). A snapshot may be as old as one likes, so the
  invariant is about what probes leave behind: `SnapsInv` says that the score of
  one that did not answer is at most 35, and of one that answered at once at least
  64.5. That every threshold is above 35 is an assumption of the module
  (`RoutingAssumption`), without which a broker that is down could be offered
  orders.

## 9. Findings and observations

Three findings have a run and quote the line they disagree with in PROJECT.json.

1. The idempotency key never reaches the broker, so recovery buys twice: after an
   acceptance that a crash or a failed commit lost, and when it takes up an order
   that is being submitted, since it takes orders by status only
   (`replay/service.py:106`; `orders_resubmit`).
2. A cancel that meets an order on its way to the broker takes it for one that
   never reached a broker and marks it cancelled, while the broker accepts it
   (`orders/service.py:383`; `orders_cancel_race`).
3. In the worker, the publisher's reconnect closes the provider the consumer has
   just subscribed to, and the consumer sees no change (`consumer_swap`).

The following was met while modelling. Each can be seen in a module, by the
change to a configuration that is named, or by reading the lines.

Orders:

1. Recovery adopts only where tasks overlapped: the attempt that it could adopt
   is committed together with SUBMITTED, which it passes over. What it finds is,
   for instance, what another task submitted between its refresh and its query
   (`replay/service.py:106`).
2. A recovery or a cancel that overlaps another task on one order is the only way
   to two broker orders, a row that names a broker without its order, a submitted
   order taken back, or a cancelled one that lives (section 3: what the
   theorems leave out is what happens).
3. An order whose routing, session or limiter raises stays as it is, and
   recovery, which nobody schedules, does not ask for the subscription again
   (`replay/service.py:133`).

IPs:

4. The broker lock's 60 s do not bound the drain, so another request can assign
   an IP meanwhile and the cutover adds a second active one (`rotation.py:125`;
   `OneActivePerBroker` with `LocksExpire = TRUE` and three IPs).
5. Rotation does not hold the old IP's lock: with `release` among the operations
   of `IpsRotation.cfg`, an abort makes an assignment active again that was
   released meanwhile (`NoReuseInCooldown`, `HistoryMatches`); and an `attach` of
   the new IP is half overwritten by the clean-up (`InstanceIffAttached` in
   `IpsRotation.cfg` as it is).
6. `assign` does not ask whether the IP has another broker: with two brokers in
   `IpsRotation.cfg`, rotating one leaves the other trading
   from a released IP (`ActiveIpUsable`).
7. Configuration is parsed after the assignment was committed as draining: a
   value that is no number leaves it draining for ever. `DrainingIsResolved`
   therefore speaks of behaviours without a fault (`rotation.py:189`).
8. There is no active assignment while a rotation drains, so every order routed
   meanwhile is refused, which "Zero-downtime IP rotation" (`src/CHANGELOG.md:62`)
   does not suggest; and the drain does not see an order that was routed and has
   not recorded its IP yet, so that order is sent from an IP that is released
   (`rotation.py:194`).
9. Rotation synchronises the whitelist while the old IP is still the active one,
   so `whitelist_ok` says only that the call did not raise.

Events and providers:

10. Rows are published in the order their transactions began
    (`events/outbox.py:72`, `models/outbox.py`: `now()`), which for overlapping
    transactions on one order is not the order of its statuses: `AggregateInOrder`
    without `beside`.
11. Two administrators at once can leave two active configurations
    (`admin_providers.py:349`): with two `Admins` in `EventProvider`, `ActiveRows`
    gets two members. They carry the same version, so a provider built from one
    passes for the other's (`UsesTheRowRead`).
12. Staging a configuration retires the active one (`admin_providers.py:355`).
13. A drain keeps its provider over a batch; `publish` on a Kafka provider that was
    closed meanwhile opens a producer nobody stops (`kafka_event.py:171`).
14. Two puts of one configuration key can get one version, and `config.updated` is
    committed after the change (`config/service.py:52`, `admin_config.py:84`).

Limits and sessions:

15. Two orders at one broker with a valid session: the second is refused with
    "Session refresh already in progress" (`sessions/service.py:64`).
16. `rate_limit_rps` of 0 means 50 (`routing/engine.py:149`).

Routing:

17. The comment "heavy pressure so others win" (`routing/engine.py:166`) raises the
    pressure to 20, which a limited broker has anyway, and a priority of 10 more
    outweighs it.
18. Nothing probes on a schedule: a broker that failed stays excluded, and one
    that fails now stays in, until somebody probes.

Subscriptions:

19. The expiry of one subscription suspends the client and its instances though
    another covers it; trading goes on, the instances stay down
    (`subscriptions/service.py:199`).
20. Overlapping runs can each emit a `subscription.expired` event for one
    subscription (`events[s]` reaches 2 with two of them), and a run may write
    "suspended" over an instance that was destroyed meanwhile.
21. Starting an instance does not ask whether its client was torn down.
22. An instance whose suspension fails at the provider is skipped and the teardown
    is recorded as complete; nothing tries again (`subscriptions/service.py:223`).
    `TeardownIsComplete` excuses such an instance: it shows that no other is left.
23. At `now = ends_at` a subscription covers its client and is due for teardown
    (`subscriptions/service.py:116`, 190). `ExpiryIsEnforced` looks at the teardown.

## 10. Not modelled

- *Whitelist*: `sync` appends a snapshot and findings that no decision reads.
- *Authentication, schemas, settings, middleware, seeding, migrations, admin UI*:
  no state that interleaves.
- *Monitoring aggregates* only read; the websocket's viewers are not modelled.
- *Configuration versions*: observation 14 is all there is to them.
- *Infrastructure*: the fallback from Docker to the database mock, the Vultr
  client, address arithmetic of the documentation networks, auto-renewal.
- *Providers other than event*: they use the same cache without versions or loops.
- *Start-up and shutdown* of both processes.

Kafka, Redis, Docker and PostgreSQL are modelled by what the code relies on.

Out of the prover's reach and checked by TLC only: `EveryRequestReturns`,
`LoopsCatchUp`, `ExpiryIsEnforced` and the liveness half of `AtLeastOnce`. They
need fairness and ENABLED. All other properties of the passing runs are theorems,
each under the assumptions that its section names.

## 11. Running

    tlc -workers 2 -config OrdersTables.cfg MCOrders
    tlc -workers 2 -config OrdersRecovery.cfg MCOrders
    tlc -workers 2 -config OrdersResubmit.cfg MCOrders        # violated
    tlc -workers 2 -config OrdersCancelRace.cfg MCOrders      # violated
    tlc -workers 2 -config IpsLocks.cfg MCIpManager
    tlc -workers 2 -config IpsRotation.cfg MCIpManager
    tlc -workers 2 -config Outbox.cfg Outbox
    tlc -workers 2 -config EventProvider.cfg EventProvider
    tlc -workers 2 -config ConsumerSwap.cfg EventProvider     # violated
    tlc -workers 2 -config Gateway.cfg MCGateway
    tlc -workers 2 -config Subscriptions.cfg MCSubscriptions
    tlc -workers 2 -config Routing.cfg MCRouting
    tlapm OrdersProofs.tla
    tlapm GatewayProofs.tla
    tlapm OrderTablesProofs.tla
    tlapm IpManagerProofs.tla
    tlapm OutboxProofs.tla
    tlapm EventProviderProofs.tla
    tlapm SubscriptionsProofs.tla
    tlapm RoutingProofs.tla
