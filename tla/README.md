# Verification of the cloud resource manager

TLA+ models of the capacity service in this repository: admission of capacity
requests against shared pools and customer quotas, their confirmation,
cancellation, extension and expiry, on Postgres, Redis and any number of server
and sweeper processes. TLC checks the models on small instances; TLAPS proves
the main safety properties for every instance.

## 1. The system

| Component | State it keeps | Operations | Meets the others through |
| --- | --- | --- | --- |
| Capacity service (`internal/service/capacity.go`) | none between calls; the locals of a call | `CreateRequest`, `Confirm`, `Cancel`, `Extend`, `ExpireDue`, `ListCapacity`, reads | the ports below; one goroutine per HTTP call |
| Postgres repositories (`internal/repository/postgres`) | `resource_pools`, `customer_quotas`, `capacity_requests`, `request_lines`, `holds`, `dedications`, `request_events` | conditional `UPDATE`s, `INSERT`s, `SELECT`s; `WithinTx` at READ COMMITTED | shared tables, row locks, the unique index on `(customer_id, idempotency_key)` |
| Sweeper lock (`locker.go`) | the connection that holds the advisory lock | `TryLock`, `Unlock` | a connection of the instance's pool and its Postgres session |
| Redis idempotency store (`redisx`) | customer and key to request id, with a TTL | `Get`, `Set`; errors degrade to a miss | shared by all servers; absent when Redis was down at start |
| Redis capacity cache (`redisx`, `ListCapacity`) | rendered capacity views, with a TTL | get, set, invalidate | filled by readers, invalidated by writers |
| Sweeper loop (`internal/fxmodules`) | a ticker | calls `ExpireDue` | the lock and the tables |
| Validation and planning (`capacity.go`) | none | `validateCreateInput`, `computeBodyHash`, `resolveLines`, `buildReservationPlan` | read-only rows of products and pools |
| HTTP API (`internal/httpapi`) | none between calls | one route per service call, `GET` of a request with its events | rows fetched after the commit |
| In-memory fakes (`internal/repository/memory`) | maps for the tables | the repositories' methods, for the unit tests | a `WithinTx` that cannot roll back |
| Configuration, wiring, observability, migrations | none that decisions read | settings, metrics, start and stop | constants of the models |

What is hard here is concurrency on the database. Confirm, cancel and the
sweeper decide from rows they read without locks; creates check a cap, a replay
store and an index at different times; Extend writes what it computed from an
earlier read; rejections and extensions write several rows with no transaction;
a reply is put together from rows read after the commit; the sweeper's lock is
only as alive as the session of a pooled connection; servers and sweepers may
die between any two statements. What makes the components correct:

- *pools and quotas*: no counter passes its limit, the counters are the sums of
  the holds they stand for, and customers never hold more than a pool has;
- *requests*: only the documented transitions, terminal rows final, holds,
  dedications and audit events in step with the status;
- *transactions*: none waits in a circle, and what they commit is whole;
- *idempotency*: one request per customer and key, replays answer with it, and
  only to those who asked for it;
- *expiry*: limits on extensions hold, nothing expires early, every reservation
  ends;
- *replies*: an outcome shown to a client is the outcome;
- *lock*: one sweeper at a time while its session lives, and never none for ever;
- *cache*: a served view is out of date for a bounded time only.

`PROJECT.json` lists the components, the hazards with the lines where they
bite, and the source lines of every definition.

## 2. Modules

| Module | What it is | Checked through |
| --- | --- | --- |
| `Repository` | the tables as variables and every SQL statement as an operator on them | the modules below |
| `CapacityService` | the processes: the steps of each call and of the sweeper, Redis, the lock, the clock | `MCCapacity` |
| `CapacityAccounting` | the counters against the holds they count, as sums | `MCCapacity`, `MCMemoryStore` |
| `RequestLife` | abstract: the life of a request in one step per transition | as a property |
| `Ledger` | abstract: `RequestLife` with the counters booked exactly | as a property |
| `CapacityRefinement` | the mapping from `CapacityService` to the two | `MCCapacity` |
| `TxStatements` | the transactions statement by statement, under row locks | `MCTxStatements` |
| `HttpApi` | the service's steps with the replies they lead to | `MCHttpApi` |
| `RequestPlan` | validation, fingerprint, replay decision and plan of a body | `MCRequestPlan` |
| `SweeperLock` | the advisory lock over sessions, pools and their connections | `MCSweeperLock` |
| `CapacityCache` | the capacity cache and its invalidations | `MCCapacityCache` |
| `MemoryStore` | the service over the in-memory fakes | `MCMemoryStore` |
| `RepositoryProofs` | what the statements of `Repository` do to types, limits and the sums of `CapacityAccounting` | TLAPS |
| `CapacityServiceProofs` | types, limits, final states, holds, audit, expiry, keys, the cap and the accounts of the service, and its refinement of `RequestLife` and `Ledger` | TLAPS |
| `HttpApiProofs` | the replies | TLAPS |
| `TxStatementsProofs` | limits, freedom from deadlock and refinement, statement by statement | TLAPS |
| `SweeperLockProofs`, `CapacityCacheProofs`, `RequestPlanProofs` | the lock, the cache, the plan of a body | TLAPS |
| `MemoryStoreProofs` | the accounts of the fakes | TLAPS |

The `MC` modules only give constants their values.

### Repository and CapacityService

Identifiers, customers, keys and bodies are opaque. A *body* is a create
request that passed validation, up to its `body_hash`; `Plan[b][k]` is the
amount it resolves to for resource kind `k`. Pools and kinds are one to one.
The lines, holds and dedications of a request carry the amounts of its plan,
so `hold[id][k]` is only a status and `dedication[id][k]` a number of rows.
`total`, `oversubscribe_factor` and `"limit"` are never written by the program
and are the constants `Effective` and `Limit`; a missing quota row is one with
the default limit and nothing used. Time is a natural number.

A process has a program counter `pc[p]` and the locals `loc[p]` of its call.
One step of a process is

- a read outside a transaction, with the decisions up to the next statement;
- the `SELECT` of the active holds that opens the transactions of confirm,
  cancel and expire (`ListHolds`);
- the writing rest of a transaction (`reserveWithinTx`, `ConfirmCommit`,
  `releaseReserved`), taken as one step in the order of commits: its `UPDATE`s
  lock each row they touch until the commit and re-evaluate their conditions on
  the locked row. `TxStatements` takes these apart;
- each autocommitted write of the calls without a transaction
  (`persistRejected`/`PersistRejectedDetail`, `ExtendUpdate`/`ExtendEvent`). The
  lines of a rejected request are read by nobody and go with its event.

`ReturnError` lets a worker leave its call before any step: every error, lost
race, rollback, disconnected client and server crash. `SweepFail`, `SweepCrash`
and `SweepSessionLost` do so for the sweeper and its lock. Which call led where:

| Code | Actions |
| --- | --- |
| `checkIdempotentReplay` | `ReplayFromRedis`, `ReplayFromDB`, `CreateAdmit` |
| `enforceActiveHoldsLimit`, `buildReservationPlan` | same names |
| `reserveWithinTx` | `reserveWithinTx`, `ReserveDuplicate`, `ReserveReject` |
| `persistRejected`, `CreateRejected` | `persistRejected`, `PersistRejectedDetail`, `PersistRejectedDuplicate` |
| `replayAfterDuplicate` | `replayAfterDuplicate`, `RejectedReplay` |
| `recordOutcome` | `recordOutcome` |
| `Confirm` | `ConfirmGet`, `ListHolds`, `ConfirmCommit` |
| `Cancel`, `releaseReserved` | `CancelGet`, `ListHolds`, `releaseReserved` |
| `Extend` | `ExtendGet`, `ExtendUpdate`, `ExtendEvent` |
| `ExpireDue` | `SweepLock`, `SweepList`, `SweepNext`, `ListHolds`, `releaseReserved`, `SweepFail`, `SweepEnd`, `SweepCrash` |
| Redis expiry and eviction, `ports.Clock` | `RedisForget`, `Tick` |

`answered` records which answers `CreateRequest` gave; no action reads it.
`IdemKey[c][key]` is the joined Redis key: two pairs may share one. With
`RedisConfigured = FALSE` the store is the no-op one. Every row here was
created by this program and carries a `body_hash`; rows from before migration
000003, whose empty hash matches any body (`capacity.go:289`), are in
`RequestPlan`.

`ExclusiveSpec` is `Spec` without the steps that put two processes into calls on
one request (`NoOverlap`). Nothing in the code sees to that: it is the hypothesis
under which the counters are exact, and no action of the model knows of it. A
sweeper's batch may still be stale: what it lists may be confirmed or cancelled
before it comes to it.

### The abstract specifications

`RequestLife` has no processes, counters or clock: a step reserves, rejects,
confirms, cancels or expires one request, with all its holds and dedications,
and a customer has one request per key. `Ledger` adds that each such step
books the pools and quotas by exactly the plan of its request, within the
limits. `CapacityService` maps to them by forgetting expiries, events and
everything a process keeps; `TxStatements` by looking only at committed rows.

### CapacityAccounting

`Held(k, ids, statuses)` is what the holds of some requests amount to. `Total`,
the sum, is the number of unit amounts: an amount of n stands for n units, and
the sum counts the units of all holds. It needs no recursion, so what a step
does to it can be proved; `MCCapacity` has TLC check that it is the usual sum.

### TxStatements

`tx[p]` is the transaction a process is in and the statement it is at; the
variables of `Repository` hold the latest version of every row, `committed` the
last committed one, `owner` the row locks. An `UPDATE` whose condition fails on
the committed row updates nothing and does not wait (`PoolSkip`, `HoldSkip`,
`RequestSkip`); otherwise it waits for the lock and is evaluated again. If its
condition fails only then, Postgres keeps the lock: `PoolOf` allows that.
`HoldSkip` and `RequestSkip` take no lock in that case, which nobody can tell:
the committed row is then no longer ACTIVE or RESERVED and never will be, so no
statement that begins later waits for it. The
loops over plans and holds keep the kinds they have `left` and take the one with
the smallest pool id next (`Kind`, `PoolId`), as both are sorted by it. Commit
and rollback release all locks. Inserting a request locks its entry in the
unique index. There is no clock, so any RESERVED request may be expired.

### HttpApi

Every step of `CapacityService` is a step here, joined with what the handler
does about it: `serving[w]` is the call between the service's commit and the
reply (`LifecycleCommit`, `CreateOutcome`), `FinalGet` fetches the row that
confirm, cancel and extend reply with, `AlreadyThere` is the early return of a
repeated confirm or cancel, `GetRow` and `GetEvents` the two reads of `GET`.
`told` is the last reply that shows a request and `confirms` is
`reservation_confirmations_total`.

### RequestPlan

The calls of one customer under one key, in sequence, step by step through the
loops that Go runs in map order. Amounts are integers that wrap at `Half`, which
stands for 2^63; the instance keeps the proportions of `maxAmount`,
`maxQuantity` and the width. The fingerprint keeps the lines in the order that
`sort.Slice` puts them in (`Sorted`, by `lineLess`); `KindOrder` is the order of
the strings, and TLC checks `Sorted` against the library's sort
(`SortedIsSorted`). The stored row may be one from before migration 000003
(`Legacy`): it has no fingerprint, is replayed to every body, and is left out of
what `PlanAsAsked` and `ReplayAskedTheSame` say (`Hashed`).

### SweeperLock

`idle[i]` and `taken[i]` are the connections of an instance's pool, `conn[i]`
the one `Locker` pinned, `work[i]` the one the sweep's statement runs on,
`open` the sessions alive, `holder` and `depth` the advisory lock, which stacks.
The pool and the server are external and modelled from how the locker uses
them: a connection may be broken without anyone having noticed, a failed
statement may leave its session alive, the pool retires connections.

### CapacityCache

What a view shows is abstracted to how long ago the first commit it does not
include was (`stale`). `PoolsList` and `QuotasList` are the two reads of
`ListCapacity`, `SetCapacity` the fill, which stores the view whatever was
invalidated since it was read; `writer[w]` is what a writer has yet to drop:
after `CommitCreate` the keys of all customers and of its own, after
`CommitRelease` and `SweepCommit` only that of all.

### MemoryStore

The actions are whole calls, since the tests make one at a time. Where a map
behaves as its table does the operators of `Repository` are reused; the
differences are the ones that matter: a rejected create keeps what its earlier
lines, in the order of `PoolId`, took (`Part`), requests are found by the joined string, and a sweep's
batch is any subset of the due requests.

## 3. What TLC checks

In the instances of `CapacityService`, `small` asks for one vm and `large` for
two vms and one address, so a request has one hold or two.

| Run | Instance | Properties | States |
| --- | --- | --- | --- |
| `admission` | `HttpApi`: 2 workers, 3 ids and keys, 2 bodies, tight quota, cap 1, Redis | `OneRequestPerKey`, `CreatedWasReserved`, `ActiveHoldsOvershootBounded` | 4,227 |
| `lifecycle` | `HttpApi`: 2 workers, 1 sweeper, 1 request, one body that fits and one that is rejected, 2 extensions, two creation instants, GET | `HoldsFollowRequest`, `AuditFollowsRequest`, `ExpiryFollowsExtensions`, `ExpiredWasDue`, `TerminalIsFinal`, `RepliesAgree`, `ConfirmedIsCompleted`, `OutcomesExplained`, `ConfirmationsCounted` | 2,197,935 |
| `contention` | 2 workers, 2 requests, 2 bodies, room for the larger, extensions, Redis | `TypeOK`, `CapacityNeverOversold`, `NothingOvercounted`, `ImplementsRequestLife` | 1,047,168 |
| `exclusive` | `ExclusiveSpec`: 2 workers, 1 sweeper, 2 requests, 2 bodies, room for one of each | `CountersMatchHolds`, `ImplementsLedger` | 303,231 |
| `sweep_liveness` | 1 worker, 2 sweepers, 2 requests, batches of 1, `FairSpec` | `ReservationsEnd` | 31,378 |
| `statements` | 3 transactions, 2 requests, 2 bodies, 2 pools | `NoDeadlock`, `NeverOversold`, `TransactionsImplementRequestLife` | 403,611 |
| `plan` | 5 products, every pair of lines of 3 kinds with edge amounts, 7-bit amounts, no row or one without a fingerprint at first | `PlanAsAsked`, `ReplayAskedTheSame`, `RetryIsReplayed` | 50,704 |
| `locker` | 2 instances, pools of 2, 4 sessions, stacking to 2, `FairSpec` | `TypeOK`, `OneLiveSweeper`, `SweepsEnd`, `SweepsGoOn` | 45,758 |
| `cache` | 1 customer, 2 readers, 2 writers, lifetime 2, `FairSpec` | `StalenessBounded`, `QuietCacheIsFresh` | 198,525 |
| `memory` | 3 requests, 2 customers, 2 keys, tight pools and quotas | `CountersCoverHolds` | 145,941 |
| `oversell` | 2 workers, 3 requests, creates and cancels | `HeldWithinCapacity`: violated | |
| `extend_regress` | 2 workers, 1 request, 2 extensions | `ExpiryNeverMovesBack`: violated | |

What they show, beside the wording of each property in its module:

- The counters respect their limits in every interleaving (`contention`, and
  proved), and the rows change only in whole transitions (`ImplementsRequestLife`),
  but the counters stop being the sums of the holds as soon as two calls on one
  request overlap (`oversell`); in behaviours where none do they are exact
  (`exclusive`).
  With overlaps, the dedicated amounts and the quotas can only fall short
  (`contention`, and proved). The reserved amounts of pools can also exceed the holds: after a
  double cancel, the release of a larger request finds less than its amount, the
  condition of `ReleaseReserved` skips it, and what was left stays reserved for
  nobody. The quota's `GREATEST` clamps instead, so it leaves nothing behind.
  `README.md:628` names such drift as a risk.
- The assumption under which `CapacityService` takes a transaction's writes as
  one step is itself checked: statement by statement the transactions still
  commit whole transitions, and sorting plans and holds by pool
  (`capacity.go:321`, the `ORDER BY` of `ListActiveHolds`) keeps them free of
  deadlock. A transaction that stops at a short pool rolls back.
- Everything a client is told about an outcome stays true (`lifecycle`), because
  rows are fetched after the commit and terminal rows never change.
- Sweeping survives crashes, dead sessions and failed unlocks (`locker`), with
  pools of at least two connections. With one, `SweepsEnd` fails: the lock keeps
  the only connection and the sweep's first statement waits for ever.
- Nothing in the cache outlives its commit by more than `CacheTTL` plus the
  time a view takes to build (`cache`), whatever is lost.

Bounds. Ids, keys and workers are symmetric where a run says so (never in a
liveness run). Two workers give every pairwise overlap; the races on one request
involve at most two workers and a sweeper. `contention` has no sweeper, since an
expiry releases as a cancel does; that of one request is in `lifecycle`, of two
in `exclusive` and, overlapping with everything else, in `statements`. `Horizon` bounds the instants at
which reservations are stamped, `ExtendBound` how many extensions a request
sees before no new Extend starts, and the clock stops at `MaxTime`, when every
reservation that can exist is past its expiry. `TTL` is 1 so that expiry,
extension and the instant in between all occur. In `lifecycle` the wall-time
limit stops the second extension, in `contention` the limit on their number does.
Three transactions are enough for a circle through two pools and a request row.
`MaxDepth` of 2 lets a session stack the lock once; `Lag` bounds a
`ListCapacity` call in ticks. `CHECK_DEADLOCK` is off in `statements`, where
nothing is left to do once all requests have ended (waiting in a circle is
`NoDeadlock`), and in `memory`, where the tests' clock stops.

Fairness.
- `sweep_liveness`: time passes and the ticker keeps offering `SweepLock` (weak
  fairness); a sweep step that is possible again and again is eventually taken
  (strong fairness), which says that crashes and failures are not permanent:
  `runSweeperLoop` calls `ExpireDue` at every tick, whatever the last one
  returned. Nothing is assumed of workers, so clients may never return.
- `locker`: the ticker again; a goroutine waiting for a pool connection gets one
  (pgxpool queues them); statements do not fail for ever; the server ends
  sessions whose client is gone, and the pool retires connections after
  `MaxConnLifetime`. The last is what frees a lock that a failed unlock left on
  a live session, so `SweepsGoOn` says "eventually", not "at the next tick".
- `cache`: time passes, and a `ListCapacity` call in progress gets on. Nothing
  is assumed of writers or Redis.

Mutants. `PROJECT.json` pairs every property of a passing run with an operator
that breaks the code the way a plausible edit would (a missing `AND status =
'RESERVED'`, `<=` for `<`, an unsorted list, a forgotten unlock); TLC finds each
violated.

### Where documentation and code disagree

Two runs check a sentence of the documentation and TLC finds a behaviour of the
code that breaks it; `PROJECT.json` quotes the sentences.

| Run | Property | What happens |
| --- | --- | --- |
| `oversell` | `HeldWithinCapacity` | two overlapping cancels release one request twice; later creates overbook the pool |
| `extend_regress` | `ExpiryNeverMovesBack` | a delayed Extend writes an older expiry |

Other disagreements met while modelling, with no run of their own:

- A release that lost its race still moves the counters (`capacity.go:820`), which
  is what `oversell` ends in. `README.md:72` promises conditional transitions.
- The cap on active holds is counted outside the transaction (`capacity.go:190`)
  and can be passed by concurrent creates, by at most one per other worker
  (`ActiveHoldsOvershootBounded`); `README.md:630` relies on it.
- The sweeper expires a request that was extended after it was listed
  (`capacity.go:783`): it was due then, not when it expires. `ExpiredWasDue`
  measures from the creation and does not object.
- `CreateRejected` writes the REJECTED row before its event, in no transaction
  (`requests.go:119`): a failure in between leaves the row without it for good,
  and a GET in between shows the one without the other. `README.md:352` says
  every transition has one. The gap is reachable in `lifecycle`, and
  `AuditFollowsRequest` and `OutcomesExplained` except it: neither says that a
  rejection is ever explained.
- `Extend` writes its event after its UPDATE, in no transaction either
  (`requests.go:203`). No property counts these events.
- Customer and key are joined with a colon in Redis (`redis.go:70`); identifiers
  with colons can share an entry, and then `OneRequestPerKey` fails. The run has
  one customer and keeps the keys apart, so it does not show this.
- A row from before migration 000003 is replayed to a body that asks for something
  else (`capacity.go:289`), a reuse of its key that `README.md:68` says is
  detected; such a row has no fingerprint to detect it by.
- A template above `maxAmount`, which nothing refuses, may wrap in
  `capacity.go:493` into an amount that passes the check of the next lines.
  `PlanAsAsked` speaks of templates within the limit only (`Sane`).
- The fingerprint of a body with lines ignores its quantity (`capacity.go:567`),
  which is stored; the plan is the same (`ReplayAskedTheSame`).
- A sweeper whose session ended goes on while another starts (`capacity.go:764`),
  against the comment at line 754; `OneLiveSweeper` is what is left of it.
- `Unlock` returns its connection to the pool also when the unlock failed
  (`locker.go:53`), still locked if its session lives, against the comment at
  lines 11 and 12.
- A cancel that lost its race is answered 200 with a request that is not
  cancelled (`capacity.go:855`, `README.md:585`).
- A confirm repeated while the first is committing is refused although the
  request is confirmed (`capacity.go:654`, `README.md:60`).
- `sweeper_expired_holds_total` counts releases that returned, not holds that
  expired (`capacity.go:789`, `metrics.go:103`).
- `ListCapacity` does not show the default limit of a customer without quota
  rows (`capacity.go:148`, `README.md:372`).
- The fakes of `memory.go` do not roll back (line 472), so their counters can
  stay above the holds; `CountersCoverHolds` shows that they are never below.

## 4. What is proved

Every safety property and both refinements that a passing run checks are
theorems, and so is `HeldWithinCapacity` in the absence of the overlaps with which
`oversell` breaks it. A theorem holds for arbitrary sets of requests, kinds,
customers, keys, workers, sweepers, instances and sessions, and for any values
of `Calls`, `TTL` and the limits, under the assumptions named in
the modules and nothing else:

- amounts, limits, lifetimes and widths are natural numbers (`PlanAssumption`,
  `EffectiveAssumption`, `LimitAssumption`, `BatchAssumption`, `TimeAssumption`,
  `CacheAssumption`, `PoolAssumption`, `TTLAssumption`), amounts in bodies and templates integers
  (`InputAssumption`);
- `maxAmount * maxQuantity` is below the width of an amount (`WidthAssumption`);
  in the code it is (2^53 - 1) * 1000 against 2^63;
- workers and sweepers are different, and `None` is none of the identifiers,
  or transactions it stands beside (`NoneAssumption`, `ProcAssumption`,
  `NoSweeperAssumption`, `NoProcAssumption`, `NoTxAssumption`,
  `NoBackendAssumption`);
- different kinds have different places among the strings
  (`KindOrderAssumption`);
- pool ids order all pools (`PoolIdAssumption`), in `TxStatements` finitely many
  (`PoolOrderAssumption`).

Some theorems have a hypothesis of their own, because the property is false, or
says nothing, without it:

| Hypothesis | Theorems | Why |
| --- | --- | --- |
| `RedisConfigured => KeysApart` | `KeysHaveOneRequest` | joined keys of two customers may be one Redis key (section 3) |
| `ExclusiveSpec` for `Spec` | `CountersExact`, `HoldsFit`, `LedgerRefinement` | overlapping calls break them (run `oversell`) |
| `ReqIds` finite | `CountersExact`, `HoldsFit`, `LedgerRefinement`, `NeverOvercounted`, `FakesCoverHolds` | the properties sum over them |
| `ReqIds` and `Workers` finite | `OvershootBounded`, `ConfirmsCounted` | the properties count them |

What each argument rests on. Few of the properties are inductive; the
strengthenings were first checked by TLC as invariants of the runs above.

*Service* (`CapacityServiceProofs`)

- `TypeCorrect` (`TypeOK`) is inductive because it includes which locals are set
  at which program counter (`LocalsOK`) and that ids in a batch exist.
- `NeverOversold` (`CapacityNeverOversold`) is inductive with it: reserving adds
  only what the condition of `TryReserve` found available, confirming moves
  between the two counters, releasing subtracts only what is there.
- `Finality` (`TerminalIsFinal`): each writer of a request is guarded by
  `RESERVED` or inserts a row that did not exist.
- `HoldsFollow` (`HoldsFollowRequest`): a confirm moves only the holds it read,
  so `SnapsMatch` says that while a request is still RESERVED a process about to
  write has read all the holds of its plan.
- `LifeRefinement` (`ImplementsRequestLife`): with these invariants, every action
  maps to a step of `RequestLife` or to a stutter.
- `AuditFollows` (`AuditFollowsRequest`) needs `RejectsPending`: a worker between
  the two statements of a rejection is alone there for its request, which is
  rejected and has no event yet.
- `ExpiryFollows` (`ExpiryFollowsExtensions`) needs `ExtensionsComputed`: what an
  Extend is about to write is consistent in itself, however old.
- `ExpiredDue` (`ExpiredWasDue`) needs `SweepsDue`: everything in a batch was due
  when it was listed, and a due request stays a TTL away from its creation.
- `KeysHaveOneRequest` (`OneRequestPerKey`): the unique index keeps rows apart
  (`UniqueKeys`), and Redis, the locals of creates and the answers given all name
  the row of their key (`RedisAgrees`, `RecordsAgree`, `AnswersAgree`).
- `CountersExact` (`CountersMatchHolds`), a theorem of `ExclusiveSpec`, whose runs
  are runs of the service (`ExclusiveIsSpec`): it is inductive as part of
  `Booked`, with `HoldsFollowRequest`, `SnapsMatch`, `NoOverlap` and
  `SnapsCurrent`, which says that what the only process in a call on a request
  has read of it is current when it writes. So a process about
  to write has read exactly the active holds of its request, so what it takes
  from a counter is a term of the sum, and neither the condition of the pools'
  `UPDATE`s nor the clamp of the quotas' ever applies. `HoldsFit`
  (`HeldWithinCapacity`) follows with `NeverOversold`.
- `LedgerRefinement` (`ImplementsLedger`) is `LifeRefinement` with the counters:
  by `CountersExact` they cover what a step gives back, so each transition books
  exactly its plan.
- `NeverOvercounted` (`NothingOvercounted`) has no hypothesis on overlaps. Its
  invariant is the property with `HoldsFollowRequest` and `SnapsMatch`: a call
  that lost its race takes from the counters and from no hold, which keeps an
  inequality; a release that wins has read all holds of its request and takes
  from the quota what they lose or all there is; a confirm dedicates at most what
  its holds become.
- `OvershootBounded` (`ActiveHoldsOvershootBounded`) needs `CapRoom`: the active
  requests of a customer and the creates that have passed the check, together,
  stay within the cap and the other workers.

*HTTP API* (`HttpApiProofs`). `ServiceRuns` shows that the API takes only steps
of the service, which carries the theorems above over. `Handled` says of each
call between commit and reply which outcomes its row can have, and of the last
reply that it was true; `RepliesNeverDisagree`, `ConfirmsComplete`,
`OutcomesHaveEvents` and `CreatesTellOutcome` follow from it. `ConfirmsCounted`
counts, with the confirmations, the workers that have yet to count theirs
(`ConfirmsRoom`).

*Transactions* (`TxStatementsProofs`)

- `StatementsNeverOversell` (`NeverOversold`): the condition of an `UPDATE` is
  evaluated on the row it locked; what is published at commit is what was locked.
- `StatementsNeverDeadlock` (`NoDeadlock`): `Rank` says how far a transaction has
  come through pools in the order of their ids, quota and hold of a kind after
  its pool, then the request. `LocksBehind`: it holds only locks of rows it has
  passed. So in any set of transactions the furthest waits for none of them.
- `StatementsImplementLife` (`TransactionsImplementRequestLife`): `TxInv` says
  that unlocked rows are committed (`Clean`), what each lock on a hold or a
  request means (`OwnHolds`, `OwnRequests`), and that while a request is still
  RESERVED in the committed tables a transaction ending it has listed all its
  holds and locked the ones behind it (`InFlight`). A commit is then one
  transition of `RequestLife`, which is what lets `CapacityService` take the
  writes of a transaction as one step.

*Lock* (`SweeperLockProofs`). `LockTypes` and `OneSweeper` follow from `LockInv`:
the pools of instances share no connection, the lock is that of every live
session a sweep runs under, a session that may take it again has room to stack it
(`MaxDepth` bounds that), and while an instance sweeps, the only connection of its
pool that can have the lock is the pinned one.

*Cache* (`CapacityCacheProofs`). `CacheInv` ties the age of a view to the time
its entry has left (`stale <= CacheTTL + Lag - left`) and the age of a view being
built to that of its call. `StaleForAWhile` follows, with nothing assumed of what
writers drop. The bound at which
`Older` stops counting is never reached, so it hides nothing.

*Plan* (`RequestPlanProofs`). `PlanInv` follows a call through its loops: what is
resolved is what the body asks for, but for what the loop has left to visit, in
whatever order it goes (`Resolves`, `Grained`). `PlansAreAsAsked` adds that no
product wraps within the limits (`ProductFits`), `ReplaysAskedTheSame` that
bodies with one fingerprint resolve to one plan (`SameHashSamePlan`), and
`RetriesAreReplayed` that bodies which ask for the same amounts have one
fingerprint (`SameHash`): their lines are the same (`SameLines`), and two
sequences of the same lines sort to one (`OneOrder`), since every place up to the
length is taken by exactly one line (`SortedPlaces`) and how many lines come
before a line does not depend on where it stands.

*Fakes* (`MemoryStoreProofs`). `FakesCoverHolds` (`CountersCoverHolds`):
`MemoryInv` adds types and that only requests that exist have holds. A create that
is rejected adds to counters and to no hold; the others move both by the same
amount, since the counters, which cover the holds, cover what is released.

*Sums* (`RepositoryProofs`). `TotalJoin`: one more holder adds its amount to the
sum; `TotalMove`: when one holder joins, leaves or changes its amount, the sum
changes by just that. Both are facts about the cardinality of the units, so no
induction is needed. `HeldMoves` and
`HeldChanges` say it of a write to the holds of one request.

Only model-checked: liveness under fairness (`ReservationsEnd`, `SweepsEnd`,
`SweepsGoOn`, `QuietCacheIsFresh`), which TLAPS does not reason about, and that
`Total` is the recursive sum of the library (`TotalIsSum`), which takes an
induction over finite sets that the installed provers cannot instantiate.

## 5. Where it can grow

All of the plan is done: the components that keep state are modelled, their
safety is proved, their liveness checked. The next things to add, when the code
changes, would be the listings (as reads beside `GetRow`), and, if releases are
made conditional on the status they end, the theorems of section 4 about
`ExclusiveSpec` for `Spec` itself.

## 6. Not modelled

- Error codes and wording of replies, the listings (`/v1/products`,
  `/v1/capacity` as rendered, `/v1/requests`), health and readiness: they change
  nothing, and no decision reads them.
- Metrics other than the confirmations counter, logging, correlation ids.
- Configuration parsing, dependency injection, HTTP listeners and shutdown: the
  settings are constants, a stop is a crash.
- The migration runner, which hands the SQL files to golang-migrate at start.
