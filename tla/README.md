# A TLA+ model of the rate limiter

This directory models the distributed rate limiter of this repository: a
coordinator that owns one token bucket per tenant, a fleet of workers that
admit requests from leased tokens, and the evaluation harness (load driver,
scenarios, judgement, Kubernetes control) that measures them. TLC checks the modules on
small instances; TLAPS proves the safety of the coordinator, the workers, their
composition, the load driver and the harness for every instance. `PROJECT.json` lists every run, mutant,
source line, finding, hazard and theorem.

## 1. Inventory

| Component | State | Operations | What is hard |
|---|---|---|---|
| `internal/config` | tenants' rates, lease size and duration | `Load` | boundary values that are accepted |
| `internal/bucket` | `tokens`, `last` | `New`, `refillLocked`, `TakeUpTo`, `NextTokenIn` | truncation, clock readings out of order |
| `internal/coordinator` | a bucket and three counters per tenant, `started` | `POST /v1/lease`, `GET /v1/stats`, `Run` | handlers interleave between clock, bucket and counters; restart |
| `internal/worker/limiter.go` | a pool per tenant, counters per tenant | `Check`, `renew`, `StatsSnapshot` | stale clock readings, singleflight, a wait without the mutex, pacing and backoff, expiry, negative cache |
| `internal/worker/server.go` | none | `httpLeaser.Lease`, `GET /v1/check` | timeout against a late grant, error kinds |
| `internal/loadgen/driver.go` | results per tenant, semaphore and quota per load | `Run`, `runTenant`, `one`, `record` | goroutines of several loads on one result, cancellation, fractional pacing |
| `internal/loadgen/report.go` | none | `sumSeries`, `CoordStats`, `invariantCheck`, rendering | reads results that are still growing; subtracts counters that a restart resets |
| `internal/loadgen/server.go` | the slot `runMu` | `GET /run`, `GET /scenarios` | order of deferred calls, a client that leaves |
| `internal/loadgen/scenarios.go` | none beyond locals | five scenarios and their checks | goroutines that nobody waits for; restoration; fixed windows and tolerances on sums over tenants |
| `internal/loadgen/kube.go` | the cluster | create, update, scale, wait, kill, restore | optimistic concurrency, stale status, a patch that arrives after its caller gave up, controllers that act on their own |

How they interact. A worker's `Check` is called by an HTTP handler. It may
start a `renew` goroutine, which calls the coordinator's `/v1/lease` over HTTP
with a timeout of 1.5 s. The coordinator never calls a worker and keeps no
record of leases. The harness drives workers over HTTP, scrapes the counters
of both, and changes the cluster through the Kubernetes API. The coordinator
keeps everything in memory and starts with full buckets.

What makes each part correct:

* bucket and coordinator: over any window at most rate × window plus one burst
  per start is granted, whatever the order in which handlers reach the mutex;
  the counters mean what they say; a retry hint is long enough;
* worker: one lease call at a time per pool, no waiter forgotten, a bounded
  pool, pacing honoured, every token and every decision accounted for, a
  request path that never hangs, and recovery after every kind of failure;
* the whole: no token is forged between a bucket and an admission, over an
  unreliable call and with kills on both sides;
* driver: the report adds up, the load offered is the load asked for, and
  nothing changes after `Run` returned;
* harness: what is measured is what was asked for, faults stay within their
  run, steady state is restored, and the slot is always released;
* judge: a run that went as the design promises passes, a verdict on sums
  hides no single tenant, and the difference of two scrapes means what the
  report says of it.

## 2. Modules

| Module | Models | Uses |
|---|---|---|
| `Bucket` | `internal/bucket`, as pure operators | |
| `Coordinator` | `internal/coordinator`, `config.Load` | `Bucket` |
| `Scrape` | `handleStats`, and baseline's two calls of `CoordStats` | `Coordinator` |
| `SumProofs` | lemmas on sums and cardinalities over finite sets | |
| `CoordinatorProofs` | theorems on windows and hints | `Coordinator` |
| `LedgerProofs` | theorems on the counters and on scrapes | `Scrape`, `CoordinatorProofs`, `SumProofs` |
| `Pool` | the record `pool` and what one critical section does to it | |
| `Limiter` | `Check` and `renew` of a fleet of workers, any coordinator | `Pool` |
| `LimiterAccounting` | the same with the counters of `/v1/stats` and a ledger | `Limiter` |
| `LimiterLive` | the same on a clock that never stops, with fairness | `Limiter` |
| `LimiterProofs` | theorems on pools and renewals, on tokens and decisions | `LimiterAccounting`, `SumProofs` |
| `Budget` | what the limiter promises about tokens, without its mechanism | |
| `RateLimiter` | workers, coordinator and the HTTP call between them; implements `Budget` | instances of `Coordinator`, `Limiter` and `Budget` |
| `RateLimiterProofs` | theorems on the whole | `RateLimiter`, `SumProofs`, instances of `LimiterProofs` and `CoordinatorProofs` |
| `Driver` | one `Driver.Run`, with `record`, `sumSeries` and `progress` | |
| `DriverProofs` | theorems | `Driver`, `SumProofs` |
| `Harness` | `handleRun`, the control of the scenarios, `kube.go`, the controllers | |
| `HarnessProofs` | theorems | `Harness` |
| `Report` | windows, percentiles and the checks of the two kill scenarios, on finished results | |
| `ReportProofs` | theorem on percentiles | `Report` |
| `MC*` | constants and symmetry for TLC | the module named |

Definitions whose comment starts with "Mistake" are plausible bugs. No
specification uses them; each stands in for the definition that follows it
when the strength of a property is tested (`mutants` in `PROJECT.json`).

### How state and actions correspond to the code

**Atomicity.** A step of a goroutine is what it does between two points at
which another goroutine can observe or disturb it: a critical section is one
step, each atomic counter is one step, and reading the clock is separate from
the critical section that uses the reading. This matters: `handleLease`,
`Check` and `renew` all read the clock *before* they lock, so decisions may be
made with an old `now`, out of order. Where two atomics of one handler are not
told apart by a property (`Admitted`, `AdmittedTokens`) they share a step, and
`leaseRequests.Add` shares one with the clock reading that follows it.

**Time.** One integer clock. Only differences of monotonic readings matter to
the code; 0 stands for Go's zero `time.Time`. In the coordinator `Unit`
fractions make one token and `Ms` ticks one millisecond, so the two
truncations of a retry hint are both visible. The model is exact where the
code rounds a `float64`; rounding errors of the order of 1e-9 token are not
modelled.

**Coordinator.** `HandleLease` (count, read the clock), `TakeUpTo` (first
critical section), `CountZero` and `ZeroGrant` (counter, second critical
section) or `CountGrant`, `Reply`; `RefuseLease` for 400 and 404; `Crash` and
`Start` for the process. `OpenWindow` and the variables `win…` are history: an
observer opens a window at any instant, and the model records what is debited
in it by handlers that read the clock inside it and by handlers that had read
it before.

**Scrape.** `CoordStats` sends a scrape, `HandleStats` is one turn of the loop
of `handleStats`, `FirstReturn` and `SecondReturn` decode the responses,
`StatsError` is a failed scrape; a kill of the process fails the one it meets.
`Renews` is the difference baseline reports. `served` is history: what the
coordinator really served meanwhile.

**Limiter.** `CheckStart`, `CheckUnknown`, `CheckLocked` or `CheckRenew`,
`WaitDone` or `WaitTimeout`, `WokenUnknown` or `WokenLocked`, `CheckReturn` are
the paths through `Check`; `RenewCall`, `LeaseReturn`, `RenewLocked` those of
`renew`. A renewal and its channel share an identity, because `needRenew`
makes both. `select` picks either case when both are ready. The jitter of the
backoff is any delay within a quarter either way. An answer is any grant, zero
grant with any hint, error, or 404. The map of pools is total from the start:
a pool that does not exist yet is `&pool{}`, which is what `pool()` makes.

**RateLimiter.** `Send`, `Receive`, `Respond`, `Deliver` carry one call;
`GiveUp` is any error on the client's side, at any moment. A request given up
on may have been received, or may still arrive (`late`, `ReceiveLate`). A
response already written survives the kill of the coordinator.

**Budget.** Four steps: tokens are drawn from a bucket, spent on a request,
lost, or an observer starts to look. `RateLimiter` maps `held` to all that
workers hold or that is on its way to one, and `base`, `drawn`, `spent` to its
own history of the observer's window (`ImplementsBudget`).

**Driver.** `Begin`, `Pace`, `Dispatch` or `Drop`, `Stop`, `Drain` are
`runTenant`; `SendOne`, `Return`, `Release` are `one` with its deferred calls;
`OnSecond`, `Measure`, `Sum`, `Report` are the progress goroutine,
one tenant's mutex at a time. A ticker's channel holds one tick. A
request goroutine is known by its load and its slot of the semaphore.

**Harness.** `Request` to `DeferredUnlock` are `handleRun` and the scenario it
runs, the setup (`Ensure`) call by call. The faults are goroutines of their
own. `Reconcile`, `PodReady` and `Observe` are the cluster's controllers, at any
moment and never obliged to act. Assumptions, named here because the code
cannot enforce them: a call of the API takes effect or fails at once, with the
exception below; a fault
that starts has made its calls before the measurement ends, unless the context
is cancelled (the defaults leave 20 s or more), while the *wait* of the restore
goroutine may outlast it; `killAt` precedes `restoreAt` by enough for the kill
to have made its calls; pods that are ready stay ready unless deleted.

A `Scale` whose caller was cancelled may still reach the API server
(`late`, `LateScale`): it is a patch without a resource version, so nothing
refuses it. Two other calls could come late and are assumed not to. An `Update`
carries a resource version and conflicts with whatever was written since, the
controllers' status included, but is applied if nothing was; the setup of the
next run writes nothing when the deployment is already as it asks. A pod
`Delete` goes by name and removes the pod if it still exists. Against a server
that applies these after their caller gave up, `Settled`, `NoReplacement` and
`SteadyRestored` would need the same exemption for the deployment hit. The
deployment that a late `Scale` hits is noted in the history variable
`stray`. A setup that writes the deployment afterwards repairs it; a setup that
wrote it before does not, and `WaitDeploymentReady` may not notice either,
because the status it reads can still be the one for the wanted count.
There is one exception to the repair, which takes three runs and was found by
the proof of `Settled`, not by TLC: the patch of the first run arrives in the
second between the scaling and the deletion of its worker kill; the controller
counts the pods of the patched specification, and then the pod is deleted. A
third setup that asks for just this specification changes nothing, so the
generation does not move and the old status passes `WaitDeploymentReady`
although a pod is missing. `ApplyPut` therefore leaves a deployment `stray`
when the status it leaves in force is `Misleading`.
The properties exempt a deployment while it is `stray`, and no other.

**Report.** Not a process but a calculation: `Init` chooses what happened in a
run (`story`: when the kill took effect, how long leases lasted, when each
tenant came back, which requests failed, whether the client left early),
`Measure` makes the per-second buckets of it, and `JudgeWorkerKill` or
`JudgeCoordinatorKill` evaluates the checks with the windows and tolerances of
the code. The load is even. Rates are integers, `Grain` to one request per
second, and `Grain` is a multiple of every window's length, so no comparison is
rounded. `RenderTable` computes the percentiles of a sample.

## 3. Runs

Every passing run also has, for each property, a mutant of the code that
breaks it.

| Run | Shows | Bounds and why they are enough |
|---|---|---|
| `coordinator` | `WindowBound`, `StaleBound`, `LedgerBound`, `CountersAgree`, `HintSuffices`, `DeltaHonest` | two handlers: every interleaving hazard here is between a handler and one other; 1.5 tokens per tick and a burst of 3 against leases of 2, so that full, partial and zero grants and fractions occur; four instants, one restart, three calls: one before, one during and one after a scrape or a window. A behaviour has one observer, the window or the scraper |
| `limiter` | the safety of `Check` and `renew`, conservation of tokens, accounting of decisions | two requests and two renewals on one pool, costs 1 and 3 around a lease of 4 (partial grants of 2), so that a request is above and below what the pool holds; three checks per life; four instants, so a lease expires (2), backoff doubles to its cap (2) and the negative cache lapses (2) |
| `limiter_live` | `CheckReturns`, `Recovers` | two requests, one renewal (singleflight allows no more for one pool); the clock never stops |
| `fleet` | `NoTokenForged` | two workers that share a bucket, of which one may be killed; one handler at a time, leases of 1, three lease calls |
| `restarts` | `SystemWindowBound` across a restart; `ImplementsBudget` and `WorkersImplement` (refinements) | one worker, leases of 2, one restart of the coordinator, a tenant and a stranger, one request that arrives after its caller gave up. `MaxCalls` counts the calls of one life of the coordinator, so two lives make four, and the bound is reached both ways: 4 admitted in a window without a start, 6 in one with a start |
| `driver` | the report, the drops, the pacing, the snapshot, and that `Run` ends | two loads of one tenant with rates 1 and 0.5 per tick, one slot each, four instants in two seconds, so that drops, lost ticks, carried fractions and late outcomes of both loads occur; of the outcomes 200 and errors (429 is recorded as 200 is, without the tokens) |
| `harness` | the five scenarios, two runs in sequence | one API failure at any call, or one `Scale` that arrives late at any moment; scaling has two phases; two attempts at an update |
| `report` | `HealthyPasses`, `PassHidesNoTenant`, `PercentileRanks` | the tenants, limits, lease size and default durations of the deployment; per tenant, leases that last 1, 3 or 12 s and a recovery at once, late or never; kills on time, late or not at all; losses of 0, 10 or 15 percent for up to 8 s; tenants admitted at 100, 50 or 0 percent; samples of up to 4 latencies |

Pools of different tenants or workers share nothing but the clock, so one pool
shows what any number do; the proofs of section 5 confirm it for every number.
`fleet` and `restarts` split the composition because two workers together with
restarts and late requests exceed what TLC finishes in minutes.
`fleet` does not ask for `SystemWindowBound`: its three calls grant fewer tokens
than the bound allows two workers. With `Rate` 3, `MaxCalls` 5 and `MaxKills` 0 its
instance takes 2.4 million states, in which the bound, 3 + 2 × 1, is reached and
not passed: two calls strand a lease at each worker, the bucket fills up, the
window opens, and three more calls admit a burst. With a kill as well this
exceeds five minutes; the theorem `SystemWindowGuaranteed` holds for all of it.
In `coordinator` a token is never more than a tick away, so every hint is 1 ms
and only the added millisecond is at stake. With `Unit` 17, `Second` 6, `MaxClock` 6
and no restart, no wait for a token is a whole number of nanoseconds or of
milliseconds, hints of 1, 2 and 3 ms occur, and `HintSuffices` holds (860 000
states); the other properties of the run need the larger burst. The theorem
`HintsSuffice` covers every rate of at least one token per second.
`harness` does not check for deadlock: after `MaxRuns` runs the model, not the
server, accepts no more requests. `report` does not either: a verdict is the end.

Four runs state what a document or a comment says and find it violated
(`findings` in `PROJECT.json`):

* `coordinator_realtime`: DESIGN.md says that tokens granted over *any* window
  are at most `R × window + B`. A handler that read the clock before the window
  and takes its tokens inside it exceeds that in real time. The excess is at
  most one lease per delayed handler (`StaleBound`); for the instants the
  handlers read, the bound is proved (`WindowBound`).
* `coordinator_slow`: `Load` accepts rates below 1/s, whose bucket never holds
  a whole token. Such a tenant is rejected for ever, with hints that promise a
  token. The theorem `HintsSuffice` needs exactly the opposite assumption.
* `limiter_expired`: a renewal that ends after the old grant's expiry adds to
  the expired tokens and revives them, while the comment on `expiry` says they
  are dropped. `PoolBound` and `SystemWindowBound` hold all the same.
* `harness_verdict`: DESIGN.md says that the last line of `/run` is the
  verdict; the restore goroutine can print after it.

Other differences between documents and code have no run:

* DESIGN.md bounds what a pool can strand by about 1.2 leases; with costs up to
  1000 a rejected dear request starts a renewal above the watermark, and the
  bound that holds is one lease plus the larger of watermark and cost, less one
  (`PoolBound`). The slack of `invariantCheck` is the same 1.2.
* DESIGN.md says that steady state is restored after a scenario, while scaling
  restores only when it reaches its end with its context alive:
  `SteadyRestored` asks for no more than that, and `Settled` shows that the
  next run's setup repairs it. A late `Scale` can undo a restoration.
* DESIGN.md says that the harness uses `startedMs` to detect restarts; the harness
  never reads it. `DeltaHonest` shows what that costs: a restart makes the
  reported difference too small, never too large.

What the modelling of the checks showed, also without a run. Worker-kill
compares two windows of the same run, so it passes when its kill failed
(`scenarios.go:337` only prints the error) or when nothing was admitted at all.
Scaling asks for 1.3 times the throughput of its first phase, which zero
satisfies if that was zero. The rank of a percentile rounds down: of few
samples the 99th is not the maximum. A tenant hidden in a sum is noticed
because the smallest has 11.8 percent of the load and the tolerance is 10: a
tenant of a tenth or less would not be (`PassHidesNoTenant` holds for the deployed
limits, not for all). A `duration` override below 11 makes the recovery
window start before zero.

## 4. Fairness

* `LimiterLive`: weak fairness of every goroutine (Go runs what is runnable)
  and strong fairness of time (it passes however many requests arrive at one
  instant). A healthy coordinator answers; of another nothing is assumed, so
  `CheckReturns` holds although a lease call may never return. `Recovers`
  assumes in its own statement that clients keep asking. Next to a healthy
  coordinator a round trip takes less than a tick; otherwise a lease
  could expire before each request that waits for it.
  A goroutine that has read the clock is assumed to get the mutex within the
  range of the model.
* `Driver`: weak fairness of the clock and of the goroutines taken together (Go
  does not idle while one of them can run); no fairness between them is needed,
  because each of them ends. A request in flight returns because the HTTP client
  has a timeout of 2 s.
* `Harness`: weak fairness of `handleRun` and of the fault goroutines; every
  wait has a deadline. Nothing is assumed of the controllers or the API.

## 5. Proofs

`CoordinatorProofs`, from `BucketAssumption` and `CoordinatorAssumption` (what
`Load` checks, and finitely many handlers):

* `TypeCorrect`: in particular no bucket is negative or above its capacity;
* `WindowGuaranteed`: `WindowBound`. It is not inductive, because it forgets the
  balance that can still be taken. The invariant (`IInv`) adds it: what was
  granted in the window *plus the balance* is at most the allowance up to
  `last`, the bucket's last refill, not up to the clock. A refill by an
  older reading leaves `last` alone, and this is the point at which a refill
  that followed older readings would break the proof, as its mutant breaks the run.
  Until the bucket is refilled inside the window, the balance is below the
  capacity and nothing fresh has been granted;
* `HintsSuffice`: `HintSuffices`, for tenants whose capacity holds a whole
  token. Division facts about the two truncations; the `+ 1` is what is needed.

`LimiterProofs`, from `PoolAssumption` and `LimiterAssumption`, for any number
of workers, tenants, requests and renewals and any answers: `TypeCorrect`,
`SingleflightGuaranteed`, `NoWakeupLost`, `PoolBounded`, `UnknownQuiet`,
`PacingKept`. All follow from one invariant: `GoodPool` (a renewing pool holds
less than the reserve, so the grant that will be added keeps the bound; a pool
that was never granted anything is empty), `Linked` (a renewing pool and its
renewal point to each other), and that clock readings are never in the future.
Each critical section has a lemma on the pool alone, and each action one
on the rest. The action property `ShortfallRenews` follows from the same
invariant (`ShortfallAlwaysRenews`).

Its second part, from `AccountingAssumption` as well (finitely many requests), is
about the counters: `TokensAreConserved` and
`ChecksAreAccounted` from `AInv`, which adds that a request that has not decided
has `admitted` false (what `WaitTimeout` counts). `CountingObserves` shows that
the counters only observe `Limiter`.

`SumProofs` carries all accounting. `SumFunctionOnSet` of the module
`Functions` is a recursive function on the subsets of its index set; that it
exists, what it does when one member changes (`SumSwap`, with `CardSwap` for
cardinalities), and how two sums compare when the terms of one are injected into
those of the other (`SumInjects`), is proved by minimal counterexample with the
library's `WFMin`, because an induction theorem with an operator as its parameter
cannot be used.
`Coordinator`, `LimiterAccounting`, `Driver` and `RateLimiter` therefore assume
that tenants, requests or processes are finitely many.

`LedgerProofs`, on top of `CoordinatorProofs`:

* `LedgerBalances` (`LedgerBound`), `CountersAlwaysAgree` (`CountersAgree`) and
  `StaleBounded` (`StaleBound`) from one invariant, `LInv`. Like `WindowBound`
  the ledger is inductive only up to `last` (`Balanced`); the counters need that a
  grant is never zero once its handler is past the test (`Agree`); `StaleInv`
  reserves one lease for each late handler that has not debited yet;
* `DeltaIsHonest` (`DeltaHonest`). The invariant of the scrapes (`SInv`) compares
  the running total of a scrape with the counters of the tenants already
  loaded: they have grown by at most what was served since. `ScrapeObserves`
  shows that a scrape is a stutter of `Coordinator`, so its invariants apply.

`DriverProofs`, for any number of loads, tenants, slots and seconds:

* `DriverTypes` and `PacingIsExact` from `DInv`: per load, released plus pending
  plus carried is rate times time up to `last`, the tick that was handled;
* `NothingIsRecordedLate` from `Quiet`: a load that is done has no sender, because
  `Drain` takes every slot of the semaphore first;
* `ResultsAddUp` from `Booked`: totals are the sums of the buckets, also while a
  series grows, and what was sent is answered or unanswered;
* `LoadIsAccounted` (`LoadAccounted`) from `Offered`: what the loads of a tenant
  released is sent, about to be sent or dropped. The sum over loads of one tenant
  is why `DriverAssumption` has finitely many loads;
* `SnapshotIsSound` from `Snapshot`: the partial sum is at most the sum over the
  tenants visited so far, whose buckets only grow.

`HarnessProofs`, for any number of runs, failures, late patches, phases and
replicas, from `HarnessAssumption`:

* `HarnessTypes` and `GoroutinesAreDisarmed` from `HInv`, the discipline of the
  slot: it has one holder; a run that is over, or is about to give the slot
  back, has a cancelled context; goroutines belong to the scenario that started
  them and, while their context lives, call only in the measurement;
* `WhatIsMeasuredWasAskedFor` (`Settled`), `SteadyStateIsRestored`
  (`SteadyRestored`) and `NoPodIsReplaced` (`NoReplacement`) from `CInv` as well,
  what the run with the slot may believe of the cluster. `Honest`: a status that
  is current and has the specified count is true of the pods. `Asked`: since the
  setup wrote it, a deployment is as asked for, until a fault. `Running`: since
  the wait, it also runs. `Killing`: the pods listed are all there are, and a
  deployment is scaled down before a pod goes, so the controllers never find too
  few. `Steady` and `Restored`: a run that owes the steady state has it. `Honest`
  is where the exception of section 2 came to light. TLC had checked both
  invariants on the instance of `harness`, and on three runs.

`RateLimiterProofs`, for any number of workers, tenants, requests, renewals,
handlers, lost, late and repeated calls, and kills of both processes, from
`RateLimiterAssumption` (what `Coordinator` and `Limiter` assume, the two sets
of names apart, and finitely many processes):

* `RateLimiterInductive` and `RateLimiterTypes` (`TypeOK`). Every step of the
  whole is a step of the workers, of the coordinator, or of both, so the
  invariants of the two modules hold here as they stand: `LimiterProofs` and
  `CoordinatorProofs` are instantiated and their lemmas on a single step cited.
  `RInv` adds what ties the two together (`LinkInv`): a handler that a worker
  waits for and the call of that renewal point to each other, in matching
  phases (`CallOK`, `PeerOK`), for one tenant, with an answer `Limiter` allows
  (`HandlerOK`); no two handlers work for one renewal; and a request that has
  not decided has not admitted (`Undecided`).
* `WorkersAreLimiters` (`WorkersImplement`) and `CoordinatorImplements`: each
  part behaves inside the whole as its own module says, for every reply, error,
  404, or broken call the link can make of it. All theorems on the parts
  therefore hold of the whole.
* `AlwaysBacked`, a theorem on `Budget`: what was admitted under observation,
  plus what can still be admitted, was held at first or has been drawn since.
  The invariant (`BInv`) adds that nothing is counted before somebody looks,
  without which the counters could start in debt.
* `WholeImplementsBudget` (`ImplementsBudget`): the refinement, action by action.
  What is held is the sum over handlers, calls and pools; every action moves
  tokens from one of the three to the next, spends some, or drops some, and a
  kill drops all that is in one process. `NoTokenIsForged` (`NoTokenForged`) is `AlwaysBacked` under it.
* `SystemWindowGuaranteed` (`SystemWindowBound`). The bound is not inductive, and
  the parts' bounds do not add up to it: by `PoolBound` alone a pool could be full
  while a lease is awaited, which would need two leases per worker. `DebtInv` is the invariant:
  what was admitted in the window, what is held anywhere, and one lease for each
  handler that a worker waits for and that read the clock before the window are
  at most what was granted fresh plus one lease and one reserve, less one, per
  worker. When the window opens (`OpensWithin`) this holds because every grant
  under way, and every handler owed one, has a renewal of its own, every renewal
  has a pool of its own that is renewing, and a renewing pool is below its
  reserve; the sums are compared along these injections (`SumInjects`). From
  then on every debit is fresh, paid from what is owed, or made for nobody. With
  `WindowGuaranteed` for the fresh grants the bound follows.

`ReportProofs`, for samples of any length: `PercentilesAreRanks`
(`PercentileRanks`). A sort is modelled as an order of the sample's positions;
that there is one is proved by counting, for each position, those that come no
later (`SortedOrders`). The members below the k-th and above it are then counted
by their places in that order (`RankCounts`), and the truncated index is the only
arithmetic (`RankBounds`).

Only model-checked:

* liveness (`CheckReturns`, `Recovers`, `RunReturns`, `RunEnds`): fairness is
  out of the prover's reach;
* `HealthyPasses` and `PassHidesNoTenant` of `Report`, which add up series and
  hold for the deployed limits and durations, not for all: with other limits
  the second is false, as section 3 says.

## 6. Not modelled

The command line; the layout of tables and charts; the checks of baseline,
hot-tenant and scaling, each of which compares totals with a threshold;
overrides of a scenario's parameters; the bearer token; Services and endpoint
propagation; a pod `Delete` or an `Update` that takes effect after its caller gave
up (section 2); `run.sh`, the container and the cluster's manifests. The maps of
pools and counters grow with every name a client makes up; the code has no
bound to state.

## 7. State of the project

Every safety property of the coordinator, the workers, the composition, the load
driver and the harness is proved for every value of the constants; what is
left to TLC alone is listed at the end of section 5. What could be added: a
version of `PassHidesNoTenant` in terms of the shares of the tenants, for which
limits a verdict on sums hides nobody; and the checks of the three scenarios
that section 6 leaves out.
