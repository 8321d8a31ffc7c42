# Formal models of the GenAI service layer

TLA+ specifications, TLC configurations and TLAPS proofs for the FastAPI service
in `app/`: a multi-model router with admission control, a circuit breaker with
failover, and the lifecycle tools of the course, over Redis and PostgreSQL.

The service has no message protocol of its own. What makes it hard is that every
endpoint is a synchronous handler run by a thread pool, and that each handler
writes two stores, one command at a time, with no transaction around them. Every
command is atomic in its store, every gap between two commands is a place where
another handler, a failure or a restart can come in. The models take exactly
that view: **one step is one store command of one thread** (in `Migration`,
`Reports` and `LiveReplay`, which use no store, one access to what the process keeps).

## 1. The system

| Component | Code | State it keeps | Operations |
|---|---|---|---|
| Admission control | `resilience/admission.py`, Lua gate in `db/redis_client.py` | `resilience:admitted:*`, `resilience:queue:*`, `resilience:dispositions`, `resilience:logs`; ledger rows of policy `admission_control` | `/load/submit`, `/load/spike`, reset; views `/resilience/rate-limit`, `/matrix`, `/queue`, `/dispositions`, `/admission-logs` |
| Circuit breaker and drill | `resilience/circuit.py` | locals of `run_drill`; `circuit:state`, `:timeline`, `:retrylog`, `:summary`, `:counts`; ledger rows of policy `circuit_breaker` | `/resilience/drill`, reset; views `/resilience/circuit`, `/fallback`, `/retry-log`, `/failover-reconcile` |
| Weighted routing | `routing/weighted.py`, `main.py` 206-261 | `routing:seq`, `routing:counters`, `routing:last_batch`; ledger | `/route/batch`, `/routing/validate`, reset |
| Payload routing | `routing/payload.py`, tables in `providers/registry.py` | `smart:counters`; ledger | `/route/smart` |
| Mixed batch, disposition | `main.py` 343-429 | `mixed:counters`, `mixed:last_batch`; ledger | `/route/mixed`, `/routing/disposition` |
| Baseline routing | `routing/router.py` | ledger | `/route` |
| Providers and conditions | `providers/*` | `provider:condition:*` | probe |
| Migration | `lifecycle/migration.py` | one unsynchronised dict in the process | deprecate, complete, receipt |
| Prompt lifecycle | `lifecycle/prompts.py`, `prompts/registry.yaml` | `_STATE` of the process; the registry on disk | run, seven views; an operator edits the registry |
| Validation gate, canary | `lifecycle/validation.py`, `lifecycle/canary.py` | `_STATE` of each | run, views |
| Readiness | `lifecycle/readiness.py` | `_STATE` with the injected p95, built on first use | run, inject, alert, views |
| Observability, incident | `observability/observe.py`, `incident/diagnose.py` | `_STATE` of each, one span store, the event log | run, views, `/metrics` |
| Live replay | `observe.py` 170-297, `observability/*.yml` | the incident clock, `_REQ_TOTAL`; Prometheus' rules | `/live-metrics` |

Interaction. All components share one Redis, one PostgreSQL table (`receipts`)
and one process. `POST /admin/reset` truncates the ledger and then clears each
component's keys, one DEL per component. On start-up the service resets the smart,
mixed, admission and circuit keys, best-effort (a store that is down is skipped),
and keeps the ledger and the weighted keys. The modules of the last six rows use no
store: they keep dictionaries of the process, which a restart empties.

What is hard to get right, and what must hold:

* *Admission.* Racing requests must not pass a limit; nobody may wait while an
  immediate admit is free; queue, counter, ledger, tally and log are four separate
  writes that must agree up to the requests in flight; a spike must report its own
  run and no other; a view that reads two stores must not contradict itself.
* *Breaker.* Counters must agree with the state; retries must have a budget over
  an outage; a healed primary must be taken back; a drill that died half-way must
  never be shown or reconciled as a finished one.
* *Routing.* The split must be exact at multiples of ten under concurrency; a
  number drawn and never counted is lost for ever; CONFIRMED must mean that each
  routed request has exactly one receipt, though it is computed from five reads.
* *Migration.* Plain Python globals read several times in one handler.
* *Reports.* A report is replaced while others read it; two readings of the prompt
  registry must be of one release; an injected breach must fire until the process
  restarts, whatever is rebuilt in between; a rounded exposure must not let more
  traffic through than the gate says; numbers derived twice must agree.
* *Live replay.* Alerts must fire, in the order of the timeline, though scrapes are
  lost or late and each rule has a hold time; markers are open for ten seconds only.

`PROJECT.json` lists each of these hazards at its line with the properties that
cover it.

## 2. Modules

| Module | Models | Role |
|---|---|---|
| `AdmissionGate` | what admission promises: each tier owns a strip of numbered tickets | abstract specification |
| `Admission` | threads in `submit_one`, `run_spike`, `admin_reset` over the stores | detailed specification |
| `AdmissionViews` | the GET handlers of admission, read by read | composition with `Admission` |
| `AdmissionProofs` | types, safety of the gate, refinement; ledger, tally, log, spikes and views | proofs |
| `Breaker` | one pass of `run_drill`'s loop as operators | shared by the next two |
| `CircuitBreaker` | the breaker over a whole script | specification |
| `CircuitBreakerProofs` | invariants of the breaker | proofs |
| `CircuitDrill` | threads in `run_drill` and `admin_reset` over the stores | composition: each thread steps as `CircuitBreaker` |
| `CircuitViews` | the GET handlers of the drill, read by read | composition with `CircuitDrill` |
| `CircuitDrillProofs` | refinement of the breaker, ledger, reconciliation and views of the drill | proofs |
| `RoutingPolicy` | weights, weighted sequence, smart decision, validation, the CONFIRMED test | pure operators |
| `Routing` | threads in the routing endpoints, the disposition and `admin_reset` | composition of all routing policies over one ledger |
| `RoutingProofs` | types, account of the sequence numbers, the split | proofs |
| `RoutingLedgerProofs` | ledger against counters, the disposition | proofs, on top of `RoutingProofs` |
| `Migration` | threads in `complete`, `migration_receipt` and `deprecate` over the shared `_MIG` | specification |
| `MigrationProofs` | inductive invariant of the route swap | proofs |
| `Incident` | trace stages, dashboard panels and alert timeline of the incident | pure operators, shared by the next two |
| `LiveReplay` | `/live-metrics` on threads, the clock, Prometheus' scrapes and alert rules | specification with fairness |
| `LiveReplayProofs` | types, order of the alerts, markers, gauges, total | proofs |
| `Telemetry` | what `run_observe` and `run_incident` compute | pure operators |
| `ReleaseGates` | what `run_validation`, `run_canary` and `run_readiness` compute | pure operators |
| `Reports` | threads in the run, view, inject and alert endpoints of the report modules | composition of `Telemetry` and `ReleaseGates` |
| `ReportsProofs` | views, alert, gates, registry reads, span store and reconciliation of the reports | proofs |
| `MC_*` | small instances | constants for TLC |

How code becomes actions. `pc[w]` is the place of thread `w` in its handler and
names the store command that comes next; `job[w]` (or `run[w]`, `local[w]`) holds the
handler's locals. A call takes an idle thread and puts it at its first command. An
action is named for the function of the code that issues the command, and includes
what the handler does in Python before the next one. `Fail(w)` is a store that raises:
the caller gets a 500, what was written stays. `Restart` drops all threads and takes
the start-up resets, or as many of them as Redis answered.

An operator named `Op_Variant` is never part of a specification. It is a plausible
bug in `Op` (a dropped guard, a counter that is not reset, two writes swapped) and
exists so that one can see the matching property fail.

Abstractions. A request id is a number never used before. Prices, token counts,
latencies, quality scores, wording and sample lists decide nothing in the routing,
admission and drill handlers and are left out. `Routing` keeps how many rows of each shape
the ledger has (`Receipts` numbers them), because its endpoints only ever count. Reads whose result
decides nothing (the provider condition while routing) are not steps; a failure in
them is a `Fail` at the command that follows.

`AdmissionViews` and `CircuitViews` add one reader. One is enough: a view writes
nothing, so two readers cannot affect each other. Its answer ends the behaviour,
which keeps the state space small and loses nothing, since every prefix is there.
`/resilience/dispositions` is followed for one fate at a time, with counts told apart
up to two, because the code shows at most two samples of each. Reading the queue asks
for 25 ids; the shipped capacities are 20, 10 and 4, so the list is never cut.

`Migration` keeps every request list ever made in `lists`, the current one last:
`deprecate` drops the old list from the dictionary, and a thread that has loaded it
still appends to it or counts it. The rows' measurements are the same constants in
each row, so an aggregate only tells whether the list was empty.

In `Reports` a step is one access to shared state: a span that ends in the store all
traces share, a read of the registry file, a read or an update of `_STATE`. The
numbers are the ones in the code, in integer units (milliseconds, tenths of a
percent, units of 0.0001 dollar); the histogram of `/metrics` is the latencies it
counted. What is modelled is how each is *derived* (sums of stages, percentiles,
Python's `round`, `ceil`), so that a property can compare two derivations of
one number. The result hash of a prompt run is the version it was computed from. An
operator's edit of the registry is one write of one file. `PublishObserve` takes the
lines that a run writes to the event log with the update of `_STATE` that follows them:
`emitted` only grows and nothing in the process reads it. All runs of a module compute
the same report from the same settings, so of two reads that a run overtakes only the
presence of a key can differ, never its value.

In `LiveReplay` time passes in ticks of 2.5 seconds. Prometheus starts a scrape and an
evaluation whenever its interval is over: a tick never lets one slip. An alert is
pending for the hold time before it fires, and both forget everything when the
condition is false at one evaluation. A scrape that fails, or that outlasts the
interval, leaves stale series, for which no condition holds. The request total takes
three steps of its handler, as in the code: a load, a store, and a second load of the
global for the counter that the scrape exports.

History variables (`replies`, `reports`, `alone` in `Admission`; `spent`, the attempts
paid before each request, in `CircuitBreaker` and `CircuitDrill`; `ops`, `since`,
`lost`, `stray`, `extra`, `seen`, `reports` in `Routing`; `calls`, `replies`,
`receipts` in `Migration`; `seen`, `last`, `late`, `calls`, `overlap` in `LiveReplay`;
`emitted`, `lastP95`, `answer` in `Reports`) record what happened so
that a property can speak of it. No guard reads them except the bounds, which
limit the number of calls, ids, resets and failures.

## 3. What the runs check

`CHECK_DEADLOCK FALSE` appears in the runs that bound their calls: the service is idle
when its callers stop. `live` has no end and is checked for deadlock.

**`admission`** (3 threads and a reader, two tiers with limit/capacity 1/1 and 1/0, 4
requests, one failure or restart). `BooksBalance`: limiter, queue, ledger, tally and
log agree up to requests in flight, and a failure leaves only the earlier store
ahead. `RepliesTraceable`: an answered request is found in ledger, log and, iff
delayed, in the queue. `ViewsConsistent`: a view whose two reads have requests,
failures and restarts between them still shows no id twice, no fate without samples,
and no log event without its receipt. Three threads are the least that let one
request overtake another while a third fails; two tiers show that keys are not
mixed; capacity 0 is the boundary at which the script must reject at once.

**`admission_resets`** (2 threads, one tier 1/1, 4 requests, spikes up to 3, two
resets, one fault, 1.4 million states). `JudgedAgainstOneState` holds whatever resets
interleave. `SpikeMatchesMatrix` and `SpikeEvidenceIsFresh`: an undisturbed spike
reports the row `/resilience/matrix` projects, after any wreckage earlier handlers
left. `GateSpec`: the refinement of `AdmissionGate`, which carries the limits of the
gate. A spike of 3 crosses both boundaries of the tier.

**`circuit`** (threshold 2, cooldown 2, 3 attempts, all 1024 scripts of ten
requests). `StateAgrees`, `StormBound`, `TripNeedsRunOfFailures`,
`RecoversWithinCooldown`, and `OutageBudget`: over an outage of any length the primary
sees the retries of `threshold` requests and then one probe per cooldown. The small
constants let a script hold several trips, failed probes and recoveries.

**`drill`** (the shipped script and constants; drills and admin resets one after
the other, four of them, two faults, and a reader at any moment). `LedgerIsOneRun`;
`ConfirmedIsOneDrill`: a reconciliation says CONFIRMED only of a ledger that held all
rows of one drill when it was read; `QuietViewsAgree`: a view that nothing disturbs
and that finds a summary shows one run, whatever died before; `ThreadsRunBreaker`:
each drill thread's locals move as `CircuitBreaker` says, so what is proved of the
breaker holds of each drill. With `Serial = FALSE` two drills overlap and
`LedgerIsOneRun` fails: nothing in the code keeps a second drill out, and the ledger
then holds the rows of both.

**`routing_weighted`** (2 threads, batches of 3 and 7, admin resets at any moment,
three calls, one fault, 1.6 million states). `SequenceAccounted`: each sequence
number is counted once, on its own tier; only a death between INCR and HINCRBY
loses one, and a reset in that gap leaves at most one extra count per other thread.
`SplitNeverDrifts`: between batches no tier is a whole request off its share.
`TensValidate`: `/routing/validate` matches at every multiple of ten. Batches of 3 and
7 reach totals on and off the tens and wrap round the sequence (3 x 7).

**`routing_disposition`** (2 threads, all routing endpoints, three writing calls and
any number of dispositions, one fault; an admin reset runs alone, as between two
demos; a mixed batch of one request per kind, 1.8 million states).
`ConfirmedIsOneWholeBatch`: CONFIRMED is answered only if at some moment of the call
the ledger held one receipt per request of one finished mixed batch and no other
row - although the five reads are not one snapshot. `CleanRunConfirms`: after a
reset, one mixed batch is confirmed. `LedgerCounted`: no counter of a policy ever runs
ahead of its receipts, whatever fails or restarts, and where nothing failed since the
last reset each receipt is in exactly one counter or about to be. What fails between the
two writes leaves a receipt without a count, which nothing repairs before the next
reset. The batch is shorter than the shipped 10/4/2 because the
properties compare counts per kind and never use their size. With
`CleanResets = FALSE` a reset under a running batch makes `LedgerCounted` and
`ConfirmedIsOneWholeBatch` fail: the result depends on resets that overlap nothing.

**`migration`** (2 threads, 3 models, swaps a to b, b to c and b to a, two swaps,
three calls, a restart at any time, 1.03 million states). `MigratedIsRecordedOnce`:
a caller told that it was migrated has exactly one row, in a list that was current
during its call. `RowsNameSwapsInForce`: a row's two names come from swaps in force
during the call, in order. `ReceiptNamesSwapsInForce`: a receipt reads its list first and
the two names last, so a swap in between may give it the names of a later swap than the
one it counts, or of two swaps; but each name was in force during the receipt, the
retiring one no later than the replacement. `VerdictFollowsCount`: a receipt's verdict and count stay consistent while
rows are appended. Two swaps let a completion match one swap, serve from the next and
land in the list of either, and let a receipt straddle both; three calls are two
completions and a receipt, in any overlap on two threads. What does *not* hold is
as instructive: a first row appended between `n = len(reqs)` and the contract test
makes a receipt that says MIGRATED with 0 requests, and a completion that straddles
a swap may record the names of two swaps, or add its row to a list no receipt will
read again.

**`live`** (two threads, the shipped timeline of fires at 30, 70, 120 and 160 s, a
scrape and an evaluation every 5 s, one restart, two lost or slow scrapes).
`AlertsFireInOrder`: an alert fires only while all earlier ones of the timeline do,
through losses and a restart. `EveryFireMarked`: while good scrapes are at most ten
seconds apart - which one lost scrape at a five-second interval allows - each fire
leaves its marker. `GrafanaMatchesTerminal`: the gauges, written by hand, equal the
numbers the terminal derives from its trace. `TotalCountsScrapes`: neither
the unlocked total nor the counter a scrape exports is ever above the number of scrapes;
without overlap both are exact, so the exported counter only goes up. Scrapes that
overlap may be lost and may set it back. `AllFourFire`, the liveness
property: in the end all four alerts fire and stay. Bounds: the hold time is 12 ticks
(30 s) instead of the shipped minute, which is still six evaluations and longer than
two lost scrapes. Only a scrape that Prometheus waits for may outlast a tick
(`Prompt`); a handler for another visitor ends before time moves. The
total is counted up to 2, enough to see a lost or a double increment.

*Fairness.* Weak fairness on `Tick` (time passes), `Evaluate` and `StartScrape`
(Prometheus' timers), and on the steps of a handler that runs (the pool schedules its
threads, and no step of the exposition blocks). Visits, restarts and lost scrapes are
not fair, and there are finitely many: with endless restarts the clock would begin
again for ever and nothing could be promised. No liveness is claimed elsewhere:
handlers are finite straight-line code and nothing consumes the admission queue
(`registry.py` says the counter is reset-only). `RecoversWithinCooldown` is the
breaker's progress promise stated as a bound, which is stronger than "eventually".

**`reports`** (2 threads, three handlers, four traces, two edits of the registry, one
restart that may come up with other tables, 2.7 million states). `EndpointsAnswer`:
after a run each view has its section, for readiness also before any run.
`AlertFollowsInjection`: the alert speaks of the last injection, which survives a new
run and a lazy build on another thread and not a restart. `ReportsReconcile`: the
numbers of the two reports agree with each other and with the spans in the shared
store, and every event in the log is one that the report shows. `ConfirmedNamesOneRelease`: a prompts run reads the approved release once,
replays it, and is BLOCKED exactly if a promotion or rollback overtook it; all receipts
of the published report name that one release. `GatesHoldTheLine`: nothing below a bar is
eligible; the canary takes the least number of requests that makes its share, and what
its receipts show is what its rollback would touch; a share that divides the window
evenly passes; only a canary that passed is eligible or CONFIRMED. That PASS means "not
above the share" is not true in general: see `canary_exposure` below. Tables: the shipped ones; candidates exactly on every bar and one unit
off; windows of 19 and 8 requests whose share rounds (one of them a half, to even),
of 3, whose single canary request is a third of the traffic, and of 1, where a lane is
empty and the run raises. Three handlers let a run, an injection and a reader overlap
in any order on two threads, or two runs race for the span store.

Three runs end in a **violation**; each states a sentence of the repository:

| Run | Property | What happens |
|---|---|---|
| `admission_quota` | `BlockedIsANumber` | `/resilience/rate-limit` subtracts one tier's admits from all tiers' arrivals (`main.py:502`), so another tier's request appears as a blocked call |
| `admission_trace` | `QueuedIdsTraceable` | a spike resets Redis, then clears the ledger; a request queued in between keeps its place and loses its receipt |
| `canary_exposure` | `ExposureNeverExceeds` | the share counted from the receipts is rounded before it is compared (`canary.py:111-112`): 3 of 29 requests are 10.3%, and the receipt check says PASS for a limit of 10%. The shipped window of 50 divides evenly, so the demo never shows it |

## 4. What is proved

Every property of the passing runs is a theorem for every value of the constants,
except the one liveness property (see the end of this section).
The bounds of the runs are constants like any other, so a theorem holds with no bound
that matters.

An invariant about handlers is seldom inductive alone: it speaks of what is in the
stores, and what comes next depends on what each thread already holds. Each proof
therefore states what a thread's locals are at each of its places, and what is still to
be written from there. Those are the invariants named below.

**Assumptions.** The `ASSUME`s of the modules, which TLC evaluates in the runs: limits,
capacities, thresholds and bounds are natural numbers, at least 1 where the code divides
by them or loops up to them; a thread pool is finite (`FinitePool`) and, in `Routing`, not
empty, because the extra counts of a reset are bounded by the *other* threads; the
drill script and the mixed batch are not empty, as the shipped ones are not; the release
that the registry ships as approved is one of its versions. Two families
have a hypothesis of their own, which the run of the same property makes too. `Serial`:
callers wait for a drill or reset to end before they start the next. `CleanResets`: no
other routing handler overlaps a reset. Section 3 says what fails without them.
`Serial` and `CleanResets` are constants of the specification; a theorem
`CleanResets => (Spec => []P)` is about the instances where it is TRUE, and every other
theorem covers both values.

**`AdmissionProofs`**

* `TypeCorrect`: `Spec => []TypeOK`.
* `GateIsSafe`: `WithinLimits`, `QueueOnlyWhenSaturated` and `JudgedAgainstOneState`.
  The inductive invariant `GateInv` is their conjunction with `TypeOK`: that the queue
  is non-empty only at the limit is what makes an accept's logged depth 0, and that the
  counter never passes the limit is what turns the script's "at least the limit" into the
  logged "exactly the limit".
* `GateRefined`: `Spec => GateSpec`. The map sends a tier to
  `admitted + length of its queue` and a thread to the fate it holds. The script's
  three branches are the three classes of ticket only because of `GateInv`; a reset
  renews all strips; everything else stutters or gives a verdict up.

* `BooksAlwaysBalance`: `BooksBalance`. `Apart` says that ids are unique, and that a
  thread about to insert finds no row of its id; `Books` restates each balance over the
  two sets that one step changes by one member (the rows of a fate, the threads about to
  write one), so each store command moves one request from one side to the other.
* `RepliesTraced`: `RepliesTraceable`, from `Trace`: a thread past its insert has its row,
  every logged event has its row, a request waits exactly if its thread was told so, and
  no id waits twice.
* `ViewsAgree`: `ViewsConsistent`, from `ViewInv`: the first read of a view is a lower
  bound of what the second finds, as ledger and queue only grow without a reset.
* `SpikeIsItsRow`, `SpikeIsFresh`: the two spike properties, for spikes of any size. A
  thread that is alone (`Undisturbed`) has exactly its own requests in the limiter
  (`GateOf`) and in the evidence (`EvidenceOf`), up to the one it holds.

**`CircuitBreakerProofs`**, for every script

* `TypeCorrect`, `BreakerAgrees`, `NoRetryStorm`, `CallersServed`, `TripsJustified`,
  `RecoveryBounded`. `CircuitInv` strengthens them with two facts about the past: the last
  `failures` requests of a closed circuit were failing and handled closed (without it
  nothing is known of the requests before a trip, `FailuresWitnessed`), and the request
  that opened an open circuit, `probes` requests ago, was failing (`OutageWitnessed`; hence
  a healthy run longer than the cooldown cannot end with the circuit open).
* `OutageBounded`: `OutageBudget`. `BudgetInv` holds for an outage that began at *any*
  request, also the next: a closed circuit has retried each request of it; an
  open one has retried at most the threshold and probed some number of times, and
  `retried + (cooldown + 1) * probed + probes` is at most the length of the outage and one
  cooldown. The last cooldown is there because an outage may find one half over. The
  attempts since a request are `attempts - spent[i]`; `spent` exists for this property.

**`CircuitDrillProofs`**, for every script and number of threads

* `ThreadsRefineBreaker`: `Spec => ThreadsRunBreaker`, so the theorems about the
  breaker hold of the locals of each drill, whatever the others do. Only types are needed.
* `LedgerNeverMixes`: `LedgerIsOneRun`. `LedgerInv`: the ledger is the log of the drill in
  its loop, else of one drill, and it is empty when a loop begins.
* `ConfirmedIsOneRun`, `QuietViewsShowOneRun`. `EvidenceInv`: a summary comes with tally,
  timeline, retry log and ledger of one run (`WholeRun`), only the ledger may have been
  emptied since; `DrillEvidence` says which of them a drill has written at each place.
  `ViewInv`: what a view read is still there while nothing disturbs it. CONFIRMED
  needs no quiet: a ledger with as many rows as the summary has requests is a whole run.

**`RoutingProofs`**

* `SequenceIsAccounted`: `SequenceAccounted`, with resets at any moment. `RoutingType` says
  what a handler's locals are at each place, `NumbersInv` that no two handlers share a
  record. `AccountInv` adds the share of each tier in the first n numbers (`DrawnInv`) and
  that a thread whose number a reset made stray still holds it (`StrayInv`).
* `SplitHolds`, `TensAlwaysValidate`: `SplitNeverDrifts`, `TensValidate`. With nothing lost
  or extra the counters are the shares of `DrawnInv`, and a share is a closed form in
  n div 10 and n mod 10. That the shipped weights give the ten slots of `FirstTen` is
  proved too, slot by slot.

**`RoutingLedgerProofs`**, all under `CleanResets`

* `ConfirmedIsWhole`: `ConfirmedIsOneWholeBatch`. A handler's receipts are its own
  (`RowsInv`), a mixed batch has tallied what it inserted (`TallyInv`), a stored summary
  is of a whole batch (`BatchInv`), and a disposition that holds a summary has either seen
  that batch alone or will find more rows than the summary has (`ReadInv`): the ledger only
  grows while a call is open, so the total, read after the summary, decides.
* `LedgerIsCounted`: `LedgerCounted`; each command moves a receipt from the threads about
  to count it to a counter (`BalanceCount`), a thread that dies in between leaves the ledger
  ahead (`BalanceLost`), and a restart only drops threads and tallies (`RestartCounted`).
* `CleanRunsConfirm`: `CleanRunConfirms`. `SinceInv` follows the one batch after a reset: at
  each place ledger and counters are its tally, up to the receipt in hand. `AloneInv`: a
  reset is alone and what it has cleared stays empty.

**`LiveReplayProofs`**, for every tick, interval, hold time and number of threads

* `TypeCorrect`; `AlertsInOrder`: `AlertsFireInOrder`, from `AgesInv`: a rule that is true
  has been true no longer than any earlier one, because the gauges of a later fire include
  those of an earlier one (`SampleInv`: what Prometheus holds is the exposition of
  one moment).
* `GrafanaAgrees`: `GrafanaMatchesTerminal`. `MarkersComplete`: `EveryFireMarked`, from
  `MarkersInv`: windows do not overlap, so two good scrapes no further apart than a window
  cannot both miss it.
* `TotalHonest`: `TotalCountsScrapes`. `NeverTooMany`: a total loaded by a
  handler leaves room for all handlers yet to count; `ShownInv`: what a scrape has taken
  for its counter was the total at that moment. `NeverTooFew`: without overlap one
  handler runs and the total is behind by it.

**`MigrationProofs`**, for all sets of threads and models, all swaps

* `TypeCorrect`, `RecordedOnce`, `NamesInForce`, `ReceiptNamesInForce`, `VerdictsFollow`. The
  properties speak of finished calls; `IInv` adds what the calls under way hold.
  `JobsInForce`: the names a completion remembers were in force since it began.
  `RowsNumbered` and `CallsApart`: the number of a call under way is in no row and no
  answer, and no two threads share one, so the row it appends is its only one.
  `DraftsAreOld`: what a receipt has read was true of a prefix of its list; since lists
  only grow (`Grow`), a list once seen non-empty stays so. A restart is the initial state
  but for the call counter.

**`ReportsProofs`**, for every pool, table of settings, set of latencies and registry

* `ReportsSafe` is the invariant of the first four. `ThreadsOK` says what a thread's locals
  are at each place; `ReportsInv` that each dictionary is empty or the report of a run
  on the current settings, and a canary report exists only if its window did not raise;
  `ReadinessInv` that a thread past `state()` finds the report, and that the injected p95 is
  the last one (an injection cannot come before the report, so a dictionary with an
  injection and no report never exists, and the lazy build is never skipped); `LogsHeld` that
  a thread which has read logs will find the number they were drawn from.
* `EndpointsAlwaysAnswer`: `EndpointsAnswer`. `AlertAlwaysFollows`: `AlertFollowsInjection`.
* `GatesAlwaysHold`: `GatesHoldTheLine`, for every table of candidates, window and
  share. `LeastShare`: rounding up gives the fewest requests that make the share.
  `RoundedWithin`: what is not above a whole number is not rounded above it. `LanesAre`:
  a window that does not raise has both lanes, and the counts of the two are its parts.
* `ConfirmedReleaseIsOne`: `ConfirmedNamesOneRelease`, an action property: only the two
  reads of the registry take a thread towards its report (`OnlyReads`), and only the thread
  that computed a report publishes it (`OnlyPublish`).
* `TracesStayWhole`: `TracesInv`. A trace under construction (`Open`) holds the first spans of
  its list, laid end to end up to the cursor, and no other thread has its id; a finished one
  (`Closed`) is whole and under construction nowhere, so no later step touches it (`Kept`).
  Reports name closed traces only.
* `ReportsAlwaysReconcile`: `ReportsReconcile`, from `TracesInv`, from `EventsInv` (the
  log is empty or that of the report shown) and from the numbers of the fixed
  population, each computed by a lemma (`P95Is`, `LogsAre`, `IncidentCosts`, `Shares`,
  `PanelsBreach`). The running sum of a trace is recursive: for each of the three
  lists its values are given in full and shown to satisfy the recursion (`OffsetChosen`).

`WithinLimits`, `QueueOnlyWhenSaturated` (parts of `GateIsSafe`) and
`EveryCallerServed` (`CallersServed`) are proved for every value of the constants and
are not repeated in a run.

**Written so that it can be proved.** Counts of rows (`Routing`), of attempts in a log
(`CircuitDrill`) and of draws are cardinalities of sets, and sums over children
(`Incident`) a recursive function: the provers have facts about finite sets and
none about folds.

**Only model-checked.** `AllFourFire`: liveness, which needs fairness and ENABLED. Out of
the prover's reach besides: induction over data. The values of the weighted sequence are
proved up to its fixed length of ten, slot by slot, and the sums of a trace for the three
lists of the service; what a sequence of weights or a list of stages in general
gives stays with TLC.

## 5. What is not modelled, and the plan

Not modelled:

* Provider adapters and conditions. An adapter is a pure function of its condition,
  and `set_condition` has no caller in the service: every condition is healthy.
* `scripts/fmt.py`, the demo and preflight scripts: text and shell drivers.
  `scripts/workload_decision.py` repeats the decision rule of `run_readiness`, which is in
  `ReleaseGates`; the script itself is not modelled.
* Request parsing, `/health`, and `/routing/smart-validate`, which calls the routing
  decision on a table and keeps no state.
* The OTLP exporter, whose spans leave the service; that the span store is never
  trimmed (a test would need days, a model has no memory limit to compare with).
* Of the infrastructure: containers, Grafana panels, and the availability rule, whose
  ratio is 1 whatever is scraped.
* The wording of reports. Three verdicts are fixed words in the code whatever the
  numbers say: `promote_to_candidate_default` of the validation, `PROMOTE` and
  `ROLLBACK` of the canary. They are fixed words in the model, and no
  property reads them.
* The comment at `observe.py:363-365`, that a request's log has a verdict only if it was
  sampled, holds of the logs that the report keeps (`ObserveReconciles`), not of the events
  written to the log: `_structured_log` writes the verdict it is given (`observe.py:270`),
  and `run_observe` looks up the sampled one afterwards (`observe.py:375-376`), so the event
  of `req-4f18c0a7d2b9` says "pass" and the report "not_sampled". `EventsReconcile` states
  what does hold; the comment's sentence has no run of its own.
* The runbook has two latency thresholds: it scales out above 2000 ms
  (`readiness.py:194`), the alert compares with 2500 ms (`readiness.py:25`), though
  `docs/runbook.yaml:3-6` says that the evaluator reads the thresholds there. The model
  keeps both numbers and follows the code.

Next:

1. What the repository says of drills and routing batches that overlap resets (`Serial` and
   `CleanResets` FALSE): weaker properties that hold without the hypothesis.
2. The breaker's recovery as a liveness property of `CircuitDrill`, beside the bound that
   `RecoversWithinCooldown` states.

## 6. Running

```
tlc -config admission.cfg MC_AdmissionViews     # likewise for the other runs
tlapm AdmissionProofs.tla                       # likewise for the other *Proofs
```

Each module of proofs takes a few minutes from nothing. The leaves leave room for a slower
machine: they also pass with `tlapm --stretch 0.25`, a quarter of the time limits.
