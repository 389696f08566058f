# trailmarked: specifications, model checking and proofs

TLA+ specifications of trailmarked: the discovery of a workflow, its way
through the outbox and the event log to a compiled version, its replay on the
bank with idempotency keys and a circuit breaker, the hand-over of a failed
replay to a human, and the read side that shows all of it.  TLC checks them on
small instances (`tlc -config X.cfg M`), TLAPS proves the safety properties for
every instance (`tlapm M_proofs.tla`).  `PROJECT.json` maps every definition to
the lines it models, and lists the runs, the theorems and the hazards.  Paths
below are relative to the repository (`src/` left out); a line number without a
path is in the file named before it.

## The system

Services are gRPC servers, each with a pool of worker threads and a SQLite file
of its own (the registry's is shared by two processes).  One connection is
shared by a service's handlers; the circuit breaker, the outbox dispatcher and
the projector have further ones.

| component | state | operations | interacts with |
|---|---|---|---|
| transactional outbox, `shared/outbox.py` | table `outbox` of each producer | `enqueue`, `dispatch_once`, background poller | calls the event log's Append; called by handlers, by its thread, and by `_flush_and_stop` |
| event log, `services/event_log/` | tables `events` (offset per topic, unique dedupe key), `consumer_offsets`, `dead_letters` | Append, Fetch, CommitOffset, DeadLetter, StreamTopic | called by everybody |
| replay runtime, `services/replay_runtime/server.py`, `store.py` | `replay_runs`, `_live_sessions` (in memory), outbox | SubmitReplay, ActOnLiveSession, ReleaseLiveSession, two getters | registry, event log, escalation saga, a browser |
| circuit breaker, `services/replay_runtime/circuit_breaker.py` | `circuit_breakers`, a lock | `before_run`, `record_success`, `record_failure` | used by SubmitReplay |
| executor, `services/replay_runtime/executor.py` | none beyond a run | `run`: locators, retries, checkpoints | the browser, and through it the bank |
| mock bank, `mock_bank_app/` | members, sub-accounts and a number per tenant (in memory) | its pages, the POST of the sub-account form | browsers of discovery and replay |
| escalation saga, `services/escalation_saga/` | `sagas`, `human_actions`, outbox | RequestIntervention, ClaimSession, RecordHumanAction, ReleaseControl, two getters | called by the replay runtime and by the REST API, calls the replay runtime back |
| discovery plane, `services/discovery_plane/` | outbox | `execute` (perceive, plan, gate, act), planner, actor, CLI | an LLM, a browser, event log |
| registry: compiler, versioning, overlay, server | `capabilities`, `tenant_overlays` | CompileCapability, ResolveForTenant, three getters | reads the event log; called by SubmitReplay |
| registry: projector, store, GraphQL | `runs`, `run_events`, confidence columns | `project_once` in a thread of the gateway | consumes three topics; read by the dashboard |
| registry: gateway, REST | none | one endpoint per operation, an SSE stream | every service |
| rate limiter, `shared/rate_limit.py` | one deque of times per key, a lock | `check` | used by `invoke_capability` |
| safety, schemas, correlation ids, `shared/` | none | allowlist, redaction, data classes | discovery |
| dashboard, launcher, prompt, CLI | none | display and start-up | |

What is hard about it, and what makes each part correct:

* **Outbox and log.**  The poller and a handler publish the same rows at the
  same time; an append may take effect although its caller saw it fail; the
  process may die between the append and the mark.  Each committed row must
  appear once, those of a correlation in order, none may be lost.
* **Circuit breaker.**  Its lock is held inside each method and not between
  `before_run` and `record_*`, so runs report in any order, after the trip too.
  State and counter must agree, the cooldown must hold and must end.
* **SubmitReplay.**  Some fifteen transactions and RPCs in a row, with no
  lock around them, retried by callers.  One key must mean one execution and
  one answer; the outcome must not be visible before its evidence; a browser must
  not be left without a saga, which is not what the code does (below).
* **Escalation.**  Two processes and the browser's worker thread; requests
  of several operators overlap.  Nothing may be done to the page without an
  audit row, or after control was given back; the browser must be closed.
* **Projector.**  At-least-once consumption with a counter that is not keyed by
  the event, of topics that are read one after the other, by a thread that an
  exception ends.  Nothing may be skipped, and the confidence of a version must
  not look better than its replays.
* **Registry.**  Two compiles of one capability number their versions in two
  steps; a lost race leaves a transaction open.  Numbers and labels must be
  right all the same, and a label must tell the caller of an old version what it
  can rely on, since the latest one is served whatever its label.
* **Executor and bank.**  Retries of an action that may have taken effect, on a
  page that changes when it likes and on which the wrong thing may match; ids from
  a counter without a lock.  What is reported must be true at the bank.
* **Discovery and compiler.**  A run ends in seven places, on a page that moves
  by itself; its events share a table and a batch with those of other runs, and may
  be late, lost or cut off when they are compiled.  No artifact may contain what did
  not succeed, and none may lack a step silently.
* **Gateway.**  Nested RPCs without deadlines over fixed pools, and a limiter
  whose times are read outside its lock.

## Modules

```
Delivery  <---implements---  Outbox  <-- MCOutbox, Outbox_proofs
   ^ D!
Discovery --EXTENDS--> Compiler          <-- MCDiscovery, Discovery_proofs
CircuitBreaker  <-- MCCircuitBreaker, ReplayRuntime_proofs
      ^ EXTENDS
ReplayOnce  <---implements---  ReplayRuntime  <-- MCReplayRuntime, ReplayRuntime_proofs
EscalationSaga  <-- MCEscalationSaga, EscalationSaga_proofs
MockBank <--Bank!-- Executor  <-- MCExecutor, Executor_proofs
Projector  <-- MCProjector, Projector_proofs
Registry   <-- MCRegistry, Registry_proofs
RateLimiter <--Limiter!-- Gateway  <-- MCGateway, Gateway_proofs
```

Definitions whose comments begin with "Mutant" are plausible bugs; no
specification uses them.  Each is substituted for the definition behind it to
see that the property notices.

**Outbox** models `outbox.py` with `EventStore.append` and the RPC between.
`status` is the table, `log` the topic, `batch[d]` what is left of the rows that
dispatcher `d` has selected, `pc[d]` where it is in its loop, and `inflight` the
requests the log has not acted on, the abandoned ones included.  `Enqueue` is
the commit of a row, `Select` the SELECT with its ORDER BY and LIMIT, `Send` and
`Serve` the two halves of Append with its dedupe key, `Mark` the UPDATE, `Reject`
and `Fail` the `except` branch (the log refuses the row; the call fails, before
or after it took effect), `Abort` an exception that nothing catches (the SELECT, or
the UPDATE of the `except` branch, `outbox.py:103`: a handler's call ends, the
poller's thread is gone), `Crash` a restart of the producer.  Rows are numbered by
`created_at_ms`, which `enqueue` takes before its caller commits (`outbox.py:53`): the
handlers of one correlation run in different threads (`escalation_saga/server.py:60,
72, 82`), so rows are committed in any order.  `ahead`, `failed` and `due` are history
variables: which rows of its correlation were committed before a row with an older
stamp, whose append has failed, and what a foreground flush found pending.
**Delivery** is its promise: accepted rows are logged once, behind those that were
ahead of them; a row may be overtaken when its append has failed, because the
loop goes on with the next row (`outbox.py:101-104`).

**CircuitBreaker** has one action per method, as each runs under the lock;
`BreakerAbort` is a handler that raises in between, `BreakerRestart` a restart (the
table is kept).  `cool` is `cooldown_until_ms - now`.  `stale` and `rescued` are history:
which runs were under way at the last trip, and whether one of them has
succeeded since.

**ReplayRuntime** has one action per transaction, RPC or use of the browser
of `SubmitReplay`, in the order of the code, and takes the breaker's steps from
CircuitBreaker, which it extends (`BeforeRun`, `RecordSuccess`, ...).  `FailEarly` and `FailLate`
are exceptions out of the services, `FailStore` one of the store, an event or the
`dispatch_once` before `complete`, `FailLocked` a breaker's write that meets the
transaction which a lost race has left open on the store's connection (`txn`, until
some handler commits), `Crash` a restart.  `events` are committed
outbox rows; their publication is Outbox's business.  The executor is one step
with either outcome here; Executor says what is behind it.  **ReplayOnce** is
what an idempotency key promises: one owner, one execution, one answer.

**EscalationSaga** has the four handlers that change state, the two of
replay_runtime that look a session up (`ActOnLiveSession`, `ReleaseLiveSession`) and
`Submit` a job to it, the session's `queue` with its worker thread (`Perform`,
`PerformFails`, `Close`, `CloseFails`), RPCs that fail for their caller at any point
(at "lost" only replay_runtime still works for the request), and restarts of either
process.

**Executor** is `executor.run`.  A step of an artifact has the set of pages on which
its locators find something or its checkpoint holds (`on`), the one it was made for
and whichever others happen to match, and what a click requests on each of them
(`sends`): `_resolve_locator` takes the first candidate that finds anything on whatever
page is shown.  Every look at the page is an
action of its own (`Navigate`, `Locate`, `Click`, `Fill`, `Extract`, `Assert`,
`Look` for a business marker), and between any two of them the bank may answer
(`Answer`) or go on with a POST (`Serve`), also with one that was given up.
`Succeed`, `Recoverable`, `HardFailure` and `BusinessOutcome` are how a try
ends, with the entry that each leaves in `step_log`.  **MockBank** has the
application's side: which page answers a request, and the handler of the POST
that creates a sub-account, interleaved with those of other requests at each read and
write of the counter (`ReadSeq`, `WriteSeq`, `TakeId`; `data.py:55-56`) and at the
write of the dict (`Store`).  `crossed` is history: the POSTs that took their id while
another one did.

**Projector** is the gateway's thread: `Fetch`, and for each event `UpsertRun`,
`AppendRunEvent`, `SetRunStatus`, `RecordValidation`, `CommitOffset`, each a
transaction of its own.  `Die` is an exception or a crash in any of them, after
which a commit that was sent may still be acted on (`LateCommit`); `Restart` is
a new gateway process.  `order` records how such commits have moved the offset of the
replay topic: after one that goes back and another that jumps forward again, a
success may have been counted twice and the failures after it once, so that the
counter is too low.  `ConfidenceSound` makes an exception of exactly that.  `Publish` gives the topics what runs can emit, in any
order across topics.  `Confidence` and `RunTimeline` are what GraphQL reads.

**Registry** is the table `capabilities` and the handlers around it: `ReadLatest`
and `InsertVersion` are the two transactions of a compile, `InsertFails` the
IntegrityError that leaves the shared connection in a transaction (`inTxn`),
`BeginWrite`, `Write` and `Locked` the projector's connection to the same file.
`Classify` is `classify_compatibility`.

**Compiler** has `compile_capability` as a function of the events it fetched,
and `overlay.resolve`.  **Discovery** is the run of `loop.py` between two
emitted events, with the actor's results and the final flush.  `Gate` and `Act` are
two steps, and the page may move by itself before, between and after them (`PageMoves`).
The flush takes what fits the batch beside older rows of other runs (`crowd`), as all
runs share one table.  The run's rows
get to the topic as Delivery promises (`D!Deliver`, `D!Excuse`), and
`CompileCapability` and `ResolveForTenant` may come at any time.

**Gateway** gives each request its plan: the calls it makes, in order, and the
pool that each call needs a worker of.  A request that is inside of a server holds
a worker there; an RPC whose handler calls nothing further is one step.
**RateLimiter** is `check` in two steps, the clock (`ReadClock`) and the locked
part (`Admit` or `Refuse`).

Abstractions: payloads, timestamps of events and wording are left out, as far as
no property is about them; `RECOVERABLE`, for which SubmitReplay has a branch, is
returned by no path of `executor.run`; `attempts` of the outbox is written and
never read; `dispatch_once` inside a handler is a dispatcher of Outbox and not
repeated in ReplayRuntime; rows with the same `created_at_ms` are taken in the
order of insertion, as SQLite's scan does here; the wall clock is taken not to go
back; beyond the statements that Outbox, Registry, Projector and ReplayRuntime let fail, the
local database is taken to be available.
Executor takes artifacts that send the form at most once, as the bank's workflow
does: a second POST would be a second sub-account on purpose.

## Runs

| run | what is checked | result |
|---|---|---|
| `outbox_safe` | `Inv`, `NoDuplicates`, `PublishedIsLogged`, `InOrder`, `FlushCovers`, `ImplementsDelivery` | holds |
| `outbox_live` | `EventuallyPublished` | holds |
| `outbox_flush` | `FlushComplete` | **violated** |
| `breaker` | `BreakerInv`, `ClosedBelowThreshold`, `WindowHolds`, `Recovers` | holds |
| `replay` | `AtMostOneExecution`, `AnswersAgree`, `SagaBacked`, `OutcomeEvidenced`, `KeptForOperator`, `WindowHolds`, `ImplementsOnce`, `ResolvesOrRaises` | holds |
| `replay_race` | `RepeatedKeyAnswered` | **violated** |
| `saga` | `Inv`, `AuditedActions`, `ClosedWhenReturned`, `PoppedCloses` | holds |
| `projector` | `NothingSkipped`, `ConfidenceSound`, `CatchesUp` | holds |
| `registry` | `VersionChain`, `LabelsTell`, `CompiledKept`, `LosersExplained` | holds |
| `executor` | `OutcomeTrue`, `DuplicatesExplained`, `ReplacedByRace`, `Ends` | holds |
| `discovery` | `TypeOK`, `CompiledSound`, `CompiledComplete`, `EventsTell` | holds |
| `gateway` | `RateHonoured`, `StuckExplained` | holds |

Each property's comment says in words what it promises, and of which lines.
The inductive invariants of modules whose runs do not list them are proved.

Bounds, and why they are enough:

* Outbox: three rows of one correlation, committed in any order, one of which the log
  refuses (over gRPC's message limit), two dispatchers, batches of two, one crash.  Two
  dispatchers are what a service has while one handler publishes; three rows are more
  than a batch.  About 1.6 million states.  The liveness run has the poller alone, a
  refused row ahead of the others, and two restarts, so that a poller whose thread
  has ended can come back.  Rows of different
  correlations are never ahead of each other; several correlations are left to the
  proofs, which hold for every `Corr`.
* CircuitBreaker: three overlapping runs on one target and one on another,
  threshold two, cooldown two ticks: enough to trip with a run under way, to
  let it rescue or re-trip, and to see that targets do not mix.  Counting stops
  at `MaxFailures`, above the threshold, where the code only compares.
* ReplayRuntime: three calls, two with one key and one with another (which
  is also the empty key), failing services, threshold one so that a single
  failure refuses the next call, one crash.
* EscalationSaga: one saga (sagas share nothing but the pool), one
  intervention, one claim, two actions and two releases, with fewer workers
  than requests.
* Projector: one discovery and two replay runs of one version, three events
  (`MaxEvents`), batches of two so that a batch ends within a topic, two exceptions
  or crashes (`MaxFaults`), so that two commits may come late, threshold two; the
  counter stops at `MaxCount`, above what three events can reach with one of them
  read again.
* Registry: four compiles that race for one capability, with interfaces that
  add, drop, change and repeat, and one of another; three replays, one of which
  asks for version 1; one write of the projector and one restart.
* Executor: the code's two retries per step; each workflow of the bank, for active,
  restricted and unknown members, each injected fault, valid and invalid
  forms, locators and checkpoints that match on one page or on several (a submit button
  on the search page and on the form, links on the error pages, a checkpoint that holds
  on the form too), unbound inputs and a checkpoint that is not registered.  A run
  submits the form up to three times, so three POSTs may be at work on the counter; two
  runs stand side by side only without forms.  Two runs that both submit (more than 5
  million states), and so four and more POSTs, are left to the proofs; in this
  instance a replaced POST is always itself one that crossed, and the other case of
  `ReplacedByRace`, that it is the replacing one, needs the fourth.
* Discovery: up to two actions after the entry step (`MaxSteps` 3), of every kind
  that the compiler tells apart, a page that may be anywhere at any time, one
  failing append, and a topic with
  room for six events of the run or for all of them.  A dispatch takes ten rows
  (`BatchLimit`), three of which are of other runs (`Crowd`): runs of one action fit
  beside them, those of two do not.  With the code's limits, 15 and 50, a run that
  succeeds may have 58 rows, so that it may not fit even alone.
* Gateway: a failing and two successful invocations, an operator who claims and
  acts, a stream and a compile, over pools of one worker:
  a cycle of requests needs one worker in each pool, and with more workers it
  needs as many requests.  Limit two of three calls with one key, so that the deque may
  hold two stamps, in the wrong order too; window two ticks, a wait of up to one tick
  for the limiter's lock.  The successful invocations are interchangeable (symmetry).
  ReleaseControl takes the same workers in the same order as an action, and is left to
  the proofs.

`CHECK_DEADLOCK FALSE`: all instances have finitely many requests and stop; in
Gateway, a system that is stuck is what `StuckExplained` is about.

### Fairness

* Outbox: the poller goes on while its thread lives (`_run` loops for ever), and
  an append or a mark that is tried again and again succeeds some time.  The code
  does not start a poller again whose thread an exception has ended: that the
  service is restarted then (`PollerRevived`) is an assumption on its operator,
  and without it `EventuallyPublished` is false.  Nothing is assumed of foreground
  callers or of abandoned requests.
* CircuitBreaker: time passes, runs end (every wait of the executor has a
  timeout, and see `Ends`), and every target is replayed again and again;
  HALF_OPEN is entered by a caller and not by a timer.
* ReplayRuntime: a handler that has begun does not stop between two steps, unless it
  waits for another service: the RPCs have no deadlines (`RpcWait`), and Gateway shows
  them waiting for ever.  `ResolvesOrRaises` is about executions in which each call is,
  again and again, not waiting.  Calls need not come, services may fail for ever.
* EscalationSaga: a handler of replay_runtime that has the session submits its job, and
  the sessions' threads do theirs (actions on the page have timeouts).  The handlers
  of the saga service may stop anywhere.
* Projector: its loop goes on while the thread is alive.  Nothing restarts a dead
  thread, so `CatchesUp` speaks of executions in which it is alive from some time
  on; producers and late commits are free.
* Executor: each run goes on with its step (all its waits have timeouts).  The
  bank is not assumed to answer.
* Registry, Discovery, Gateway: safety only, no fairness.

### Where the program differs from its documentation

With a run that finds a counterexample (`PROJECT.json` quotes the texts):

1. `outbox_flush`: `_flush_and_stop` says that callers can rely on every event
   being in the log; `dispatch_once` skips a row whose append failed.
   `FlushCovers` is what remains true, and Discovery shows what it means for a
   compile: `CompiledComplete` needs its premises, and an artifact may lack a
   step whose ActionDecided is missing (`CompiledSound`).
2. `replay_race`: "a repeated key returns the already-recorded run"; of two
   simultaneous calls one gets an error from the UNIQUE constraint.

Without a run of their own; the weaker property that does hold says what is left:

3. The breaker "fails fast for a cooldown window"; a run from before the trip
   that succeeds afterwards closes it at once.  `WindowHolds` is what remains,
   and the whole claim holds when runs do not overlap (`SerialCooldown`).
4. "Every replay resolves": after an exception the row stays PENDING for ever and
   its key keeps returning this unfinished run to everybody who retries; a call whose
   RPC never returns (none has a deadline) does not even get the error.
   `ResolvesOrRaises` remains.
5. A domain write and its event go "into the SAME local" transaction
   (`shared/outbox.py:4`): SubmitReplay has two, so a crash in between leaves a row
   without its event.
6. "ReleaseControl closes that session" (REPORT.md:189-190): the second of two
   releases returns before the close.  `ClosedWhenReturned` remains, and the
   claim holds for a single release (`ReleasedOnce`).
7. The declared order of saga states ends in RESUMED or TERMINATED; a claim that
   comes late goes back to HUMAN_CONTROLLED (`services/escalation_saga/server.py:59`).
8. A replay that the breaker refuses is completed as HARD_FAILURE without dead
   letter or saga (`services/replay_runtime/server.py:126`), while README.md:47
   says that a hard failure opens one; `OutcomeEvidenced` speaks of executed runs.
9. HumanActed comes after the RPC that acts on the page
   (`services/escalation_saga/server.py:69-72`); a fault in between loses it, while
   REPORT.md:188-189 says that the action is recorded as one.  `AuditedActions`
   promises the row.
10. The gateway's projector "keeps GraphQL's backing store in sync"
    (`services/capability_registry/gateway.py:4-5`).  Its thread ends with the first
    exception, among others when the file stays locked after a lost race of two
    compiles (`LosersExplained`), and nothing starts it again.  `CatchesUp` has that as
    its premise.
11. A hard failure's browser is kept "so the escalation saga can act on the SAME
    browser" (`services/replay_runtime/server.py:81-83`).  When the breaker's write, the
    dead letter, the event or the intervention fails (`server.py:152-170`), the browser
    stays in `_live_sessions` without a saga to release it through, until the process ends.
    `KeptForOperator` is what remains: only calls that raised leave one behind, and their
    rows are still PENDING.  (A browser whose run raises before the session is kept,
    `server.py:135-143`, stays open in nobody's table.)
12. A BREAKING compile "lands as a new version requiring explicit promotion before
    it's treated as the default" (REPORT.md:87-89; `versioning.py:2-4`).  There is no
    promotion: ResolveForTenant serves the latest version whatever its label
    (`services/capability_registry/server.py:62-65`), at once.
13. Of a FORWARD version `versioning.py:38-41` says that "Old callers and old checkpoint
    assertions keep working".
    It may have an input more, and a caller that does not send it gets a hard failure
    (`executor.py:57-65`).  `LabelsTell` is what remains of the labels.
14. "Every ActionDecided is checked against a (domain, action_type) allowlist before it
    can become ActionExecuted" (REPORT.md:199-202; `safety.py:15-16`): step 0 is decided and
    executed without a check (`loop.py:87-96`).  A page without a host counts as localhost
    (`loop.py:123`), and the check looks at the page once: it may have moved to another
    host when the action is executed (`loop.py:153`).  What remains is in `EventsTell`:
    what was blocked is not executed.
15. "Whichever locator candidate the actor actually resolved during discovery becomes the
    strategy chain's primary" (REPORT.md:77-79): it is taken from ActionExecuted, where
    redaction may have replaced it by a text that matches nothing.  `CompiledSound` speaks
    of the locator as its event has it.
16. "Checkpoints are asserted against the live page" (REPORT.md:96): against whatever page
    is shown at that moment.  One that holds on the form or on an error page too is
    passed before the bank has answered, and the run reports a success with nothing
    stored.  `OutcomeTrue` promises a stored sub-account only of runs with a checkpoint
    that holds on the confirmation and nowhere else.
17. "Retries are never applied to ... HARD_FAILURE" (REPORT.md:127-129): a missing
    input of a fill or select raises HardFailureError inside a `try` that turns
    it into a recoverable error (`executor.py:120-134`).  It ends as a hard
    failure, after the retries.

Further behaviour that a reader of the models may not expect, none of which
contradicts a text: a run's kind and capability come from the first event seen
of it (`store.py:225-230`), so a discovery run, whose first event names no
capability, is never among a capability's `recent_runs`; a
checkpoint's text goes through redaction, and a redacted one can never match at
replay; the gate looks at the host of the page, not where
a navigation leads; the bank's threads may take one id for two
sub-accounts, of which the second replaces the first (`mock_bank_app/data.py:55-56`;
`ReplacedByRace`); a close that raises leaves its browser running
(`services/replay_runtime/server.py:55-57`); an exception in `execute` leaves no
RunFailed; a fill with a literal value compiles to a step without a binding,
which no replay can execute; a restricted member's form is accepted by the bank;
a repeated key consumes the rate limit before it is looked up; the default 4 MB
limit of gRPC messages may refuse a fetch of 10,000 events before that number is
reached; a stream holds a worker of the event log until its client goes away.

## Proofs

All in `*_proofs.tla`, for every value of the constants that satisfies the
modules' named assumptions (a threshold and a cooldown above zero, a batch limit
above zero, functions with the right domains); any number of rows, dispatchers,
calls, keys, targets, sagas, requests, runs, compiles, faults and crashes.

* **Outbox** (`Invariance`, `ExactlyOnce`, `NothingMarkedUnlogged`,
  `OrderPerCorrelation`, `FlushInvariance`, `Refinement`).  `InOrder` alone is
  not inductive: an append may come from a stale batch or an abandoned request.
  `AheadInv` says that what is ahead of a row is committed and older, `BatchInv` that a
  batch is closed towards the rows ahead of its own, unless they are logged or failed,
  and `InflightInv` that whatever is on its way to the log has those there.  The key lemma is that
  the oldest rows of a set are such a closed set (`OldestIsClosed`).
* **CircuitBreaker** (`BreakerInvariance`, `StateMatchesCount`, `WindowInvariance`,
  `SerialCooldown`, in ReplayRuntime_proofs).  `WindowHolds` needs `OnlyStaleRun`:
  until a rescue, only runs that were under way at the trip are running.  What is
  proved for the breaker alone, with any callers, holds of it under SubmitReplay's
  handlers, which the module builds from its steps (`BreakerHolds`).
* **ReplayRuntime** (`Invariance`, `OneExecution`, `OneAnswer`, `SagasBacked`,
  `EvidenceFirst`, `KeptSessions`, `BreakerHolds`, `Refinement`).  `RowInv` ties a
  key to one call's row; one execution and one answer follow from it.
  `RunningInv`, `ResultInv` and `EvidenceInv` say what holds at each point of the
  handler.  Each group of actions has a lemma that keeps `Core`, the conjuncts of
  `Inv` from which the others follow.  `KeptForOperator` needs `KeptInv` about
  calls that are over.  The refinement maps the INSERT to `Claim`, the start of the
  browser to `Touch`, and every reply to `Tell`.
* **EscalationSaga** (`Invariance`, `Audited`, `Released`, `ReleasedOnce`).
  `PlaceInv` says which requests can be where, `QueueInv` that the worker's queue holds
  recorded actions and closes of its own saga, and `TakenInv` that a session which was
  popped and is still open has a release that took it and has not returned; hence a page
  outlives a returned release only while another release's close is to come, or when
  that has raised.
* **Projector** (`Invariance`, `ReadModelComplete`, `CountInvariance`,
  `ConfidenceIsSound`).  `NothingSkipped` must
  survive a commit of a former thread that rewinds the offset and a restart in the
  middle of a batch: `LateProjected` says that such commits are of projected
  events, `StageReached` how far the thread is with the current one, and
  `EndsOnce` that no second terminal event of a run takes its status back.
  `ConfidenceSound` speaks of the end of the topic only; in between, after a
  re-read, the columns are not what the events so far would make them.  `Good`
  is what they must be for the end to come out right: the counter is at least the
  number of those hard failures up to here that are still last at the end of the
  topic, and zero if all that is left of the topic does not count and the last
  that did was a success.  `ColumnsGood` says so at the offset, at the thread
  and at every commit to come late; `OffsetNear` says how far these three may be
  apart, so that a step from one to the other passes over one event at most.
* **Registry** (`Invariance`, `ChainUnbroken`, `AnswersKept`, `FailuresExplained`,
  `UpgradesKept`).
  A compile compares with the version it has read and inserts the next one
  later; `SeenExists` says that what it has read is still there, and rows are
  never replaced, so the label is right if the key is free.  `RowsCompiled` gives
  the loser of a race its winner.  `LabelsTell` needs no induction over versions
  but `NoGaps`: the new row is the last one, and both promises of a label, nothing
  removed and nothing changed, carry over from one version to the next
  (`LabelsCompose`, `KeptTransitive`).
* **Gateway** (`LimitHonoured`, `TypeCorrect`, `StuckOnlyExplained`).  The deque is not sorted, so that
  pruning may stop before a stamp that is too old, which only makes the limiter
  stricter; `DequeInv` relates what is left in it to the calls let through, and
  `StampInv` says how late a stamp may be.
  `StuckExplained` follows from the types and the six kinds of plans.  Of each
  kind, a lemma lists the steps at which a request holds a worker and says what it
  waits for there (`InvokeFailsGoesOn` and the like): whoever is in the event log
  or the registry and does not stream can go on, whoever is in a replay or saga
  worker can unless the other pool is full.  So a pool that is full and stuck
  leads to the next one, in the order log, registry, replay and saga, and only the
  last two can wait for each other.
* **Executor** (`Invariance`, `OutcomesTrue`, `NoSilentDuplicate`, `ReplacementsRaced`).
  `RunsInv` says what a page, a passed step and a
  report tell about the bank at each point (`Shown`, `Passed`, `Reported`), and that
  a try which has not been made has sent nothing (`Fresh`); a passed step tells something
  only if what it matches is on one page alone.  For the
  duplicates, `Counted` bounds the POSTs of a run by its logged retries.
  On the bank's side `SeqInv` follows the counter: once a POST has taken its id with no
  other one at it (`Alone`), the counter is never below that id again, nor is what
  another POST has read of it, so that no second one takes the same id alone.
  `AccountsInv` says whose sub-account is stored under an id.
* **Discovery** with Compiler (`Invariance`, `TypeCorrect`, `EventsAddUp`,
  `ArtifactsSound`, `ArtifactsComplete`).  The properties speak of
  whole sequences of events; the invariant says what each further event finds.
  `LengthInv` counts the rows of a step up to where it is, so that `MaxRows` is
  enough.  `StepInv` says which steps have been decided, executed and have succeeded
  when the run is at `step`; `OncePerStep` that no step has two events of a type the
  compiler looks up, so that its dictionaries, in which a later event replaces an
  earlier one, lose nothing; `DecidedInv` that the current action is the one in the
  last ActionDecided, which in a run that succeeded is finish; `EndInv` that the
  terminal event is the last one.
  On the other side of the outbox, `LogInv` is what Delivery promises: each row once,
  after all earlier ones but those that have failed.  So whoever finds
  RunSucceeded in the topic finds all of the run there, failed appends excepted
  (`FirstHas`), and what the compiler looks up of a step is what the run has
  emitted (`FirstAt`).  `ArtifactInv` says that an artifact is that of the first n
  events for some n; it does not change when the topic grows (`ArtifactKept`), and
  from `CompiledSteps` its steps are right for every such n.  `FlushInv` relates the
  batch that the flush has taken to the topic, for `CompiledComplete`, whose premises
  (no failed append, room in the batch beside the rows of other runs, room in the fetch)
  make the whole run arrive.  That Outbox keeps what Discovery takes from Delivery is
  Outbox's `Refinement`.

Model-checked only: liveness (`EventuallyPublished`, `Recovers`,
`ResolvesOrRaises`, `PoppedCloses`, `CatchesUp`, `Ends`), which is beyond the
prover.  Every safety property of the passing runs is a theorem.

## Not modelled

* Dashboard, process launcher, the CLI and the planner's prompt: display, start-up
  and wording.  The planner's answers are inputs of Discovery, which may be
  anything that its parser lets through.
* Generated stubs and protocol files: only which server has which method
  (Gateway).
* Getters and the other endpoints that only read; `put_overlay` and
  `set_projector_offset`, which nothing calls.
* Real time: timeouts are choices that may be taken at any moment, the cooldown and
  the limiter's window are ticks.

## Plan

What could follow: ReplayRuntime with Executor in the place of its one-step outcome,
as a refinement; Registry's compiles with Compiler's artifacts in the place of their
interfaces.
