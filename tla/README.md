# Survey Finder: specification

TLA+ modules of the survey finder (`src/survey_finder/`), the TLC
configurations that check them on small instances, and theorems about them
checked by TLAPS. Paths below are relative to `src/survey_finder/`, except that
`docs/` and `tests/` are at the root of the repository.

The program is one asyncio process. Every five minutes, and once at startup, a
*poll cycle* asks each configured source (Prolific, CloudResearch, Respondent)
for surveys, normalizes and filters them, and announces the good ones in a
Telegram chat. What was announced is remembered in Redis, so that neither a
second cycle nor a restarted process announces it again.

    app (scheduler) -> pipeline construction -> orchestrator, one per source
        orchestrator -> adapter -> circuit breaker -> http client -> source
                                `-> nimble client (fallback)
                     -> normalization -> filter          (pure)
                     -> idempotency gate -> Redis
                     -> dispatcher -> idempotency gate -> Redis
                                   -> retry executor -> Telegram
                     -> dead letter storage -> Redis

    step pipeline: the same stages as separate steps over a shared context,
                   with the Redis buffer between them

Beside this service the repository has parts that nothing in `src/` calls yet:
leader election, the buffer's backpressure, the rate limiter, the execution
controller, the adapter wrapper with a breaker of its own, lease locks, the
Playwright browser, graceful shutdown. They are modelled as any caller may use
them.

## 1. Inventory

| component | state it keeps | operations | module |
|---|---|---|---|
| idempotency gate (`idempotency/gate.py`) | keys with an expiry in Redis | `check_and_set`, `clear` | `IdempotencyGate`, `AtomicGate` |
| Telegram delivery (`delivery/dispatcher.py`, `retry.py`) | the dispatches in progress, their attempt | `dispatch`, retry loop, post, hand-over to dead letters | `Delivery` |
| poll cycles (`bootstrap/app.py`) | `_last_cycle`, the startup task, the scheduled job | begin, go through the sources, complete, fail, restart | `PollService` |
| pipeline orchestrator (`pipeline/orchestrator.py`) | the tasks of a batch, the summary | `run`, `_process_one`, `_to_dlq` | `PollService` |
| pipeline construction (`bootstrap/pipeline.py`) | nothing that outlives a cycle | `build_pipeline` | `PollService` |
| normalization (`normalization/`) | none | `normalize` | `Screening` |
| filter (`filter/`) | none | `evaluate` | `Screening` |
| adapters (`adapters/*/adapter.py`) | the fetches in progress | `fetch_surveys`, parsing | `SourceFetch` |
| http client (`adapters/http.py`) | attempts of a request | `request` | `SourceFetch` |
| nimble client (`adapters/nimble.py`) | none | `fetch_html` | `SourceFetch` |
| circuit breaker (`hardening/circuit_breaker.py`) | state, counters, last failure | `call`/`async_call`, `reset` | `CircuitBreaker` |
| step pipeline (`pipeline/steps.py`, `context.py`) | `PipelineContext` of each run | seven steps | `StepPipeline` |
| Redis buffer (`buffer/queue.py`) | a list in Redis | `push`, `pop`, `pop_batch`, `clear` | `Buffer`, `BoundedQueue`; its length in `StepPipeline` |
| backpressure (`buffer/backpressure.py`) | last signal, for the log | `check`, `should_stop_cycle` | `Buffer` |
| coordination (`coordination/`) | a lease in Redis, `_is_leader` | `acquire`, `try_become_leader`, `heartbeat` | `Leadership` |
| rate limiter (`hardening/rate_limiter.py`) | tokens, `_last_refill` | `acquire`, `get_available_tokens` | `RateLimiter`, `RateContract` |
| execution controller (`execution/orchestrator/`, `runtime/execution_controller.py`) | a lock, `_active_cycle_id` | `run_cycle` | `ExecutionController` |
| adapter wrapper (`adapters/wrapped.py`, `runtime/circuit_breaker.py`) | `_state`, `_failures`, `_opened_at` | `fetch` with `allow`, `success`, `failure` | `SafeAdapter` |
| lease locks (`execution/locks/lease_lock.py`, `runtime/lease.py`) | holder, `_expires_at` | `acquire`, `heartbeat`, `release` | `LeaseLock` |
| Playwright browser (`adapters/playwright/`) | a singleton's three fields | `browser_page` with `initialize`, `new_page`, `close` | `BrowserPage` |
| graceful shutdown (`hardening/shutdown.py`) | hooks, a flag | `register`, signals, `shutdown` | `ShutdownHooks` |
| dead letters (`dlq/`) | lists in Redis | `store`; fetch, delete, replay | `PollService` (`store` only) |

How they interact and what is hard about it:

* **Cycles overlap.** `max_instances=1` limits the scheduled job only; the
  startup task runs the same coroutine beside it. Two cycles then process the
  same survey, and share `_last_cycle`. Within a cycle a batch is processed by
  concurrent tasks (`asyncio.gather`), and one answer can list a survey twice.
* **Two gates guard one message.** The orchestrator claims
  `survey:{source}:{id}` before it dispatches, and the dispatcher claims
  `telegram:{id}:{hash}`. Python's string hash differs from process to process,
  so after a restart the second gate does not recognise the message.
* **Answers get lost.** A post that timed out may have been accepted; a `SET`
  that raised may have been executed. The retry loop and the callers of the
  gate go on without knowing.
* **Failures inside failure handling.** `json.dumps` raises for the
  `datetime` of a `DLQItem`: the dispatcher's hand-over raises in its own error
  path, and so does the storage of dead letters.
* **Results out of order.** The locks of both breakers cover the admission and
  the result of a call but not the time between them. Results arrive in states
  the call was not admitted in.
* **Two commands where one is meant.** `push` looks at the length and pushes;
  the lease's release looks at the value and deletes; the backpressure signal is
  older than the push that heeds it. Other processes come in between.
* **Holders that overrun.** A lease expires while its holder works on; it then
  extends, releases or deletes what has become another's.
* **Clocks.** The rate limiter refills from `time.time()`, which may be set
  back, and every look moves `_last_refill`.
* **Work cut off half way.** An await of Playwright raises with the driver
  started and the browser not; a shutdown task is cancelled between two hooks; a
  batch of pops fails after the first.
* **Values at a boundary.** The weights of the filter are floats, and one sum
  lands just below its threshold although it is reported on it.

What makes the components correct is listed with the runs in section 4; the
places where the code is exposed are the hazards of `PROJECT.json`.

### Not modelled

* Metrics: append-only lists nothing acts on. Health checks: they read other
  services and format an answer.
* Sessions and proxies: a dictionary in front of Redis and a set of proxies.
  Nothing uses either and no text says how stale an answer may be.
* The adapter registry: its cache is made anew for every cycle and never hit.
* In `execution/` and `runtime/`, the buffers, gates and stores in memory hold
  one lock through every operation and call nobody: no interleaving can go
  wrong. `runtime/shutdown.py` waits for a buffer to drain, and nothing gives it
  one.
* Fetching, deleting and replaying dead letters: by `poll_dead_letters` below,
  `store` never succeeds, so in no reachable state is there an item to fetch,
  and a model of them would check a store the code does not have.
* `run_pipeline_once` has no caller. Configuration, logging, message wording
  and deployment have no behaviour to check; that a process that died is
  started again is in the models.

## 2. Plan

Done, in this order, the most important behaviour first:

1. `AtomicGate`, `IdempotencyGate`: the gate, and that it is linearizable.
2. `Delivery`, `PollService`, `NotificationLedger`: the service around it, and
   that it keeps the ledger the chat relies on.
3. `CircuitBreaker`, and `SourceFetch`, which composes it with an adapter's
   fetch.
4. `Screening`: normalization, filter and template choice.
5. `StepPipeline`: the pipeline of steps, with the buffer.
6. `Leadership`, `Buffer` with `BoundedQueue`, `BrowserPage`: the other clients
   of a server outside the process.
7. `RateLimiter` with `RateContract`, `ExecutionController`, `SafeAdapter`,
   `LeaseLock`, `ShutdownHooks`: the other parts threads and tasks share.

A model of dead-letter replay was planned and dropped, for the reason given
above. Next:

* `StepPipeline` composed with `Buffer` instead of with its length, and what the
  pipeline promises stated as a specification that it implements.

Every safety property that a passing run checks is also a theorem (section 6).

## 3. Modules and the code

**`IdempotencyGate`.** `check_and_set` is three Redis commands: `GET`, `SET NX
EX`, and a `GET` for the loser's timestamp. Each is an action (`Get`, `SetNX`,
`Reget`) of a client; the commands of different clients interleave. Redis is a
function from keys to the instant they expire. `RedisError` lets any command
raise; a `SET` that raises may have been executed. `Clear` is `clear`, `Tick`
the clock. `lastGrant` is a ghost.

**`AtomicGate`.** What the callers rely on: each question is decided at one
instant. `IdempotencyGate` refines it with a mapping that hides the commands
(`Told`). `PollService` and `StepPipeline` use a one-step gate on the strength
of this refinement.

**`Delivery`.** A job is one coroutine in `dispatch`; code between two awaits
is one step. `DispatchWith` runs up to the first post, `Post` is the post, whose
outcome (accepted or not) and verdict (`ok`, `transient`, `fatal`) are
independent but for one fact: a 2xx answer means accepted. `HandleReply` is the
retry loop. `DLQItem` and `JsonEncodes` model what `json.dumps` does to the
item, which decides how a failed dispatch ends. The module has steps and no
specification of its own: `PollService` calls them.

**`PollService`.** `Begin` is the start of `_run_poll_cycle` with
`build_pipeline`; `FetchNothing` and `FetchBatch` are `await
adapter.fetch_surveys`; `ProcessOne` is `_process_one` up to its first await;
`Send` and `Reply` are those of `Delivery` with `_to_dlq`; `Gather` is the end
of `gather` and the summary; `Continue` goes to the next source or completes.
`Restart` loses everything in memory. Two cycles, `startup` and `scheduled`,
run through these; the second begins again and again. `notified` is a ghost
that counts the messages the chat received since a survey was last claimed.

**`NotificationLedger`.** What the chat may see: a survey is claimed, at most
`MaxAttempts` messages about it arrive, the claim lapses.

**`CircuitBreaker`.** `Enter` is `_check_state`, `Succeed` and `Fail` are
`_record_success` and `_record_failure`; between them a call is in `running`.
`Abandon` is a cancelled call, which is no `Exception` and records nothing.
`_last_failure_time` is kept as an age. `healthy` and `probes` are ghosts.

**`SourceFetch`.** `fetch_surveys` of the three adapters, which differ in
addresses and field names only: the API inside the breaker (whose module it
extends, step by step), the retry loop of the http client inside that,
then Nimble. Items of an answer are good, bad (skipped) or alien (the parser
raises). The API parser gives up the whole page for one alien. The HTML parser
goes through all the blobs of a page, each with a limit and a `try` of its own:
what a blob gave before its alien is kept, and the next blob is read all the
same. `returned` is a ghost: the stages whose call came back without raising.

**`Screening`.** `Normalize`, `Filter`, `Notify` are the three stages of one
survey. Payloads are functions from field names to values. Scores are
hundredths; `LosesUlp` is the one sum of weights (0.4 + 0.3 - 0.2) that a float
represents below 0.5 and rounds to it in the report.

**`StepPipeline`.** Each step class is an action on a worker's
`PipelineContext`; `BufferStep` and `Push` are the `LLEN` and the `LPUSH` of
`push`; `DispatchStep` is `dispatch` up to its first post, and `Post` an attempt
of the retry loop, which may be accepted and come back as a failure. Workers of
different processes share Redis. The text of a message depends on the payload and
on the profile in the context, so it is any of `Texts`, and a key is that of one
text of one survey in one process. `notified` is a ghost that counts the posts
Telegram accepted, message by message.

**`Leadership`.** `BecomeLeader` is the `SET NX EX` that enters the `with`
block, sets the flag and returns; `CheckLease` and `DeleteLease` are the two
commands of leaving it, `Heartbeat` the `EXPIRE`, `SetRaises` a `SET` whose
answer is an exception. `LeaseTick` is Redis's clock, `LeaderCrash` the death of
a process, whose lease stays. `mine` and `overrun` are ghosts.

**`Buffer`.** Producers run `AskSignal` (`should_stop_cycle`, if they heed it),
`PushSize` and `Push` (the `LLEN` and `LPUSH` of `push`); consumers `StartBatch`,
`PopOne`, `EndBatch`, `PopFails`; anybody `ClearBuffer`. Commands that raise may
have been executed. **`BoundedQueue`** is what the users rely on: one queue,
first in first out, of `max_size` and one place more for every producer but one.

**`BrowserPage`.** A user is a coroutine in `browser_page`; each await is a
place, and between two awaits the singleton's fields are read as they then are.
`TakesDown` and `Needs` say what of Playwright's processes ends with another and
what an await needs to be running; they are external.

**`RateLimiter`.** `TakeTokens` and `FindTooFew` are a try under the lock,
`GiveUpOrSleep` what follows it, `Look` is `get_available_tokens`,
`LimiterTick` and `ClockSetBack` are `time.time()`. **`RateContract`** keeps
one number, `excess`: the most that was granted beyond the rate in any stretch of
time that ends now. A grant adds to it, a tick takes one token from it, and nothing
else changes it; a clock that is set back takes no time. In `RateLimiter` it is a
ghost with the same definition, so the refinement compares the bucket with time
itself.

**`ExecutionController`.** `TryLock`, `SetCycle`, `HandlerEnds`, `ClearCycle`
and `Unlock` are the steps of `run_cycle`, of any number of threads.

**`SafeAdapter`.** `Allow`, `FetchSucceeds` and `FetchFails` are `fetch` with
the breaker's three methods; the adapter works between them.

**`LeaseLock`.** Both in-process lease locks, told apart by `owned`: one knows
its owner, the other has a heartbeat. `stolen` is a ghost: a lock was released
under its holder.

**`ShutdownHooks`.** `Signal` creates a task, `StartShutdown` and `HookEnds` run
it from one await to the next, `CancelTask` cancels it; `Register` may come at
any time.

**`MCServiceClients`, `MCInProcess`.** The parts of each share no variable and
do not call each other, except the fetches, which extend their breaker. Each
behaviour works one part, chosen at the start, while the others stay in an
initial state. A run so explores the sum of the parts' states; their product
would show nothing more, since no step of one part reads or writes another.

`Mut...` definitions stand before the definition they vary. No specification
uses them: each is a plausible mistake that breaks one of the properties.

## 4. What the runs show

| run | states | question |
|---|---|---|
| `poll_restarts` | 744,465 | Do overlapping cycles, retries, Redis errors and a restart keep the ledger? |
| `poll_batches` | 862,393 | Do summaries and status tell the truth when a batch lists a survey twice and cycles overlap? |
| `poll_liveness` | 15,301 | Does every cycle end? |
| `service_clients` | 446,187 | Do gate, lease, buffer and browser keep their promises when the commands of their clients interleave, fail and expire? |
| `in_process` | 45,202 | Do breakers, fetches, limiter, controller, locks and hooks keep theirs under overlapping calls, and do they go on? |
| `screening` | 53,172 | Do names, defaults, weights, rounding and template agree? |
| `step_pipeline` | 2,056,020 | What do a best-effort gate, a retried post and a two-command push cost? |

**`poll_restarts`**: `Inv` (types, a survey in flight is claimed, one dispatch at
a time, messages are counted by attempts, at most `max_attempts` of them) and
`KeepsLedger`. Two surveys of one source, batches of one, two attempts, one
restart. Two cycles meet on a survey, the process dies between the claim and the
post and after a post, and keys expire afterwards.

**`poll_batches`**: `OneDispatch`, `ReportAddsUp` (every survey fetched is under
one heading of a completed cycle's summary, and in a cycle under way under one
heading or one of its tasks; what the sums exceed the fetched surveys by is
failed fetches, one for each source at most), `ActiveIsRunning`,
`DeliveredWasSent`. Two sources (the first `s1`'s, the other with no
survey to offer), batches of up to two listing `s1` twice, so that four tasks of
two cycles contend for one survey.

**`poll_liveness`**: `CyclesEnd`, under `FairSpec`, with one restart.

**`service_clients`**. `ServiceInv` is the types of the four parts with two
facts: a granted key exists for its TTL, and a failed `pop_batch` loses a batch
at most. Then, part by part:

* Gate: `OneGrantPerTTL` (two grants of a key are a TTL apart unless it was
  cleared), `Atomic` (the refinement). Two clients and two keys give every race
  on one key and the independence of two; TTL 2 and a clock to 5 let a key
  expire and be granted again, twice, with calls that straddle the expiry.
* Lease: `LeaseExclusive` (two instances are inside the block within their time
  only if a lease expired between its `GET` and its `DELETE`), `LeaseLapses` (a
  lease nobody extends becomes free). Three instances: one that overran, one
  that took over, and one whose lease the first would delete.
* Buffer: `QueueRefined`, and `HeedingAvoidsRefusal` (producers that heed the
  signal are never refused, if the room above the signal takes one push of each
  of the others). Two producers on the last place, two consumers on the last
  event, batches of two of which the second pop fails, and a threshold that
  leaves exactly the room the premise asks for.
* Browser: `AloneIsClean` (uses that do not overlap get their page and leave
  nothing running), `LeaksAreCounted` (a use that fails half way costs one
  driver, and no more). Two users, two exceptions, three drivers told apart, so
  that a forgotten driver can be there when the next is started.

**`in_process`**. `ProcessInv` is the types of the parts with the facts the other
properties rest on (a tripped breaker has a deadline, successes counted are
probes, the wrapper's tripped breaker is one failure from open, hooks run in
order). Then:

* Breaker: `OpenWaits`, `ClosesAfterProbes`, `Recovers`. Two calls and
  thresholds of two: late results of either kind arrive in every state.
* Fetches: `OpensAfterFetches` (the breaker counts fetches, not requests),
  `EmptyIsExplained` (with nothing found, the API and the scraper each returned
  without a survey or are in the errors: one that was not let ask, failed or was
  asked in vain is never silent), `FetchEnds`. Two overlapping fetches, two
  requests each, answers of up to one item more than the page limit of two, pages
  of up to two such blobs.
* Limiter: `RateKept` (the refinement of `RateContract`), `TimedCallsEnd`,
  `NoLockUp`. A bucket of two, requests for two and for three, which never
  succeed, calls with and without a timeout, a clock that is set back by one.
* Controller: `OneActiveCycle`, `LockComesBack`. Three threads: one leaving, one
  entering, one refused.
* Wrapper: `PausesAfterFailure`. Three fetches, so that the result of a third
  arrives after two have tripped the breaker.
* Lease locks: `LockExclusive` (of the lock that keeps no owner, until one is
  released under its holder) and `OnlyOverrunsSteal` (only a worker that overran
  its lease does that first). Three workers: one that overran, its successor, and
  one that would get in after the theft.
* Hooks: `CompleteIsAll`. Three hooks and two calls of `shutdown`.

**`screening`**: `TypeOK`, `FirstNameWins`, `ReportedScore`, `Monotone`,
`AnnouncedIsEligible`. Payloads with every combination of present, absent, null
and non-numeric values for the names of the two numbers; surveys and profiles on
both sides of every rule, and on the boundaries. `Monotone` compares every pair
of surveys.

**`step_pipeline`**: `Inv` (the types; the overshoot of the buffer; message keys
are counted by claims and gate failures, posts by attempts; what a context has by
its stage), `AnnouncementsAreBounded` (of one survey at most one different message
and one more for each gate failure arrive, each at most `max_attempts` times),
`NothingVanishes` (a context with an eligible survey ends delivered, as a
duplicate or with an error). Two workers in two processes, one survey with two
texts, three attempts, two gate failures and a buffer of one: enough for three
contexts past the gate with different messages, of one process or of two, for one
to meet the key another left, and for the overshoot. One survey suffices because
keys, posts and failures are counted survey by survey and only the buffer's length
is shared; the theorems are about any number. The texts are symmetric: no operator
of the module tells one from another.

Deadlock is checked except in `Screening`, where one survey goes through its
stages once and stops. In the two runs of many parts it is checked
of each part, since only one works in a behaviour.

### Where the code differs from what is said of it

* `poll_no_duplicates`: "No duplicate notifications" (`docs/README.md:10`). A
  post whose answer is lost is posted again: up to `max_attempts` messages.
* `poll_one_cycle`: "never run two cycles in parallel"
  (`bootstrap/app.py:82`). The startup task is no instance of the job.
* `poll_dead_letters`: "Dispatch failure increments errors (DLQ'd)"
  (`tests/integration/test_e2e_pipeline.py:167`). `store` always raises for the
  item's `datetime`; `_to_dlq` logs it.
* `screening_country`: "country mismatch = instant reject"
  (`filter/engine.py:59`). `SchemaValidator` builds the survey from five fields;
  the country, the devices, the criteria and the url of the payload do not
  survive normalization. In a cycle only an invalid payload or a source that is
  not preferred is ever rejected by a hard rule.
* `two_leaders`: "Distributed leader election" (`coordination/leader.py:9`).
  `try_become_leader` returns from inside its `with` block, which deletes the
  lease at once, while `_is_leader` stays set: the next instance leads too.

Consequences visible in passing runs, which no text denies:

* `bootstrap/pipeline.py` builds an adapter, and so its breaker, anew for every
  cycle, which fetches once: by `OpensAfterFetches` a breaker with a threshold
  of three never opens in the service.
* In the step pipeline one gate failure is enough for a second message of a
  survey, even in one process: `telegram:{id}:{hash}` is the key of a text, and
  the text changes with score, reasons, payout and title. The poll cycles treat a
  failing gate as an error and do not dispatch.
* A survey claimed by a process that dies before the post is not announced until
  its key expires a day later; the ledger allows it.
* `heartbeat` extends whatever lease there is, and the lease's release is two
  commands: the ghost `overrun` of `LeaseExclusive` marks where it deletes
  another's lease. `runtime/lease.py` has the same weakness, as it keeps no owner
  (`stolen`).
* A fetch admitted before the wrapper's breaker opened closes it when it
  succeeds, and a half-open one admits everybody.
* A request for more than `burst_size` tokens without a timeout never returns; small
  requests can starve a large one. What the limiter keeps is a rate by its own
  clock: one set forward grants what it skipped.
* A shutdown task that is cancelled leaves the remaining hooks unrun, and the
  flag keeps any later call from them.
* Overlapping uses of the browser close it for each other; `AloneIsClean`
  promises nothing of them.
* `tests/buffer/test_buffer.py:29` expects the signal `ok` at nine events of
  ten; `check` compares with `>=`, so 0.9 is `full` (`SignalsFull`).

## 5. Fairness

* `PollService`: weak fairness of each cycle's and each task's steps. The event
  loop runs every ready coroutine; every await ends, since httpx has a timeout
  and the pauses between retries are finite. `Begin`, `KeyExpires` and `Restart`
  have none. It is assumed that Redis answers or raises: redis-py sets no socket
  timeout by default, so a Redis that accepts connections and stays silent would
  block the event loop, a case this assumption excludes.
* `SourceFetch`: weak fairness of a fetch's own steps, for the same reason. None
  of new fetches, cancellation or the clock.
* `CircuitBreaker`: callers keep calling, admitted calls end, time passes. None
  of `Reset`, `Fail`, `Abandon` or `Heal`. `Recovers` assumes a service that
  has recovered for good (`healthy`): its calls then succeed.
* `Leadership`: Redis's clock runs. Nothing is assumed of the instances, which
  may die anywhere.
* `RateLimiter`: a thread that sleeps 0.1 seconds is run again, and time passes.
  None of new calls, looks or a clock set back.
* `ExecutionController`: the operating system runs every thread. Handlers need
  not end (`cycle_timeout_sec` is applied nowhere), so `LockComesBack` takes that
  as its premise.
* `Buffer`, `BrowserPage`, `SafeAdapter`, `LeaseLock`, `ShutdownHooks`: safety
  only.

`MCInProcess` states these fairness conditions together. Only one part's steps
occur in a behaviour, so a weakly fair choice between `Enter(c)`, `Go(c)`,
`Try(c)` and `RunCycle(c)` is, in each part, fairness of that part's action;
`OneNaming` lets one name stand for a call, a caller and a thread.

## 6. Proofs

`tlapm` checks the eight modules below for every value of the constants, under
the named assumptions that declare what a constant may be: counters and bounds
natural numbers, thresholds positive, `SourceOf` a function, the sets of
producers, workers and processes finite. Sets of clients, surveys, keys, threads,
browser users and hooks are arbitrary; so are payloads, surveys and profiles of
`Screening`, as long as their numbers are whole. `min_score` is fixed at the 0.5
that every caller gives, because `LosesUlp` is computed for it.

Every invariant and action property of the passing runs is a theorem here. Where
a run works one of many parts, the theorem is about the part's own
specification, and `EachPartIsItself` carries it over to the run's.

**`IdempotencyGateProofs`**: `TypeCorrect`; `GrantsAreHeld`, inductive with the
types because a key that can be set has expired, so a `SET` moves the deadline
forward only; `OneGrant`, from it, as a second grant needs an expired key;
`Refines`, by one step per action: the question is decided by the `GET` that
hits or by the `SET`.

**`PollServiceProofs`**: `TypeCorrect`; then `Invariant`, of

    Inv == TypeOK /\ InFlightIsClaimed /\ OneDispatch /\ SendsAreCounted /\ NotifiedBound

which gives `Claimed`, `OneDispatchAtATime` and `BoundedNotifications`.
`NotifiedBound` is not inductive alone: it needs that the messages counted are
those of the one task in flight (`SendsAreCounted`), that there is one
(`OneDispatch`), and that nobody can take the claim away meanwhile
(`InFlightIsClaimed`). `QuietStep` covers the steps that send nothing;
`LedgerKept` is the refinement of `NotificationLedger`, step by step.

`ReportsAddUp` needs three facts more. A task exists only while its cycle
processes a batch, and is of that batch and cycle (`TasksAreKept`). A summary's
headings and tasks then balance as each action moves one survey: `FetchBatch`
starts as many tasks as it counts fetched; `Gather` turns tasks into headings,
where the tasks are split by outcome and the sizes of the parts add up
(`Headings`); a failed fetch takes a source off the list, the first of those to
do (`Smallest`, `SourceLeft`). And a completed
summary is that of the cycle that has just ended. `ActiveCyclesRun` is inductive
with it. `DeliveriesWereSent` rests on `AnswersAreTrue`: a task whose answer says
success has had its message accepted since the survey was claimed.

**`SourceFetchProofs`**: of the breaker, the types, `TripHasDeadline` and
`SuccessesAreProbes` together are inductive; `OpenBreakersWait` and
`ClosingTakesProbes` follow for every step. Of the fetches,
`OpeningTakesFetches`: the failures counted and the
calls still running are together at most the fetches begun, as long as these are
fewer than the threshold (`Budget`). `EmptyResultsAreExplained` follows each
fetch from its API to Nimble (`Explained`), together with the types
(`FetchTypeCorrect`): a page limit bounds what one blob gives, so a page gives at
most as many surveys as there are places in its blobs (`FindsFitThePage`).

**`StepPipelineProofs`**: `Invariant`, of

    Inv == TypeOK /\ BufferBound /\ KeysAreCounted /\ PostsAreCounted /\ StagesAreKept

`SurveysAreAnnouncedBoundedly` needs to know who may post what. The keys of a
survey and the contexts past the gate that have yet to make one are together no
more than its claim and the gate's failures (`KeysAreCounted`): a dispatch turns
one such context into one key. A message that was accepted has a key, one context
at most is sending it, and its posts are no more than the attempts of that context
(`PostsAreCounted`). So the messages that arrived are among the keys, and each came
at most `MaxAttempts` times. The buffer's overshoot (`BufferBound`) is counted with
the workers between `LLEN` and `LPUSH`.
`NoContextVanishes` follows a context from step to step (`StagesAreKept`).

**`ScreeningProofs`**: no induction over states but of what each stage has come
from (`StagesFollow`); the rest is about the pure functions. `NamesAreOrdered`
follows a payload through the table of names, and `NumbersAreFirst` through
defaults and validation, which gives `FirstNamesWin`. `ScoreExplains` holds of
every survey and profile (`ScoresExplain`, `OnlyEligibleIsAnnounced`).
`BetterIsNoWorse`: a rule that a survey passes a better one passes (`BetterPasses`,
also for the quotient of the hourly rate), so the score is no lower; and if the
better one's sum loses its ulp, it has passed no other rule, and the worse one's
sum is the same one (`BetterRanks`).

**`ServiceClientsProofs`**. Of the lease, `LeaseIsExclusive`: until a lease
expires inside its
release, an instance within its time has the lease, for at least that time
(`GrantIsLease`), and one about to delete a lease deletes its own
(`DeletesOwn`); two holders would both have the one lease. Of the browser,
`UsesAloneAreClean` and `LeaksHaveFailures`: while uses do not overlap, there is
one user at work (`OneUser`), the fields name one start and say what of it runs
(`FieldsAreAlive`), the user at work has the parts its await stands for
(`HoldsItsParts`), and the starts left running that nobody works on are at most
the awaits that raised. The last is a bound on a set, so it needs that a step
leaves at most one more start behind, and only by raising (`FewerLeft`,
`LeftStep`). `EachPartIsItself` and `ServiceTypeCorrect` put the four clients
together, with the theorems of the gate's and the buffer's modules.

**`BufferProofs`**: the list and the pushes on their way to it are counted
together. `SumBound` (at most `max_size` and one for every producer but one)
gives the capacity in `BufferIsQueue`; `PlacesKept` (while the producers heed
the signal, list and busy producers together fit) gives `HeedersAreNotRefused`,
by a lemma on the number of lengths below the signal. `LossIsBounded` is
inductive with the types.

**`InProcessProofs`**: `OneCycleAtATime` (the lock is held by the one thread
inside), `TrippedStaysFull` and `OpenPauses` (an open breaker was stamped by the
last failure), `LockIsExclusive` (what a worker has left of its grant the lease
has left too), `HooksRunInOrder` and `CompleteRunsAll` (one call runs the loop,
and the hooks begun are those up to its position). `OnlyOverrunsReleaseOthers`
follows from the same fact about grants as `LockIsExclusive`. Of the limiter, what
the clock was set back by bounds every counter from below (`SetBackOnce`). With it
`RateIsKept` rests on `Covered`: `excess` is at most what the bucket lacks,
`Burst - Available`. A grant moves both by the same amount; a tick gives the bucket
one token at most while it takes one from `excess`; a look gives none, and a
clock set back only takes (`OnlyTimeGives`). What the bucket can grant therefore
never makes `excess` more than `Burst`, so every try that succeeds is a grant of
the contract, and every tick its tick.
`EachPartIsItself` and `ProcessTypeCorrect` put the parts together.
A behaviour of the run is one of `SourceFetch` only where fetches are at work, since
the breaker called by any code is given a long history of fetches;
`FetchesKeepTheirPromises` covers the others too.

Only model-checked is liveness: `CyclesEnd`, `Recovers`, `FetchEnds`,
`LeaseLapses`, `TimedCallsEnd`, `NoLockUp`, `LockComesBack`. It rests on fairness
and `ENABLED`, which the provers do not reach; neither do they reach the absence
of deadlock. The five properties that the code does not have are violated in runs
of their own.

## 7. Abstractions

* A message is named by its survey. The gate's key for it is `[gate, survey,
  salt]`; the salt stands for the process, as `hash(str)` differs in each.
* Keys do not expire during the dispatch they guard: they last 86,400 seconds, a
  dispatch under two minutes. They may expire at any other time.
* Redis keeps its data when the service restarts. What Redis itself loses when
  it crashes depends on its configuration, which the repository leaves open.
* In `PollService` screening is a choice, and a fetch may fail in any way;
  adapters in fact catch their errors and return an empty result whose `errors`
  nobody reads.
* Delays between retries have no length. Scores are exact: the floats fall on the
  same side of 0.15 and 0.5 but for `LosesUlp`;
  the hourly rate is compared as a fraction, which agrees with the float
  division for the default of 15 an hour.
* The buffer in `StepPipeline` is its length. Keys do not expire there. That two
  texts of a survey have one hash is left out; it would only suppress a message. In
  `Buffer` an event is what was pushed, since what `push` encodes `pop` decodes;
  thresholds are tenths.
* A lease's `lock_value`, the time of the call, is taken to be unique.
* Tokens are counted in units of what one tick refills. The limiter's clock may
  be set back, but it is not set forward: time skipped that way would refill the
  bucket, and by real time the rate would be exceeded. Times and ages stop
  counting when nothing depends on them any more.
* A poll cycle is not cancelled: that the scheduler's shutdown may cut one off
  (`app.py`) is covered only as far as a `Restart` is, which loses the whole
  process.
* Each hook is registered once at most, so that they can be told apart.
* Time in the lease locks is whole ticks; at the very tick a lease
  ends one lock is free and the other not yet (`Lapsed`).
* Bounds: `MaxTime` (clock of `IdempotencyGate`), `MaxBoots` (process starts),
  `MaxBatch` (surveys in an answer), `MaxFaults` (gate failures counted for a
  survey; failed batches of `Buffer`), `Texts` (messages of a survey told apart),
  `PageLimit` (20 in the code, 2 in the run), `MaxBlobs` (blobs of a page),
  `MaxTimeout` and `MaxBack` (timeouts, and how far the clock is set back),
  `MaxStarts` and `MaxRaises` (drivers told apart, awaits that raise). Counters
  of the breaker and `fetches` stop at the threshold they are compared with.
  `LeaseTTL`, `LockTTL`, `ResetTimeout`, `Burst`, `MaxAttempts` and `BatchSize` are
  configuration, small in the runs and arbitrary in the proofs.
