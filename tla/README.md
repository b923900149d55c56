# CyberBro Guard: TLA+ models, checks and proofs

CyberBro Guard is a Telegram moderation bot: one Python process (FastAPI, python-telegram-bot,
SQLite) that receives updates by webhook, moderates group messages (with an optional AI
provider), and sells a PRO plan for Telegram Stars. This directory holds TLA+ models of its
stateful parts, TLC configurations that check them on small instances, and TLAPS proofs.
`PROJECT.json` maps every definition to the lines it models. Paths below are relative to `src/`.

## 1. Inventory

One process, one event loop (`uvicorn --workers 1`), plus scheduler and `asyncio.to_thread`
threads, over one SQLite file opened anew for each call. Interleaving happens at `await`s,
between the loop and the threads, and, while a restart overlaps, between two processes.

| Component | State | Operations | Talks to | Hard part | What makes it correct |
|---|---|---|---|---|---|
| Idempotency store and guard (`app/services/idempotency.py`, `idempotency_guard.py`, `app/sched/idempotency_purge.py`) | table `idempotency(key, status, created_at, expires_at)` | `begin`, `commit`, `fail`, `get`, `purge_expired`, `with_idempotency` | webhook, payments | non-transactional statement sequences, lease expiry, the purge thread, fail-open on errors | two tasks never work on one key within their leases; a holder settles its own row |
| Duplicate cache (`is_duplicate_update`, `app/main.py:42-62`) | `_seen_updates` (set), `_seen_queue` (deque, 5000) | add / test / trim at 6000 | webhook | the deque is shorter than the set | recent ids are recognised; the set is bounded |
| Webhook and worker (`app/main.py:65-232, 314-474`) | `asyncio.Queue(1000)`, worker task, current update | receive, enqueue, `process_update` with timeout, DLQ insertion | Telegram, the two above, the handlers, the DLQ | redelivery, a full queue, restarts, the worker's own loop | processed at most once; what is answered is accounted for |
| AI guard (`app/services/ai_moderation_guard.py`, `on_message` lines 85-125) | circuit breaker, usage per chat and month | `allow`, `record_success`, `record_failure`, retries, quota | provider in a thread | concurrent calls in flight, cancellation, quota read before the call | the breaker opens on a burst, spends its probes, closes again; a bounded overshoot |
| Payments (`app/services/payments.py`, `app/db/payments.py`, `app/handlers/payments.py`) | tables `payments`, `payment_audit`, `support_tickets` | invoice, pre-checkout, successful payment, refund, Star transaction | idempotency, subscriptions | several statements, each may fail; redelivery after a crash | one charge credits once |
| Subscriptions (`app/db/subscriptions.py`, `app/services/subscriptions.py`) | `subscriptions.until`, `users.until`, reminder flags | upsert, reminders, expiry, cleanup | payments, scheduler | two copies of the end date, flags not reset | the copies agree; each period is reminded |
| Send queue (`app/services/send_queue.py`) | queue (2000), per-chat and global send times | enqueue, worker, backoff, retry | Bot API | sleeps between reading and writing the trackers | rates kept, bounded retries |
| Dead letter queue and CLI (`app/services/dlq.py`, `worker.py`) | table `dlq`, its gauge | add, list, replay, mark, cleanup | webhook worker, operator | replays by several processes, two text formats of one date, a gauge in one of them | a row is replayed once, kept for its days, and counted |
| Adaptive rate limits (`app/services/rate_limits.py`, `app/middleware/adaptive_rate_limit.py`, `app/handlers/admin_rate_limits.py`) | table `rate_limits`, cache and buckets per process | status, set, reset, defaults at a start | administrators | caches with a time to live over a table two processes write | a bucket follows its row, a decision stands |
| Callback rate limit (`app/services/rate_limit.py`, `app/sched/ratelimit_cleanup.py`) | bucket and mute per user | `allow`, `cleanup` | button handlers | refill, mute and cleanup by a thread without a lock | never more than burst and rate; no one within them refused |
| Moderation (`app/services/moderation.py`, `app/handlers/group.py`, `app/db/queries.py`) | row `user_state`, flood window, captcha timers | message, join, callback, timeout | Bot API, threads | a read-modify-write of the row in a thread that outlives its handler | the n-th warning of a day bans; a captcha mutes who does not solve it |
| Migrations and backups (`app/utils/migrate.py`, `app/db/session.py`, `app/services/maintenance.py`) | schema, `schema_version`, WAL, backups | plan, back up, apply, checkpoint | start of the service, command line | `executescript` commits; a process may die at any statement | what is on record is applied; a start gets through |
| Startup, shutdown, scheduler (`lifespan`, `app/utils/scheduler.py`) | tasks, jobs | start, stop | all | one failing step skips the others | the service comes up again after it died |
| Configuration, logging, metrics, health, i18n, menus, basic commands | none worth a model | | | | |

## 2. Modules written

### `IdempotencyStore`: the table and the guard, one SQL statement per step

State: `row` is the table, `task[c]` the local state of a task inside `with_idempotency`
(its place in `begin()`, its key, the timestamp `begin()` took, the row it decided to take
over), `answer` what `begin()` told it, `victims` the keys a purge has selected and not yet
deleted, `now` the clock. Actions: `Begin`, `Insert` (both insertions), `Read` (both reads),
`Reacquire` / `ReacquireFails`, `Return` (commit), `Raise` (fail), `Cancelled` (neither),
`PurgeSelect`, `PurgeDelete`, `Tick`, `Crash`. `begin`, `commit` and `fail` never await, so
tasks of one process do not interleave inside them (`LoopFree`); tasks of two processes do,
and the purge runs in the scheduler's thread, so it interleaves with everything.

Four things break the exclusion of two live leases, and the history variable `cause` names
which happened to a key: `blind` (`begin` found no row twice and answers "acquired" anyway),
`stale_clock` (a row created after the caller's own timestamp counts as expired),
`lost_update` (the `UPDATE` that reacquires has no condition on what was read), `purged_live`
(the purge deletes by key a row that was retaken after it was selected). Without one of them
the leases do exclude each other, in any number of processes: that is `LeaseExclusion`.

Abstractions: the purge selects all expired rows (the code's `LIMIT 1000`); handlers are the
state `handler` of a task; a key is opaque (`make_key` is a plain string of its parts).

### `SeenCache`, `SeenUpdates`: the duplicate cache

`SeenCache` holds the pure operators of `is_duplicate_update` (`Pushed`, `Trimmed`,
`Remember`); `SeenUpdates` runs them on a stream of increasing ids with arbitrary
redeliveries. With the code's 5000/6000/5000 the window of ids that are certainly
recognised is 3999, not 5000: `Window`. Ids that fall off the deque stay in the set for
ever (`Stranded`), and `CacheBounded` shows there are never more than 1001 of them.

### `UpdateDelivery`, `UpdatePipeline`: the way of an update

`UpdateDelivery` is the promise: an update goes new, accepted, processing, then processed or
dead (DLQ), or is lost; never twice and never back. `UpdatePipeline` is the code: the cache,
the row of the update, the bounded queue and the requests inside `put()`, the worker, the
`dlq` table, redeliveries and restarts. From the body of a request to its answer the webhook
only yields when the queue is full, so `WebhookSeen`, `WebhookRefused` and `WebhookAccepts`
are one step each, and `WebhookWaits` / `PutResumes` two. The rows live 48 hours, longer
than Telegram repeats an update, so none expires here: the expiry is `IdempotencyStore`'s
business, and `Acquires` / `Commits` are what that module's `Insert`, `Read` and `Settle` do
to a row that does not expire. History variables: `started` and `processed` count calls and
returns of `process_update`, `lost` and `blind` record why the promise was given up.

`MCWebhook.cfg` and `MCWorkerStops.cfg` are two instances of it.

### `AiGuard`: circuit breaker, retries and quota

One tick is `window_sec` (60 s); `open_duration` is two. A call waits at the provider or in a
backoff and may be cancelled at either (the handler's timeout). `CallTime` bounds how long a call
lasts: its timeouts and backoffs add up to seconds, less than one tick. What the provider says is
abstracted to an answer or a failure. `usage` is `ai_usage` of one chat in one month; a read of it
that fails lets the call go on unchecked (`moderation.py:106`) and a write that fails leaves it
uncounted (`Fault`); `faults` counts both, and `answered` the calls the provider answered, which
is what the quota is compared with. The code filters the failures by the window; `Recent` cuts the
front off the list, which is the same for a list in the order of time (lemma `RecentIs`), as this
one is: its only source is `_now()`. Four variables are history: these two, `probed`, which counts
the calls let in since the breaker went half-open, and `failedAt`, the log of failures since the
last success. The names of the module carry `guard` or `Guard`, those of `SeenUpdates` `seen` and
those of `Callbacks` `bucket`, because their proofs share a module with others'.

### `Subscriptions`, `Payments`: what a charge buys

`Subscriptions` holds the two ends of a plan (`until` is `subscriptions.until`, `account` is
`users.plan` and `users.until`), the reminder flags, what a running `run_reminders` has still
to send (`due`), and one action per job: `FindDue`, `Remind`, `RemindFails`, `ExpireDue`,
`Cleanup`. `Payments` extends it with `handle_successful_payment` at one statement per step:
`Receive` (the lookup of the charge), `Begin` (the idempotency row), `Record`, `Activate`,
`Upgraded` / `UpgradeFails`. The jobs of the scheduler's thread may run between any two of
them, `run_reminders` only where the handler awaits; the process may die anywhere. One tick
is a day. History variables: `credited` counts the extensions a charge made, `unrecorded`
names charges that extended without being in the table, `cut` those whose activation failed
or never ran, `sent` and `again` the reminders of the current period, `excused` the users
whose flags were deleted or not written. A reminder that arrived and whose answer timed out
(`send_message` raises) is the second case of `Remind`: sent, no flag, the run over;
`RemindFails` is one that did not arrive.

Abstractions: whether an idempotency row that is found has expired is left open; a user has
one row in `subscriptions` (the plan code is fixed); the columns are ISO strings that the
code compares as text, which is the order of the dates except in `Cleanup`, where a `T`
stands against a space and moves the limit by a day (`Stale`). `run_in_threadpool` is not a
method of the pinned python-telegram-bot; both outcomes of the call are kept, since either
version may be installed.

### `Backoff`, `MessageLine`, `SendQueue`: the outgoing messages

`Backoff` computes the sets of sleeps `_calculate_jittered_backoff` draws from. `SendQueue` is
the bounded queue with handlers waiting for room (`Put`, `PutCancelled`), the one worker
(`Get`, `Spaced`, `Call`, `Succeed`, `Throttled`, `Fail`, `Reject`) and `stop()`. `worker`
holds the local variables of `_send`: both pauses are computed at its start (`sleep`, `cap`),
as in the code. The trackers are kept as ages that stop growing at the gap they are compared
with, and attempts are told apart up to the one that gives up, so neither the clock nor the
throttled retries need a bound of their own; `MaxThrottles` bounds the environment, for
`EachLeaves`. The sleeps are constants of `SendQueue` (any sets of naturals), which
`MCSendQueue` takes from `Backoff`. History: `failures`, `throttles`, `quiet`.

`MessageLine` is the promise: messages form one line, each joins it once at most, and only the
first of the line leaves it, sent or dropped. The line is the message at the worker and the queue
behind it (`LineMap`); who waits for room in `put()` has not joined.

### `Moderation`: the row of a member and everybody who rewrites it

State: `row` is the row of `user_state` (warnings, the age of the last one, the age of the join
and the captcha flag in the JSON `last_msgs`), `thread[t]` the row a thread inside
`add_warn_and_maybe_ban` is about to write, `loop` the row the event loop is about to write for a
join or a solved captcha. A message is `BadMessage`, `Linked`, `Message` or `LinkPasses`, after
the branch of `on_message` it takes. A link is `allowed` by the chat's list, which lets it pass
whoever sends it, `denied` by the configuration, or `other`, which waits a day (`ShouldBlock`).
Each warning begins with `Warn` and ends with `WarnWrites`, which replaces the whole row. A join
or a press is `Begin`, `Merge` (`upsert_user_state` reads the row again, for the warnings only)
and `LoopWrites`. Any change of membership counts as a join, be it a ban, and any member's press
as an answer, as in the code. Each join arms a timer in its own handler (`armed` counts them);
`CaptchaDue` ends one, and mutes unless the row or Telegram fails it, which `cut` records.
`HandlerTimesOut` is the worker's timeout, which leaves the thread behind, `SleeperTimesOut` the
same timeout for a handler that sleeps for its captcha; `WarnFails` and `LoopFails` are statements
on the row that fail. `inline` chooses between the worker and `WEBHOOK_INLINE_PROCESS`.

Two writers that overlap lose one write or the other; the history variable `raced` records
that it happened. The properties say what holds until then. Abstractions: one tick is an
hour or more, so that only "within a day" and "older" are told apart; the flood window and
the captcha timers end at any time; whether a message repeats another, and whether it is
profane, is left open. The AI branch is `AiGuard`.

### `RateLimits`: a table, caches and buckets

State: `row` is the table `rate_limits`, `service[p]` the cache of a process with the ages of
its entries and the setting each token bucket was built with. The operations of
`RateLimitService` are operators on one such record (`Configured`, `Consulted`, `Stored`,
`Dropped`, `Listed`), the commands of the administrators actions that apply them
behind the middleware's own look-up. `StartReads` and `StartInserts` are `ensure_defaults`,
which reads once and inserts later. `rowAge`, `foreign`, `choice` and `contested` are history.
The tokens in these buckets are not modelled: no call ever takes one (see section 5).

### `Callbacks`: the token bucket on button presses

State: `stored` and `entry` are `_store`, `listed` the keys `cleanup` has found idle and not
yet deleted. A press owes as many calls of `allow()` as there are handlers (`pending`); each is
`Take`, `Refuse` (muted) or `Penalise` (empty, which mutes). `List` and
`Delete` are the cleanup in its thread. `debt` is the reference the bucket is compared with: what
was let through less what the rate has worked off since. `slipped` names the keys the
cleanup deleted although they were used after it listed them. What a handler does with the answer
is not modelled: `settings.on_callback` catches whatever telling a refused user raises, and then
goes on as if `allow()` had said yes (`app/handlers/settings.py:85`), so the properties bound
the presses the bucket lets through, not the menus that react.

### `DeadLetters`: the table of failed updates and the commands

State: `present` and `replayedAt` are the table, `gauge` the metric of the service, one number for
each type, `known` the types whose gauge has counted what the service added (after a restart every
gauge is zero, and only an insertion of a type counts it anew), `at` and `step` where each
`dlq:replay` is. `Insert` and `Count` are `add_to_dlq`, `Find`, `LookAgain`,
`Mark` and `GiveUp` a replay, `Cleanup` `dlq:cleanup` with its comparison of two text formats
(`Old`). A tick is a part of a day. What a replay does with the row's content is external:
the commands only report it.

### `Migrations`: files, versions, copies

State: `done` the statements of each file in effect, `recorded` the committed rows of
`schema_version`, `lock` the run whose version is not committed yet, `pc`, `file`, `stmt` where
each run is, `service` how far a start is. `Plan`, `CopyStarts`, `Apply`, `Execute`, `Record`,
`Commit` and `Fails` are one run of `migrate()`; `InitDb`, `Migrates`, `Migrated` and `Ready` the
start of the service; `Checkpoint` what SQLite writes from the WAL into the file when a connection
closes or the maintenance loop asks for it. `Die` and `FailsByAccident` (any statement of a file:
a full disk, a lock that is not released in time) are the accidents. The first `init_db` commits
tables, so it disturbs a copy like any other writer. A dry run changes nothing here, since the
table of versions it may create is empty. `Fragile` are the files with a statement that cannot run
twice, `Dependent` those that need a table of `init_db`. SQLite itself is modelled from how the
code uses it.

### `MC*` modules

They declare the model values, the process assignment and the symmetry sets of the `.cfg`s.
`MCWebhook` and `MCLimiters` put two components of one process side by side that share no state:
one of them moves and the other is as it started. What a property says of one component does not
depend on the other, so nothing is lost by leaving out their interleavings, which would multiply
the states.

## 3. Runs

| Run | Instance | What it shows |
|---|---|---|
| `idmp` | 3 tasks in 2 processes, one key, TTL 2, clock to 3, purge jobs, failing statements | `LeaseExclusion`, `HolderOwnsRow`, `SettledStays` |
| `webhook` | 2 updates, queue of one place, 3 deliveries, 2 restarts, failing statements, fair; beside it the cache alone, 5/7/5 in the place of 5000/6000/5000, 15 additions | `AtMostOnce`, `AnsweredIsAccounted`, `DoneMeansQueued`, the refinement `DeliverySpec`, `QueueMovesWhileFailing`; `RecentRemembered`, `CacheBounded` |
| `worker_stops` (violated) | 2 updates, nothing fails, fair | `QueuedIsStarted`: the `break` at `app/main.py:192` ends the worker after its first success |
| `payments` | 1 user, 2 charges, 3 deliveries, period 3, clock to 5, 2 failures or crashes | `CreditedOnce`, `RecordedIsCredited`, `PaidTimeCovered`, `PaidPeriodHonoured`, `RepeatsNeedCleanup` |
| `duplicate_charge` (violated) | as `payments`, 1 failure | `DuplicatesPrevented`: a charge whose record failed is credited at each delivery |
| `send_queue` | 3 messages, 2 chats, queue of one place, gaps 3 and 2, 2 attempts, 1 throttling, fair | `SentSpaced`, the refinement `LineSpec`, `EachLeaves` |
| `ai_guard` | 2 concurrent messages, threshold 3, 2 probes, 1 retry, quota 2, 2 failing statements, clock to 6 | `ProbeBudget`, `HalfOpenQuiet`, `OpenNeedsBurst`, `QuotaOvershoot` |
| `moderation` | 2 threads, 2 warnings to a ban, flood after 1 message, 2 captcha timers, worker or inline, restarts, fair | `WarnsAreStreak`, `Earned`, `SolvedIsSpared`, `UnsolvedIsMuted` |
| `captcha_in_worker` (violated) | as `moderation`, 1 timer, fair | `JoinerIsMuted`: the worker cancels the handler, and the captcha timer in it |
| `limiters` | 2 processes, a default and a custom scope, 2 settings, time to live 2; beside them 1 user's presses, the numbers of `main.py` in ticks of 5/3 s, 3 overlapping | `BucketIsRow`, `BuiltFromRecent`, `DecisionStands`; `RateBound`, `MuteHolds`, `OnlyExcessRefused` |
| `dead_letters` | 3 rows of 2 types, 2 replays, days of 2 ticks, cleanup after 1, clock to 5 | `ReplayedOnce`, `GaugeCovers`, `CleanedInTime` |
| `migrations` | a start and a run with a backup, 3 files of 2 statements, 2 accidents, fair | `RecordedApplied`, `StuckByAccident`, `CopyWhole`, `EventuallyReady`, `EventuallyMigrated` |

No run repeats a type invariant: the theorems of section 4 prove those of all the detailed modules.

Why the bounds are enough. `idmp`: the statements name one key and nothing relates two (the
purge's set of victims is the union of what it does to each). Three tasks: a holder, one that
takes over and one that arrives late; two of them are alike, in the new process. TTL 2 and clock
3: a row can be created, expire, be retaken and be purged. The cache's sizes keep the code's order
(deque = kept < limit) and leave room for ids to be stranded, and 15 additions make several trims.
`webhook`: a queue of one place makes a request wait with two updates; with three deliveries an
update can be repeated twice, or come after its copy was lost in a restart; two restarts can fall
before and after the answer. A trim of the cache needs a third update: the other half of the run
`webhook`, and the theorems, have that. In `ai_guard` the clock lets the breaker open, go
half-open, reopen and go half-open again.

Two charges of one user are a purchase and a renewal; users do not share rows. Three
deliveries repeat either charge, or one of them twice; with two mishaps a charge can fail in
its record and again in what follows. A period of three ticks reaches every reminder (3, 1
and 0 days left), and the clock goes on until the cleanup.

In `send_queue` two messages share a chat and the third does not, so that both pauses occur
alone and together; with one place in the queue a handler has to wait.

`moderation`: a day is one tick, so an entry is of today, a day old, older or missing; two
warnings are the first and the one that bans, and two threads are what it takes to overlap;
with two timers one can mute while the other, of an earlier join, is still running.
`limiters`: two processes are a restart that overlaps; a default scope and a custom one
are the two kinds `ensure_defaults` tells apart. The presses have the real numbers: rate 6 in
10 s, burst 6, cooldown 15 s, cleanup after 50 s; users share only the cleanup, which treats
each key alone. `dead_letters`: a day of two ticks lets a replay fall in the first or
the second half of the day of the cutoff, and the clock goes on until the day after it; two rows
share a type and one does not, so that an insertion of one type leaves the other's gauge alone.
`ai_guard`: with two failures the usage can miss a read, a write, or one of each.
`migrations`: a file before, the one that needs `init_db` and the one that cannot be repeated;
each of two accidents may fall anywhere in a start or a run.

Fairness. `UpdatePipeline`: weak fairness of the worker's `get`, of the end of
`process_update` (`asyncio.timeout` with `WEBHOOK_HANDLE_TIMEOUT_S` ends it) and of each
waiting `put`: the event loop runs whatever can run, and no handler blocks it for ever. No
fairness of Telegram, of successes, or of restarts; `QueueMovesWhileFailing` is stated
accordingly. `SendQueue`: the worker moves when it can and time goes on; each call of the Bot
API returns or raises, by the client's timeouts; a handler waiting in `put()` is woken by each
`get()` in the order of arrival, hence strong fairness of its `Put`. That Telegram throttles a
message finitely often is an assumption (`MaxThrottles`): the code would retry for ever.
`Moderation`: the loop finishes what it writes, and, inline, runs a timer that is due: strong
fairness, because the timer is not enabled while the loop writes. In the worker it is the timeout
that is sure to come (`SleeperTimesOut`), and the timer is left open: an administrator may set
`captcha_ttl_s` below the timeout. `Migrations`: a run goes on, and the
service is started again after it ended, which `restart: unless-stopped` of the compose file
does; accidents are finitely many (`MaxAccidents`), without which nothing ever gets through.

`CHECK_DEADLOCK FALSE` is used where the system really stops: the bounds on deliveries and
additions are used up, or the worker has ended.

## 4. Proofs

`IdempotencyStoreProofs` proves, for any tasks, keys, processes, assignment, TTL and clock:

- `TypeCorrect`: `Spec => []TypeOK`.
- `ExclusionHolds`: `Spec => [](LeaseExclusion /\ HolderOwnsRow)`; and `HolderKeepsRow`, its
  second half.
- `OneLoopExclusion`: with one process and no database error
  `Spec => []OnlyPurgeBreaksExclusion`.
- `SettledHolds`: `Spec => SettledStays`, an action property, from the same invariant.

`LeaseExclusion` is not inductive. The strengthening is that the holder of a live lease owns
the row (`HolderOwnsRow`): the row's `created` and `expires` are the timestamp `begin()` took
and that plus the TTL. So a second insertion finds a row, a second `begin()` reads one that has
not expired, and a reacquisition of it is one of the accidents `cause` records. For that, a
task at `reacquire` must remember a row that was expired at its timestamp or younger than it;
the other part of the invariant. A task's timestamp is never ahead of the clock. For one event
loop the invariant adds that at most one task is inside `begin()`, that between its
statements only the purge can have touched the row it saw, and that no row is younger than
its timestamp. Each action has a step of its own; `SettleRow`, `MoveTask` and `DropTask` are
the lemmas they share.

`UpdatePipelineProofs` proves, for any updates, requests, queue size, cache sizes and bounds on
deliveries and restarts (`PipelineAssumption`):

- `TypeCorrect`: `Spec => []TypeOK`. The cache's set is finite, by the same invariant.
- `ProcessedOnce`: `Spec => []AtMostOnce`. The strengthening, `OnceInv`, gives every update
  that `begin()` checked at most one place: one request that waits in `put()`, or one place
  in the queue, and none before its row exists; on its way it has not been started, at the
  worker it has been started once. A repeated delivery can only get past the cache, and then
  meets the row.
- `CommittedAfterPut`: `Spec => []DoneMeansQueued`.
- `AnsweredStaysAccounted`: `Spec => []AnsweredIsAccounted`. The strengthening, `AccountInv`:
  not only the answered updates but every one in the cache or with a row is accounted for,
  which is why the two early answers (`WebhookSeen`, `WebhookRefused`) are harmless.
- `DeliveryRefined`: `Spec => DeliverySpec`, by the map `StageMap`: each step moves at
  most one update to its next stage (`OneMoves`, `Taken`) or none (`SameStage`), and a
  restart moves a set of them to `lost`. It rests on `OnceInv`.

Its second half is about the cache alone (`SeenUpdates`), for any sizes in the order of the
code's (`CacheAssumption`) and any number of additions: `SeenTypeCorrect`, `WindowRecalled`
(`RecentRemembered`) and `LeakIsBounded` (`CacheBounded`). The invariant `SeenInv` is an account:
the set holds at most as many ids beyond the deque as fit between the deque and the limit
(`Well`), so a trim finds the deque full and takes from both the same number of ids; and the deque
is the end of what was added, as long as the window or all of it (`Recalls`). That the trim
removes as many ids as it counts is `ForgetCounts`: an id is in the deque once.

`PaymentsProofs` proves every property of the run `payments`, for any users, charges, period,
clock and number of deliveries and mishaps (`SubscriptionAssumption`, `PaymentAssumption`):

- `TypeCorrect`; with it, that a charge is activated at most once in a delivery.
- `ChargedOnce`: `Spec => []CreditedOnce`. The strengthening (`OnceInv`): what was activated is
  in the table, and a charge on its way to `Activate` has not been activated.
- `RecordedActivated`: `Spec => []RecordedIsCredited`; added is that the handler reaches the
  upgrade only after the activation.
- `TimeCovered`: `Spec => []PaidTimeCovered`, by `OneMore`: a period more covers a charge more,
  whether the subscription was still running or not.
- `PeriodHonoured`: `Spec => PaidPeriodHonoured`, an action property: `users.until` covers a
  period from the last activation unless the upgrade of a charge of that user is under way or
  was cut off (`HonouredInv`).
- `RepeatsExplained`: `Spec => []RepeatsNeedCleanup`; added is that a reminder still to be sent
  has no flag.

`SendQueueProofs` proves, for any messages, chats, gaps, backoffs and numbers of attempts
(`SendQueueAssumption`):

- `TypeCorrect` and `GivenUpLate` (`Spec => []AttemptsSpent`), together: the attempt is at
  least one where the backoff is looked up, and every attempt but the present one is a
  failure or a throttling (`SpentInv`).
- `SpacingHolds`: `Spec => SentSpaced`, an action property: the sleep that is left makes up
  for what the age of the tracker lacks (`SpacedInv`), which stays true of the second pause
  although it is computed before the first is slept.
- `OrderIsKept`: `Spec => LineSpec`, the refinement: a step moves one message in the line
  (`FirstLeaves`) or none (`LineStands`). The invariant `Lined` says that a queued message is in
  the queue once, so that the one taken is not also behind.

`RateLimitsProofs` proves, for any processes, scopes, defaults and settings
(`RateLimitsAssumption`): `TypeCorrect`, `BucketsFollow` (`BucketIsRow`), `DecisionsStand`
(`DecisionStands`) and `BuildsAreRecent` (`BuiltFromRecent`, an action property). `BucketIsRow`
needs `Cached`: unless another process changed the row, an entry and a bucket are the row or are
not there (`Fits`); and an entry that is not the row is older than it (`Predates`).
`DecisionStands` needs that a scope a start is still to insert was never decided on, or deleted,
or decided on since the start looked (`Waiting`); a process that is down holds nothing (`Down`).
Each operator on the record of a process has a lemma, each action cites those of the operators it
applies.

Its second half is about `Callbacks`, for any rate, burst, cooldown and number of presses,
provided an idle bucket is full and its mute over when the cleanup may list it
(`CallbacksAssumption`; the numbers of `main.py` satisfy it): `BucketTypeCorrect`,
`RateIsBounded` (`RateBound`), `MuteIsKept` (`MuteHolds`) and `RefusalIsEarned`
(`OnlyExcessRefused`). The invariant `Accounts` is the book-keeping between the bucket and the
reference: the tokens it will have after the refill that is due and the debt add up to the burst.

`DeadLettersProofs` proves, for any finite set of rows, any replays and any length of a day
(`DeadLettersAssumption`): `TypeCorrect`, `OneSuccess` (`ReplayedOnce`), `GaugeIsAbove`
(`GaugeCovers`, type by type) and `CleanupIsTimely` (`CleanedInTime`). The first rests on where a
replay that is under way stands to the row (`AtWork`, `Marked`, `Met`); the last on `OldToADay`,
which turns the comparison of dates into one of times.

`ModerationProofs` proves, for any threads, limits and bounds (`ModerationAssumption`):
`TypeCorrect`, `WarningsAreCounted` (`WarnsAreStreak`), `BansAreEarned` (`Earned`) and
`SolversAreSpared` (`SolvedIsSpared`). The strengthening (`Clean`) says of every writer under way
that the row it read is still the row (`Fresh`, `LoopFresh`), until writers overlap, and of the
row that it agrees with the history (`Agrees`). `TypeCorrect` needs `TimerLeft` besides: a join
under way has left room for its timer.

Its second half is about `AiGuard`, for any callers, threshold, probes, retries, quota and
durations, provided the window is shorter than the time the breaker stays open (60 and 120 s in
the code; `GuardAssumption`): `GuardTypeCorrect`, `ProbesAreBudgeted` (`ProbeBudget`),
`HalfOpenIsQuiet` (`HalfOpenQuiet`), `BurstsOpen` (`OpenNeedsBurst`, an action property) and
`QuotaIsBounded` (`QuotaOvershoot`). The inductive invariant `GuardInv` has three parts.

- `Log` and `Calm`: the failures the breaker keeps are the end of the log of failures since the
  last success, in the order of time. An open breaker with a threshold of failures has the one
  that made it open no later than `opened_at`, so that it has left the window when the breaker
  goes half-open: this is where `Window < OpenFor` is needed, without which `HalfOpenQuiet` is
  false. And when a failure opens the breaker, the threshold-last entry of the log is in the
  window, because what the window keeps is an end of it (`RecentEnds`, `FailureIs`).
- `QuotaInv`: the calls answered are no more than `usage` and the faults together; and with the
  calls in flight that were let through to the provider (`InFlight`) they exceed the quota by no
  more than the other callers and the faults. A call that starts finds `usage < Quota` or is a
  fault; one that is answered leaves `InFlight` as it counts.
- `Placed` and `ProbeBudget`: a call without quota is never at the provider, and one in its
  backoff has an attempt left.

`MigrationsProofs` proves, for any files, statements, runs, fragile and dependent files and
accidents (`MigrationsAssumption`): `TypeCorrect`, `VersionsAreApplied` (`RecordedApplied`),
`StuckIsHurt` (`StuckByAccident`) and `CopiesAreWhole` (`CopyWhole`). The inductive invariant has
two halves that do not need each other. `FilesInv`: the recorded versions have no gap
(`Prefix`); a run under way has every lower file behind it on record and of its own file the
statements up to the one it is at (`UnderWay`), though others execute the same file; what needs
the tables of `init_db` was applied where they were (`Based`); and a fragile file that is begun,
not on record and not hurt is in the hands of a run at its next statement (`Held`), which is why
one that fails was not the one. `CopiesInv`: what is committed and not in the file is in a WAL
that somebody else keeps open, and nobody does while a run that is not excused copies (`Watched`).

Every invariant and every action property of the runs, and both refinements, are stated by a
theorem; `AttemptsSpent` is proved alone. Only model-checked are the liveness properties, which
are stated under fairness and out of the prover's reach: `QueueMovesWhileFailing`, `EachLeaves`,
`UnsolvedIsMuted`, `EventuallyReady`, `EventuallyMigrated`; and the three properties the code
violates.

## 5. What the models say about the code

Three disagreements with a document or a comment have a run that shows them:

- `worker_stops`: the worker ends after its first success (`app/main.py:192`).
- `captcha_in_worker`: the captcha timer of 60 seconds sleeps in the handler, which the worker
  cancels after 8 (`app/services/moderation.py:338`): nobody is muted, though the comment above it
  says so. Inline `UnsolvedIsMuted` holds.
- `duplicate_charge`: `docs/extended-payment-handling-scope.md:242` promises "100% duplicate
  prevention via charge_id"; a charge that could not be recorded is credited at every delivery.

Others met on the way, visible in the models without a run of their own:

- `begin()` answers `exists_processing` for a row whose status is `failed` (`Refusal`), so the
  retry of a failed handler is skipped until the row expires, though
  `idempotency_guard.py:31` speaks of another worker that is processing.
- `attempt_count` is counted to `max_attempts` before the single attempt
  (`app/main.py:176`): an update that fails once is stored with three attempts, while
  `docs/dlq-spec.md:37` promises retries with backoff.
- A restart loses updates that were acknowledged and whose row, `done`, refuses the
  redelivery (`lost` in `UpdatePipeline`); `docs/dlq-spec.md:258` promises no loss.
- `subscriptions.until` adds a period to what was left, `users.until` is a period from now:
  after an early renewal the plan ends before the subscription (`docs/payments.md:18` names
  `users.until` alone).
- The AI branch of `on_message` asks only whether `subscriptions.until` is set
  (`app/services/moderation.py:92`), and `expire_due` clears only `users`, so it stays open
  after the end that `docs/payments.md:22` announces.
- The reminder flags survive a renewal (`app/db/subscriptions.py:68`): a second period has no
  reminders. One message that fails ends the run for all later users
  (`app/services/subscriptions.py:25`).
- A charge whose handler died after its record is never credited (`cut` in `Payments`).
- The retries of a message are spaced by the backoff alone, which with full jitter may be 0,
  and a call that timed out may have arrived: Telegram may see more than one message a
  second, and the same one twice. A message throttled `max_attempts` times is dropped at its
  first network error. `BadRequest` is a `NetworkError` and is retried like one.
- With decorrelated jitter a delay reaches three times `BACKOFF_MAX`
  (`app/services/send_queue.py:102`); `docs/jitter-backoff-spec.md:186` says it never exceeds it.
- `SendQueue.stop()` catches `Exception`, which `CancelledError` is not, so in `lifespan` the
  rest of the shutdown is skipped (`app/main.py:280-305`).
- A half-open breaker that has spent its probes on cancelled calls refuses for ever
  (`Refuses`): only a success or a failure of a call leaves that state.
- When the usage cannot be read the provider is called without a check
  (`app/services/moderation.py:106`), and when it cannot be written the call is free (`Fault`).
- A message of a chat over its quota calls a provider that is `None`; two of them, with
  their retries, open the breaker that all chats share.
- The flags of an ended subscription are deleted by the cleanup, so its last reminder goes out
  again, while `docs/payments.md:23` calls the reminders idempotent by these flags.
- Inline, a mute that Telegram refuses is only logged (`app/services/moderation.py:397`).
  `captcha_ok` is never reset, so who joins again is not asked, and any member may press the
  button of another's captcha. A ban is a change of membership too, and asks the banned for a
  captcha. The count of warnings is not reset by the ban, and the limit is that of the
  configuration, not of the chat. In `on_message` a local `t` hides the translation function, so
  the notices at `app/services/moderation.py:170` and `:228` raise and are not sent.
- A warning in a thread and a join or captcha on the loop overwrite each other's row
  (`app/db/queries.py:97`), also across a handler's timeout.
- The adaptive limit never limits: `check_rate_limit` calls `consume`, which `TokenBucket` does
  not have, and the middleware allows whatever raises. Only the scope `admin` is consulted. A
  bucket never expires, and an entry whose row another process deleted stays in the cache, though
  `docs/adaptive-rate-limits-scope.md:241` promises at most 30 seconds of staleness.
- A start restores any default that was deleted, while `docs/adaptive-rate-limits-spec.md:89`
  speaks of an empty table.
- A refused press whose answer raises is handled as if it were allowed
  (`app/handlers/settings.py:85`).
- Each press reaches three handlers and costs three tokens, so a burst of six is two presses.
- `dlq:replay` reports a success whatever `mark_replayed` returned. `add_to_dlq` may raise after
  the row is in. The gauge of a command lives in the command's process, and that of the
  service is zero after a restart until a row of the type is added: `docs/dlq-spec.md:54` calls it
  the current number of unreplayed items.
- A migration that died inside a file without `IF NOT EXISTS` can never be applied again
  (`Stuck`). `migrate` on an empty database fails at the first file that needs `init_db`. The
  copy before a migration leaves out what is only in the WAL; `shutil.copy2` keeps the
  database's own time, by which old copies are chosen for deletion.
- The first trim of the cache forgets ids newer than the stranded ones (`app/main.py:58`).

## 6. Plan, and what is not modelled

Done: the idempotency store, the cache, the pipeline with its refinement, the AI guard, the
payments with the subscriptions, the send queue, moderation, both rate limits, the dead
letters with their commands, the migrations with the start of the service. Proved: all but the
liveness properties.

Next: that `AtMostOnce` of the pipeline follows from the idempotency store rather than from a
row that does not expire; an abstract specification of the rate-limit caches, with its
refinement.

Not modelled, and why:

- Refunds, Star transactions, the audit and support tickets (`app/handlers/payments.py`,
  `app/db/payment_audit.py`): they send messages and insert rows that nothing reads back.
- The shutdown of `lifespan`: every part it stops may also simply die, which is the `Restart` of
  the models; what an error makes it skip (section 5) ends with the process all the same.
- `db/migrate.py`, a second migrator over the same files: it records only `PRAGMA user_version`,
  never `schema_version`, so that either migrator would repeat what the other
  applied. Nothing in the service calls it, and the models assume that nobody does.
- What a handler does once the bucket of button presses has refused it (`Callbacks`).
- The choice of old backups for deletion, the sizes and intervals of the WAL maintenance.
- The settings menu and `upsert_chat_settings`: one administrator rewrites one row of a chat.
- The signed tokens of the buttons: cryptography.
- Configuration, logging, metrics, health, translations and stateless commands: no state whose
  evolution could be wrong.
