# A TLA+ model of reading-pack-bot

reading-pack-bot answers questions about one fixed reading pack in Slack or
Discord. A platform adapter receives mentions, queues them and hands them to
worker threads; each worker runs `BotService.handle`, which asks a model
provider and posts the answer; a SQLite database remembers which events have
been handled, how many requests were made, and the recent exchanges of every
conversation.

This directory holds TLA+ models of that program, the TLC configurations that
check them on small instances, and theorems with proofs checked by TLAPS. All
paths below are relative to `src/reading_pack_bot/` of the repository.
`PROJECT.json` maps every definition that models code to the lines it models.

1. [Inventory](#1-inventory)
2. [Modules](#2-modules)
3. [Runs and bounds](#3-runs-and-bounds)
4. [Fairness](#4-fairness)
5. [Where the code and its documents disagree](#5-where-the-code-and-its-documents-disagree)
6. [Proofs](#6-proofs)
7. [What is not modelled](#7-what-is-not-modelled)
8. [Plan](#8-plan)

## 1. Inventory

### Parts, their state and their operations

| Part | Code | State | Operations |
|---|---|---|---|
| Conversation lock | `service.py` `_conversation_turn` | a dictionary of counted locks | enter, leave |
| Bot service | `service.py` `BotService` | the locals of `handle`, per thread | `handle`: claim, limits, commands, generate, deliver, commit |
| SQLite store | `stores/sqlite.py` | tables `processed_events`, `rate_events`, `turns` | `claim_event`, `allow_request`, `load_turns`, `append_exchange`, `reset`, `purge`, `close` |
| Memory store | `stores/memory.py` | three dictionaries | the same |
| Slack adapter | `adapters/slack.py` | two bounded queues, turn registers, flags | receive, register/begin/finish/cancel turn, worker, notice worker, start, stop, close |
| Discord adapter | `adapters/discord.py` | an asyncio queue, pending channels, flags | receive, worker, shutdown |
| Message policy, text | `policy.py`, `adapters/common.py` | none | pure functions of a message |
| Providers | `providers/` | none | one request; for Anthropic a bounded loop over `pause_turn` |
| One reply, Slack | `adapters/slack.py` `_worker`, `_post`, `_pace_channel` | the worker's deadline and flags, the time of the last post per channel | generation status, paced posts, error post, clearing of the status |
| One reply, Discord | `adapters/discord.py` `_handle_job`, `_post`, `_call_service` | futures and tasks shared by the service thread and the loop | posts with two timeouts, typing indicator, error text |
| Configuration | `config.py` | the settings | load and check, among others the time budget of a reply |
| Pack loader | `pack.py`, `runtime.py` | none | read a file that others may write, compare it with its pin |
| Command line, doctor | `cli.py`, `doctor.py` | where `main` is, the exception on its way out | preflight, open, purge, serve, close, exit code |
| Service unit | `deploy/quadlet/` | | restart, or not, according to the exit code |

### How they interact

* The platform SDK calls the adapter (`receive_mention` on threads of the Slack
  SDK, `receive_message` on Discord's event loop). It may call it twice for the
  same event.
* The adapter's workers call `BotService.handle` concurrently. For Slack a
  worker is a thread; for Discord a task that awaits a thread, which comes back
  to the event loop for every post.
* `handle` calls the store (one transaction per method, under a process-wide
  lock and SQLite's own), the provider (a minute, perhaps), and the adapter's
  delivery callbacks. Each may raise.
* A timer runs `purge` in another process on the same database. systemd
  restarts the process after a crash, on the same database.
* A signal handler sets two flags; the main thread or task does the rest.
* Slack workers and the notice worker share the pacing of posts, under one lock for
  all channels. A Discord service thread hands posts to the event loop, waits with a
  timeout of its own and cancels what it has given up.
* The numbers `load_config` accepts are the ones the replies run with; systemd
  grants them `TimeoutStopSec`, and acts on the exit code `main` returns.

### What is hard

* The turn of a conversation is held across a provider call of minutes, and
  clock readings, history and claims taken before it are used after it.
* An event must not be paid for twice, however it is redelivered and wherever
  the process is killed; and nothing may enter the history that the channel has
  not seen. There is no transaction that spans the store, the provider and the
  channel.
* The lock of a conversation is itself created, shared and destroyed on demand.
* Two levels of mutual exclusion (the adapter's turns and the service's), two
  queues, pills and joins have to come to an end together on a signal at any
  time.
* A reply in progress is not interrupted when the service is told to stop. Whatever
  fails or hangs in it, and whatever is tried after that, has to end within a
  time that is reckoned once, from settings, in another file.
* The service thread that gives up on a Discord post and the task that makes it
  run independently.
* What stops a start for good and what should be tried again are told apart by the
  class of one exception, which another may replace on its way out.

### What makes each part correct

* **Conversation lock**: at most one thread per conversation; the entry a thread
  holds is the one others find; no entry is left behind; somebody who waits
  gets in or is overtaken by another waiter.
* **Bot service**: an event is paid for at most once, answered at most once and
  remembered only if seen; what the model was shown stays the history until the
  answer is stored; a confirmed reset is a reset; the budget holds; `handle`
  always gives the conversation back.
* **Store**: exchanges stay whole and in order; limits are limits and tables stay
  bounded; both implementations agree.
* **Adapters**: bookkeeping of threads or channels is exact, so none is locked
  out by a mention that is gone; what is accepted is handled or dropped; a
  signal ends the program, in order, with nothing left that uses the store.
* **Replies**: they end in the time the settings were checked against; posts keep
  their distance; no status is left behind; no part of an answer follows the
  report of an error.
* **Process**: a service that cannot work comes to rest, one that can is started
  again; the pack it serves is one its file has held, and the pinned one.

The hazards behind these properties, each at its line, are in `PROJECT.json`.

## 2. Modules

| Module | Models | Uses |
|---|---|---|
| `KeyedMutex` | the promise of a mutex per key | |
| `ConversationLock` | `_conversation_turn`, implements `KeyedMutex` | `KeyedMutex` |
| `StateStore` | the SQL of each store method, as operators on tables | |
| `EventContract` | what `handle` promises about events | |
| `BotService` | `handle` on several threads, with failures and crashes; implements `EventContract` | `StateStore`, `KeyedMutex`, `EventContract` |
| `RateLimit` | `_within_rate_limits` with clock readings of any age | `StateStore` |
| `MemoryStore` | `MemoryStore` next to the SQLite store | `StateStore` |
| `SlackAdapter` | the whole of the Slack adapter's threads; implements `KeyedMutex` per Slack thread | `KeyedMutex` |
| `DiscordAdapter` | the tasks of the Discord adapter | |
| `StopBudget` | the settings of a reply, and the check of `load_config` that it ends in time | |
| `SlackReply` | one job of a Slack worker, in time, next to other workers and the notice worker | `StopBudget` |
| `DiscordReply` | one job of the Discord adapter, in time, between thread and loop | `StopBudget` |
| `PackLoader` | `_read_bounded` while the file is written | |
| `StartUp` | `cli.main`, from `load_config` to the exit code, and the unit | `StopBudget`, `PackLoader` |
| `Process` | the process: a start, and the replies while it serves | `StartUp`, `SlackReply`, `DiscordReply` |
| `*Proofs` | theorems | the module they are about |
| `MC*` | constants and symmetry for TLC | the module they instantiate |

Definitions whose comment begins with *Slip* are plausible mistakes: each is a
definition of the model with one thing changed, and is not part of any
specification. Every property of a passing run is violated when the right slip
takes the place of the definition it is a slip of (`PROJECT.json`, `mutants`), so
that every property is known to say something about the code.

### ConversationLock

The two `with self._conversation_lock_guard` blocks contain no blocking call and
are one action each (`Register`, `Leave`); acquiring and releasing `entry.lock`
are actions of their own, because anything can happen between them. `Entries`
are identities of `_ConversationLock` objects: an identity may be reused for a new
object as soon as nothing refers to the old one, as an address is. `INSTANCE
KeyedMutex WITH inside <- Inside` is the refinement: threads between `Lock` and
`Unlock` are inside. `BotService` uses `KeyedMutex` in place of the dictionary,
which is sound because of it. `RLock` is re-entrant; the code never re-enters.

### StateStore

A table is a set of rows. `processed_events` has rows `[event, expires]`,
`rate_events` `[id, scope, at]`, `turns` `[id, key, role, event, at]`. Contents of
turns are abstracted to the event they belong to, hashed keys to themselves,
time to whole seconds. Every method of the store runs in one transaction under
`self._lock`, so each is one step of whoever calls it.

### BotService

One action per stage of `handle`: the actions are cut where another thread, the
purge job or a crash can come in between.

| Stage (`pc`) | Action | Code |
|---|---|---|
| idle | `Begin` | `now = self._clock()`, policy check |
| claim | `Claim` | `claim_event`; a duplicate ends silently |
| enter | `Enter` | `with self._conversation_turn(key)` |
| user_limit, day_limit | `ChargeUser`, `ChargeDay` | the two operands of `_within_rate_limits` |
| run | `Info`, `ResetHistory`, `CountHistory` | the commands |
| load | `LoadHistory` | `load_turns` |
| generate, provider | `Generate`, `ProviderReturns` | the provider call, before and after the network |
| deliver | `Deliver`, `DeliverRaises` | `_reply`; a failing post may have been made, in part or whole |
| append | `Commit` | `append_exchange`, with a fresh clock |
| exit | `Exit` | the `finally` of the turn |
| any | `StoreFails` | `StoreError`, rolled back |

`reset` commits its deletion and then truncates the WAL: `ResetHistory` has both
outcomes. `Purge` is the timer's process, `Crash` kills the process and empties
every local, `Tick` is the wall clock. Where the process is killed the turn lock
vanishes and the tables stay.

`EventContract` is the abstract specification: stages new, claimed, asked, then
answered or told, each entered once and in this order; and `history` as the set of
events that are remembered. `StageOf` derives the stage of an event from what is
observable (rows, requests, posts), so the refinement has no say of its own.

### RateLimit

Only the two charges, but with the reading of the clock in `Begin` and the charge
any time later, which is what waiting for a conversation does in `handle`.
`granted[s][i]` counts the requests of scope `s` that arrived at second `i` and
passed: the windows that SECURITY.md is about can be evaluated on it after rows
have been deleted. `Passed` is the set of these requests, numbered within their second,
as `Requests` of `BotService` is that of the requests to the provider.

### MemoryStore

Both stores get every sequence of the same calls. A claim, a request and a load are
given the reading with which `handle` began, which may be older than what other calls
have done since; an exchange is dated by a reading of its own. `Readings` are those since the
last purge, because the program purges when it has opened the store and reads the clock
for `handle` only after that. The restriction matters: the two purges keep requests for
different times, so a reading from before one could be answered differently.

The unit of time is the microsecond by which `MemoryStore` dates the answer after the
question, the only difference the two have: an answer may not have expired when
its question has, and then what `MemoryStore` returns begins with half an exchange.
`StoresAgree` says that they agree on everything else, claims, limits and turns, for every
reading the next call may be given.

The list comprehensions are `Sifted(list, I)`, the items of a list at the indices `I`;
`Place(I, n)` is the n-th index. `SelectSeq` would do for TLC, but it is recursive, and the
places of a finite set can be reasoned about without induction.

### SlackAdapter

`Receive`, `PutJob`, `CancelFull`, `PutNotice` are `receive_mention`, which holds
`_intake_lock` from beginning to end (`receiver` is the holder, and where it is)
but takes the turn condition and the queue locks one after the other: workers can
come in between. `Get` to `Account` are `_worker`; `GetNotice` to `AccountNotice` the
notice worker; `ReturnEarly` to `JoinWorkers` are `run`, `start`, `connect` and
`close` on the main thread; `SignalStop` is the signal handler.

`_begin_turn` would wait if it were not a mention's turn. `BeginNeverWaits` shows
that it never does: a thread has at most one mention in the adapter, so that the
worker pool cannot be tied up by one busy thread.

### DiscordAdapter

In both adapters the size of the queue is a setting, chosen from `QueueSizes` in the
initial state and constant from then on, because one run has to see a shutdown with
room for the pills and one without. A task runs alone from one `await` to the next, and so does an action. `Receive`
has no `await` before the mention is queued or refused. The service thread is the
interval between `Get` and `Handle`. `Discard` to `CloseClient` are `_shutdown`;
`PillsDoNotFit` is the exception that `put_nowait` raises there, together with the
second, identical call of `_shutdown` in the `finally` of `_run_async`.

### StopBudget

`Accepted` is the part of `load_config` that concerns deployments (`stage` not
`local`): limits on the timeouts, no retries of the SDK, a queue of one, answers of
one post, and `WorstCase` within `Budget` (115 s, `TimeoutStopSec` less the margin).
Settings that are refused are in `Settings` too: a start has to refuse them.

`TextParts` is the number of posts of the longest text that is no answer. Nothing in the
code bounds it: the text of the `pack` command quotes the header of the pack, in which
`lang`, `primary` and `profile` may be as long as the size of the pack allows (`pack.py`
looks at the length of `v` and `status`). So it is any positive number, and
`SlackEndsInTime` has a term for it.

### SlackReply

| Stage | Action | Code |
|---|---|---|
| queued | `Take` | `_jobs.get()`, and the deadline is set; for the notice worker, `_notices.get()` |
| read | `Read` | `service.handle` up to the provider, a command, a refusal or a duplicate |
| status | `StatusReturns` | `generation_started`: the call that sets the status, which may take effect and fail |
| ask | `ProviderReturns` | one request; a `pause_turn` is submitted again up to the bound |
| lock, sleep | `Pace`, `Slept` | `_pace_channel`: at most one thread sleeps, with the lock |
| post | `PostReturns` | `chat_postMessage` for one part, and `mark_posted` |
| commit | `Commits` | `append_exchange` |
| fail | `Fail` | the `except` of `_worker`: the error text, if there is time |
| clean, clear | `Clean`, `ClearReturns` | the `finally` of `_worker`: the status is cleared, if there is time |

Time is a number in the state: `ReplyTick` lets one unit pass for everybody, and not
when somebody has been in a stage for as long as the stage may last. So a call takes
any time up to its timeout, and what is not a call takes none. The timeouts of
the SDKs (`timeout=` of the clients) are taken to be total bounds of a call. `age`
runs from `_jobs.get()`, `waited` is the part of it that `config.py` does not reckon
with: the store's, and the pacing's.

### DiscordReply

The service thread (`caller`) and the loop (`sender`, `handler`, `typing`) meet in
the queue of callbacks `loop`, which are run in order. `future` is what
`run_coroutine_threadsafe` returns. `GiveUp` is the `TimeoutError` of
`future.result`, with the cancellation as a callback of its own; whether the task
exists by then depends on how far the loop is. `Finally` waits for the callbacks
that are scheduled (`asyncio.sleep(0)`). The loop runs callbacks before time
passes, so that the thread's extra second is enough for the loop to act on the
inner timeout: a loop that is blocked for a second is outside the model. `wait_for` is that of Python
3.12: when it ends, the task it waited for has ended.

### PackLoader

An inode holds two parts and a modification time. Others replace the file, which
makes a new inode, or rewrite it in place, part by part; the clock that dates
writes ticks when it likes, so that several writes may share a date. The loader
opens, stats, reads part by part, stats again, compares, and compares with the pin.
Every version has the same size: that makes the comparison of sizes useless, which is the
worst case. `opened` is the content at the first `fstat`. The configuration is read
by the same algorithm without a pin.

### StartUp and Process

`at` is where `main` is, `error` the exception on its way out, by the two classes
the exit code distinguishes: `ConfigurationError` and `PackValidationError`
("refusal", 2) and the rest ("failure", 1). `fault` is what is permanently wrong with
the deployment. The database may be busy whenever it is opened, purged or closed, and the
failing `close` in the `finally` replaces a refusal that is on its way. The pack is
read twice, by the preflight and by `_run`. `Exit` is the unit.

`Connecting` is `adapter.run` up to serving. The adapters turn whatever the SDK raises
there into a `ConfigurationError`, and do not tell a refused token from a network that
is down for a moment: it may raise with any `fault`, and must with "platform".
`ClientEnds` is the same of Discord's client while it serves; Slack's connects again
in the background. `sdkFailed` remembers such an exception until the process is
started again. `ShutDown(class)` is the `finally` of `_run_async`: with
more workers than places in the queue (`PillsFit`), `_shutdown` raises `QueueFull`, which replaces
what was on its way and which `main` does not catch, so that the status is 1. That
happens after every end of a Discord adapter that has started its workers, a stop included.

`Process` runs `ReplyNext` or `DiscordNext`, as the settings say, while `at` is
"serving"; the settings are those `load_config` has accepted at `config`. Since a
restart finds nothing of the adapters' memory, and the pack is not read again, replies are
looked at in the first life, with an untouched pack.

## 3. Runs and bounds

| Run | What it shows | Bounds, and why they are enough |
|---|---|---|
| `conversation_lock` | exclusion, current entries, no leak, progress, refinement | 3 threads, 2 keys, 3 objects: one thread inside, one waiting on the same object, one that comes when the last has left; as many identities as threads, so reuse is immediate |
| `service_history` | what a worker has read stays true until it commits; history in whole pairs and in order, and of what has been seen; a confirmed reset is one; paid once | 2 workers, 3 questions and a reset in one conversation, 4 deliveries in all, so that one comes twice; one crash; retention of one second and a history of one exchange, so that rows expire, are cut off by the limit, and are reset while others work; limits that refuse nothing, so that a second payment is not prevented by them; symmetric workers and questions |
| `service_events` | daily budget; implements `EventContract`; `handle` always returns | an event of every kind and a second question, 3 deliveries in all, limits of one per user and second and of one per day, so that both refuse; one crash, every failure; no symmetry, which liveness does not allow |
| `rate_parallel` | two workers and the purge job: a window is exceeded by at most one request per worker; table bounded; refusals end | limits of 2, windows of 2 and 3 s, a clock of 5 s and 6 requests: windows pass, both workers slip one in, and more are refused; the bound is reached, one less is violated |
| `memory_store` | the stores agree, whichever readings their calls are given | 2 events, 1 key, 1 scope, a clock of 4 ticks, turns that expire after 2 and claims after 3, 4 rows: cut-off, expiry, reset and purge meet, in and out of the order of the readings; claims are kept longer than a day, so that the purges differ; without the restriction to readings since the last purge the run is violated |
| `slack_adapter` | bookkeeping, order of shutdown, quiet end, mutual exclusion per thread; a signal ends the adapter and what is accepted is resolved | 2 mentions in one thread and one in another, 2 workers, a queue of one or of two: a thread is busy while its mention waits and while it is handled, the queue is full with one mention waiting, and mentions and pills, or two pills, can be in it together; a signal at any time |
| `discord_adapter` | bookkeeping, whether shutdown works or fails; a signal ends the program, in order and with the client closed when the pills fit | 4 mentions in 3 channels, 2 workers, a queue of one or two: without and with room for the pills |
| `process` | replies end in time, in order and leave no status; posts are paced; the pack is a snapshot; what cannot work comes to rest, what can is started again | time in units of about 10 s of provider time: a budget of 8, in which a Slack and a Discord setting take exactly the time they may, and one more request has them refused; local settings with answers of two and three parts; one job next to the notice worker in one channel, so that both pace and one waits for the lock; Discord with one worker and with two for its one place in the queue; commands of one to five posts, of up to two units each, so that a command alone can take longer than the budget; one replacement or rewrite of the pack at any moment, with and without a pin; each fault alone; one crash |
| `preflight` | a preflight that raises restarts for ever | the same settings, a state directory that may not be searched |

Counters without a bound in the code are bounded in guards: `MaxTime`, `MaxDeliveries`,
`MaxCrashes`, `MaxRequests`, `MaxTurns` and `MaxWrites`, each named in the module that declares it. They
bound the environment (time, deliveries, crashes, arrivals), never the program,
which stops in no state because of them: deadlock is checked in every run but for
the stuttering steps `Quiet` and `Ended`, which stand for waiting workers and a
process that has ended.

Two properties have a premise on the constants. `PaidOnce` holds while claims
last (`MaxTime < EventTTL`); after that an event may be paid for again, by design.
`BudgetRespected` speaks about a single day (`MaxTime < Day`), because across days
the clock reading of `handle` matters, which is what `RateLimit` is for.

## 4. Fairness

* `BotService`, `ConversationLock`: weak fairness of each thread's steps. Every
  stage of `handle` ends by itself: SQLite waits at most for its busy timeout,
  provider and delivery have timeouts, and an `RLock` that is free is granted to
  some waiter. Nothing is assumed about which waiter: `Progress` says that *some*
  waiter enters, and `Returns` relies on the number of events being finite.
* `SlackAdapter`: weak fairness of each thread of the process (intake, notice
  worker, main, each worker). Mentions, redeliveries and the signal are not fair:
  they need never happen.
* `DiscordAdapter`: weak fairness of the main task and of the workers while the
  loop runs. The Gateway client need not open, fail or receive anything.
* `StartUp`, `Process`: weak fairness of `Main`, that is, the program and systemd go
  on. Strong fairness of three outcomes: opening the store, the purge and, after a
  refusal, closing the store do not find the database busy *every* time they are
  tried, where the unit tries them again and again. It is the assumption of the
  unit's `Restart=on-failure` itself, and it is about other processes. Nothing is assumed
  of a running service: it may serve for ever, the operator need not stop it, and the
  platform may be within reach or not whenever it is tried.
* Replies are judged by safety properties, with time in the state. What this takes
  for granted is under *SlackReply* and *DiscordReply* above.

## 5. Where the code and its documents disagree

Each of these is a run that expects a violation.

* `rate_exceeded`. `handle` reads the clock, waits for its conversation, and only
  then charges the limits with the old reading. Meanwhile another worker can have
  charged a later request to the same scope, which deleted the rows that are older
  than *its* window. The old request is then counted against a window whose rows
  are gone and passes. SECURITY.md says that limits apply when parallelism is
  greater than one. `WindowNearlyRespected` states what does hold: with `n` workers
  at most `n - 1` requests too many per window (`n` if the purge job runs), so that
  a single worker without a purge job is held to the limit.
* `slack_duplicates`. `receive_mention` knows nothing of event ids. A redelivery
  while its first delivery is in hand finds the thread busy and is answered with
  the overload notice. docs/architecture.md says that duplicate events are silent.
* `discord_stop`. `_shutdown` puts a pill per worker into the queue without letting
  a worker run. Outside local use `config.py` fixes the queue size at 1, so with
  two or more workers `put_nowait` raises `QueueFull`, the second attempt in the
  `finally` does so again, and the client is never closed.
  docs/deploy-discord.md says that SIGTERM closes the Gateway client. The same
  exception has a consequence the run does not look at: when the token is refused, it replaces the
  `ConfigurationError`, `main` does not catch it, and the process exits with status
  1 and is started again for ever. tests/test_cli.py
  (`test_discord_startup_error_is_clean_non_restart_exit`) expects status 2, with `adapter.run` patched.
  In `StartUp` this is `Hidden`, which `MisconfiguredStops` excepts.
* `preflight`. With a state directory that the service may not search,
  `run_checks` records the failure of `state_directory` and then calls
  `config.store.path.exists()` outside any `try`, which raises `PermissionError`
  (Python 3.12, on which the image is built). `main` turns an
  `OSError` into status 1, and systemd starts the service again every five seconds,
  for ever. docs/deploy-slack.md says that a failed preflight exits with status 2, and the
  unit leaves a service down after 2. `PreflightFailureStops` states the document's claim.

So there are two ways in which a service that cannot work is started again and again: this one, and
the refused token of a Discord adapter with more workers than places in its queue. Where
neither is the case, `MisconfiguredStops` says, a service that cannot work comes to rest, even when a
busy database hides the reason behind status 1 a number of times.

The opposite also happens, and on purpose. A platform that is out of reach while the
adapter connects (in Discord, also while it serves) ends the process with status 2, as tests/test_cli.py
and tests/test_discord_adapter.py expect of every SDK error, and the unit leaves it down,
although a later start would succeed. `TransientsAreRetried` therefore speaks of crashes,
of a busy database and of SDK failures in earlier lives of the process: these leave nothing down.

One thing the documents leave open and the numbers of `load_config` allow is not a run
that expects a violation: the check bounds provider calls, the status and one
post by 115 s, five less than `TimeoutStopSec`. A Discord reply may need one more
timeout of up to 10 s, for the error text or for the end of the typing indicator
(`DiscordEndsInTime` has it as a term), and replies of both adapters may wait for
SQLite and, in Slack, for the pacing (`SlackEndsInTime` has `waited`). The reply to a
command makes as many posts as its text needs, which for `pack` may be more than the
time to stop has room for; docs/architecture.md speaks of provider calls, the status and the
final post only. `SlackEndsInTime` says what is left then: with no request to the provider, a reply
takes its posts and nothing after them. The error
post of Slack is inside the bound, because the worker looks at its deadline before
it makes it.

## 6. Proofs

TLAPS proves the theorems below for any number of threads, workers and tasks (finite,
where noted), any events, keys, queue sizes and limits, any settings, delays and writes of the pack. Each
`*Proofs` module is about the module it is named after, and `ReplyProofs` about `SlackReply` and
`DiscordReply`. Every safety and action property of a passing run is a theorem. The inductive invariant of each was
first checked by TLC as an invariant of the run of its component.

**Assumptions.** All are stated in the modules that declare the constants, and TLC
evaluates each in the runs.

| Assumption | What it says, and why the code justifies it |
|---|---|
| `ConstantsAssumption` | a finite set of threads; `None` is none of the other things |
| `StoreAssumption` | positive event retention; natural retention of turns and history |
| `ServiceAssumption` | each event has a key, a kind and an actor; positive limits and windows (`config.py`) |
| `RateAssumption` | the same of limits and windows; the user's window is within a day (`config.py` bounds it to an hour); a finite set of threads and at least one (`parallelism` is at least 1) |
| `MemoryAssumption` | the same of limits and windows; history is not switched off (`config.py` requires at least one turn): `current[-limit:]` with a limit of 0 would be the whole list |
| `SlackAssumption`, `DiscordAssumption` | each mention has a thread or channel; queues have a positive size; finitely many workers and at least one; `Pill` and `None` are no mentions |
| `BudgetAssumption` | positive timeouts and numbers of posts, a margin within the time to stop; nothing relates them, that is the business of `Accepted` |
| `ReplyAssumption`, `LoaderAssumption` | each job has a channel; a natural gap and wait; there is an inode |

**`ConversationLockProofs`.** `LockTypeCorrect`, `LockExclusion`,
`LockEntryCurrent`, `LockNoLeak`, `LockRefinesMutex`. None of them is inductive. The inductive
invariant `IndInv` adds what the code relies on without saying so: `users` of a
filed entry is the number of threads that refer to it, the owner of a lock is a thread that
is inside with that entry, and an entry is filed under one key only. The count makes the case `users = 1`
of `Leave` mean "no one but me", which takes a few lemmas about cardinalities of sets with one
element more or less.

**`BotServiceProofs`.** `TypeInv` is `TypeOK` (types, and `LockedInTurn`: a thread holds
the lock of its conversation exactly from `Enter` to `Exit`) with what the locals say
at each stage. On top of it:

* `ServiceResetEffective`: with mutual exclusion (`ExclusionInv`), only `Commit` adds
  turns, and only for the conversation whose lock the thread holds; so nothing is added between the
  deletion and its confirmation.
* `ServiceHistoryShown`: a thread arrives at `Commit` only by a delivery that
  returned, and posts are never taken back.
* `ServiceHistoryOrdered`: rows are added in pairs, with ids and a date that are not
  below any other's; what deletes one half of a pair deletes the other, because both
  have one date and one key.
* `ServiceContextPaired`: `load_turns` limits *rows*, by rank. Why it never cuts a pair in
  two is a matter of parity. Take an answer within the limit whose question would be beyond it. The rows newer
  than the two are whole pairs, so there is an even number of them (`PairedIsEven`); an even number
  below `2 * HistoryTurns` leaves room for two. `PairedIsEven` counts questions and
  answers by a bijection between them and needs no induction.
* `ServiceContextStable`: `ContextInv` adds `StillRead`, by which whatever is in the table and was not read is
  older than all that was read, and then as many rows were read as the limit allows. The
  second part needs that the ranks of more rows than the limit reach the limit
  (`LimitReached`): the rank is an injection of a finite set of rows into an interval
  as long as it. While the thread answers, `ExclusionInv` keeps others from adding
  or resetting, and the purge takes only what has expired.
* `ServiceBudget`: `BudgetInv` says that the requests made and the threads that have been
  charged and are about to ask are together no more than the rows of the day's scope, which
  are no more than the limit. Within one day (`MaxTime < Day`) no such row is ever
  deleted. Whoever fails or is killed between charge and request leaves a row without
  a request, never the reverse.
* `ServicePaidOnce`: the invariant `ClaimInv` says
  that claims have not expired (`ClaimsLast`), that at most one thread at a time is
  past `Claim` with an event, and only with one that has been claimed (`OwnersInv`),
  and what has happened so far for the event at each stage (`EffectsInv`): no
  request before `Generate`, none after it, nothing posted before `Deliver`. A crash
  takes the owners away and leaves the claims; that is why it is the claim, not the
  lock, that keeps an event from being paid for twice.
* `ServiceFulfilsContract`: the refinement, under the same condition that claims
  last (`MaxTime < EventTTL`). From `ClaimInv`, every step is a step of
  `EventContract`. Winning a claim is `Claim`, because nothing has happened to an event nobody has
  claimed; `Generate` is `Ask`, because its owner is the only one and has not asked before; a
  delivery is `Answer` or `Tell`, depending on what got into the channel, or nothing if it was lost;
  `Commit` is `Keep`; a reset, an expiry or the purge is `Forget`, and so is
  everything else, which changes nothing the contract speaks of. The condition cannot be dropped: once
  a claim has expired, a redelivered event is asked about again.

**`RateLimitProofs`.**

* `RateTableBounded`: a request is added to the rows inside its own
  window only when these are fewer than the limit, whatever the age of its clock reading, so
  that the rows of a scope never exceed the limit, with or without the purge job.
* `RateWindowNearly`: `WindowInv` says of the window of a scope that ends at `n` that it
  is `Complete` or `Lost`. It is complete while every request that passed in it still
  has its row; then the limit was respected. It can lose rows only by a charge or a purge of a
  later time than `n`, and from then on only the threads that read the clock by
  then and have not been charged yet (`Pending`) can pass another request, one each;
  whoever arrives now reads a later time. The thread that made it lose rows is not among them;
  the purge is no thread, and that is the difference `PurgeRuns` makes.
* `RateSingleWorker`: with one worker and no purge job there are no late threads, so
  `WindowInv` gives `WindowRespected` itself, the property that `rate_exceeded` refutes for
  two workers. The two together say that parallelism (or the purge) is the cause.
* `RateRefusalsEnd`: every row in the table is of a request that passed, so that an empty
  window has no rows.
* `RateTypeCorrect`: `TypeOK`, which says more than types: what has passed in a second is no more than
  has arrived. `ArrivedInv` adds the threads that may still pass to what has passed.

**`MemoryStoreProofs`.** `StoresAlike`: the two stores give the same answers for any limits, any retention and
any sequence of calls. Agreement is not inductive, since two stores may answer alike
now and differ later. The coupling invariant `StoresInv` relates what they keep.

* *Claims* (`ClaimsCoupled`): the same events with the same expiries; both stores forget alike at every claim.
* *Requests* (`RatesCoupled`): every window that ends at the last purge or later holds as many rows as times. This has
  to be said of all such windows at once. A call with an old reading opens a window that begins before what a call with a newer
  one has deleted, and both have deleted the same; and `purge` keeps times of requests for a day in the one
  store, and for a day or the retention of events, whichever is longer, in the other.
* *Turns* (`TurnsCoupled`): a list *mirrors* the rows of its conversation. There are ids that
  rise along the list and make each of its turns a row, in the order of the dates; the rows are all there, and
  what the list has in addition is in front of them and consists of answers that have outlived their questions.

From the coupling to the answers is the longer half. SQLite returns rows by rank (`Rows`, ordered by date and id,
limited, reversed), `MemoryStore` the end of what is left of a list. The rows are `Sifted` out of the list by
an end of the indices that `MemoryStore` keeps (`RowsAreGiven`): the rank of a row is the number of
turns behind it (`NewerOfRising`), and the turns that have not expired are the end of the list, because dates
rise along it. So they are the end of what `MemoryStore` returns, too, and in front of
them it has only answers left over (`LoadedEnds`). Why places enumerate a finite set of
numbers in its order (`Enumerated`) is the pigeonhole principle: ranks are an injection into an
interval of the same size. `SiftedTwice` says that forgetting in two steps is forgetting in one.

**`SlackAdapterProofs`.** `NotStranded`, `TurnIsFree`, `QueueAccounts`, `QuietAtEnd`, and
`TurnsAreExclusive`, the refinement of `KeyedMutex`. One invariant (`IndInv`) serves all five; its heart, `PlacesInv`, is that a Slack
thread has at most one mention in the adapter: on its way to the queue, in the queue, or in the hands
of one worker. Then `_turn_waiters` and `_active_turns` say exactly where that mention is, and
the condition of `_begin_turn` holds for whoever gets there. `JobsInv` and `NoticesInv` are the
task counts of the two queues, which join() waits on; `StageInv` says for each stage of `run` and
`close` what mentions there can still be, and `PillsInv` counts pills: those in
the queue and those a worker has swallowed are all that were put there. So, when
the workers are joined, each has had its own.

**`DiscordAdapterProofs`.** `PendingExact`, `ClientOutlives`, `QuietAtEnd`, by an invariant of the
same kind. It has no lock and no waiters, since a task runs alone between two
`await`s, and no count of pills, since nothing depends on which task takes which: the client is closed
only after all tasks have been awaited, by which time none has a job and the queue has none.
`ClosedIfRoom` is the counterpart of the finding `discord_stop`: with room in the queue for a pill per
worker, whoever ends has closed the client. The queue is empty when the pills are put, because `join` has
counted everything, so that `QueueFull` can only come from the number of workers. That a signal does
lead to an end is `Stops`, which stays with TLC.

**`ReplyProofs`, Slack.**

* `SlackDeadline`: `SlackEndsInTime` for any settings, workers,
  channels, gap and slowness of the store. The property is not inductive, since it says nothing of what a reply
  still has to do. The invariant gives every reply the time it still *owes*: what is left
  of its call, the requests it may still make, and its post. Whatever a reply does
  next is among what it owes, so that age and what is owed never grow beyond the budget
  and the waits. The error post and the clearing of the status are owed by nobody: they
  are made when `HasTime` says that they fit. The case of `ProviderReturns` needs that a product loses one factor
  (`OneFactor`). A reply without a request to the provider owes its posts, however many; `HasTime`
  then refuses whatever would come after them (`EnoughTime`). A
  reply that waits for the lock grows older, but only by a wait.
* `SlackStatusCleared`: the worker's flags and what the thread shows are two things, and calls that fail
  after they have taken effect part them. `Honest` relates them: what is shown was set by a
  call the worker knows of or by one that failed, and what was posted has been seen.
* `SlackPostsPaced`, an action property: a thread that sleeps holds the lock, and while it sleeps, the time since
  the channel's last post and what is left of the sleep add up to the gap (`Dozes`). So
  the delay, computed before the sleep, is still right after it.

**`ReplyProofs`, Discord.** `DiscordErrorIsLast`, `DiscordPostNotCutOff`, `DiscordDeadline`. The invariant `CallInv`
has a part for each question. `PhaseInv` says which stages of the service thread, of the task
that sends, of the handler and of the queue of callbacks can occur together; from it follows that
the cancellation of a post is ahead of the report of the error in the queue. `PartInv`
compares two clocks: the thread and the task count the same seconds
while there is one part, and the thread may count one more. `TimeInv` is
what is still owed, as for Slack, with a reserve of one post timeout for the end of
the typing indicator.

**`ProcessProofs`.**

* `PackSnapshot`: `PackIsSnapshot` for any number of inodes and
  writes, as a theorem of the whole process. The invariant says that modification times and versions only
  grow, and that, while the date of the open inode is the one seen at first and no
  two writes shared a date, its content is what it was, as is what has been
  read of it. With a pin, a mixture of versions is excluded by the pin alone.
* `OnlyReasonsStop`: an exception that leaves `main` is a refusal only for a reason that
  a restart would meet again, because the platform's SDK has raised in this life of the process, or because the
  pack was written (`BootInv`); the busy
  database and the shutdown of the Discord adapter can hide a refusal behind a failure, and not the reverse.
* `ProcessInTime`, `ProcessShown`, `ProcessPaced`: what is proved of the replies holds of the process,
  which checks its settings at every start and replies only with those it has accepted
  (`RepliesInv`).

**Only model-checked.** `Progress`, `Returns`, `Stops` (of both adapters),
`AcceptedIsResolved` and `MisconfiguredStops`, because liveness under fairness is
beyond TLAPS's proof system. The four expected violations are TLC's as well. No proof here needs
induction over data, and no module with a theorem reaches a recursive operator.

## 7. What is not modelled

* **In the modelled parts.** The schema, permissions and hashing of the database; the wall clock
  never goes backwards; a Discord loop that is blocked; the metrics
  (`_active_generations`), which only reach the log.
* **Message policy and text.** Pure functions of one message on strings. The models
  start with messages the policy lets pass; refused ones change nothing. Of
  `split_message` the number of parts counts, and is a setting of the model.
* **Providers.** What a request contains and how a response is rendered; the
  OpenAI-compatible provider makes one request and has no loop.
* **Configuration.** Parsing, and the range of each single setting.
* **Command line.** `ask`, `verify` and `doctor` are single calls that keep no state;
  `purge` is an action of `BotService` and `RateLimit`; with the kill switch or `--once`
  the process idles. The individual checks of `doctor.py` are read-only verdicts on the deployment and
  are inputs of `StartUp`.
* **Packaging and scripts.** No code of the program.

## 8. Plan

The order in which the project grows; the first four groups are done.

1. `ConversationLock`, `StateStore`, `BotService`, `RateLimit`, both adapters,
   `MemoryStore`; proofs of the lock, of the service's invariants and
   of its contract, and of the bound of the rate table.
2. `StopBudget`, the replies of both adapters, `PackLoader`, `StartUp` and their
   composition `Process`; proofs of the Slack deadline and of the pack snapshot.
3. Proofs of the context and the budget of `BotService`, of the windows of `RateLimit`, of both
   adapters, of the status, the pacing and the Discord reply, and of the process.
4. The proof that both stores agree; what holds of a single worker's windows and of a Discord queue with
   room for the pills.
5. Models that would add something: `MessageText`, `split_message` and
   `split_bot_invocation` as functions on short sequences against a reference
   definition; a clock that is set back.
