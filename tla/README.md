# TLA+ model of the Telegram downloader

The program (`src/src/`, Python, asyncio) logs in to a Telegram account, walks a
list of configured chats at an interval, queues the messages with media that a
filter accepts, downloads them into a folder, and remembers what it did in
three SQLite tables.  It is meant to run for months, unattended, in a container:
what makes it hard is not any one download but the order in which awaits,
commits, cancellations and crashes may fall.  These modules describe that
part; TLC checks them on small instances and TLAPS proves most of their safety
claims for instances of every size.

Paths below are relative to the repository (`src/main.py` is the program's main
module, `docs/` its documentation).

## 1. The system and its components

| Component | State it keeps | Operations | Talks to |
|---|---|---|---|
| Check pipeline (`src/main.py` `run_check`, `download_batch`) | the source it is at, the batch and its tasks, failures so far | scan a source, read a batch from the queue, run its downloads concurrently, settle the batch, go on to the next source | everything below |
| Persistent state (`src/state/`) | tables `cursors`, `pending_downloads`, `download_history` | `set`, `migrate_from_yaml`; `add_batch`, `get_oldest`, `remove_batch`, `increment_attempts`; `contains`, `record` | written by the pipeline only, one transaction per call |
| Downloader (`src/client/downloader.py`) | `_cooldown_until` (shared), loop counter, `.partial` file | retry loop, backoff, FloodWait cooldown, size checks, publication under a free name | called per task; download folder; pyrogram |
| Duplicates and conflicts (`src/organization/deduplicator.py`) | none, reads the folder | `is_duplicate`, `resolve_conflict` | called before and after the transfer |
| Bandwidth limiter (`src/client/ratelimit.py`) | token bucket | `throttle` after each chunk | shared by all downloads |
| Hook (`src/client/hooks.py`) | a child process and its group | start, await, time out, terminate | after a download, holding its slot; the operating system |
| Daemon (`src/daemon/service.py`) | main task, heartbeat task, `shutdown_event` | start-up, check, report, sleep; shutdown on a signal | calls `run_check` under `wait_for` |
| Health file and probe (`src/daemon/health.py`, `healthcheck.py`) | status, timestamp, progress, deadline | `update_status`, `heartbeat`; probe | read by Docker |
| Active hours (`src/daemon/schedule.py`) | none | `is_within_active_hours` | asked at the beginning of a check |
| Configuration loader (`src/config/loader.py`, `schema.py`) | the settings as far as they are read | read each `TDL_` variable, read the file, merge, fill in defaults | start-up |
| Configuration to sources (`src/config/source_parser.py`, `src/sources/factory.py`) | the parsed and the usable sources | merge the filters, build them, resolve and access each chat | start-up; pyrogram |
| Sources (`src/sources/`) | the position of a running scan | `iterate_new_media`, `get_cursor_key` | scan; pyrogram |
| Filters (`src/filters/`) | none | predicates over a message | scan |
| Names and paths (`src/organization/path_builder.py`, `src/security/`) | none | build, sanitize, validate a path | per task |
| Notifications (`src/notifications/`) | throttle times | send, retry | daemon; synchronous HTTP |

What is hard in each of them, and the properties that answer it:

* **Pipeline and tables.**  Tasks of a batch finish in any order and each moves
  the source's cursor to its own message; the cursor, the removal from the
  queue, the attempt counter and the history are separate commits; the check may
  be cancelled at any await and the process may die between any two commits; one
  source's failure must not concern the next.  *No message is lost* (`NoLoss`),
  *the history only names stored files* (`HistorySound`), *the cursor follows
  the file* (`CursorFollowsFile`), *attempts count failures, within the budget*
  (`AttemptsAreFailures`, `AttemptsInBudget`), *a file in the history is fetched again
  by fewer tasks than there are slots* (`SecondCopiesBounded`), *everything is
  eventually concluded* (`EventuallyConcluded`), and all of it *implements an abstract
  backlog* that knows neither cursors nor faults (`WorksOffBacklog`).
* **Downloader.**  Several downloads aim at one name; the name is looked up before
  the transfer and needed after it; FloodWaits arrive while others sleep off
  earlier ones.  *Files are whole, never replaced* (`FilesWhole`, `NoClobber`),
  *a call cleans up after itself, and calls that were cut off leave one `.partial` file each
  at most* (`NothingLeftBehind`), *retries are neither too few nor endless*
  (`FailsAfterAllRetries`, `EveryDownloadReturns`), *the waits that the retry loop learns
  of are respected* (`OwnWaitRespected`), and the whole of it *implements an abstract folder*
  (`KeepsStorePromise`).
* **Scan.**  A forum topic pages through the whole supergroup by message ids while
  messages come and go; whatever it skips is below the next floor and lost.  *Nothing
  is missed* (`NoneMissed`), *the scan is as good as one look at the chat*
  (`IsOneLook`), *it ends* (`ScanEnds`).
* **Hook.**  A command may fork, outlive its parent, become another user's process, ignore its
  end, and be cancelled at any await, the clean-up included.  `NoSurvivors`, `CancellationPropagates`,
  `ReapedFirst`, `HookReturns`.
* **Daemon, active hours, notifications.**  Three tasks and a signal handler share one
  event loop and one file; a check may hang in spite of its timeout; the webhooks block
  the loop, take their retries' time from the health deadline, and are throttled by the
  local clock, which may be set forward and back.  `NoFalseAlarm`, `HungCheckDetected`, `StoppedIsFinal`,
  `EndsOnRequestOnly`, `ShutdownCompletes`, `RevocationReported`, `ChecksInHours`,
  `FailuresNotified`.
* **Configuration.**  Environment variables come in any order and with gaps, over a file,
  over a schema that fills in defaults before the per-source filters are merged with the
  global ones; Telegram's errors cost one source, the configuration's errors stop the
  start-up.  `TakesAsConfigured`, `OrderKept`, `FailsForAReason`.
* **Bandwidth limiter.**  Sleepers do not learn of later debt, and a cancelled
  check drops sleepers but not debt.  `CapHolds`, `NoNeedlessSleep`.

`PROJECT.json` lists each hazard with the line where it bites.

## 2. The modules

| Module | Models | Composition |
|---|---|---|
| `Pipeline` | `run_check`, `download_batch`, the three tables, start-up migration, crashes, cancellation, the chats and the user | checked by `MCPipeline` (one source) and `MCSources` (three); implements `Backlog` |
| `Backlog` | abstract: what the pipeline owes its user | instantiated by `Pipeline` |
| `OneLook` | abstract: what a scan owes `run_check` | instantiated by `SourceScan` |
| `SourceScan` | `iterate_new_media` of all kinds of source, request by request | checked as it is; implements `OneLook` |
| `FileStore` | abstract: what the download folder promises | instantiated by `Download` |
| `Download` | `download_media_with_retry`, `is_duplicate`, `resolve_conflict`, the choice of a destination in `download_one` | checked by `MCDownload`; implements `FileStore` |
| `Hooks` | `run_post_download_hook`, `_terminate_hook`, the process tree | checked as it is |
| `Schedule` | `is_within_active_hours` | extended by `Daemon` |
| `Notifications` | the throttle of `NotificationManager`, the channels and the webhook's retries | extended by `Daemon` |
| `Daemon` | `DaemonService`, `HealthMonitor`, `healthcheck.py`, the dead-session path of `main()` | extends the two above; checked by `MCDaemon` |
| `Filters` | the filter settings, `build_filters`, the filters' `matches` | extended by `Loader` |
| `Loader` | `load_config`, the schema's defaults | extended by `Startup` |
| `Startup` | the run of `load_config`, `startup_validation`, `parse_sources`, `validate_source_access` | extends the two above; checked by `MCStartup` |
| `RateLimiter` | `RateLimiter.throttle` | checked by `MCRateLimiter` |
| `PipelineProofs`, `SourceScanProofs`, `DownloadProofs`, `HooksProofs`, `DaemonProofs`, `StartupProofs`, `RateLimiterProofs` | theorems | each extends its module |
| `BacklogProofs` | the refinement of `Backlog` | extends `PipelineProofs` |

Conventions: an action is a stretch of code between two awaits (nothing else runs
there), except where a crash may fall between two commits, which are then actions
of their own (`CrashInCommits`, `CrashAfterRemove`, `CrashInPublish`).  A definition
whose comment begins with "Mutant:" is not part of the model: it is a plausible bug
that replaces the definition below it to show that the properties would see it.
Variables marked "ghost" are not in the code; they remember what a property speaks of.

### Pipeline and Backlog

`pc` is where `run_check` stands: `source` before the scan, `fetch` at the top of the
download loop, `tasks` while the TaskGroup runs, `idle` between checks, `down` while
there is no process.  `task[m]` is where `download_one(m)` stands: waiting for the
semaphore, awaiting its path, in its transfer, in its hook, done or failed.  The
tables are variables that `Crash` leaves alone.

| Action | Code |
|---|---|
| `Start` | `main`: open the tables, `migrate_from_yaml` |
| `Scan` | the scan of `run_check`: floor (highest queued id or cursor), `iterate_new_media`, `add_batch` |
| `StartBatch`, `NothingDue`, `AllOrphaned` | `get_oldest`, `get_messages`, the three ways on |
| `Acquire`, `Resolve` | `download_one` up to the transfer: history, path, `is_duplicate` |
| `LoadOK`, `LoadFails`, `TaskRaises` | the transfer returns True (publish, `cursor.set`, `history.record`), False, or an exception leaves the task and cancels the batch |
| `HookDone` | the hook ends, the task frees its slot |
| `BatchDone`, `BatchCommitFails` | `remove_batch`, `increment_attempts` |
| `RpcFails`, `AccountError` | the two groups of `except` clauses of the source loop |
| `Interrupt`, `Crash...` | `wait_for` or a shutdown cancels the check; the process dies |
| `Post`, `Delete`, `MoveAway` | the world: chats and the user's folder |

What is abstracted: the scan is one step (`SourceScan` shows that it may be); a message
that Telegram does not return counts as deleted; a file published under a numbered name
is remembered in `saved` only; the filter is the constant `Wanted`, the path builder the
constants `NameOf`, `BadPath` and `Poison`; `Crowded` are the paths whose numbered
variants are all taken, where `resolve_conflict` gives up and the message is skipped
(`NoNameLeft`); such a message counts as settled only once a file of another size was
saved under its name (`Displaces`). The ghost `again` counts the downloads of a file
that the history names already. Two messages whose different files have one size and one
destination are taken for duplicates by the code, on purpose; `Kept` counts such a file
as kept (`SamePlace`).

`Backlog` says what is left when the shortcuts are taken away.  A chat is looked at as a
whole and every message that is wanted and not got is queued (`Look`); only queued messages
are downloaded (`Download`); and what leaves the queue was got or is gone from the chat
(`Clear`).  There is no cursor in it, no floor of a scan, no batch, no attempt, no task and no crash.
`WorksOffBacklog` maps its `queue` to `pending`, per chat, and its other variables to
those of the same names, so that it speaks of what the user sees.  A message that was got may be queued
again: the code does that too (a resume scan starts at the highest message that is still queued).

### SourceScan and OneLook

`kind` says whether the scan is that of a forum topic, which pages itself
(`_iter_docs_newest_first`: `offset_id`, a page of `PageSize`, a short page is the last),
or of another source, which leaves the paging to pyrogram.  Either way one request returns
at most `ChunkSize` messages, the newest ones below its offset, possibly fewer, and none
only if there are none (`Answers`).  `page` is what has arrived of a topic's page, `mine`
the messages the scan is after, `read` a ghost with everything a request returned.  Messages
are posted and deleted between any two requests.

`OneLook` is `Pipeline`'s `Scan` on its own: the chat changes, and at one moment the scan
takes everything above its floor that is there, or fails with nothing.  `IsOneLook` maps
`found` to nothing until the scan ends, for `run_check` queues it as a whole, and `chat` to
`SeenChat`: what was read, together with what is still there below the position.

### Download and FileStore

`state[t]` is where a download stands in its loop: sleeping off the cooldown,
transferring, fetching its message again, or in the retry delay.  The transfer belongs to
pyrogram: it may deliver any size of `Received`, fail, or demand a wait (raised, or logged
and an empty file left: both end in `XferFlooded`).  Time is what is left of the waits,
counted down by `Tick`.

Two FloodWaits do not reach the retry loop (`Unheard`): one raised by the `get_messages`
that fetches the message again, where every exception is caught and logged, and one that
pyrogram logs beside a truncated file or an exception.  Neither starts a cooldown.  `owed` and
`heard` are ghosts: what Telegram demanded last, and whether the loop knows.

A `.partial` file is the pair of the destination it was chosen for and the message, as in
its name.  Both the destination and its `.partial` file are chosen anew in every check: after
a cancellation or a crash (`Drop`) the next call may resolve another name, find a
duplicate, or be refused, and then nothing removes the file that the first call left.

`FileStore` says what the folder owes its user: files are only added, under free
names; a download ends by adding its whole file, by finding one of its size, or
by leaving the folder as it was; a crash may leave an empty file under a reserved
name.  `KeepsStorePromise` maps `files` to its `store` and the states of a download to its
three outcomes.

### Hooks

`pc` is where the call stands: starting the process, waiting for it, in `taskkill` or in the
clean-up, and `closing` while asyncio itself cleans up after a start that was cancelled.
`proc` holds the state of each process, `tree` those that the group (on Windows: the
tree) still covers; `Leaves` is `setsid`, or the loss of a parent.  A killed process is
`dying` and may stay so.  Cancellations arrive at every await (`CancelStart`, `CancelWait`,
`CancelCleanup`).  Two details are those of Python 3.12, which the Dockerfile installs: a
timeout of `wait_for` is a cancellation of the awaited step alone, so that it is not
mistaken for one of the task.  `foreign` are the processes that took another user's identity
(`TurnsForeign`, on POSIX).  `killpg` signals the members it may and fails with `OSError` only
if it may signal none, which is logged; `process.kill()`, which follows, then raises a
`PermissionError` out of the call (`raised`) if the command itself is one of them.  A command that ends by itself leaves its background children
alone, as a shell would.  `NoSurvivors` says less for Windows, where only the leader is
certain, and not even that if a second cancellation interrupts `taskkill`.

### Daemon, Schedule and Notifications

`main` is the main task: `validate` (connecting, start-up validation), `startup` (the
start-up notification), `check`, `report` (the notifications after a check), `sleep`,
`dead` (reporting a dead session), `auth` (waiting to be re-authenticated), `ended`.
`hb` is the heartbeat's own clock, and may run over while a webhook blocks the loop.
`age`, `progress` and `limited` are the timestamps of the health file as ages.  A
signal before `run` installed its handlers kills the process and needs no model; a session
that dies between `get_me` and `parse_sources` makes every source unresolvable, which is a
`ValidateFails`.

`notice` is the notification on its way: its level, whether any channel will take it, and
how long all of them will need (`Delivery`: each request up to `PostTime`, the webhook with
its pauses and retries).  It is drawn from `Notices` when the main task begins to report, and
`NoNotice` when the throttle drops it.  `quiet[l]` is what is left of the throttle for level
`l` by the local clock, negative when it is over; it starts only if a channel took the
notification.  The notification that `shutdown()`
sends is not tracked, for the process ends after it.

`now` is the time of day and moves with the clock, or is set (`ClockIsSet`), forward or back
by one tick at a time.  The throttle subtracts times of the same clock, so `quiet` moves with
it; the ages in the health file are differences of UTC times and do not.  The ghost `lag` is how
far the clock was set back since the last error notification, `MaxBack` its bound.
`BeginCheck` is the gate in `run_check`.  A window is a pair of times, both inside;
`Covers` says what a window means without the case of midnight.

### Filters, Loader and Startup

`env` is the environment as the `TDL_` variables for the global filters and for the sources
up to `MaxIndex`; `ReadVariable` takes them in any order, as `os.environ` may list them.
`list` is the list of sources: it is extended with empty entries up to a variable's number,
and compacted before the file is merged under it (`ReadFile`).  `Compact` takes the entries
that are left one by one (`Nth`) instead of filtering a sequence, so that it can be reasoned
about; `MCStartup` checks that this is the same (`CompactAssumption`).  `Filled` is the schema,
`Merged` what `parse_sources` passes on, `Builds` and `Accepts` what `build_filters` and the
filters make of it.  `parsed` and `usable` are the results of the two loops, `down` remembers
which sources Telegram refused.  A file name is reduced to the kind of its extension, a
date to a number, a url to good or bad.  `TakesAsConfigured` reads the user's
configuration directly (`Effective`), without list, merge or schema, and compares the
messages that pass.  It is exact, and so says where the code departs from
`docs/configuration.md:234`, 238 and 240: in a source's own filters block a list of
extensions that is left out is the schema's, not the global one.  `FailsForAReason` is exact as
well: a size limit or a pattern in force for some source is a reason (`Unbuildable`),
although lines 241-246 document them as settings.

### RateLimiter

One unit of data is what accrues in one tick, so the rate is 1 and the burst is
the number of ticks in a second.  `excess` is a ghost bucket without an upper end
for the debt: it measures what was received in any stretch of time beyond the cap.

## 3. The runs

Twelve runs: eight that pass and four counterexamples to statements of the repository.

| Run | Shows | Instance | States |
|---|---|---|---|
| `pipeline_core` | `NoLoss`, `HistorySound`, `AttemptsInBudget`, `SecondCopiesBounded`, `CursorFollowsFile`, `AttemptsAreFailures`, and `IInv`, the invariant of the proof, which includes type correctness | 1 source, 3 messages (1 and 3 the same file, all one path), uncapped, batches of 2, 2 concurrent, 2 attempts, hook, 1 fault | 271 k |
| `pipeline_sources` | `WorksOffBacklog`, `EventuallyConcluded` | 3 sources, the first of them broken, 2 messages for each chat, a forwarded file, a shared path with no numbered name left, a rejected path, a legacy cursor, capped mode, serial downloads, 1 fault | 257 k |
| `download` | everything about `Download` | 3 downloads, 2 names, sizes 100, 200 and 99, 2 FloodWaits, 1 crash or cancellation, 2 tries | 710 k |
| `hooks` | everything about `Hooks` | POSIX and Windows, a command with 2 descendants, timeout 2, clean-up time 1, 2 cancellations | 10.5 k |
| `source_scan` | everything about `SourceScan`, with `OneLook` | up to 5 messages, any of them the topic's, any floor, pages of 3, requests of 2 | 711 k |
| `daemon` | everything about `Daemon`, `Schedule` and `Notifications` | a day of 5 with a window over midnight and one of a single time, interval 2, timeout 3, heartbeat 4, throttle 2, a clock set forward, or back by 1, both channels, 2 tries of the webhook | 669 k |
| `startup_sources` | everything about `Startup`, `Loader` and `Filters` | source numbers up to 3 with a gap, 360 environments over four options (lists of extensions, archives, a date, a size limit), 5 files | 49 k |
| `ratelimit` | the cap | 3 downloads, chunks of 1, 2 and 5, burst 3, 1 cancelled check | 4.5 k |
| `pipeline_poison` | counterexample to `EventuallyConcluded` | a name too long for its `.partial` file | |
| `pipeline_attempts` | counterexample to `OneAttemptPerCheck` | 1 message, uncapped, no faults | |
| `download_hook` | counterexample to `HookGetsOwnFile` | 2 downloads, no faults | |
| `daemon_duplicated` | counterexample to `DeadSessionReported` | the session dies as "duplicated" | |

Why these bounds are enough.  *Three messages* of one chat are the least for a task
to overtake another while a third is still above the queue, and two batches are
needed to drain them.  *Several sources* let a fault in one reach another, and give
a forwarded file and a common path.  *One fault* may fall at any step;
what a second could add is a fault during recovery, and recovery is the same code
as any check, from a state the first fault has already been able to produce; the proof
has no bound on faults.  *Three downloads for two names* make the publication meet
a free name, a taken one, a duplicate and no name at all; the sizes 100 and 99 lie
within the tolerated percent, 0 and a truncated 99 of 200 do not.  *Two FloodWaits*
of different length are the least that extend a running cooldown.  *Two descendants* are
a child that leaves the group and one that does not; *two cancellations* are one to
terminate the hook and one to interrupt its clean-up.  *Five messages* take two pages of
two requests each, with a deletion or a post between any two of them, and `mine` and `floor`
range over everything.  The daemon's interval, timeout and heartbeat are small; the
notifications take up to one heartbeat, and every deadline is met and passed; the two
windows cover crossing midnight, starting and ending at one time, and the last time of
a day.  A throttle equal to the interval is the longest that drops nothing as long as the
clock is left alone, so that setting it back by one tick drops a failure.  The
environments set each option globally, in a source, in both and in neither, to an empty
value and to one that differs from the schema's, beside sources with and without filters of
their own.  *Three source numbers* are the least for a gap that a later source may fall
into.  The bounds
are `MaxMsg`, `MaxFaults`, `MaxFloods`, `MaxCrashes`, `MaxSuffix` (10000 in the code),
`MaxCancels`, `Descendants`, `PostTime`, `MaxBack`, `MaxIndex`, `Options`, `FullBatch` (200 in the
code) and the ages, which saturate above the largest limit they are compared with.

Deadlock is not checked where the system does stop: a hook's call and a scan end.

### Fairness, and why the code justifies it

* `Pipeline`: `WF_vars(Program)`.  The daemon starts a check after each sleep for as
  long as it runs, container restarts included, and asyncio runs ready tasks.  Nothing
  is assumed of a single download: it may fail every time, and then the attempt budget
  has to conclude it.  Faults are not fair, and bounded.
* `Download`: weak fairness of each download's steps and of time; a transfer ends, one
  way or another (pyrogram's own timeouts).  FloodWaits are bounded: Telegram may not
  demand waits forever, and the code would rightly wait forever if it did.
* `SourceScan`: weak fairness of the requests: Telegram answers, one way or the other.
  `RequestFails` is not fair, so a scan does not end by luck.
* `Hooks`: weak fairness of the call's own steps and of time, and none of the processes:
  nothing ever has to end, not even what was killed.
* `Daemon`: weak fairness of the main task, the heartbeat, the shutdown and time, and
  strong fairness of `Answer`: a check of a dead session gets Telegram's answer now
  and then, and does not run into its timeout every time.  `RevocationReported`
  speaks of daemons that keep checking, for active hours may never coincide with a check.
* `Startup` and `RateLimiter` have safety properties only.

### What the daemon run says about time

`NoFalseAlarm` holds because `max_check_age` is the sum of interval, timeout and
heartbeat, and needs two things that nothing in the code compares: notifications may take
no longer than a heartbeat (the time after a check is not in the sum, and lives on
the heartbeat's share), and a heartbeat and notifications together no longer than the
probe's limit on the timestamp, for the webhooks block the heartbeat.  With
HEARTBEAT_INTERVAL = 60 s, three tries of 10 s with pauses of 1 s and 2 s for the
webhook and 10 s for Discord, notifications take 43 s, and 600 s are far away; but
`requests` applies its timeout to connecting and to each read separately, so a slow
endpoint may take longer.

### Disagreements between the code and what is said of it

Each is a run whose property states a line of the documentation or a comment:

1. `pipeline_poison`: `dest_temp.exists()` in the clean-up of a failed download raises
   for a name of more than 255 bytes (the final name may have 255, `.partial` and
   the message id come on top).  The exception leaves the task, the batch is cancelled,
   no attempt is counted, and the next check begins with the same message.
2. `download_hook`: `download_one` passes the hook the path it chose before the transfer.
   When another download has taken that name meanwhile, the file is published under
   another, and the hook gets the other message's file.
3. `daemon_duplicated`: `run_check` re-raises `Unauthorized` but not
   `AuthKeyDuplicated`, which `client/errors.py` names as equally final; the daemon
   reports a failed check in every interval instead.
4. `pipeline_attempts`: `docs/configuration.md:301` counts `max_download_attempts` in
   checks.  With `max_downloads_per_run` = 0, the default, the loop of `run_check` reads the
   queue again until nothing is due, failed messages included (`src/main.py:411`), so all
   attempts of a message may be used up in one check.

What passes, but says less than the documentation:

* `SecondCopiesBounded`: of concurrent downloads of one file each may miss the history, so
  that as many copies are fetched as there are slots (`src/main.py:165`);
  `docs/configuration.md:90` says that files are downloaded once.
* `TakesAsConfigured`: a filters block of a source without `extensions` or
  `archive_extensions` gets the schema's default list, not the global one, for the merge cannot
  tell the two apart (`src/config/source_parser.py:233`, 240); `docs/configuration.md:234`, 238
  and 240 promise the global value.
* `FailsForAReason`: `build_filters` calls `SizeFilter` and `PatternFilter` with keywords they do
  not have (`src/config/source_parser.py:149`, 162), so a configuration with a size limit or
  a pattern, documented at `docs/configuration.md:241-246`, does not start.
* `OwnWaitRespected`: a FloodWait of the request that fetches a message again is logged like
  any other exception (`src/client/downloader.py:213`, 247, 326), and the download asks
  again after its retry delay; `docs/troubleshooting.md:22` says that the program waits.
  And it speaks of a download's own waits: one that sleeps off a cooldown does not notice
  when another download extends it (`src/client/downloader.py:76`).
* `NothingLeftBehind`: a `.partial` file of a call that was cut off stays for good if the
  message is resolved to another name, or skipped, later (`src/client/downloader.py:139`).
* `FailuresNotified`: a clock that is set back makes the throttle longer by as much
  (`src/notifications/manager.py:118`), and a failure may be dropped although the interval is
  longer than `throttle_seconds`.
* `CancellationPropagates`: the docstring of `run_post_download_hook` says that its errors
  are never raised, but a hook that changed its user makes `process.kill()` raise
  (`src/client/hooks.py:57`), a cancellation giving way to a `PermissionError`.

Also worth knowing, and without a run of its own:

* Each level has one throttle, and failures that come faster than `throttle_seconds` are
  dropped, as documented; `FailuresNotified` asks for a throttle no longer than the interval.
* A message that used up its attempts keeps its row, stays at or below the highest queued
  id, and so keeps the resume scan's floor where it is, which makes each check queue and
  skip what was processed above it (`src/main.py:382`).
* Nothing compares the sources' cursor keys, so a chat configured twice shares one
  cursor (`src/sources/base.py:77`).
* A hook that is cancelled while it starts is cleaned up after by asyncio, which knows
  nothing of its group (`src/client/hooks.py:149`).

## 4. What is proved

For every value of the constants, unless a condition is named:

| Module | Theorems |
|---|---|
| `PipelineProofs` | `TypeCorrect`, `HistoryNamesStoredFiles` (`HistorySound`), `CursorsFollowFiles` (`CursorFollowsFile`), `AttemptsStayInBudget` (`AttemptsInBudget`), `OnlyFailuresCount` (`AttemptsAreFailures`), `SecondCopiesFewerThanSlots` (`SecondCopiesBounded`); with `DistinctKeys`: `MessagesNeverLost` (`NoLoss`) and `Invariance` (`IInv`) |
| `BacklogProofs` | with `DistinctKeys`: `ChecksRefineBacklog` (`WorksOffBacklog`, a refinement) |
| `SourceScanProofs` | `TypeCorrect`, `NothingIsMissed` (`NoneMissed`), `ScanIsOneLook` (`IsOneLook`, a refinement) |
| `DownloadProofs` | `TypeCorrect`, `PublishedIsWhole` (`FilesWhole`), `NothingReplaced` (`NoClobber`), `PartialsAreGone` (`NothingLeftBehind`), `AllRetriesUsed` (`FailsAfterAllRetries`), `WaitsAreRespected` (`OwnWaitRespected`), `DownloadsRefineFolder` (`KeepsStorePromise`, a refinement) |
| `HooksProofs` | `TypeCorrect`, `NothingSurvives` (`NoSurvivors`), `CancellationsPropagate` (`CancellationPropagates`), `AlwaysReapedFirst` (`ReapedFirst`) |
| `DaemonProofs` | `WindowMeaning`, `TypeCorrect`, `NeverEndsByItself` (`EndsOnRequestOnly`), `StoppedStays` (`StoppedIsFinal`), `ChecksKeepHours` (`ChecksInHours`), `NoFailureKeptQuiet` (`FailuresNotified`); with notifications no longer than a heartbeat, and both together no longer than `MaxAge`: `ProbeIsRight` (`NoFalseAlarm`) |
| `StartupProofs` | `TypeCorrect`, `OrderIsKept` (`OrderKept`), `FiltersAsConfigured` (`TakesAsConfigured`), `GivesUpForAReason` (`FailsForAReason`) |
| `RateLimiterProofs` | `TypeCorrect`, `CapIsKept` (`CapHolds`), `SleepsAreNeeded` (`NoNeedlessSleep`) |

Assumptions: those of the modules (the constants have their types; TLC evaluates them in
the runs).  `BackoffAssumption` of `Download` says that the backoff is a natural number,
which its definition does not show to a prover that knows no powers; `Delivery` in
`DaemonAssumption` ties the longest notification to `NotifyTime`.  `DistinctKeys` is what
`get_cursor_key` asks of its implementers; nothing in the code enforces it.  Without it
one source's cursor may pass a message that only the other source wants, and the
claim is false.

### Pipeline

The argument.  `NoLoss` is not inductive: it allows a message to be "found by the next
scan" and does not say why the next scan's floor cannot rise above it.  `IInv` adds:

* `QueueWasPosted`: queue and chat hold posted ids only, so a new post is above both,
  and above the cursor unless a legacy cursor put it higher;
* `UnseenAbove`: a wanted message that is neither queued nor settled lies above the
  cursor *and* above the whole queue.  This is the core: it makes either floor (the
  cursor, or the highest queued id) harmless, and it holds because cursor and queue
  only ever move to ids below which the scan has already looked;
* `BatchSound`: tasks work on queued messages, orphans are gone, and a task past its
  commits has settled its message, so `remove_batch` removes nothing unsettled;
* `DiskSound` and `HistorySound`: what is on disk or in the history was saved, so the
  two early ends of a task (`history.contains`, `is_duplicate`) settle the message.

Steps fall into two groups.  Most are *narrowing*: they only take messages from chat
and queue, what leaves the queue is settled or deleted, and a cursor moves to a queued
message or to the legacy one, which leaves every unseen message above both
(`NarrowingStep`).  The others (`Scan`, `Post`) are argued one by one.  `pipeline_core`
checks `IInv` itself.

`HistorySound` and `CursorFollowsFile` need `DiskSound` and `HistorySound` alone, which a
shared key does not disturb (`StoredNext`): the commits of a task come in one order,
file, cursor, history, and a crash leaves a prefix of them.  The attempt budget is
kept by `Budget`: a batch works on queued rows below their limit, so that counting one
failure each stays within it, and what is removed is not a row that was given up.
`SecondCopiesBounded` needs to know who may still fetch a file that the history names:
`CopiesInSlots` counts those downloads of it that are done and the tasks that
are past their look-up, and says that together they fit into the slots but for the one that recorded the
file.  A task that looks up later is turned away, and the ghost and the tasks together
can only shrink.

`ChecksRefineBacklog` reads that invariant step by step.  A scan is a look at the whole chat
because of `UnseenAbove`: what it leaves out below its floor is queued, settled or covered by
the legacy cursor.  The four steps that end a batch clear the queue of nothing that is still
needed because of `BatchSound`.  A task's commits, or any prefix of them, download one queued message.
Everything else, faults included, leaves the backlog as it is.

### Startup

The environment is read in any order, so the invariant cannot speak of an order: `Reading`
says that an entry of the list is what the variables read so far say of its number
(`Entry`), a gap if they say nothing.  When all are read, the entries that are not gaps
are those of `Numbers`, and `Compact` has them by rank (`CompactMeaning`, from `NthExists`:
every rank up to the cardinality is taken by one number); merged with the
file this is the configuration as the properties read it (`AsMeant`), and it stays so
(`Meant`).  `Parsing` and `Accessing` say what each of the two loops has done with the sources behind
its position: parsed or down, usable or down; `InOrder` that the
parsed ones are in order, so that a new usable source is above all earlier ones.
`MergedMeaning` then compares the merge of `parse_sources` with the user's reading of it,
setting by setting (`NumberMeaning` finds a source's variables, `BlockMeaning` whether it has a
block of its own).

### The others

* **SourceScan.**  `SInv`: the position is the lowest message read (`Order`); a message
  that still exists between the position and the highest one read was read (`Gapless`);
  what was processed is collected, and none of it ended the scan (`Collected`).  For the
  refinement, the step that ends the scan is the look, at `SeenChat`, which any other
  request leaves as it is, and a deletion or a post is one of `OneLook`'s worlds.
* **Download.**  `Counts` ties the number of tries to the attempt counter, which makes giving up
  early impossible; `Owed` says that the shared cooldown covers every wait that is still owed and was heard, and
  so does the sleep of each download that entered it; `Leftovers` counts
  `NothingLeftBehind` in sets known to be finite, to which a cancellation or a crash adds at
  most one file of each message; `Outcome` maps the
  states of a download to those of `FileStore`, where the publication is the one step
  that adds a file.
* **Hooks.**  `IInv`: a terminated call has killed its tree, and as only a living process
  forks, nobody enters the tree afterwards, other users' processes apart (`TreeDead`); a cancellation received is on
  its way out (`OnItsWay`).
* **Daemon.**  `Endings`: "stopped" is in the file only after the end, when the types leave no
  heartbeat to write, and a shutdown has a request.  `Fresh`: the timestamp is never older
  than the notifications of one report and one heartbeat; `Progressing`: the progress
  is as old as the report, the sleep and the check that lie behind it, each
  of which has its limit.  `ErrorsPass`: during a sleep, what is left of the error throttle
  and the time slept are together no more than `Throttle` and the `lag` of the clock, so it is
  over when the next check fails unless these two exceed the interval.  `WindowMeaning` reduces the case of midnight to the circle of the day.
* **RateLimiter.**  `Queue`: for every download, the debt of the bucket is at most its own
  remaining wait, plus a chunk for each one that sleeps longer, plus a chunk of each for every
  cancelled check.  A download that reports has no wait left, so the debt it adds to
  is bounded by the others, and its new wait is the longest.

The type invariants of `Hooks`, `SourceScan` and `RateLimiter` are proved and therefore not
part of their runs; that of `Pipeline` is in its run as a conjunct of `IInv`.

Only model-checked: liveness
(`EventuallyConcluded`, `EveryDownloadReturns`, `HookReturns`, `ScanEnds`, `HungCheckDetected`,
`ShutdownCompletes`, `RevocationReported`), which is beyond the prover under fairness, and that
`Compact` is the filter of a list, an induction over data.

## 5. What is not modelled, and why

* `SizeFilter` and `PatternFilter`: `build_filters` cannot construct them, so their
  `matches` is never called.
* The parsing of urls, sizes, dates and rates, `${VAR}` substitution, path building and the
  sanitizer, `build_hook_command`: pure functions over strings, character by character.
  The models take their results: good or bad, equal or not.
* The settings other than sources and filters in the loader: each is read, converted and
  checked on its own, and the models take them as constants.
* Logging, the run summary, the contents of notifications: no state that anything reads.
* pyrogram and Telegram: external; their outcomes are choices of the environment.
* Whether a message that Telegram does not return is deleted or only unavailable: the
  code does not tell the two apart either, and forgets both.
* What is in a `.partial` file that a cancelled check or a crash left: a later download of the
  same message under the same name overwrites it, and no other download uses it.  That it
  exists is modelled, also where it stays for good.

## 6. Plan

Written, in order of importance: `Pipeline`, `Download` over `FileStore`, `Daemon`,
`Startup`, `RateLimiter`; then `SourceScan` over `OneLook`, `Hooks`, `Schedule` and
`Notifications` within `Daemon`, `Loader` and `Filters` under `Startup`; `Backlog` under
`Pipeline`; and the theorems, which state every safety property of the runs.  What would
add most next:

1. `NoLoss` for sources that share a key and want the same, which `DistinctKeys` excludes.
2. An abstract daemon (working, failing, stopped) that `Daemon` implements.
3. `RateLimiter` within `Download`, whose sleeps hold a download slot.
