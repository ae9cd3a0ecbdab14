# A TLA+ model of qBittorrent RSS Rules

The application keeps RSS download rules in SQLite, publishes them to
qBittorrent, searches Jackett for releases, follows watch state in Jellyfin and
Stremio, and speeds up downloads by way of Real-Debrid and JDownloader. It is
one Python process: FastAPI routes on a thread pool, a handful of daemon
threads, one SQLite file, and HTTP services that may fail, be slow, or do what
they were asked and lose the answer. What is hard to get right lies between
those threads and services, and that is what these modules model.

Paths below are relative to the repository; `app/services/` is left out where
it is clear.

## 1. Inventory

| Part | State | Operations | Hard because |
|---|---|---|---|
| **Sync queue** `sync_queue.py` | deque and set of rule ids, batch counters, active count, adaptive limit and streak, feed-preparation flags, operation id, dispatcher thread, executor, stop event | `enqueue_rule_sync`, `_sync_worker_loop`, `_dispatch_next_rule_sync_locked`, `_process_and_finalize`, `start_/stop_rule_sync_queue` | requests, dispatcher, executor threads and shutdown interleave on one condition; the lock is released around every sync and around the preparation |
| **Operation records** `operation_status.py` | records by id | start, update, complete, fail, prune | written by whoever finishes last |
| **Rule synchronisation** `sync.py` | `rules` rows; qBittorrent's RSS rules by name | `sync_rule`, `_cleanup_disabled_rule`, `delete_rule`, `sync_all` | works on rows loaded long before the commit; several actors; lost answers; names are the only remote key |
| **Recovery scheduler** `qb_recovery_scheduler.py` | none of its own | `run_once` every 10 s | commits, then enqueues, one by one |
| **Rule routes** `routes/api.py` 1829-2042 | open requests | create, update, delete, sync one, sync all | load, await the form, commit, enqueue |
| **Download acceleration** `download_acceleration.py`, `download_acceleration_scheduler.py` | `download_acceleration_jobs` rows | one tick: discover, order, advance | a chain of calls to three services with commits in between; restart at any point |
| **Acceleration routes** `routes/api.py` 1424-1494, 2550-2624 | - | adopt, retry, cleanup, queue a history item | run beside the tick in sessions of their own |
| **Rule fetch** `rule_fetch_queue.py`, `rule_fetch_scheduler.py`, `rule_fetch_ops.py` | deque and set, run lock, snapshots, schedule columns | enqueue, worker, scheduled run, batch with a second attempt | two users of one non-blocking lock; worker that dies with ids reserved |
| **Selective queue** `selective_queue.py`, `POST /search/queue` | the files and priorities of a torrent in qBittorrent | add, wait for metadata, switch all files off, switch the wanted ones on, merge trackers | two calls per choice, no lock between requests for one torrent, daemon threads that a restart ends |
| **Watch state** `watch_state.py`, `watch_progress_sync.py` | episode columns and completion evidence of a rule; positions at both providers | arbitrate floors, enable or disable by evidence, copy the newer position | two providers and the user write the same columns; a write at one provider must not undo the other's |
| **Automatic syncs** `jellyfin.py`, `stremio.py`, `*_sync_ops.py`, `*_auto_sync.py` | state token of each loop, sync locks | loops, manual syncs, creation and linking of rules | per-provider locks only; sessions loaded long before the commit; catalogs that come and go |
| **Title matching** `_match_rule`, `_match_library_item` | links of rules to library titles | match, link, create | names and ids that agree only in part |
| **Rule builder, filter, plan** `rule_builder.py`, `rule_fetch_ops.py`, `selective_queue.py` | none | pattern for qBittorrent, filter of saved rows, files of a torrent | three separate readings of one rule that should agree |
| **Cached counts** `rule_fetch_ops.py`, `rule_search_snapshots.py`, `routes/pages.py` | snapshot, cache key and counts, `last_*` columns | search, refresh, show | key that must cover what the filter reads |
| **Search** `jackett.py` | merged groups, sections, warnings | wordings, indexers, fallbacks, merging, filtering | indexers fail one by one; a failure must neither hide results nor replace saved ones |
| **Quality taxonomy** `quality_filters.py`, `/taxonomy/...` | a JSON file, layered caches, tags stored by rules and profiles | edit, validate, write, clear caches, normalise | cached readers in other threads; references from rules |
| **Settings** `settings_service.py`, `/settings/...` | one row | create, repair on load, forms, tests | every page writes what it repaired; overlapping sessions |
| **Real-Debrid link** `real_debrid_auth.py`, `/settings/real-debrid/...` | client, token and status columns; device flows in memory | connect, poll, refresh, disconnect | HTTP between load and commit; tokens that supersede one another |
| **History download** `_queue_real_debrid_history_download` | acceleration jobs by key | hand over to MyJDownloader | check, hand over, insert |
| **Promotion** `scripts/promote_production.py` | host lock, journal, GitHub deployment, backup, image tag, container | preflight, record, back up, finalise, verify, audit again | a crash between any two steps; a finalizer that outlives its parent; answers that are lost |
| **Sessions** `db.py` | - | load, commit | no autoflush, no expiry: a commit writes the changed columns over whatever is there |
| **The rest** clients, metadata, categories, import, pages, schemas, desktop shell | - | - | I/O, sequential or presentation |

How they interact: a route commits a row and then calls `enqueue_rule_sync`;
the queue's threads open a session each and run `SyncService`; the startup
thread and the recovery scheduler run the same service or feed the same queue;
`SyncService` talks to qBittorrent over HTTP. The acceleration tick reads
qBittorrent's torrents, keeps job rows, and calls Real-Debrid and JDownloader.
Sessions are opened with `autoflush=False, expire_on_commit=False`
(`app/db.py:54`): a session sees each row as it was when it loaded it, and its
commit writes only the columns whose values it changed. Every model of code
with a database session is built on that (`RowSession!Flush`, or a `Written` of
its own). The watch syncs, the search pages and the settings forms are further
sessions over the same rows; the taxonomy is read by all of them through caches.
The promotion script runs in a process of its own on the host.

What makes each part correct is stated by the properties of section 4; the
hazards they are aimed at, with their lines, are in `PROJECT.json`.

## 2. Modules

| Module | What it is |
|---|---|
| `WorkQueue` | the promise of the sync queue to its callers: requests coalesce while they wait, never with a task that is running already |
| `SyncQueue` | `sync_queue.py`, one action per critical section of `_QUEUE_CONDITION` |
| `SyncQueueProofs` | theorems about `SyncQueue` and their proofs |
| `RuleSync` | `sync.py`, the rule routes, the startup reconciliation and the recovery tick over the rules table and qBittorrent, composed with the queue's promise |
| `Acceleration` | the acceleration tick, its routes and the three services it calls |
| `RuleFetch` | the queue of new rules, the scheduler and user requests over the one batch that fetches release snapshots |
| `WatchState`, `WatchProgress`, `TitleMatch` | the arbitration of floors and evidence, of positions, and of titles, as operators |
| `WatchSync` | the two loops, manual syncs and forms over the rule of one title |
| `WatchProgressSync` | `watch_progress_sync.py` for one series, with people watching meanwhile |
| `ReleaseFilter`, `ReleaseCache` | the pattern, the filter and the plan of a rule as operators; the cached counts of its saved search |
| `SelectiveQueue` | requests that queue one torrent and choose its files |
| `JackettSearch`, `ResultMerge`, `SearchFilter` | a search over failing indexers; the grouping of its rows; the filters of its two sections |
| `QualityTaxonomy` | the taxonomy file, its edits and its caches |
| `RowSession` | what a session's commit writes |
| `Settings`, `RealDebridLink`, `HistoryDownload` | sessions over the settings row; the Real-Debrid link; a history item handed over |
| `Promotion`, `DeploymentRecord` | the promotion of a release; what GitHub's record of it promises |
| `RuleFetchProofs`, `RuleSyncProofs`, `AccelerationProofs` | theorems about `RuleFetch`, `RuleSync` and `Acceleration` |
| `WatchProofs`, `JackettSearchProofs` | theorems about the watch state, its operators and `WatchSync`; about a search and its filters |
| `SearchProofs` | theorems about `ResultMerge`, `ReleaseFilter`, `ReleaseCache` and `SelectiveQueue` |
| `UpkeepProofs` | theorems about the taxonomy, the settings, the link, the history download and the promotion |
| `MCSyncQueue`, `MCRuleSync`, `MCAcceleration`, `MCRuleFetch`, `MCWatchSync` | small instances for TLC |

### SyncQueue

The module-level variables of `sync_queue.py` are the variables of the module,
under shorter names (the comments in `VARIABLES` give the Python names).
`EnqueueRuleSync` is the whole critical section of `enqueue_rule_sync`
including the start of a new batch, the refresh of the operation and
`_ensure_worker_locked`. The dispatcher's loop is cut where it releases the
lock: `DispatcherStarts`, `PrepareBegins`, `PrepareEnds`, `Dispatch`,
`DispatcherWaits`, `DispatcherTimesOut`, `DispatcherDrains`, `DispatcherExits`.
An executor thread goes through `TaskStarts` (reads the reconcile flag),
`TaskSyncs` (any result `_process_rule_sync` can have) and `TaskFinishes`
(the `finally` block: counters, adaptive limit, closing of the operation,
notify). `stop_rule_sync_queue` is `StopRequested`, `StopJoins`, `StopCloses`.
`stopper`, `requests` and `unserved` are not in the code: where the stopping
thread stands, a bound, and the history that says which requests no dispatch
has served. `Work!...` maps this state to `WorkQueue`: `unserved` for its
requests, `task[w].rule` for what is being served, `stopEvent` for closed.

### RuleSync

`rows` is the rules table and `qb` qBittorrent's rules by name, whose values
are payloads (a function of rule and columns, as in `RuleBuilder`). The user's
columns other than name and `enabled` are a version number, `content`: what
matters is which save a payload comes from. Every actor holds the rows it
loaded (`job[w].row`, `boot.rows`, `form.row`, `deleter.row`), and `Written`
is the commit of one column: the stored value stays unless this session
changed its own. Every qB call is an action with a reply: answered; carried
out but the answer lost; unreachable; refused. The queue appears as `pending`
and `Dispatch`, that is as `WorkQueue`, which `SyncQueue` is shown to
implement; `owed` is the window between a route's commit and its
`enqueue_rule_sync`. `Crash` keeps the database and qBittorrent and starts the
reconciliation again. `contended` and `displaced` are history: rules that two
actors were syncing at once, and rules whose remote name another rule's sync
wrote to.

Left out: `feed_urls` and `search_indexers` (each sync derives them anew),
categories (the calls that create and prune them may fail, their effect is not
recorded), `SyncEvent` rows, and SQLite's write lock.

### Acceleration

`jobs` is the job table by infohash; `serial` tells the rows of one torrent
apart when a cleanup deletes one and the next tick discovers the torrent again.
A tick loads all rows (`tick.rows`), orders the ready ones by `Before`, takes
the first `MaxJobsPerTick` and walks through `_advance`; each call is an action
with a reply, each `_save` part of the step that ends in it, or a step of its
own where a crash in front of it matters (`SaveProvider`, `SaveSelection`,
`SaveAttached`, `SaveFallback`). `Raised` is the handler of `run_once`:
rollback, count, back-off. `Merged` is the commit, as in RuleSync. The services
are part of the state: `qb` (metadata, progress, tags, web seeds), `rd` (the
account's torrents and their status) and `packages` (what JDownloader
accepted). Metadata may never arrive, Real-Debrid may fail at any stage, and
the owner of the account may select files on Real-Debrid's own site.

Left out: matching of file lists (`match_selected_files` succeeds; a mismatch
is a failed call), the retry delay (a flag that time clears), and a change of
the web-seed base URL.

### RuleFetch

`rule` holds, per rule, whether the row exists, its completion state (`mode`),
its snapshot (none, fresh, or older than the refresh interval) and its retry
columns (`clean`, `waiting` while `snapshot_fetch_next_attempt_at` is in the
future, `elapsed` after that). `queue`, `reserved` and `worker` are the module
variables of `rule_fetch_queue.py`; the worker is cut at its two critical
sections and between selection, lock and bookkeeping. `batch` is the call of
`run_rules_fetch_batch` that holds `_RULE_FETCH_RUN_LOCK`: `StartBatch` runs to
the first attempt, `BeginInOwnSession` and `BeginInCallerSession` are the two
ways to attempt a rule, `FetchSucceeds` and `FetchFails` the end of the
search, `StartSecondPhase` the second attempt of what failed, `RecordOutcomes`
the one transaction at the end and `EndBatch` the `finally`. `batch.seen` is
what SQLAlchemy holds of each rule in the caller's session: a rollback expires
all of it, the next access reloads it, and a row that is gone then raises, or
raises at commit if it was not expired. So a deletion during a batch can cost
every rule of it its record, and the model says exactly when. `batch.noted` are
the rules whose retry columns that session loaded as set: a commit writes only
what differs from what was loaded, so `Verdict` of a success clears them if they
were noted or are loaded anew, and otherwise leaves what the worker wrote
meanwhile, when it was refused by the lock and recorded a failure (`batch.hit`).

Left out: the schedule's last and next run (shown, never read by the
selector), the operation record of a batch, the order of attempts within a
batch, and Real-Debrid as a second provider (a search succeeds or fails).

### WatchState, WatchProgress, TitleMatch

An episode key `SxxEyy` is the number `100 * xx + yy`; `IncrementFloor`
counts as the code does: `S01E99` is followed by `S02E01`, `S99E99` by itself.
`WatchState` is `watch_state.py`: which floor wins (`SelectFloor`), what a
provider's watched and in-progress episodes say of a rule, and when all
evidence together disables it or enables it again. `WatchProgress` is
`choose_newer_watch_progress` with its tolerance, and what a write of the
winner leaves at each provider, down to how Stremio packs the bitfield of
watched episodes. `TitleMatch` is the choice of a rule for a Stremio title and
of a Jellyfin item for a rule.

### WatchSync

One title, its one rule (a movie is a title with one item), the two libraries,
and everyone who writes the rule: each provider's loop (compare the library's
token with the last one, sync if it changed, remember the token), manual syncs,
and the user's forms. A sync loads the row, works, and commits column by
column; each provider's lock keeps two syncs of it apart and nothing keeps the
providers apart. A catalog may be absent, a sync may fail at any point, the
process may die. Jellyfin's token is made of the time stamps of its main database
file, and a change may so far be in the `-wal` file alone: `JellyfinChanges` moves the
mark or not, and `silent` remembers that it did not; so does a write of progress
into Jellyfin. `BitsAfter` is what the bitfield holds after items were written
into Stremio one by one in a given order. A behaviour begins with a row that no sync has labelled yet;
`WatchInputsAssumption` types the rows, libraries, forms and catalogs. Publication to
qBittorrent after the commit is left out: it is RuleSync's business.

### WatchProgressSync

A sync reads both providers, then writes one item after the other, the newer of
two positions winning, while people go on watching at both. `MaxActs` and
`MaxSyncs` bound it.

### ReleaseFilter, ReleaseCache

A text is what the regular expressions find in it: terms, quality tags, season
packs, mentions of episodes (with what follows them, a dash or a number, where
the expressions look at it). The year in the title (`titleYears`) and the year of
the row, which the indexer may give alone, are two things: the published pattern
reads the one and the filter the other. `LocalPattern` and `QbAccepts` are the pattern of
`rule_builder.py`, `Failures` the reasons of `rule_fetch_ops.py` to hide a row,
`Selected` the plan of `selective_queue.py`. `ReleaseCache` adds who stores and
who shows counts: a fetch, a search over other feeds, a change of the rule.

### SelectiveQueue

`submitted`, `present`, `known`, `on` and `trackers` are qBittorrent's side.
A request adds the torrent, waits for its files in the request or in a daemon
thread of at most 45 s, sets all priorities to 0 and then the wanted ones to 1.
Any call may fail or lose its answer, requests interleave call by call, and a
restart ends them all. `told` is what the user was told.

### JackettSearch, ResultMerge, SearchFilter

`JackettSearch` walks through `JackettClient.search` and `_search_imdb_first`:
by structured fields, by wordings, by IMDb id, probing the capable indexers,
exact titles, titles. A request to an indexer gives rows, a timeout, a 400, an
HTTP failure or a client error, after up to `MaxAttempts` variants. `Save` is
what `execute_rule_fetch` does with the outcome. `ResultMerge` is
`_merge_results` row by row: keys, and the bridge by which rows without a hash
(and others) join the group of their signature. `SearchFilter` is the request
made of a rule, its reduction when it is too large, and the filters of the
primary and the fallback section.

### QualityTaxonomy

`file` is the taxonomy on disk, or a torn one; `cache[l]` what each `lru_cache`
level was made from; a reader descends to a cached level and fills the ones
above on its way back; the routes run on the event loop, write, and clear the
levels from the derived ones down to the loaded file. `stored` is what rules
and profiles hold. Labels, patterns and orders of options are left out, as is
what a validation error says.

### Settings, RealDebridLink, HistoryDownload, RowSession

`Settings`: a session opens, creates or repairs the row on load (and commits
the repair). What a repair makes of a column depends on the taxonomy and on other
columns, and on the key for legacy secrets, so `Repaired` is a set: any column may
take any of its `FormsOf`. The session then saves a section, tests on a copy, or leaves. `crossed` is
history: columns written over a newer value. `RealDebridLink`: the columns
client, token and status over which `connect`, `poll`, the refresh before each
use, and `disconnect` work, each with HTTP between load and commit; the
registry of flows is memory and goes with a restart. External, from how the
code uses them: a device code is exchanged once, each flow makes a client of
its own, and a new token supersedes the older ones of its client.
`HistoryDownload` cuts the handler at its check, its hand-over and its insert.

### Promotion, DeploymentRecord

An attempt is a process with a program counter; the host lock, the journal, the
backup, the kept image, the container and the finalizer are host state, status
and record are GitHub's. Every write and every call may fail, a call may be
carried out and its answer lost, the finalizer may time out and live on, the
process may die between any two steps. The retry of the audit is a second kind
of attempt. `DeploymentRecord` is the promise to whoever reads GitHub.

## 3. Runs

| Run | Module, cfg | Instance | Result |
|---|---|---|---|
| `sync_queue` | `MCSyncQueue`, `MCSyncQueue.cfg` | 2 rules, 3 threads, limit 2 rising to 3, 4 requests | passes, about 233,000 states |
| `sync_queue_backoff` | `MCSyncQueue`, `SyncQueueBackoff.cfg` | the same, 2 requests | `TransportFailureBacksOff` violated |
| `rule_sync` | `MCRuleSync`, `MCRuleSync.cfg` | 2 rules sharing one name, 1 queue thread, the startup thread, 2 user actions, 1 fault | passes, about 1.57 million states |
| `rule_sync_ok` | `MCRuleSync`, `RuleSyncOk.cfg` | 1 rule, 2 queue threads, no fault | `OkMeansPublished` violated |
| `acceleration` | `MCAcceleration`, `MCAcceleration.cfg` | 1 torrent, 2 link groups, 3 submissions, 1 request, 1 fault | passes, about 288,000 states |
| `acceleration_batch` | `MCAcceleration`, `AccelerationBatch.cfg` | 2 torrents, 1 job per tick, no fault | passes, about 65,000 states |
| `acceleration_placeholder` | `MCAcceleration`, `AccelerationPlaceholder.cfg` | 1 torrent, 1 fault | `PlaceholderStopped` violated |
| `acceleration_fallback` | `MCAcceleration`, `AccelerationFallback.cfg` | 1 torrent, no fault | `MetadataLessFallsBack` violated |
| `rule_fetch` | `MCRuleFetch`, `MCRuleFetch.cfg` | 2 rules, batches of 2 in parallel, 2 acts of users, time or shutdown, 2 faults | passes, about 264,000 states |
| `rule_fetch_backoff` | `MCRuleFetch`, `RuleFetchBackoff.cfg` | the same | `AutomaticRespectsBackoff` violated |
| `watch_sync` | `MCWatchSync`, `MCWatchSync.cfg` | 3 starts, 3 catalogs, 3 states of either library, 2 forms, 2 events | passes, about 3.3 million states |
| `watch_progress` | `WatchProgressSync`, `WatchProgressSync.cfg` | 2 episodes, 2 positions, 2 acts, 1 sync | `MissingClearsNothing` violated |

Bounds, all named constants that appear in guards:

- `MaxRequests` (SyncQueue): with 4 requests over 2 rules a rule is asked for
  while it waits, while it runs, after the queue drained, and a new batch
  begins after an old one. Three threads let two tasks of one rule overlap with
  one of the other, and let the limit rise and be halved.
- `MaxActions`, `MaxFaults` (RuleSync, Acceleration): each action of the user
  is a form, a deletion or a request; each fault one failed or lost call, one
  exception or one crash, at any point. Two actions are what a race of a form
  with a save, a rename with a creation, or a deletion with a re-sync takes. The
  safety properties of `acceleration` also hold with two requests (3.3 million
  states); the run uses one so that the liveness property stays cheap.
- `MaxActions`, `MaxFaults` (RuleFetch): two faults are what it takes to fail
  both attempts of a rule, or to raise and then die; an unconfigured Jackett
  fails a batch without a fault. A back-off elapses without a bound. Both rules
  may exist at the start, so that the two acts are free for what interferes: a
  deletion, a change of mode, settings, a user's batch, a search from a page,
  a shutdown.
- `MaxEvents` (WatchSync): what happens from outside, together: changes of a
  library or of the catalog, forms, manual syncs, failures, crashes. The loops
  run without a bound. Two events let a form or a change of one library fall
  between the load and the commit of a sync, and a second one follow it.
- `MaxActs`, `MaxSyncs` (WatchProgressSync): the counterexample takes one
  watched episode on either side and one sync.
- `MaxSubmissions`: Real-Debrid torrents in the account. One submission per row
  plus one resubmission after a lost answer is reached below the bound.

`CHECK_DEADLOCK FALSE` is set where the bounded system comes to rest (nothing
left to do and no action of the user left); `SyncQueue` never rests, because it
may always be stopped and started, and is checked for deadlock.

## 4. What the runs show

**Sync queue.** No request is lost: a rule asked for since its last dispatch is
in the deque, once (`NoLostRequest`). The counters and the operation are exact
at every moment (`EveryRequestAccounted`, `OperationTracksWork`). One
preparation of the feeds serves each batch (`OnePreparationPerBatch`). After
`stop_rule_sync_queue` nothing is left (`StoppedMeansQuiet`) and it returns
(`StopTerminates`). The queue implements `WorkQueue` (`ImplementsWorkQueue`)
and serves every request (`RequestsServed`).

**Rule synchronisation.** No sync, recovery, deletion attempt or restart
overwrites what the user saved (`UserEditsSurvive`), which rests on the
column-wise commit. Every rule ends with a verdict (`SettledWhenQuiescent`). A
rule marked `ok` is what qBittorrent holds (`PublishedUnlessContended`) and a
deleted or disabled one is gone from it (`WithdrawnUnlessContended`), for every
rule that no two actors synced at the same time and whose name no other rule
wrote to.

**Acceleration.** Nothing is submitted twice for one job unless an accepted
submission went unrecorded (`NoDuplicateSubmission`). Every web seed is in its
job row unless a cleanup overlapped (`WebseedsOwned`). The placeholder is
stopped after a hand-over if nothing interrupts
(`PlaceholderStoppedUnlessInterrupted`). Finished jobs stay finished
(`TerminalIsFinal`). A job of a torrent with metadata settles (`JobsSettle`),
and the newest running download does so even at one job per tick
(`NewestActiveSettles`).

**Rule fetch.** The set that makes `enqueue_rule_fetch` refuse a rule holds
what waits, what is in hand and what a dead worker took with it, nothing else
(`ReservedAccounted`); the run lock always has a caller that waits for its
batch (`LockHasOwner`); a batch writes all its outcomes unless a rule of it was
deleted or something failed, and only a failure that the worker recorded during
the batch survives its success (`OutcomesRecorded`). Whatever memory loses, an
enabled rule without a snapshot gets one, as long as searches are configured
and failures end (`MissingEventuallyFetched`, the durable intent of phase 38).
The queue drains (`QueueDrains`) and a stop ends (`StopCompletes`).

**Watch state.** With the two loops, manual syncs, forms, two libraries that
change, a catalog that comes and goes, failures and crashes in any order: once
a sync that nobody disturbed has looked, a rule with completion evidence of
either provider is disabled, unless it is meant to keep searching
(`CompletedDisables`). A provider's label stays exactly as its last report
says, unless the other provider's sync wrote an older view over it
(`EvidenceKept`). No change of a movie's library slips between the mark that a
loop remembers and the library it reads, as long as the change moves the mark
(`SeenMeansReported`). A sync enables a
rule only if watch state or a vanished title had disabled it, if Stremio lists
the title as unwatched, or by putting back what it had loaded before somebody
disabled the rule (`EnabledForAReason`), and Jellyfin's never moves a floor back
(`FloorKept`). All six are proved for every title, see section 5.

**Where code and documents disagree** (quotes in `PROJECT.json`):

1. A transport failure does not lower the adaptive limit, because `sync_rule`
   returns it as a result and the queue takes a result for success.
2. Two actors that sync one rule at once can leave an outdated payload under a
   rule marked `ok`.
3. If stopping or tagging the placeholder fails after a hand-over to
   JDownloader, it is never tried again.
4. A magnet without metadata does not fall back after its timeout unless
   someone selects its files at Real-Debrid: Real-Debrid offers no links while
   it waits for the selection.
5. The queue worker and the fetch scheduler select what is due before they take
   the run lock, so they may fetch a rule that another batch has just put off.
6. Writing an episode into Stremio packs the bitfield of watched episodes only
   up to that episode, and so takes the watched marks of all later ones, those
   included of which Jellyfin has no progress.

### Fairness

- `SyncQueue!Fairness`: weak fairness of the dispatcher, of each executor
  thread and of the stopping thread. They are threads of a running process; the
  condition waits end by notification or after one second and the HTTP clients
  have timeouts. Nothing is assumed of requests or of the user.
- `Acceleration!Fairness`: weak fairness of the tick (the scheduler loops for
  ever), of an open cleanup request, of time (a back-off and a deadline pass)
  and of Real-Debrid's work on what it accepted. Nothing is assumed of peers or
  of the owner of the account.
- `RuleFetch!Fairness`: weak fairness of the worker, of the scheduler, of the
  batch in progress (its searches have timeouts), of handlers that still have
  to enqueue, of the clock, and of ending and starting the process. The run lock
  is tried without waiting, so nothing is assumed of who gets it; `QueueDrains`
  holds because other batches become rare once failures end, and excludes an
  unconfigured Jackett, where the scheduler fails batches for ever.
- `RuleSync` has safety properties only. What must eventually happen is stated
  of the states with nothing left to do.
- `WatchSync` likewise has safety properties only: its state space is too large
  for a liveness check of use. That the two providers converge is stated of the
  operators instead: `SettledInJellyfin`, `SettledInStremioSeries` and
  `SettledInStremioMovie` prove that one write settles an item, and
  `MovieRewrittenForEver` the case where it does not.

## 5. What is proved

`SyncQueueProofs` proves, for any set of rules, any number of threads, any
limit, streak and bound on requests, under `SyncQueueAssumption` alone:

| Theorem | States |
|---|---|
| `TypeCorrect` | `Spec => []TypeOK`; the adaptive limit never leaves `1..MaxWorkerLimit` |
| `RequestsAreKept` | `Spec => []NoLostRequest` |
| `CountersAddUp` | `Spec => []EveryRequestAccounted` |
| `OperationIsOpenWhileBusy` | `Spec => []OperationTracksWork` |
| `BatchIsPreparedOnce` | `Spec => []OnePreparationPerBatch` |
| `StopLeavesNothing` | `Spec => []StoppedMeansQuiet` |
| `QueueImplementsWorkQueue` | `Spec => ImplementsWorkQueue` |

The inductive invariant `IInv` is the conjunction of `TypeOK` and those five
invariants with three that make it inductive:

- `TasksWellFormed`: an idle thread holds no rule and a busy one holds one, so
  that `Busy`, the count of active tasks and the mapped `serving` change
  together.
- `DispatcherPhases`: nothing is active before a dispatcher has come up or
  after it has left (`_sync_worker_loop` leaves only when no task is active);
  the preparing flag is up exactly while the dispatcher prepares, in a batch
  that is not prepared yet and has work waiting. Without it a new batch could
  reset the flags under a running preparation, and `OnePreparationPerBatch`
  would not be kept by `PrepareEnds` and `Dispatch`.
- `StopPhases`: where the stopping thread stands says whether the stop event is
  set, the deque empty, the dispatcher gone and the operation forgotten.
  `StoppedMeansQuiet` needs it at `StopCloses`, and `OperationTracksWork` when
  the queue is started again.

The proof has one lemma per group of actions (`EnqueueStep`, `DispatcherStep`,
`PrepareStep`, `DispatchStep`, `TaskStep`, `FinishStep`, `StopRequestedStep`,
`StopperStep`, `QuietStep`), one step per conjunct that the actions disturb,
and lemmas about the deque (`AppendElements`, `TailElements`) and about the
number of busy threads (`BusyGrows`, `BusyShrinks`, `NobodyBusy`). `NextIInv`
collects them, `Invariance` adds the temporal step. The refinement is
`InitRefines` and `NextRefines` under `IInv`: `EnqueueRuleSync` is `Request`,
`Dispatch` is `Begin`, `TaskFinishes` is `End`, `StopRequested` is `Close`,
`StartRuleSyncQueue` is `Reopen`, and every other action leaves the mapped
state alone.

`RuleFetchProofs` proves four properties of `MCRuleFetch` for any rules, any
limit of a batch, any number of parallel searches and any number of acts and
faults: `FetchTypes`, `QueueAccounts` (`ReservedAccounted`), `RunLockHasOwner`
(`LockHasOwner`) and `BatchIsRecorded` (`OutcomesRecorded`, an action property).
To be inductive they take: a worker has a rule in its hands from the pop to the
end of its round (`WorkerWellFormed`); what left with a worker that died is not
queued too (`StrandedApart`), or the next enqueue would break the account; a free
lock leaves no batch and no selection (`IdleIsClean`); the members of a batch
were committed once, and an executor raised only if one was deleted
(`MembersExist`), which is what `BatchIsRecorded` needs of the step that gives a
batch up; a retry column that the batch's session does not know of was written
by the worker (`batch.noted`, `batch.hit`), without which a success might leave an
older failure in the row; a process that ended keeps nothing in memory (`NothingInMemory`).

`RuleSyncProofs` proves the five invariants of `MCRuleSync` for any rules, names
and queue threads, any failed calls, lost answers and crashes: `SyncTypesHold`,
`EditsSurvive`, `Settles`, `OkIsPublished`, `WithdrawnForGood`. Three of them
speak of a quiescent system only; the invariant `SyncInv` says what they rest on
in between.

- `UnsettledAccounted`: a pending or syncing rule is owed to the queue or, after
  a fault, to a reconciliation that will write its status.
- `OneAtATime`: as long as a rule is not `contended`, one session works on it.
- `SessionsCurrent`: then the row that session loaded is the table's but for
  what the user saved since, and that is waiting for another sync. This is the
  statement about stale rows: `WriteChanged` columns of a loaded row are written
  over newer ones only where a later sync repairs it.
- `PublishedOrPending`, `WithdrawnOrPending`: what qBittorrent holds of a rule,
  at each place of a sync, a reconciliation or a deletion.

The proof argues rule by rule: `Unaffected` says when a step leaves a rule's
part of `SyncInv` alone, `OneRule` that it is enough to look at the one rule a
step is about, and `CallStep`, `RecordStep`, `BootStep`, `DeleterStep` and their
like do that per action. `RuleSyncAssumption` has one conjunct for it, that
`NoId` names no runner.

`AccelerationProofs` proves the safety properties of `MCAcceleration` and
`AccelerationBatch` for any set of torrents, any number of link groups and jobs
per tick, any failed calls, lost answers and crashes: `AccelerationTypes`,
`SubmittedOnce` (`NoDuplicateSubmission`), `SeedsAreOwned` (`WebseedsOwned`),
`HandedOverIsStopped` (`PlaceholderStoppedUnlessInterrupted`) and the action
property `TerminalStaysFinal` (`TerminalIsFinal`). The invariant has two parts.

- `SessionInv`, what a loaded row is worth: a row the tick holds is the table's
  in the columns that only the tick writes, or its torrent was cleaned up and
  has no row (`SessionCurrent`); where the tick stands says what its row lacks
  (`TickWellFormed`); a job the tick has before it is not finished (`OpenJobs`),
  from which `TerminalStaysFinal` follows, since a tick writes a state only into
  the row it works on.
- `RemoteInv`, what the services hold for a row: a row that names no torrent of
  Real-Debrid leaves room for one submission, and one not handed over leaves room
  for one package per group, unless the tick has an accepted one to record
  (`SubmissionsCounted`, `PackagesCounted`); a cleanup holds the row it deletes,
  and finds no web seed once it has taken them off (`CleanupHasRow`); a job in
  the hands of JDownloader says so in its row (`FallbackIsRecorded`), and without
  faults its placeholder is stopped and tagged or the tick is about to do it
  (`HandedOver`).

`NoDuplicateSubmission` alone is not inductive: it counts rows and submissions
and does not say whether a row still wants one.

### The syncs of the watch state

`WatchProofs` proves all six properties of `MCWatchSync` for any episodes,
starting rows, forms, libraries and catalogs: `WatchTypes`, `CompletedIsDisabled`
(`CompletedDisables`), `LabelsAreReports` (`EvidenceKept`), `MarksAreTrue`
(`SeenMeansReported`), `ReasonToEnable` (`EnabledForAReason`), `FloorNeverFalls`
(`FloorKept`), the last two of them action properties. `MarksAreTrue` speaks of a
library whose last change moved its mark. It assumes
`WatchSyncAssumption` and `WatchInputsAssumption` only.

The proof separates what a sync computes from who wrote meanwhile. `Sound` says of a
row and the row it was computed from which columns agree, that completion
disables, that a rule is enabled for a reason (`HasReason`) and that the floor is
held (`FloorHeld`); the lemmas `JellyfinMovieSound` to `StremioGoneSound` prove
it of each branch, down to `DeriveFloorTypes` and the greatest and least episode
of a library. The invariant `IInv` adds to the properties, per provider:

- `LoadedInv`: what a session loaded and will write is `Sound`; as long as nobody
  else committed, its row is the table's; the label in the loaded row is the one
  reported last, unless overwritten; and what it found still holds while the mark
  it took first is fresh. This is the statement about reading the library after
  its mark that `SeenMeansReported` needs.
- `FinishingInv`: after its commit a session has nothing left to write but the
  episodes it remembers of Stremio, and its report stands while its mark is fresh.
- `SeenInv`: a current mark means that the last report stands.

`Kept` says when a step leaves one provider's part alone, so that each action is
proved for the one sync it moves. What `BitsAfter` returns after many writes is
an induction over data; the proof needs only its type, and that it changes
nothing if the catalog knows none of the episodes. Both are proved by hand from a
least counterexample (`BitsAfterTypes`), as the induction theorems of the
library take an operator as parameter.

### The other proof modules

The modules below have theorems instead of a run: what matters of them holds for
every value of the constants and is proved so. Their assumptions about constants
are definitions (`ConstantsOK`, `ResultsOK`, `SearchOK`, `TaxonomyOK`,
`SettingsOK`, `LinkOK`), named in each theorem that needs one; they say which
types the constants have, that the "none" values lie outside the sets, and no
more, where the table does not name a further condition. While they were
written, small instances were explored with TLC, to find out what holds before
proving it: SelectiveQueue with 2 requests and 3 files (12,050 states),
Promotion with 2 attempts and 2 versions (1,148,160), ResultMerge with 5 to 6
rows, 2 hashes and 2 to 3 signatures (65 random instances of up to 2,854),
JackettSearch with 2 indexers, 2 wordings and 3 rows (about 3,000),
RealDebridLink with 2 flows and 2 workers (1,436,776), HistoryDownload with 2
items and 2 requests (6,509), all complete; QualityTaxonomy (2 names, 2 threads,
3 drafts, over 10 million) and Settings (2 sessions, 3 columns, over 60,000) as
far as time allowed.

**`WatchProofs`** (operators, all records): `SettledInJellyfin`,
`SettledInStremioSeries`, `SettledInStremioMovie`: one write of the winner leaves
nothing to do for the next sync, for an episode if it was the last one written
for its series, for a movie if Stremio was not further. `MovieRewrittenForEver`
is the case left: every later sync chooses and writes the same item, and the
write changes nothing. `SelectFloorKept` is `FloorKept` of the operator.
`MatchTakesNone`, `LinksStayInjective`: a title is matched only to a rule that is
free or its own, so two rules never share a title. `LibraryMatchAgrees`: a
Jellyfin item never contradicts the IMDb id of its rule. The unlisted
`WriteForgetsLater` proves finding 6 of all bitfields.

**`SearchProofs`, filter and cache**: `ShownYetRefused`: a row that the
filter shows and the published pattern refuses has one of five causes, which the
theorem names; there is no other. `SameKeySameVerdict`
and `KeyMissesKnown`: what the cache key covers, and that it misses the known
episodes. `DashedEpisodeAccepted`, `UnmappedFeedsHideAll`, `KeptPackHidden`,
`PlanAgreesWithPattern`: where the pattern, the filter and the plan agree and
where not. `CacheInvariant` (`CacheDescribesJudged` and `RowsOfTime`, inductive
together because two searches never share a time), from it `ShownCounts` and
`CountForExact`: when the counts on the pages are exact.

**`SearchProofs`, selective queue**: `Selection` is the inductive invariant: the request
that last switched all files off (`wiper`) is between its two calls, torn or has
set its own, and the files on are those of the requests that set theirs since
(`OnOK`). From it `FilesAccounted`, `NothingOnOnlyTorn`, `LastRequestServed`,
`SelectedIsTold`; and `SecondRequestOverrides`: a later request for other files
switches off those of an earlier one that was told they are queued.

**`UpkeepProofs`, promotion**: the invariant ties the program counter to the lock, the
journal, the status at GitHub and the evidence (`JournalOK`, `StatusOK`,
`EvidenceOK`), and says what runs as long as no finalizer was left behind
(`AliveOK`, `ImageOK`). From it `MutationBackedUp`, `FinalizersExclusive`,
`JournalAgreesWithGitHub`, `VerifiedImageBuilt`, `RollbackKept`; and
`RecordImplemented`: the promotion implements `DeploymentRecord`.

**`SearchProofs`, grouping**, for any rows, titles and sizes: `NoRowLost`
(`LosesOnlyOverwritten`): a row stays behind a link of a result until a row of its
torrent with another signature gathers its groups under the hash (`Overwrites`).
`TorrentIsOneResult` (`OneResultPerTorrent`) and `AgreedTorrentsAreKept`
(`AgreedTorrentsKept`), for each torrent unless it looks like another one
(`LooksLikeAnother`): its rows are in one result with no row of another hash,
whatever its trackers report; none is lost if they agree. `GroupOverwritten`,
`DifferentTorrentsMerged` and `HashForgotten` show that what is excepted happens.
The invariant says per torrent which bridges lead to its group (`BridgesOf`), which
face the group has (`FacesOf`) and where its rows are (`RowsOf`). That a row is no
longer under the key it came with is why `OnlyOwnKeysAdded` counts the keys of
bridges, too (`KeysInUse`).

**`JackettSearchProofs`**: `SectionsStayDisjoint`, `FailureIsEmpty`,
`StandardRunComplete` from `SearchInv`, which says per stage which keys are
excluded, and that a search without an answer has found nothing. `OutageClearsRows`: if
no indexer answers, a search by IMDb id succeeds with nothing, and its nothing
replaces the saved rows. `WantedYetHidden`: the primary section can hide what
passes all filters of the rule.

**`UpkeepProofs`, configuration**

- Taxonomy: `TaxonomiesAreValid`, `CachesAreFresh`, `NothingOrphaned`,
  `TornStaysTorn`, `RemovalStaysValid`, `InsertedAbove`. The invariant adds that
  readers and drafts hold valid taxonomies, that the levels above the one to be
  cleared are empty, and that a draft keeps what is stored; freshness holds only
  while no read overlapped a write, for want of a lock.
- Settings: `LastSaveStays`, `SecretsAreKept`, `OthersAreKept`. To be inductive
  it takes only that nothing is saved before the row exists. `SettingsOK` says of a
  repair that repairing twice gives no new forms and that a password or key is not
  made blank, of the OMDb column as long as a key is found in it. `SecretsAreKept`
  covers that column too, and excepts only the repair of a copy without a key.
- Real-Debrid: `LinkIsCoherent`, `NewestTokenKept`. The invariant says what each
  worker holds: a refresh a newer token of the client it loaded, a poll the first
  token of a client that no row has had yet (`WorkerInv`), one poll per flow
  (`FlowInv`), no token newer than the last one issued (`Bounded`). It rests on a
  device code being exchanged once.
- History: `HandOvers`. The invariant counts hand-overs against removals and the
  requests under way.

Only model-checked: `WatchProgressSync` beyond its operators, whose one run shows a
disagreement, and the liveness properties, which rest on fairness and `ENABLED`,
out of the prover's reach. What a recursive definition computes is proved only as
far as its type, as induction theorems over operators are out of its reach too.

## 6. Observations

What the code does that a reader of the models should know, and that contradicts
no document or only a general one.

**Search.** The documents say that rows without a hash are bridged to a sibling
with one (`CHANGELOG.md:333`, phase 31); the code bridges rows with another hash
too. The order of rows matters: a better seeded row without a hash drops the hash
and the magnet of its group. A torrent with two signatures has its group
overwritten. If Real-Debrid answers while Jackett fails, the rows of Jackett are
replaced although the message says that they were kept. A standard search of one
indexer that fails at a later wording drops the rows of earlier ones. An indexer
that fails with an HTTP status beside others leaves no warning. A failing list of
indexers fails a search by structured fields. A required term that is also an
alternative is dropped. A row bridged in the primary section may come again in
the fallback section, under its own key.

**Filters.** `S01E06 - Title` escapes the exclusion of episode 6, and
`S01E03 - 1080p` reads as a range up to 10. Searching from the page with feeds
not saved replaces the rows and leaves key and counts. Rules whose feeds map to
no indexer are searched on all of them and show nothing. A rule may carry the
exact badge beside "no matches". A rule that keeps searching hides packs of owned
episodes although the plan would select their unwatched files.

**Fetch.** A rule whose search succeeds keeps the back-off that the worker recorded
meanwhile, if the batch had loaded the rule without one (`rule_fetch_ops.py:1485`
sets to None what is None already).

**Watch state.** Jellyfin's loop looks at the main database file only
(`jellyfin_auto_sync.py:90`), a sync reads its `-wal` file too: a change that is there
alone is not seen before a checkpoint or a sync for another reason.

**Selective queue.** "Missing/unseen file selection will be applied when torrent
metadata becomes available" (`selective_queue.py:405-411`) does not come true after 45 s without metadata, a 404, a restart, or for a stopped magnet. A
409 of qBittorrent is taken for success. A failure between the two calls leaves
nothing on. A failed merge of trackers is answered with 400 though the torrent is
queued. `selective_queue.py:702-728` is started by nothing.

**Promotion.** An uncertain cleanup does not block the next promotion, so two
finalizers may run. A failure after the container was replaced can be neither
retried nor audited, and GitHub may stay at "in progress" for ever. Checks and
approval are read once. Version and image of what runs are read in two steps. The
model assumes that a manual rollback happens between promotions and that nobody runs
`Finalize Backend.cmd` by hand, which takes no lock.

**Taxonomy.** The product contract asks to block edits that orphan what is in use
(`docs/plans/application-product-contract.md:60`), and the editor of the whole file does;
the button that removes one option (`routes/api.py:2199-2220`) checks no
reference, and the rule loses the tag when it is next normalised. An option kept
by a rule is searched for as a literal word afterwards. A write cut short leaves a torn file that
prevents the next start and is never seeded again. `1440p` counts as Ultra HD.
Removing `full_hd` empties the HD profile. Bundles and aliases stored by rules do
not block a draft. Loading the settings drops unknown tags of profiles.

**Settings and Real-Debrid.** A test of typed credentials tests the environment's
where the environment overrides them. No form clears a secret. Columns with a
whole JSON document lose one of two concurrent saves. A page that only shows the
settings undoes a save if it repairs a stale copy; if the OMDb column of the copy
had no key in it, a key saved meanwhile is emptied. Two first sessions race to insert the
row. A refresh under way during a disconnection or a new connection writes the
old client's token. A second poll of a flow sets "error" over a linked row. A
failing account request after the exchange loses token and flow. An abandoned
flow leaves "authorizing". The refresh is repeated after a 5xx that may have been
carried out. Two overlapping requests hand a history item over twice.

## 7. Not modelled

Pure I/O (HTTP of the clients, XML and caps of Jackett, Jellyfin's database
reader, the web-seed proxy), presentation (pages, templates, ranking and paging
of results, the desktop shell and its browser checks), title parsing, metadata,
categories and import, the unification of snapshots, the schema and its
migrations, the encryption of secrets. Section 2 names what each module leaves
out of the part it models; `PROJECT.json` says so per component.

Hazards without a property of a run: SQLite's write lock held over HTTP
(`sync.py:133`), the handler that reads a deleted row
(`download_acceleration.py:200`, partly covered by `JobsSettle`), and four that
are the subject of theorems instead: `api.py:2588` (`HandOvers`),
`rule_fetch_ops.py:512` (`KeyMissesKnown`, `ShownCounts`), `real_debrid_auth.py:29`
(`LinkIsCoherent`, `NewestTokenKept`), `quality_filters.py:481` (`CachesAreFresh`).

## 8. Plan

Done: the queue, rule synchronisation, acceleration, rule fetch, watch state and
its syncs, the selective queue, search and filters, taxonomy, settings, the
Real-Debrid link, the promotion; every safety property that a run checks is
proved. Next, in this order:

1. An abstract specification of what the fetch of snapshots promises to whoever
   creates a rule, and of what a job of `Acceleration` promises to its torrent,
   each with the refinement proved step by step.
2. SQLite's write lock as a resource of `RuleSync`.
3. The unification of snapshots and the catalog of categories.
