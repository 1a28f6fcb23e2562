# A TLA+ model of splicefeed

splicefeed is a daemon that polls shows of one provider, downloads their
episodes, applies a retention policy, and serves podcast feeds. This directory
holds TLA+ modules translated from its source, TLC configurations that check
them on small instances, and TLAPS proofs of what holds for every instance.
`PROJECT.json` maps each definition to the lines it models and lists the runs,
their mutants, the findings, the hazards and the theorems.

## 1. The system

| part | source (under `src/crates/`) | state it keeps | operations |
|---|---|---|---|
| Storage | `core/src/storage.rs` | SQLite: `shows` (etag, poll outcome, artwork), `episodes` (lifecycle state, file, size and hash, progress) | `discover`, `mark_*`, `set_progress`, `reset_stale_downloads`, `set_episodes_etag`, `record_poll`, each one transaction under a connection mutex; `open`/`migrate` |
| Lifecycle | `core/src/domain.rs` | – | `can_transition_to` |
| Retention | `core/src/retention.rs`, `config.rs` | – | `split`, `plan`, layering of a show's policy over the global one |
| Download engine | `core/src/download.rs` | a semaphore; per call an attempt, its temp file | `fetch` with retries, `attempt` |
| Library | `splicefeed/src/lib.rs` | broadcast channel of events, handles on the rest | `sync`, `verify`, `apply_retention`, `reload`, `write_feed`, `write_opml` |
| Provider | `providers/src/` | an HTTP client; the quarantine directory with payloads that did not parse | `episodes` (conditional on an etag, entry by entry), `show`, `resolve_audio` |
| Artwork cache | `splicefeed/src/lib.rs`, `daemon/src/server.rs` | one file per source in `data_dir/artwork`, its path in the show's row | `cache_artwork` |
| Configuration | `core/src/config.rs` | – | `validate`, layering of show over global settings |
| Scheduler | `daemon/src/scheduler.rs`, `ops.rs` | one task per show, a one-permit semaphore per generation | poll loops, `sync_all_once` |
| Reload | `daemon/src/reload.rs` | the sender of the watch channel with the current library | `on_sighup`, `guard`, `apply` |
| Control socket | `daemon/src/control.rs`, `core/src/ipc.rs` | one task per connection | hello, snapshot, event stream |
| TUI | `daemon/src/tui.rs`, `report.rs` | report, log, vitals | `follow_control_socket`, `run_loop` |
| HTTP server, feeds, telemetry | `daemon/src/server.rs`, `telemetry.rs`, `core/src/rss.rs`, `opml.rs` | counters | read-only routes and rendering |

How they meet: `main.rs` opens one library, spawns the scheduler, an initial
sync, the SIGHUP handler and the control socket, and then serves HTTP. All of
them share the library through a watch channel. The library's calls share the
database, the media directory and the download engine with each other, and with
other processes: `run --once`, `verify --fix` and `status --watch` open the same
files. The library announces what it did on a broadcast channel, whose
subscribers are the control connections and telemetry.

What is hard here:

* **interleavings**: nothing serialises two syncs of one show. The scheduler's
  permit covers only its own loops; the initial sync, the sync after a reload
  and a second process run outside it. Each `await` in `sync` is a place where
  state read earlier goes stale;
* **kills**: the database, the media directory and the schema version change in
  separate commits, and shutdown waits for no task;
* **failure of one step of several**: a listing, a transfer, a storage call, the
  removal of a file;
* **order**: an etag stands for episodes which must be stored before it; a
  progress write may land after its transfer ended; an event must not be shown
  before the change it announces;
* **limits**: retention at its boundaries, the engine's permits, the bounded
  broadcast ring and channels;
* **data**: entries that do not parse hidden behind a stored etag, equal and
  missing dates, which the provider and the database order differently, episodes
  that upstream drops or dates anew, sizes that are known only after a download;
* **progress**: downloads stuck in the table, episodes that are never retried,
  shows that are never polled, a reload that never takes effect.

`PROJECT.json` lists these under `hazards`, each at its line.

## 2. Modules

| module | models | EXTENDS / instantiates |
|---|---|---|
| `Retention` | `split`, `plan`, policy layering, as operators on sequences; `Greedy`, the reference definition `split` is compared with | |
| `Storage` | an episode row and each statement that changes it, as operators on a row | |
| `EpisodeLifecycle` | the abstract specification: what `EpisodeState` documents | |
| `Library` | `sync`, downloads, `apply_retention`, `verify --fix` by several actors on one show | `Storage`, `Retention`; instantiates `EpisodeLifecycle` |
| `Polling` | one poll after another over the data upstream serves: wire format, quarantine, artwork, the two orders, plan against prune | `Storage`, `Retention` |
| `Downloader` | `fetch`, and engines replaced by `Library::reload` | |
| `Migration` | `Storage::open` by several processes | |
| `Scheduler` | which configurations are taken; manager, poll loops, one-off syncs, SIGHUP, shutdown | |
| `Control` | event broadcast, control socket and any client of it, `status --watch` | |
| `LibraryProofs` | theorems about any number of actors | `Library` |
| `RetentionProofs` | theorems about `split` and `plan` on any list, and `split` against `Greedy` | `Retention` |
| `SoloProofs` | theorems about one actor: what rows, files, policy and the window of a sync have to do with each other | `LibraryProofs`, `RetentionProofs` |
| `SchedulerProofs`, `DownloaderProofs`, `MigrationProofs`, `ControlProofs` | theorems about the module of that name | that module |
| `PollingProofs` | theorems about a poll | `Polling`, `RetentionProofs` |
| `MC*` | values of the constants for TLC | |

Definitions whose comment starts with "Mutant" are plausible wrong versions of
the definition below them. No action uses them; they show that the properties
can fail.

### Library

A state is the episodes table (`rows`), the show's row (`show`), the media
directory (`disk`), what upstream publishes (`upstream`), and for every *actor*
the call it is in: `task` (program counter and locals of `sync` or `verify`),
`dl` (one `download_episode` future per episode) and `snap` (the records
`apply_retention` or `verify` read). An actor is any caller that runs one call
after another: a poll loop, the initial sync, another process. Every await point
is a step boundary; a storage call is one step, since `Storage::with` holds the
connection mutex and every read-then-write runs in a transaction.

The sequence of a sync is `SyncStart` (the stored etag), `ResetStale`,
`ListNotModified` or `ListModified`, then `ShowMeta`, `Discover`, `SetEtag` or
`StoredWindow`, then `Plan`, the downloads (`MarkDownloading`, `Resolve`,
`Progress`, `Fetch`, `MarkCached`, `MarkFailed`), and `DownloadsDone`,
`RetentionRead`, `PruneRemove`, `PruneMark`, `SyncDone`. Error paths are
`PollFailed`, `FetchFails`, `DownloadStorageFails`, `PruneKeeps`,
`SyncStorageFails`, and the illegal-transition branches of the marks.

Abstractions: an id is a number and a larger one is newer; contents are named by
their size, and stand for size and blake3 together; a page is its own etag;
`progress_at` is `null`, `recent` or `old`, relative to `STALE_DOWNLOAD_AFTER`
(`ProgressAges` lets that time pass, but not under a transfer that is
receiving, which its read timeout would have failed); a progress write is
spawned off its transfer and may land late, in the model up to the return of
the call; `Fetch` is one step here,
the inside of it is `Downloader`. `write_feed` is the list of
episodes the feed holds and `serve_media` what the media route answers for a
path: the database decides the one, the disk the other.

### Polling

`Library` has the interleavings over well-behaved data; `Polling` has the data,
and one poll after the other, as the scheduler runs them. `upstream` is the page
and the images that are served, `config` the settings in force, `rows`, `dates`,
`etag` and `art` the database, `artfile` and `quarantine` the two directories,
`poll` the poll and its locals. A poll is `ListNotModified`, or `ListModified`,
`ShowMeta`, `FetchArtwork`, `SetArtworkPath`, `DropOldArtwork`, `Discover`,
`SetEtag`; then `Plan`, `Download`, `ApplyRetention`.

A field of an entry is a value, absent (`None`) or unparseable (`Bad`); a page
is its own etag; all downloads of a poll are one step, since `Library` has what
happens between them. The two orders are stated by the rank of an element (how
many come before it): `Sorted` is the provider's stable sort of the *places* of a
page, in which equal dates keep the page's order, `NewestFirst` the `ORDER BY` of
the database. Of two entries of one episode on a page, the one `discover` reaches
last gives the row its date. Every surprise (a failure, a change upstream, a reload, a
lost file, a crash, an answer without an etag) costs one of `MaxTrouble`: a
behaviour has finitely many, in any place, and `Settles` is about what comes
after them.

### Downloader

Per call: program counter, the engine it took, attempts, announced length, chunks
written. A call takes the current engine or, as part of a sync that began before a
reload, the one it had before. The announced length is any or none, so a body may
turn out shorter or longer than it. Every body ends (`Size` bounds it): the code has
no limit on a transfer as a whole, and one that never ends would keep its permit.
Backoffs keep the permit, as in the code. `Cancel` drops the future: if the
rename has been handed to the blocking pool it goes on (`Detached`).

### Migration

`execute_batch` runs statements one by one and each commits by itself. Init has
every schema version a release could have left behind.

### Scheduler

A configuration is what the daemon reads of it to decide whether it may run:
shows and their providers, the key, the settings that need a restart. `validate`
and `from_config` say which ones load, `guard` which ones a reload accepts; the
operator writes any of `Configs`, or a file that cannot be read. `RuntimeDir` is
the daemon's `XDG_RUNTIME_DIR`, if it has one, on which the path of the control
socket depends. A reload also fails when no HTTP client can be made for a new
download engine (`"client"` in `Faults`).
A library is its number in the sequence of reloads with its configuration.
`chan` is the watch channel, `mgr` is `scheduler::run`, `loops` and `polls` are
the loops and the semaphore queue of each generation, `once` the two callers of
`sync_all_once`, `hup` the signal handler. A sync is the interval between two
steps, since what happens inside is the subject of `Library`.

### Control

The database is the number of changes committed to it; an event is its position
in the sequence of all events and announces one change or none. `owed` holds the
changes that are committed but not announced; `conn` and `wire` are the daemon's
side of a connection and the bytes under way, `viewer` a TUI process with its
follower task, its channel and its `App`. `lagged` and `since` in a connection
are history variables used only by `StreamWhole`.

A client is a TUI or a *shell*: anything that writes request lines to the socket
(blank, unparseable, `snapshot`, `subscribe`), ahead of the answers if it likes.
`due` is what a shell is owed, in order, and `fits` remembers whether each line it
read was the one due. A line that is not UTF-8 ends the connection (`ConnEnds`),
any other unparseable one is answered with an error. A process that exits leaves
nothing behind (`GoneViewer`).

## 3. Runs

### What passes

| run | instance | what it shows |
|---|---|---|
| `polling` | 3 episodes of sizes 1 to 3; six pages (one entry, two, three of equal date, one without a date, dates exchanged, drifted entries among good ones); three configurations (a count of 1; a count of 2 and `fetch_last` 2 over global settings, with an artwork override; a cap of 3 bytes); two surprises | `KeptIsGreedy`: over every window, for every policy, the walk is the unique greedy selection and dooms the rest oldest first; `ChurnExplained`: a download is pruned in the same poll only for one of the reasons the plan cannot see; `EntriesAccounted`: no entry is lost behind a stored etag; `ArtworkServable`; `Settles`: polls stop downloading and pruning once nothing changes |
| `sync` | one actor that also verifies, 3 episodes, `fetch_last` 2, `keep_last` 1, two contents, listing and transfer failures, upstream only publishes | `CachedIntact` (a cached row is in the feed and its enclosure served whole), `RetentionHolds`, `NoChurn`, `NoStrayFile`, `StoredWindowIsListing`, `RedownloadOnlyDamaged`; `Converges`: once upstream settles, what the policy keeps ends up cached for good |
| `kill` | one actor, 2 episodes, upstream also retracts, transfers, storage and file removal fail, the process is killed anywhere | `CachedNeverWrong`: a cached row never describes other contents than its file's; `NoStuckDownload` |
| `verify` | one actor, 2 episodes, files lost or corrupted at any moment | `DamageRepaired` |
| `pair` | two actors with different `fetch_last` (1 and 2), 2 episodes, kills | what survives every interleaving: `EtagCoversListing`, `ProgressOnlyWhileDownloading`, `RowsRecorded`, and the refinement `FollowsLifecycle` |
| `scheduler` | 2 shows, 7 configurations (shows added or removed; `data_dir` or `control_socket` changed; a show twice, no key, an unknown provider) and an unreadable file, one reload, a download client that cannot be made, a SIGHUP handler that cannot be installed, shutdown | `TypeOK` (only usable configurations are ever in force), `OneGeneration`, `SchedulerSerial`, `StopsUnhandled` (no reload ends the polling), `ReloadTakesEffect`, `EveryShowPolled` |
| `downloads` | 2 calls to one destination, limits 1 and 2, one engine change, 2 retries, bodies of up to 1 chunk, shorter and longer than announced | `PermitsRespected` (of each engine), `WholeFiles`, `TempsOwned`, `FetchEnds` |
| `migrations` | 3 processes, every starting version, kills between statements | `OpenIsUpToDate` |
| `watch` | one client, a TUI or a shell that writes up to 2 lines, capacities 1, log of 2, 2 changes, 3 events, 2 daemon starts | `LogInOrder`, `StreamWhole` (only the ring drops events), `LogReflected`, `AnswersMatch` (one answer per request, in order, and events only after a `subscribe`), `ReportCatchesUp`, `OfflineShown` |

Why the bounds are enough: two episodes give a newer and an older one, so that
retention at 1 has something to prune; three give one that falls out of
`fetch_last`. One actor calls again and again, so a run covers sequences of
syncs of any length. Two actors meet at every pair of await points; a third
adds no new pair. With capacities of one every queue is full after one line and
the ring laps after two events. One reload is where two generations can meet;
the theorems cover any number. Two surprises are a change and a failure while
it is taken in, in any order; three also pass, in several minutes, and show
nothing that two do not. Clients share only the broadcast channel, which none
of them slows, so one is enough. `CHECK_DEADLOCK FALSE` stands where the program
may stop: `scheduler` (shutdown) and `watch` (the user quits, the bounds are
used up).

### What the code does and its documentation denies

| run | property | what TLC finds |
|---|---|---|
| `pair_intact` | `CachedIntact` | two syncs of one show: the one removes a file from a list it read before the other cached the episode; the row stays cached without a file (`lib.rs:755`) |
| `dropped_retry` | `OnlyListedFetched` | after a 304 the window is taken from the stored rows, so a poll downloads an episode that upstream dropped before (`lib.rs:303`; lines 325-327 say that rows outside the listing stay put) |
| `migration_crash` | `OpenSucceeds` | killed between a migration statement and the version update, every later open fails, because the repeated statement finds what it wants to add (`storage.rs:638`) |

### Observations without a run of their own

Met while translating; each is visible in the modules. Those that go against
a property of a run were confirmed with TLC: the property, asked of two callers,
two engines or all of the syncs of a daemon, fails.

* The stale sweep takes rows whose `progress_at` is NULL, so a second sync's
  sweep also flips a live transfer that has not reported yet (`storage.rs:340`;
  lines 321-324 speak of processes that are gone).
* A sync starts downloads from the states it read when it planned; an episode that
  another sync cached meanwhile is fetched again (`lib.rs:344`; `domain.rs:278-279`
  has such a download only for a file that failed verification).
* `mark_pruned` on an episode that another sync has pruned is an error that
  leaves `sync` before `record_poll` (`lib.rs:769`; lines 246-247 say that only a
  failure to list is an error).
* The initial sync and the sync after a reload run beside a scheduled poll
  (`main.rs:642`; `scheduler.rs:6-7` says at most one).
* A loop waiting for the permit when a reload arrives begins one more sync with
  the replaced library, also of a show that was removed (`scheduler.rs:67`; lines
  10-13 say that loops finish the sync in flight and exit).
* When the SIGHUP handler cannot be installed the sender of the watch channel is
  dropped: the log says that reload is disabled, but the scheduler and the control
  socket stop too (`reload.rs:100-101`; `scheduler.rs:22`). `StopsUnhandled` says
  that this is the only way.
* After a reload that changes `download_concurrency` the transfers of the old and
  the new engine together may exceed both limits (`lib.rs:198`; `config.rs:203`
  says at once, across all shows).
* A kill between the removal of a file and `mark_pruned` leaves a cached row
  without its file until a later sync or `verify` (`lib.rs:759-769`).
* A re-download that fails keeps the old `file_path` in a failed row
  (`storage.rs:117` says `None` unless cached).
* When upstream retracts a newer cached episode, a sync may fetch an older one
  and prune it at once, and again on every modified listing: the plan counts the
  listing, the prune every cached row (`lib.rs:241-242`). Entries of equal or
  without date do the same when the provider's order is not the database's, as
  long as upstream sends no etag.
* An entry that does not parse is skipped and the page's etag stored, so a
  daemon with a better parser does not see it until the page changes
  (`difm.rs:290`); and as it has no row, the window after a 304 reaches one row
  further back than the listing did.
* Quarantine names have a timestamp in milliseconds: the bad entries of one page
  may overwrite each other (`quarantine.rs:33`; `v1.rs:8-9`).
* Artwork is looked at only when the listing was modified, so a lost file stays
  lost behind a 304 (`lib.rs:287`; 416-420 says "on the next sync"). A `compact`
  image that is no URL has no fallback to `default` (`v1.rs:117-122`). A crash
  before the old file is removed leaves it for good; two syncs with different
  sources may remove the file the other recorded.
* A listing with one slug twice starts two downloads of one row; a re-download
  with another extension leaves the old file behind.
* A changed `[telemetry]` is accepted by a reload and not applied
  (`reload.rs:44-46`); telemetry subscribes after the initial sync was spawned and
  may miss its first events (`telemetry.rs:158`).
* Shutdown does not wait for syncs (`scheduler.rs:10-12`).
* A file that was transferred but whose row could not be marked, because of a
  storage error or a kill, stays on disk until the next attempt overwrites it
  (`lib.rs:722`).
* The TUI gets one snapshot per connection and connects once: its vitals are
  those of the moment it connected, and a daemon started later is never shown
  (`tui.rs:7-9`, `34-35`, `80`). After the follower has ended, `recv` returns
  `None` at once and the loop spins (`tui.rs:174`).
* `stream_events` holds a library handle itself, so the `Closed` it handles
  cannot occur while it runs.

## 4. Fairness

No module assumes that the operator, upstream or a failure ever does anything.

* `Library!Fairness`: awaits return, because connect and read timeouts bound
  every request (weak fairness of the steps after them); the scheduler starts
  syncs for ever (`SyncStart`); a request that is repeated for ever succeeds some
  time (strong fairness of the listing, `Resolve` and `Fetch`), without which
  nothing could be promised about downloads. `SyncStart` and `ResetStale` are strongly
  fair since kills and `verify` calls come in between. `ProgressAges` is
  the clock.
* `HealSpec` is weaker: transfers only end, well or badly. `VerifySpec` adds an
  operator who runs `verify --fix` now and then.
* `Polling!Spec`: the scheduler polls for ever and awaits return (weak fairness of
  `Step`); there is no fairness of failures or of the environment, and none is
  needed to exclude endless failure, since surprises are finite.
* `Scheduler!Fairness`: tasks are scheduled and syncs return; tokio's semaphore
  is first come first served (a queue in the model). `LoopExit` is strongly fair
  since the select in `show_loop` looks at the change whenever it is entered.
* `Downloader!Fairness`: each attempt's awaits end with one of their outcomes, and
  bodies are finite; `Acquire` is strongly fair because the semaphore is.
* `Control!FairSpec`: spawned tasks run; `select!` picks ready branches at
  random, so neither the tick nor updates starve.

## 5. Theorems

All are proved for every value of the constants that the named assumptions of the
modules allow (`NoneAssumption`, `LibraryAssumption`, ...). These give the
constants their types and say that the sets of episodes and of concurrent
downloads are finite and that a setting has at most one value; TLC evaluates them
in every run. Where a theorem needs more, it says so as a hypothesis, and an
instance that TLC checks satisfies it: `sync` those of `SoloProofs`, `polling`
those of `PollingProofs` (`MCPolling` assumes `OncePerPage`, so TLC evaluates it).

`LibraryProofs` (any number of actors, episodes, policies, faults):

* `TypeCorrect`: `TypeOK`, one lemma per group of actions.
* `LifecycleRefinement`: `Spec => FollowsLifecycle`. The lemma `RowSteps` reduces
  every step to what it does to one row: one of the storage statements under the
  guard the code gives it. `RowsMove` shows that each of those is a lifecycle step.
* `ProgressInvariant`: from the same lemma; the invariant is inductive
  with `TypeOK`.
* `EtagInvariant`: `EtagCoversListing` is not inductive: `SetEtag` stores what the
  actor holds. `EtagInv` adds that between the answer and `SetEtag` the etag
  held is that of the page held (or none), and that at `SetEtag` the page's
  episodes are stored; rows are never deleted (`StoredGrows`), so other actors
  cannot break it.
* `RecordInvariant`: `RowsRecorded` needs that a transfer that has ended knows its
  file and contents (`RecordInv`).

`RetentionProofs` (any policy, any list of candidates):

* `SplitRespectsPolicy`: the walk puts every candidate on exactly one side, keeps
  at most `keep_last`, and what it keeps fits into `max_bytes` unless it is only
  the newest one.
* `KeptIsStable`: applied again to what it kept, `split` dooms nothing. This is
  what makes a later poll leave the feed alone.
* `WalkIsGreedy`: over candidates none of which is listed twice, the walk meets
  the reference definition `Greedy`: an episode is kept exactly when fewer than
  `keep_last` newer ones are kept and, unless it would be the only one, the kept
  bytes with it are within `max_bytes`; the others are doomed oldest first. Without
  a byte cap this comes down to places in the list (`KeptAreFirst`, `FirstAreKept`).

  `split` is a recursive function over the positions of the list. The provers
  cannot instantiate an induction theorem that takes a predicate, so `UpTo`
  states induction for a *set* of numbers, derived from the minimum of a
  well-founded order; `WalkExists` uses it to show that the recursive function
  exists at all, and `WalkFacts` and `WalkOrder` what each prefix of the walk has
  done. `CanList` and `OneList` say that a finite set of numbers has exactly one
  listing newest first.

`SoloProofs` has the theorems about one caller. They are false with two: the run
`pair_intact` shows how. `Solo` is: one actor, every episode has a file stem of its
own, and only the daemon changes the media directory. `Steady` is `Solo` without
kills and without storage errors, both of which leave a removed file on record
until the next sync. Nothing is assumed about the number of episodes, the
listings, the policy or the failures of listings and transfers. The instance of
the run `sync` satisfies `Steady`, that of `kill` satisfies `Solo`.

* `NeverWrong` (`CachedNeverWrong`, under `Solo`). Inductive with `EpisodesOK`: for
  each episode, what its row, its download, the snapshot of `apply_retention` or
  `verify` and the file have to do with each other at each program point (a
  transfer runs only while its row is downloading; a transferred file is still
  there when its row is marked; what `verify` read is still true when it
  acts).
* `OnlyDamaged` (`RedownloadOnlyDamaged`, under `Solo` and if files can be read):
  from the same invariant; a row is queued by the sync only when not cached, by
  `verify` only when its file failed the check.
* `NoStray` (`NoStrayFile`, under `Steady` and if files can be removed). `FilesOK` says
  that a file is named by its row or has just been transferred, `PruneOK`
  that the prune works on the rows' own files and is at most one file ahead.
* `FeedIntact` (`CachedIntact`, under `Steady`): `PruneOK`, and `ShowKnown`, that a
  show with episodes has a row, without which there would be no feed.
* `PolicyHolds` (`RetentionHolds`, under `Solo` and if files can be removed; kills
  and storage errors are allowed). `RetainedOK`: from the moment `plan` has run, the
  cached episodes that are not doomed satisfy the policy. It is established by
  `KeptIsStable` and kept because nothing is cached while a prune is under way.

The last two are about what a sync plans over, and upstream decides that as
much as the code does. `OnlyAdds` is the hypothesis on it: listings are newest
first, and one that replaces another has all of its episodes. Both theorems are
false without it: the observations of section 3 tell what happens when
an episode is retracted.

* `WindowIsListing` (`StoredWindowIsListing`, one actor, under `OnlyAdds` and
  `WholeWindow`: the caller has a `fetch_last`, or everything published fits on a
  page). `TracedOK` follows the page from the answer to the plan: the etag sent is
  that of stored episodes, and the page answered or vouched for by a 304 is the
  page of a listing that has every stored episode. So the newest stored rows are
  those of the page. Kills, storage errors and failed polls are allowed.
* `NothingChurns` (`NoChurn`, under `Solo`, `OnlyAdds` and `NoCap`: policies count
  episodes). `SparedOK`: what the plan queues is among the newest `keep_last`
  stored rows, and while the sync goes on no row is added, so it is still
  among them when retention reads. Under a byte cap the property is not what the code
  promises: sizes are known only after a download (`ChurnExplained` in `Polling`).

`SchedulerProofs` (any shows, configurations, number of reloads):

* `Inductive`: `IInv` = `TypeOK`, `OnceHasShow` (a one-off caller that is busy
  has a show), `OneGeneration`, `PermitHeld` (a loop that syncs is at the head
  of its generation's queue), `SenderKept` (the sender is gone only with a handler
  that never listened, and the manager takes nothing else for the end).
* `TypeCorrect`, which includes that every configuration in force is a usable
  one whatever the operator writes; `Generations` (`OneGeneration`), `Serial` (`SchedulerSerial`):
  two syncing loops belong to one generation, and both are the head of its queue;
  `KeepsPolling` (`StopsUnhandled`), from `SenderKept`.

`DownloaderProofs` (any calls, destinations, limits, retries and engine changes):

* `TypeCorrect`; `Permits` (`PermitsRespected`), `Whole` (`WholeFiles`), `Temps`
  (`TempsOwned`). `IInv` adds to them that every engine has its own limit
  (`EnginesRespected`: the permits taken of each are counted as a
  cardinality, which is why the calls must be finite in number) and that a call that
  passed the length check has written the announced length, if there was one
  (`Verified`).

`MigrationProofs` (any number of processes, kills between statements):

* `TypeCorrect`, which no run repeats; `OpenFindsSchema` (`OpenIsUpToDate`). The invariant is not
  inductive by itself: `VersionKept` says that the objects of a version exist
  once the version is recorded, `TodoCompletes` that what exists and what a
  process has left to run make up the whole schema, whoever ran the rest.

`PollingProofs` (any pages, images, configurations and surprises):

* `TypeCorrect`: the sorts and cuts of a listing yield lists of known episodes. A
  strict order on a finite set has exactly one element of each rank (`Ranks`,
  `RankedLists`), so both sorts list their set once each.
* `NothingLost` (`EntriesAccounted`). `EntriesInv`: from the answer to the etag the
  page held is not longer than `fetch_last`, so the cut loses none of its
  entries; its unreadable ones are in the quarantine or the log (`Told`); at `SetEtag` every
  readable one has its row (`AllStored`), and rows are never deleted.
* `PlanIsGreedy` (`KeptIsGreedy`, under `OncePerPage`). `WindowInv`: no episode is twice in
  the window, since the sorts are one-to-one; the rest is `WalkIsGreedy`.
* `NoOtherChurn` (`ChurnExplained`, under `OncePerPage`). `FetchedInv`: what was
  fetched was wanted by the plan and is cached. When none of the three reasons
  holds, the cached rows that come before a fetched one are candidates of
  the plan that it keeps, with the sizes it counted, so `StillKept`: the walk over the
  cached rows keeps it as well.
* `ArtworkStays` (`ArtworkServable`), inductive with `SwapInOrder`: from the fetch
  of a new image to the removal of the old one the new file is in place,
  and the old one is removed only after the row names the new one.

`ControlProofs` (any number of clients, any capacities and bounds):

* `TypeCorrect`: also that socket buffer, channel and log never exceed their
  capacities.
* `InOrder` (`LogInOrder`) and `Reflected` (`LogReflected`). What is inductive is
  `Flow`: the numbers in a viewer's log, its channel, the follower's hand, the
  wire and the connection's hand, one after the other, increase and stay below
  the receiver's position. `Roles` says that a client is a TUI or a shell and never
  both. `LogReflected` is kept beside them: a report is read when an event is
  taken, and the database has the event's change by then.
* `Answers` (`AnswersMatch`). Needs `Chats`: what a shell is owed is, in this order,
  answered on the wire (`Told`), in the connection's hand (`InHand`), and asked for.
  For the last part there is an increasing function from what is owed to the
  requests not read yet, and it misses only blank lines and what follows a
  subscribe (`Finds`).
* `NothingDropped` (`StreamWhole`). `WholeOK`: the events in the log, the channel, on
  the wire and in the connection's hands are those the receiver has returned since
  the subscription, but for the ones a full log has rolled out (`Covers`); and a TUI
  reads lines from the moment it has asked until its connection ends (`Attends`),
  so that it cannot take an event for a hello or leave while events come. That
  they are in order and none is there twice follows from `Flow`.

Only model-checked: every liveness property (`Converges`, `NoStuckDownload`,
`DamageRepaired`, `Settles`, `ReloadTakesEffect`, `EveryShowPolled`, `FetchEnds`,
`ReportCatchesUp`, `OfflineShown`), since fairness and `ENABLED` are out of the
prover's reach. Every invariant that a passing run checks is proved, some of
them under the hypotheses named above, and so are the refinement and the action property
`RedownloadOnlyDamaged`.

## 6. Not modelled

* Duration probing: best effort, a column of its own that only the feed shows.
* URLs: which of an episode's links is its audio (`Polling` has the constant
  `Playable`), credentials, MIME types, the choice of the extension.
* Two downloads of one row at once, which a page with one slug twice starts
  (`Polling` allows such pages and has the date the row ends up with, but its
  downloads are one step; the pages of its instances list an episode once).
* The text of feeds, OPML and reports; HTTP routes other than media; telemetry
  exporters: they read and change nothing but counters.
* What a snapshot says beyond that it is one, throughput and directory sizes.
* Locating and parsing the configuration file, environment, arguments, and the
  printing of the one-shot commands: input and output of text.
* `published_at` is compared as text in the database; the model takes it for a
  time, which is what it is as long as upstream's stamps have one form.
* An upstream that sends more entries than `per_page` asks for. The provider cuts
  such an answer to the limit (`difm.rs:294-298`) and `Polling` has that cut, but
  `Served` makes it drop nothing; `EntriesAccounted` depends on this.
* Bodies that never end, see `Downloader` in section 2.
* The await between the metadata and the hash in `check_file`: `CheckFile` looks
  at a file once. A file that changes between the two fails the check or passes
  with what was hashed.
* Stems that collide after sanitising (`Library` has the constant `Stem`; the
  instances give every id its own).

## 7. Plan

Done, in this order: `Retention`, `Storage`, `Library` with its lifecycle,
`Scheduler`, `Downloader`, `Migration`, `Control`, proofs of the invariants of
`Library` that hold for any number of actors, and of `Scheduler`; then `Polling`,
the validation of configurations, the feed and its enclosures, and clients of the
control socket other than the TUI.

Then the proofs of section 5 beyond these: of `Retention`, of `Library` with one actor,
of `Downloader`, `Migration`, `Control`, and of the artwork in `Polling`; then, with
the sorts of `Polling` stated by what they yield, the remaining invariants of `Polling`;
the two of `Library` that depend on upstream; and `StreamWhole`.

Next, in order of importance:

1. `NoChurn` under a byte cap, for windows whose sizes are all known.
2. `OnlyAdds` weakened to an upstream that retracts only episodes older than the
   window.
3. The properties of one caller for two syncs that a lock per show would
   serialise, should the code get one.
