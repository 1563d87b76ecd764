# iceberg-ivm in TLA+

iceberg-ivm keeps Iceberg tables ("materialized views") up to date with a
source table: it polls the source's snapshots through Trino, computes from
file statistics which `date_trunc` buckets changed, and recomputes those with
`MERGE`. This directory specifies that behaviour, model-checks it with TLC and
proves its core with TLAPS. Source paths below are relative to
`src/src/iceberg_ivm/`, documents to `src/`.

## 1. The system

| Component | State | Operations | Hard part |
|---|---|---|---|
| change detector, `detector.py` | none; reads `$snapshots`, `$all_entries`, `$files` | `detect_changes`, `incremental_range_since`, `snapshot_exists` | several queries per answer, each against a source that moves and expires between them |
| refresh tick, `server.refresh_view` with `executor.py` | locals of a coroutine | start or resume, validate the pin, detect, merge chunk by chunk, publish | an await in front of every step; timeout, cancellation, crash at each; a MERGE that commits after it was abandoned |
| bookmark and in-flight run, `query_history.py` | row of `view_status`: `last_source_snapshot`, `work_max_snapshot`, `work_last_merged_chunk` | `set_last_source_snapshot`, `set_/clear_current_work` | each call is a commit of its own; the row is all that survives a crash |
| ranges and buckets, `executor._window_ranges`, `detector._BUCKETS`, `config._CHUNK_COMPATIBILITY` | none | floor, next, expand, walk, resume | weeks, leap years, months of unequal length; a grid that changes in mid-run |
| workers and supervisor, `server.view_worker`, `supervisor` | `workers`, `view_runtimes` (`wake`, `refresh_seq`, `refresh_in_flight`, `refresh_cond`) | spawn, loop, cancel, reload | cancellation at any await; tasks replaced by delete, create and reload |
| HTTP handlers, `trigger_refresh`, `create_view`, `update_view`, `delete_view` | `s.config`, `views.yaml` | | parked handlers whose worker goes away; create and update on a thread pool, delete on the loop |
| configuration store, `config.py`, `reload_config` | `views.yaml`, `s.config`, mtimes | load, save, reload | read-modify-write on threads without a lock; a file written in place; files that do not load; editors of the same file |
| maintenance, `maintain_view` | `maintenance[op]` of the `ViewStatus`, rows of `maintenance_state` | optimize, expire snapshots, remove orphan files | a schedule that outlives failures, timeouts and restarts; it shares the tick's time limit |
| status and query log, `query_history.py`, `hydrate_view_state` | `ViewStatus` in memory, rows of `view_status`, ring buffer of `query_history` | upsert, hydrate, append, trim, delete | memory and rows removed and created by name, at different moments |
| query parser, `query_parser.py` | none | `parse_view_query`, `inject_range_filter`, `inject_version_pin` | merge keys and window must mean to Trino what the view's query means |
| rows and `MERGE`, `executor.build_merge_sql`, column statistics | the target's rows | range from file bounds, MERGE on keys | files without bounds; groups that match no row or two |
| schema discovery, CLI, UI, metrics | none | | I/O |

How they interact: the supervisor spawns one `view_worker` per configured view;
the worker awaits `refresh_view`, which awaits the detector and the executor
and writes the bookmark row; `trigger_refresh` sets the worker's `wake` and
waits on its condition until `refresh_seq` passed a target; `delete_view`
cancels the worker and awaits it; source writers and snapshot expiration share
nothing with the service but the Iceberg tables.

What makes them correct:

* tick and bookmark: the bookmark names a snapshot that the view holds, exactly,
  at the moment it moves; nothing in the view is ever older than it; a resumed
  run skips only what is merged; every source commit gets into the view;
* ranges: every MERGE recomputes whole GROUP BY buckets, and none is missed;
* workers: one refresh at a time; no trigger lost; a trigger is answered by a
  refresh that saw it, and is answered;
* what survives a restart: the bookmark belongs to the configured query and
  target; maintenance keeps its spacing; a request that was answered is still
  in force; an edit of `views.yaml` is served;
* rows: merge keys tell apart what GROUP BY tells apart; one row per group; the
  target is the query's result at the pinned snapshot.

`PROJECT.json` lists the places where this could go wrong ("hazards"), each with
the properties that watch it, or why there is none.

## 2. The modules

    MaterializedView      what a view promises (abstract)
          ^ implemented by
    SourceTable <- ChunkGrid <- RefreshView <- RefreshInvariant <- RefreshProofs
                                        MCRefreshView -^ RefreshRunProofs -^
    Calendar <- WindowRanges <- WindowRangesProofs, MCWindowRanges
                                                     the grids, on a calendar
    ViewQuery <- RowRefresh <- RowRefreshProofs, MCRowRefresh
                                                     the same tick, down to rows
    ViewWorker <- ViewWorkerProofs, MCViewWorker <- CalmWorkerProofs
                                                     who calls refresh_view
    ViewState <- ViewStateProofs, MCViewState        what a tick leaves behind
    ConfigStore <- ConfigStoreProofs, MCConfigStore  which views there are

**SourceTable**. The source as a history `log` of snapshots and the set `live`
of those not expired. A snapshot is its position in commit order. Time is cut
into the view's buckets `0..Horizon-1`; the rows of a bucket are abstracted to
the snapshot that last changed them, 0 for no rows. The writers are modelled
from what the detector distinguishes (append, overwrite, replace, delete); the
detector's queries are operators: `CurrentSnapshot`, `SnapshotExists`,
`SnapshotsSince`, `HasUnsupported`, `AddedBuckets`, `SourceBuckets`.

**ChunkGrid**. `full_refresh_chunk` as any grid with a `Floor` and a `Ceiling`
(the two functions in a row of `_BUCKETS`); the single-shot case is `NoChunk`.
Grids need not be uniform nor nest, so the result holds across any edit of the
chunk size. Little is assumed of a grid, and all of it is true of `Calendar`'s
granularities: a chunk holds its position and ends after it (`ChunkAssumption`),
floors are monotonic and a chunk ends where the next begins (`OrderAssumption`).
`WindowRangesProofs` proves that it is true of them (`GranularitiesAreGrids`).

**RefreshView**. `refresh_view` of one view. `pc` is the await the tick has
reached:

| action | code (server.py unless noted) |
|---|---|
| `StartTick` | reading bookmark and current_work, 425-428 |
| `CheckPin`, `DiscardWork` | validation of the pin, 439-453; RESUME, 455-472 |
| `ReadCurrent` | `detect_changes` up to its listing, detector.py 405-417 |
| `Probe`, `ListWindow` | `get_snapshots_since`, `incremental_range_since`; NO_CHANGE 493-498; empty window 509-524 |
| `PinRun` | `set_current_work(M, None)`, 506 |
| `ReadFiles` | window of a full refresh, executor.py 206-213 |
| `MergeChunk`, `MergeFails` | one MERGE `FOR VERSION AS OF M`, executor.py 217-232 |
| `RecordChunk` | `set_current_work(M, range_end)`, 559-571 |
| `CompleteRun`, `SkipTick`, `ClearWork` | 586-587 and `_skip_tick`, two commits each |
| `Interrupt` | timeout, exception, cancellation, shutdown or crash at any of them |
| `LateCommit` | an abandoned MERGE commits |
| `EditChunk`, `SourceCommit`, `SourceExpire` | environment |

`bookmark` and `work` are the persisted row, `tick` the locals. Calls that
change neither (status mirror, metrics, query log) are left out, and so is
`maintain_view` at the end of a tick, which is in ViewState.

**MaterializedView** is the promise, in three actions: the source moves; some
buckets of the view take the content of a snapshot not older than the
bookmark; the bookmark moves forward when the whole view is exactly the source
there. `RefreshView` implements it with `view <- target`, `asOf <- bookmark`.

**ViewWorker**. One view name: its worker tasks (a cancelled one and its
successor may overlap), its `ViewRuntime` objects (a deleted one may still be
referred to), the parked handlers, the supervisor. All runs on one event loop,
so an action goes from one suspension to the next; entering `refresh_cond`
never suspends, because nobody awaits anything but the condition's own wait
while holding it. `refresh_seq` is unbounded in the code; only its distance from a
handler's target is kept (`need`). `observed` is a history variable. `Settled`
says that the loop drains what is ready before the supervisor's timer of
`config_reload_interval_seconds` fires.

**Calendar**, **WindowRanges**. The bucket arithmetic on a Gregorian calendar
and the ranges of one refresh, as `_window_ranges` and `walk_buckets` compute
them. The reference for `FloorTo` and `NextBucket` is `SameBucket`, which
defines `date_trunc` by the label that two moments share. The calendar has no
end: where a month begins is a closed form of the leap-year rule, not a
recursion over years, and only its first year is a constant.

**ViewQuery**, **RowRefresh**. The tick again with nothing abstracted but SQL
text: a query is its SELECT items, GROUP BY items, WHERE disjuncts and HAVING.
`Accepted`, `MergeKeys`, `ParsedView` and `Ranged` are `query_parser.py`;
`Grouped`, `Analysed`, `Groups` and `Result` are what Trino makes of the same
query, written from SQL's rules and independent of the parser. `_canonical`
keeps only the first token of an item: `t.k` becomes `t`, and that is what the
model does. An aggregate is represented by the set of timestamps it was
computed from, so that an aggregate over part of a bucket differs from one over
all of it. In `RowRefresh` files carry bounds of the filter column or not;
`Detect` reads the window off them as `_iter_column_bounds` does, `Merge` is
`build_merge_sql` row by row, and `Executes` is what Trino refuses. The target
is the sequence of its rows in the order of their insertion, so that two equal
rows are two. The window
is one MERGE and a run that was cut off starts over: chunks and resumption are
RefreshView's matter.

**ViewState**. One view name and everything kept under it: its entry in
`views.yaml` and `s.config`, the `ViewStatus` in memory, the rows of `state.db`.

| action | code (server.py) |
|---|---|
| `StartTick`, `MoveBookmark`, `Skip`, `Count`, `Persist` | the tick's writes to status and rows, 403-434, 581-596, `_skip_tick` |
| `OpSucceeds`, `OpSaved`, `OpFails` | one round of `maintain_view`'s loop, 326-359 |
| `Interrupt` | timeout or error: the status is saved, 598-609 |
| `Reload`, `CreateView`, `UpdateView`, `DeleteView`, `DeleteEnds` | the configuration changes; a delete is answered only after the worker ended, 1197-1223 |
| `Restart` | crash or shutdown, then `lifespan` with hydration, 754-793, 262-292 |
| `Age`, `EditFile` | the clock, the operator |

Times are ages, because the code only ever compares `now - last_run` with the
interval; `orphan` is the `ViewStatus` of a tick whose view was deleted under
it. `ran`, `unsaved` and `forgotten` are history variables. `Spec` is the code
with any use of names, `SteadySpec` the use the documentation describes (a
view's query or target changes by DELETE and create), `FairSpec` adds fairness.

**ConfigStore**. `create_view` and `update_view` run in the thread pool,
`delete_view` and `reload_config` on the event loop, and nothing locks
`s.config` or the file. A request is split where another thread can run: check
(`Request`), read (`Read`), `Truncate`, `Write`, `Assign`, `Stat`. A reload is
`ReloadStat`, `ReloadLoad`, `ReloadAssign`, `ReloadRecord`. Of mtimes only the
comparison with the recorded one is kept (`newer`, `since`). `raced` is a
history variable: from the moment a request meets another request, a reload or
an edit, until a reload has loaded the file with nobody else at work.

## 3. Assumptions about the environment

* Expiration removes the oldest snapshot first and never the current one
  (`expire_snapshots` goes by age). `InteriorSpec` drops this.
* No snapshot expires between the probe of the bookmark and the listing query
  (`ListSurvives`). `GapSpec` drops this.
* The files added by a change snapshot cover the buckets it changed and carry
  statistics of the filter column.
* Two MERGEs on the target conflict: once a later one has committed, an
  abandoned one cannot (Iceberg's optimistic concurrency; `MergeChunk` resets
  `late`). At most one abandoned MERGE is pending.
* Sources lose no rows (`NoDeletes`, README.md "Assumptions") in everything but
  the two runs about deletes.
* Snapshots have distinct `committed_at`.
* RowRefresh: a file lists its bounds truly; queries are what Trino analyses
  without error; `OneRowPerGroup` and `PublishedResult` are for queries that group by
  a bucket, have no HAVING, no alias that hides a grouped column and no column
  selected twice (`Plain`). Others are accepted by the parser: a query whose
  `date_trunc` is only an argument of another function has groups that span
  buckets, HAVING makes rows disappear that no MERGE deletes, an alias that is
  also a column of the source is grouped by that column (`MergeKeysGroup` says
  what becomes of its merge keys), and GROUP BY naming one merge key twice makes
  the MERGE fail.
* ViewState: `SteadySpec`, above. A name that leaves `views.yaml` comes back
  unchanged and before the next restart, or after an answered DELETE; the
  service is started with files that load.
* ConfigStore: an edit of `views.yaml` gets a later mtime than the one recorded
  (mtimes of equal or earlier value, as a restored backup has, are never
  reloaded, by `reload_config`'s design).

## 4. The runs

| Run | Instance | Question |
|---|---|---|
| `refresh_safety` | 3 buckets, 3 source commits, append and compaction, chunk grids "one" and "two" plus single-shot | type and inductive invariant; `NeverBehindBookmark`, `ResumeSkipsOnlyMerged`, `PublishedExactly`, `PinFrozen`; `ImplementsView` |
| `refresh_deletes` | as above with append and delete, one grid | `DeletesFailLoudly` |
| `refresh_converges` | as refresh_safety, fair | `Converges` |
| `expired_bookmark` | 2 buckets, 2 commits, fair | finding: `Converges` fails when a recovery is interrupted |
| `interior_expiry` | 2 buckets, 3 commits | finding: `SkipLeavesNoOrphans` |
| `workers` | 2 tasks, 2 runtimes, 1 client, fair | `TypeOK`, `RefreshesSequential`, `NoLostWake`, and as long as the environment is calm `CalmTriggerObserved`, `CalmParkedReturns` |
| `worker_hang` | same, any environment, fair | finding: `ParkedReturns` fails |
| `window_ranges` | from January 2024, two slots a day, windows of up to 35 days between 9 moments around the edges of months, quarters, years and weeks | `WholeBuckets`, `RangesTile`, `CoversWindow`, `ResumesAtChunk`, `SnapsLikeDateTrunc` |
| `view_state` | 2 identities, 2 maintenance operations, interval of 2 units, fair | `TypeOK`, `BookmarkBelongs`, `MaintenanceSpaced`, `CountersSurvive`, `FailuresStarveNone` |
| `config_store` | 1 name, 2 settings that load and 1 that only the API takes, 1 thread and the loop, lists of 2, fair | `TypeOK`, `ServedIsSaved`, `AnsweredIsDurable`, `HotReload` |
| `row_refresh` | 70 accepted queries parsed, 3 of them run; 4 timestamps in 2 buckets, 2 key values, 3 rows, 2 commits per tick | `TypeOK`, `MergeKeysGroup`, `OneRowPerGroup`, `PublishedResult` |
| `null_keys` | as row_refresh with a NULL key | finding: `OneRowPerGroup` fails |

Why the bounds are enough to be interesting. Three commits are the least in
which a bookmark exists, a run is pinned after it, and the source moves on
while that run is in flight; the batches `{1}` and `{0, 2}` give windows that
do and do not span several chunks and a bucket that one commit changes and the
next leaves alone. With grid "two" the last chunk is cut at the horizon and a
marker of grid "one" falls inside a chunk. Crashes and ticks are not bounded.
Two tasks and two runtimes are what one view name can have of either: one
cancelled and one current. One handler suffices for properties of a single
handler, which read no other handler's state. Nine moments of the calendar are
at or next to a boundary of each granularity, in a leap year and out of one.
Two identities are the configured one and the one a bookmark could be left over
from; two operations, one that may be switched off, are one that fails and one
behind it; an interval of 2 separates "just ran", "not due" and "due". One name
on a thread and the loop gives every pair of create, update, delete, reload and
edit; lists of two hold the name twice, the conflict that makes a file
unloadable. Three rows and two commits are what it takes to merge a window
twice, with another key, and to publish while a commit waits; appended files
start at the first timestamp of a bucket, of either bucket, and overwrites
reach the others. `MaxTotal`,
`MaxViews`, `MaxRows` and `MaxAdded` are the bounds on what grows in the code.

Deadlock is checked for the refresh runs, `view_state` and `config_store`. It is
not for the workers, which end when the service stops, nor for the ranges, which
end with the window, nor for `row_refresh`, where queries that are only parsed
take no step.

### Fairness

* `Converges`: `WF(TickStep)`, because the worker's loop starts a tick after
  every `refresh_interval_seconds` and a query either answers or times out.
  Interruptions are not fair but are restricted: a tick is interrupted only
  after it recorded a chunk (`query_timeout_seconds` leaves room for one) and a
  full refresh that replaces an expired bookmark is not interrupted
  (`RecoveryUninterrupted`). The second restriction is not the code's: it is
  what the finding of `expired_bookmark` shows to be needed.
* `ViewWorker`: `WF` of each task (a refresh ends by `query_timeout_seconds`,
  which must be configured, or because Trino answers; a wait by
  `refresh_interval_seconds`), of the supervisor, of notified handlers and of
  the end of a delete. No fairness for creating, deleting, triggering or editing.
* `ParkedReturns` is promised only if the view is eventually no longer created
  and removed, and unless the service shuts down, when sockets drop.
  `CalmParkedReturns` promises it of environments that stay calm: a view is
  removed only once it is served, and created again only once the DELETE was
  answered.
* `FailuresStarveNone`: `WF` of the worker's steps, since `view_worker` starts a
  tick after every interval, and of the clock. Failures of operations are not
  fair: they may go on for ever. The promise is for runs in which ticks are
  eventually no longer cut off: under a `query_timeout_seconds` that the first
  operation always exceeds, the ones behind it starve.
* `HotReload`: `WF` of the reload's steps (the supervisor calls `reload_config`
  every `config_reload_interval_seconds`) and of each request's next step
  (threads run on). None of requests, edits and restarts.

### What the violations show

* **expired_bookmark**: a full refresh replaces an expired bookmark, but the
  bookmark stays in place until it completes. Interrupted, the next tick finds
  the bookmark missing and throws the run away, marker and all. If the source
  does not fit in one tick, no tick ever finishes it.
* **interior_expiry**: the guard against an interior expiration clears the
  run so that "the next tick re-covers". The next tick's detection sees the
  same list without the expired snapshot and skips to the current one.
* **worker_hang**: `delete_view` drops a runtime that a handler waits on. A
  worker that never ran, or a view recreated during the delete, leaves nobody
  to notify it.
* **null_keys**: `t.k = s.k` is never true of NULL, while GROUP BY makes NULL a
  group. Each refresh of its window inserts the group once more.

More counterexamples can be reproduced, each with
`tlc -config <cfg> <module>`; they are no part of the runs above:

| cfg (module) | Violated | Shows |
|---|---|---|
| `MCRefreshGap.cfg` (MCRefreshView) | `PublishedExactly` | two queries, one answer: the probe does not protect the listing from an expiration in between |
| `MCRefreshFullDelete.cfg` (MCRefreshView) | `FullRefreshDropsStaleRows` | no path deletes from the target, although README.md:122 describes one |
| `MCViewReadded.cfg` (MCViewState) | `BookmarkSound` | a view dropped from `views.yaml` keeps its rows in `state.db`; added again with another query or target it goes on from the old bookmark |
| `MCViewRecreated.cfg` (MCViewState) | `BookmarkSound` | a view created again while its DELETE awaits the old worker starts from the old bookmark, loses its rows to the delete and publishes |
| `MCConfigMix.cfg` (MCConfigStore) | `MixFreely` | a request writes over an edit of `views.yaml` not yet loaded, against README.md:369 |

One more needs no configuration of its own: outside the calm environment
`CalmTriggerObserved`'s promise fails too. A worker that is cancelled inside
`refresh_view` shares its runtime with the worker of a recreated view, and
resets `refresh_in_flight` when its connection has closed, while the new worker
is refreshing; a trigger at that moment takes the refresh in flight for one that
saw it. It needs a connection close that outlasts a supervisor interval.

## 5. The proofs

`RefreshProofs` proves about `RefreshView`, for every `Horizon`, `MaxSnap`,
`Batches`, set of chunk grids satisfying `ChunkAssumption`, and `Ops` without
"delete":

| Theorem | States |
|---|---|
| `Invariance` | `Spec => []IInv` |
| `TypeCorrect`, `NeverBehind`, `ResumeIsSound` | `[]TypeOK`, `[]NeverBehindBookmark`, `[]ResumeSkipsOnlyMerged` |
| `PublishesExactly` | `Spec => PublishedExactly` |
| `Implements` | `Spec => ImplementsView`: refinement of `MaterializedView` |

None of the three safety properties is inductive. `IInv` (module
`RefreshInvariant`, checked by `refresh_safety`) adds:

* `LogInv`: a bucket differs between two snapshots only if a change snapshot in
  between added files to it. This is what lets a window from file statistics
  stand for a difference of content;
* `LiveInv`: expiration leaves a suffix, so a list read after a successful probe
  is complete;
* `TickInv`, `WorkInv`: locals agree with the persisted row; the pin is not
  before the bookmark;
* `TargetInv`: each bucket of the target holds the content of one snapshot
  between the bookmark and `Pin`. While a run is in flight nothing newer than
  its pin can be in the target: this is why the bookmark may later be set to
  the pin and not to the newest snapshot;
* `WindowInv`: outside the window nothing changed from bookmark to pin;
* `MergedInv`: below the marker and below `cur` the target is exactly the pin;
* `LateInv`: what an abandoned MERGE may still write: it reads the pin of the
  run in flight, or of a run that is over, in which case it can only write what
  is there or what the current run will overwrite.

At completion the window is merged (`MergedInv`), the rest unchanged
(`WindowInv` with `TargetInv`), hence the target is the source as of the pin:
`PublishesExactly`. The proof has one lemma per action and, within each, one
step per conjunct the action can disturb. Facts on the history (`LogInv`), on
grids and on MERGE are lemmas at the start.

`RefreshRunProofs` adds two action properties, for the same constants:

| Theorem | States |
|---|---|
| `PinStaysFrozen` | `Spec => PinFrozen`, without "delete" |
| `DeletesAreLoud` | `Spec => DeletesFailLoudly`, with "delete" or without |

`PinFrozen` follows from `IInv` and `MarkInv`: a range that will be recorded
ends at or after the persisted marker. Where a tick begins this is
`OrderAssumption`: if the chunk a marker falls into, in a grid it was not made
for, ended before it, the marker's floor would be a later chunk.
`DeletesFailLoudly` has an invariant of its own, `DetectInv`, since `IInv`
does not hold of sources that lose rows. It says that what an incremental tick
has detected holds no delete from the bookmark to the pin (`Vetted`), which
rests on the list being complete (`ListVets`): a bookmark that is still listed
has all later snapshots behind it.

`ViewWorkerProofs` proves about `ViewWorker`, for every number of tasks,
runtimes and handlers, and for any environment:

| Theorem | States |
|---|---|
| `WorkerInvariance` | `Spec => []WInv` |
| `WorkerTypeCorrect` | `[]TypeOK` |
| `RefreshesAreSequential` | `[]RefreshesSequential` |
| `NoWakeIsLost` | `[]NoLostWake` |

`RefreshesSequential` speaks of tasks inside `refresh_view`; it holds because of
which tasks may still get there. `WInv` says so: an active task that
`s.workers` does not hold is cancelled (`Ousted`), so at most one is active
(`OneActive`). `NoLostWake` needs that while a task waits no refresh is in
flight on its runtime, so that no handler is owed two refreshes
(`WaitingIdle`), and that whoever is owed two has left a wake (`TwoOwed`):
this is why `wake.clear()` after the wait loses nothing.

`CalmWorkerProofs` proves `EnvSpec => []CalmTriggerObserved`
(`CalmTriggersObserved`). In a calm environment a worker that closes its
connection has no successor yet (`ClosingAlone`); hence a trigger during a
refresh finds it in flight (`FlightMarked`) and asks for two, so that the last
refresh a handler is owed began after its trigger (`LastSaw`).

`ViewStateProofs` proves about `ViewState` under `SteadySpec`, for every number
of operations, interval, set of identities and bound on the counter:

| Theorem | States |
|---|---|
| `StateInvariance` | `SteadySpec => []SInv` |
| `StateTypeCorrect`, `BookmarkIsOwn` | `[]TypeOK`, `[]BookmarkBelongs` |
| `CountersAreKept`, `MaintenanceIsSpaced` | `CountersSurvive`, `MaintenanceSpaced` |

`SInv` adds to `BookmarkBelongs` that every place a view's identity is kept
(file, configuration, running tick, bookmark) holds the same one until the
delete is answered (`OneIdentity`, `BookmarkOwned`, `TickOwned`), and that after
a delete nothing is left (`NothingLeft`, `DeleteAlone`). For maintenance,
status, row and the age of the last success agree except for what is `unsaved`
(`LastKept`), and what a tick has still to do was due when it began (`TodoDue`).

`ConfigStoreProofs` proves about `ConfigStore`, for any number of threads,
names, settings and positions:

| Theorem | States |
|---|---|
| `StoreInvariance` | `Spec => []CInv` |
| `StoreTypeCorrect`, `NoReloadOwed` | `[]TypeOK`, `[]ServedIsSaved` |
| `AnswersAreDurable` | `Spec => AnsweredIsDurable` |

`CInv` has two layers. Always: a request goes on only where a configuration was
loaded (`ConfigKnown`), and what a reload is about to serve was checked and is
the file's content unless the file was written since (`ServeChecked`). Where
nothing raced: one actor at most is at work (`Alone`), so that what it checked,
computed and wrote still stands at its next step (`RequestSound`,
`RecordSound`), and no name is served twice (`ConfigUnique`).

`WindowRangesProofs` proves about `WindowRanges`, for every first year and its
weekday, every number of slots to a day, and every set of moments, without a
bound on the calendar or on the window:

| Theorem | States |
|---|---|
| `WholeBucketsHold`, `CoversWindowHolds`, `ResumesAtChunkHolds`, `SnapsLikeDateTruncHolds` | `[]WholeBuckets`, `[]CoversWindow`, `[]ResumesAtChunk`, `[]SnapsLikeDateTrunc` |
| `RangesTileHold` | `Spec => RangesTile` |
| `GranularitiesAreGrids` | each granularity satisfies what `ChunkGrid` assumes |

All rest on `BucketIsInterval`: the moments that `date_trunc` gives one label are
those from `FloorTo` to before `NextBucket`. For months it needs that every day
lies in a month (`MonthExists`), which follows from the year of a day
(`YearOfDay`) and from the leap-year rule's closed form being increasing by 365
or 366. `BucketsInOrder` and `FloorOfBoundary` make floors monotonic and fix
boundaries; `CompatibleBoundary` is what `_CHUNK_COMPATIBILITY` is for: a
boundary of an accepted chunk size is one of the view's granularity. The
inductive invariant `RangesInv` says that start, end and position of the
generator are boundaries of its grid, and that it goes on where the range it
yielded last ended.

`RowRefreshProofs` proves about `RowRefresh`, for any set of queries (SELECT,
GROUP BY and WHERE lists of any length), files, keys, rows and commits:

| Theorem | Assumes | States |
|---|---|---|
| `TypeOKHolds` | | `Spec => []TypeOK` |
| `MergeKeysGroupHolds` | | `Spec => []MergeKeysGroup` |
| `OneRowPerGroupHolds` | `NoNulls` | `Spec => []OneRowPerGroup` |
| `PublishedResultHolds` | `NoNulls`, `SteadyQueries` | `Spec => PublishedResult` |

`MergeKeysGroup` is about every query the parser accepts, in two parts. Where no
alias hides a grouped column and no column is selected twice, each GROUP BY item
resolves to a SELECT item with the expression that Trino groups by
(`KeyIsGrouped`); the only way around it is a qualified item, taken for the first
qualified column, and then two items resolve to one name and the MERGE is
refused (`KeysDiffer`). Where GROUP BY names a column that no merge key selects,
rows that differ in it alone are in different groups and have the same merge
keys (`OtherValue`). That is what the parser does to `SELECT date_trunc('day',
ts) AS ts, ... GROUP BY ts` or `SELECT date_trunc('day', ts) AS d,
f(date_trunc('day', ts)) AS k, ... GROUP BY 1, k`, where k is a column of the
source: it takes the alias (query_parser.py:403-407), Trino groups by the column,
and the first MERGE inserts several rows under one key that no later MERGE of the
window can update. The parser cannot see the source's columns. Queries of both
kinds are among those that `row_refresh` parses.
`OneRowPerGroup` needs besides that no key column is NULL (`KeysUnique`), and
that the source of a MERGE has one row for each key (`SourceKeys`).
`PublishedResult` rests on `RowsInv`, three facts about a running tick:

* `NoOrphan`: every row of the target has the key of a group of the source, and
  of the pinned snapshot: MERGE never deletes, so no row may need it;
* `PinOK`: pinned and live rows differ only in buckets of files that were added
  after the pin, which the next tick will read;
* `FreshOK`: up to date, behind the bookmark, is every group but in the buckets
  of files added since; during a tick every pinned group but in the window.

A tick's window holds the bucket of every file it read (`ReadInWindow`), the
MERGE makes the groups in the window fresh and leaves fresh ones alone
(`MergeFreshens`), and a target with unique keys, no orphan and every group
fresh is the result (`FreshIsResult`).

What the properties state of plain queries only, and what the theorems assume,
holds of the queries that are run (`MCRowRefresh` has it as an ASSUME), and each
condition is needed:

* `HonestNames`, in `Plain`: a GROUP BY item that reads like an output column is
  that column's expression. Else the second part of `MergeKeysGroup` applies.
* `SelectsOnce`, in `Plain`: no column is selected twice. With it twice
  under two names a qualified item can resolve to the wrong one, while every
  name still differs and the MERGE runs.
* `NoNulls`: the keys hold no NULL; run `null_keys` shows why.
* `SteadyQueries`: no GROUP BY on the bare timestamp, no time range in the view's
  own WHERE. An overwrite, which the source's documented assumptions keep within
  its bucket and key, may otherwise move a row out of its group or out of the
  WHERE, and the group that lost its last row stays in the target.

Only model-checked, and for good: `Converges`, `CalmParkedReturns`,
`FailuresStarveNone` and `HotReload`, since liveness under fairness is outside
TLAPS. Every invariant and action property of the passing runs is proved. What
the proofs do not join is the two models of a tick: that `RowRefresh`, with
several chunks and a resumed run, would still publish the result is a matter of
RefreshView's theorems about buckets.

## 6. Not modelled

* SQL text: tokenising is sqlparse's, evaluating Trino's. The models take a
  query's parts.
* Schema discovery (`introspect.py`): one DESCRIBE and CREATE TABLE IF NOT
  EXISTS without state of its own; a failure is `Interrupt`.
* The ring buffer of recent queries, read endpoints, the UI and metrics: they
  show state and change none. The command line and the seed script start
  processes.
* `config.yaml`: only the operator writes it; it is reloaded with `views.yaml`.
* A second DELETE of a view while the first is awaited, and handlers cancelled by
  a disconnecting client.
* Ties of `committed_at` between snapshots, which the detector breaks by random
  ids: they need two commits on one table within a millisecond.
* What maintenance does to the target's files.
* Two views one of which reads the other's target: a target is a source whose
  commits are MERGEs, "overwrite" in SourceTable, so each view by itself is
  covered, and staleness adds up along the chain.
