# Bytewax: a TLA+ model of recovery, keyed steps, outputs and windowing

Bytewax runs a Python dataflow on a cluster of Timely Dataflow workers. Its hard
promise is *recovery*: the cluster may be killed at any moment, be started again
with another number of workers, and continue as if nothing had happened. This
directory models the code behind that promise, checks it with TLC on small
instances and proves its safety properties with TLAPS for all instances, down to
"at least once", "exactly once" and the refinement of an abstract recovery point.
It also models what runs on top of and next to recovery: the keyed stateful step
with its notifications on the threads of a process and the part with the most
intricate state of its own, the windowing operators; and the partitioned output
with primaries, routing and files that are truncated on resume. All of them are
checked and proved about.

## 1. Inventory

| Component | State | Operations | Talks to | What is hard | What makes it correct |
|---|---|---|---|---|---|
| Recovery store, `src/recovery.rs` (SQLite) | tables `parts`, `exs`, `fronts`, `snaps`, `commits` in each partition | upsert rows, load newest snapshots by page, garbage collect, compute the resume point | written by the recovery dataflow, read at start | rows of finished and unfinished epochs side by side; partitions written independently | a resume finds one consistent cut; it never goes back; rows it needs are never collected |
| Recovery dataflow, `src/recovery.rs` (`write_recovery`, `FrontierOp`, `load_snaps`, `resume_from`) | one capability per frontier operator, rows in flight | write execution, snapshot and frontier rows in that order; commit | chained by "clock" streams of `()` whose only content is progress | the order exists only in the frontiers | no epoch is reported before all of it is stored |
| Partitioned input, `src/inputs.rs` | per partition: Python source, epoch and two capabilities, epoch start, next awake | poll, end epoch, snapshot, EOF, load | probe of the whole dataflow (backpressure), abort flag | partitions advance independently | never more than one epoch ahead of the store |
| Dynamic input, `src/inputs.rs` | as above, without snapshots | poll, end epoch, EOF | as above | as above | as above |
| Stateful step `unary`, `src/operators/mod.rs` | logics, schedule, awoken keys, buffers, a pair of capabilities | load, item, notify, EOF, close epoch with snapshots | items routed by key hash; snapshots to the recovery dataflow | several epochs per activation, eager work in an open epoch | every item applied once, snapshot is the state at the close |
| `stateful_unary`, `src/operators/stateful_unary.rs` | as `unary`, with a logic cache and discards | as `unary` | as `unary` | discard and rebuild in one activation | as `unary` |
| Timely helpers, `src/timely.rs` | `InBuffer`, `EagerNotificator`, parts per worker, routing map | eager / closed notifications, primaries, route, `partd_load`, `partd_write`, `partd_commit` | used by all of the above | epoch order with out-of-order arrival | callbacks in epoch order, each closed epoch once |
| Worker life cycle, `src/worker.rs`, `src/run.rs` | interrupt and abort flags, probe | resume, step loop, shutdown, panic propagation | threads of one process | one worker dies, the others wait | a finished dataflow stops; a failed one ends everywhere |
| Output operators, `src/outputs.rs` | parts, buffers, awoken parts | write batch, snapshot at close, load | as `unary` | as `unary` | as `unary` |
| Windowing, `src/window/`, `src/operators/fold_window.rs` | clock, windower, one logic per window | item, awakening, EOF, snapshot, resume | a logic of `stateful_unary` | late and out-of-order timestamps, timers against items | each item in its windows, each window closed once, and closed at all |
| Python operators, `pysrc/bytewax/operators/` | per-key logics | fold, join, collect, ... | built on `unary` | timeouts against size limits | per operator |
| Sources and sinks, `pysrc/bytewax/connectors/` | offsets | read a batch, seek, truncate, flush | input and output operators | truncate on resume | output matches the resumed state |
| Construction, command line, serialisation, tracing, metrics, web server | none over time | conversions and I/O | | | not modelled |

`PROJECT.json` lists the same components with their status, and the hazards of
the code at the line where each of them bites.

## 2. Plan

Done, in this order: the store's SQL (`RecoveryTables`), what recovery promises
(`RecoveryPoint`), the cluster that runs against the store (`RecoveryCluster`),
its inductive invariant (`RecoveryInvariant`) and the proofs; windowing
(`SlidingWindower`, `SessionWindower`, `WindowLogic`, `WindowAssignment`); the
activation of `unary` with Python logics, dynamic input and output and the
shutdown flags (`KeyedStep`); primaries, routing, snapshot paging, the
`EagerNotificator` and the file sink (`Primaries`, `PartitionedOutput`); the
proofs that nothing is lost and that replays that repeat themselves count once
(`RecoveryCutProofs`, `RecoveryReplayProofs`), those of the sliding windows
and of sessions (`WindowProofs`), those of the keyed step (`KeyedStepProofs`),
those of primaries and routing (`PartitionedOutputProofs`) and those of what the
files hold (`PartitionedFileProofs`).

The safety and action properties of the passing runs are all proved, on the
conditions that section 6 names. Next, in the models: the `parts` table with its
checks, restores of partitions from backups of different ages, and the join
operators.

## 3. Modules

| Module | Content |
|---|---|
| `RecoveryTables` | The SQL of `src/recovery.rs` as operators on sets of rows, one per statement or common table expression. |
| `RecoveryPoint` | Abstract specification: a recovery point (epoch, items that will not be read again, effect of each item) that moves one epoch at a time. |
| `RecoveryCluster` | The running cluster: input, stateful step, writers, committer, crash and resume. Its properties are at the end of the module. |
| `RecoveryInvariant` | The inductive invariants as conjunctions of named parts: `IInv` of epochs and reports, `LossInv` of what rows and states say of the items, `ExactInv` of replays. |
| `RecoveryTypeProofs`, `RecoveryClusterProofs` | Lemmas about the resume query, type correctness per action, and the induction of `IInv` with its theorems. |
| `RecoveryCutProofs` | The induction of `LossInv`, and `NothingLost`. |
| `RecoveryReplayProofs` | The induction of `ExactInv`, `ExactlyOnce` and the refinement of `RecoveryPoint`. |
| `SlidingWindower` | `src/window/sliding_window.rs` as operators: the windows of a time, insert, close, next close. Tumbling windows are the case offset = length. |
| `SessionWindower` | `src/window/session_window.rs` as operators on sets of sessions. |
| `WindowLogic` | One key of a windowing operator: clock, windower and folds, as `stateful_unary` drives them. |
| `WindowAssignment` | `intersects` on all small times and configurations, with durations that are fractions of a millisecond, against the reference definition `CoveringWindows`. |
| `WindowInvariant` | Why the properties of windows hold: the same invariants for the live logic and for its snapshot. |
| `WindowProofs` | The arithmetic of `intersects`, the clocks, the merging of sessions, and the inductions with their theorems. |
| `KeyedStep` | Worker threads of one process: dynamic input, keyed step (`unary` with the Python logics), dynamic output, and every way the threads end. |
| `KeyedStepInvariant` | Why the properties of `KeyedStep` hold: types, backpressure, caches, EOF, the path of every item (`StepInv`) and the order of each key's items (`OrderInv`). |
| `KeyedStepProofs` | Its induction through the epochs and keys of an activation, and the theorems. |
| `Primaries` | `calc_primaries` as the set of assignments it may return. |
| `PartitionedOutput` | Composition of `partition`, `assign_primaries`, `route`, the snapshot loader and `partitioned_output` with the files of a `DirSink`, over crashes and restarts. |
| `PartitionedOutputInvariant` | Why a file has one writer: the maps of the routers, the types of what is under way, and whose it is. |
| `PartitionedOutputProofs` | The greedy choice, the recursive functions of `Output`, and the induction with its theorems. |
| `PartitionedFileInvariant` | Why the files are right: the items of the resume epoch, the rows and the lengths of the files. |
| `PartitionedFileProofs` | Its induction, and the theorems about what files hold. |
| `MCRecoveryCluster`, `MCWindowLogic`, `MCWindowAssignment`, `MCKeyedStep`, `MCPartitionedOutput` | Values of the constants for TLC. |

### State and actions of `RecoveryCluster`

| Variable | Code |
|---|---|
| `srcCap`, `offset` | capability and position of each input partition (`PartitionedPartState`; the position is the source's snapshot) |
| `items` | items between the input and the stateful step, with their epochs |
| `opCap`, `state`, `awoken` | capability, logics and `awoken_keys_buffer` of `unary`; `state[k][i]` counts how often item `i` was folded into key `k` |
| `snapMsgs`, `exMsg`, `frontMsgs` | rows under way to the writers |
| `frontCap` | capability of each `FrontierOp` |
| `ticks` | epochs queued at the committer of each partition, from the clock that `write_recovery` broadcasts |
| `exs`, `fronts`, `snaps`, `commits` | the tables, per partition: all that survives a crash |
| `ex`, `resume`, `workers`, `delay` | `ResumeFrom`, `WorkerCount` and `epochs_per(backup_interval)` of the execution |

| Action | Code |
|---|---|
| `Resume` | `worker_main`: resume calculation over all partitions, `InconsistentPartitionsError`, snapshot loads |
| `NextBatch`, `SourceEof` | one poll of one partition in `partitioned_input` |
| `OnItem`, `CloseEpoch` | the item loop and the closed-epoch branch of `unary` |
| `WriteExecution`, `WriteSnapshot`, `WriteFrontier` | `partd_write` with the three writers |
| `EmitFrontier` | `FrontierOp::frontier` |
| `Commit` | `partd_commit` with `RecoveryCommitter::commit` |
| `Finish`, `Crash` | all workers leave their loop, or all end at once |

### State and actions of `WindowLogic`

| Variable | Code |
|---|---|
| `conf` | clock and window configuration, chosen once |
| `now` | `Utc::now()` |
| `clock` | `EventClock::max_event_time_system_time`, `{}` for `None`; the system clock keeps nothing that matters before EOF |
| `windows`, `maxKey` | `SlidingWindower::close_times`, or `SessionWindower::sessions` and `max_key` |
| `logics` | `WindowStatefulLogic::current_state`; an accumulator is the set of items folded into it |
| `nextAwake`, `due` | the key's entry in `current_next_awake`, and whether it is on this activation's `tmp_awake_logic_with` |
| `saved` | the key's last snapshot, with how far input and output had come |
| `arrived`, `done`, `late`, `closed`, `ended` | the input, and what the operator made of it |
| `seen` | history: the system time at which each item was given to the logic; no action depends on it |

| Action | Code |
|---|---|
| `OnItem` | `on_awake` with an item, then `fate` and `next_awake` as `stateful_unary` calls them |
| `FindDue`, `OnAwake` | the list of due keys, and `on_awake(Poll::Pending)` after the items of the activation |
| `OnEof` | `on_awake(Poll::Ready(None))` |
| `Snapshot`, `Crash` | state change at the close of an epoch; load after a restart |
| `Tick` | system time |

### State and actions of `KeyedStep`

| Variable | Code |
|---|---|
| `conf`, `now` | the dataflow that is run, and `Utc::now()` |
| `part` | `part_state` of each worker's `dynamic_input`: capability, position of the source, `next_awake`, `epoch_started` |
| `chan`, `outs` | items and emitted values in flight |
| `inbuf`, `cap` | `InBuffer` and the pair of capabilities of `unary` on each worker |
| `logics`, `sched`, `awoken` | `logics`, `sched_cache` and `awoken_keys_buffer`, per key |
| `timers` | what the operator asked its activator for with `activate_after` |
| `running`, `abort`, `interrupt` | the threads in `Worker::run`, the abort flag of each worker, `should_shutdown` |
| `written`, `snaps`, `eofs`, `late`, `asked`, `wrong` | history that the properties are about |

| Action | Code |
|---|---|
| `PollBatch`, `PollEof`, `PollAbort` | one poll of `dynamic_input`, by what `next_batch` does |
| `Step` | one activation of `unary`: `ItemStep`, `NotifyStep`, `EofStep`, `Reschedule` and `SnapshotStep` for each epoch of `ProcessEpochs`, in order, then capabilities and timers |
| `Write` | one activation of `dynamic_output` |
| `Stop` | the loop condition of `Worker::run` |
| `Interrupt` | the main thread on a signal, or the panic hook |
| `Tick` | system time |

### State and actions of `PartitionedOutput`

| Variable | Code |
|---|---|
| `announced`, `primaries`, `known`, `routes` | the part lists that were broadcast, what worker 0 made of them, and the maps that `partition` and each `route` operator keep |
| `loader`, `cursor`, `loads`, `loadsOut` | the worker that reads a recovery partition, the paging cursor, rows read and rows routed |
| `src`, `toPart`, `toRoute`, `toOut` | sources' capabilities and the items between the operators |
| `inbuf`, `loadsBuf`, `queue`, `cap`, `open`, `awoken` | what `partitioned_output` keeps: buffers, queue of the `EagerNotificator`, capability, built parts, parts to snapshot |
| `snapq`, `rows`, `point` | snapshots under way, the `snaps` table, the resume epoch |
| `file` | the files |

| Action | Code |
|---|---|
| `Start`, `Crash`, `Finish` | an execution with any number of workers begins, is killed, ends at EOF |
| `Announce`, `Assign`, `LearnParts`, `LearnRoutes` | `list_parts` with `into_broadcast`, `assign_primaries`, and epoch 0 at `partition` and `route` |
| `LoadPage`, `RouteLoads` | one batch of `SerializedSnapshotLoader`, and its routing to the primary |
| `Emit`, `Partition`, `Route` | the sources, `assign_file`, `route` |
| `Output` | one activation of `partitioned_output`: eager and closing callbacks for the epochs in order (`ForEach`), writes, snapshots, builds |
| `WriteSnap`, `Advance` | the recovery store, reduced to what `RecoveryCluster` shows of it |

A definition named `X_Y` next to `X` is a faulty variant of `X`. It is never
part of a specification; swapping it in for `X` must break the property that
`PROJECT.json` names, which shows that the property can fail.

### Abstractions

* *Progress tracking is external.* A frontier is the set of epochs of every
  capability held and message in flight upstream of a point. Timely gives
  workers possibly older views of it; since every guard that reads a frontier
  only becomes true as the frontier moves, an older view only delays a step.
* *Rows are written one at a time.* The code writes a batch per SQLite
  transaction; single rows give more interleavings and more crash points.
* *`Resume` is one step.* The store does not change before the new execution's
  own row is written, and loads are emitted in epochs before the resume epoch,
  so the probe holds back every input partition until all of them are applied.
* *A crash ends every worker.* A worker that dies first stops sending progress,
  which holds back the frontiers of the others; what they still do are steps of
  the model before the crash. Dropping a dataflow sends no progress.
* *`partd_commit` hears a tick per written frontier row*: the clock of the
  frontier writer and its broadcast are one step.
* *Snapshots* are positions and effect counts. Serialisation is left out, no
  property is about it. A logic exists once its state is not `NoEffect`.
* *Time* is a free choice: with an epoch interval the timer may end an epoch at
  any poll; with interval zero (`ZeroInterval`) every poll ends it.

* *A key's logic* (`WindowLogic`). Keys do not interact, so one key is modelled.
  A logic exists exactly while a window is open (`fate`), so an absent logic is
  the one with empty fields. The list of due keys is made before the items of an
  activation are applied, so `FindDue` and `OnAwake` are two steps that items and
  ticks may come between. Several awakenings in a row stand for the operator's
  being activated at once when a due key's watermark still lags.
* *Window time* is an integer. System time does not go back; `Utc::now()` may,
  but the code says nothing of that case. Event times are free in a small set,
  and smaller or larger than `now`. The system clock is read twice per item, and
  the second reading may be one tick later.
* *A crash* of `WindowLogic` sets its input and output back to the snapshot as
  well: that all parts resume from one point is what the recovery modules show.
* *`sort_unstable`* is an insertion sort on lists this short, so equal starts
  keep their order; only the newest session can have an equal.
* *One key at a time* (`KeyedStep`). What an activation does to a key depends on
  no other key, so each key is folded through the epochs by itself; `outs` is
  kept per key because no property is about the order between keys.
* *A worker's view of a frontier* may be older than the frontier: `Step` and
  `Output` choose any view from the last one seen up to the current one, which is
  how several epochs come to be worked on in one activation.
* *A stopped worker* sends no more progress, so whatever capability it held
  stays in the frontiers of its peers (`Stop`). After an `AbortExecution` on one
  worker only, the others never end by themselves: the documentation of
  `TestingSource.ABORT` says so, and `WorkersStop` excludes it.
* *Loading* (`LoadPage`): the empty page that ends a recovery partition and the
  drop of its loader are one step. Rows are sorted by key within a partition;
  `step_id` is the same for all of them.
* *Files* are sequences of items; `seek` and `truncate` cut them. Crashes lose
  no written bytes: the operating system outlives the process. `SinkParts` are
  numbered in the order of their names. (`DirSink` names them `part_0`, `part_1`,
  ..., so with eleven files or more `part_10` comes before `part_2`, and the
  index that `assign_file` returns is not the number in the name.)
* *The recovery store* of `PartitionedOutput` moves its resume epoch to the
  frontier of the written rows in one step, and sources resume at the item of
  that epoch; that the real store amounts to this is what the recovery modules
  show for epoch interval zero.
* *Window indices* are wrapped to `I32Half`, and durations truncated to `Milli`
  ticks, as the code does; 50 and 1 where they play no part. `drain_closed`
  walks the map of windows in an order of its own; the model walks it by start.

## 4. Runs

| Run | Instance | Shows |
|---|---|---|
| `RecoveryExactlyOnce` | interval 0; 2 partitions with 3 items for 2 keys; 1 or 2 workers, chosen anew per start; 3 starts | `ExactlyOnce`, refinement `ImplementsRecoveryPoint` |
| `RecoveryTimer` | fair; timer epochs; 1 partition, 2 items; 1 or 2 workers; 3 starts | `NothingLost`, `FrontierAfterSnapshots`, `OneEpochAhead`, `ExecutionsRecordedOnce`; liveness `EverythingRecovered` |
| `RecoveryCommits` | 2 workers; backup interval 0 or 2 epochs, chosen anew per start; 3 starts | `TypeOK`, `CommittedNeverReplayed`, `ResumePointAdvances`, and `IInv`, the invariant the proofs use |
| `RecoveryStaleSnapshot` | interval > 0; 1 worker; 3 starts | finding 1 |
| `RecoveryGarbage` | interval 0; 1 worker; 1 start | finding 2 |
| `Windows` | fair; the configuration is chosen at the start: event clock with overlapping windows (length 2, offset 1, wait 1), event clock with sessions (gap 3, wait 2), system clock with tumbling windows; 3 items of 3 times, a crash | `TypeOK`, `SlidingItemsAccounted`, `SessionsApart`, `SystemClosedOnce`, `OnTimeItemsTaken`, `WatermarkAdvances`; liveness `WindowsClose`. `SlidingAssignment` is about the windower alone: lengths 1 to 5, offsets 1 to 4, align -2 to 2, times -14 to 14 |
| `KeyedStep` | fair; 2 workers, 2 keys; 5 dataflows: `collect` that fills up, times out or is flushed at EOF, `fold_final`, epoch interval 0, 1 and longer than the run, sources that end, idle for ever or abort; a signal at any time | `TypeOK`, `ItemsInOrder`, `EofOnce`, `FinalIsComplete`, `SchedHasLogic`, `SnapshotsCurrent`; liveness `WorkersStop`, `Notified` |
| `PartitionedOutput` | fair; 3 files, one of which worker 1 does not see, in 2 recovery partitions; 2 sources with 3 and 2 items; 1 or 2 workers per start; 2 starts; pages of 1 row | `TypeOK`, `OneWriter`, `ResumeCutsFiles`, `OpenFilesExact`, `PrimariesBalanced`; liveness `FilesExactlyOnce` |
| `StepWithdrawn` | 1 key, a logic that withdraws its notification | finding 6 |
| `WindowSessionMerge` | sessions with gap 3, wait 2; 3 items | finding 3 |
| `WindowReopened` | event clock, tumbling windows, wait 0; 3 items | finding 4 |
| `WindowSubMillisecond` | a millisecond is two ticks | finding 5 |

*Bounds of recovery.* `MaxRuns` starts with a crash at any step of all but the last: the
defects found need two crashes (one leaves a row behind, one loads it), and three
starts allow exactly that. Two workers are needed for reports to differ and two
recovery partitions for rows to be in different databases; one or two workers
per start makes rescaling happen. Two keys, one of which two partitions share,
make a key's snapshot depend on both. `MaxEpoch` only stops a timer from ending
empty epochs for ever; items and EOF add epochs past it. With two input
partitions and interval 0 the second one runs a full epoch ahead, which is the
most backpressure allows. Delays 0 and 2 cover a commit at the reported epoch,
behind it, and before the first epoch.

`epochs_per` divides the backup interval by the epoch interval as floats: 0/0 is
NaN and becomes 0, which is the delay of the runs with interval 0; a positive
backup interval over 0 is infinite and saturates, so nothing is ever committed.

*Bounds of windowing.* Three items are the fewest that bridge two sessions, or
close a window between two items of another. Times and ticks together span a length
(or gap) plus the wait, so that an item can be late, in time for one of two
overlapping windows only, or close everything before it. `MaxNow` ends the
arrival of items; time then goes on until every window is due and closed. One
crash is enough to load a snapshot. Small lengths and offsets cover every
relation of the two (equal, dividing or not, with gaps), and the times reach
several windows to both sides of `align_to`.

*Bounds of the keyed step.* A list of two items is full with the second, so the
three ways a list is emitted (full, timeout, EOF) and the rebuild of a discarded
logic happen with two items. Both workers send to the same key, so items of two
sources meet. `MaxNow` = 2 with a timeout of 1 lets a notification come between,
before and after items; an epoch interval of 3 keeps the epoch open for the whole
run, so that only the timer wakes the step. Properties that time decides are
stated up to the bound: what is scheduled after `MaxNow` does not count. Each
worker's source is one epoch ahead of the probe at most, and this is what
`EofOnce` rests on: without the backpressure, several epochs would close at EOF
and `on_eof` be called in each.

*Bounds of the output.* With three files, two workers have to share them
unevenly, and the file that only worker 0 lists has to stay there. One crash
leaves rows and bytes that the next execution must cut off, and a change of the
number of workers moves a file to another one. A page of one row makes every key
of the recovery partition with two files a page boundary. Epoch 2 writes twice to
one file, and the last epoch has one source at EOF.

*Deadlock* is checked in the recovery and windowing runs: after the last start has finished the model stutters in
`Stopped`, everywhere else some step must be possible. In particular `Resume` is
never refused with `InconsistentPartitionsError`. `KeyedStep` and
`PartitionedOutput` have states in which everything has ended, and there is no
next step after them; that nothing stops earlier is what their liveness
properties say.

*Fairness* (`FairSpec`, used by `RecoveryTimer`, `Windows`, `KeyedStep` and
`PartitionedOutput`; invariants do not depend on it). `Worker::run` steps its
dataflow in a loop, and Timely activates every operator with work, so the steps
of the operators are weakly fair. A source that has items or is at its end
eventually says so, which is what a source is for; empty polls are not fair. The
cluster is started again after a crash, which is the premise of recovery.
`Crash` has no fairness. In `WindowLogic`, time passes, and `stateful_unary` asks
Timely for an activation at the soonest awake time it holds
(`activate_after`), in which it lists the due keys and wakes them; items and EOF
are not fair, a key may never hear of either. In `KeyedStep` each worker is a
thread that the operating system schedules, so each has weak fairness of its
own (`Turn`), and the clock runs; nothing makes a signal arrive. In
`PartitionedOutput` some step is taken as long as one is possible, and an
execution that crashed is started again; every step uses up an item, a row, a
frontier or a message, so no step can be put off for ever by others. The number
of crashes is bounded by `MaxExecutions`.

## 5. Findings

1. *A stale snapshot survives a replay* (`RecoveryStaleSnapshot`). The rows that
   a crashed execution left in the epoch it was in are only overwritten if the
   replay touches the same keys in the same epoch. With a timer it need not.
   Trace: the first execution reads two items, of two keys, in epoch 1, ends the
   epoch, has written the second key's row of epoch 1 and is killed. The second
   starts at epoch 1 again. It reads the first item only before its timer ends
   epoch 1, so it writes a row for the source, at position 1, and one for the
   first key, and its frontier row moves the store to epoch 2; killed. The third
   resumes at 2 and loads the newest rows before 2: the source's, from the second
   execution, and the second key's, from the first one, with the second item in
   it. That item is read again and counts twice. So
   "exactly-once" (`pysrc/bytewax/inputs.py:142`) holds with epoch interval zero
   (`RecoveryExactlyOnce`), and with a timer only "at least once"
   (`NothingLost` in `RecoveryTimer`). The proof of `ExactlyOnce` showed that
   interval zero is not enough either: the replayed epoch must read the *same*
   batch. If a source may return a shorter batch or an empty one after a restart
   (`BatchSizes` {0, 1} or {1, 2}), the replay of an epoch misses a key of the
   crashed one, and TLC finds the same trace. Hence `Repeatable` in the theorem.
2. *Garbage collection never deletes* (`RecoveryGarbage`). The `NOT EXISTS`
   subquery of `RecoveryCommitter::commit` (`src/recovery.rs:944`) is not
   correlated with the row to delete; it is false whenever there is one. With the
   subquery correlated, `GarbageCollected` and the other runs hold.
3. *Merged sessions lose items* (`WindowSessionMerge`). `merge_sessions` joins two
   sessions under the earlier one's key, but the accumulators are kept per key in
   `WindowStatefulLogic::current_state`, which nobody merges. With gap 3, an item
   at time 1 and then one at 0: the new session absorbs the old one, whose
   accumulator is never asked to emit. The session closes with the second item
   only.
4. *A closed window opens again* (`WindowReopened`). With no window open the logic
   is dropped with its clock; the key's next item defines a new watermark and is
   never late, however old. Its window is emitted a second time.
5. *Fractions of a millisecond* (`WindowSubMillisecond`). `num_milliseconds` rounds
   towards zero, the division after it down. For negative differences (times
   before `align_to + length`) the last fraction of a millisecond before a window
   boundary counts for the next window, which does not hold the item: it gets no
   window at all and is not reported late either.

6. *A withdrawn notification comes all the same* (`StepWithdrawn`). `unary` asks
   each awoken logic for `notify_at` and stores the answer in `sched_cache` only
   if there is one; a `None` leaves the earlier time in place
   (`src/operators/mod.rs:876`). The documentation of `notify_at` says that no
   `on_notify` will occur then. The built-in operators are not affected: `collect`
   only returns `None` when it is discarded, which clears the entry.

Smaller ones, seen while modelling and with no run of their own:
`SessionWindower::next_close` names the close of the last session, not of the
next one as the trait's comment has it, so the first is emitted late, though
always in the end (`WindowsClose`); and `window_idx as i32`
(`src/window/sliding_window.rs:124`) wraps for windows 2^31 or more away from
`align_to` (500 ms windows aligned to 1970 suffice), which then get wrong
boundaries. Both are in the model as the code has them. `TestingSource` does not
count the `ABORT` items it skips in the position it resumes from
(`pysrc/bytewax/testing.py`), so a resume after one can start too early. In
`unary` and `stateful_unary` the list `init_caps` that is moved to the resume
epoch after the loads (`src/operators/mod.rs:966`) is empty by then, both
capabilities were popped from it, so the fast-forward of the comment there does
not happen.

## 6. Proofs

Assumptions: the named `ASSUME`s of the modules (sources and keys are different
ids, worker counts are positive, each row has a partition, lengths and offsets of
windows are positive, ...), no bound on the number of sources, items, keys,
workers, partitions, epochs, windows or starts.

| Theorem | Of | Module |
|---|---|---|
| `InvariantHolds`, `TypeCorrect` | `IInv`, `TypeOK` | `RecoveryClusterProofs` |
| `FrontierAfterSnapshotsHolds`, `OneEpochAheadHolds`, `CommittedNeverReplayedHolds`, `ExecutionsRecordedOnceHolds` | the invariants of these names | `RecoveryClusterProofs` |
| `ResumePointAdvancesHolds` | action property | `RecoveryClusterProofs` |
| `NothingLostHolds` | `NothingLost` | `RecoveryCutProofs` |
| `ExactlyOnceHolds`, `ImplementsRecoveryPointHolds` | `ExactlyOnce`, the refinement of `RecoveryPoint`; if `Repeatable` | `RecoveryReplayProofs` |
| `SlidingAssignmentHolds` | `SlidingAssignment`; whole milliseconds, indices that fit | `WindowProofs` |
| `WatermarkAdvancesHolds` | action property, both clocks and all windowers | `WindowProofs` |
| `SystemClosedOnceHolds` | invariant | `WindowProofs` |
| `WSeenInvHolds`, `OnTimeItemsTakenHolds` | `WSeenInv`, `OnTimeItemsTaken`; event clock, sliding windows and sessions | `WindowProofs` |
| `SlidingItemsAccountedHolds` | `SlidingItemsAccounted`; if `WholeMillis` | `WindowProofs` |
| `WSessionInvHolds`, `SessionsApartHolds` | `WSessionInv`, `SessionsApart` | `WindowProofs` |
| `TypeOKHolds` | `TypeOK` of `WindowLogic` | `WindowProofs` |
| `StepInvHolds`, `TypeOKHolds` | `StepInv`, `TypeOK` | `KeyedStepProofs` |
| `EofOnceHolds`, `SchedHasLogicHolds`, `SnapshotsCurrentHolds`, `FinalIsCompleteHolds` | invariants | `KeyedStepProofs` |
| `OrderInvHolds`, `ItemsInOrderHolds` | `OrderInv`, `ItemsInOrder` | `KeyedStepProofs` |
| `OutputInvHolds` | `OutputInv` | `PartitionedOutputProofs` |
| `OneWriterHolds`, `PrimariesBalancedHolds` | invariants | `PartitionedOutputProofs` |
| `FilesInvHolds`, `OutputTypeOKHolds` | `FilesInv`, `TypeOK` of `PartitionedOutput` | `PartitionedFileProofs` |
| `ResumeCutsFilesHolds`, `OpenFilesExactHolds` | invariants | `PartitionedFileProofs` |

### Epochs and reports (`IInv`)

None of the properties is inductive. What has to be carried along is why the
order of the writes is kept, and that is `IInv`:

* `Quiet`: nothing volatile outlives a crash;
* `StoreKeys`: a row lies in the partition of its key, once, and a frontier row
  has its execution row, with a worker number below that row's count;
* `ExecutionRow`: the running execution's row is the newest, and until it is
  written the store still yields this execution's own resume epoch;
* `Capabilities`: capabilities are options and stay behind what can arrive;
* `Reports`: a worker's row, its messages and its capability follow one another,
  none passes what is upstream of it;
* `NoGaps`: the reports of a worker cover every epoch up to its capability, or,
  after EOF, every epoch anyone still waits to commit. Without it a committer
  could act on the tick of one worker while another's report is missing;
* `Ahead`: nothing but the input partitions runs ahead of what all workers have
  reported. This is what backpressure is for;
* `TypeOK`, `OneEpochAhead`, `CommittedNeverReplayed`.

The argument. `ResumeIsReported` turns the SQL into a statement about reports:
the resume epoch is at least `v` exactly if all workers reported `v`, so it is
the smallest of what the workers reported. With it each action is an induction
step of its own (`Inv` and the action's name); `UpstreamStep` deals at once with
the actions that only touch what is upstream of the frontier operators, and
`ReportsGrow` with the fact that a write never retracts a report. `WriteFrontier`
is the one that moves the resume point, `Commit` the one that needs `NoGaps`.

### At least once (`LossInv`)

`NothingLost` speaks of the rows before the resume epoch, which only
`WriteFrontier` and `Commit` change. When the resume epoch moves from `e` to
`e + 1`, the newest rows of epoch `e` become the ones a resume loads, and they must
already be a cut. So `Kept` says of every item read so far that it is under way,
or in the running state and, unless its key is still to be snapshotted, in the
newest row that the store has or is about to have (`Settled`); and of a source
that has ended the current epoch that its row claims no more than it has read.
Rows of a crashed execution may still lie in epoch `e`; `Kept` holds of them too,
since a row of a key never counts less than what a resume skips. `SnapshotKeys`
says that no two rows of an id are under way at once, so the newest row is the
last one written. The item may count twice (finding 1), hence only "at least".

### Exactly once and the refinement (`ExactInv`)

`Repeatable` is interval zero and one size of batches: then each source
contributes `First` to `Last` to the current epoch, whichever execution reads it.
`Replays` says that all rows of the current epoch, of this execution and of
crashed ones, claim just that, so that it does not matter whose row survives;
`OneAtATime` that nothing but sources gets past the current epoch and the resume point
cannot skip one; `Exact` that all sources and keys that the epoch touched have or
will have a row when the epoch is reported. The refinement mapping takes the
resume epoch, the items its rows skip and their effects; only `WriteFrontier`
moves it, by one epoch (`OneAtATime`), and with `Replays` each newly skipped item
gets effect one. Both conditions are necessary, see finding 1.

### Sliding windows

`SlidingAssignmentHolds` is arithmetic, done once in the lemma `IntersectsIs` for
every time and configuration: with whole milliseconds `FirstWindow` is the first window whose end is after the time, for floor division of negative
numbers too, and the count reaches the last window that starts by then. It
assumes `Milli = 1` and indices that fit, and finding 5 is what happens without.

The rest is by two facts. A crash sets the key back to its snapshot, so all of
`WindowInvariant` is stated of a record and holds of `Live` and `saved`. And an
item changes, for each window, one thing: `Accounted` says that item and window
are exactly one of held, emitted and late if the window covers the item, and none
otherwise; `OnItem` decides it for the new item, closing moves all of a window's
items from held to emitted at once. A late item's window is not held (it was
closed, or never opened), which is what `ClockInv` with its "one item makes the
watermark" is needed for. `WatermarkAdvances` is the clock invariant alone.
`OnTimeItemsTaken` is the other direction: nothing is late without a reason. An
item is late because of a watermark, and the watermark is made of one event time
and one system time. `SeenInv` says that these two are of one item, given to the
logic before, and stay so: a slower item does not mix its own time in, and the
item a snapshot's clock is about is among those that a crash keeps. So whatever
is late was overtaken by that item, by more than the wait.
`WholeMillis` is the premise of `SlidingItemsAccountedHolds`: `Fits` asks that
the windows around an item's time have indices in an `i32`.

### Sessions

`merge_sessions` walks the sorted list once and only ever looks at the last
session of what it has made so far. `Tops` is that session, as a recursive
function of the session that was taken last. Its induction is along the order of
the list: every beginning of the list that is not defined would contain a smaller
one (`TopsAre`). `TopStarts` says what the top is: it has the key and the start of
the first session merged into it and ends with the last of them, and no session
before that stays open to merging. So of two that are left over, the later one
starts after the earlier's close time, for any list (`MergedAre`). With the new
item's session in the list, the one that holds the item's time is unique, and it
is the one `find_map` finds (`AddedAre`).

`SessionInv` adds the logics, which are keyed by session. A key that merging
absorbed keeps its logic for ever (finding 3), so `SessionInv` cannot say that
logics and sessions have the same keys. It says that only keys that were given
out have one: then the fresh key of the next session does not find somebody
else's items. A session's items lie in it because it inherits key and start
from the same session and only grows. The order of two sessions with the same
start is that of an insertion sort; the properties do not depend on it.

### The keyed step

`LinkInv` carries the argument. A source polls only when the probe has reached
its epoch, so whatever is on its way to a step is of the epoch its capability
holds. An activation that is allowed to see newer frontiers therefore meets items
of one epoch at most, and at EOF works on exactly one epoch, after which the
capability is gone: `on_eof` is not called again and no item follows (`EofInv`).
`CacheInv` is kept by every call of a logic: a discard clears `sched_cache`, any
call marks the key as awoken, and only the snapshot at the end of an epoch clears
that. `FinalInv` says where every item sent is: in a channel, in the logic, in
what was emitted or written; and that a final fold emits when its step's
capability is dropped, with which the logic goes. A capability is only dropped
when no source holds one, and a source that aborted keeps its own (`SourcesInv`).

In an activation the epochs and the items of an epoch are worked on in order.
Both loops are recursive functions in the model, because the folds of the library
are opaque to the prover. About a particular function induction is possible: a
set of natural numbers has a least element (`NatHasLeast`), so there is no first
place at which the function would be undefined, and none at which it would stop
keeping what it keeps. There is one lemma per call of a logic (`ItemStep`,
`NotifyStep`, `EofStep`, `Reschedule`, `SnapshotStep`), one for the items of an
epoch, one for an epoch, one for a key.

`ItemsInOrder` has an invariant of its own on top of `StepInv`. `OrderInv` cuts a
key's way to the sink in four: what is written, what is emitted, what its logic
holds and what is on the link. Each part is in the order in which its sources sent
it; of one source the items of a part come before those of the next (`Precede`);
and the four together are exactly what was sent to the key. Of two sources the
order is not fixed, and the property leaves it open too. A step takes a beginning
of the link (`CutOrder`), all of one epoch by `LinkInv`, and hands it to the logic
item by item: the item taken is later than all the logic holds, and earlier than
all that stay on the link (`TakeItemsOrder`). An answer either keeps what the logic
holds or emits all of it and discards the logic (`AppliedOrder`, `AnswersFlush`),
so a new logic starts empty behind what was emitted. Nothing is left in the
`InBuffer` between activations, which `StepInv` says and `ItemsInOrder` needs.

### Primaries and routing

The theorems about the output hold for listings as the module assumes them:
worker 0 lists every file, and of two workers one lists all that the other does
(`NestedListing`). `PrimariesBalanced` is a fact about `calc_primaries` alone
(`GreedyIsBalanced`).
Take the last partition in the order that went to the primary of `p`. It comes
after `p` or is `p`, so at least as many workers list it, and the listings are
nested: every worker that lists `p` lists it too and was a candidate. So just
before it was given away its primary had no more than any of them, and it got one.
Without `NestedListing` TLC finds the imbalance.

`OneWriter` needs the whole path of an item and of a loaded row. `RoutesInv` says
that the primaries are assigned once in an execution, after all lists are there,
and that a routing map is that assignment or still empty; `OwnersInv` that
whatever is on its way to the output of a worker, buffered in it or open there
belongs to it. A crash takes all of this away at once, so nothing of an earlier
assignment is left when another number of workers makes a new one. `AwokenInv`
is carried along because a file must be open when it is snapshotted, and because
what was written must not be forgotten at EOF: the last epochs are closed before
the files are dropped.

### What the files hold (`FilesInv`)

A row is only a length, so what a resume cuts off depends on what every earlier
execution wrote behind it. `RowsInv` makes the length mean something: a row of
epoch `e`, of whichever execution, has the number of the file's items up to the
end of `e`, there is a row for each item before the resume epoch, and the file
begins with these items, in order (`CutAt`). This survives a crash as it is,
whatever half of an epoch was appended.

For a running execution the other parts say why writes keep it so. Sources read
an item when the probe has reached its epoch, so everything under way is of the
resume epoch: loads of earlier epochs and items are never under way together
(`FrontInv`: whatever is `Behindhand` is `Quiet`), hence a file is cut before it
is written, and never while it is (`LoadsInv`: a file with older items is open or
its last row is still on its way to the worker that will open it). Each item of
the resume epoch that was read is in one queue, once, or in its open file
(`UnderwayInv`), so an append cannot repeat an item; and an open file has its
older items and some of the current ones (`WrittenInv`). `Advance` moves the
resume epoch when nothing of it is upstream of the rows. Then all of its items
are in their files, and a file that got one is snapshotted at the close of the
epoch: the rows that the next epoch needs are there. `Quiet` is also why an open
file cannot be cut by another worker; the rest of that is `OneWriter`.

Most of the work is in `Output`, an activation over several epochs with the
recursive functions that `PartitionedOutputProofs` has the lemmas about:
`PartitionedFileProofs` adds which items it writes, in which order.

### Only model-checked

* Liveness under fairness is out of the prover's reach: `EverythingRecovered`,
  `WindowsClose`, `WorkersStop`, `Notified` and `FilesExactlyOnce`.

## 7. Not modelled

Dataflow construction, command line, serialisation, tracing, metrics and the web
server have no behaviour over time of their own.
The stateless operators (`branch`, `flat_map_batch`, `merge`, `redistribute`,
`inspect_debug`, `extract_key`, `wrap_key`) pass items on in their epoch and keep
nothing. Of the Python operators, `stateful_map` and the joins keep their state
through items as `fold_final` does and are not modelled separately; the others are
composed of modelled ones. The Kafka connectors depend on a broker and a client
library outside the repository; their offsets are a source's snapshot, which
`RecoveryCluster` has. The `parts` table with its checks before a run, and
restores of single partitions from backups, are not modelled. Sinks other than
files have no state in the model: what they wrote before a crash is written
again. The several epochs of one activation of `stateful_unary` are those of
`unary`, and only the latter's are modelled. Of `unary` itself two things are left
out, both where it meets the store: the logics of `RecoveryCluster` are never
discarded, so it writes and loads no discard rows (`KeyedStep` has discards and
what a snapshot says of them), and they ask for no notification, so `notify_at` is
not asked of a loaded logic.
