-------------------------- MODULE RecoveryCluster --------------------------
(***************************************************************************)
(* A cluster of Bytewax workers that runs one dataflow                     *)
(*                                                                         *)
(*   partitioned input --> stateful step (unary) --> recovery writer       *)
(*                                                                         *)
(* against a recovery store, is killed at any moment, and is resumed, each *)
(* time possibly with another number of workers and another backup         *)
(* interval.                                                               *)
(*                                                                         *)
(* Timely Dataflow's progress tracking is external.  A frontier is         *)
(* modelled by the set of epochs of every capability held and every        *)
(* message in flight upstream of a point; a capability is a set with at    *)
(* most one epoch, the empty set once it is dropped.  Frontiers are global *)
(* to the cluster in Timely as well: a worker may see an older frontier    *)
(* than the current one, which only delays what the actions below do.      *)
(***************************************************************************)
EXTENDS RecoveryTables, Sequences

CONSTANTS
  Srcs,          \* input partitions (StateKeys of the input step)
  Keys,          \* keys of the stateful step
  Input,         \* Input[s] is the sequence of keys of the items of s
  KeyHash,       \* hash of a key; its worker is the hash modulo the count
  BatchSizes,    \* how many items one next_batch may return (0: none ready)
  ZeroInterval,  \* TRUE: epoch_interval is 0, every batch ends its epoch
  MaxEpoch,      \* bound: past this epoch a timer closes no more epochs
  Parts,         \* recovery partitions
  ExPart,        \* partition of an execution's row
  FrontPart,     \* partition of the frontier row of (execution, worker)
  SnapPart,      \* partition of a snapshot row
  WorkerCounts,  \* numbers of workers an execution may be started with
  Delays,        \* backup interval in epochs an execution may be started with
  MaxRuns        \* bound: how often the cluster is started

Ids == Srcs \cup Keys
WorkerIds == UNION {0 .. (n - 1) : n \in WorkerCounts}
Items == UNION {{<<s, i>> : i \in 1 .. Len(Input[s])} : s \in Srcs}

(* How often each item is reflected in the state of a key. *)
Effects == [Items -> Nat]
NoEffect == [i \in Items |-> 0]

ASSUME SrcsAssumption == Srcs \cap Keys = {}
ASSUME InputAssumption == Input \in [Srcs -> Seq(Keys)]
ASSUME HashAssumption == KeyHash \in [Keys -> Nat]
ASSUME BatchAssumption == BatchSizes \subseteq Nat /\ ZeroInterval \in BOOLEAN
ASSUME BoundAssumption == MaxEpoch \in Nat /\ MaxRuns \in Nat
ASSUME ClusterAssumption == /\ WorkerCounts \subseteq Nat \ {0}
                            /\ WorkerCounts # {}
                            /\ Delays \subseteq Nat
ASSUME PartAssumption == /\ ExPart \in [0 .. MaxRuns -> Parts]
                         /\ FrontPart \in [0 .. MaxRuns -> [WorkerIds -> Parts]]
                         /\ SnapPart \in [Ids -> Parts]

VARIABLES
  \* The running processes.
  up,        \* "down" or "running"
  runs,      \* how often the cluster was started
  ex,        \* ExecutionNumber of this execution
  resume,    \* ResumeEpoch of this execution
  workers,   \* WorkerCount of this execution
  delay,     \* epochs_per(backup_interval) of this execution
  \* The input step.
  srcCap,    \* srcCap[s]: the capability of the input partition
  offset,    \* offset[s]: items of s read so far
  items,     \* items on their way to the stateful step
  \* The stateful step.
  opCap,     \* opCap[w]: the capability of worker w's operator
  state,     \* state[k]: the logic of key k
  awoken,    \* awoken_keys_buffer of all workers: keys are disjoint
  \* The recovery writers, in dataflow order.
  snapMsgs,  \* snapshots on their way to the snapshot writer
  exMsg,     \* TRUE until the execution row is written
  frontCap,  \* frontCap[w]: the capability of worker w's frontier operator
  frontMsgs, \* frontier rows on their way to the frontier writer
  ticks,     \* ticks[p]: epochs queued at the committer of p
  \* The recovery store, the only state that survives a crash.
  exs, fronts, snaps, commits

process == <<up, runs, ex, resume, workers, delay>>
input == <<srcCap, offset>>
step == <<opCap, state, awoken>>
store == <<exs, fronts, snaps, commits>>
vars == <<process, input, items, step, snapMsgs, exMsg, frontCap, frontMsgs,
          ticks, store>>

-----------------------------------------------------------------------------
(* FrontierEx. *)

(* simplify(): Some(smallest epoch), or None (the empty set) at EOF. *)
Simplify(frontier) == {f \in frontier : \A g \in frontier : f <= g}
IsClosed(frontier, epoch) == \A f \in frontier : epoch < f
IsEof(frontier) == frontier = {}
(* MutableAntichain::less_than, which the probe handle exposes. *)
LessThan(frontier, epoch) == \E f \in frontier : f < epoch

Epochs(msgs) == {m.epoch : m \in msgs}
Caps(capOf) == UNION {capOf[x] : x \in DOMAIN capOf}

(***************************************************************************)
(* The input frontiers along the dataflow, from the sources to the probe.  *)
(* Here and below, a definition X_Y is a faulty variant of X: the runs'    *)
(* properties are validated by swapping it in.                             *)
(***************************************************************************)
StepIn == Caps(srcCap) \cup Epochs(items)
SnapIn_NoStepCap == StepIn \cup Epochs(snapMsgs)
SnapIn == StepIn \cup Caps(opCap) \cup Epochs(snapMsgs)
FrontierIn_NoExClock == SnapIn
FrontierIn == SnapIn \cup (IF exMsg THEN {resume} ELSE {})
CommitIn == FrontierIn \cup Caps(frontCap) \cup Epochs(frontMsgs)
Probe == CommitIn \cup Caps(ticks)

-----------------------------------------------------------------------------
(* What a resume computes from the store. *)

AllRows(table) == UNION {table[p] : p \in Parts}
StoreResume == ResumeFrom(AllRows(exs), AllRows(fronts))
LoadSnaps(before) == UNION {MaxEpochSnaps(snaps[p], before) : p \in Parts}

LoadedOffset(rows, s) ==
  IF \E r \in rows : r.id = s THEN (CHOOSE r \in rows : r.id = s).pos ELSE 0
LoadedState(rows, k) ==
  IF \E r \in rows : r.id = k THEN (CHOOSE r \in rows : r.id = k).eff ELSE NoEffect

SourceSnap(s, pos, epoch) == [id |-> s, epoch |-> epoch, pos |-> pos, eff |-> NoEffect]
KeySnap(k, epoch) == [id |-> k, epoch |-> epoch, pos |-> 0, eff |-> state[k]]

WorkerOf(k) == KeyHash[k] % workers

Init ==
  /\ up = "down" /\ runs = 0 /\ ex = 0 /\ resume = 1 /\ workers = 0 /\ delay = 0
  /\ srcCap = [s \in Srcs |-> {}] /\ offset = [s \in Srcs |-> 0]
  /\ items = {}
  /\ opCap = [w \in WorkerIds |-> {}]
  /\ state = [k \in Keys |-> NoEffect] /\ awoken = {}
  /\ snapMsgs = {} /\ exMsg = FALSE
  /\ frontCap = [w \in WorkerIds |-> {}] /\ frontMsgs = {}
  /\ ticks = [p \in Parts |-> {}]
  /\ exs = [p \in Parts |-> {}] /\ fronts = [p \in Parts |-> {}]
  /\ snaps = [p \in Parts |-> {}] /\ commits = [p \in Parts |-> {}]

-----------------------------------------------------------------------------
(***************************************************************************)
(* worker_main: the resume dataflow merges the progress tables of all      *)
(* partitions and computes where to resume; the production dataflow then   *)
(* loads the newest snapshots before that epoch.  The whole start is one   *)
(* step: the store does not change until the execution row is written, and *)
(* the loads are emitted in epochs before the resume epoch, so the probe   *)
(* holds every input partition back until they are all applied.            *)
(***************************************************************************)
Resume(n, d) ==
  LET from == StoreResume
      rows == LoadSnaps(from.epoch)
  IN  /\ up = "down" /\ runs < MaxRuns
      /\ StateMissing(commits, from.epoch) = {}
      /\ up' = "running" /\ runs' = runs + 1
      /\ ex' = from.ex /\ resume' = from.epoch /\ workers' = n /\ delay' = d
      /\ srcCap' = [s \in Srcs |-> {from.epoch}]
      /\ offset' = [s \in Srcs |-> LoadedOffset(rows, s)]
      /\ opCap' = [w \in WorkerIds |-> IF w < n THEN {from.epoch} ELSE {}]
      /\ state' = [k \in Keys |-> LoadedState(rows, k)]
      /\ exMsg' = TRUE
      /\ frontCap' = [w \in WorkerIds |-> IF w < n THEN {from.epoch} ELSE {}]
      /\ UNCHANGED <<items, awoken, snapMsgs, frontMsgs, ticks, store>>

(***************************************************************************)
(* partitioned_input: one partition is polled and returns n items.  The    *)
(* epoch ends, with a snapshot of the partition, when the epoch interval   *)
(* elapsed.  Nothing is polled while the probe is behind the epoch.        *)
(***************************************************************************)
Backpressured_Off(e) == FALSE
Backpressured(e) == LessThan(Probe, e)

NextBatch(s, n, elapsed) ==
  \E e \in srcCap[s] :
    /\ ~ Backpressured(e)
    /\ offset[s] + n <= Len(Input[s])
    /\ ZeroInterval => elapsed
    /\ (elapsed /\ (n = 0 \/ ~ ZeroInterval)) => e < MaxEpoch
    /\ offset' = [offset EXCEPT ![s] = offset[s] + n]
    /\ items' = items \cup {[item |-> <<s, i>>, epoch |-> e] :
                              i \in (offset[s] + 1) .. (offset[s] + n)}
    /\ IF elapsed
         THEN /\ snapMsgs' = snapMsgs \cup {SourceSnap(s, offset[s] + n, e)}
              /\ srcCap' = [srcCap EXCEPT ![s] = {e + 1}]
         ELSE UNCHANGED <<snapMsgs, srcCap>>
    /\ UNCHANGED <<process, step, exMsg, frontCap, frontMsgs, ticks, store>>

(* The partition is exhausted: a last snapshot, and its capabilities go. *)
SourceEof(s) ==
  \E e \in srcCap[s] :
    /\ ~ Backpressured(e)
    /\ offset[s] = Len(Input[s])
    /\ snapMsgs' = snapMsgs \cup {SourceSnap(s, offset[s], e)}
    /\ srcCap' = [srcCap EXCEPT ![s] = {}]
    /\ UNCHANGED <<process, offset, items, step, exMsg, frontCap, frontMsgs,
                   ticks, store>>

(***************************************************************************)
(* unary: items are applied in epoch order, eagerly at the frontier, by    *)
(* the worker the key is routed to.                                        *)
(***************************************************************************)
InbufRemove_Keeps(m) == items
InbufRemove(m) == items \ {m}

OnItem(m) ==
  LET k == Input[m.item[1]][m.item[2]]
  IN  /\ m.epoch \in Simplify(StepIn)
      /\ opCap[WorkerOf(k)] = {m.epoch}
      /\ items' = InbufRemove(m)
      /\ state' = [state EXCEPT ![k][m.item] = @ + 1]
      /\ awoken' = awoken \cup {k}
      /\ UNCHANGED <<process, input, opCap, snapMsgs, exMsg, frontCap, frontMsgs,
                     ticks, store>>

(* An epoch closes on a worker: every key awoken in it is snapshotted and   *)
(* the capability moves on to the frontier.  At EOF on_eof wakes all logics *)
(* first and the capability is dropped.                                     *)
MyKeys(w) == {k \in Keys : WorkerOf(k) = w}

CloseEpoch(w) ==
  \E c \in opCap[w] :
    LET onEof == IF IsEof(StepIn) THEN {k \in MyKeys(w) : state[k] # NoEffect} ELSE {}
    IN  /\ IsClosed(StepIn, c)
        /\ snapMsgs' = snapMsgs \cup {KeySnap(k, c) : k \in (awoken \cap MyKeys(w)) \cup onEof}
        /\ awoken' = awoken \ MyKeys(w)
        /\ opCap' = [opCap EXCEPT ![w] = Simplify(StepIn)]
        /\ UNCHANGED <<process, input, items, state, exMsg, frontCap, frontMsgs,
                       ticks, store>>

-----------------------------------------------------------------------------
(* write_recovery: the writers of execution, snapshot and frontier rows and *)
(* the committer.  partd_write applies rows eagerly at its frontier.        *)

WriteExecution ==
  /\ exMsg
  /\ exs' = [exs EXCEPT ![ExPart[ex]] =
               @ \cup {[ex |-> ex, count |-> workers, resume |-> resume]}]
  /\ exMsg' = FALSE
  /\ UNCHANGED <<process, input, items, step, snapMsgs, frontCap, frontMsgs,
                 ticks, fronts, snaps, commits>>

WriteSnapshot(m) ==
  /\ m.epoch \in Simplify(SnapIn)
  /\ snaps' = [snaps EXCEPT ![SnapPart[m.id]] = UpsertSnap(@, m)]
  /\ snapMsgs' = snapMsgs \ {m}
  /\ UNCHANGED <<process, input, items, step, exMsg, frontCap, frontMsgs,
                 ticks, exs, fronts, commits>>

(* FrontierOp: when the frontier moved past the capability, emit it in the  *)
(* epoch of the capability.  At EOF "last epoch + 1" stands for it.         *)
FrontierEpoch_Drift(c) ==
  IF IsEof(FrontierIn) THEN {c + 1} ELSE {f + 1 : f \in Simplify(FrontierIn)}
FrontierEpoch_NoEof(c) == IF IsEof(FrontierIn) THEN {c} ELSE Simplify(FrontierIn)
FrontierEpoch(c) == IF IsEof(FrontierIn) THEN {c + 1} ELSE Simplify(FrontierIn)

EmitFrontier(w) ==
  \E c \in frontCap[w] :
    /\ IsClosed(FrontierIn, c)
    /\ \E f \in FrontierEpoch(c) :
         frontMsgs' = frontMsgs \cup {[ex |-> ex, worker |-> w, front |-> f, epoch |-> c]}
    /\ frontCap' = [frontCap EXCEPT ![w] = Simplify(FrontierIn)]
    /\ UNCHANGED <<process, input, items, step, snapMsgs, exMsg, ticks, store>>

(* The writer's clock is broadcast: every committer hears of the epoch. *)
WriteFrontier(m) ==
  LET row == [ex |-> m.ex, worker |-> m.worker, front |-> m.front]
  IN  /\ m.epoch \in Simplify(CommitIn)
      /\ fronts' = [fronts EXCEPT ![FrontPart[m.ex][m.worker]] = UpsertFront(@, row)]
      /\ frontMsgs' = frontMsgs \ {m}
      /\ ticks' = [p \in Parts |-> ticks[p] \cup {m.epoch}]
      /\ UNCHANGED <<process, input, items, step, snapMsgs, exMsg, frontCap,
                     exs, snaps, commits>>

(* partd_commit on one partition: a closed epoch commits the epoch that is  *)
(* the backup interval older, if there is one, and collects garbage.        *)
CheckedSub_Wraps(e, d) == {e - d}
CheckedSub_Next(e, d) == IF d <= e + 1 THEN {e + 1 - d} ELSE {}
CheckedSub(e, d) == IF d <= e THEN {e - d} ELSE {}

Commit(p) ==
  \E e \in Simplify(ticks[p]) :
    /\ IsClosed(CommitIn, e)
    /\ ticks' = [ticks EXCEPT ![p] = @ \ {e}]
    /\ IF CheckedSub(e, delay) = {}
         THEN UNCHANGED <<commits, snaps>>
         ELSE \E c \in CheckedSub(e, delay) :
                /\ commits' = [commits EXCEPT ![p] = {c}]
                /\ snaps' = [snaps EXCEPT ![p] = GcDelete(@, c)]
    /\ UNCHANGED <<process, input, items, step, snapMsgs, exMsg, frontCap,
                   frontMsgs, exs, fronts>>

-----------------------------------------------------------------------------
(* Nothing of the processes outlives them. *)
Vanish ==
  /\ up' = "down"
  /\ srcCap' = [s \in Srcs |-> {}] /\ offset' = [s \in Srcs |-> 0]
  /\ items' = {}
  /\ opCap' = [w \in WorkerIds |-> {}]
  /\ state' = [k \in Keys |-> NoEffect] /\ awoken' = {}
  /\ snapMsgs' = {} /\ exMsg' = FALSE
  /\ frontCap' = [w \in WorkerIds |-> {}] /\ frontMsgs' = {}
  /\ ticks' = [p \in Parts |-> {}]
  /\ UNCHANGED <<runs, ex, resume, workers, delay, store>>

(* The dataflow is done once the probe is: every worker leaves its loop. *)
Finish == up = "running" /\ IsEof(Probe) /\ Vanish

(***************************************************************************)
(* A panic, an abort or a kill ends all workers.  A worker that dies first *)
(* stops making progress, which holds back the frontiers of all others, so *)
(* their last steps are steps of this model before the crash.  The last    *)
(* start is not killed (bound).                                            *)
(***************************************************************************)
Crash == up = "running" /\ runs < MaxRuns /\ Vanish

(* After the last start has finished nothing happens any more (bound). *)
Stopped == up = "down" /\ runs = MaxRuns /\ UNCHANGED vars

Next ==
  \/ \E n \in WorkerCounts, d \in Delays : Resume(n, d)
  \/ \E s \in Srcs, n \in BatchSizes, elapsed \in BOOLEAN : NextBatch(s, n, elapsed)
  \/ \E s \in Srcs : SourceEof(s)
  \/ \E m \in items : OnItem(m)
  \/ \E w \in WorkerIds : CloseEpoch(w)
  \/ WriteExecution
  \/ \E m \in snapMsgs : WriteSnapshot(m)
  \/ \E w \in WorkerIds : EmitFrontier(w)
  \/ \E m \in frontMsgs : WriteFrontier(m)
  \/ \E p \in Parts : Commit(p)
  \/ Finish
  \/ Crash
  \/ Stopped

Spec == Init /\ [][Next]_vars

(***************************************************************************)
(* Every worker steps its dataflow in a loop for as long as it runs, and a *)
(* source that has items eventually returns some: a partition may come up  *)
(* empty any number of times, but not forever.  The operator is started    *)
(* again after a crash.                                                    *)
(***************************************************************************)
Fairness ==
  /\ WF_vars(\E n \in WorkerCounts, d \in Delays : Resume(n, d))
  /\ \A s \in Srcs :
       WF_vars(SourceEof(s) \/ \E n \in BatchSizes \ {0}, b \in BOOLEAN : NextBatch(s, n, b))
  /\ WF_vars(\E m \in items : OnItem(m))
  /\ \A w \in WorkerIds : WF_vars(CloseEpoch(w)) /\ WF_vars(EmitFrontier(w))
  /\ WF_vars(WriteExecution)
  /\ WF_vars(\E m \in snapMsgs : WriteSnapshot(m))
  /\ WF_vars(\E m \in frontMsgs : WriteFrontier(m))
  /\ \A p \in Parts : WF_vars(Commit(p))
  /\ WF_vars(Finish)

FairSpec == Spec /\ Fairness

-----------------------------------------------------------------------------
SnapRows == [id : Ids, epoch : Nat, pos : Nat, eff : Effects]
ItemMsgs == [item : Items, epoch : Nat]
FrontRows == [ex : Nat, worker : WorkerIds, front : Nat]
FrontMsgs == [ex : Nat, worker : WorkerIds, front : Nat, epoch : Nat]
ExRows == [ex : Nat, count : WorkerCounts, resume : Nat]

(* Every variable has its type; while the cluster is up its size is one it  *)
(* can be started with.                                                     *)
TypeOK ==
  /\ up \in {"down", "running"} /\ runs \in 0 .. MaxRuns
  /\ ex \in Nat /\ resume \in Nat /\ delay \in Nat
  /\ workers \in Nat /\ (up = "running" => workers \in WorkerCounts)
  /\ srcCap \in [Srcs -> SUBSET Nat] /\ offset \in [Srcs -> Nat]
  /\ items \subseteq ItemMsgs
  /\ opCap \in [WorkerIds -> SUBSET Nat]
  /\ state \in [Keys -> Effects] /\ awoken \subseteq Keys
  /\ snapMsgs \subseteq SnapRows /\ exMsg \in BOOLEAN
  /\ frontCap \in [WorkerIds -> SUBSET Nat] /\ frontMsgs \subseteq FrontMsgs
  /\ ticks \in [Parts -> SUBSET Nat]
  /\ \A p \in Parts : /\ exs[p] \subseteq ExRows
                      /\ fronts[p] \subseteq FrontRows
                      /\ snaps[p] \subseteq SnapRows
                      /\ commits[p] \subseteq Nat
  /\ {DOMAIN exs, DOMAIN fronts, DOMAIN snaps, DOMAIN commits} = {Parts}

-----------------------------------------------------------------------------
KeyOf(i) == Input[i[1]][i[2]]

(* What an execution started now would load: a crash may come at any time.  *)
Durable == UNION {LoadSnaps(from.epoch) : from \in {StoreResume}}
Skipped(rows, i) == i[2] <= LoadedOffset(rows, i[1])
Effect(rows, i) == LoadedState(rows, KeyOf(i))[i]

(* Whatever the moment of a crash, an item that the resumed input will not  *)
(* read again is in the state the resumed step starts with: the store's     *)
(* input positions and step states form a cut that loses nothing.           *)
NothingLost ==
  LET rows == Durable IN \A i \in Items : Skipped(rows, i) => Effect(rows, i) >= 1

(* Every item is folded into its key's state once: it is still to be read,  *)
(* on its way, or applied exactly one time, across all crashes and resumes. *)
ExactlyOnce ==
  up = "running" =>
    \A i \in Items :
      state[KeyOf(i)][i] = IF /\ i[2] <= offset[i[1]]
                              /\ \A m \in items : m.item # i
                             THEN 1 ELSE 0

(* Before a frontier row lets a resume skip an epoch, everything of that    *)
(* epoch is in the store: no item, unsaved key or unwritten snapshot of an  *)
(* epoch before the store's resume epoch is left in the running dataflow.   *)
FrontierAfterSnapshots ==
  LET from == StoreResume IN \A e \in SnapIn : from.epoch <= e

(* Backpressure: the store never holds snapshots past the epoch that a      *)
(* resume replays, so that a resume has at most one epoch to overwrite.     *)
OneEpochAhead ==
  LET from == StoreResume IN \A r \in AllRows(snaps) : r.epoch <= from.epoch

(* Committer::commit promises "that an epoch will never be processed again, *)
(* even across failure and resume": however the workers' reports interleave *)
(* and the backup interval changes between executions, a committed epoch is *)
(* before the one the store resumes from, so a resume is never refused.     *)
CommittedNeverReplayed ==
  LET from == StoreResume IN \A p \in Parts : \A c \in commits[p] : c < from.epoch

(* The execution writer's plain INSERT relies on an execution number being  *)
(* written once; a frontier row without its execution row would hide the    *)
(* progress it records.                                                     *)
ExecutionsRecordedOnce ==
  LET known == {r.ex : r \in AllRows(exs)}
  IN  /\ exMsg => ex \notin known
      /\ \A f \in AllRows(fronts) : f.ex \in known

(* Neither the resume epoch nor the execution number that the store yields  *)
(* ever goes back, whatever is written and in whatever order workers report.*)
ResumePointAdvances ==
  [][\A from \in {StoreResume}, next \in {StoreResume'} :
       next.epoch >= from.epoch /\ next.ex >= from.ex]_<<exs, fronts>>

(* However often the cluster crashes, once it is left alone it drains its   *)
(* input, stops by itself, and the store says that every item was read and  *)
(* folded into the state.                                                   *)
EverythingRecovered ==
  <>[](/\ up = "down"
       /\ LET rows == Durable
          IN \A i \in Items : Skipped(rows, i) /\ Effect(rows, i) >= 1)

(* The store, as what a resume would find in it, behaves as RecoveryPoint    *)
(* says: one indivisible point that moves forward epoch by epoch, in which   *)
(* every item before the input positions counts once.                        *)
Point ==
  INSTANCE RecoveryPoint WITH
    epoch <- StoreResume.epoch,
    read <- UNION {{i \in Items : Skipped(rows, i)} : rows \in {Durable}},
    effect <- UNION {{<<i, Effect(rows, i)>> : i \in Items} : rows \in {Durable}}

ImplementsRecoveryPoint == Point!Spec

(* What the comment on the committer's DELETE promises: a partition that    *)
(* committed an epoch keeps, of the rows before it, only the newest of each *)
(* (step, key).                                                             *)
GarbageCollected ==
  \A p \in Parts : \A c \in commits[p] :
    {r \in snaps[p] : r.epoch < c} = MaxEpochSnaps(snaps[p], c)
=============================================================================
