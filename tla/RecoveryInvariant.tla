------------------------- MODULE RecoveryInvariant -------------------------
(***************************************************************************)
(* The inductive invariant of RecoveryCluster: what has to be true of the  *)
(* capabilities, the messages and the store together for the safety        *)
(* properties to survive every step.                                       *)
(***************************************************************************)
EXTENDS RecoveryCluster

Live == 0 .. (workers - 1)
Running == up = "running"

(* Worker w of the current execution has told the store that it is through  *)
(* with every epoch before v; or a report that says so is under way.        *)
Reported(w, v) ==
  \/ v <= resume
  \/ \E f \in AllRows(fronts) : f.ex = ex /\ f.worker = w /\ v <= f.front
AllReported(v) == \A w \in Live : Reported(w, v)
Covered(w, v) ==
  \/ Reported(w, v)
  \/ \E m \in frontMsgs : m.worker = w /\ m.epoch < v /\ v <= m.front

(* An epoch that not all workers have reached is held by an input partition:*)
(* backpressure.                                                            *)
Reachable(e) == AllReported(e) \/ \E x \in Caps(srcCap) : x <= e

-----------------------------------------------------------------------------
(* Nothing volatile is left of a cluster that is down. *)
Quiet ==
  up = "down" => /\ Caps(srcCap) = {} /\ items = {} /\ Caps(opCap) = {} /\ awoken = {}
                 /\ snapMsgs = {} /\ exMsg = FALSE /\ Caps(frontCap) = {}
                 /\ frontMsgs = {} /\ Caps(ticks) = {}

(* Primary keys: a row lies in the partition its key hashes to, only once.  *)
StoreKeys ==
  /\ \A p \in Parts : \A r \in exs[p] : r.ex < runs /\ p = ExPart[r.ex]
  /\ \A p \in Parts : \A r, q \in exs[p] : r.ex = q.ex => r = q
  /\ \A p \in Parts : \A f \in fronts[p] : f.ex < runs /\ p = FrontPart[f.ex][f.worker]
  /\ \A p \in Parts : \A f, g \in fronts[p] :
       f.ex = g.ex /\ f.worker = g.worker => f = g
  /\ \A f \in AllRows(fronts) :
       \E r \in AllRows(exs) : r.ex = f.ex /\ f.worker < r.count

(* The row of the running execution is the newest; until it is written the  *)
(* store still yields this execution's own number and resume epoch, and no  *)
(* worker has reported.                                                     *)
ExecutionRow ==
  /\ Running => ex < runs
  /\ Running /\ ~ exMsg =>
       /\ [ex |-> ex, count |-> workers, resume |-> resume] \in AllRows(exs)
       /\ \A r \in AllRows(exs) : r.ex <= ex
  /\ exMsg => /\ \A r \in AllRows(exs) : r.ex < ex
              /\ StoreResume.epoch = resume
              /\ frontMsgs = {}

(* Capabilities are options; only workers of this execution hold some; they *)
(* start at the resume epoch and stay behind what can still arrive.         *)
Capabilities ==
  /\ \A s \in Srcs : \A a, b \in srcCap[s] : a = b
  /\ \A w \in WorkerIds : \A a, b \in opCap[w] : a = b
  /\ \A w \in WorkerIds : \A a, b \in frontCap[w] : a = b
  /\ \A w \in WorkerIds : frontCap[w] # {} => w \in Live
  /\ \A e \in CommitIn : resume <= e
  /\ \A w \in WorkerIds : \A c \in opCap[w] : \A e \in StepIn : c <= e
  /\ \A w \in WorkerIds : \A c \in frontCap[w] : \A e \in FrontierIn : c <= e
  /\ Running => \A w \in Live : frontCap[w] = {} => FrontierIn = {}

(* Reports of a worker follow one another: row, then messages in epoch      *)
(* order, then capability; none of them passes what is still in the store's *)
(* way.                                                                     *)
Reports ==
  /\ \A m \in frontMsgs :
       /\ m.ex = ex /\ m.worker \in Live /\ m.epoch < m.front
       /\ \A e \in FrontierIn : m.front <= e
       /\ \A c \in frontCap[m.worker] : m.front <= c
       /\ \A n \in frontMsgs :
            m.worker = n.worker => m = n \/ m.front <= n.epoch \/ n.front <= m.epoch
  /\ Running => \A f \in AllRows(fronts) : f.ex = ex =>
       /\ \A e \in FrontierIn : f.front <= e
       /\ \A c \in frontCap[f.worker] : f.front <= c
       /\ \A m \in frontMsgs : m.worker = f.worker => f.front <= m.epoch

(* No gap in the reports of a worker up to its capability, or, once it has  *)
(* dropped that, past every epoch anyone still waits to commit.             *)
NoGaps ==
  /\ \A w \in WorkerIds : \A c \in frontCap[w] : \A v \in 0 .. c : Covered(w, v)
  /\ Running => \A w \in Live : frontCap[w] = {} =>
       \A e \in Caps(frontCap) \cup Epochs(frontMsgs) \cup Caps(ticks) : Covered(w, e + 1)

(* Nothing runs ahead of the reports, except for the input partitions.      *)
Ahead ==
  /\ \A m \in items : AllReported(m.epoch)
  /\ \A m \in snapMsgs : AllReported(m.epoch)
  /\ \A e \in Caps(opCap) : Reachable(e)
  /\ \A e \in Caps(frontCap) : Reachable(e)
  /\ \A m \in frontMsgs : AllReported(m.epoch)
  /\ \A e \in Caps(ticks) : AllReported(e)

(* The conjunction is preserved by every step of the cluster, as            *)
(* RecoveryClusterProofs shows; on the small instance TLC confirms it.      *)
IInv ==
  /\ TypeOK /\ Quiet /\ StoreKeys /\ ExecutionRow /\ Capabilities
  /\ Reports /\ NoGaps /\ Ahead
  /\ OneEpochAhead /\ CommittedNeverReplayed

-----------------------------------------------------------------------------
(* What the rows, messages and states say of the items. *)

Current == StoreResume.epoch
Rows == AllRows(snaps)

(* The rows of the store once all snapshots under way are written.          *)
Settled ==
  {r \in Rows : \A m \in snapMsgs : m.id = r.id => m.epoch # r.epoch} \cup snapMsgs
Newest(rows) == {r \in rows : \A q \in rows : q.id = r.id => q.epoch <= r.epoch}

Read(i) == i[2] <= offset[i[1]]
InFlight(i) == \E m \in items : m.item = i
(* Source s has ended the current epoch. *)
Past(s) == \A e \in srcCap[s] : Current < e

(* Primary keys of the snapshots; a step has at most one under way for an   *)
(* id, and has left its epoch.  A key is awoken in an epoch that its worker *)
(* has yet to close.                                                        *)
SnapshotKeys ==
  /\ \A p \in Parts : \A r \in snaps[p] : p = SnapPart[r.id]
  /\ \A p \in Parts : \A r, q \in snaps[p] : r.id = q.id /\ r.epoch = q.epoch => r = q
  /\ \A m, n \in snapMsgs : m.id = n.id => m = n
  /\ \A m \in snapMsgs :
       /\ m.id \in Srcs => \A e \in srcCap[m.id] : m.epoch < e
       /\ m.id \in Keys => \A c \in opCap[WorkerOf(m.id)] : m.epoch < c
  /\ \A k \in awoken : \E c \in opCap[WorkerOf(k)] : c <= Current

(* An item that a resume skips is in every state that a resume could load,  *)
(* now or after the current epoch, in the running one and in what is under  *)
(* way.  An item that was read is on its way or in the running state; and   *)
(* in its key's row of the current epoch, there or to come.  The row of a   *)
(* source that has ended the epoch does not claim more than it read.        *)
Kept ==
  /\ \A i \in Items : Skipped(Durable, i) =>
       /\ Effect(Durable, i) >= 1
       /\ Effect(Newest(Rows), i) >= 1
       /\ Running => state[KeyOf(i)][i] >= 1
       /\ \A m \in snapMsgs : m.id = KeyOf(i) => m.eff[i] >= 1
  /\ Running => \A i \in Items : Read(i) =>
       \/ InFlight(i)
       \/ /\ state[KeyOf(i)][i] >= 1
          /\ KeyOf(i) \in awoken \/ Effect(Newest(Settled), i) >= 1
  /\ Running => \A s \in Srcs : Past(s) => LoadedOffset(Newest(Settled), s) <= offset[s]

LossInv == IInv /\ SnapshotKeys /\ Kept

-----------------------------------------------------------------------------
(* Replays that repeat themselves. *)

(* Nothing but the input is an epoch ahead of the store, and nothing more   *)
(* than one: the resume point cannot skip an epoch.                         *)
OneAtATime ==
  /\ \A e \in Caps(srcCap) \cup Caps(opCap) : e <= Current + 1
  /\ \A m \in frontMsgs : m.front <= Current + 1

(* Every batch is an epoch of its own, and a source that is read again from *)
(* the same position returns the same batch.                                *)
Repeatable == ZeroInterval /\ \E n \in Nat : BatchSizes = {n}
Batch == CHOOSE n \in BatchSizes : TRUE

(* Where the current epoch finds source s, and where it leaves it.          *)
First(s) == LoadedOffset(Durable, s)
Last(s) == IF First(s) + Batch <= Len(Input[s]) THEN First(s) + Batch ELSE First(s)

(* Rows of the current epoch, of this execution and of crashed ones, in the *)
(* store or under way.                                                      *)
CurrentRows == {r \in Rows \cup snapMsgs : r.epoch = Current}
HasRow(id) == \E r \in CurrentRows : r.id = id
Once(b) == IF b THEN 1 ELSE 0

(* What a resume would load counts what it skips once.  All executions of   *)
(* the current epoch write the same rows: for a source where the epoch      *)
(* leaves it, for a key one that counts everything before that once.        *)
Replays ==
  /\ \A i \in Items : Effect(Durable, i) = Once(Skipped(Durable, i))
  /\ \A r \in CurrentRows :
       /\ r.id \in Srcs => r.pos = Last(r.id)
       /\ \A i \in Items : KeyOf(i) = r.id => r.eff[i] = Once(i[2] <= Last(i[1]))

(* The running execution has read the current epoch of the sources that are *)
(* past it.  Who is past it, or was read in it, has or will have a row.     *)
Exact ==
  Running =>
    /\ \A s \in Srcs :
         /\ offset[s] = IF Past(s) THEN Last(s) ELSE First(s)
         /\ srcCap[s] = {} => offset[s] = Len(Input[s])
         /\ Past(s) => Last(s) = First(s) \/ HasRow(s)
    /\ \A i \in Items :
         /\ InFlight(i) => Read(i) /\ ~ Skipped(Durable, i)
         /\ Read(i) => Skipped(Durable, i) \/ InFlight(i)
                          \/ KeyOf(i) \in awoken \/ HasRow(KeyOf(i))

ExactInv == IInv /\ SnapshotKeys /\ OneAtATime /\ Replays /\ Exact /\ ExactlyOnce
=============================================================================
