------------------------ MODULE RecoveryReplayProofs ------------------------
(***************************************************************************)
(* Proofs about replays: the resume point moves on epoch by epoch, and if  *)
(* a replayed epoch reads what the crashed one did, every item counts once *)
(* and the store is the indivisible point that RecoveryPoint describes.    *)
(***************************************************************************)
EXTENDS RecoveryCutProofs

-----------------------------------------------------------------------------
(* Epoch by epoch. *)

(* No frontier that an operator sees is more than an epoch ahead.           *)
LEMMA FrontiersClose ==
  ASSUME IInv, OneAtATime
  PROVE  \A e \in FrontierIn : e \in Nat /\ e <= Current + 1
<1>1. TypeOK /\ EpochsNow /\ EpochsTyped
  BY EpochsAre, FrontiersTyped DEF IInv
<1>2. \A e \in SnapIn : e <= Current + 1
  <2>1. \A e \in Caps(srcCap) \cup Caps(opCap) : e <= Current + 1
    BY DEF OneAtATime
  <2>2. \A e \in Epochs(items) \cup Epochs(snapMsgs) : e = Current
    BY <1>1 DEF Epochs, EpochsNow
  <2>3. QED
    BY <1>1, <2>1, <2>2 DEF SnapIn, StepIn, EpochsNow
<1>3. exMsg => resume <= Current + 1
  BY <1>1 DEF IInv, ExecutionRow, Current, EpochsNow, TypeOK
<1>4. QED
  BY <1>1, <1>2, <1>3 DEF FrontierIn, EpochsTyped

(* Writers move the resume epoch on by one, if at all. *)
LEMMA WritersAdvanceByOne ==
  ASSUME IInv, OneAtATime, Writers
  PROVE  Current' = Current \/ Current' = Current + 1
<1>1. Running /\ IInv' /\ Aside /\ Current <= Current'
  BY WritersAside
<1>2. TypeOK /\ EpochsNow /\ EpochsNow' /\ Running'
  BY <1>1, EpochsAre, NextEpochsAre DEF IInv, Aside, Running
<1>3. /\ Current \in Nat /\ Current' \in Nat
      /\ \A e \in Nat : AllReported(e) <=> e <= Current
      /\ \A e \in Nat : AllReported(e)' <=> e <= Current'
  BY <1>1, <1>2 DEF EpochsNow
<1>4. CASE UNCHANGED <<process, fronts>>
  <2>1. \A e : AllReported(e)' <=> AllReported(e)
    BY <1>4 DEF process, AllReported, Reported, Live, AllRows
  <2>2. Current' <= Current
    BY <1>3, <2>1
  <2>3. QED
    BY <1>1, <1>3, <2>2
<1>5. CASE \E m \in frontMsgs : WriteFrontier(m)
  <2>1. PICK m \in frontMsgs : WriteFrontier(m)
    BY <1>5
  <2> DEFINE row == [ex |-> m.ex, worker |-> m.worker, front |-> m.front]
             part == FrontPart[m.ex][m.worker]
  <2>2. /\ ex' = ex /\ workers' = workers /\ resume' = resume
        /\ fronts' = [fronts EXCEPT ![part] = UpsertFront(@, row)]
    BY <2>1 DEF WriteFrontier, process
  <2>3. \A f \in AllRows(fronts)' : f \in AllRows(fronts) \/ f = row
    <3>1. \A p \in Parts : \A f \in fronts'[p] : f \in fronts[p] \/ f = row
      BY <1>2, <2>2 DEF UpsertFront, TypeOK
    <3>2. QED
      BY <3>1 DEF AllRows
  <2>4. m.front \in Nat /\ m.front <= Current + 1 /\ row.front = m.front
    BY <1>2 DEF OneAtATime, TypeOK, FrontMsgs
  <2>5. ASSUME NEW v \in Nat, v = Current', Current + 1 < v PROVE FALSE
    <3>1. ~ AllReported(Current + 1) /\ AllReported(v)'
      BY <1>3, <2>5
    <3>2. PICK w \in Live : ~ Reported(w, Current + 1)
      BY <3>1 DEF AllReported
    <3>3. Reported(w, v)'
      BY <2>2, <3>1, <3>2 DEF AllReported, Live
    <3>4. ~ (v <= resume)
      BY <1>2, <1>3, <2>5, <3>2 DEF Reported, TypeOK
    <3>5. PICK f \in AllRows(fronts)' : f.ex = ex /\ f.worker = w /\ v <= f.front
      BY <2>2, <3>3, <3>4 DEF Reported
    <3>6. CASE f \in AllRows(fronts)
      <4>1. f.front \in Nat /\ ~ (Current + 1 <= f.front)
        BY <1>2, <3>2, <3>5, <3>6 DEF Reported, TypeOK, FrontRows, AllRows
      <4>2. QED
        BY <1>3, <2>5, <3>5, <4>1
    <3>7. CASE f = row
      BY <1>3, <2>4, <2>5, <3>5, <3>7
    <3>8. QED
      BY <2>3, <3>6, <3>7
  <2>6. QED
    BY <1>1, <1>3, <2>5
<1>6. QED
  BY <1>4, <1>5 DEF Writers, WriteExecution, EmitFrontier, Commit, store

(* A frontier operator reports no epoch beyond the next. *)
LEMMA EmitsNext ==
  ASSUME IInv, OneAtATime, NEW w \in WorkerIds, EmitFrontier(w)
  PROVE  \A m \in frontMsgs' : m.front <= Current + 1
<1>1. TypeOK /\ EpochsNow /\ Running
  <2>1. Writers
    BY DEF Writers
  <2>2. QED
    BY <2>1, WritersAside, EpochsAre DEF IInv
<1>2. PICK c \in frontCap[w] : \E f \in FrontierEpoch(c) :
        frontMsgs' = frontMsgs \cup {[ex |-> ex, worker |-> w, front |-> f, epoch |-> c]}
  BY DEF EmitFrontier
<1>3. PICK f \in FrontierEpoch(c) :
        frontMsgs' = frontMsgs \cup {[ex |-> ex, worker |-> w, front |-> f, epoch |-> c]}
  BY <1>2
<1>4. f <= Current + 1
  <2>1. CASE IsEof(FrontierIn)
    <3>1. c \in Nat /\ c \in Caps(frontCap) /\ f = c + 1
      BY <1>1, <1>3, <2>1 DEF FrontierEpoch, Caps, TypeOK
    <3>2. Caps(srcCap) = {}
      BY <2>1 DEF IsEof, FrontierIn, SnapIn, StepIn
    <3>3. AllReported(c)
      BY <3>1, <3>2 DEF IInv, Ahead, Reachable
    <3>4. QED
      BY <1>1, <3>1, <3>3 DEF EpochsNow
  <2>2. CASE ~ IsEof(FrontierIn)
    BY <1>3, <2>2, FrontiersClose DEF FrontierEpoch, Simplify
  <2>3. QED
    BY <2>1, <2>2
<1>5. QED
  BY <1>3, <1>4 DEF OneAtATime

LEMMA NextOneAtATime ==
  IInv /\ SnapshotKeys /\ OneAtATime /\ [Next]_vars =>
    OneAtATime' /\ (Current' = Current \/ Current' = Current + 1)
<1> SUFFICES ASSUME IInv, SnapshotKeys, OneAtATime, [Next]_vars
             PROVE  OneAtATime' /\ (Current' = Current \/ Current' = Current + 1)
  OBVIOUS
<1>1. TypeOK /\ EpochsNow /\ IInv' /\ TypeOK' /\ EpochsTyped /\ Current \in Nat
  BY NextInv, EpochsAre, FrontiersTyped DEF IInv, EpochsNow
<1>2. CASE \E n \in WorkerCounts, d \in Delays : Resume(n, d)
  <2>1. /\ Current' = Current /\ frontMsgs' = {}
        /\ srcCap' = [s \in Srcs |-> {Current}]
        /\ \E n \in WorkerCounts :
             opCap' = [w \in WorkerIds |-> IF w < n THEN {Current} ELSE {}]
    BY <1>2 DEF Resume, Current, StoreResume, store, IInv, Quiet
  <2>2. \A e \in Caps(srcCap') \cup Caps(opCap') : e = Current
    BY <2>1 DEF Caps
  <2>3. \A e \in Caps(srcCap') \cup Caps(opCap') : e <= Current' + 1
    BY <1>1, <2>1, <2>2
  <2>4. QED
    BY <2>1, <2>3 DEF OneAtATime
<1>3. CASE \E s \in Srcs : \/ \E n \in BatchSizes, elapsed \in BOOLEAN : NextBatch(s, n, elapsed)
                           \/ SourceEof(s)
  <2>1. PICK s \in Srcs : \/ \E n \in BatchSizes, elapsed \in BOOLEAN : NextBatch(s, n, elapsed)
                          \/ SourceEof(s)
    BY <1>3
  <2>2. PICK e \in srcCap[s] :
           /\ ~ Backpressured(e)
           /\ \/ UNCHANGED <<srcCap, snapMsgs>>
              \/ /\ snapMsgs' = snapMsgs \cup {SourceSnap(s, offset'[s], e)}
                 /\ \E N \in {{e + 1}, {}} : srcCap' = [srcCap EXCEPT ![s] = N]
           /\ UNCHANGED <<process, step, store>>
    BY <1>1, <2>1, PollSends
  <2>3. e = Current
    BY <2>2, PolledNow
  <2>4. frontMsgs' = frontMsgs /\ Current' = Current /\ opCap' = opCap
    BY <2>1 DEF NextBatch, SourceEof, step, store, Current, StoreResume
  <2>5. \A t \in Srcs : \A x \in srcCap'[t] : x \in srcCap[t] \/ x = Current + 1
    BY <1>1, <2>2, <2>3 DEF TypeOK
  <2>6. \A x \in Caps(srcCap') : x \in Caps(srcCap) \/ x = Current + 1
    BY <1>1, <2>5 DEF Caps, TypeOK
  <2>7. QED
    BY <1>1, <2>4, <2>6 DEF OneAtATime
<1>4. CASE \E w \in WorkerIds : CloseEpoch(w)
  <2>1. PICK w \in WorkerIds : CloseEpoch(w)
    BY <1>4
  <2>2. /\ opCap' = [opCap EXCEPT ![w] = Simplify(StepIn)]
        /\ srcCap' = srcCap /\ frontMsgs' = frontMsgs /\ Current' = Current
    BY <2>1 DEF CloseEpoch, input, store, Current, StoreResume
  <2>3. \A x \in StepIn : x <= Current + 1
    <3>1. \A x \in Caps(srcCap) : x <= Current + 1
      BY DEF OneAtATime
    <3>2. \A x \in Epochs(items) : x = Current
      BY <1>1 DEF EpochsNow, Epochs
    <3>3. QED
      BY <1>1, <3>1, <3>2 DEF StepIn
  <2>4. \A v \in WorkerIds : \A x \in opCap'[v] : x \in opCap[v] \/ x \in StepIn
    BY <1>1, <2>2 DEF TypeOK, Simplify
  <2>5. \A x \in Caps(opCap') : x \in Caps(opCap) \/ x \in StepIn
    BY <1>1, <2>4 DEF Caps, TypeOK
  <2>6. QED
    BY <2>2, <2>3, <2>5 DEF OneAtATime
<1>5. CASE Writers
  <2>1. Aside /\ Current <= Current' /\ (Current' = Current \/ Current' = Current + 1)
    BY <1>5, WritersAside, WritersAdvanceByOne
  <2>2. \A m \in frontMsgs' : m.front \in Nat /\ m.front <= Current + 1
    <3>1. CASE \E w \in WorkerIds : EmitFrontier(w)
      BY <1>1, <3>1, EmitsNext DEF TypeOK, FrontMsgs
    <3>2. CASE ~ \E w \in WorkerIds : EmitFrontier(w)
      <4>1. frontMsgs' \subseteq frontMsgs
        BY <1>5, <3>2 DEF Writers, WriteExecution, WriteFrontier, Commit
      <4>2. QED
        BY <1>1, <4>1 DEF OneAtATime, TypeOK, FrontMsgs
    <3>3. QED
      BY <3>1, <3>2
  <2>3. \A x \in Caps(srcCap) \cup Caps(opCap) : x \in Nat
    BY <1>1 DEF EpochsTyped, SnapIn, StepIn
  <2>4. QED
    BY <1>1, <2>1, <2>2, <2>3 DEF OneAtATime, Aside
<1>6. CASE Running /\ Vanish
  <2>1. Current' = Current /\ frontMsgs' = {} /\ Caps(srcCap') = {} /\ Caps(opCap') = {}
    BY <1>6 DEF Vanish, store, Current, StoreResume, Caps
  <2>2. QED
    BY <2>1 DEF OneAtATime
<1>7. CASE \/ \E m \in items : OnItem(m)
           \/ \E m \in snapMsgs : WriteSnapshot(m)
           \/ UNCHANGED vars
  <2>1. srcCap' = srcCap /\ opCap' = opCap /\ frontMsgs' = frontMsgs /\ Current' = Current
    BY <1>7 DEF OnItem, WriteSnapshot, vars, input, step, store, Current, StoreResume
  <2>2. QED
    BY <2>1 DEF OneAtATime
<1>8. QED
  BY <1>2, <1>3, <1>4, <1>5, <1>6, <1>7, StepKinds

-----------------------------------------------------------------------------
(* Replays that read the same batches. *)

CountedOnce ==
  Running => \A i \in Items : state[KeyOf(i)][i] = Once(Read(i) /\ ~ InFlight(i))

LEMMA OnceIs == ExactlyOnce <=> CountedOnce
BY DEF ExactlyOnce, CountedOnce, Once, Read, InFlight, Running

LEMMA NextOnceIs == ExactlyOnce' <=> CountedOnce'
BY OnceIs, PTL

LEMMA ItemsAre ==
  \A i \in Items : /\ i[1] \in Srcs /\ i[2] \in Nat /\ 1 <= i[2] /\ i[2] <= Len(Input[i[1]])
                   /\ KeyOf(i) \in Keys /\ KeyOf(i) \notin Srcs
<1> SUFFICES ASSUME NEW s \in Srcs, NEW n \in 1 .. Len(Input[s]), NEW i, i = <<s, n>>
             PROVE  /\ i[1] \in Srcs /\ i[2] \in Nat /\ 1 <= i[2] /\ i[2] <= Len(Input[i[1]])
                    /\ Input[i[1]][i[2]] \in Keys
  BY SrcsAssumption DEF Items, KeyOf
<1>1. Input[s] \in Seq(Keys) /\ Len(Input[s]) \in Nat
  BY InputAssumption
<1>2. QED
  BY <1>1

LEMMA BatchIs == Repeatable => Batch \in Nat /\ \A n \in BatchSizes : n = Batch
BY DEF Repeatable, Batch

(* Where an epoch finds and leaves a source. *)
LEMMA PositionsAre ==
  ASSUME Repeatable, IInv, SnapshotKeys, NEW s \in Srcs
  PROVE  /\ First(s) \in Nat /\ Last(s) \in Nat /\ First(s) <= Last(s)
         /\ Len(Input[s]) \in Nat /\ offset[s] \in Nat
<1>1. Batch \in Nat /\ Len(Input[s]) \in Nat
  BY BatchIs, InputAssumption
<1>2. Durable \subseteq SnapRows
  BY LoadsAre DEF LoadsNow, Keyed, MaxEpochSnaps
<1>3. First(s) \in Nat
  BY <1>2, LoadsTyped DEF First
<1>4. QED
  BY <1>1, <1>3 DEF Last, IInv, TypeOK

(* Nothing that the counting looks at changes. *)
LEMMA ExactSame ==
  ASSUME Replays, Exact, ExactlyOnce,
         UNCHANGED <<up, srcCap, offset, items, awoken, state>>,
         Current' = Current, Durable' = Durable, CurrentRows' \subseteq CurrentRows,
         \A id : HasRow(id) => HasRow(id)'
  PROVE  Replays' /\ Exact' /\ ExactlyOnce'
<1>1. \A s : First(s)' = First(s) /\ Last(s)' = Last(s)
  BY DEF First, Last
<1>2. Replays'
  BY <1>1 DEF Replays
<1>3. Exact'
  <2>1. \A s : Past(s)' <=> Past(s)
    BY DEF Past
  <2>2. \A i : (Read(i)' <=> Read(i)) /\ (InFlight(i)' <=> InFlight(i))
    BY DEF Read, InFlight
  <2>3. QED
    BY <1>1, <2>1, <2>2 DEF Exact, Running
<1>4. ExactlyOnce'
  BY DEF ExactlyOnce
<1>5. QED
  BY <1>2, <1>3, <1>4

(* The row of the current epoch is what the next one finds. *)
LEMMA NewestNow ==
  ASSUME IInv, SnapshotKeys, snapMsgs = {}
  PROVE  /\ \A r \in CurrentRows : /\ LoadedOffset(Newest(Rows), r.id) = r.pos
                                   /\ LoadedState(Newest(Rows), r.id) = r.eff
         /\ \A id : ~ HasRow(id) =>
              /\ LoadedOffset(Newest(Rows), id) = LoadedOffset(Durable, id)
              /\ LoadedState(Newest(Rows), id) = LoadedState(Durable, id)
<1>1. LoadsNow /\ EpochsNow
  BY LoadsAre, EpochsAre
<1>2. Keyed(Rows) /\ CurrentRows = {r \in Rows : r.epoch = Current}
  BY <1>1 DEF LoadsNow, CurrentRows
<1>3. ASSUME NEW r \in CurrentRows
      PROVE  /\ LoadedOffset(Newest(Rows), r.id) = r.pos
             /\ LoadedState(Newest(Rows), r.id) = r.eff
  <2>1. r \in Rows /\ \A q \in Rows : q.epoch <= r.epoch
    BY <1>1, <1>2 DEF EpochsNow
  <2>2. QED
    BY <1>2, <2>1, NewestIs
<1>4. ASSUME NEW id, ~ HasRow(id)
      PROVE  /\ LoadedOffset(Newest(Rows), id) = LoadedOffset(Durable, id)
             /\ LoadedState(Newest(Rows), id) = LoadedState(Durable, id)
  <2>1. \A r \in Rows : r.id = id => r.epoch < Current
    BY <1>1, <1>2, <1>4 DEF EpochsNow, HasRow
  <2>2. \A r \in Newest(Rows) : r.id = id => r \in Durable
    BY <1>1, <2>1 DEF Newest, LoadsNow, MaxEpochSnaps
  <2>3. \A r \in Durable : r.id = id => r \in Newest(Rows)
    BY <1>1, <2>1 DEF Newest, LoadsNow, MaxEpochSnaps
  <2>4. \A q, r \in Newest(Rows) : q.id = id /\ r.id = id => q = r
    BY <1>2, NewestUnique
  <2>5. QED
    BY <2>2, <2>3, <2>4, LoadedSame
<1>5. QED
  BY <1>3, <1>4

(* When the resume epoch moves on, what was read in the one it leaves is in *)
(* the cut that the next one finds, and nothing else is.                    *)
LEMMA ExactAdvance ==
  ASSUME Repeatable, IInv, SnapshotKeys, OneAtATime, Replays, Exact, ExactlyOnce,
         IInv', SnapshotKeys', OneAtATime', Running, Aside, Current' = Current + 1
  PROVE  /\ Replays' /\ Exact' /\ ExactlyOnce'
         /\ \A s \in Srcs : First(s)' = Last(s)
<1>1. Current \in Nat /\ Current < Current' /\ EpochsNow
  BY EpochsAre DEF EpochsNow
<1>2. /\ items = {} /\ snapMsgs = {} /\ awoken = {} /\ \A s \in Srcs : Past(s)
      /\ Durable' = Newest(Rows)
  BY <1>1, EpochDone
<1>3. /\ up' = up /\ items' = {} /\ snapMsgs' = {} /\ srcCap' = srcCap
      /\ offset' = offset /\ state' = state /\ Rows' = Rows
      /\ \A i : (Read(i)' <=> Read(i)) /\ ~ InFlight(i) /\ ~ InFlight(i)'
  BY <1>2 DEF Aside, Rows, AllRows, Read, InFlight
<1>4. CurrentRows' = {}
  BY <1>1, <1>2, <1>3 DEF CurrentRows, EpochsNow
<1>5. ASSUME NEW s \in Srcs
      PROVE  First(s)' = Last(s) /\ offset[s] = Last(s)
  <2>1. offset[s] = Last(s) /\ (Last(s) = First(s) \/ HasRow(s))
    BY <1>2 DEF Exact
  <2>2. First(s)' = LoadedOffset(Newest(Rows), s)
    BY <1>2 DEF First
  <2>3. CASE HasRow(s)
    <3>1. PICK r \in CurrentRows : r.id = s
      BY <2>3 DEF HasRow
    <3>2. LoadedOffset(Newest(Rows), s) = r.pos /\ r.pos = Last(s)
      BY <1>2, <3>1, NewestNow DEF Replays
    <3>3. QED
      BY <2>1, <2>2, <3>2
  <2>4. CASE ~ HasRow(s)
    <3>1. LoadedOffset(Newest(Rows), s) = First(s)
      BY <1>2, <2>4, NewestNow DEF First
    <3>2. QED
      BY <2>1, <2>2, <2>4, <3>1
  <2>5. QED
    BY <2>3, <2>4
<1>6. ASSUME NEW i \in Items
      PROVE  /\ Read(i) <=> i[2] <= Last(i[1])
             /\ Skipped(Durable, i) <=> i[2] <= First(i[1])
             /\ Skipped(Durable', i) <=> i[2] <= Last(i[1])
             /\ Skipped(Durable, i) => Skipped(Durable', i)
  <2>1. i[1] \in Srcs /\ i[2] \in Nat
    BY ItemsAre
  <2>2. First(i[1]) \in Nat /\ Last(i[1]) \in Nat /\ First(i[1]) <= Last(i[1])
    BY <2>1, PositionsAre
  <2>3. (Read(i) <=> i[2] <= Last(i[1])) /\ (Skipped(Durable, i) <=> i[2] <= First(i[1]))
    BY <1>5, <2>1 DEF Read, Skipped, First
  <2>4. Skipped(Durable', i) <=> i[2] <= First(i[1])'
    BY DEF Skipped, First
  <2>5. QED
    BY <1>5, <2>1, <2>2, <2>3, <2>4
<1>7. ASSUME NEW i \in Items
      PROVE  Effect(Durable', i) = Once(Skipped(Durable', i))
  <2>1. CASE HasRow(KeyOf(i))
    <3>1. PICK r \in CurrentRows : r.id = KeyOf(i)
      BY <2>1 DEF HasRow
    <3>2. LoadedState(Newest(Rows), KeyOf(i))[i] = Once(i[2] <= Last(i[1]))
      BY <1>2, <3>1, NewestNow DEF Replays
    <3>3. QED
      BY <1>2, <1>6, <3>2 DEF Effect, Once
  <2>2. CASE ~ HasRow(KeyOf(i))
    <3>1. LoadedState(Newest(Rows), KeyOf(i))[i] = Once(Skipped(Durable, i))
      BY <1>2, <2>2, NewestNow DEF Replays, Effect
    <3>2. Read(i) => Skipped(Durable, i)
      BY <1>2, <1>3, <2>2 DEF Exact
    <3>3. QED
      BY <1>2, <1>6, <3>1, <3>2 DEF Effect, Once
  <2>3. QED
    BY <2>1, <2>2
<1>8. Replays'
  BY <1>4, <1>7 DEF Replays
<1>9. ASSUME NEW s \in Srcs
      PROVE  /\ Past(s)' => srcCap[s] = {}
             /\ srcCap[s] = {} => offset[s] = Len(Input[s])
             /\ srcCap[s] = {} => Last(s)' = First(s)'
             /\ offset[s] = First(s)'
  <2>1. offset[s] = First(s)'
    BY <1>5
  <2>2. ASSUME Past(s)', NEW e \in srcCap[s] PROVE FALSE
    <3>1. e \in Caps(srcCap) /\ e \in Nat
      BY DEF Caps, IInv, TypeOK
    <3>2. e <= Current + 1
      BY <3>1 DEF OneAtATime
    <3>3. Current' < e
      BY <1>3, <2>2 DEF Past
    <3>4. QED
      BY <1>1, <3>1, <3>2, <3>3
  <2>3. srcCap[s] = {} => offset[s] = Len(Input[s])
    BY DEF Exact
  <2>4. ASSUME srcCap[s] = {} PROVE Last(s)' = First(s)'
    <3>1. First(s)' = Len(Input[s]) /\ Batch \in Nat /\ Len(Input[s]) \in Nat
      BY <2>1, <2>3, <2>4, BatchIs, InputAssumption
    <3>2. QED
      BY <3>1 DEF Last
  <2>5. QED
    BY <2>1, <2>2, <2>3, <2>4
<1>10. Exact'
  <2>1. \A s \in Srcs : offset'[s] = IF Past(s)' THEN Last(s)' ELSE First(s)'
    BY <1>3, <1>9
  <2>2. \A i \in Items : Read(i)' => Skipped(Durable', i)
    BY <1>3, <1>6
  <2>3. QED
    BY <1>3, <1>9, <2>1, <2>2 DEF Exact
<1>11. ExactlyOnce'
  BY <1>2, <1>3 DEF ExactlyOnce
<1>12. QED
  BY <1>5, <1>8, <1>10, <1>11

LEMMA ExactVanish ==
  ASSUME Replays, Vanish
  PROVE  Replays' /\ Exact' /\ ExactlyOnce'
<1>1. /\ up' = "down" /\ snapMsgs' = {} /\ Rows' = Rows /\ Durable' = Durable
      /\ Current' = Current
  BY DEF Vanish, store, Rows, AllRows, Durable, LoadSnaps, Current, StoreResume
<1>2. CurrentRows' \subseteq CurrentRows /\ \A s : Last(s)' = Last(s)
  BY <1>1 DEF CurrentRows, Last, First
<1>3. QED
  BY <1>1, <1>2 DEF Replays, Exact, ExactlyOnce, Running

(* A resume starts the epoch anew. *)
LEMMA ExactResume ==
  ASSUME IInv, SnapshotKeys, Replays,
         NEW n \in WorkerCounts, NEW d \in Delays, Resume(n, d)
  PROVE  Replays' /\ Exact' /\ ExactlyOnce'
<1>1. TypeOK /\ EpochsNow
  BY EpochsAre DEF IInv
<1>2. /\ srcCap' = [s \in Srcs |-> {Current}]
      /\ offset' = [s \in Srcs |-> LoadedOffset(LoadSnaps(Current), s)]
      /\ state' = [k \in Keys |-> LoadedState(LoadSnaps(Current), k)]
      /\ up = "down" /\ items' = items /\ snapMsgs' = snapMsgs
      /\ Current' = Current /\ Rows' = Rows /\ Durable' = Durable
  BY DEF Resume, store, Current, StoreResume, Rows, AllRows, Durable, LoadSnaps
<1>3. Durable = LoadSnaps(Current)
  BY DEF Durable, Current
<1>4. items' = {} /\ \A i : ~ InFlight(i)'
  BY <1>2 DEF IInv, Quiet, InFlight
<1>5. \A s : First(s)' = First(s) /\ Last(s)' = Last(s)
  BY <1>2 DEF First, Last
<1>6. Replays'
  BY <1>2, <1>5 DEF Replays, CurrentRows
<1>7. \A s \in Srcs : offset'[s] = First(s) /\ srcCap'[s] # {} /\ ~ Past(s)'
  BY <1>1, <1>2, <1>3 DEF First, Past, EpochsNow
<1>8. \A i \in Items : /\ Read(i)' <=> Skipped(Durable, i)
                       /\ state'[KeyOf(i)][i] = Once(Skipped(Durable, i))
  <2> SUFFICES ASSUME NEW i \in Items
               PROVE  /\ Read(i)' <=> Skipped(Durable, i)
                      /\ state'[KeyOf(i)][i] = Once(Skipped(Durable, i))
    OBVIOUS
  <2>1. i[1] \in Srcs /\ KeyOf(i) \in Keys
    BY ItemsAre
  <2>2. Read(i)' <=> Skipped(Durable, i)
    BY <1>7, <2>1 DEF Read, Skipped, First
  <2>3. state'[KeyOf(i)][i] = Effect(Durable, i)
    BY <1>2, <1>3, <2>1 DEF Effect
  <2>4. QED
    BY <2>2, <2>3 DEF Replays
<1>9. Exact'
  BY <1>2, <1>4, <1>5, <1>7, <1>8 DEF Exact
<1>10. CountedOnce'
  BY <1>4, <1>8 DEF CountedOnce, Once
<1>11. QED
  BY <1>6, <1>9, <1>10, NextOnceIs

(* A source leaves the current epoch where every execution leaves it. *)
LEMMA ExactPoll ==
  ASSUME Repeatable, IInv, SnapshotKeys, Replays, Exact, ExactlyOnce,
         NEW s \in Srcs, NEW e \in srcCap[s], ~ Backpressured(e),
         NEW N, srcCap' = [srcCap EXCEPT ![s] = N], \A x \in N : e < x,
         N = {} => offset'[s] = Len(Input[s]),
         snapMsgs' = snapMsgs \cup {SourceSnap(s, offset'[s], e)},
         offset'[s] = Last(s), \A t \in Srcs : t # s => offset'[t] = offset[t],
         \A i \in Items : InFlight(i)' <=> InFlight(i) \/ (Read(i)' /\ ~ Read(i)),
         UNCHANGED <<process, step, store>>
  PROVE  Replays' /\ Exact' /\ ExactlyOnce'
<1>1. TypeOK /\ Running /\ e = Current /\ EpochsNow
  BY PolledNow, EpochsAre DEF IInv
<1>2. /\ up' = up /\ state' = state /\ awoken' = awoken /\ Rows' = Rows
      /\ Current' = Current /\ Durable' = Durable /\ Running'
      /\ \A t : First(t)' = First(t) /\ Last(t)' = Last(t)
  BY <1>1 DEF process, step, store, Current, StoreResume, Rows, AllRows, Durable, LoadSnaps,
              First, Last, Running
<1>3. PICK q : q = SourceSnap(s, offset'[s], e)
  OBVIOUS
<1>4. q.id = s /\ q.epoch = Current /\ q.pos = Last(s) /\ snapMsgs' = snapMsgs \cup {q}
  BY <1>1, <1>3 DEF SourceSnap
<1>5. CurrentRows' = CurrentRows \cup {q}
  BY <1>2, <1>4 DEF CurrentRows
<1>6. HasRow(s)' /\ \A id : HasRow(id) => HasRow(id)'
  BY <1>4, <1>5 DEF HasRow
<1>7. Replays'
  <2>1. \A i \in Items : KeyOf(i) # s
    BY ItemsAre
  <2>2. \A r \in CurrentRows' :
       /\ r.id \in Srcs => r.pos = Last(r.id)
       /\ \A i \in Items : KeyOf(i) = r.id => r.eff[i] = Once(i[2] <= Last(i[1]))
    BY <1>4, <1>5, <2>1 DEF Replays
  <2>3. QED
    BY <1>2, <2>2 DEF Replays
<1>8. offset[s] = First(s) /\ First(s) \in Nat /\ Last(s) \in Nat /\ First(s) <= Last(s)
  <2>1. ~ Past(s)
    BY <1>1 DEF Past, EpochsNow
  <2>2. QED
    BY <1>1, <2>1, PositionsAre DEF Exact
<1>9. ASSUME NEW t \in Srcs
      PROVE  /\ offset'[t] = IF Past(t)' THEN Last(t) ELSE First(t)
             /\ srcCap'[t] = {} => offset'[t] = Len(Input[t])
             /\ Past(t)' => Last(t) = First(t) \/ HasRow(t)'
  <2>1. CASE t = s
    <3>1. srcCap'[s] = N /\ Past(s)'
      BY <1>1, <1>2 DEF TypeOK, Past
    <3>2. QED
      BY <1>6, <2>1, <3>1
  <2>2. CASE t # s
    <3>1. srcCap'[t] = srcCap[t] /\ (Past(t)' <=> Past(t)) /\ offset'[t] = offset[t]
      BY <1>1, <1>2, <2>2 DEF TypeOK, Past
    <3>2. QED
      BY <1>1, <1>6, <3>1 DEF Exact
  <2>3. QED
    BY <2>1, <2>2
<1>10. ASSUME NEW i \in Items
       PROVE  /\ Read(i) => Read(i)'
              /\ Read(i)' /\ ~ Read(i) => ~ Skipped(Durable, i)
  <2>1. i[1] \in Srcs /\ i[2] \in Nat
    BY ItemsAre
  <2>2. CASE i[1] = s
    BY <1>8, <2>1, <2>2 DEF Read, Skipped, First
  <2>3. CASE i[1] # s
    BY <2>1, <2>3 DEF Read
  <2>4. QED
    BY <2>2, <2>3
<1>11. ASSUME NEW i \in Items
       PROVE  /\ InFlight(i)' => Read(i)' /\ ~ Skipped(Durable, i)
              /\ Read(i)' => Skipped(Durable, i) \/ InFlight(i)'
                               \/ KeyOf(i) \in awoken \/ HasRow(KeyOf(i))'
  BY <1>1, <1>6, <1>10 DEF Exact
<1>12. Exact'
  BY <1>2, <1>9, <1>11 DEF Exact
<1>13. ASSUME NEW i \in Items
       PROVE  Read(i)' /\ ~ InFlight(i)' <=> Read(i) /\ ~ InFlight(i)
  BY <1>1, <1>10 DEF Exact
<1>14. CountedOnce'
  <2>1. CountedOnce
    BY OnceIs
  <2>2. QED
    BY <1>1, <1>2, <1>13, <2>1 DEF CountedOnce, Once
<1>15. QED
  BY <1>7, <1>12, <1>14, NextOnceIs

(* An item is applied while it is on its way, and then is not any more.     *)
LEMMA ExactOnItem ==
  ASSUME IInv, SnapshotKeys, Replays, Exact, ExactlyOnce, NEW m \in items, OnItem(m)
  PROVE  Replays' /\ Exact' /\ ExactlyOnce'
<1> DEFINE k == Input[m.item[1]][m.item[2]]
<1>1. /\ items' = items \ {m}
      /\ state' = [state EXCEPT ![k][m.item] = @ + 1]
      /\ awoken' = awoken \cup {k}
      /\ UNCHANGED <<process, input, snapMsgs, store>>
  BY DEF OnItem, InbufRemove
<1>2. TypeOK /\ m.item \in Items /\ k = KeyOf(m.item) /\ k \in Keys /\ EpochsNow
  BY ItemHasKey, EpochsAre DEF IInv, TypeOK, ItemMsgs, KeyOf
<1>3. /\ up' = up /\ snapMsgs' = snapMsgs /\ offset' = offset /\ srcCap' = srcCap
      /\ Rows' = Rows /\ Current' = Current /\ Durable' = Durable
      /\ \A s : First(s)' = First(s) /\ Last(s)' = Last(s)
      /\ \A i : Read(i)' <=> Read(i)
  <2>1. /\ up' = up /\ snapMsgs' = snapMsgs /\ offset' = offset /\ srcCap' = srcCap
        /\ exs' = exs /\ fronts' = fronts /\ snaps' = snaps
    BY <1>1 DEF process, input, store
  <2>2. Rows' = Rows
    BY <2>1 DEF Rows, AllRows
  <2>3. Current' = Current
    BY <2>1 DEF Current, StoreResume, AllRows
  <2>4. Durable' = Durable
    BY <2>1 DEF Durable, StoreResume, AllRows, LoadSnaps
  <2>5. \A s : First(s)' = First(s)
    BY <2>4 DEF First
  <2>6. \A s : Last(s)' = Last(s)
    BY <2>5 DEF Last
  <2>7. \A i : Read(i)' <=> Read(i)
    BY <2>1 DEF Read
  <2>8. QED
    BY <2>1, <2>2, <2>3, <2>4, <2>5, <2>6, <2>7
<1>4. CurrentRows' = CurrentRows /\ \A id : HasRow(id)' <=> HasRow(id)
  BY <1>3 DEF CurrentRows, HasRow
<1>5. Replays'
  BY <1>3, <1>4 DEF Replays
<1>6. \A n \in items : n.item = m.item => n = m
  BY <1>2 DEF EpochsNow, TypeOK, ItemMsgs
<1>7. /\ \A i : InFlight(i)' <=> InFlight(i) /\ i # m.item
      /\ InFlight(m.item)
  BY <1>1, <1>6 DEF InFlight
<1>8. Exact'
  <2>1. \A s : Past(s)' <=> Past(s)
    BY <1>3 DEF Past
  <2>2. \A i : (InFlight(i) /\ ~ InFlight(i)') => KeyOf(i) \in awoken'
    BY <1>1, <1>2, <1>7
  <2>3. awoken \subseteq awoken'
    BY <1>1
  <2>4. ASSUME Running, NEW i \in Items, Read(i)
        PROVE  Skipped(Durable, i) \/ InFlight(i)' \/ KeyOf(i) \in awoken' \/ HasRow(KeyOf(i))
    BY <2>2, <2>3, <2>4 DEF Exact
  <2>5. ASSUME Running, NEW i \in Items, InFlight(i)'
        PROVE  Read(i) /\ ~ Skipped(Durable, i)
    BY <1>7, <2>5 DEF Exact
  <2>6. QED
    BY <1>3, <1>4, <2>1, <2>4, <2>5 DEF Exact, Running
<1>9. CountedOnce'
  <2> SUFFICES ASSUME Running, NEW i \in Items
               PROVE  state'[KeyOf(i)][i] = Once(Read(i) /\ ~ InFlight(i)')
    BY <1>3 DEF CountedOnce, Running
  <2>1. state[KeyOf(i)][i] = Once(Read(i) /\ ~ InFlight(i)) /\ (InFlight(i) => Read(i))
    BY OnceIs DEF CountedOnce, Exact
  <2>2. KeyOf(i) \in Keys /\ state[KeyOf(i)] \in Effects
    BY <1>2, ItemsAre DEF TypeOK
  <2>3. state'[KeyOf(i)] = IF KeyOf(i) = k THEN [state[k] EXCEPT ![m.item] = @ + 1]
                                           ELSE state[KeyOf(i)]
    BY <1>1, <1>2, <2>2 DEF TypeOK
  <2>4. CASE i = m.item
    <3>1. state[KeyOf(i)][i] = 0 /\ Read(i) /\ ~ InFlight(i)'
      BY <1>7, <2>1, <2>4 DEF Once
    <3>2. state'[KeyOf(i)][i] = state[KeyOf(i)][i] + 1
      BY <1>2, <2>2, <2>3, <2>4 DEF Effects
    <3>3. QED
      BY <3>1, <3>2 DEF Once
  <2>5. CASE i # m.item
    <3>1. state'[KeyOf(i)][i] = state[KeyOf(i)][i]
      BY <2>2, <2>3, <2>5 DEF Effects
    <3>2. QED
      BY <1>7, <2>1, <2>5, <3>1 DEF Once
  <2>6. QED
    BY <2>4, <2>5
<1>10. QED
  BY <1>5, <1>8, <1>9, NextOnceIs

(* A closed epoch saves states that count all its items once. *)
LEMMA ExactCloseEpoch ==
  ASSUME IInv, SnapshotKeys, Replays, Exact, ExactlyOnce,
         NEW w \in WorkerIds, CloseEpoch(w)
  PROVE  Replays' /\ Exact' /\ ExactlyOnce'
<1>1. PICK c \in opCap[w] :
        LET K == (awoken \cap MyKeys(w)) \cup
                 (IF IsEof(StepIn) THEN {k \in MyKeys(w) : state[k] # NoEffect} ELSE {})
        IN  /\ IsClosed(StepIn, c)
            /\ snapMsgs' = snapMsgs \cup {KeySnap(k, c) : k \in K}
            /\ awoken' = awoken \ MyKeys(w)
            /\ UNCHANGED <<process, input, items, state, store>>
  BY DEF CloseEpoch
<1> DEFINE K == (awoken \cap MyKeys(w)) \cup
                (IF IsEof(StepIn) THEN {k \in MyKeys(w) : state[k] # NoEffect} ELSE {})
<1>2. /\ up' = up /\ items' = items /\ state' = state /\ offset' = offset /\ srcCap' = srcCap
      /\ Rows' = Rows /\ Current' = Current /\ Durable' = Durable
      /\ \A s : First(s)' = First(s) /\ Last(s)' = Last(s) /\ (Past(s)' <=> Past(s))
      /\ \A i : (Read(i)' <=> Read(i)) /\ (InFlight(i)' <=> InFlight(i))
  BY <1>1 DEF process, input, store, Current, StoreResume, Rows, AllRows, Durable, LoadSnaps,
              First, Last, Past, Read, InFlight
<1>3. \A k \in K : k \in Keys /\ k \notin Srcs /\ Running /\ c = Current /\ items = {}
  BY <1>1, ClosedNow, SrcsAssumption DEF MyKeys
<1>4. awoken \subseteq awoken' \cup K
  BY <1>1
<1>5. snapMsgs' = snapMsgs \cup {KeySnap(k, c) : k \in K}
  BY <1>1
<1> HIDE DEF K
<1>6. \A k : /\ KeySnap(k, c).id = k /\ KeySnap(k, c).epoch = c
             /\ KeySnap(k, c).eff = state[k]
  BY DEF KeySnap
<1>7. /\ \A r \in CurrentRows' : r \in CurrentRows \/ \E k \in K : r = KeySnap(k, c)
      /\ CurrentRows \subseteq CurrentRows'
      /\ \A k \in K : KeySnap(k, c) \in CurrentRows'
  BY <1>2, <1>3, <1>5, <1>6 DEF CurrentRows
<1>8. (\A k \in K : HasRow(k)') /\ \A id : HasRow(id) => HasRow(id)'
  BY <1>6, <1>7 DEF HasRow
<1>9. ASSUME NEW k \in K, NEW i \in Items, KeyOf(i) = k
      PROVE  state[k][i] = Once(i[2] <= Last(i[1]))
  <2>1. Running /\ c = Current /\ ~ InFlight(i)
    BY <1>3 DEF InFlight
  <2>2. i[1] \in Srcs
    BY ItemsAre
  <2>3. \A e \in srcCap[i[1]] : e \in StepIn
    BY <2>2 DEF StepIn, Caps, IInv, TypeOK
  <2>4. Past(i[1])
    BY <1>1, <2>1, <2>3 DEF IsClosed, Past
  <2>5. Read(i) <=> i[2] <= Last(i[1])
    BY <2>1, <2>2, <2>4 DEF Exact, Read
  <2>6. state[k][i] = Once(Read(i))
    BY <1>9, <2>1, OnceIs DEF CountedOnce, Once
  <2>7. QED
    BY <2>5, <2>6 DEF Once
<1>10. Replays'
  <2>1. ASSUME NEW r \in CurrentRows'
        PROVE  /\ r.id \in Srcs => r.pos = Last(r.id)
               /\ \A i \in Items : KeyOf(i) = r.id => r.eff[i] = Once(i[2] <= Last(i[1]))
    <3>1. CASE r \in CurrentRows
      BY <3>1 DEF Replays
    <3>2. CASE \E k \in K : r = KeySnap(k, c)
      BY <1>3, <1>6, <1>9, <3>2
    <3>3. QED
      BY <1>7, <3>1, <3>2
  <2>2. QED
    BY <1>2, <2>1 DEF Replays
<1>11. Exact'
  <2>1. \A id : id \in awoken => id \in awoken' \/ HasRow(id)'
    BY <1>4, <1>8
  <2>2. QED
    BY <1>2, <1>8, <2>1 DEF Exact, Running
<1>12. ExactlyOnce'
  BY <1>2 DEF ExactlyOnce
<1>13. QED
  BY <1>10, <1>11, <1>12

LEMMA ExactWriteSnapshot ==
  ASSUME IInv, SnapshotKeys, Replays, Exact, ExactlyOnce, IInv', SnapshotKeys',
         NEW m \in snapMsgs, WriteSnapshot(m)
  PROVE  Replays' /\ Exact' /\ ExactlyOnce'
<1>1. UNCHANGED <<up, srcCap, offset, items, awoken, state>> /\ snapMsgs' = snapMsgs \ {m}
  BY DEF WriteSnapshot, process, input, step
<1>2. /\ Rows' = {r \in Rows : r.id # m.id \/ r.epoch # m.epoch} \cup {m}
      /\ Durable' = Durable /\ Current' = Current
  BY WriteRows
<1>3. CurrentRows' \subseteq CurrentRows
  BY <1>1, <1>2 DEF CurrentRows
<1>4. \A r \in CurrentRows : r \in CurrentRows' \/ (r.id = m.id /\ m \in CurrentRows')
  BY <1>1, <1>2 DEF CurrentRows
<1>5. \A id : HasRow(id) => HasRow(id)'
  BY <1>4 DEF HasRow
<1>6. QED
  BY <1>1, <1>2, <1>3, <1>5, ExactSame

LEMMA InitExact == Init => ExactInv
<1> SUFFICES ASSUME Init PROVE ExactInv
  OBVIOUS
<1>1. LossInv /\ ~ Running /\ snapMsgs = {} /\ frontMsgs = {} /\ \A p \in Parts : snaps[p] = {}
  BY InitLoss DEF Init, Running
<1>2. OneAtATime
  BY <1>1 DEF Init, OneAtATime, Caps
<1>3. Durable = {} /\ CurrentRows = {}
  BY <1>1 DEF Durable, LoadSnaps, MaxEpochSnaps, CurrentRows, Rows, AllRows
<1>4. ASSUME NEW i \in Items PROVE Effect(Durable, i) = Once(Skipped(Durable, i))
  <2>1. i[2] \in Nat /\ 1 <= i[2]
    BY ItemsAre
  <2>2. LoadedOffset(Durable, i[1]) = 0 /\ LoadedState(Durable, KeyOf(i)) = NoEffect
    BY <1>3, LoadedNothing
  <2>3. QED
    BY <2>1, <2>2 DEF Skipped, Effect, Once, NoEffect
<1>5. QED
  BY <1>1, <1>2, <1>3, <1>4 DEF ExactInv, LossInv, Replays, Exact, ExactlyOnce, Running

(* A batch, as large as the batches of this source are. *)
LEMMA ExactNextBatch ==
  ASSUME Repeatable, IInv, SnapshotKeys, Replays, Exact, ExactlyOnce,
         NEW s \in Srcs, NEW n \in BatchSizes, NEW elapsed \in BOOLEAN,
         NextBatch(s, n, elapsed)
  PROVE  Replays' /\ Exact' /\ ExactlyOnce'
<1>1. PICK e \in srcCap[s] :
        /\ ~ Backpressured(e)
        /\ offset[s] + n <= Len(Input[s])
        /\ offset' = [offset EXCEPT ![s] = offset[s] + n]
        /\ items' = items \cup {[item |-> <<s, i>>, epoch |-> e] :
                                  i \in (offset[s] + 1) .. (offset[s] + n)}
        /\ snapMsgs' = snapMsgs \cup {SourceSnap(s, offset[s] + n, e)}
        /\ srcCap' = [srcCap EXCEPT ![s] = {e + 1}]
        /\ UNCHANGED <<process, step, store>>
  BY DEF NextBatch, Repeatable
<1>2. /\ TypeOK /\ Running /\ e = Current /\ EpochsNow /\ e \in Nat
      /\ n = Batch /\ n \in Nat /\ offset[s] \in Nat
  BY <1>1, PolledNow, EpochsAre, BatchIs, PositionsAre DEF IInv, EpochsNow
<1>3. offset'[s] = Last(s) /\ offset'[s] = offset[s] + n
  <2>1. ~ Past(s)
    BY <1>2 DEF Past, EpochsNow
  <2>2. offset[s] = First(s)
    BY <1>2, <2>1 DEF Exact
  <2>3. QED
    BY <1>1, <1>2, <2>2 DEF Last, TypeOK
<1>4. \A t \in Srcs : t # s => offset'[t] = offset[t]
  BY <1>1, <1>2 DEF TypeOK
<1>5. ASSUME NEW i \in Items
      PROVE  InFlight(i)' <=> InFlight(i) \/ (Read(i)' /\ ~ Read(i))
  <2>1. PICK t \in Srcs : \E j \in 1 .. Len(Input[t]) : i = <<t, j>>
    BY DEF Items
  <2>2. PICK j \in 1 .. Len(Input[t]) : i = <<t, j>>
    BY <2>1
  <2>3. j \in Int /\ i[1] = t /\ i[2] = j
    BY <2>2, InputAssumption
  <2>4. Read(i)' /\ ~ Read(i) <=> t = s /\ j \in (offset[s] + 1) .. (offset[s] + n)
    BY <1>2, <1>3, <1>4, <2>3 DEF Read, TypeOK
  <2>5. InFlight(i)' <=> InFlight(i) \/ \E x \in (offset[s] + 1) .. (offset[s] + n) : i = <<s, x>>
    <3> DEFINE Msg(x) == [item |-> <<s, x>>, epoch |-> e]
    <3>1. \A x : Msg(x).item = <<s, x>>
      OBVIOUS
    <3>2. \A m \in items' : \/ m \in items
                            \/ \E x \in (offset[s] + 1) .. (offset[s] + n) : m = Msg(x)
      BY <1>1
    <3>3. \A x \in (offset[s] + 1) .. (offset[s] + n) : Msg(x) \in items'
      BY <1>1
    <3>4. items \subseteq items'
      BY <1>1
    <3> HIDE DEF Msg
    <3>5. QED
      BY <3>1, <3>2, <3>3, <3>4 DEF InFlight
  <2>6. QED
    BY <2>2, <2>4, <2>5
<1>6. PICK N : N = {e + 1}
  OBVIOUS
<1>7. \A x \in N : e < x
  BY <1>2, <1>6
<1>8. srcCap' = [srcCap EXCEPT ![s] = N] /\ N # {}
  BY <1>1, <1>6
<1>9. snapMsgs' = snapMsgs \cup {SourceSnap(s, offset'[s], e)}
  BY <1>1, <1>3
<1>10. QED
  BY <1>1, <1>3, <1>4, <1>5, <1>7, <1>8, <1>9, ExactPoll

(* At its end a source reads nothing in the epoch. *)
LEMMA ExactSourceEof ==
  ASSUME Repeatable, IInv, SnapshotKeys, Replays, Exact, ExactlyOnce,
         NEW s \in Srcs, SourceEof(s)
  PROVE  Replays' /\ Exact' /\ ExactlyOnce'
<1>1. PICK e \in srcCap[s] :
        /\ ~ Backpressured(e)
        /\ offset[s] = Len(Input[s])
        /\ snapMsgs' = snapMsgs \cup {SourceSnap(s, offset[s], e)}
        /\ srcCap' = [srcCap EXCEPT ![s] = {}]
        /\ UNCHANGED <<process, offset, items, step, store>>
  BY DEF SourceEof
<1>2. Running /\ e = Current /\ EpochsNow /\ Batch \in Nat /\ offset[s] \in Nat
  BY <1>1, PolledNow, EpochsAre, BatchIs, PositionsAre
<1>3. offset'[s] = Last(s)
  <2>1. ~ Past(s)
    BY <1>2 DEF Past, EpochsNow
  <2>2. offset[s] = First(s)
    BY <1>2, <2>1 DEF Exact
  <2>3. QED
    BY <1>1, <1>2, <2>2 DEF Last
<1>4. \A i \in Items : (InFlight(i)' <=> InFlight(i)) /\ (Read(i)' <=> Read(i))
  BY <1>1 DEF InFlight, Read
<1>5. PICK N : N = {}
  OBVIOUS
<1>6. /\ srcCap' = [srcCap EXCEPT ![s] = N] /\ \A x \in N : e < x
      /\ offset'[s] = Len(Input[s]) /\ \A t \in Srcs : t # s => offset'[t] = offset[t]
      /\ snapMsgs' = snapMsgs \cup {SourceSnap(s, offset'[s], e)}
      /\ \A i \in Items : InFlight(i)' <=> InFlight(i) \/ (Read(i)' /\ ~ Read(i))
  BY <1>1, <1>4, <1>5
<1>7. QED
  BY <1>1, <1>3, <1>6, ExactPoll

LEMMA NextExact ==
  ASSUME Repeatable, ExactInv, [Next]_vars
  PROVE  /\ ExactInv'
         /\ \/ Current' = Current /\ Durable' = Durable
            \/ Current' = Current + 1 /\ \A s \in Srcs : First(s)' = Last(s)
<1>1. /\ IInv /\ SnapshotKeys /\ OneAtATime /\ Replays /\ Exact /\ ExactlyOnce
      /\ IInv' /\ SnapshotKeys' /\ OneAtATime' /\ TypeOK
  BY NextInv, NextKeys, NextOneAtATime DEF ExactInv, IInv
<1> SUFFICES /\ Replays' /\ Exact' /\ ExactlyOnce'
             /\ \/ Current' = Current /\ Durable' = Durable
                \/ Current' = Current + 1 /\ \A s \in Srcs : First(s)' = Last(s)
  BY <1>1 DEF ExactInv
<1>2. CASE \E n \in WorkerCounts, d \in Delays : Resume(n, d)
  <2>1. Current' = Current /\ Durable' = Durable
    BY <1>2 DEF Resume, store, Current, StoreResume, Durable, LoadSnaps
  <2>2. QED
    BY <1>1, <1>2, <2>1, ExactResume
<1>3. CASE \E s \in Srcs : \/ \E n \in BatchSizes, elapsed \in BOOLEAN : NextBatch(s, n, elapsed)
                           \/ SourceEof(s)
  <2>1. Current' = Current /\ Durable' = Durable
    BY <1>3 DEF NextBatch, SourceEof, store, Current, StoreResume, Durable, LoadSnaps
  <2>2. QED
    BY <1>1, <1>3, <2>1, ExactNextBatch, ExactSourceEof
<1>4. CASE \/ \E m \in items : OnItem(m)
           \/ \E w \in WorkerIds : CloseEpoch(w)
  <2>1. UNCHANGED store
    BY <1>4 DEF OnItem, CloseEpoch
  <2>2. Current' = Current /\ Durable' = Durable
    BY <2>1 DEF store, Current, StoreResume, Durable, LoadSnaps
  <2>3. QED
    BY <1>1, <1>4, <2>2, ExactOnItem, ExactCloseEpoch
<1>5. CASE \E m \in snapMsgs : WriteSnapshot(m)
  BY <1>1, <1>5, ExactWriteSnapshot, WriteRows
<1>6. CASE Writers
  <2>1. Running /\ Aside /\ (Current' = Current \/ Current' = Current + 1)
    BY <1>1, <1>6, WritersAside, WritersAdvanceByOne
  <2>2. CASE Current' = Current + 1
    BY <1>1, <2>1, <2>2, ExactAdvance
  <2>3. CASE Current' = Current
    <3>1. Rows' = Rows /\ CurrentRows' = CurrentRows /\ \A id : HasRow(id)' <=> HasRow(id)
      BY <2>1, <2>3 DEF Aside, Rows, AllRows, CurrentRows, HasRow
    <3>2. Durable' = Durable
      BY <1>1, <2>3, <3>1, LoadsAre, NextLoadsAre DEF LoadsNow
    <3>3. QED
      BY <1>1, <2>1, <2>3, <3>1, <3>2, ExactSame DEF Aside
  <2>4. QED
    BY <2>1, <2>2, <2>3
<1>7. CASE Running /\ Vanish
  <2>1. Current' = Current /\ Durable' = Durable
    BY <1>7 DEF Vanish, store, Current, StoreResume, Durable, LoadSnaps
  <2>2. QED
    BY <1>1, <1>7, <2>1, ExactVanish
<1>8. CASE UNCHANGED vars
  <2>1. /\ UNCHANGED <<up, srcCap, offset, items, awoken, state>>
        /\ Current' = Current /\ Durable' = Durable /\ CurrentRows' = CurrentRows
    BY <1>8 DEF vars, process, input, step, store, Current, StoreResume, Durable, LoadSnaps,
                CurrentRows, Rows, AllRows
  <2>2. \A id : HasRow(id)' <=> HasRow(id)
    BY <2>1 DEF HasRow
  <2>3. QED
    BY <1>1, <2>1, <2>2, ExactSame
<1>9. QED
  BY <1>2, <1>3, <1>4, <1>5, <1>6, <1>7, <1>8, StepKinds

-----------------------------------------------------------------------------
(* If every batch is an epoch of its own and a replayed epoch reads what    *)
(* the crashed one read, then every item is folded into its key's state     *)
(* once, across all crashes, resumes and changes of the cluster's size.     *)
THEOREM ExactlyOnceHolds == Repeatable => (Spec => []ExactlyOnce)
<1> SUFFICES ASSUME Repeatable PROVE Spec => []ExactlyOnce
  OBVIOUS
<1>1. Init => ExactInv
  BY InitExact
<1>2. ExactInv /\ [Next]_vars => ExactInv'
  BY NextExact
<1>3. ExactInv => ExactlyOnce
  BY DEF ExactInv
<1>4. QED
  BY <1>1, <1>2, <1>3, PTL DEF Spec

(* What RecoveryPoint calls its epoch, its items read and their effect. *)
ReadItems == UNION {{i \in Items : Skipped(rows, i)} : rows \in {Durable}}
ItemEffects == UNION {{<<i, Effect(rows, i)>> : i \in Items} : rows \in {Durable}}

LEMMA PointReads == /\ ReadItems = {i \in Items : Skipped(Durable, i)}
                    /\ ItemEffects = {<<i, Effect(Durable, i)>> : i \in Items}
BY DEF ReadItems, ItemEffects

LEMMA PointNextReads ==
  /\ ReadItems' = {i \in Items : Skipped(Durable', i)}
  /\ ItemEffects' = {<<i, Effect(Durable', i)>> : i \in Items}
BY DEF ReadItems, ItemEffects

LEMMA PointInit == Init => Point!Init
<1> SUFFICES ASSUME Init PROVE Point!Init
  OBVIOUS
<1>1. /\ \A p \in Parts : exs[p] = {} /\ fronts[p] = {} /\ snaps[p] = {}
  BY DEF Init
<1>2. StoreResume.epoch = 1
  BY <1>1 DEF StoreResume, AllRows, ResumeFrom
<1>3. Durable = {}
  BY <1>1 DEF Durable, LoadSnaps, MaxEpochSnaps
<1>4. \A i \in Items : ~ Skipped(Durable, i) /\ Effect(Durable, i) = 0
  <2> SUFFICES ASSUME NEW i \in Items PROVE ~ Skipped(Durable, i) /\ Effect(Durable, i) = 0
    OBVIOUS
  <2>1. i[2] \in Nat /\ 1 <= i[2]
    BY ItemsAre
  <2>2. LoadedOffset(Durable, i[1]) = 0 /\ LoadedState(Durable, KeyOf(i)) = NoEffect
    BY <1>3, LoadedNothing
  <2>3. QED
    BY <2>1, <2>2 DEF Skipped, Effect, NoEffect
<1>5. ReadItems = {} /\ ItemEffects = {<<i, 0>> : i \in Items}
  BY <1>4, PointReads
<1>6. QED
  BY <1>2, <1>5 DEF Point!Init, ReadItems, ItemEffects

LEMMA PointNext ==
  ASSUME Repeatable, ExactInv, [Next]_vars
  PROVE  [Point!Advance]_<<StoreResume.epoch, ReadItems, ItemEffects>>
<1>1. CASE Current' = Current /\ Durable' = Durable
  <2>1. ReadItems' = ReadItems /\ ItemEffects' = ItemEffects
    BY <1>1 DEF ReadItems, ItemEffects
  <2>2. QED
    BY <1>1, <2>1 DEF Current
<1>2. CASE Current' = Current + 1 /\ \A s \in Srcs : First(s)' = Last(s)
  <2>1. IInv /\ SnapshotKeys /\ Replays'
    BY NextExact DEF ExactInv
  <2>2. ASSUME NEW i \in Items, Skipped(Durable, i) PROVE Skipped(Durable', i)
    <3>1. i[1] \in Srcs /\ i[2] \in Nat
      BY ItemsAre
    <3>2. First(i[1]) \in Nat /\ Last(i[1]) \in Nat /\ First(i[1]) <= Last(i[1])
      BY <2>1, <3>1, PositionsAre
    <3>3. i[2] <= First(i[1])
      BY <2>2 DEF Skipped, First
    <3>4. LoadedOffset(Durable', i[1]) = Last(i[1])
      BY <1>2, <3>1 DEF First
    <3>5. QED
      BY <3>1, <3>2, <3>3, <3>4 DEF Skipped
  <2>3. \A i \in Items : Effect(Durable', i) = IF i \in ReadItems' THEN 1 ELSE 0
    BY <2>1, PointNextReads DEF Replays, Once
  <2>4. ItemEffects' = {<<i, IF i \in ReadItems' THEN 1 ELSE 0>> : i \in Items}
    BY <2>3, PointNextReads
  <2>5. ReadItems \subseteq ReadItems' /\ ReadItems' \subseteq Items
    BY <2>2, PointReads, PointNextReads
  <2>6. QED
    BY <1>2, <2>4, <2>5 DEF Point!Advance, Current, ReadItems, ItemEffects
<1>3. QED
  BY <1>1, <1>2, NextExact

(* Under the same condition the store is, for whoever resumes from it, one  *)
(* indivisible point that moves on epoch by epoch, gives no item back and   *)
(* counts each of its items once: each step of the cluster is a step of     *)
(* RecoveryPoint or changes nothing that it sees.                           *)
THEOREM ImplementsRecoveryPointHolds == Repeatable => (Spec => ImplementsRecoveryPoint)
<1> SUFFICES ASSUME Repeatable PROVE Spec => ImplementsRecoveryPoint
  OBVIOUS
<1>1. Init => ExactInv /\ Point!Init
  BY InitExact, PointInit
<1>2. ExactInv /\ [Next]_vars => ExactInv'
  BY NextExact
<1>3. ExactInv /\ [Next]_vars => [Point!Advance]_<<StoreResume.epoch, ReadItems, ItemEffects>>
  BY PointNext
<1>4. QED
  BY <1>1, <1>2, <1>3, PTL DEF Spec, ImplementsRecoveryPoint, Point!Spec, ReadItems, ItemEffects
=============================================================================
