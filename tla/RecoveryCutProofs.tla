-------------------------- MODULE RecoveryCutProofs --------------------------
(***************************************************************************)
(* Proofs about what the recovery store's snapshots say of the items: a    *)
(* resume finds input positions and step states that lose nothing.         *)
(***************************************************************************)
EXTENDS RecoveryClusterProofs

-----------------------------------------------------------------------------
(* The newest rows, and what is loaded from them. *)

(* What a resume loads for an id comes from its row, if it has just one.    *)
LEMMA LoadedFrom ==
  ASSUME NEW R, NEW r \in R, \A q \in R : q.id = r.id => q = r
  PROVE  LoadedOffset(R, r.id) = r.pos /\ LoadedState(R, r.id) = r.eff
<1>1. (CHOOSE q \in R : q.id = r.id) = r
  OBVIOUS
<1>2. QED
  BY <1>1 DEF LoadedOffset, LoadedState

LEMMA LoadedNothing ==
  ASSUME NEW R, NEW id, \A q \in R : q.id # id
  PROVE  LoadedOffset(R, id) = 0 /\ LoadedState(R, id) = NoEffect
BY DEF LoadedOffset, LoadedState

(* Two sets with the same rows of an id, one at most, load the same.        *)
LEMMA LoadedSame ==
  ASSUME NEW R, NEW S, NEW id,
         \A r \in R : r.id = id => r \in S,
         \A r \in S : r.id = id => r \in R,
         \A q, r \in R : q.id = id /\ r.id = id => q = r
  PROVE  LoadedOffset(R, id) = LoadedOffset(S, id) /\ LoadedState(R, id) = LoadedState(S, id)
<1>1. CASE \E r \in R : r.id = id
  <2>1. PICK r \in R : r.id = id
    BY <1>1
  <2>2. \A q \in R : q.id = r.id => q = r
    BY <2>1
  <2>3. r \in S /\ \A q \in S : q.id = r.id => q = r
    BY <2>1, <2>2
  <2>4. LoadedOffset(R, r.id) = r.pos /\ LoadedState(R, r.id) = r.eff
    BY <2>2, LoadedFrom
  <2>5. LoadedOffset(S, r.id) = r.pos /\ LoadedState(S, r.id) = r.eff
    BY <2>3, LoadedFrom
  <2>6. QED
    BY <2>1, <2>4, <2>5
<1>2. CASE ~ \E r \in R : r.id = id
  <2>1. \A r \in S : r.id # id
    BY <1>2
  <2>2. QED
    BY <1>2, <2>1, LoadedNothing
<1>3. QED
  BY <1>1, <1>2

(* Rows with a primary key. *)
Keyed(R) == R \subseteq SnapRows /\ \A q, r \in R : q.id = r.id /\ q.epoch = r.epoch => q = r

(* The newest row of an id is one row. *)
LEMMA NewestUnique ==
  ASSUME NEW R, Keyed(R)
  PROVE  /\ \A q, r \in Newest(R) : q.id = r.id => q = r
         /\ \A e : \A q, r \in MaxEpochSnaps(R, e) : q.id = r.id => q = r
<1>1. \A r \in R : r.epoch \in Nat
  BY DEF Keyed, SnapRows
<1>2. ASSUME NEW q \in Newest(R), NEW r \in Newest(R), q.id = r.id PROVE q = r
  <2>1. q \in R /\ r \in R /\ q.epoch <= r.epoch /\ r.epoch <= q.epoch
    BY <1>2 DEF Newest
  <2>2. QED
    BY <1>1, <1>2, <2>1 DEF Keyed
<1>3. ASSUME NEW e, NEW q \in MaxEpochSnaps(R, e), NEW r \in MaxEpochSnaps(R, e), q.id = r.id
      PROVE  q = r
  <2>1. q \in R /\ r \in R /\ q.epoch <= r.epoch /\ r.epoch <= q.epoch
    BY <1>3 DEF MaxEpochSnaps
  <2>2. QED
    BY <1>1, <1>3, <2>1 DEF Keyed
<1>4. QED
  BY <1>2, <1>3

(* Sets that agree on the rows of an id have the same newest row of it. *)
LEMMA NewestSame ==
  ASSUME NEW R, NEW S, NEW id, Keyed(R),
         \A r \in R : r.id = id => r \in S,
         \A r \in S : r.id = id => r \in R
  PROVE  /\ LoadedOffset(Newest(R), id) = LoadedOffset(Newest(S), id)
         /\ LoadedState(Newest(R), id) = LoadedState(Newest(S), id)
<1>1. \A r \in Newest(R) : r.id = id => r \in Newest(S)
  BY DEF Newest
<1>2. \A r \in Newest(S) : r.id = id => r \in Newest(R)
  BY DEF Newest
<1>3. \A q, r \in Newest(R) : q.id = id /\ r.id = id => q = r
  BY NewestUnique
<1>4. QED
  BY <1>1, <1>2, <1>3, LoadedSame

(* A row that no other row of its id is newer than is what is loaded. *)
LEMMA NewestIs ==
  ASSUME NEW R, Keyed(R), NEW r \in R, \A q \in R : q.id = r.id => q.epoch <= r.epoch
  PROVE  LoadedOffset(Newest(R), r.id) = r.pos /\ LoadedState(Newest(R), r.id) = r.eff
<1>1. r \in Newest(R)
  BY DEF Newest
<1>2. \A q \in Newest(R) : q.id = r.id => q = r
  BY <1>1, NewestUnique
<1>3. QED
  BY <1>1, <1>2, LoadedFrom

(* Once the resume epoch has moved past all rows, the newest ones count. *)
LEMMA AllBefore ==
  ASSUME NEW R, NEW e \in Nat, \A r \in R : r.epoch < e
  PROVE  MaxEpochSnaps(R, e) = Newest(R)
BY DEF MaxEpochSnaps, Newest

(* With a row for each (id, epoch) in one partition only, the partitions    *)
(* together load what a single database would.                              *)
LEMMA LoadsMerged ==
  ASSUME TypeOK, SnapshotKeys
  PROVE  /\ Keyed(Rows)
         /\ \A e : LoadSnaps(e) = MaxEpochSnaps(Rows, e)
<1>1. \A p, q \in Parts : \A r \in snaps[p], t \in snaps[q] : r.id = t.id => p = q
  BY DEF SnapshotKeys
<1>2. Rows \subseteq SnapRows
  BY DEF TypeOK, Rows, AllRows
<1>3. Keyed(Rows)
  <2> SUFFICES ASSUME NEW r \in Rows, NEW t \in Rows, r.id = t.id, r.epoch = t.epoch
               PROVE  r = t
    BY <1>2 DEF Keyed
  <2>1. PICK p \in Parts : r \in snaps[p]
    BY DEF Rows, AllRows
  <2>2. PICK q \in Parts : t \in snaps[q]
    BY DEF Rows, AllRows
  <2>3. p = q
    BY <1>1, <2>1, <2>2
  <2>4. QED
    BY <2>1, <2>2, <2>3 DEF SnapshotKeys
<1>4. ASSUME NEW e PROVE LoadSnaps(e) = MaxEpochSnaps(Rows, e)
  <2>1. ASSUME NEW r \in LoadSnaps(e) PROVE r \in MaxEpochSnaps(Rows, e)
    <3>1. PICK p \in Parts : r \in MaxEpochSnaps(snaps[p], e)
      BY DEF LoadSnaps
    <3>2. r \in snaps[p] /\ r \in Rows /\ r.epoch < e
      BY <3>1 DEF MaxEpochSnaps, Rows, AllRows
    <3>3. \A t \in Rows : t.id = r.id => t \in snaps[p]
      BY <1>1, <3>2 DEF Rows, AllRows
    <3>4. QED
      BY <3>1, <3>2, <3>3 DEF MaxEpochSnaps
  <2>2. ASSUME NEW r \in MaxEpochSnaps(Rows, e) PROVE r \in LoadSnaps(e)
    <3>1. PICK p \in Parts : r \in snaps[p]
      BY DEF MaxEpochSnaps, Rows, AllRows
    <3>2. snaps[p] \subseteq Rows
      BY DEF Rows, AllRows
    <3>3. r \in MaxEpochSnaps(snaps[p], e)
      BY <3>1, <3>2 DEF MaxEpochSnaps
    <3>4. QED
      BY <3>3 DEF LoadSnaps
  <2>3. QED
    BY <2>1, <2>2
<1>5. QED
  BY <1>3, <1>4

(* The committer's DELETE, as its subquery has it, leaves every row. *)
LEMMA GcKeeps ==
  ASSUME NEW S, S \subseteq SnapRows, NEW c \in Nat
  PROVE  GcDelete(S, c) = S
<1>1. \A r \in S : r.epoch \in Nat
  BY DEF SnapRows
<1>2. CASE \E r \in S : r.epoch < c
  <2> DEFINE N == {r.epoch : r \in {r \in S : r.epoch < c}}
  <2>1. N \subseteq Nat /\ N # {} /\ \A y \in N : y <= c
    BY <1>1, <1>2
  <2>2. Max(N) \in N /\ \A y \in N : y <= Max(N)
    BY <2>1, MaxIsGreatest
  <2>3. PICK q \in S : q.epoch < c /\ q.epoch = Max(N)
    BY <2>2
  <2>4. \A t \in S : t.epoch < c => t.epoch <= q.epoch
    BY <2>2, <2>3
  <2>5. q \in MaxEpochSnaps(S, c)
    BY <2>3, <2>4 DEF MaxEpochSnaps
  <2>6. QED
    BY <2>3, <2>5 DEF GcDelete
<1>3. CASE ~ \E r \in S : r.epoch < c
  BY <1>3 DEF GcDelete
<1>4. QED
  BY <1>2, <1>3

-----------------------------------------------------------------------------
(* Where the running dataflow is, seen from the store. *)

EpochsNow ==
  /\ Current \in Nat
  /\ \A m \in snapMsgs : m.epoch = Current
  /\ \A m \in items : m.epoch = Current
  /\ \A e \in SnapIn : e \in Nat /\ Current <= e
  /\ \A r \in Rows : r.epoch \in Nat /\ r.epoch <= Current
  /\ Running => \A e \in Nat : AllReported(e) <=> e <= Current

(* All items and snapshots under way are of the epoch that a resume would   *)
(* replay, no capability is behind it and no row is ahead of it.            *)
LEMMA EpochsAre == IInv => EpochsNow
<1> SUFFICES ASSUME IInv PROVE EpochsNow
  OBVIOUS
<1>1. TypeOK /\ EpochsTyped /\ Current \in Nat
  BY FrontiersTyped, ResumeIsTyped DEF IInv, Current, ResumeTyped
<1>2. \A e \in SnapIn : e \in Nat /\ Current <= e
  BY <1>1, NothingBehind DEF FrontierAfterSnapshots, Current, EpochsTyped
<1>3. \A r \in Rows : r.epoch \in Nat /\ r.epoch <= Current
  BY <1>1 DEF IInv, OneEpochAhead, Current, Rows, AllRows, TypeOK, SnapRows
<1>4. Running => \A e \in Nat : AllReported(e) <=> e <= Current
  BY ResumeIsReported DEF IInv, ResumeReported, Current
<1>5. ASSUME Running
      PROVE  /\ \A m \in snapMsgs : m.epoch = Current
             /\ \A m \in items : m.epoch = Current
  <2>1. \A m \in snapMsgs : m.epoch \in SnapIn
    BY DEF SnapIn, Epochs
  <2>2. \A m \in items : m.epoch \in SnapIn
    BY DEF SnapIn, StepIn, Epochs
  <2>3. (\A m \in snapMsgs : AllReported(m.epoch)) /\ (\A m \in items : AllReported(m.epoch))
    BY DEF IInv, Ahead
  <2>4. QED
    BY <1>1, <1>2, <1>4, <1>5, <2>1, <2>2, <2>3
<1>6. ASSUME ~ Running PROVE snapMsgs = {} /\ items = {}
  BY <1>1, <1>6 DEF IInv, Quiet, Running, TypeOK
<1>7. QED
  BY <1>1, <1>2, <1>3, <1>4, <1>5, <1>6 DEF EpochsNow

LEMMA NextEpochsAre == IInv' => EpochsNow'
BY EpochsAre, PTL

(* A polled source is in the current epoch, and has nothing under way. *)
LEMMA PolledNow ==
  ASSUME IInv, SnapshotKeys, NEW s \in Srcs, NEW e \in srcCap[s], ~ Backpressured(e)
  PROVE  Running /\ e = Current /\ \A m \in snapMsgs : m.id # s
<1>1. Running /\ e \in Nat /\ e \in StepIn /\ AllReported(e)
  BY UnblockedReported
<1>2. EpochsNow
  BY EpochsAre
<1>3. e \in SnapIn
  BY <1>1 DEF SnapIn
<1>4. e = Current
  BY <1>1, <1>2, <1>3 DEF EpochsNow
<1>5. \A m \in snapMsgs : m.id = s => m.epoch < e /\ m.epoch = Current
  BY <1>2 DEF SnapshotKeys, EpochsNow
<1>6. QED
  BY <1>1, <1>2, <1>4, <1>5 DEF EpochsNow

(* A worker that has something to save when it closes an epoch closes the   *)
(* current one, after all items; its keys have no snapshot under way.       *)
LEMMA ClosedNow ==
  ASSUME IInv, SnapshotKeys, NEW w \in WorkerIds, NEW c \in opCap[w], IsClosed(StepIn, c),
         NEW k \in Keys, WorkerOf(k) = w, k \in awoken \/ IsEof(StepIn)
  PROVE  Running /\ c = Current /\ items = {} /\ \A m \in snapMsgs : m.id # k
<1>1. TypeOK /\ EpochsNow
  BY EpochsAre DEF IInv
<1>2. c \in Caps(opCap) /\ c \in SnapIn /\ c \in Nat
  BY <1>1 DEF Caps, SnapIn, TypeOK
<1>3. Running
  BY <1>1, <1>2 DEF IInv, Quiet, Running, TypeOK
<1>4. c <= Current
  <2>1. CASE k \in awoken
    <3>1. PICK d \in opCap[w] : d <= Current
      BY <2>1 DEF SnapshotKeys
    <3>2. d = c
      BY DEF IInv, Capabilities
    <3>3. QED
      BY <3>1, <3>2
  <2>2. CASE IsEof(StepIn)
    <3>1. Caps(srcCap) = {}
      BY <2>2 DEF IsEof, StepIn
    <3>2. AllReported(c)
      BY <1>2, <3>1 DEF IInv, Ahead, Reachable
    <3>3. QED
      BY <1>1, <1>2, <1>3, <3>2 DEF EpochsNow
  <2>3. QED
    BY <2>1, <2>2
<1>5. c = Current
  BY <1>1, <1>2, <1>4 DEF EpochsNow
<1>6. items = {}
  <2>1. \A m \in items : m.epoch \in StepIn /\ m.epoch = Current
    BY <1>1 DEF StepIn, Epochs, EpochsNow
  <2>2. QED
    BY <1>1, <1>5, <2>1 DEF IsClosed, EpochsNow
<1>7. \A m \in snapMsgs : m.id = k => m.epoch < c /\ m.epoch = Current
  BY <1>1 DEF SnapshotKeys, EpochsNow
<1>8. QED
  BY <1>1, <1>3, <1>5, <1>6, <1>7 DEF EpochsNow

-----------------------------------------------------------------------------
(* The primary keys of the snapshots are preserved. *)

(* A key is routed to a worker of the cluster. *)
LEMMA KeyHasWorker ==
  ASSUME TypeOK, Running, NEW k \in Keys
  PROVE  WorkerOf(k) \in WorkerIds
<1>1. workers \in WorkerCounts /\ workers \in Nat \ {0}
  BY ClusterAssumption DEF TypeOK, Running
<1>2. KeyHash[k] \in Nat
  BY HashAssumption
<1>3. KeyHash[k] % workers \in 0 .. (workers - 1)
  BY <1>1, <1>2
<1>4. QED
  BY <1>1, <1>3 DEF WorkerOf, WorkerIds

(* A step that leaves the snapshots and the capabilities alone may let the  *)
(* resume epoch move on.                                                    *)
LEMMA KeysFrame ==
  ASSUME TypeOK, SnapshotKeys, Running, Current \in Nat, Current' \in Nat,
         Current <= Current',
         UNCHANGED <<workers, srcCap, opCap, awoken, snapMsgs>>,
         \A p \in Parts : snaps'[p] = snaps[p]
  PROVE  SnapshotKeys'
<1>1. ASSUME NEW k \in awoken PROVE \E c \in opCap[WorkerOf(k)] : c <= Current'
  <2>1. PICK c \in opCap[WorkerOf(k)] : c <= Current
    BY DEF SnapshotKeys
  <2>2. WorkerOf(k) \in WorkerIds
    BY KeyHasWorker DEF TypeOK
  <2>3. c \in Nat
    BY <2>1, <2>2 DEF TypeOK
  <2>4. QED
    BY <2>1, <2>3
<1>2. QED
  BY <1>1 DEF SnapshotKeys, WorkerOf

(* Nor does it matter when nothing is under way. *)
LEMMA KeysQuiet ==
  ASSUME SnapshotKeys, snaps' = snaps, snapMsgs' = {}, awoken' = {}
  PROVE  SnapshotKeys'
BY DEF SnapshotKeys

(* A source adds a snapshot of the epoch it leaves. *)
LEMMA KeysSource ==
  ASSUME IInv, SnapshotKeys, NEW s \in Srcs, NEW e \in srcCap[s], ~ Backpressured(e),
         NEW pos,
         \/ UNCHANGED <<srcCap, snapMsgs>>
         \/ /\ snapMsgs' = snapMsgs \cup {SourceSnap(s, pos, e)}
            /\ \E N \in {{e + 1}, {}} : srcCap' = [srcCap EXCEPT ![s] = N],
         UNCHANGED <<process, step, store>>
  PROVE  SnapshotKeys'
<1>1. /\ workers' = workers /\ opCap' = opCap /\ awoken' = awoken /\ snaps' = snaps
      /\ Current' = Current /\ \A k : WorkerOf(k)' = WorkerOf(k)
  BY DEF process, step, store, Current, StoreResume, WorkerOf
<1>2. e = Current /\ e \in Nat /\ s \notin Keys /\ \A m \in snapMsgs : m.id # s
  BY PolledNow, EpochsAre, SrcsAssumption DEF EpochsNow
<1>3. CASE UNCHANGED <<srcCap, snapMsgs>>
  BY <1>1, <1>3 DEF SnapshotKeys
<1>4. CASE /\ snapMsgs' = snapMsgs \cup {SourceSnap(s, pos, e)}
           /\ \E N \in {{e + 1}, {}} : srcCap' = [srcCap EXCEPT ![s] = N]
  <2> DEFINE q == SourceSnap(s, pos, e)
  <2>1. q.id = s /\ q.epoch = e
    BY DEF SourceSnap
  <2>2. \A x \in srcCap'[s] : e < x
    BY <1>2, <1>4 DEF IInv, TypeOK
  <2>3. \A t \in Srcs : t # s => srcCap'[t] = srcCap[t]
    BY <1>4
  <2>4. \A m, n \in snapMsgs' : m.id = n.id => m = n
    BY <1>2, <1>4, <2>1 DEF SnapshotKeys
  <2>5. ASSUME NEW m \in snapMsgs'
        PROVE  /\ m.id \in Srcs => \A x \in srcCap'[m.id] : m.epoch < x
               /\ m.id \in Keys => \A c \in opCap[WorkerOf(m.id)] : m.epoch < c
    <3>1. CASE m \in snapMsgs
      BY <1>2, <2>3, <3>1 DEF SnapshotKeys
    <3>2. CASE m = q
      BY <1>2, <2>1, <2>2, <3>2
    <3>3. QED
      BY <1>4, <3>1, <3>2
  <2>6. QED
    BY <1>1, <2>4, <2>5 DEF SnapshotKeys
<1>5. QED
  BY <1>3, <1>4

LEMMA KeysOnItem ==
  ASSUME IInv, SnapshotKeys, NEW m \in items, OnItem(m)
  PROVE  SnapshotKeys'
<1> DEFINE k == Input[m.item[1]][m.item[2]]
<1>1. /\ opCap[WorkerOf(k)] = {m.epoch}
      /\ awoken' = awoken \cup {k}
      /\ UNCHANGED <<process, input, opCap, snapMsgs, store>>
  BY DEF OnItem
<1>2. /\ opCap' = opCap /\ snaps' = snaps /\ snapMsgs' = snapMsgs /\ srcCap' = srcCap
      /\ Current' = Current /\ \A x : WorkerOf(x)' = WorkerOf(x)
  BY <1>1 DEF process, input, store, Current, StoreResume, WorkerOf
<1>3. m.epoch = Current /\ Current \in Nat
  BY EpochsAre DEF EpochsNow
<1>4. \A x \in awoken' : \E c \in opCap[WorkerOf(x)] : c <= Current
  BY <1>1, <1>3 DEF SnapshotKeys
<1>5. QED
  BY <1>2, <1>4 DEF SnapshotKeys

(* A closed epoch adds a snapshot of a key only if there is none under way. *)
LEMMA KeysCloseEpoch ==
  ASSUME IInv, SnapshotKeys, NEW w \in WorkerIds, CloseEpoch(w)
  PROVE  SnapshotKeys'
<1>1. PICK c \in opCap[w] :
        LET K == (awoken \cap MyKeys(w)) \cup
                 (IF IsEof(StepIn) THEN {k \in MyKeys(w) : state[k] # NoEffect} ELSE {})
        IN  /\ IsClosed(StepIn, c)
            /\ snapMsgs' = snapMsgs \cup {KeySnap(k, c) : k \in K}
            /\ awoken' = awoken \ MyKeys(w)
            /\ opCap' = [opCap EXCEPT ![w] = Simplify(StepIn)]
            /\ UNCHANGED <<process, input, store>>
  BY DEF CloseEpoch
<1> DEFINE K == (awoken \cap MyKeys(w)) \cup
                (IF IsEof(StepIn) THEN {k \in MyKeys(w) : state[k] # NoEffect} ELSE {})
<1>2. /\ snaps' = snaps /\ srcCap' = srcCap
      /\ Current' = Current /\ \A x : WorkerOf(x)' = WorkerOf(x)
  BY <1>1 DEF process, input, store, Current, StoreResume, WorkerOf
<1>3. \A k \in K : /\ k \in Keys /\ k \notin Srcs /\ WorkerOf(k) = w
                   /\ Running /\ c = Current /\ \A m \in snapMsgs : m.id # k
  BY <1>1, ClosedNow, SrcsAssumption DEF MyKeys
<1>4. \A k : KeySnap(k, c).id = k /\ KeySnap(k, c).epoch = c
  BY DEF KeySnap
<1>5. /\ c \in Nat /\ Current \in Nat /\ StepIn \subseteq Nat
      /\ \A m \in snapMsgs : m.epoch = Current
      /\ \A x \in opCap[w] : x = c
      /\ opCap'[w] = Simplify(StepIn)
  <2>1. TypeOK /\ EpochsTyped /\ EpochsNow
    BY EpochsAre, FrontiersTyped DEF IInv
  <2>2. c \in Nat /\ opCap'[w] = Simplify(StepIn)
    BY <1>1, <2>1 DEF TypeOK
  <2>3. QED
    BY <2>1, <2>2 DEF EpochsNow, EpochsTyped, IInv, Capabilities
<1>6. \A x \in opCap'[w] : c < x /\ x \in Nat
  BY <1>1, <1>5 DEF IsClosed, Simplify
<1>7. \A m, n \in snapMsgs' : m.id = n.id => m = n
  BY <1>1, <1>3, <1>4 DEF SnapshotKeys
<1>8. ASSUME NEW m \in snapMsgs'
      PROVE  /\ m.id \in Srcs => \A x \in srcCap[m.id] : m.epoch < x
             /\ m.id \in Keys => \A x \in opCap'[WorkerOf(m.id)] : m.epoch < x
  <2>1. CASE m \in snapMsgs
    <3>1. ASSUME m.id \in Keys, NEW x \in opCap'[WorkerOf(m.id)] PROVE m.epoch < x
      <4>1. m.epoch = Current /\ \A y \in opCap[WorkerOf(m.id)] : m.epoch < y
        BY <1>5, <2>1, <3>1 DEF SnapshotKeys
      <4>2. CASE WorkerOf(m.id) = w
        <5>1. m.epoch < c
          BY <4>1, <4>2
        <5>2. c < x /\ x \in Nat
          BY <1>6, <3>1, <4>2
        <5>3. QED
          BY <1>5, <4>1, <5>1, <5>2
      <4>3. CASE WorkerOf(m.id) # w
        <5>1. x \in opCap[WorkerOf(m.id)]
          BY <1>1, <3>1, <4>3 DEF IInv, TypeOK
        <5>2. QED
          BY <4>1, <5>1
      <4>4. QED
        BY <4>2, <4>3
    <3>2. QED
      BY <2>1, <3>1 DEF SnapshotKeys
  <2>2. CASE \E k \in K : m = KeySnap(k, c)
    BY <1>3, <1>4, <1>6, <2>2
  <2>3. QED
    BY <1>1, <2>1, <2>2
<1>9. ASSUME NEW k \in awoken' PROVE \E x \in opCap'[WorkerOf(k)] : x <= Current
  <2>1. k \in awoken /\ k \in Keys /\ WorkerOf(k) # w
    BY <1>1 DEF MyKeys, IInv, TypeOK
  <2>2. PICK x \in opCap[WorkerOf(k)] : x <= Current
    BY <2>1 DEF SnapshotKeys
  <2>3. x \in opCap'[WorkerOf(k)]
    BY <1>1, <2>1 DEF IInv, TypeOK
  <2>4. QED
    BY <2>2, <2>3
<1>10. QED
  BY <1>2, <1>7, <1>8, <1>9 DEF SnapshotKeys

(* A snapshot replaces the one with its key. *)
LEMMA KeysWriteSnapshot ==
  ASSUME IInv, SnapshotKeys, NEW m \in snapMsgs, WriteSnapshot(m)
  PROVE  SnapshotKeys'
<1>1. /\ snaps' = [snaps EXCEPT ![SnapPart[m.id]] = UpsertSnap(@, m)]
      /\ snapMsgs' = snapMsgs \ {m}
      /\ srcCap' = srcCap /\ opCap' = opCap /\ awoken' = awoken
      /\ Current' = Current /\ \A x : WorkerOf(x)' = WorkerOf(x)
  BY DEF WriteSnapshot, process, input, step, Current, StoreResume, WorkerOf
<1>2. \A p \in Parts :
        snaps'[p] = IF p = SnapPart[m.id] THEN UpsertSnap(snaps[p], m) ELSE snaps[p]
  BY <1>1 DEF IInv, TypeOK
<1>3. \A p \in Parts : \A r \in snaps'[p] :
        \/ r = m /\ p = SnapPart[m.id]
        \/ r \in snaps[p] /\ (p = SnapPart[m.id] => r.id # m.id \/ r.epoch # m.epoch)
  BY <1>2 DEF UpsertSnap
<1>4. QED
  BY <1>1, <1>3 DEF SnapshotKeys

(* The writers downstream of the snapshots touch nothing of the input and   *)
(* the step; they can only let the resume epoch move on.                    *)
Aside ==
  /\ UNCHANGED <<up, workers, srcCap, offset, items, opCap, state, awoken, snapMsgs>>
  /\ \A p \in Parts : snaps'[p] = snaps[p]
Writers ==
  \/ WriteExecution
  \/ \E w \in WorkerIds : EmitFrontier(w)
  \/ \E m \in frontMsgs : WriteFrontier(m)
  \/ \E p \in Parts : Commit(p)

LEMMA WritersAside ==
  ASSUME IInv, Writers
  PROVE  Running /\ IInv' /\ Aside /\ Current <= Current'
<1>1. TypeOK /\ Current \in Nat
  BY EpochsAre DEF IInv, EpochsNow
<1>2. CASE WriteExecution
  <2>1. Running
    BY <1>1, <1>2 DEF WriteExecution, IInv, Quiet, Running, TypeOK
  <2>2. Aside
    BY <1>2 DEF WriteExecution, Aside, process, input, step
  <2>3. QED
    BY <1>2, <2>1, <2>2, InvWriteExecution DEF Current
<1>3. CASE \E w \in WorkerIds : EmitFrontier(w)
  <2>1. PICK w \in WorkerIds : EmitFrontier(w)
    BY <1>3
  <2>2. Running
    BY <1>1, <2>1 DEF EmitFrontier, Caps, IInv, Quiet, Running, TypeOK
  <2>3. Aside /\ Current' = Current
    BY <2>1 DEF EmitFrontier, Aside, process, input, step, store, Current, StoreResume
  <2>4. QED
    BY <1>1, <2>1, <2>2, <2>3, InvEmitFrontier
<1>4. CASE \E m \in frontMsgs : WriteFrontier(m)
  <2>1. PICK m \in frontMsgs : WriteFrontier(m)
    BY <1>4
  <2>2. Running
    BY <1>1, <2>1 DEF IInv, Quiet, Running, TypeOK
  <2>3. Aside
    BY <2>1 DEF WriteFrontier, Aside, process, input, step
  <2>4. QED
    BY <2>1, <2>2, <2>3, InvWriteFrontier DEF Current
<1>5. CASE \E p \in Parts : Commit(p)
  <2>1. PICK p \in Parts : Commit(p)
    BY <1>5
  <2>2. PICK e \in Simplify(ticks[p]) :
          IF CheckedSub(e, delay) = {}
            THEN UNCHANGED <<commits, snaps>>
            ELSE \E c \in CheckedSub(e, delay) : snaps' = [snaps EXCEPT ![p] = GcDelete(@, c)]
    BY <2>1 DEF Commit
  <2>3. e \in ticks[p] /\ e \in Nat /\ delay \in Nat
    BY <1>1, <2>2 DEF Simplify, TypeOK
  <2>4. Running
    BY <1>1, <2>3 DEF Caps, IInv, Quiet, Running, TypeOK
  <2>5. \A c \in CheckedSub(e, delay) : c \in Nat
    BY <2>3 DEF CheckedSub
  <2>6. \A q \in Parts : snaps'[q] = snaps[q]
    <3>1. CASE CheckedSub(e, delay) = {}
      BY <2>2, <3>1
    <3>2. CASE CheckedSub(e, delay) # {}
      <4>1. PICK c \in CheckedSub(e, delay) : snaps' = [snaps EXCEPT ![p] = GcDelete(@, c)]
        BY <2>2, <3>2
      <4>2. GcDelete(snaps[p], c) = snaps[p]
        BY <1>1, <2>5, GcKeeps DEF TypeOK
      <4>3. QED
        BY <1>1, <4>1, <4>2 DEF TypeOK
    <3>3. QED
      BY <3>1, <3>2
  <2>7. Aside /\ Current' = Current
    BY <2>1, <2>6 DEF Commit, Aside, process, input, step, Current, StoreResume
  <2>8. QED
    BY <1>1, <2>1, <2>4, <2>7, InvCommit
<1>6. QED
  BY <1>2, <1>3, <1>4, <1>5 DEF Writers

(* Every step is one of these; both ends of the running cluster are alike.  *)
LEMMA StepKinds ==
  ASSUME [Next]_vars
  PROVE  \/ \E n \in WorkerCounts, d \in Delays : Resume(n, d)
         \/ \E s \in Srcs, n \in BatchSizes, elapsed \in BOOLEAN : NextBatch(s, n, elapsed)
         \/ \E s \in Srcs : SourceEof(s)
         \/ \E m \in items : OnItem(m)
         \/ \E w \in WorkerIds : CloseEpoch(w)
         \/ \E m \in snapMsgs : WriteSnapshot(m)
         \/ Writers
         \/ Running /\ Vanish
         \/ UNCHANGED vars
BY DEF Next, Writers, Finish, Crash, Stopped, Running

(* What a polled source sends and leaves. *)
LEMMA PollSends ==
  ASSUME TypeOK, NEW s \in Srcs,
         \/ \E n \in BatchSizes, elapsed \in BOOLEAN : NextBatch(s, n, elapsed)
         \/ SourceEof(s)
  PROVE  \E e \in srcCap[s] :
           /\ ~ Backpressured(e)
           /\ \/ UNCHANGED <<srcCap, snapMsgs>>
              \/ /\ snapMsgs' = snapMsgs \cup {SourceSnap(s, offset'[s], e)}
                 /\ \E N \in {{e + 1}, {}} : srcCap' = [srcCap EXCEPT ![s] = N]
           /\ UNCHANGED <<process, step, store>>
<1>1. CASE \E n \in BatchSizes, elapsed \in BOOLEAN : NextBatch(s, n, elapsed)
  <2>1. PICK n \in BatchSizes, elapsed \in BOOLEAN : NextBatch(s, n, elapsed)
    BY <1>1
  <2>2. PICK e \in srcCap[s] :
          /\ ~ Backpressured(e)
          /\ offset' = [offset EXCEPT ![s] = offset[s] + n]
          /\ IF elapsed
               THEN /\ snapMsgs' = snapMsgs \cup {SourceSnap(s, offset[s] + n, e)}
                    /\ srcCap' = [srcCap EXCEPT ![s] = {e + 1}]
               ELSE UNCHANGED <<snapMsgs, srcCap>>
          /\ UNCHANGED <<process, step, store>>
    BY <2>1 DEF NextBatch
  <2>3. offset'[s] = offset[s] + n
    BY <2>2 DEF TypeOK
  <2>4. QED
    BY <2>2, <2>3
<1>2. CASE SourceEof(s)
  BY <1>2 DEF SourceEof
<1>3. QED
  BY <1>1, <1>2

LEMMA NextKeys == IInv /\ SnapshotKeys /\ [Next]_vars => SnapshotKeys'
<1> SUFFICES ASSUME IInv, SnapshotKeys, [Next]_vars PROVE SnapshotKeys'
  OBVIOUS
<1>1. TypeOK /\ IInv'
  BY NextInv DEF IInv
<1>2. Current \in Nat /\ Current' \in Nat
  BY <1>1, EpochsAre, NextEpochsAre DEF EpochsNow
<1>3. CASE \E n \in WorkerCounts, d \in Delays : Resume(n, d)
  <2>1. snaps' = snaps /\ snapMsgs' = {} /\ awoken' = {}
    BY <1>3 DEF Resume, IInv, Quiet, store
  <2>2. QED
    BY <2>1, KeysQuiet
<1>4. CASE \E s \in Srcs : \/ \E n \in BatchSizes, elapsed \in BOOLEAN : NextBatch(s, n, elapsed)
                           \/ SourceEof(s)
  <2>1. PICK s \in Srcs : \/ \E n \in BatchSizes, elapsed \in BOOLEAN : NextBatch(s, n, elapsed)
                          \/ SourceEof(s)
    BY <1>4
  <2>2. PICK e \in srcCap[s] :
           /\ ~ Backpressured(e)
           /\ \/ UNCHANGED <<srcCap, snapMsgs>>
              \/ /\ snapMsgs' = snapMsgs \cup {SourceSnap(s, offset'[s], e)}
                 /\ \E N \in {{e + 1}, {}} : srcCap' = [srcCap EXCEPT ![s] = N]
           /\ UNCHANGED <<process, step, store>>
    BY <1>1, <2>1, PollSends
  <2>3. QED
    BY <2>2, KeysSource
<1>5. CASE \E m \in items : OnItem(m)
  BY <1>5, KeysOnItem
<1>6. CASE \E w \in WorkerIds : CloseEpoch(w)
  BY <1>6, KeysCloseEpoch
<1>7. CASE \E m \in snapMsgs : WriteSnapshot(m)
  BY <1>7, KeysWriteSnapshot
<1>8. CASE Writers
  <2>1. Running /\ Aside /\ Current <= Current'
    BY <1>8, WritersAside
  <2>2. QED
    BY <1>1, <1>2, <2>1, KeysFrame DEF Aside
<1>9. CASE Running /\ Vanish
  BY <1>9, KeysQuiet DEF Vanish, store
<1>10. CASE UNCHANGED vars
  <2>1. /\ UNCHANGED <<workers, srcCap, opCap, awoken, snapMsgs, snaps>>
        /\ Current' = Current /\ \A x : WorkerOf(x)' = WorkerOf(x)
    BY <1>10 DEF vars, process, input, step, store, Current, StoreResume, WorkerOf
  <2>2. QED
    BY <2>1 DEF SnapshotKeys
<1>11. QED
  BY <1>3, <1>4, <1>5, <1>6, <1>7, <1>8, <1>9, <1>10, StepKinds

-----------------------------------------------------------------------------
(* What a resume would load, now and once everything under way is written.  *)

LoadsNow ==
  /\ Keyed(Rows) /\ Keyed(Settled)
  /\ Durable = MaxEpochSnaps(Rows, Current)
  /\ \A r \in Settled : r.epoch \in Nat /\ r.epoch <= Current
  /\ snapMsgs = {} => Settled = Rows

LEMMA LoadsAre == IInv /\ SnapshotKeys => LoadsNow
<1> SUFFICES ASSUME IInv, SnapshotKeys PROVE LoadsNow
  OBVIOUS
<1>1. TypeOK /\ EpochsNow
  BY EpochsAre DEF IInv
<1>2. Keyed(Rows) /\ \A e : LoadSnaps(e) = MaxEpochSnaps(Rows, e)
  BY <1>1, LoadsMerged
<1>3. Durable = LoadSnaps(Current)
  BY DEF Durable, Current
<1>4. Keyed(Settled)
  <2>1. Settled \subseteq SnapRows
    BY <1>1, <1>2 DEF Settled, Keyed, TypeOK
  <2>2. ASSUME NEW q \in Settled, NEW r \in Settled, q.id = r.id, q.epoch = r.epoch
        PROVE  q = r
    <3>1. CASE q \in snapMsgs /\ r \in snapMsgs
      BY <2>2, <3>1 DEF SnapshotKeys
    <3>2. CASE q \notin snapMsgs /\ r \notin snapMsgs
      BY <1>2, <2>2, <3>2 DEF Settled, Keyed
    <3>3. CASE q \in snapMsgs /\ r \notin snapMsgs
      BY <2>2, <3>3 DEF Settled
    <3>4. CASE q \notin snapMsgs /\ r \in snapMsgs
      BY <2>2, <3>4 DEF Settled
    <3>5. QED
      BY <3>1, <3>2, <3>3, <3>4
  <2>3. QED
    BY <2>1, <2>2 DEF Keyed
<1>5. \A r \in Settled : r.epoch \in Nat /\ r.epoch <= Current
  BY <1>1 DEF EpochsNow, Settled
<1>6. snapMsgs = {} => Settled = Rows
  BY DEF Settled
<1>7. QED
  BY <1>2, <1>3, <1>4, <1>5, <1>6 DEF LoadsNow

LEMMA NextLoadsAre == IInv' /\ SnapshotKeys' => LoadsNow'
BY LoadsAre, PTL

-----------------------------------------------------------------------------
(* What is loaded still counts what it skips. *)

(* When the resume epoch moves on, everything of the one it leaves is in    *)
(* the store, and every source has ended it.                                *)
LEMMA EpochDone ==
  ASSUME IInv, SnapshotKeys, IInv', SnapshotKeys', Running, Aside, Current < Current'
  PROVE  /\ items = {} /\ snapMsgs = {} /\ awoken = {} /\ \A s \in Srcs : Past(s)
         /\ Durable' = Newest(Rows) /\ Settled = Rows
<1>1. TypeOK /\ EpochsNow /\ EpochsNow' /\ LoadsNow /\ LoadsNow'
  BY EpochsAre, NextEpochsAre, LoadsAre, NextLoadsAre DEF IInv
<1>2. items' = items /\ snapMsgs' = snapMsgs /\ Rows' = Rows /\ SnapIn' = SnapIn
  BY DEF Aside, Rows, AllRows, SnapIn, StepIn, Caps, Epochs
<1>3. Current \in Nat /\ Current' \in Nat /\ \A e \in SnapIn : e \in Nat /\ Current' <= e
  BY <1>1, <1>2 DEF EpochsNow
<1>4. items = {} /\ snapMsgs = {}
  BY <1>1, <1>2 DEF EpochsNow
<1>5. awoken = {}
  <2> SUFFICES ASSUME NEW k \in awoken PROVE FALSE
    OBVIOUS
  <2>1. k \in Keys
    BY <1>1 DEF TypeOK
  <2>2. PICK c \in opCap[WorkerOf(k)] : c <= Current
    BY DEF SnapshotKeys
  <2>3. WorkerOf(k) \in WorkerIds
    BY <1>1, <2>1, KeyHasWorker
  <2>4. c \in SnapIn
    BY <1>1, <2>3 DEF SnapIn, Caps, TypeOK
  <2>5. QED
    BY <1>3, <2>2, <2>4
<1>6. ASSUME NEW s \in Srcs PROVE Past(s)
  <2>1. \A e \in srcCap[s] : e \in SnapIn
    BY <1>1 DEF SnapIn, StepIn, Caps, TypeOK
  <2>2. QED
    BY <1>3, <2>1 DEF Past
<1>7. Durable' = Newest(Rows)
  <2>1. Durable' = MaxEpochSnaps(Rows, Current')
    BY <1>1, <1>2 DEF LoadsNow
  <2>2. \A r \in Rows : r.epoch < Current'
    BY <1>1, <1>3 DEF EpochsNow
  <2>3. QED
    BY <1>3, <2>1, <2>2, AllBefore
<1>8. QED
  BY <1>1, <1>4, <1>5, <1>6, <1>7 DEF LoadsNow

LEMMA KeptAside ==
  ASSUME IInv, SnapshotKeys, Kept, IInv', SnapshotKeys', Running, Aside, Current <= Current'
  PROVE  Kept'
<1>1. TypeOK /\ EpochsNow /\ EpochsNow' /\ LoadsNow /\ LoadsNow'
  BY EpochsAre, NextEpochsAre, LoadsAre, NextLoadsAre DEF IInv
<1>2. /\ up' = up /\ items' = items /\ snapMsgs' = snapMsgs /\ srcCap' = srcCap
      /\ offset' = offset /\ state' = state /\ awoken' = awoken
      /\ Rows' = Rows /\ Settled' = Settled /\ Running'
  BY DEF Aside, Rows, AllRows, Settled, Running
<1>3. Current \in Nat /\ Current' \in Nat
  BY <1>1 DEF EpochsNow
<1>4. \A s \in Srcs : Past(s)' => Past(s)
  BY <1>1, <1>2, <1>3 DEF Past, TypeOK
<1>5. CASE Current' = Current
  <2>1. Durable' = Durable
    BY <1>1, <1>2, <1>5 DEF LoadsNow
  <2>2. QED
    BY <1>2, <1>4, <2>1 DEF Kept, Read, InFlight
<1>6. CASE Current < Current'
  <2>1. /\ items = {} /\ snapMsgs = {} /\ awoken = {} /\ \A s \in Srcs : Past(s)
        /\ Durable' = Newest(Rows) /\ Settled = Rows
    BY <1>6, EpochDone
  <2>2. ASSUME NEW i \in Items, Skipped(Newest(Rows), i)
        PROVE  Effect(Newest(Rows), i) >= 1 /\ state[KeyOf(i)][i] >= 1
    <3>1. i[1] \in Srcs /\ i[2] \in Nat
      BY InputAssumption DEF Items
    <3>2. LoadedOffset(Newest(Rows), i[1]) <= offset[i[1]]
      BY <2>1, <3>1 DEF Kept
    <3>3. LoadedOffset(Newest(Rows), i[1]) \in Nat /\ offset[i[1]] \in Nat
      <4>1. Newest(Rows) \subseteq SnapRows
        BY <1>1 DEF LoadsNow, Keyed, Newest
      <4>2. QED
        BY <1>1, <3>1, <4>1, LoadsTyped DEF TypeOK
    <3>4. Read(i)
      BY <2>2, <3>1, <3>2, <3>3 DEF Skipped, Read
    <3>5. ~ InFlight(i)
      BY <2>1 DEF InFlight
    <3>6. QED
      BY <2>1, <3>4, <3>5 DEF Kept
  <2>3. QED
    BY <1>2, <1>4, <2>1, <2>2 DEF Kept, Read, InFlight
<1>7. QED
  BY <1>3, <1>5, <1>6

(* A crash leaves what a resume would load; the resume loads it. *)
LEMMA KeptVanish ==
  ASSUME IInv, SnapshotKeys, Kept, IInv', SnapshotKeys', Vanish
  PROVE  Kept'
<1>1. ~ Running' /\ snapMsgs' = {} /\ Rows' = Rows /\ Durable' = Durable
  BY DEF Vanish, store, Running, Rows, AllRows, Durable, LoadSnaps, StoreResume
<1>2. QED
  BY <1>1 DEF Kept

LEMMA KeptResume ==
  ASSUME IInv, SnapshotKeys, Kept, IInv', SnapshotKeys',
         NEW n \in WorkerCounts, NEW d \in Delays, Resume(n, d)
  PROVE  Kept'
<1>1. TypeOK /\ EpochsNow /\ LoadsNow'
  BY EpochsAre, NextLoadsAre DEF IInv
<1>2. /\ srcCap' = [s \in Srcs |-> {Current}]
      /\ offset' = [s \in Srcs |-> LoadedOffset(LoadSnaps(Current), s)]
      /\ state' = [k \in Keys |-> LoadedState(LoadSnaps(Current), k)]
      /\ up = "down" /\ snapMsgs' = snapMsgs
  BY DEF Resume, Current
<1>3. Current' = Current /\ Rows' = Rows /\ Durable' = Durable
  BY DEF Resume, store, Current, StoreResume, Rows, AllRows, Durable, LoadSnaps
<1>4. Durable = LoadSnaps(Current)
  BY DEF Durable, Current
<1>5. snapMsgs' = {} /\ Settled' = Rows'
  BY <1>1, <1>2 DEF IInv, Quiet, LoadsNow
<1>6. \A i \in Items : /\ Read(i)' <=> Skipped(Durable, i)
                       /\ state'[KeyOf(i)][i] = Effect(Durable, i)
  <2> SUFFICES ASSUME NEW i \in Items
               PROVE  /\ Read(i)' <=> Skipped(Durable, i)
                      /\ state'[KeyOf(i)][i] = Effect(Durable, i)
    OBVIOUS
  <2>1. i[1] \in Srcs /\ KeyOf(i) \in Keys
    BY ItemHasKey DEF Items, KeyOf
  <2>2. QED
    BY <1>2, <1>4, <2>1 DEF Read, Skipped, Effect
<1>7. \A s \in Srcs : ~ Past(s)'
  BY <1>1, <1>2, <1>3 DEF Past, EpochsNow
<1>8. QED
  BY <1>3, <1>5, <1>6, <1>7 DEF Kept

(* What is sent replaces, for its ids, what was settled for the epoch. *)
LEMMA SettledWith ==
  ASSUME IInv, SnapshotKeys, IInv', SnapshotKeys', NEW M,
         snapMsgs' = snapMsgs \cup M, Rows' = Rows, Current' = Current,
         \A m \in M : m.epoch = Current
  PROVE  /\ \A m \in M : /\ LoadedOffset(Newest(Settled'), m.id) = m.pos
                         /\ LoadedState(Newest(Settled'), m.id) = m.eff
         /\ \A id : (\A m \in M : m.id # id) =>
              /\ LoadedOffset(Newest(Settled'), id) = LoadedOffset(Newest(Settled), id)
              /\ LoadedState(Newest(Settled'), id) = LoadedState(Newest(Settled), id)
<1>1. LoadsNow /\ LoadsNow' /\ Current \in Nat
  BY LoadsAre, NextLoadsAre, EpochsAre DEF EpochsNow
<1>2. Settled' = {r \in Rows : \A m \in snapMsgs \cup M : m.id = r.id => m.epoch # r.epoch}
                   \cup snapMsgs \cup M
  BY DEF Settled
<1>3. Keyed(Settled') /\ Keyed(Settled)
  BY <1>1 DEF LoadsNow
<1>4. ASSUME NEW m \in M
      PROVE  /\ LoadedOffset(Newest(Settled'), m.id) = m.pos
             /\ LoadedState(Newest(Settled'), m.id) = m.eff
  <2>1. m \in Settled' /\ \A q \in Settled' : q.epoch <= m.epoch
    BY <1>1, <1>2 DEF LoadsNow
  <2>2. QED
    BY <1>3, <2>1, NewestIs
<1>5. ASSUME NEW id, \A m \in M : m.id # id
      PROVE  /\ LoadedOffset(Newest(Settled'), id) = LoadedOffset(Newest(Settled), id)
             /\ LoadedState(Newest(Settled'), id) = LoadedState(Newest(Settled), id)
  <2>1. \A r \in Settled' : r.id = id => r \in Settled
    BY <1>2, <1>5 DEF Settled
  <2>2. \A r \in Settled : r.id = id => r \in Settled'
    BY <1>2, <1>5 DEF Settled
  <2>3. QED
    BY <1>3, <2>1, <2>2, NewestSame
<1>6. QED
  BY <1>4, <1>5

(* A source claims what it has read: that is on its way. *)
LEMMA KeptSource ==
  ASSUME IInv, SnapshotKeys, Kept, IInv', SnapshotKeys',
         NEW s \in Srcs, NEW e \in srcCap[s], ~ Backpressured(e),
         \/ UNCHANGED <<srcCap, snapMsgs>>
         \/ /\ snapMsgs' = snapMsgs \cup {SourceSnap(s, offset'[s], e)}
            /\ \E N \in {{e + 1}, {}} : srcCap' = [srcCap EXCEPT ![s] = N],
         items \subseteq items', \A t \in Srcs : t # s => offset'[t] = offset[t],
         \A i \in Items : Read(i)' => Read(i) \/ InFlight(i)',
         UNCHANGED <<process, step, store>>
  PROVE  Kept'
<1>1. /\ TypeOK /\ EpochsNow /\ LoadsNow /\ LoadsNow'
      /\ Running /\ e = Current /\ \A m \in snapMsgs : m.id # s
  BY EpochsAre, LoadsAre, NextLoadsAre, PolledNow DEF IInv
<1>2. /\ up' = up /\ state' = state /\ awoken' = awoken
      /\ Rows' = Rows /\ Current' = Current /\ Durable' = Durable
      /\ \A x : WorkerOf(x)' = WorkerOf(x)
  BY DEF process, step, store, Current, StoreResume, Rows, AllRows, Durable, LoadSnaps, WorkerOf
<1>3. \A i \in Items : KeyOf(i) \in Keys /\ KeyOf(i) # s
  BY ItemHasKey, SrcsAssumption DEF KeyOf
<1>4. /\ \A m \in snapMsgs' : m \in snapMsgs \/ m.id = s
      /\ \A i \in Items : Effect(Newest(Settled'), i) = Effect(Newest(Settled), i)
      /\ \A t \in Srcs : Past(t)' => LoadedOffset(Newest(Settled'), t) <= offset'[t]
  <2>1. CASE UNCHANGED <<srcCap, snapMsgs>>
    <3>1. Settled' = Settled /\ \A t \in Srcs : Past(t)' <=> Past(t)
      BY <1>2, <2>1 DEF Settled, Past
    <3>2. ~ Past(s)
      BY <1>1 DEF Past, EpochsNow
    <3>3. QED
      BY <1>1, <2>1, <3>1, <3>2 DEF Kept
  <2>2. CASE /\ snapMsgs' = snapMsgs \cup {SourceSnap(s, offset'[s], e)}
             /\ \E N \in {{e + 1}, {}} : srcCap' = [srcCap EXCEPT ![s] = N]
    <3> DEFINE q == SourceSnap(s, offset'[s], e)
    <3>1. q.id = s /\ q.epoch = Current /\ q.pos = offset'[s]
      BY <1>1 DEF SourceSnap
    <3>2. /\ LoadedOffset(Newest(Settled'), s) = offset'[s]
          /\ \A id : id # s =>
              /\ LoadedOffset(Newest(Settled'), id) = LoadedOffset(Newest(Settled), id)
              /\ LoadedState(Newest(Settled'), id) = LoadedState(Newest(Settled), id)
      <4> HIDE DEF q
      <4>1. PICK M : M = {q}
        OBVIOUS
      <4>2. snapMsgs' = snapMsgs \cup M
        BY <2>2, <4>1 DEF q
      <4>3. \A m \in M : m.epoch = Current
        BY <3>1, <4>1
      <4>4. /\ \A m \in M : LoadedOffset(Newest(Settled'), m.id) = m.pos
            /\ \A id : (\A m \in M : m.id # id) =>
              /\ LoadedOffset(Newest(Settled'), id) = LoadedOffset(Newest(Settled), id)
              /\ LoadedState(Newest(Settled'), id) = LoadedState(Newest(Settled), id)
        BY <1>2, <4>2, <4>3, SettledWith
      <4>5. QED
        BY <3>1, <4>1, <4>4
    <3>3. \A t \in Srcs : t # s => (Past(t)' <=> Past(t))
      BY <1>1, <1>2, <2>2 DEF Past, TypeOK
    <3>4. offset'[s] \in Nat
      BY DEF IInv, TypeOK
    <3>5. \A t \in Srcs : Past(t)' => LoadedOffset(Newest(Settled'), t) <= offset'[t]
      BY <1>1, <3>2, <3>3, <3>4 DEF Kept
    <3>6. QED
      BY <1>3, <2>2, <3>1, <3>2, <3>5 DEF Effect
  <2>3. QED
    BY <2>1, <2>2
<1>5. \A i \in Items : InFlight(i) => InFlight(i)'
  BY DEF InFlight
<1>6. QED
  BY <1>1, <1>2, <1>3, <1>4, <1>5 DEF Kept, Running

(* An applied item leaves the way for the state of its key. *)
LEMMA KeptOnItem ==
  ASSUME IInv, SnapshotKeys, Kept, NEW m \in items, OnItem(m)
  PROVE  Kept'
<1> DEFINE k == Input[m.item[1]][m.item[2]]
<1>1. /\ items' = items \ {m}
      /\ state' = [state EXCEPT ![k][m.item] = @ + 1]
      /\ awoken' = awoken \cup {k}
      /\ UNCHANGED <<process, input, snapMsgs, store>>
  BY DEF OnItem, InbufRemove
<1>2. TypeOK /\ m.item \in Items /\ k = KeyOf(m.item) /\ k \in Keys
  BY ItemHasKey DEF IInv, TypeOK, ItemMsgs, KeyOf
<1>3. /\ up' = up /\ snapMsgs' = snapMsgs /\ offset' = offset /\ srcCap' = srcCap
      /\ Rows' = Rows /\ Settled' = Settled /\ Current' = Current /\ Durable' = Durable
  <2>1. /\ up' = up /\ snapMsgs' = snapMsgs /\ offset' = offset /\ srcCap' = srcCap
        /\ exs' = exs /\ fronts' = fronts /\ snaps' = snaps
    BY <1>1 DEF process, input, store
  <2>2. Rows' = Rows
    BY <2>1 DEF Rows, AllRows
  <2>3. Current' = Current
    BY <2>1 DEF Current, StoreResume, AllRows
  <2>4. Durable' = Durable
    BY <2>1 DEF Durable, StoreResume, AllRows, LoadSnaps
  <2>5. Settled' = Settled
    BY <2>1, <2>2 DEF Settled
  <2>6. QED
    BY <2>1, <2>2, <2>3, <2>4, <2>5
<1>4. ASSUME NEW i \in Items
      PROVE  /\ state[KeyOf(i)][i] \in Nat
             /\ state'[KeyOf(i)][i] = IF i = m.item THEN state[KeyOf(i)][i] + 1
                                                    ELSE state[KeyOf(i)][i]
  <2>1. KeyOf(i) \in Keys /\ state[KeyOf(i)] \in Effects
    BY <1>2, ItemHasKey DEF KeyOf, TypeOK
  <2>2. state'[KeyOf(i)] = IF KeyOf(i) = k THEN [state[k] EXCEPT ![m.item] = @ + 1]
                                           ELSE state[KeyOf(i)]
    BY <1>1, <1>2, <2>1 DEF TypeOK
  <2>3. QED
    BY <1>2, <2>1, <2>2 DEF Effects
<1>5. ASSUME NEW i \in Items, InFlight(i), ~ InFlight(i)'
      PROVE  i = m.item
  BY <1>1, <1>5 DEF InFlight
<1>6. \A s \in Srcs : Past(s)' <=> Past(s)
  BY <1>3 DEF Past
<1>7. ASSUME NEW i \in Items, Running, Read(i), ~ InFlight(i)'
      PROVE  /\ state'[KeyOf(i)][i] >= 1
             /\ KeyOf(i) \in awoken' \/ Effect(Newest(Settled), i) >= 1
  <2>1. CASE i = m.item
    BY <1>1, <1>2, <1>4, <2>1
  <2>2. CASE i # m.item
    BY <1>1, <1>4, <1>5, <1>7, <2>2 DEF Kept
  <2>3. QED
    BY <2>1, <2>2
<1>8. ASSUME NEW i \in Items, Running, state[KeyOf(i)][i] >= 1
      PROVE  state'[KeyOf(i)][i] >= 1
  BY <1>4, <1>8
<1>9. QED
  BY <1>3, <1>6, <1>7, <1>8 DEF Kept, Running, Read

(* A closed epoch sends the running state of every key that was awoken. *)
LEMMA KeptCloseEpoch ==
  ASSUME IInv, SnapshotKeys, Kept, IInv', SnapshotKeys', NEW w \in WorkerIds, CloseEpoch(w)
  PROVE  Kept'
<1>1. PICK c \in opCap[w] :
        LET K == (awoken \cap MyKeys(w)) \cup
                 (IF IsEof(StepIn) THEN {k \in MyKeys(w) : state[k] # NoEffect} ELSE {})
        IN  /\ IsClosed(StepIn, c)
            /\ snapMsgs' = snapMsgs \cup {KeySnap(k, c) : k \in K}
            /\ awoken' = awoken \ MyKeys(w)
            /\ UNCHANGED <<process, input, items, state, store>>
  BY DEF CloseEpoch
<1> DEFINE K == (awoken \cap MyKeys(w)) \cup
                (IF IsEof(StepIn) THEN {k \in MyKeys(w) : state[k] # NoEffect} ELSE {})
<1>2. /\ up' = up /\ items' = items /\ state' = state /\ offset' = offset /\ srcCap' = srcCap
      /\ Rows' = Rows /\ Current' = Current /\ Durable' = Durable
  BY <1>1 DEF process, input, store, Current, StoreResume, Rows, AllRows, Durable, LoadSnaps
<1>3. \A k \in K : /\ k \in Keys /\ k \notin Srcs
                   /\ Running /\ c = Current /\ items = {}
  BY <1>1, ClosedNow, SrcsAssumption DEF MyKeys
<1>4. PICK M : M = {KeySnap(k, c) : k \in K}
  OBVIOUS
<1>5. /\ snapMsgs' = snapMsgs \cup M
      /\ \A m \in M : m.id \in K /\ m.epoch = Current /\ m.eff = state[m.id]
      /\ \A k \in K : \E m \in M : m.id = k
  <2>1. snapMsgs' = snapMsgs \cup M
    BY <1>1, <1>4
  <2>2. \A k \in K : c = Current
    BY <1>3
  <2> HIDE DEF K
  <2>3. \A k \in K : KeySnap(k, c) \in M
    BY <1>4
  <2>4. \A m \in M : \E k \in K : m = KeySnap(k, c)
    BY <1>4
  <2>5. \A k : /\ KeySnap(k, c).id = k /\ KeySnap(k, c).epoch = c
               /\ KeySnap(k, c).eff = state[k]
    BY DEF KeySnap
  <2>6. QED
    BY <2>1, <2>2, <2>3, <2>4, <2>5
<1>6. /\ \A m \in M : LoadedState(Newest(Settled'), m.id) = m.eff
      /\ \A id : (\A m \in M : m.id # id) =>
           /\ LoadedOffset(Newest(Settled'), id) = LoadedOffset(Newest(Settled), id)
           /\ LoadedState(Newest(Settled'), id) = LoadedState(Newest(Settled), id)
  BY <1>2, <1>5, SettledWith
<1> HIDE DEF K
<1>7. \A k \in K : LoadedState(Newest(Settled'), k) = state[k]
  BY <1>5, <1>6
<1>8. \A id : id \notin K =>
           /\ LoadedOffset(Newest(Settled'), id) = LoadedOffset(Newest(Settled), id)
           /\ LoadedState(Newest(Settled'), id) = LoadedState(Newest(Settled), id)
  BY <1>5, <1>6
<1>9. \A s \in Srcs : Past(s)' => LoadedOffset(Newest(Settled'), s) <= offset[s] \/ ~ Running
  BY <1>2, <1>3, <1>8 DEF Kept, Past
<1>10. ASSUME NEW i \in Items, Running, Read(i)
       PROVE  \/ InFlight(i)
              \/ /\ state[KeyOf(i)][i] >= 1
                 /\ KeyOf(i) \in awoken' \/ Effect(Newest(Settled'), i) >= 1
  <2>1. CASE KeyOf(i) \in K
    <3>1. state[KeyOf(i)][i] >= 1
      BY <1>3, <1>10, <2>1 DEF Kept, InFlight
    <3>2. Effect(Newest(Settled'), i) = state[KeyOf(i)][i]
      BY <1>7, <2>1 DEF Effect
    <3>3. QED
      BY <3>1, <3>2
  <2>2. CASE KeyOf(i) \notin K
    <3>1. KeyOf(i) \in awoken => KeyOf(i) \in awoken'
      BY <1>1, <2>2 DEF K
    <3>2. Effect(Newest(Settled'), i) = Effect(Newest(Settled), i)
      BY <1>8, <2>2 DEF Effect
    <3>3. QED
      BY <1>10, <3>1, <3>2 DEF Kept
  <2>3. QED
    BY <2>1, <2>2
<1>11. ASSUME NEW i \in Items, Skipped(Durable, i), NEW m \in snapMsgs', m.id = KeyOf(i)
       PROVE  m.eff[i] >= 1
  BY <1>3, <1>5, <1>11 DEF Kept
<1>12. QED
  BY <1>2, <1>9, <1>10, <1>11 DEF Kept, Running, Read, InFlight

(* Writing a snapshot replaces the row with its key, and no row before the  *)
(* current epoch.                                                           *)
LEMMA WriteRows ==
  ASSUME IInv, SnapshotKeys, IInv', SnapshotKeys', NEW m \in snapMsgs, WriteSnapshot(m)
  PROVE  /\ Rows' = {r \in Rows : r.id # m.id \/ r.epoch # m.epoch} \cup {m}
         /\ Durable' = Durable /\ Current' = Current
<1>1. /\ TypeOK /\ EpochsNow /\ LoadsNow /\ LoadsNow'
      /\ m.epoch = Current /\ m \in SnapRows /\ SnapPart[m.id] \in Parts
  BY EpochsAre, LoadsAre, NextLoadsAre, PartAssumption DEF IInv, EpochsNow, TypeOK, SnapRows
<1>2. /\ snaps' = [snaps EXCEPT ![SnapPart[m.id]] = UpsertSnap(@, m)]
      /\ snapMsgs' = snapMsgs \ {m}
      /\ UNCHANGED <<exs, fronts>>
  BY DEF WriteSnapshot
<1>3. Current' = Current
  BY <1>2 DEF Current, StoreResume
<1>4. Rows' = {r \in Rows : r.id # m.id \/ r.epoch # m.epoch} \cup {m}
  <2>1. \A p \in Parts :
          snaps'[p] = IF p = SnapPart[m.id] THEN UpsertSnap(snaps[p], m) ELSE snaps[p]
    BY <1>1, <1>2 DEF TypeOK
  <2>2. \A p \in Parts : \A r \in snaps[p] : r.id = m.id => p = SnapPart[m.id]
    BY DEF SnapshotKeys
  <2>3. ASSUME NEW r \in Rows' PROVE r = m \/ (r \in Rows /\ (r.id # m.id \/ r.epoch # m.epoch))
    <3>1. PICK p \in Parts : r \in snaps'[p]
      BY DEF Rows, AllRows
    <3>2. \/ r = m
          \/ r \in snaps[p] /\ (p = SnapPart[m.id] => r.id # m.id \/ r.epoch # m.epoch)
      BY <2>1, <3>1 DEF UpsertSnap
    <3>3. r \in snaps[p] => r \in Rows /\ (r.id = m.id => p = SnapPart[m.id])
      BY <2>2 DEF Rows, AllRows
    <3>4. QED
      BY <3>2, <3>3
  <2>4. m \in Rows'
    BY <1>1, <2>1 DEF Rows, AllRows, UpsertSnap
  <2>5. ASSUME NEW r \in Rows, r.id # m.id \/ r.epoch # m.epoch PROVE r \in Rows'
    <3>1. PICK p \in Parts : r \in snaps[p]
      BY DEF Rows, AllRows
    <3>2. r \in snaps'[p]
      BY <2>1, <2>5, <3>1 DEF UpsertSnap
    <3>3. QED
      BY <3>2 DEF Rows, AllRows
  <2>6. QED
    BY <2>3, <2>4, <2>5
<1>5. Durable' = Durable
  <2>1. \A r : r.epoch < Current => (r \in Rows' <=> r \in Rows)
    BY <1>1, <1>4 DEF EpochsNow
  <2>2. MaxEpochSnaps(Rows', Current) = MaxEpochSnaps(Rows, Current)
    BY <2>1 DEF MaxEpochSnaps
  <2>3. QED
    BY <1>1, <1>3, <2>2 DEF LoadsNow
<1>6. QED
  BY <1>3, <1>4, <1>5

(* Writing a snapshot settles what is under way. *)
LEMMA KeptWriteSnapshot ==
  ASSUME IInv, SnapshotKeys, Kept, IInv', SnapshotKeys', NEW m \in snapMsgs, WriteSnapshot(m)
  PROVE  Kept'
<1>1. /\ TypeOK /\ EpochsNow /\ LoadsNow /\ LoadsNow'
      /\ m.epoch = Current
  BY EpochsAre, LoadsAre, NextLoadsAre DEF IInv, EpochsNow
<1>2. /\ snapMsgs' = snapMsgs \ {m}
      /\ UNCHANGED <<process, input, items, step, exs, fronts>>
  BY DEF WriteSnapshot
<1>3. /\ up' = up /\ items' = items /\ state' = state /\ offset' = offset /\ srcCap' = srcCap
      /\ awoken' = awoken /\ Current' = Current
  BY <1>2 DEF process, input, step, Current, StoreResume
<1>4. /\ Rows' = {r \in Rows : r.id # m.id \/ r.epoch # m.epoch} \cup {m}
      /\ Durable' = Durable
  BY WriteRows
<1>5. Settled' = Settled
  <2>1. \A n \in snapMsgs : n.id = m.id => n = m
    BY DEF SnapshotKeys
  <2>2. QED
    BY <1>2, <1>4, <2>1 DEF Settled
<1>6. LoadedState(Newest(Rows'), m.id) = m.eff
  <2>1. Keyed(Rows')
    BY <1>1 DEF LoadsNow
  <2>2. m \in Rows' /\ \A q \in Rows' : q.epoch <= m.epoch
    BY <1>1, <1>4 DEF EpochsNow
  <2>3. QED
    BY <2>1, <2>2, NewestIs
<1>7. ASSUME NEW id, id # m.id
      PROVE  LoadedState(Newest(Rows'), id) = LoadedState(Newest(Rows), id)
  <2>1. Keyed(Rows')
    BY <1>1 DEF LoadsNow
  <2>2. /\ \A r \in Rows' : r.id = id => r \in Rows
        /\ \A r \in Rows : r.id = id => r \in Rows'
    BY <1>4, <1>7
  <2>3. QED
    BY <2>1, <2>2, NewestSame
<1>8. ASSUME NEW i \in Items, Skipped(Durable, i)
      PROVE  Effect(Newest(Rows'), i) >= 1
  BY <1>6, <1>7, <1>8 DEF Kept, Effect
<1>9. \A s \in Srcs : Past(s)' <=> Past(s)
  BY <1>3 DEF Past
<1>10. QED
  BY <1>2, <1>3, <1>4, <1>5, <1>8, <1>9 DEF Kept, Running, Read, InFlight

LEMMA InitLoss == Init => LossInv
<1> SUFFICES ASSUME Init PROVE LossInv
  OBVIOUS
<1>1. IInv /\ up = "down" /\ snapMsgs = {} /\ awoken = {} /\ \A p \in Parts : snaps[p] = {}
  BY InitInv DEF Init
<1>2. SnapshotKeys
  BY <1>1 DEF SnapshotKeys
<1>3. Durable = {}
  BY <1>1 DEF Durable, LoadSnaps, MaxEpochSnaps
<1>4. \A i \in Items : ~ Skipped(Durable, i)
  BY <1>3, InputAssumption DEF Items, Skipped, LoadedOffset
<1>5. QED
  BY <1>1, <1>2, <1>4 DEF LossInv, Kept, Running

LEMMA NextLoss == LossInv /\ [Next]_vars => LossInv'
<1> SUFFICES ASSUME LossInv, [Next]_vars PROVE LossInv'
  OBVIOUS
<1>1. IInv /\ SnapshotKeys /\ Kept /\ TypeOK /\ TypeOK' /\ IInv' /\ SnapshotKeys'
  BY NextInv, NextKeys DEF LossInv, IInv
<1>2. CASE \E n \in WorkerCounts, d \in Delays : Resume(n, d)
  BY <1>1, <1>2, KeptResume DEF LossInv
<1>3. CASE \E s \in Srcs, n \in BatchSizes, elapsed \in BOOLEAN : NextBatch(s, n, elapsed)
  <2>1. PICK s \in Srcs, n \in BatchSizes, elapsed \in BOOLEAN : NextBatch(s, n, elapsed)
    BY <1>3
  <2>2. PICK e \in srcCap[s] :
           /\ ~ Backpressured(e)
           /\ \/ UNCHANGED <<srcCap, snapMsgs>>
              \/ /\ snapMsgs' = snapMsgs \cup {SourceSnap(s, offset'[s], e)}
                 /\ \E N \in {{e + 1}, {}} : srcCap' = [srcCap EXCEPT ![s] = N]
           /\ UNCHANGED <<process, step, store>>
    BY <1>1, <2>1, PollSends
  <2>3. PICK f \in srcCap[s] :
          /\ offset' = [offset EXCEPT ![s] = offset[s] + n]
          /\ items' = items \cup {[item |-> <<s, i>>, epoch |-> f] :
                                    i \in (offset[s] + 1) .. (offset[s] + n)}
    BY <2>1 DEF NextBatch
  <2>4. /\ \A t \in Srcs : t # s => offset'[t] = offset[t]
        /\ offset'[s] = offset[s] + n /\ offset[s] \in Nat /\ n \in Nat
    BY <1>1, <2>3, BatchAssumption DEF TypeOK
  <2>5. ASSUME NEW i \in Items, Read(i)' PROVE Read(i) \/ InFlight(i)'
    <3>1. PICK t \in Srcs : \E j \in 1 .. Len(Input[t]) : i = <<t, j>>
      BY DEF Items
    <3>2. PICK j \in 1 .. Len(Input[t]) : i = <<t, j>>
      BY <3>1
    <3>3. Len(Input[t]) \in Nat /\ j \in Int /\ j <= offset'[t]
      BY <2>5, <3>2, InputAssumption DEF Read
    <3>4. CASE t = s /\ offset[s] < j
      <4>1. j \in (offset[s] + 1) .. (offset[s] + n)
        BY <2>4, <3>3, <3>4
      <4>2. [item |-> i, epoch |-> f] \in items'
        BY <2>3, <3>2, <3>4, <4>1
      <4>3. QED
        BY <4>2 DEF InFlight
    <3>5. CASE ~ (t = s /\ offset[s] < j)
      BY <2>4, <3>2, <3>3, <3>5 DEF Read
    <3>6. QED
      BY <3>4, <3>5
  <2>6. items \subseteq items'
    BY <2>3
  <2>7. QED
    BY <1>1, <2>2, <2>4, <2>5, <2>6, KeptSource DEF LossInv
<1>4. CASE \E s \in Srcs : SourceEof(s)
  <2>1. PICK s \in Srcs : SourceEof(s)
    BY <1>4
  <2>2. PICK e \in srcCap[s] :
           /\ ~ Backpressured(e)
           /\ \/ UNCHANGED <<srcCap, snapMsgs>>
              \/ /\ snapMsgs' = snapMsgs \cup {SourceSnap(s, offset'[s], e)}
                 /\ \E N \in {{e + 1}, {}} : srcCap' = [srcCap EXCEPT ![s] = N]
           /\ UNCHANGED <<process, step, store>>
    BY <1>1, <2>1, PollSends
  <2>3. offset' = offset /\ items' = items /\ \A i : Read(i)' <=> Read(i)
    BY <2>1 DEF SourceEof, Read
  <2>4. QED
    BY <1>1, <2>2, <2>3, KeptSource DEF LossInv
<1>5. CASE \E m \in items : OnItem(m)
  BY <1>1, <1>5, KeptOnItem DEF LossInv
<1>6. CASE \E w \in WorkerIds : CloseEpoch(w)
  BY <1>1, <1>6, KeptCloseEpoch DEF LossInv
<1>7. CASE \E m \in snapMsgs : WriteSnapshot(m)
  BY <1>1, <1>7, KeptWriteSnapshot DEF LossInv
<1>8. CASE Writers
  BY <1>1, <1>8, WritersAside, KeptAside DEF LossInv
<1>9. CASE Running /\ Vanish
  BY <1>1, <1>9, KeptVanish DEF LossInv
<1>10. CASE UNCHANGED vars
  <2>1. /\ up' = up /\ items' = items /\ state' = state /\ offset' = offset
        /\ srcCap' = srcCap /\ awoken' = awoken /\ snapMsgs' = snapMsgs
        /\ Rows' = Rows /\ Current' = Current /\ Durable' = Durable /\ Settled' = Settled
    BY <1>10 DEF vars, process, input, step, store, Current, StoreResume, Rows, AllRows,
                 Durable, LoadSnaps, Settled
  <2>2. QED
    BY <1>1, <2>1 DEF LossInv, Kept, Running, Read, InFlight, Past
<1>11. QED
  BY <1>2, <1>3, <1>4, <1>5, <1>6, <1>7, <1>8, <1>9, <1>10, StepKinds

LEMMA LossInvHolds == Spec => []LossInv
BY InitLoss, NextLoss, PTL DEF Spec

-----------------------------------------------------------------------------
(* The input positions and the step states that a resume loads are a cut    *)
(* that loses no item, whenever the crash came, whoever had written what,   *)
(* and whatever batches, epoch lengths, cluster sizes and backup intervals. *)
THEOREM NothingLostHolds == Spec => []NothingLost
<1>1. LossInv => NothingLost
  BY DEF LossInv, Kept, NothingLost
<1>2. QED
  BY <1>1, LossInvHolds, PTL
=============================================================================
