------------------------ MODULE RecoveryClusterProofs ------------------------
(***************************************************************************)
(* Proofs about RecoveryCluster, for every number of sources, keys,        *)
(* workers, partitions, executions and epochs: the inductive invariant, and*)
(* the safety properties that follow from it.                              *)
(***************************************************************************)
EXTENDS RecoveryTypeProofs

-----------------------------------------------------------------------------
(***************************************************************************)
(* The inductive step.  The steps upstream of the frontier operator (input,*)
(* stateful step, snapshot writer) leave the reports alone; for them it is *)
(* enough that nothing moves the frontier back and that nothing new is     *)
(* ahead of the reports.                                                   *)
(***************************************************************************)
LEMMA UpstreamStep ==
  ASSUME IInv, TypeOK', Running,
         UNCHANGED <<process, exMsg, frontCap, frontMsgs, ticks, exs, fronts, commits>>,
         \A s \in Srcs : \A a, b \in srcCap'[s] : a = b,
         \A w \in WorkerIds : \A a, b \in opCap'[w] : a = b,
         \A w \in WorkerIds : \A c \in opCap'[w] : \A e \in StepIn' : c <= e,
         \A x \in FrontierIn' : \E y \in FrontierIn : y <= x,
         \A m \in items' : AllReported(m.epoch),
         \A m \in snapMsgs' : AllReported(m.epoch),
         \A e \in Caps(opCap)' : AllReported(e) \/ \E x \in Caps(srcCap)' : x <= e,
         \A e \in Caps(frontCap) : AllReported(e) \/ \E x \in Caps(srcCap)' : x <= e,
         \A r \in AllRows(snaps)' : r.epoch <= StoreResume.epoch
  PROVE  IInv'
<1>1. /\ up' = up /\ runs' = runs /\ ex' = ex /\ resume' = resume /\ workers' = workers
      /\ exMsg' = exMsg /\ frontCap' = frontCap /\ frontMsgs' = frontMsgs /\ ticks' = ticks
      /\ exs' = exs /\ fronts' = fronts /\ commits' = commits
  BY DEF process
<1>2. /\ AllRows(exs)' = AllRows(exs) /\ AllRows(fronts)' = AllRows(fronts)
      /\ StoreResume' = StoreResume /\ Live' = Live /\ Running'
  BY <1>1 DEF AllRows, StoreResume, Live, Running
<1>3. \A v : AllReported(v)' <=> AllReported(v)
  BY <1>1, <1>2 DEF AllReported, Reported
<1>4. \A w, v : Covered(w, v)' <=> Covered(w, v)
  BY <1>1, <1>2 DEF Covered, Reported
<1>5. FrontierIn \subseteq Nat /\ FrontierIn' \subseteq Nat
  <2>1. TypeOK
    BY DEF IInv
  <2>2. QED
    BY <2>1, FrontiersTyped, NextFrontiersTyped DEF EpochsTyped
<1>6. Quiet'
  BY <1>2 DEF Quiet, Running
<1>7. StoreKeys'
  BY <1>1, <1>2 DEF IInv, StoreKeys
<1>8. ExecutionRow'
  BY <1>1, <1>2 DEF IInv, ExecutionRow, Running
<1>9. Capabilities'
  <2>1. CommitIn' = FrontierIn' \cup Caps(frontCap) \cup Epochs(frontMsgs)
    BY <1>1 DEF CommitIn, Caps, Epochs
  <2>2. \A e \in CommitIn' : resume' <= e
    <3> SUFFICES ASSUME NEW e \in CommitIn'
                 PROVE  resume <= e
      BY <1>1
    <3>1. resume \in Nat /\ \A x \in CommitIn : resume <= x
      BY DEF IInv, TypeOK, Capabilities
    <3>2. CASE e \in FrontierIn'
      <4>1. PICK y \in FrontierIn : y <= e
        BY <3>2
      <4>2. y \in Nat /\ e \in Nat /\ resume <= y
        BY <1>5, <3>1, <3>2 DEF CommitIn
      <4>3. QED
        BY <3>1, <4>1, <4>2
    <3>3. CASE e \in Caps(frontCap) \cup Epochs(frontMsgs)
      BY <3>1, <3>3 DEF CommitIn
    <3>4. QED
      BY <2>1, <3>2, <3>3
  <2>3. \A w \in WorkerIds : \A c \in frontCap'[w] : \A e \in FrontierIn' : c <= e
    <3> SUFFICES ASSUME NEW w \in WorkerIds, NEW c \in frontCap[w], NEW e \in FrontierIn'
                 PROVE  c <= e
      BY <1>1
    <3>1. c \in Nat /\ \A x \in FrontierIn : c <= x
      BY DEF IInv, TypeOK, Capabilities
    <3>2. PICK y \in FrontierIn : y <= e
      OBVIOUS
    <3>3. QED
      BY <1>5, <3>1, <3>2
  <2>4. \A w \in Live : frontCap[w] = {} => FrontierIn' = {}
    BY DEF IInv, Capabilities
  <2>5. QED
    BY <1>1, <1>2, <2>2, <2>3, <2>4 DEF IInv, Capabilities
<1>10. Reports'
  <2>1. ASSUME NEW f \in Nat, \A x \in FrontierIn : f <= x
        PROVE  \A x \in FrontierIn' : f <= x
    <3> SUFFICES ASSUME NEW x \in FrontierIn' PROVE f <= x
      OBVIOUS
    <3>1. PICK y \in FrontierIn : y <= x
      OBVIOUS
    <3>2. QED
      BY <1>5, <2>1, <3>1
  <2>2. \A m \in frontMsgs : m.front \in Nat
    BY DEF IInv, TypeOK, FrontMsgs
  <2>3. \A f \in AllRows(fronts) : f.front \in Nat
    BY DEF IInv, TypeOK, FrontRows, AllRows
  <2>4. ASSUME NEW m \in frontMsgs PROVE \A e \in FrontierIn' : m.front <= e
    BY <2>1, <2>2 DEF IInv, Reports
  <2>5. ASSUME NEW f \in AllRows(fronts), f.ex = ex PROVE \A e \in FrontierIn' : f.front <= e
    BY <2>1, <2>3, <2>5 DEF IInv, Reports
  <2>6. QED
    BY <1>1, <1>2, <2>4, <2>5 DEF IInv, Reports
<1>11. NoGaps'
  BY <1>1, <1>2, <1>4 DEF IInv, NoGaps, Caps, Epochs
<1>12. Ahead'
  BY <1>1, <1>3 DEF IInv, Ahead, Reachable, Caps
<1>13. OneEpochAhead'
  BY <1>2 DEF OneEpochAhead
<1>14. CommittedNeverReplayed'
  BY <1>1, <1>2 DEF IInv, CommittedNeverReplayed
<1>15. QED
  BY <1>6, <1>7, <1>8, <1>9, <1>10, <1>11, <1>12, <1>13, <1>14 DEF IInv

-----------------------------------------------------------------------------
(* The input. *)

(* A partition is polled only in an epoch that every worker has reported:   *)
(* what backpressure is for.                                                *)
LEMMA UnblockedReported ==
  ASSUME IInv, NEW s \in Srcs, NEW e \in srcCap[s], ~ Backpressured(e)
  PROVE  Running /\ e \in Nat /\ e \in StepIn /\ AllReported(e)
<1>1. TypeOK /\ e \in Nat
  BY DEF IInv, TypeOK
<1>2. e \in Caps(srcCap)
  BY <1>1 DEF Caps, TypeOK
<1>3. Running
  BY <1>1, <1>2 DEF IInv, Quiet, Running, TypeOK
<1>4. e \in StepIn /\ e \in FrontierIn
  BY <1>2 DEF StepIn, SnapIn, FrontierIn
<1>5. ASSUME NEW w \in Live PROVE Reported(w, e)
  <2>1. w \in WorkerIds
    BY <1>1, <1>3 DEF TypeOK, Running, Live, WorkerIds
  <2>2. PICK c \in frontCap[w] : TRUE
    BY <1>3, <1>4 DEF IInv, Capabilities
  <2>3. c \in Nat /\ c \in Probe
    BY <1>1, <2>1 DEF TypeOK, Probe, CommitIn, Caps
  <2>4. e <= c
    BY <1>1, <2>3 DEF Backpressured, LessThan
  <2>5. Covered(w, e)
    BY <1>1, <2>1, <2>3, <2>4 DEF IInv, NoGaps
  <2>6. \A m \in frontMsgs : ~ (m.epoch < e)
    BY <1>1 DEF Backpressured, LessThan, Probe, CommitIn, Epochs
  <2>7. QED
    BY <2>5, <2>6 DEF Covered
<1>6. QED
  BY <1>1, <1>3, <1>4, <1>5 DEF AllReported

(* A poll of a partition in epoch e sends items and snapshots in e and      *)
(* leaves the partition in e, in a later epoch, or nowhere.                 *)
LEMMA InputStep ==
  ASSUME IInv, TypeOK', NEW s \in Srcs, NEW e \in srcCap[s], ~ Backpressured(e),
         NEW N, \A x \in N : e <= x, \A x, y \in N : x = y,
         srcCap' = [srcCap EXCEPT ![s] = N],
         \A m \in items' : m \in items \/ m.epoch = e,
         \A m \in snapMsgs' : m \in snapMsgs \/ m.epoch = e,
         UNCHANGED <<process, step, exMsg, frontCap, frontMsgs, ticks, store>>
  PROVE  IInv'
<1>1. Running /\ e \in Nat /\ e \in StepIn /\ AllReported(e)
  BY UnblockedReported
<1>2. TypeOK /\ EpochsTyped /\ EpochsTyped'
  BY FrontiersTyped, NextFrontiersTyped DEF IInv
<1>3. /\ opCap' = opCap /\ snaps' = snaps /\ exMsg' = exMsg /\ resume' = resume
      /\ frontCap' = frontCap
      /\ UNCHANGED <<process, exMsg, frontCap, frontMsgs, ticks, exs, fronts, commits>>
  BY DEF step, store, process
<1>4. \A x \in Caps(srcCap)' : x \in Caps(srcCap) \/ e <= x
  BY <1>2 DEF Caps, TypeOK
<1>5. \A x \in StepIn' : x \in StepIn \/ e <= x
  BY <1>1, <1>4 DEF StepIn, Epochs
<1>6. \A x \in StepIn' : \E y \in StepIn : y <= x
  BY <1>1, <1>2, <1>5 DEF EpochsTyped
<1>7. \A x \in FrontierIn' : \E y \in FrontierIn : y <= x
  <2> SUFFICES ASSUME NEW x \in FrontierIn'
               PROVE  \E y \in FrontierIn : y <= x
    OBVIOUS
  <2>1. x \in Nat /\ e \in FrontierIn
    BY <1>1, <1>2 DEF EpochsTyped, FrontierIn, SnapIn
  <2>2. x \in FrontierIn \/ e <= x
    BY <1>1, <1>3, <1>5 DEF FrontierIn, SnapIn, Epochs, Caps
  <2>3. QED
    BY <1>1, <2>1, <2>2
<1>8. \A w \in WorkerIds : \A c \in opCap'[w] : \A x \in StepIn' : c <= x
  <2> SUFFICES ASSUME NEW w \in WorkerIds, NEW c \in opCap[w], NEW x \in StepIn'
               PROVE  c <= x
    BY <1>3
  <2>1. PICK y \in StepIn : y <= x
    BY <1>6
  <2>2. c \in Nat /\ c <= y
    BY <1>2 DEF IInv, Capabilities, TypeOK
  <2>3. QED
    BY <1>2, <2>1, <2>2 DEF EpochsTyped
<1>9. ASSUME NEW c \in Nat, c <= e, Reachable(c)
      PROVE  AllReported(c) \/ \E x \in Caps(srcCap)' : x <= c
  <2> SUFFICES ASSUME NEW x \in Caps(srcCap), x <= c
               PROVE  AllReported(c) \/ \E z \in Caps(srcCap)' : z <= c
    BY <1>9 DEF Reachable
  <2>1. PICK t \in Srcs : x \in srcCap[t]
    BY <1>2 DEF Caps, TypeOK
  <2>2. CASE t = s
    <3>1. x = e
      BY <2>1, <2>2 DEF IInv, Capabilities
    <3>2. QED
      BY <1>1, <1>9, <3>1
  <2>3. CASE t # s
    BY <1>2, <2>1, <2>3 DEF Caps, TypeOK
  <2>4. QED
    BY <2>2, <2>3
<1>10. \A c \in Caps(opCap)' : AllReported(c) \/ \E x \in Caps(srcCap)' : x <= c
  <2> SUFFICES ASSUME NEW w \in WorkerIds, NEW c \in opCap[w]
               PROVE  AllReported(c) \/ \E x \in Caps(srcCap)' : x <= c
    BY <1>2, <1>3 DEF Caps, TypeOK
  <2>1. c \in Nat /\ c <= e /\ c \in Caps(opCap)
    BY <1>1, <1>2 DEF IInv, Capabilities, TypeOK, Caps
  <2>2. QED
    BY <1>9, <2>1 DEF IInv, Ahead
<1>11. \A c \in Caps(frontCap) : AllReported(c) \/ \E x \in Caps(srcCap)' : x <= c
  <2> SUFFICES ASSUME NEW w \in WorkerIds, NEW c \in frontCap[w]
               PROVE  AllReported(c) \/ \E x \in Caps(srcCap)' : x <= c
    BY <1>2 DEF Caps, TypeOK
  <2>1. c \in Nat /\ c <= e /\ c \in Caps(frontCap)
    BY <1>1, <1>2 DEF IInv, Capabilities, TypeOK, Caps, FrontierIn, SnapIn
  <2>2. QED
    BY <1>9, <2>1 DEF IInv, Ahead
<1>12. /\ \A m \in items' : AllReported(m.epoch)
       /\ \A m \in snapMsgs' : AllReported(m.epoch)
  BY <1>1 DEF IInv, Ahead
<1>13. \A r \in AllRows(snaps)' : r.epoch <= StoreResume.epoch
  BY <1>3 DEF IInv, OneEpochAhead, AllRows
<1>14. /\ \A t \in Srcs : \A a, b \in srcCap'[t] : a = b
       /\ \A w \in WorkerIds : \A a, b \in opCap'[w] : a = b
  BY <1>2, <1>3 DEF IInv, Capabilities, TypeOK
<1>15. QED
  BY <1>1, <1>3, <1>7, <1>8, <1>10, <1>11, <1>12, <1>13, <1>14, UpstreamStep

(* Polling a partition keeps the invariant ... *)
LEMMA InvNextBatch ==
  ASSUME IInv, NEW s \in Srcs, NEW n \in BatchSizes, NEW b \in BOOLEAN, NextBatch(s, n, b)
  PROVE  IInv'
<1>1. TypeOK /\ TypeOK'
  BY TypeNextBatch DEF IInv
<1>2. PICK e \in srcCap[s] :
        /\ ~ Backpressured(e)
        /\ items' = items \cup {[item |-> <<s, i>>, epoch |-> e] :
                                  i \in (offset[s] + 1) .. (offset[s] + n)}
        /\ IF b
             THEN /\ snapMsgs' = snapMsgs \cup {SourceSnap(s, offset[s] + n, e)}
                  /\ srcCap' = [srcCap EXCEPT ![s] = {e + 1}]
             ELSE UNCHANGED <<snapMsgs, srcCap>>
        /\ UNCHANGED <<process, step, exMsg, frontCap, frontMsgs, ticks, store>>
  BY DEF NextBatch
<1>3. \A m \in items' : m \in items \/ m.epoch = e
  BY <1>2
<1>4. \A m \in snapMsgs' : m \in snapMsgs \/ m.epoch = e
  BY <1>2 DEF SourceSnap
<1>5. e \in Nat
  BY <1>1 DEF TypeOK
<1>6. CASE b
  <2> DEFINE N == {e + 1}
  <2>1. srcCap' = [srcCap EXCEPT ![s] = N] /\ (\A x \in N : e <= x) /\ \A x, y \in N : x = y
    BY <1>2, <1>5, <1>6
  <2> HIDE DEF N
  <2>2. QED
    BY <1>1, <1>2, <1>3, <1>4, <2>1, InputStep
<1>7. CASE ~ b
  <2> DEFINE N == {e}
  <2>1. srcCap[s] = N
    BY DEF IInv, Capabilities
  <2>2. srcCap' = [srcCap EXCEPT ![s] = N] /\ (\A x \in N : e <= x) /\ \A x, y \in N : x = y
    BY <1>1, <1>2, <1>5, <1>7, <2>1 DEF TypeOK
  <2> HIDE DEF N
  <2>3. QED
    BY <1>1, <1>2, <1>3, <1>4, <2>2, InputStep
<1>8. QED
  BY <1>6, <1>7

(* ... and so does its end. *)
LEMMA InvSourceEof ==
  ASSUME IInv, NEW s \in Srcs, SourceEof(s)
  PROVE  IInv'
<1>1. TypeOK /\ TypeOK'
  BY TypeSourceEof DEF IInv
<1>2. PICK e \in srcCap[s] :
        /\ ~ Backpressured(e)
        /\ snapMsgs' = snapMsgs \cup {SourceSnap(s, offset[s], e)}
        /\ srcCap' = [srcCap EXCEPT ![s] = {}]
        /\ UNCHANGED <<process, items, step, exMsg, frontCap, frontMsgs, ticks, store>>
  BY DEF SourceEof
<1>3. \A m \in snapMsgs' : m \in snapMsgs \/ m.epoch = e
  BY <1>2 DEF SourceSnap
<1>4. (\A x \in {} : e <= x) /\ \A x, y \in {} : x = y
  OBVIOUS
<1>5. items' = items
  BY <1>2
<1>6. QED
  BY <1>1, <1>2, <1>3, <1>4, <1>5, InputStep

-----------------------------------------------------------------------------
(* The stateful step and the snapshot writer. *)

(* Applying an item only takes it away from the frontier. *)
LEMMA InvOnItem ==
  ASSUME IInv, NEW m \in items, OnItem(m)
  PROVE  IInv'
<1>1. TypeOK /\ TypeOK' /\ Running
  BY TypeOnItem DEF IInv, Quiet, TypeOK, Running
<1>2. /\ items' \subseteq items /\ srcCap' = srcCap /\ opCap' = opCap
      /\ snapMsgs' = snapMsgs /\ snaps' = snaps /\ exMsg' = exMsg /\ resume' = resume
      /\ UNCHANGED <<process, exMsg, frontCap, frontMsgs, ticks, exs, fronts, commits>>
  BY DEF OnItem, InbufRemove, process, input, store
<1>3. StepIn' \subseteq StepIn /\ FrontierIn' \subseteq FrontierIn
  BY <1>2 DEF StepIn, SnapIn, FrontierIn, Epochs, Caps
<1>4. \A x \in FrontierIn' : \E y \in FrontierIn : y <= x
  <2>1. FrontierIn \subseteq Nat
    BY <1>1, FrontiersTyped DEF EpochsTyped
  <2>2. \A x \in FrontierIn' : x \in FrontierIn /\ x <= x
    BY <1>3, <2>1
  <2>3. QED
    BY <2>2
<1>5. /\ \A s \in Srcs : \A a, b \in srcCap'[s] : a = b
      /\ \A w \in WorkerIds : \A a, b \in opCap'[w] : a = b
      /\ \A w \in WorkerIds : \A c \in opCap'[w] : \A e \in StepIn' : c <= e
  BY <1>2, <1>3 DEF IInv, Capabilities
<1>6. /\ \A q \in items' : AllReported(q.epoch)
      /\ \A q \in snapMsgs' : AllReported(q.epoch)
      /\ \A e \in Caps(opCap)' : AllReported(e) \/ \E x \in Caps(srcCap)' : x <= e
      /\ \A e \in Caps(frontCap) : AllReported(e) \/ \E x \in Caps(srcCap)' : x <= e
  BY <1>2 DEF IInv, Ahead, Reachable, Caps
<1>7. \A r \in AllRows(snaps)' : r.epoch <= StoreResume.epoch
  BY <1>2 DEF IInv, OneEpochAhead, AllRows
<1>8. QED
  BY <1>1, <1>2, <1>4, <1>5, <1>6, <1>7, UpstreamStep

(* A closed epoch of the step is one that every worker has reported, and    *)
(* the capability moves to an epoch that is still open.                     *)
LEMMA InvCloseEpoch ==
  ASSUME IInv, NEW w \in WorkerIds, CloseEpoch(w)
  PROVE  IInv'
<1>1. PICK c \in opCap[w] :
        /\ IsClosed(StepIn, c)
        /\ snapMsgs' \subseteq snapMsgs \cup {KeySnap(k, c) : k \in Keys}
        /\ opCap' = [opCap EXCEPT ![w] = Simplify(StepIn)]
  BY DEF CloseEpoch, MyKeys
<1>2. TypeOK /\ TypeOK' /\ EpochsTyped /\ c \in Nat /\ c \in Caps(opCap)
  <2>1. TypeOK /\ TypeOK' /\ EpochsTyped
    BY TypeCloseEpoch, FrontiersTyped DEF IInv
  <2>2. c \in Nat /\ c \in Caps(opCap)
    BY <2>1 DEF TypeOK, Caps
  <2>3. QED
    BY <2>1, <2>2
<1>3. Running
  BY <1>2 DEF IInv, Quiet, TypeOK, Running
<1>4. /\ items' = items /\ srcCap' = srcCap /\ snaps' = snaps /\ exMsg' = exMsg
      /\ resume' = resume
      /\ UNCHANGED <<process, exMsg, frontCap, frontMsgs, ticks, exs, fronts, commits>>
  BY DEF CloseEpoch, process, input, store
<1>5. \A q \in snapMsgs' : q \in snapMsgs \/ q.epoch = c
  BY <1>1 DEF KeySnap
<1>6. AllReported(c)
  <2>1. \A x \in Caps(srcCap) : x \in Nat /\ c < x
    BY <1>1, <1>2 DEF IsClosed, StepIn, EpochsTyped
  <2>2. QED
    BY <1>2, <2>1 DEF IInv, Ahead, Reachable
<1>7. \A x \in Caps(opCap)' : x \in Caps(opCap) \/ x \in StepIn
  BY <1>1, <1>2 DEF Caps, Simplify, TypeOK
<1>8. StepIn' = StepIn
  BY <1>4 DEF StepIn, Caps, Epochs
<1>9. FrontierIn' \subseteq FrontierIn
  <2>1. Epochs(snapMsgs)' \subseteq Epochs(snapMsgs) \cup Caps(opCap)
    BY <1>2, <1>5 DEF Epochs
  <2>2. SnapIn' \subseteq SnapIn
    BY <1>7, <1>8, <2>1 DEF SnapIn
  <2>3. QED
    BY <1>4, <2>2 DEF FrontierIn
<1>10. \A x \in FrontierIn' : \E y \in FrontierIn : y <= x
  <2>1. \A x \in FrontierIn' : x \in FrontierIn /\ x <= x
    BY <1>2, <1>9 DEF EpochsTyped
  <2>2. QED
    BY <2>1
<1>11. /\ \A s \in Srcs : \A a, b \in srcCap'[s] : a = b
       /\ \A q \in items' : AllReported(q.epoch)
       /\ \A q \in snapMsgs' : AllReported(q.epoch)
       /\ \A e \in Caps(frontCap) : AllReported(e) \/ \E x \in Caps(srcCap)' : x <= e
  BY <1>4, <1>5, <1>6 DEF IInv, Capabilities, Ahead, Reachable, Caps
<1>12. /\ \A v \in WorkerIds : \A a, b \in opCap'[v] : a = b
       /\ \A v \in WorkerIds : \A a \in opCap'[v] : \A e \in StepIn' : a <= e
  <2>1. \A a \in Simplify(StepIn) : a \in Nat /\ \A e \in StepIn : a <= e
    BY <1>2 DEF Simplify, EpochsTyped
  <2>2. \A a, b \in Simplify(StepIn) : a = b
    BY <1>2 DEF Simplify, EpochsTyped
  <2>3. \A v \in WorkerIds : opCap'[v] = opCap[v] \/ opCap'[v] = Simplify(StepIn)
    BY <1>1, <1>2 DEF TypeOK
  <2>4. QED
    BY <1>8, <2>1, <2>2, <2>3 DEF IInv, Capabilities
<1>13. \A e \in Caps(opCap)' : AllReported(e) \/ \E x \in Caps(srcCap)' : x <= e
  <2> SUFFICES ASSUME NEW e \in Caps(opCap)'
               PROVE  AllReported(e) \/ \E x \in Caps(srcCap) : x <= e
    BY <1>4 DEF Caps
  <2>1. CASE e \in Caps(opCap)
    BY <2>1 DEF IInv, Ahead, Reachable
  <2>2. CASE e \in Epochs(items)
    BY <2>2 DEF IInv, Ahead, Epochs
  <2>3. CASE e \in Caps(srcCap)
    <3>1. e <= e
      BY <1>2, <2>3 DEF EpochsTyped, StepIn
    <3>2. QED
      BY <2>3, <3>1
  <2>4. QED
    BY <1>7, <2>1, <2>2, <2>3 DEF StepIn
<1>14. \A r \in AllRows(snaps)' : r.epoch <= StoreResume.epoch
  BY <1>4 DEF IInv, OneEpochAhead, AllRows
<1>15. QED
  BY <1>2, <1>3, <1>4, <1>10, <1>11, <1>12, <1>13, <1>14, UpstreamStep

(* A snapshot is written in an epoch that every worker has reported, so not *)
(* past the epoch a resume would replay.                                    *)
LEMMA InvWriteSnapshot ==
  ASSUME IInv, NEW m \in snapMsgs, WriteSnapshot(m)
  PROVE  IInv'
<1>1. TypeOK /\ TypeOK' /\ EpochsTyped
  BY TypeWriteSnapshot, FrontiersTyped DEF IInv
<1>2. Running /\ m.epoch \in Nat
  BY <1>1 DEF IInv, Quiet, TypeOK, Running, SnapRows
<1>3. /\ items' = items /\ srcCap' = srcCap /\ opCap' = opCap /\ snapMsgs' \subseteq snapMsgs
      /\ snaps' = [snaps EXCEPT ![SnapPart[m.id]] = UpsertSnap(@, m)]
      /\ exMsg' = exMsg /\ resume' = resume
      /\ UNCHANGED <<process, exMsg, frontCap, frontMsgs, ticks, exs, fronts, commits>>
  BY DEF WriteSnapshot, process, input, step
<1>4. StepIn' = StepIn /\ FrontierIn' \subseteq FrontierIn
  BY <1>3 DEF StepIn, SnapIn, FrontierIn, Epochs, Caps
<1>5. \A x \in FrontierIn' : \E y \in FrontierIn : y <= x
  <2>1. \A x \in FrontierIn' : x \in FrontierIn /\ x <= x
    BY <1>1, <1>4 DEF EpochsTyped
  <2>2. QED
    BY <2>1
<1>6. /\ \A s \in Srcs : \A a, b \in srcCap'[s] : a = b
      /\ \A w \in WorkerIds : \A a, b \in opCap'[w] : a = b
      /\ \A w \in WorkerIds : \A c \in opCap'[w] : \A e \in StepIn' : c <= e
  BY <1>3, <1>4 DEF IInv, Capabilities
<1>7. /\ \A q \in items' : AllReported(q.epoch)
      /\ \A q \in snapMsgs' : AllReported(q.epoch)
      /\ \A e \in Caps(opCap)' : AllReported(e) \/ \E x \in Caps(srcCap)' : x <= e
      /\ \A e \in Caps(frontCap) : AllReported(e) \/ \E x \in Caps(srcCap)' : x <= e
  BY <1>3 DEF IInv, Ahead, Reachable, Caps
<1>8. m.epoch <= StoreResume.epoch
  BY <1>2, ResumeIsReported DEF IInv, Ahead, ResumeReported
<1>9. \A r \in AllRows(snaps)' : r \in AllRows(snaps) \/ r = m
  BY <1>1, <1>3 DEF AllRows, UpsertSnap, TypeOK
<1>10. \A r \in AllRows(snaps)' : r.epoch <= StoreResume.epoch
  BY <1>8, <1>9 DEF IInv, OneEpochAhead
<1>11. QED
  BY <1>1, <1>2, <1>3, <1>5, <1>6, <1>7, <1>10, UpstreamStep

-----------------------------------------------------------------------------
(* The writers of progress. *)

(* When nothing that was reported is forgotten the resume epoch does not go *)
(* back, and the rows and commits bounded by it stay so.                    *)
LEMMA ReportsGrow ==
  ASSUME ResumeReported, ResumeReported', OneEpochAhead, CommittedNeverReplayed,
         TypeOK,
         \A v \in Nat : AllReported(v) => AllReported(v)',
         UNCHANGED <<snaps, commits>>
  PROVE  /\ StoreResume.epoch <= StoreResume'.epoch
         /\ OneEpochAhead' /\ CommittedNeverReplayed'
<1>1. StoreResume.epoch \in Nat /\ StoreResume'.epoch \in Nat
  BY DEF ResumeReported
<1>2. StoreResume.epoch <= StoreResume'.epoch
  <2>1. PICK v \in Nat : v = StoreResume.epoch
    BY <1>1
  <2>2. AllReported(v)
    BY <2>1 DEF ResumeReported
  <2>3. AllReported(v)'
    BY <2>2
  <2>4. v <= StoreResume'.epoch
    BY <2>3 DEF ResumeReported
  <2>5. QED
    BY <2>1, <2>4
<1>3. OneEpochAhead'
  <2>1. \A r \in AllRows(snaps) : r.epoch \in Nat /\ r.epoch <= StoreResume.epoch
    BY DEF TypeOK, AllRows, SnapRows, OneEpochAhead
  <2>2. \A r \in AllRows(snaps) : r.epoch <= StoreResume'.epoch
    BY <1>1, <1>2, <2>1
  <2>3. QED
    BY <2>2 DEF OneEpochAhead, AllRows
<1>4. CommittedNeverReplayed'
  <2>1. \A p \in Parts : \A c \in commits[p] : c \in Nat /\ c < StoreResume.epoch
    BY DEF TypeOK, CommittedNeverReplayed
  <2>2. \A p \in Parts : \A c \in commits[p] : c < StoreResume'.epoch
    BY <1>1, <1>2, <2>1
  <2>3. QED
    BY <2>2 DEF CommittedNeverReplayed
<1>5. QED
  BY <1>2, <1>3, <1>4

(* The execution row takes over from the rows that the execution resumed    *)
(* from, without moving the resume epoch.                                   *)
LEMMA InvWriteExecution ==
  ASSUME IInv, WriteExecution
  PROVE  IInv' /\ StoreResume.epoch <= StoreResume'.epoch
<1> DEFINE row == [ex |-> ex, count |-> workers, resume |-> resume]
<1>1. TypeOK /\ TypeOK' /\ Running
  <2>1. TypeOK /\ TypeOK'
    BY TypeWriteExecution DEF IInv
  <2>2. up = "down" \/ up = "running"
    BY <2>1 DEF TypeOK
  <2>3. QED
    BY <2>1, <2>2 DEF IInv, Quiet, Running, WriteExecution
<1>2. /\ up' = up /\ runs' = runs /\ ex' = ex /\ resume' = resume /\ workers' = workers
      /\ srcCap' = srcCap /\ items' = items /\ opCap' = opCap /\ awoken' = awoken
      /\ snapMsgs' = snapMsgs /\ frontCap' = frontCap /\ frontMsgs' = frontMsgs
      /\ ticks' = ticks /\ fronts' = fronts /\ snaps' = snaps /\ commits' = commits
      /\ exMsg /\ ~ exMsg'
      /\ exs' = [exs EXCEPT ![ExPart[ex]] = @ \cup {row}]
  BY DEF WriteExecution, process, input, step
<1>3. ex \in Nat /\ ex < runs /\ ex \in 0 .. MaxRuns /\ ExPart[ex] \in Parts
  <2>1. ex \in Nat /\ ex < runs /\ runs \in 0 .. MaxRuns
    BY <1>1 DEF IInv, ExecutionRow, TypeOK
  <2>2. ex \in 0 .. MaxRuns
    BY <2>1, BoundAssumption
  <2>3. QED
    BY <2>1, <2>2, PartAssumption
<1>4. AllRows(exs)' = AllRows(exs) \cup {row}
  <2>1. DOMAIN exs = Parts
    BY <1>1 DEF TypeOK
  <2>2. QED
    BY <1>2, <1>3, <2>1 DEF AllRows
<1>5. \A r \in AllRows(exs) : r.ex \in Nat /\ r.ex < ex
  BY <1>1, <1>2 DEF IInv, ExecutionRow, TypeOK, AllRows, ExRows
<1>6. row.ex = ex
  OBVIOUS
<1>7. \A p \in Parts : \A r \in exs'[p] : r \in exs[p] \/ (r = row /\ p = ExPart[ex])
  BY <1>1, <1>2, <1>3 DEF TypeOK
<1>8. /\ AllRows(fronts)' = AllRows(fronts) /\ Live' = Live /\ Running'
      /\ FrontierIn' \subseteq FrontierIn /\ StepIn' = StepIn
  BY <1>1, <1>2 DEF AllRows, Live, Running, FrontierIn, SnapIn, StepIn, Caps, Epochs
<1> HIDE DEF row
<1>9. \A v : AllReported(v)' <=> AllReported(v)
  BY <1>2, <1>8 DEF AllReported, Reported
<1>10. \A w, v : Covered(w, v)' <=> Covered(w, v)
  BY <1>2, <1>8 DEF Covered, Reported
<1>11. StoreKeys'
  <2>1. \A p \in Parts : \A r \in exs'[p] : r.ex < runs' /\ p = ExPart[r.ex]
    BY <1>2, <1>3, <1>6, <1>7 DEF IInv, StoreKeys
  <2>2. \A p \in Parts : \A r, q \in exs'[p] : r.ex = q.ex => r = q
    <3>1. \A p \in Parts : \A r \in exs[p] : r.ex < ex /\ r.ex \in Nat
      BY <1>5 DEF AllRows
    <3>2. QED
      BY <1>3, <1>6, <1>7, <3>1 DEF IInv, StoreKeys
  <2>3. \A f \in AllRows(fronts)' : \E r \in AllRows(exs)' : r.ex = f.ex /\ f.worker < r.count
    BY <1>4, <1>8 DEF IInv, StoreKeys
  <2>4. fronts' = fronts /\ runs' = runs
    BY <1>2
  <2>5. QED
    BY <2>1, <2>2, <2>3, <2>4, Zenon DEF IInv, StoreKeys
<1>12. ExecutionRow'
  <2>1. row \in AllRows(exs)' /\ \A r \in AllRows(exs)' : r.ex <= ex
    BY <1>3, <1>4, <1>5, <1>6
  <2>2. QED
    BY <1>2, <1>3, <2>1 DEF ExecutionRow, row
<1>13. Quiet'
  BY <1>8 DEF Quiet, Running
<1>14. Capabilities'
  <2>1. CommitIn' \subseteq CommitIn
    BY <1>2, <1>8 DEF CommitIn, Caps, Epochs
  <2>2. QED
    BY <1>1, <1>2, <1>8, <2>1 DEF IInv, Capabilities
<1>15. Reports'
  BY <1>1, <1>2, <1>8 DEF IInv, Reports
<1>16. NoGaps'
  BY <1>1, <1>2, <1>8, <1>10 DEF IInv, NoGaps, Caps, Epochs
<1>17. Ahead'
  BY <1>2, <1>9 DEF IInv, Ahead, Reachable, Caps
<1>18. /\ StoreResume.epoch <= StoreResume'.epoch
       /\ OneEpochAhead' /\ CommittedNeverReplayed'
  <2>1. ResumeReported /\ ResumeReported'
    BY <1>1, <1>8, <1>11, <1>12, ResumeIsReported, NextResumeIsReported DEF IInv
  <2>2. QED
    BY <1>1, <1>2, <1>9, <2>1, ReportsGrow DEF IInv
<1>19. QED
  BY <1>1, <1>11, <1>12, <1>13, <1>14, <1>15, <1>16, <1>17, <1>18 DEF IInv

(* A worker reports an epoch as soon as the frontier passed its capability: *)
(* the report continues the worker's earlier ones without a gap.            *)
LEMMA InvEmitFrontier ==
  ASSUME IInv, NEW w \in WorkerIds, EmitFrontier(w)
  PROVE  IInv'
<1>0. PICK c \in frontCap[w] :
        /\ IsClosed(FrontierIn, c)
        /\ \E f \in FrontierEpoch(c) :
             frontMsgs' = frontMsgs \cup {[ex |-> ex, worker |-> w, front |-> f, epoch |-> c]}
  BY DEF EmitFrontier
<1>1. PICK f \in FrontierEpoch(c) :
        frontMsgs' = frontMsgs \cup {[ex |-> ex, worker |-> w, front |-> f, epoch |-> c]}
  BY <1>0
<1> DEFINE m0 == [ex |-> ex, worker |-> w, front |-> f, epoch |-> c]
           S == Simplify(FrontierIn)
<1>2. TypeOK /\ TypeOK' /\ EpochsTyped
  BY TypeEmitFrontier, FrontiersTyped DEF IInv
<1>3. /\ c \in Nat /\ FrontierIn \subseteq Nat /\ S \subseteq FrontierIn
      /\ c \in Caps(frontCap) /\ resume \in Nat
  <2>1. c \in Nat /\ c \in Caps(frontCap) /\ resume \in Nat
    BY <1>2 DEF TypeOK, Caps
  <2>2. QED
    BY <1>2, <2>1 DEF EpochsTyped, Simplify
<1>4. Running
  <2>1. up = "down" \/ up = "running"
    BY <1>2 DEF TypeOK
  <2>2. QED
    BY <1>3, <2>1 DEF IInv, Quiet, Running
<1>5. w \in Live /\ ~ exMsg
  <2>1. w \in Live /\ resume <= c
    BY <1>3 DEF IInv, Capabilities, CommitIn
  <2>2. exMsg => resume \in FrontierIn
    BY DEF FrontierIn
  <2>3. QED
    BY <1>0, <1>3, <2>1, <2>2 DEF IsClosed
<1>6. /\ up' = up /\ runs' = runs /\ ex' = ex /\ resume' = resume /\ workers' = workers
      /\ srcCap' = srcCap /\ items' = items /\ opCap' = opCap /\ awoken' = awoken
      /\ snapMsgs' = snapMsgs /\ exMsg' = exMsg /\ ticks' = ticks
      /\ exs' = exs /\ fronts' = fronts /\ snaps' = snaps /\ commits' = commits
      /\ frontCap' = [frontCap EXCEPT ![w] = S]
      /\ frontMsgs' = frontMsgs \cup {m0}
  BY <1>1 DEF EmitFrontier, process, input, step, store
<1>7. /\ AllRows(exs)' = AllRows(exs) /\ AllRows(fronts)' = AllRows(fronts)
      /\ StoreResume' = StoreResume /\ Live' = Live /\ Running'
      /\ FrontierIn' = FrontierIn /\ StepIn' = StepIn /\ Caps(srcCap)' = Caps(srcCap)
      /\ Caps(opCap)' = Caps(opCap) /\ Caps(ticks)' = Caps(ticks)
  BY <1>4, <1>6
     DEF AllRows, StoreResume, Live, Running, FrontierIn, SnapIn, StepIn, Caps, Epochs
<1>8. /\ frontCap'[w] = S
      /\ \A v \in WorkerIds : v # w => frontCap'[v] = frontCap[v]
      /\ \A e \in Caps(frontCap)' : e \in Caps(frontCap) \/ e \in S
  <2>1. frontCap \in [WorkerIds -> SUBSET Nat]
    BY <1>2 DEF TypeOK
  <2>2. QED
    BY <1>6, <2>1 DEF Caps
<1>9. \A v : AllReported(v)' <=> AllReported(v)
  BY <1>6, <1>7 DEF AllReported, Reported
<1>10. \A v, x : Covered(v, x) => Covered(v, x)'
  BY <1>6, <1>7 DEF Covered, Reported
<1>11. \A a \in S : \A e \in FrontierIn : a <= e
  BY DEF Simplify
<1>12. S = {} => FrontierIn = {}
  <2> SUFFICES ASSUME FrontierIn # {} PROVE S # {}
    OBVIOUS
  <2>1. Min(FrontierIn) \in S
    BY <1>3, MinIsLeast DEF Simplify
  <2>2. QED
    BY <2>1
<1>13. /\ f \in Nat /\ c < f
       /\ \A e \in FrontierIn : f <= e
       /\ \A a \in S : a = f
       /\ FrontierIn = {} => f = c + 1
  <2>1. CASE FrontierIn = {}
    BY <1>3, <2>1 DEF FrontierEpoch, IsEof
  <2>2. CASE FrontierIn # {}
    <3>1. f \in S
      BY <2>2 DEF FrontierEpoch, IsEof
    <3>2. f \in FrontierIn /\ f \in Nat /\ \A a \in S : a \in Nat /\ a \in FrontierIn
      BY <1>3, <3>1
    <3>3. \A a \in S : a <= f /\ f <= a
      BY <1>11, <3>1, <3>2
    <3>4. \A a \in S : a = f
      BY <3>2, <3>3
    <3>5. QED
      BY <1>0, <1>11, <2>2, <3>1, <3>2, <3>4 DEF IsClosed
  <2>3. QED
    BY <2>1, <2>2
<1>14. m0.ex = ex /\ m0.worker = w /\ m0.front = f /\ m0.epoch = c
  OBVIOUS
<1> HIDE DEF m0, S
<1>15. Epochs(frontMsgs)' = Epochs(frontMsgs) \cup {c}
  BY <1>6, <1>14 DEF Epochs
(* The reported epoch is one that all workers had reported. *)
<1>16. AllReported(c)
  <2>1. \A x \in Caps(srcCap) : x \in Nat /\ c < x
    BY <1>0, <1>3 DEF IsClosed, FrontierIn, SnapIn, StepIn
  <2>2. QED
    BY <1>3, <2>1 DEF IInv, Ahead, Reachable
<1>17. Quiet'
  BY <1>7 DEF Quiet, Running
<1>18. StoreKeys'
  BY <1>6, <1>7 DEF IInv, StoreKeys
<1>19. ExecutionRow'
  BY <1>4, <1>5, <1>6, <1>7 DEF IInv, ExecutionRow
<1>20. Capabilities'
  <2>1. \A v \in WorkerIds : \A a, b \in frontCap'[v] : a = b
    BY <1>8, <1>13 DEF IInv, Capabilities
  <2>2. \A v \in WorkerIds : frontCap'[v] # {} => v \in Live
    BY <1>5, <1>8 DEF IInv, Capabilities
  <2>3. \A e \in CommitIn' : resume <= e
    <3>1. CommitIn' \subseteq CommitIn
      BY <1>3, <1>7, <1>8, <1>15 DEF CommitIn
    <3>2. QED
      BY <3>1 DEF IInv, Capabilities
  <2>4. \A v \in WorkerIds : \A a \in frontCap'[v] : \A e \in FrontierIn : a <= e
    BY <1>8, <1>11 DEF IInv, Capabilities
  <2>5. \A v \in Live : frontCap'[v] = {} => FrontierIn = {}
    <3>1. \A v \in Live : v \in WorkerIds
      BY <1>2, <1>4 DEF TypeOK, Running, Live, WorkerIds
    <3>2. QED
      BY <1>4, <1>8, <1>12, <3>1 DEF IInv, Capabilities
  <2>6. QED
    BY <1>6, <1>7, <2>1, <2>2, <2>3, <2>4, <2>5 DEF IInv, Capabilities
<1>21. Reports'
  <2>1. ASSUME NEW m \in frontMsgs'
        PROVE  /\ m.ex = ex /\ m.worker \in Live /\ m.epoch < m.front
               /\ \A e \in FrontierIn : m.front <= e
               /\ \A a \in frontCap'[m.worker] : m.front <= a
    <3>1. CASE m \in frontMsgs
      <4>1. m.worker \in WorkerIds
        BY <1>2, <3>1 DEF TypeOK, FrontMsgs
      <4>2. /\ m.ex = ex /\ m.worker \in Live /\ m.epoch < m.front
            /\ \A e \in FrontierIn : m.front <= e
            /\ \A a \in frontCap[m.worker] : m.front <= a
        BY <3>1 DEF IInv, Reports
      <4>3. \A a \in frontCap'[m.worker] : m.front <= a
        BY <1>3, <1>8, <4>1, <4>2
      <4>4. QED
        BY <4>2, <4>3
    <3>2. CASE m = m0
      <4>1. \A a \in frontCap'[w] : f <= a
        BY <1>3, <1>8, <1>13
      <4>2. QED
        BY <1>5, <1>13, <1>14, <3>2, <4>1
    <3>3. QED
      BY <1>6, <3>1, <3>2
  <2>2. \A n \in frontMsgs : n.worker = w => n.front <= c
    BY DEF IInv, Reports
  <2>3. ASSUME NEW m \in frontMsgs', NEW n \in frontMsgs', m.worker = n.worker
        PROVE  m = n \/ m.front <= n.epoch \/ n.front <= m.epoch
    BY <1>6, <1>14, <2>2, <2>3 DEF IInv, Reports
  <2>4. ASSUME NEW g \in AllRows(fronts), g.ex = ex
        PROVE  /\ \A e \in FrontierIn : g.front <= e
               /\ \A a \in frontCap'[g.worker] : g.front <= a
               /\ \A m \in frontMsgs' : m.worker = g.worker => g.front <= m.epoch
    <3>1. g.worker \in WorkerIds
      BY <1>2 DEF TypeOK, FrontRows, AllRows
    <3>2. /\ \A e \in FrontierIn : g.front <= e
          /\ \A a \in frontCap[g.worker] : g.front <= a
          /\ \A m \in frontMsgs : m.worker = g.worker => g.front <= m.epoch
      BY <1>4, <2>4 DEF IInv, Reports
    <3>3. \A a \in frontCap'[g.worker] : g.front <= a
      BY <1>3, <1>8, <3>1, <3>2
    <3>4. QED
      BY <1>6, <1>14, <3>2, <3>3
  <2>5. QED
    BY <1>6, <1>7, <2>1, <2>3, <2>4 DEF Reports
<1>22. NoGaps'
  <2>1. \A x \in 0 .. c : Covered(w, x)
    BY DEF IInv, NoGaps
  <2>2. ASSUME NEW x \in Nat, x <= f PROVE Covered(w, x)'
    <3>1. CASE x <= c
      BY <1>3, <1>10, <2>1, <3>1
    <3>2. CASE c < x
      <4>1. m0 \in frontMsgs' /\ m0.worker = w /\ m0.epoch < x /\ x <= m0.front
        BY <1>6, <1>14, <2>2, <3>2
      <4>2. QED
        BY <4>1 DEF Covered
    <3>3. QED
      BY <1>3, <3>1, <3>2
  <2>3. ASSUME NEW v \in WorkerIds, NEW a \in frontCap'[v], NEW x \in 0 .. a
        PROVE  Covered(v, x)'
    <3>1. CASE v = w
      <4>1. a = f
        BY <1>8, <1>13, <3>1
      <4>2. QED
        BY <1>13, <2>2, <3>1, <4>1
    <3>2. CASE v # w
      BY <1>8, <1>10, <3>2 DEF IInv, NoGaps
    <3>3. QED
      BY <3>1, <3>2
  <2>4. ASSUME NEW v \in Live, frontCap'[v] = {},
               NEW e \in (Caps(frontCap) \cup Epochs(frontMsgs) \cup Caps(ticks))'
        PROVE  Covered(v, e + 1)'
    <3>1. v \in WorkerIds
      BY <1>2, <1>4 DEF TypeOK, Running, Live, WorkerIds
    <3>2. FrontierIn = {} /\ S = {}
      BY <1>3, <1>4, <1>7, <1>20, <2>4 DEF Capabilities
    <3>3. e \in Caps(frontCap) \cup Epochs(frontMsgs) \cup Caps(ticks)
      BY <1>3, <1>7, <1>8, <1>15, <3>2
    <3>4. e \in Nat
      BY <1>2, <3>3 DEF EpochsTyped, Probe, CommitIn
    <3>5. CASE v # w
      <4>1. frontCap[v] = {}
        BY <1>8, <2>4, <3>1, <3>5
      <4>2. Covered(v, e + 1)
        BY <1>4, <3>3, <4>1 DEF IInv, NoGaps
      <4>3. PICK x : x = e + 1
        OBVIOUS
      <4>4. Covered(v, x)'
        BY <1>10, <4>2, <4>3
      <4>5. QED
        BY <4>3, <4>4 DEF Covered, Reported
    <3>6. CASE v = w
      <4>1. Caps(srcCap) = {}
        BY <3>2 DEF FrontierIn, SnapIn, StepIn
      <4>2. AllReported(e)
        BY <3>3, <4>1 DEF IInv, Ahead, Reachable, Epochs
      <4>3. e <= c
        <5>1. resume <= c
          BY <1>3 DEF IInv, Capabilities, CommitIn
        <5>2. \A g \in AllRows(fronts) : g.ex = ex /\ g.worker = w => g.front \in Nat /\ g.front <= c
          BY <1>2, <1>4 DEF IInv, Reports, TypeOK, AllRows, FrontRows
        <5>3. QED
          BY <1>3, <1>5, <3>4, <4>2, <5>1, <5>2 DEF AllReported, Reported
      <4>4. e + 1 \in Nat /\ e + 1 <= f
        BY <1>3, <1>13, <3>2, <3>4, <4>3
      <4>5. PICK x \in Nat : x = e + 1
        BY <4>4
      <4>6. Covered(w, x)'
        BY <2>2, <4>4, <4>5
      <4>7. QED
        BY <3>6, <4>5, <4>6 DEF Covered, Reported
    <3>7. QED
      BY <3>5, <3>6
  <2>5. QED
    BY <1>7, <2>3, <2>4 DEF NoGaps
<1>23. Ahead'
  <2>1. \A e \in S : Reachable(e)
    <3> SUFFICES ASSUME NEW e \in S PROVE Reachable(e)
      OBVIOUS
    <3>1. e \in SnapIn /\ e \in Nat
      BY <1>3, <1>5 DEF FrontierIn
    <3>2. CASE e \in Caps(srcCap)
      BY <3>1, <3>2 DEF Reachable
    <3>3. CASE e \notin Caps(srcCap)
      BY <3>1, <3>3 DEF SnapIn, StepIn, Epochs, IInv, Ahead, Reachable
    <3>4. QED
      BY <3>2, <3>3
  <2>2. \A e \in Caps(frontCap)' : Reachable(e)
    BY <1>8, <2>1 DEF IInv, Ahead
  <2>3. \A m \in frontMsgs' : AllReported(m.epoch)
    BY <1>6, <1>14, <1>16 DEF IInv, Ahead
  <2>4. QED
    BY <1>6, <1>7, <1>9, <2>2, <2>3 DEF IInv, Ahead, Reachable
<1>24. OneEpochAhead' /\ CommittedNeverReplayed'
  BY <1>6, <1>7 DEF IInv, OneEpochAhead, CommittedNeverReplayed, AllRows
<1>25. QED
  BY <1>2, <1>17, <1>18, <1>19, <1>20, <1>21, <1>22, <1>23, <1>24 DEF IInv

(* A report replaces an older one of its worker, so nothing that was        *)
(* reported or under way is forgotten, and its epoch is queued for commit.  *)
LEMMA InvWriteFrontier ==
  ASSUME IInv, NEW m \in frontMsgs, WriteFrontier(m)
  PROVE  IInv' /\ StoreResume.epoch <= StoreResume'.epoch
<1> DEFINE row == [ex |-> m.ex, worker |-> m.worker, front |-> m.front]
           part == FrontPart[m.ex][m.worker]
<1>1. TypeOK /\ TypeOK' /\ EpochsTyped
  BY TypeWriteFrontier, FrontiersTyped DEF IInv
<1>2. /\ m.worker \in WorkerIds /\ m.worker \in Nat /\ m.front \in Nat /\ m.epoch \in Nat
      /\ workers \in Nat
  BY <1>1, ClusterAssumption DEF TypeOK, FrontMsgs, WorkerIds
<1>3. Running
  <2>1. up = "down" \/ up = "running"
    BY <1>1 DEF TypeOK
  <2>2. QED
    BY <2>1 DEF IInv, Quiet, Running
<1>4. ~ exMsg /\ m.ex = ex /\ m.worker \in Live /\ m.epoch < m.front
  BY DEF IInv, ExecutionRow, Reports
<1>5. ex \in Nat /\ ex < runs /\ part \in Parts
  <2>1. ex \in Nat /\ ex < runs /\ runs \in 0 .. MaxRuns
    BY <1>1, <1>3 DEF IInv, ExecutionRow, TypeOK
  <2>2. ex \in 0 .. MaxRuns
    BY <2>1, BoundAssumption
  <2>3. QED
    BY <1>2, <1>4, <2>1, <2>2, PartAssumption
<1>6. /\ up' = up /\ runs' = runs /\ ex' = ex /\ resume' = resume /\ workers' = workers
      /\ srcCap' = srcCap /\ items' = items /\ opCap' = opCap /\ awoken' = awoken
      /\ snapMsgs' = snapMsgs /\ exMsg' = exMsg /\ frontCap' = frontCap
      /\ exs' = exs /\ snaps' = snaps /\ commits' = commits
      /\ frontMsgs' = frontMsgs \ {m}
      /\ fronts' = [fronts EXCEPT ![part] = UpsertFront(@, row)]
      /\ ticks' = [p \in Parts |-> ticks[p] \cup {m.epoch}]
      /\ m.epoch \in Simplify(CommitIn)
  BY DEF WriteFrontier, process, input, step
<1>7. /\ AllRows(exs)' = AllRows(exs) /\ Live' = Live /\ Running'
      /\ FrontierIn' = FrontierIn /\ StepIn' = StepIn /\ Caps(srcCap)' = Caps(srcCap)
      /\ Caps(opCap)' = Caps(opCap) /\ Caps(frontCap)' = Caps(frontCap)
  BY <1>3, <1>6
     DEF AllRows, Live, Running, FrontierIn, SnapIn, StepIn, Caps, Epochs
<1>8. row.ex = ex /\ row.worker = m.worker /\ row.front = m.front
  BY <1>4
<1>9. \A e \in Caps(ticks)' : e \in Caps(ticks) \/ e = m.epoch
  <2>1. DOMAIN ticks = Parts
    BY <1>1 DEF TypeOK
  <2>2. QED
    BY <1>6, <2>1 DEF Caps
<1> HIDE DEF row, part
<1>10. \A p \in Parts : \A g \in fronts'[p] :
         \/ g \in fronts[p] /\ (p = part => g.ex # ex \/ g.worker # m.worker)
         \/ g = row /\ p = part
  <2>1. DOMAIN fronts = Parts
    BY <1>1 DEF TypeOK
  <2>2. QED
    BY <1>5, <1>6, <1>8, <2>1 DEF UpsertFront
<1>11. \A p \in Parts : \A g \in fronts[p] :
         g.ex # ex \/ g.worker # m.worker => g \in fronts'[p]
  <2>1. DOMAIN fronts = Parts
    BY <1>1 DEF TypeOK
  <2>2. QED
    BY <1>5, <1>6, <1>8, <2>1 DEF UpsertFront
<1>12. row \in fronts'[part]
  <2>1. DOMAIN fronts = Parts
    BY <1>1 DEF TypeOK
  <2>2. QED
    BY <1>5, <1>6, <2>1 DEF UpsertFront
<1>13. /\ \A g \in AllRows(fronts)' : g \in AllRows(fronts) \/ g = row
       /\ \A g \in AllRows(fronts) :
            g.ex # ex \/ g.worker # m.worker => g \in AllRows(fronts)'
       /\ row \in AllRows(fronts)'
  BY <1>5, <1>10, <1>11, <1>12 DEF AllRows
(* The row that is replaced is older. *)
<1>14. \A g \in AllRows(fronts) :
         g.ex = ex /\ g.worker = m.worker => g.front \in Nat /\ g.front <= m.front
  <2> SUFFICES ASSUME NEW g \in AllRows(fronts), g.ex = ex, g.worker = m.worker
               PROVE  g.front \in Nat /\ g.front <= m.front
    OBVIOUS
  <2>1. g.front \in Nat
    BY <1>1 DEF TypeOK, AllRows, FrontRows
  <2>2. g.front <= m.epoch
    BY <1>3 DEF IInv, Reports
  <2>3. QED
    BY <1>2, <1>4, <2>1, <2>2
<1>15. \A w, v : v \in Nat /\ Reported(w, v) => Reported(w, v)'
  <2> SUFFICES ASSUME NEW w, NEW v \in Nat, Reported(w, v)
               PROVE  Reported(w, v)'
    OBVIOUS
  <2>1. CASE v <= resume
    BY <1>6, <2>1 DEF Reported
  <2>2. CASE \E g \in AllRows(fronts) : g.ex = ex /\ g.worker = w /\ v <= g.front
    <3>1. PICK g \in AllRows(fronts) : g.ex = ex /\ g.worker = w /\ v <= g.front
      BY <2>2
    <3>2. CASE w = m.worker
      <4>1. v <= row.front
        BY <1>2, <1>8, <1>14, <3>1, <3>2
      <4>2. QED
        BY <1>6, <1>8, <1>13, <3>2, <4>1 DEF Reported
    <3>3. CASE w # m.worker
      BY <1>6, <1>13, <3>1, <3>3 DEF Reported
    <3>4. QED
      BY <3>2, <3>3
  <2>3. QED
    BY <2>1, <2>2 DEF Reported
<1>16. \A w, v : v \in Nat /\ Covered(w, v) => Covered(w, v)'
  <2> SUFFICES ASSUME NEW w, NEW v \in Nat, Covered(w, v)
               PROVE  Covered(w, v)'
    OBVIOUS
  <2>1. CASE Reported(w, v)
    BY <1>15, <2>1 DEF Covered
  <2>2. CASE \E n \in frontMsgs : n.worker = w /\ n.epoch < v /\ v <= n.front
    <3>1. PICK n \in frontMsgs : n.worker = w /\ n.epoch < v /\ v <= n.front
      BY <2>2
    <3>2. CASE n = m
      <4>1. Reported(w, v)'
        BY <1>6, <1>8, <1>13, <3>1, <3>2 DEF Reported
      <4>2. QED
        BY <4>1 DEF Covered
    <3>3. CASE n # m
      BY <1>6, <3>1, <3>3 DEF Covered
    <3>4. QED
      BY <3>2, <3>3
  <2>3. QED
    BY <2>1, <2>2 DEF Covered
<1>17. \A v \in Nat : AllReported(v) => AllReported(v)'
  BY <1>7, <1>15 DEF AllReported
<1>18. Quiet'
  BY <1>7 DEF Quiet, Running
<1>19. StoreKeys'
  <2>1. \A p \in Parts : \A g \in fronts'[p] : g.ex < runs' /\ p = FrontPart[g.ex][g.worker]
    BY <1>4, <1>5, <1>6, <1>8, <1>10 DEF IInv, StoreKeys, part
  <2>2. \A p \in Parts : \A f, g \in fronts'[p] : f.ex = g.ex /\ f.worker = g.worker => f = g
    BY <1>8, <1>10 DEF IInv, StoreKeys
  <2>3. \A g \in AllRows(fronts)' : \E r \in AllRows(exs) : r.ex = g.ex /\ g.worker < r.count
    <3>1. \E r \in AllRows(exs) : r.ex = row.ex /\ row.worker < r.count
      <4> DEFINE r == [ex |-> ex, count |-> workers, resume |-> resume]
      <4>1. r \in AllRows(exs)
        BY <1>3, <1>4 DEF IInv, ExecutionRow
      <4>2. m.worker < workers
        BY <1>2, <1>4 DEF Live
      <4>3. r.ex = row.ex /\ row.worker < r.count
        BY <1>8, <4>2
      <4>4. QED
        BY <4>1, <4>3
    <3>2. QED
      BY <1>13, <3>1 DEF IInv, StoreKeys
  <2>4. QED
    BY <1>6, <1>7, <2>1, <2>2, <2>3 DEF IInv, StoreKeys
<1>20. ExecutionRow'
  BY <1>3, <1>4, <1>6, <1>7 DEF IInv, ExecutionRow
<1>21. Capabilities'
  <2>1. CommitIn' \subseteq CommitIn
    BY <1>6, <1>7 DEF CommitIn, Epochs
  <2>2. QED
    BY <1>3, <1>6, <1>7, <2>1 DEF IInv, Capabilities
(* Of a worker's reports, the oldest is written first. *)
<1>22. \A n \in frontMsgs' : n.worker = m.worker => m.front <= n.epoch
  <2> SUFFICES ASSUME NEW n \in frontMsgs, n # m, n.worker = m.worker
               PROVE  m.front <= n.epoch
    BY <1>6
  <2>1. n.epoch \in Nat /\ n.front \in Nat
    BY <1>1 DEF TypeOK, FrontMsgs
  <2>2. m.front <= n.epoch \/ n.front <= m.epoch
    BY DEF IInv, Reports
  <2>3. n.epoch < n.front
    BY DEF IInv, Reports
  <2>4. m.epoch <= n.epoch
    BY <1>6 DEF Simplify, CommitIn, Epochs
  <2>5. QED
    BY <1>2, <2>1, <2>2, <2>3, <2>4
<1>23. Reports'
  <2>1. \A n \in frontMsgs' :
          /\ n.ex = ex /\ n.worker \in Live /\ n.epoch < n.front
          /\ \A e \in FrontierIn : n.front <= e
          /\ \A c \in frontCap[n.worker] : n.front <= c
          /\ \A k \in frontMsgs' :
               n.worker = k.worker => n = k \/ n.front <= k.epoch \/ k.front <= n.epoch
    BY <1>6 DEF IInv, Reports
  <2>2. ASSUME NEW g \in AllRows(fronts)', g.ex = ex
        PROVE  /\ \A e \in FrontierIn : g.front <= e
               /\ \A c \in frontCap[g.worker] : g.front <= c
               /\ \A n \in frontMsgs' : n.worker = g.worker => g.front <= n.epoch
    <3>1. CASE g = row
      BY <1>8, <1>22, <3>1 DEF IInv, Reports
    <3>2. CASE g \in AllRows(fronts)
      BY <1>3, <1>6, <2>2, <3>2 DEF IInv, Reports
    <3>3. QED
      BY <1>13, <3>1, <3>2
  <2>3. QED
    BY <1>6, <1>7, <2>1, <2>2 DEF Reports
<1>24. NoGaps'
  <2>1. \A w \in WorkerIds : \A c \in frontCap[w] : \A v \in 0 .. c : Covered(w, v)'
    <3>1. \A w \in WorkerIds : \A c \in frontCap[w] : \A v \in 0 .. c :
            v \in Nat /\ Covered(w, v)
      BY DEF IInv, NoGaps
    <3>2. QED
      BY <1>16, <3>1
  <2>2. ASSUME NEW w \in Live, frontCap[w] = {},
               NEW e \in (Caps(frontCap) \cup Epochs(frontMsgs) \cup Caps(ticks))'
        PROVE  Covered(w, e + 1)'
    <3>1. e \in Caps(frontCap) \cup Epochs(frontMsgs) \cup Caps(ticks)
      BY <1>6, <1>7, <1>9 DEF Epochs
    <3>2. e \in Nat
      BY <1>1, <3>1 DEF EpochsTyped, Probe, CommitIn
    <3>3. Covered(w, e + 1)
      BY <1>3, <2>2, <3>1 DEF IInv, NoGaps
    <3>4. PICK x \in Nat : x = e + 1
      BY <3>2
    <3>5. Covered(w, x)'
      BY <1>16, <3>3, <3>4
    <3>6. QED
      BY <3>4, <3>5 DEF Covered, Reported
  <2>3. QED
    BY <1>6, <1>7, <2>1, <2>2 DEF NoGaps
<1>25. Ahead'
  <2>1. /\ \A q \in items : q.epoch \in Nat /\ AllReported(q.epoch)
        /\ \A q \in snapMsgs : q.epoch \in Nat /\ AllReported(q.epoch)
        /\ \A q \in frontMsgs : q.epoch \in Nat /\ AllReported(q.epoch)
    BY <1>1 DEF IInv, Ahead, TypeOK, ItemMsgs, SnapRows, FrontMsgs
  <2>2. /\ \A e \in Caps(opCap) : e \in Nat /\ Reachable(e)
        /\ \A e \in Caps(frontCap) : e \in Nat /\ Reachable(e)
        /\ \A e \in Caps(ticks) : e \in Nat /\ AllReported(e)
    BY <1>1 DEF IInv, Ahead, EpochsTyped, Probe, CommitIn, FrontierIn, SnapIn
  <2>3. /\ \A q \in items' : AllReported(q.epoch)'
        /\ \A q \in snapMsgs' : AllReported(q.epoch)'
        /\ \A q \in frontMsgs' : AllReported(q.epoch)'
    BY <1>6, <1>17, <2>1
  <2>4. \A e \in Nat : Reachable(e) => Reachable(e)'
    BY <1>7, <1>17 DEF Reachable
  <2>5. /\ \A e \in Caps(opCap)' : Reachable(e)'
        /\ \A e \in Caps(frontCap)' : Reachable(e)'
    BY <1>7, <2>2, <2>4
  <2>6. \A e \in Caps(ticks)' : AllReported(e)'
    BY <1>9, <1>17, <2>1, <2>2
  <2>7. QED
    BY <2>3, <2>5, <2>6 DEF Ahead
<1>26. /\ StoreResume.epoch <= StoreResume'.epoch
       /\ OneEpochAhead' /\ CommittedNeverReplayed'
  <2>1. ResumeReported /\ ResumeReported'
    BY <1>1, <1>3, <1>7, <1>19, <1>20, ResumeIsReported, NextResumeIsReported DEF IInv
  <2>2. QED
    BY <1>1, <1>6, <1>17, <2>1, ReportsGrow DEF IInv
<1>27. QED
  BY <1>1, <1>18, <1>19, <1>20, <1>21, <1>23, <1>24, <1>25, <1>26 DEF IInv

(* A committer that sees an epoch closed knows that every worker's report   *)
(* past that epoch is written, so what it commits is before the resume      *)
(* epoch, whatever the backup interval is.                                  *)
LEMMA InvCommit ==
  ASSUME IInv, NEW p \in Parts, Commit(p)
  PROVE  IInv'
<1>1. PICK e \in Simplify(ticks[p]) :
        /\ IsClosed(CommitIn, e)
        /\ ticks' = [ticks EXCEPT ![p] = @ \ {e}]
        /\ IF CheckedSub(e, delay) = {}
             THEN UNCHANGED <<commits, snaps>>
             ELSE \E c \in CheckedSub(e, delay) :
                    /\ commits' = [commits EXCEPT ![p] = {c}]
                    /\ snaps' = [snaps EXCEPT ![p] = GcDelete(@, c)]
  BY DEF Commit
<1>2. TypeOK /\ TypeOK' /\ EpochsTyped
  BY TypeCommit, FrontiersTyped DEF IInv
<1>3. e \in Nat /\ delay \in Nat /\ e \in Caps(ticks)
  BY <1>2 DEF TypeOK, Simplify, Caps
<1>4. Running
  <2>1. up = "down" \/ up = "running"
    BY <1>2 DEF TypeOK
  <2>2. QED
    BY <1>3, <2>1 DEF IInv, Quiet, Running
<1>5. /\ up' = up /\ runs' = runs /\ ex' = ex /\ resume' = resume /\ workers' = workers
      /\ srcCap' = srcCap /\ items' = items /\ opCap' = opCap /\ awoken' = awoken
      /\ snapMsgs' = snapMsgs /\ exMsg' = exMsg /\ frontCap' = frontCap
      /\ frontMsgs' = frontMsgs /\ exs' = exs /\ fronts' = fronts
  BY DEF Commit, process, input, step
<1>6. /\ AllRows(exs)' = AllRows(exs) /\ AllRows(fronts)' = AllRows(fronts)
      /\ StoreResume' = StoreResume /\ Live' = Live /\ Running'
      /\ FrontierIn' = FrontierIn /\ StepIn' = StepIn /\ CommitIn' = CommitIn
      /\ Caps(srcCap)' = Caps(srcCap) /\ Caps(opCap)' = Caps(opCap)
      /\ Caps(frontCap)' = Caps(frontCap) /\ Epochs(frontMsgs)' = Epochs(frontMsgs)
  BY <1>4, <1>5
     DEF AllRows, StoreResume, Live, Running, CommitIn, FrontierIn, SnapIn, StepIn, Caps, Epochs
<1>7. Caps(ticks)' \subseteq Caps(ticks)
  <2>1. DOMAIN ticks = Parts
    BY <1>2 DEF TypeOK
  <2>2. QED
    BY <1>1, <2>1 DEF Caps
<1>8. \A v : AllReported(v)' <=> AllReported(v)
  BY <1>5, <1>6 DEF AllReported, Reported
<1>9. \A w, v : Covered(w, v)' <=> Covered(w, v)
  BY <1>5, <1>6 DEF Covered, Reported
<1>10. AllReported(e + 1)
  <2> SUFFICES ASSUME NEW w \in Live PROVE Reported(w, e + 1)
    BY DEF AllReported
  <2>1. w \in WorkerIds
    BY <1>2, <1>4 DEF TypeOK, Running, Live, WorkerIds
  <2>2. Covered(w, e + 1)
    <3>1. CASE frontCap[w] = {}
      BY <1>3, <1>4, <3>1 DEF IInv, NoGaps
    <3>2. CASE frontCap[w] # {}
      <4>1. PICK c \in frontCap[w] : TRUE
        BY <3>2
      <4>2. c \in CommitIn
        BY <1>2, <2>1 DEF CommitIn, Caps, TypeOK
      <4>3. c \in Nat /\ e < c
        BY <1>1, <1>2, <4>2 DEF IsClosed, EpochsTyped
      <4>4. e + 1 \in 0 .. c
        BY <1>3, <4>3
      <4>5. QED
        BY <2>1, <4>4 DEF IInv, NoGaps
    <3>3. QED
      BY <3>1, <3>2
  <2>3. \A m \in frontMsgs : m.epoch \in Nat /\ e < m.epoch
    BY <1>1, <1>2 DEF IsClosed, CommitIn, Epochs, EpochsTyped
  <2>4. \A m \in frontMsgs : ~ (m.epoch < e + 1)
    BY <1>3, <2>3
  <2>5. QED
    BY <2>2, <2>4 DEF Covered
<1>11. StoreResume.epoch \in Nat /\ e < StoreResume.epoch
  <2>1. ResumeReported
    BY <1>4, ResumeIsReported DEF IInv
  <2>2. e + 1 <= StoreResume.epoch /\ StoreResume.epoch \in Nat
    BY <1>3, <1>10, <2>1 DEF ResumeReported
  <2>3. QED
    BY <1>3, <2>2
<1>12. /\ \A q \in Parts : \A c \in commits'[q] : c < StoreResume.epoch
       /\ \A q \in Parts : snaps'[q] \subseteq snaps[q]
  <2>1. CASE CheckedSub(e, delay) = {}
    BY <1>1, <2>1 DEF IInv, CommittedNeverReplayed
  <2>2. CASE CheckedSub(e, delay) # {}
    <3>1. PICK c \in CheckedSub(e, delay) :
            /\ commits' = [commits EXCEPT ![p] = {c}]
            /\ snaps' = [snaps EXCEPT ![p] = GcDelete(@, c)]
      BY <1>1, <2>2
    <3>2. c < StoreResume.epoch
      BY <1>3, <1>11 DEF CheckedSub
    <3>3. DOMAIN commits = Parts /\ DOMAIN snaps = Parts
      BY <1>2 DEF TypeOK
    <3>4. \A q \in Parts : \A d \in commits'[q] : d \in commits[q] \/ d = c
      BY <3>1, <3>3
    <3>5. \A q \in Parts : snaps'[q] \subseteq snaps[q]
      BY <3>1, <3>3 DEF GcDelete
    <3>6. QED
      BY <3>2, <3>4, <3>5 DEF IInv, CommittedNeverReplayed
  <2>3. QED
    BY <2>1, <2>2
<1>13. Quiet'
  BY <1>6 DEF Quiet, Running
<1>14. StoreKeys' /\ ExecutionRow'
  BY <1>5, <1>6 DEF IInv, StoreKeys, ExecutionRow, Running
<1>15. Capabilities'
  BY <1>4, <1>5, <1>6 DEF IInv, Capabilities
<1>16. Reports'
  BY <1>4, <1>5, <1>6 DEF IInv, Reports
<1>17. NoGaps'
  BY <1>4, <1>5, <1>6, <1>7, <1>9 DEF IInv, NoGaps
<1>18. Ahead'
  BY <1>5, <1>6, <1>7, <1>8 DEF IInv, Ahead, Reachable
<1>19. OneEpochAhead' /\ CommittedNeverReplayed'
  <2>1. AllRows(snaps)' \subseteq AllRows(snaps)
    BY <1>12 DEF AllRows
  <2>2. QED
    BY <1>6, <1>12, <2>1 DEF IInv, OneEpochAhead, CommittedNeverReplayed
<1>20. QED
  BY <1>2, <1>13, <1>14, <1>15, <1>16, <1>17, <1>18, <1>19 DEF IInv

-----------------------------------------------------------------------------
(* Starting and stopping. *)

(* A new execution starts where the store says, under a number of its own,  *)
(* and everything it holds is at its resume epoch.                          *)
LEMMA InvResume ==
  ASSUME IInv, NEW n \in WorkerCounts, NEW d \in Delays, Resume(n, d)
  PROVE  IInv'
<1> DEFINE E == StoreResume.epoch
<1>1. TypeOK /\ TypeOK' /\ ResumeTyped
  BY TypeResume, ResumeIsTyped DEF IInv
<1>2. /\ up = "down" /\ up' = "running" /\ runs' = runs + 1 /\ ex' = StoreResume.ex
      /\ resume' = E /\ workers' = n
      /\ srcCap' = [s \in Srcs |-> {E}]
      /\ opCap' = [w \in WorkerIds |-> IF w < n THEN {E} ELSE {}]
      /\ exMsg' = TRUE
      /\ frontCap' = [w \in WorkerIds |-> IF w < n THEN {E} ELSE {}]
      /\ items' = items /\ awoken' = awoken /\ snapMsgs' = snapMsgs
      /\ frontMsgs' = frontMsgs /\ ticks' = ticks
      /\ exs' = exs /\ fronts' = fronts /\ snaps' = snaps /\ commits' = commits
  BY DEF Resume, store
<1>3. /\ items' = {} /\ awoken' = {} /\ snapMsgs' = {} /\ frontMsgs' = {}
      /\ Caps(ticks)' = {}
  BY <1>2 DEF IInv, Quiet, Caps
<1>4. /\ AllRows(exs)' = AllRows(exs) /\ AllRows(fronts)' = AllRows(fronts)
      /\ AllRows(snaps)' = AllRows(snaps) /\ StoreResume' = StoreResume
  BY <1>2 DEF AllRows, StoreResume
<1>5. E \in Nat /\ n \in Nat /\ runs \in Nat /\ StoreResume.ex \in Nat /\ StoreResume.ex <= runs
  BY <1>1, ClusterAssumption, BoundAssumption DEF ResumeTyped, TypeOK
<1> HIDE DEF E
<1>6. /\ \A s \in Srcs : srcCap'[s] = {E}
      /\ \A w \in WorkerIds : opCap'[w] \subseteq {E} /\ frontCap'[w] \subseteq {E}
      /\ \A w \in WorkerIds : frontCap'[w] # {} <=> w < n
      /\ Caps(srcCap)' \subseteq {E} /\ Caps(opCap)' \subseteq {E}
      /\ Caps(frontCap)' \subseteq {E}
  BY <1>2 DEF Caps
<1>7. StepIn' \subseteq {E} /\ FrontierIn' \subseteq {E} /\ CommitIn' \subseteq {E}
  BY <1>2, <1>3, <1>6 DEF CommitIn, FrontierIn, SnapIn, StepIn, Epochs
<1>8. \A w \in WorkerIds : w \in Nat
  BY ClusterAssumption DEF WorkerIds
<1>9. Live' = 0 .. (n - 1) /\ \A w \in Live' : w \in WorkerIds /\ w < n
  BY <1>2, <1>5 DEF Live, WorkerIds
<1>10. \A w, v : v <= E => Reported(w, v)'
  BY <1>2 DEF Reported
<1>11. Quiet'
  BY <1>2 DEF Quiet
<1>12. StoreKeys'
  <2>1. \A p \in Parts : \A r \in exs[p] : r.ex \in Nat /\ r.ex < runs + 1
    BY <1>1, <1>5 DEF TypeOK, ExRows, IInv, StoreKeys
  <2>2. \A p \in Parts : \A f \in fronts[p] : f.ex \in Nat /\ f.ex < runs + 1
    BY <1>1, <1>5 DEF TypeOK, FrontRows, IInv, StoreKeys
  <2>3. QED
    BY <1>2, <1>4, <2>1, <2>2 DEF IInv, StoreKeys
<1>13. ExecutionRow'
  <2>1. ex' < runs'
    BY <1>2, <1>5
  <2>2. QED
    BY <1>1, <1>2, <1>3, <1>4, <2>1 DEF ExecutionRow, ResumeTyped, E
<1>14. Capabilities'
  <2>1. \A w \in WorkerIds : frontCap'[w] # {} => w \in Live'
    BY <1>5, <1>6, <1>8, <1>9
  <2>2. \A e \in CommitIn' : resume' <= e
    BY <1>2, <1>5, <1>7
  <2>3. /\ \A w \in WorkerIds : \A c \in opCap'[w] : \A e \in StepIn' : c <= e
        /\ \A w \in WorkerIds : \A c \in frontCap'[w] : \A e \in FrontierIn' : c <= e
    <3>1. /\ \A w \in WorkerIds : \A c \in opCap'[w] : \A e \in StepIn' : c = E /\ e = E
          /\ \A w \in WorkerIds : \A c \in frontCap'[w] : \A e \in FrontierIn' : c = E /\ e = E
      BY <1>6, <1>7, Zenon
    <3>2. E <= E
      BY <1>5
    <3>3. QED
      BY <3>1, <3>2, Zenon
  <2>4. \A w \in Live' : frontCap'[w] # {}
    BY <1>6, <1>9
  <2>5. QED
    BY <1>6, <2>1, <2>2, <2>3, <2>4 DEF Capabilities
<1>15. Reports'
  <2>1. \A f \in AllRows(fronts) : f.ex # ex'
    BY <1>1, <1>2, <1>5 DEF IInv, StoreKeys, ResumeTyped
  <2>2. QED
    BY <1>3, <1>4, <2>1 DEF Reports
<1>16. NoGaps'
  <2>1. ASSUME NEW w \in WorkerIds, NEW c \in frontCap'[w], NEW v \in 0 .. c
        PROVE  Covered(w, v)'
    <3>1. v <= E
      BY <1>5, <1>6
    <3>2. QED
      BY <1>10, <3>1 DEF Covered
  <2>2. \A w \in Live' : frontCap'[w] # {}
    BY <1>6, <1>9
  <2>3. QED
    BY <2>1, <2>2 DEF NoGaps
<1>17. Ahead'
  <2>1. \A e \in {E} : AllReported(e)'
    BY <1>5, <1>10 DEF AllReported
  <2>2. \A e \in {E} : Reachable(e)'
    BY <2>1 DEF Reachable
  <2>3. QED
    BY <1>3, <1>6, <2>2 DEF Ahead
<1>18. OneEpochAhead' /\ CommittedNeverReplayed'
  BY <1>2, <1>4 DEF IInv, OneEpochAhead, CommittedNeverReplayed
<1>19. QED
  BY <1>1, <1>11, <1>12, <1>13, <1>14, <1>15, <1>16, <1>17, <1>18 DEF IInv

(* A cluster that vanishes leaves a store that is good to resume from. *)
LEMMA InvVanish ==
  ASSUME IInv, Vanish
  PROVE  IInv'
<1>1. TypeOK'
  BY TypeVanish DEF IInv
<1>2. /\ up' = "down" /\ items' = {} /\ awoken' = {} /\ snapMsgs' = {} /\ exMsg' = FALSE
      /\ frontMsgs' = {} /\ runs' = runs
      /\ srcCap' = [s \in Srcs |-> {}] /\ opCap' = [w \in WorkerIds |-> {}]
      /\ frontCap' = [w \in WorkerIds |-> {}] /\ ticks' = [p \in Parts |-> {}]
      /\ exs' = exs /\ fronts' = fronts /\ snaps' = snaps /\ commits' = commits
  BY DEF Vanish, store
<1>3. /\ AllRows(exs)' = AllRows(exs) /\ AllRows(fronts)' = AllRows(fronts)
      /\ AllRows(snaps)' = AllRows(snaps) /\ StoreResume' = StoreResume
  BY <1>2 DEF AllRows, StoreResume
<1>4. /\ Caps(srcCap)' = {} /\ Caps(opCap)' = {} /\ Caps(frontCap)' = {}
      /\ Caps(ticks)' = {} /\ ~ Running'
  BY <1>2 DEF Caps, Running
<1>5. CommitIn' = {} /\ FrontierIn' = {} /\ StepIn' = {}
  BY <1>2, <1>4 DEF CommitIn, FrontierIn, SnapIn, StepIn, Epochs
<1>6. Quiet'
  BY <1>2, <1>4 DEF Quiet
<1>7. StoreKeys' /\ ExecutionRow'
  BY <1>2, <1>3, <1>4 DEF IInv, StoreKeys, ExecutionRow
<1>8. Capabilities' /\ Reports' /\ NoGaps'
  BY <1>2, <1>4, <1>5 DEF Capabilities, Reports, NoGaps
<1>9. Ahead'
  BY <1>2, <1>4 DEF Ahead
<1>10. OneEpochAhead' /\ CommittedNeverReplayed'
  BY <1>2, <1>3 DEF IInv, OneEpochAhead, CommittedNeverReplayed
<1>11. QED
  BY <1>1, <1>6, <1>7, <1>8, <1>9, <1>10 DEF IInv

-----------------------------------------------------------------------------
(* The theorems. *)

(* A store without any row resumes at the default, so a first start is one  *)
(* like any other.                                                          *)
LEMMA InitInv == Init => IInv
<1> SUFFICES ASSUME Init PROVE IInv
  OBVIOUS
<1>1. TypeOK
  <2>1. 0 \in 0 .. MaxRuns
    BY BoundAssumption
  <2>2. QED
    BY <2>1, NoEffectTyped DEF Init, TypeOK
<1>2. AllRows(exs) = {} /\ AllRows(fronts) = {} /\ AllRows(snaps) = {}
  BY DEF Init, AllRows
<1>3. /\ Caps(srcCap) = {} /\ Caps(opCap) = {} /\ Caps(frontCap) = {}
      /\ Caps(ticks) = {} /\ ~ Running
  BY DEF Init, Caps, Running
<1>4. CommitIn = {} /\ FrontierIn = {} /\ StepIn = {}
  BY <1>3 DEF Init, CommitIn, FrontierIn, SnapIn, StepIn, Epochs
<1>5. Quiet /\ StoreKeys /\ ExecutionRow
  BY <1>2, <1>3 DEF Init, Quiet, StoreKeys, ExecutionRow
<1>6. Capabilities /\ Reports /\ NoGaps /\ Ahead
  BY <1>3, <1>4 DEF Init, Capabilities, Reports, NoGaps, Ahead
<1>7. OneEpochAhead /\ CommittedNeverReplayed
  BY <1>2 DEF Init, OneEpochAhead, CommittedNeverReplayed
<1>8. QED
  BY <1>1, <1>5, <1>6, <1>7 DEF IInv

(* A step that changes nothing the invariant speaks of. *)
LEMMA InvStutter ==
  ASSUME IInv, UNCHANGED vars
  PROVE  IInv'
<1>1. /\ up' = up /\ runs' = runs /\ ex' = ex /\ resume' = resume /\ workers' = workers
      /\ delay' = delay /\ srcCap' = srcCap /\ offset' = offset /\ items' = items
      /\ opCap' = opCap /\ state' = state /\ awoken' = awoken /\ snapMsgs' = snapMsgs
      /\ exMsg' = exMsg /\ frontCap' = frontCap /\ frontMsgs' = frontMsgs /\ ticks' = ticks
      /\ exs' = exs /\ fronts' = fronts /\ snaps' = snaps /\ commits' = commits
  BY DEF vars, process, input, step, store
<1>2. TypeOK'
  BY <1>1 DEF IInv, TypeOK
<1>3. /\ AllRows(exs)' = AllRows(exs) /\ AllRows(fronts)' = AllRows(fronts)
      /\ AllRows(snaps)' = AllRows(snaps) /\ StoreResume' = StoreResume
      /\ Live' = Live /\ (Running' <=> Running) /\ StepIn' = StepIn
      /\ FrontierIn' = FrontierIn /\ CommitIn' = CommitIn
      /\ Caps(srcCap)' = Caps(srcCap) /\ Caps(opCap)' = Caps(opCap)
      /\ Caps(frontCap)' = Caps(frontCap) /\ Caps(ticks)' = Caps(ticks)
  BY <1>1 DEF AllRows, StoreResume, Live, Running, CommitIn, FrontierIn, SnapIn, StepIn,
              Caps, Epochs
<1>4. /\ \A v : AllReported(v)' <=> AllReported(v)
      /\ \A w, v : Covered(w, v)' <=> Covered(w, v)
      /\ \A e : Reachable(e)' <=> Reachable(e)
  BY <1>1, <1>3 DEF AllReported, Covered, Reported, Reachable
<1>5. Quiet' /\ StoreKeys' /\ ExecutionRow'
  BY <1>1, <1>3 DEF IInv, Quiet, StoreKeys, ExecutionRow
<1>6. Capabilities' /\ Reports'
  BY <1>1, <1>3 DEF IInv, Capabilities, Reports
<1>7. NoGaps' /\ Ahead'
  BY <1>1, <1>3, <1>4 DEF IInv, NoGaps, Ahead, Epochs
<1>8. OneEpochAhead' /\ CommittedNeverReplayed'
  BY <1>1, <1>3 DEF IInv, OneEpochAhead, CommittedNeverReplayed
<1>9. QED
  BY <1>2, <1>5, <1>6, <1>7, <1>8 DEF IInv

(* Every step of the cluster keeps the invariant. *)
LEMMA NextInv == IInv /\ [Next]_vars => IInv'
<1> SUFFICES ASSUME IInv, [Next]_vars PROVE IInv'
  OBVIOUS
<1>1. ASSUME NEW n \in WorkerCounts, NEW d \in Delays, Resume(n, d) PROVE IInv'
  BY <1>1, InvResume
<1>2. ASSUME NEW s \in Srcs, NEW n \in BatchSizes, NEW b \in BOOLEAN, NextBatch(s, n, b)
      PROVE  IInv'
  BY <1>2, InvNextBatch
<1>3. ASSUME NEW s \in Srcs, SourceEof(s) PROVE IInv'
  BY <1>3, InvSourceEof
<1>4. ASSUME NEW m \in items, OnItem(m) PROVE IInv'
  BY <1>4, InvOnItem
<1>5. ASSUME NEW w \in WorkerIds, CloseEpoch(w) PROVE IInv'
  BY <1>5, InvCloseEpoch
<1>6. CASE WriteExecution
  BY <1>6, InvWriteExecution
<1>7. ASSUME NEW m \in snapMsgs, WriteSnapshot(m) PROVE IInv'
  BY <1>7, InvWriteSnapshot
<1>8. ASSUME NEW w \in WorkerIds, EmitFrontier(w) PROVE IInv'
  BY <1>8, InvEmitFrontier
<1>9. ASSUME NEW m \in frontMsgs, WriteFrontier(m) PROVE IInv'
  BY <1>9, InvWriteFrontier
<1>10. ASSUME NEW p \in Parts, Commit(p) PROVE IInv'
  BY <1>10, InvCommit
<1>11. CASE Finish
  BY <1>11, InvVanish DEF Finish
<1>12. CASE Crash
  BY <1>12, InvVanish DEF Crash
<1>13. CASE Stopped
  BY <1>13, InvStutter DEF Stopped
<1>14. CASE UNCHANGED vars
  BY <1>14, InvStutter
<1>15. QED
  BY <1>1, <1>2, <1>3, <1>4, <1>5, <1>6, <1>7, <1>8, <1>9, <1>10, <1>11, <1>12, <1>13, <1>14
     DEF Next

(* The invariant of the cluster: what its capabilities, messages and store  *)
(* have to do with one another, in every reachable state.                   *)
THEOREM InvariantHolds == Spec => []IInv
BY InitInv, NextInv, PTL DEF Spec

(* Every variable keeps its type; in particular the committer's subtraction *)
(* of the backup interval never leaves the natural numbers.                 *)
THEOREM TypeCorrect == Spec => []TypeOK
<1>1. IInv => TypeOK
  BY DEF IInv
<1>2. QED
  BY <1>1, InvariantHolds, PTL

(* No capability or message upstream of the frontier operators is older    *)
(* than the epoch that a resume would replay.                               *)
LEMMA NothingBehind == IInv => FrontierAfterSnapshots
<1> SUFFICES ASSUME IInv, NEW e \in SnapIn PROVE StoreResume.epoch <= e
  BY DEF FrontierAfterSnapshots
<1>1. TypeOK /\ EpochsTyped
  BY FrontiersTyped DEF IInv
<1>2. Running
  <2>1. up = "down" => SnapIn = {}
    BY DEF IInv, Quiet, SnapIn, StepIn, Epochs
  <2>2. up = "down" \/ up = "running"
    BY <1>1 DEF TypeOK
  <2>3. QED
    BY <2>1, <2>2 DEF Running
<1>3. ResumeReported
  BY <1>2, ResumeIsReported DEF IInv
<1>4. StoreResume.epoch \in Nat /\ AllReported(StoreResume.epoch)
  BY <1>3 DEF ResumeReported
<1>5. 0 \in Live
  BY <1>1, <1>2, ClusterAssumption DEF Live, TypeOK, Running
<1>6. Reported(0, StoreResume.epoch)
  BY <1>4, <1>5 DEF AllReported
<1>7. e \in Nat /\ e \in FrontierIn /\ e \in CommitIn /\ resume \in Nat
  <2>1. resume \in Nat
    BY <1>1 DEF TypeOK
  <2>2. QED
    BY <1>1, <2>1 DEF EpochsTyped, FrontierIn, CommitIn
<1>8. resume <= e
  BY <1>7 DEF IInv, Capabilities
<1>9. \A f \in AllRows(fronts) : f.ex = ex => f.front \in Nat /\ f.front <= e
  BY <1>1, <1>2, <1>7 DEF IInv, Reports, TypeOK, AllRows, FrontRows
<1>10. QED
  BY <1>4, <1>6, <1>7, <1>8, <1>9 DEF Reported

(* No frontier row lets a resume skip an epoch of which an item or snapshot *)
(* is still in the running dataflow.                                        *)
THEOREM FrontierAfterSnapshotsHolds == Spec => []FrontierAfterSnapshots
BY InvariantHolds, NothingBehind, PTL

(* Backpressure keeps the store from holding snapshots past the epoch that  *)
(* a resume replays.                                                        *)
THEOREM OneEpochAheadHolds == Spec => []OneEpochAhead
<1>1. IInv => OneEpochAhead
  BY DEF IInv
<1>2. QED
  BY <1>1, InvariantHolds, PTL

(* What a partition has committed is never processed again: no resume is    *)
(* ever refused because a partition dropped what it needs.                  *)
THEOREM CommittedNeverReplayedHolds == Spec => []CommittedNeverReplayed
<1>1. IInv => CommittedNeverReplayed
  BY DEF IInv
<1>2. QED
  BY <1>1, InvariantHolds, PTL

(* The execution writer's INSERT never meets its own primary key, and no    *)
(* frontier row is written before its execution's row.                      *)
THEOREM ExecutionsRecordedOnceHolds == Spec => []ExecutionsRecordedOnce
<1>1. IInv => ExecutionsRecordedOnce
  <2> SUFFICES ASSUME IInv
               PROVE  /\ exMsg => ex \notin {r.ex : r \in AllRows(exs)}
                      /\ \A f \in AllRows(fronts) : f.ex \in {r.ex : r \in AllRows(exs)}
    BY DEF ExecutionsRecordedOnce
  <2>1. ex \in Nat
    BY DEF IInv, TypeOK
  <2>2. exMsg => \A r \in AllRows(exs) : r.ex < ex
    BY DEF IInv, ExecutionRow
  <2>3. QED
    BY <2>1, <2>2 DEF IInv, StoreKeys
<1>2. QED
  BY <1>1, InvariantHolds, PTL

(* Whatever is written, neither the epoch nor the execution number that the *)
(* store yields for a resume goes back.                                     *)
THEOREM ResumePointAdvancesHolds == Spec => ResumePointAdvances
<1> DEFINE A == \A from \in {StoreResume}, next \in {StoreResume'} :
                  next.epoch >= from.epoch /\ next.ex >= from.ex
<1>1. IInv /\ IInv' /\ [Next]_vars => [A]_<<exs, fronts>>
  <2> SUFFICES ASSUME IInv, IInv', [Next]_vars, ~ UNCHANGED <<exs, fronts>>
               PROVE  A
    OBVIOUS
  <2>1. StoreResume.epoch <= StoreResume'.epoch /\ AllRows(exs) \subseteq AllRows(exs)'
    <3>1. CASE WriteExecution
      <4>1. StoreResume.epoch <= StoreResume'.epoch
        BY <3>1, InvWriteExecution
      <4>2. DOMAIN exs = Parts
        BY DEF IInv, TypeOK
      <4>3. \A p \in Parts : exs[p] \subseteq exs'[p]
        BY <3>1, <4>2 DEF WriteExecution
      <4>4. QED
        BY <4>1, <4>3 DEF AllRows
    <3>2. CASE \E m \in frontMsgs : WriteFrontier(m)
      <4>1. PICK m \in frontMsgs : WriteFrontier(m)
        BY <3>2
      <4>2. StoreResume.epoch <= StoreResume'.epoch
        BY <4>1, InvWriteFrontier
      <4>3. exs' = exs
        BY <4>1 DEF WriteFrontier
      <4>4. QED
        BY <4>2, <4>3 DEF AllRows
    <3>3. CASE \/ \E n \in WorkerCounts, d \in Delays : Resume(n, d)
               \/ \E m \in items : OnItem(m)
               \/ \E w \in WorkerIds : CloseEpoch(w)
      BY <3>3 DEF Resume, OnItem, CloseEpoch, store
    <3>4. CASE \/ \E s \in Srcs, n \in BatchSizes, elapsed \in BOOLEAN : NextBatch(s, n, elapsed)
               \/ \E s \in Srcs : SourceEof(s)
      BY <3>4 DEF NextBatch, SourceEof, store
    <3>5. CASE \/ \E m \in snapMsgs : WriteSnapshot(m)
               \/ \E w \in WorkerIds : EmitFrontier(w)
               \/ \E p \in Parts : Commit(p)
      BY <3>5 DEF WriteSnapshot, EmitFrontier, Commit, store
    <3>6. CASE Finish \/ Crash \/ Stopped \/ UNCHANGED vars
      BY <3>6 DEF Finish, Crash, Vanish, Stopped, vars, store
    <3>7. QED
      BY <3>1, <3>2, <3>3, <3>4, <3>5, <3>6 DEF Next
  <2>2. ResumeTyped /\ ResumeTyped'
    BY ResumeIsTyped, NextResumeIsTyped DEF IInv
  <2>3. StoreResume.ex <= StoreResume'.ex
    BY <2>1, <2>2 DEF ResumeTyped
  <2>4. QED
    BY <2>1, <2>2, <2>3 DEF ResumeTyped
<1>2. QED
  BY <1>1, InvariantHolds, PTL DEF Spec, ResumePointAdvances
=============================================================================
