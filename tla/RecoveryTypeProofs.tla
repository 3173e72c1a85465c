------------------------- MODULE RecoveryTypeProofs --------------------------
(***************************************************************************)
(* What the recovery store yields for a resume, whatever rows it holds: the*)
(* merged tables keep their keys, and the resume epoch is the largest epoch*)
(* that every worker of the newest execution has reported.  Then: every    *)
(* step of RecoveryCluster keeps every variable in its type.               *)
(***************************************************************************)
EXTENDS RecoveryInvariant, WellFoundedInduction, TLAPS

-----------------------------------------------------------------------------
(* Least and greatest elements, which the store's SQL asks for. *)

(* A nonempty set of natural numbers has a least element, and Min is it. *)
LEMMA MinIsLeast ==
  ASSUME NEW S, S \subseteq Nat, S # {}
  PROVE  Min(S) \in S /\ \A y \in S : Min(S) <= y
<1> DEFINE R == {ss \in Nat \X Nat : ss[1] < ss[2]}
<1>1. IsWellFoundedOn(R, Nat)
  BY NatLessThanWellFounded DEF OpToRel
<1>2. \A a, b \in Nat : a < b => <<a, b>> \in R
  OBVIOUS
<1> HIDE DEF R
<1>3. PICK x \in S : \A y \in S : ~ (<<y, x>> \in R)
  BY <1>1, WFMin
<1>4. x \in Nat /\ \A y \in S : y \in Nat
  OBVIOUS
<1>5. \A y \in S : ~ (y < x)
  BY <1>2, <1>3, <1>4
<1>6. \A y \in S : x <= y
  BY <1>4, <1>5
<1>7. QED
  BY <1>6 DEF Min

(* A nonempty bounded set of natural numbers has a greatest element. *)
LEMMA MaxIsGreatest ==
  ASSUME NEW S, S \subseteq Nat, S # {}, NEW b \in Nat, \A y \in S : y <= b
  PROVE  Max(S) \in S /\ \A y \in S : y <= Max(S)
<1> DEFINE T == {b - y : y \in S}
<1>0. \A y \in S : y \in Nat /\ b - y \in Nat
  OBVIOUS
<1>1. T \subseteq Nat /\ T # {}
  BY <1>0
<1>2. PICK m \in T : \A t \in T : m <= t
  BY <1>1, MinIsLeast
<1>3. PICK x \in S : m = b - x
  BY <1>2
<1>4. \A y \in S : x >= y
  BY <1>0, <1>2, <1>3
<1>5. QED
  BY <1>0, <1>4 DEF Max

-----------------------------------------------------------------------------
(* What resume_from computes. *)

(* With M the newest execution row, the store yields the next execution     *)
(* number, and its resume epoch is the largest v that every worker of M has *)
(* reached, by its own report or by the execution's start.                  *)
LEMMA ResumeFromNewest ==
  ASSUME NEW X, NEW F, X \subseteq ExRows, F \subseteq FrontRows,
         NEW M \in X,
         \A q \in X : q.ex <= M.ex /\ (q.ex = M.ex => q = M),
         \A f, g \in F : f.ex = g.ex /\ f.worker = g.worker => f = g,
         \A f \in F : f.ex = M.ex => f.worker < M.count
  PROVE  /\ ResumeFrom(X, F).ex = M.ex + 1
         /\ ResumeFrom(X, F).epoch \in Nat
         /\ \A v \in Nat :
              v <= ResumeFrom(X, F).epoch <=>
                \A w \in 0 .. (M.count - 1) :
                  \/ v <= M.resume
                  \/ \E f \in F : f.ex = M.ex /\ f.worker = w /\ v <= f.front
<1> DEFINE D == {[worker |-> w, front |-> M.resume] : w \in 0 .. (M.count - 1)}
           E == {[worker |-> f.worker, front |-> f.front] : f \in {f \in F : f.ex = M.ex}}
           W == WorkerFrontiers(X, F)
<1>1. M.ex \in Nat /\ M.count \in Nat \ {0} /\ M.resume \in Nat
  BY ClusterAssumption DEF ExRows
<1>2. \A f \in F : f.ex \in Nat /\ f.worker \in Nat /\ f.front \in Nat
  BY ClusterAssumption DEF FrontRows, WorkerIds
<1>3. MaxEx(X) = {M}
  <2>1. \A q \in X : q.ex \in Nat
    BY DEF ExRows
  <2>2. QED
    BY <2>1 DEF MaxEx
<1>4. DefaultProgress(X) = D /\ ExplicitProgress(X, F) = E
  BY <1>3 DEF DefaultProgress, ExplicitProgress
<1>5. W = {r.front : r \in MaxProgress(E \cup D)}
  BY <1>4 DEF WorkerFrontiers
<1>6. Max({r.ex : r \in X}) = M.ex
  <2>1. \A y \in {r.ex : r \in X} : y <= M.ex /\ y \in Nat
    BY DEF ExRows
  <2>2. M.ex \in {r.ex : r \in X}
    OBVIOUS
  <2>3. \A x \in {r.ex : r \in X} : (\A y \in {r.ex : r \in X} : x >= y) => x = M.ex
    BY <1>1, <2>1, <2>2, SMTT(20)
  <2>4. \A y \in {r.ex : r \in X} : M.ex >= y
    BY <1>1, <2>1
  <2>5. QED
    BY <2>2, <2>3, <2>4 DEF Max
<1>7. ResumeFrom(X, F) = [ex |-> M.ex + 1, epoch |-> Min(W)]
  BY <1>6 DEF ResumeFrom
<1> HIDE DEF W
<1>8. \A r \in E \cup D : r.worker \in 0 .. (M.count - 1) /\ r.front \in Nat
  BY <1>1, <1>2
<1>9. W \subseteq Nat
  BY <1>5, <1>8 DEF MaxProgress
(* A worker has its default row and at most one explicit one. *)
<1>10. ASSUME NEW w \in 0 .. (M.count - 1)
       PROVE  \E r \in MaxProgress(E \cup D) : r.worker = w
  <2> DEFINE d == [worker |-> w, front |-> M.resume]
  <2>1. d \in D
    OBVIOUS
  <2>2. \A r \in D : r.worker = w => r = d
    OBVIOUS
  <2>3. CASE \E r \in E : r.worker = w /\ r.front > M.resume
    <3>1. PICK r \in E : r.worker = w /\ r.front > M.resume
      BY <2>3
    <3>2. \A q \in E : q.worker = w => q = r
      BY <3>1
    <3>3. \A q \in E \cup D : q.worker = w => q.front <= r.front
      BY <1>1, <1>8, <2>2, <3>1, <3>2
    <3>4. QED
      BY <3>1, <3>3 DEF MaxProgress
  <2>4. CASE ~ \E r \in E : r.worker = w /\ r.front > M.resume
    <3>1. \A q \in E \cup D : q.worker = w => q.front <= d.front
      BY <1>1, <1>8, <2>2, <2>4
    <3>2. QED
      BY <2>1, <3>1 DEF MaxProgress
  <2>5. QED
    BY <2>3, <2>4
<1>11. ASSUME NEW v \in Nat, NEW w \in 0 .. (M.count - 1)
       PROVE  (\E r \in E \cup D : r.worker = w /\ v <= r.front) <=>
                \/ v <= M.resume
                \/ \E f \in F : f.ex = M.ex /\ f.worker = w /\ v <= f.front
  <2>1. [worker |-> w, front |-> M.resume] \in D
    OBVIOUS
  <2>2. \A r \in D : r.front = M.resume
    OBVIOUS
  <2>3. \A f \in F : f.ex = M.ex => [worker |-> f.worker, front |-> f.front] \in E
    OBVIOUS
  <2>4. \A r \in E : \E f \in F : f.ex = M.ex /\ r.worker = f.worker /\ r.front = f.front
    OBVIOUS
  <2> HIDE DEF D, E
  <2>5. ASSUME NEW r \in E \cup D, r.worker = w, v <= r.front
        PROVE  \/ v <= M.resume
               \/ \E f \in F : f.ex = M.ex /\ f.worker = w /\ v <= f.front
    BY <2>2, <2>4, <2>5
  <2>6. ASSUME v <= M.resume
        PROVE  \E r \in E \cup D : r.worker = w /\ v <= r.front
    BY <2>1, <2>6
  <2>7. ASSUME NEW f \in F, f.ex = M.ex, f.worker = w, v <= f.front
        PROVE  \E r \in E \cup D : r.worker = w /\ v <= r.front
    <3> DEFINE r == [worker |-> f.worker, front |-> f.front]
    <3>1. r \in E /\ r.worker = w /\ v <= r.front
      BY <2>3, <2>7
    <3>2. QED
      BY <3>1
  <2>8. QED
    BY <2>5, <2>6, <2>7
<1> HIDE DEF D, E
<1>12. W # {}
  <2>1. 0 \in 0 .. (M.count - 1)
    BY <1>1
  <2>2. PICK r \in MaxProgress(E \cup D) : r.worker = 0
    BY <1>10, <2>1
  <2>3. r.front \in W
    BY <1>5, <2>2
  <2>4. QED
    BY <2>3
<1>13. Min(W) \in W /\ Min(W) \in Nat /\ \A y \in W : Min(W) <= y
  BY <1>9, <1>12, MinIsLeast
<1>14. ASSUME NEW v \in Nat
       PROVE  v <= Min(W) <=> \A w \in 0 .. (M.count - 1) :
                                 \E r \in E \cup D : r.worker = w /\ v <= r.front
  <2>1. ASSUME v <= Min(W), NEW w \in 0 .. (M.count - 1)
        PROVE  \E r \in E \cup D : r.worker = w /\ v <= r.front
    <3>1. PICK r \in MaxProgress(E \cup D) : r.worker = w
      BY <1>10
    <3>2. r.front \in W /\ r.front \in Nat
      BY <1>5, <1>9
    <3>3. Min(W) <= r.front
      BY <1>13, <3>2
    <3>4. v <= r.front
      BY <1>13, <2>1, <3>2, <3>3
    <3>5. QED
      BY <3>1, <3>4 DEF MaxProgress
  <2>2. ASSUME \A w \in 0 .. (M.count - 1) : \E r \in E \cup D : r.worker = w /\ v <= r.front
        PROVE  v <= Min(W)
    <3>1. PICK r \in MaxProgress(E \cup D) : r.front = Min(W)
      BY <1>5, <1>13
    <3>2. r \in E \cup D /\ \A q \in E \cup D : q.worker = r.worker => q.front <= r.front
      BY <3>1 DEF MaxProgress
    <3>3. PICK q \in E \cup D : q.worker = r.worker /\ v <= q.front
      BY <1>8, <2>2, <3>2
    <3>4. q.front <= r.front /\ q.front \in Nat /\ r.front \in Nat
      BY <1>8, <3>2, <3>3
    <3>5. QED
      BY <3>1, <3>3, <3>4
  <2>3. QED
    BY <2>1, <2>2
<1>15. \A v \in Nat :
         v <= Min(W) <=>
           \A w \in 0 .. (M.count - 1) :
             \/ v <= M.resume
             \/ \E f \in F : f.ex = M.ex /\ f.worker = w /\ v <= f.front
  BY <1>11, <1>14
<1>16. QED
  BY <1>7, <1>13, <1>15

-----------------------------------------------------------------------------
(* The store as a whole. *)

RowsTyped ==
  /\ AllRows(exs) \subseteq ExRows
  /\ AllRows(fronts) \subseteq FrontRows
  /\ AllRows(snaps) \subseteq SnapRows

RowsUnique ==
  /\ \A r, q \in AllRows(exs) : r.ex = q.ex => r = q
  /\ \A f, g \in AllRows(fronts) : f.ex = g.ex /\ f.worker = g.worker => f = g
  /\ \A f \in AllRows(fronts), r \in AllRows(exs) : f.ex = r.ex => f.worker < r.count

(* Rows of all partitions together keep their types and primary keys, as    *)
(* the in-memory database of the resume calculation needs.                  *)
LEMMA MergedRows == TypeOK /\ StoreKeys => RowsTyped /\ RowsUnique
<1> SUFFICES ASSUME TypeOK, StoreKeys
             PROVE  RowsTyped /\ RowsUnique
  OBVIOUS
<1>1. RowsTyped
  BY DEF TypeOK, RowsTyped, AllRows
<1>2. \A r, q \in AllRows(exs) : r.ex = q.ex => r = q
  <2> SUFFICES ASSUME NEW r \in AllRows(exs), NEW q \in AllRows(exs), r.ex = q.ex
               PROVE  r = q
    OBVIOUS
  <2>1. PICK a \in Parts : r \in exs[a]
    BY DEF AllRows
  <2>2. PICK b \in Parts : q \in exs[b]
    BY DEF AllRows
  <2>3. a = b
    BY <2>1, <2>2 DEF StoreKeys
  <2>4. QED
    BY <2>1, <2>2, <2>3 DEF StoreKeys
<1>3. \A f, g \in AllRows(fronts) : f.ex = g.ex /\ f.worker = g.worker => f = g
  <2> SUFFICES ASSUME NEW f \in AllRows(fronts), NEW g \in AllRows(fronts),
                      f.ex = g.ex, f.worker = g.worker
               PROVE  f = g
    OBVIOUS
  <2>1. PICK a \in Parts : f \in fronts[a]
    BY DEF AllRows
  <2>2. PICK b \in Parts : g \in fronts[b]
    BY DEF AllRows
  <2>3. a = b
    BY <2>1, <2>2 DEF StoreKeys
  <2>4. QED
    BY <2>1, <2>2, <2>3 DEF StoreKeys
<1>4. \A f \in AllRows(fronts), r \in AllRows(exs) : f.ex = r.ex => f.worker < r.count
  BY <1>2 DEF StoreKeys
<1>5. QED
  BY <1>1, <1>2, <1>3, <1>4 DEF RowsUnique

ResumeTyped ==
  /\ StoreResume.ex \in Nat /\ StoreResume.ex <= runs
  /\ StoreResume.epoch \in Nat
  /\ \A r \in AllRows(exs) : r.ex \in Nat /\ r.ex < StoreResume.ex
  /\ StoreResume.ex = 0 \/ \E r \in AllRows(exs) : StoreResume.ex = r.ex + 1

(* The store always yields an execution number that is new and an epoch.    *)
LEMMA ResumeIsTyped == TypeOK /\ StoreKeys => ResumeTyped
<1> SUFFICES ASSUME TypeOK, StoreKeys
             PROVE  ResumeTyped
  OBVIOUS
<1> DEFINE X == AllRows(exs)
           F == AllRows(fronts)
           N == {r.ex : r \in X}
<1>1. RowsTyped /\ RowsUnique
  BY MergedRows
<1>2. runs \in Nat
  BY BoundAssumption DEF TypeOK
<1>3. CASE X = {}
  <2>1. StoreResume = [ex |-> 0, epoch |-> 1]
    BY <1>3 DEF StoreResume, ResumeFrom
  <2>2. QED
    BY <1>2, <1>3, <2>1 DEF ResumeTyped
<1>4. CASE X # {}
  <2>1. N # {} /\ N \subseteq Nat
    BY <1>1, <1>4 DEF RowsTyped, ExRows
  <2>2. \A y \in N : y < runs /\ y <= runs
    <3>1. \A r \in X : r.ex < runs
      BY DEF StoreKeys, AllRows
    <3>2. \A y \in N : y \in Nat /\ y < runs
      BY <2>1, <3>1, Zenon
    <3>3. QED
      BY <1>2, <3>2
  <2>3. Max(N) \in N /\ \A y \in N : y <= Max(N)
    BY <1>2, <2>1, <2>2, MaxIsGreatest
  <2>4. PICK M \in X : M.ex = Max(N)
    BY <2>3
  <2>5. \A q \in X : q.ex <= M.ex /\ (q.ex = M.ex => q = M)
    BY <1>1, <2>3, <2>4 DEF RowsUnique
  <2>6. \A f \in F : f.ex = M.ex => f.worker < M.count
    BY <1>1 DEF RowsUnique
  <2>7. StoreResume.ex = M.ex + 1 /\ StoreResume.epoch \in Nat
    BY <1>1, <2>5, <2>6, ResumeFromNewest DEF RowsTyped, RowsUnique, StoreResume
  <2>8. M.ex \in Nat /\ M.ex < runs
    BY <2>1, <2>2, <2>3, <2>4
  <2>9. \A r \in X : r.ex \in Nat /\ r.ex <= M.ex
    BY <2>1, <2>5
  <2>10. QED
    BY <1>2, <2>7, <2>8, <2>9 DEF ResumeTyped
<1>5. QED
  BY <1>3, <1>4

ResumeReported ==
  /\ StoreResume.epoch \in Nat
  /\ \A v \in Nat : v <= StoreResume.epoch <=> AllReported(v)

(* While an execution runs, the store would resume at the largest epoch that*)
(* all of its workers have reported.                                        *)
LEMMA ResumeIsReported ==
  TypeOK /\ StoreKeys /\ ExecutionRow /\ Running => ResumeReported
<1> SUFFICES ASSUME TypeOK, StoreKeys, ExecutionRow, Running
             PROVE  ResumeReported
  OBVIOUS
<1> DEFINE X == AllRows(exs)
           F == AllRows(fronts)
           M == [ex |-> ex, count |-> workers, resume |-> resume]
<1>1. RowsTyped /\ RowsUnique
  BY MergedRows
<1>2. workers \in Nat \ {0} /\ resume \in Nat /\ ex \in Nat
  BY ClusterAssumption DEF TypeOK, Running
<1>3. CASE exMsg
  <2>1. StoreResume.epoch = resume /\ \A r \in X : r.ex < ex
    BY <1>3 DEF ExecutionRow
  <2>2. \A f \in F : f.ex # ex
    BY <1>1, <1>2, <2>1 DEF StoreKeys, RowsTyped, ExRows
  <2>3. 0 \in Live
    BY <1>2 DEF Live
  <2>4. \A v \in Nat : v <= resume <=> AllReported(v)
    BY <1>2, <2>2, <2>3 DEF AllReported, Reported
  <2>5. QED
    BY <1>2, <2>1, <2>4 DEF ResumeReported
<1>4. CASE ~ exMsg
  <2>1. M \in X /\ \A r \in X : r.ex <= ex
    BY <1>4 DEF ExecutionRow
  <2>2. \A q \in X : q.ex <= M.ex /\ (q.ex = M.ex => q = M)
    BY <1>1, <2>1 DEF RowsUnique
  <2>3. \A f \in F : f.ex = M.ex => f.worker < M.count
    BY <1>1, <2>1 DEF RowsUnique
  <2> HIDE DEF M
  <2>4. /\ StoreResume.epoch \in Nat
        /\ \A v \in Nat :
              v <= StoreResume.epoch <=>
                \A w \in 0 .. (M.count - 1) :
                  \/ v <= M.resume
                  \/ \E f \in F : f.ex = M.ex /\ f.worker = w /\ v <= f.front
    BY <1>1, <2>1, <2>2, <2>3, ResumeFromNewest DEF RowsTyped, RowsUnique, StoreResume
  <2>5. M.count = workers /\ M.resume = resume /\ M.ex = ex
    BY DEF M
  <2>6. QED
    BY <2>4, <2>5 DEF ResumeReported, AllReported, Reported, Live
<1>5. QED
  BY <1>3, <1>4

(* The same in the next state. *)
LEMMA NextResumeIsReported ==
  TypeOK' /\ StoreKeys' /\ ExecutionRow' /\ Running' => ResumeReported'
BY ResumeIsReported, PTL

(* And of the typing of what the store yields. *)
LEMMA NextResumeIsTyped == TypeOK' /\ StoreKeys' => ResumeTyped'
BY ResumeIsTyped, PTL

-----------------------------------------------------------------------------
(* Type correctness. *)

(* The key of an item is a key. *)
LEMMA ItemHasKey == \A i \in Items : Input[i[1]][i[2]] \in Keys
<1> SUFFICES ASSUME NEW s \in Srcs, NEW n \in 1 .. Len(Input[s])
             PROVE  Input[s][n] \in Keys
  BY DEF Items
<1>1. Input[s] \in Seq(Keys)
  BY InputAssumption
<1>2. QED
  BY <1>1

(* A key that was never loaded has counted nothing. *)
LEMMA NoEffectTyped == NoEffect \in Effects
BY DEF NoEffect, Effects

(* What a resume loads for a source or a key. *)
LEMMA LoadsTyped ==
  ASSUME NEW R, R \subseteq SnapRows
  PROVE  /\ \A s : LoadedOffset(R, s) \in Nat
         /\ \A k : LoadedState(R, k) \in Effects
BY NoEffectTyped DEF LoadedOffset, LoadedState, SnapRows

(* One lemma per step: a resume loads values of the right types ... *)
LEMMA TypeResume ==
  ASSUME TypeOK, StoreKeys, NEW n \in WorkerCounts, NEW d \in Delays, Resume(n, d)
  PROVE  TypeOK'
<1> DEFINE R == LoadSnaps(StoreResume.epoch)
<1>1. ResumeTyped
  BY ResumeIsTyped
<1>2. R \subseteq SnapRows
  BY DEF LoadSnaps, MaxEpochSnaps, TypeOK
<1> HIDE DEF R
<1>3. /\ \A s \in Srcs : LoadedOffset(R, s) \in Nat
      /\ \A k \in Keys : LoadedState(R, k) \in Effects
  BY <1>2, LoadsTyped
<1>4. /\ offset' = [s \in Srcs |-> LoadedOffset(R, s)]
      /\ state' = [k \in Keys |-> LoadedState(R, k)]
  BY DEF Resume, R
<1>5. offset' \in [Srcs -> Nat] /\ state' \in [Keys -> Effects]
  BY <1>3, <1>4
<1>6. n \in Nat /\ d \in Nat /\ runs' \in 0 .. MaxRuns
  BY ClusterAssumption, BoundAssumption DEF TypeOK, Resume
<1>7. /\ srcCap' \in [Srcs -> SUBSET Nat]
      /\ opCap' \in [WorkerIds -> SUBSET Nat]
      /\ frontCap' \in [WorkerIds -> SUBSET Nat]
  BY <1>1 DEF Resume, ResumeTyped
<1>8. QED
  BY <1>1, <1>5, <1>6, <1>7 DEF TypeOK, Resume, ResumeTyped, store

(* ... a poll reads items of its partition ... *)
LEMMA TypeNextBatch ==
  ASSUME TypeOK, NEW s \in Srcs, NEW n \in BatchSizes, NEW b \in BOOLEAN, NextBatch(s, n, b)
  PROVE  TypeOK'
<1>1. PICK e \in srcCap[s] :
        /\ offset[s] + n <= Len(Input[s])
        /\ offset' = [offset EXCEPT ![s] = offset[s] + n]
        /\ items' = items \cup {[item |-> <<s, i>>, epoch |-> e] :
                                  i \in (offset[s] + 1) .. (offset[s] + n)}
        /\ IF b
             THEN /\ snapMsgs' = snapMsgs \cup {SourceSnap(s, offset[s] + n, e)}
                  /\ srcCap' = [srcCap EXCEPT ![s] = {e + 1}]
             ELSE UNCHANGED <<snapMsgs, srcCap>>
  BY DEF NextBatch
<1>2. UNCHANGED <<process, step, exMsg, frontCap, frontMsgs, ticks, store>>
  BY DEF NextBatch
<1>3. e \in Nat /\ offset[s] \in Nat /\ n \in Nat /\ Len(Input[s]) \in Nat
  BY BatchAssumption, InputAssumption DEF TypeOK
<1>4. offset' \in [Srcs -> Nat]
  BY <1>1, <1>3 DEF TypeOK
<1>5. \A i \in (offset[s] + 1) .. (offset[s] + n) : <<s, i>> \in Items
  BY <1>1, <1>3 DEF Items
<1>6. items' \subseteq ItemMsgs
  BY <1>1, <1>3, <1>5 DEF TypeOK, ItemMsgs
<1>7. SourceSnap(s, offset[s] + n, e) \in SnapRows
  BY <1>3, NoEffectTyped DEF SourceSnap, SnapRows, Ids
<1>8. snapMsgs' \subseteq SnapRows /\ srcCap' \in [Srcs -> SUBSET Nat]
  BY <1>1, <1>3, <1>7 DEF TypeOK
<1>9. QED
  BY <1>2, <1>4, <1>6, <1>8 DEF TypeOK, process, step, store

(* ... an exhausted partition snapshots its position ... *)
LEMMA TypeSourceEof ==
  ASSUME TypeOK, NEW s \in Srcs, SourceEof(s)
  PROVE  TypeOK'
<1>1. PICK e \in srcCap[s] :
        /\ snapMsgs' = snapMsgs \cup {SourceSnap(s, offset[s], e)}
        /\ srcCap' = [srcCap EXCEPT ![s] = {}]
  BY DEF SourceEof
<1>2. e \in Nat /\ offset[s] \in Nat
  BY DEF TypeOK
<1>3. SourceSnap(s, offset[s], e) \in SnapRows
  BY <1>2, NoEffectTyped DEF SourceSnap, SnapRows, Ids
<1>4. snapMsgs' \subseteq SnapRows /\ srcCap' \in [Srcs -> SUBSET Nat]
  BY <1>1, <1>3 DEF TypeOK
<1>5. QED
  BY <1>4 DEF SourceEof, TypeOK, process, step, store

(* ... an item is counted by a key ... *)
LEMMA TypeOnItem ==
  ASSUME TypeOK, NEW m \in items, OnItem(m)
  PROVE  TypeOK'
<1> DEFINE k == Input[m.item[1]][m.item[2]]
<1>1. m.item \in Items /\ k \in Keys
  BY ItemHasKey DEF TypeOK, ItemMsgs
<1>2. state' = [state EXCEPT ![k][m.item] = @ + 1]
  BY DEF OnItem
<1> HIDE DEF k
<1>3. state[k] \in [Items -> Nat]
  BY <1>1 DEF TypeOK, Effects
<1>4. [state[k] EXCEPT ![m.item] = @ + 1] \in [Items -> Nat]
  BY <1>1, <1>3
<1>5. state' \in [Keys -> Effects]
  BY <1>1, <1>2, <1>4 DEF TypeOK, Effects
<1>6. awoken' \subseteq Keys /\ items' \subseteq ItemMsgs
  BY <1>1 DEF OnItem, InbufRemove, TypeOK, k
<1>7. QED
  BY <1>5, <1>6 DEF OnItem, TypeOK, process, input, store

(* ... closing an epoch snapshots keys and moves the capability ... *)
LEMMA TypeCloseEpoch ==
  ASSUME TypeOK, NEW w \in WorkerIds, CloseEpoch(w)
  PROVE  TypeOK'
<1>1. PICK c \in opCap[w] :
        /\ snapMsgs' \subseteq snapMsgs \cup {KeySnap(k, c) : k \in Keys}
        /\ awoken' = awoken \ MyKeys(w)
        /\ opCap' = [opCap EXCEPT ![w] = Simplify(StepIn)]
  BY DEF CloseEpoch, MyKeys
<1>2. c \in Nat
  BY DEF TypeOK
<1>3. \A k \in Keys : KeySnap(k, c) \in SnapRows
  BY <1>2 DEF KeySnap, SnapRows, TypeOK, Ids
<1>4. StepIn \subseteq Nat
  BY DEF TypeOK, StepIn, Caps, Epochs, ItemMsgs
<1>5. opCap' \in [WorkerIds -> SUBSET Nat]
  BY <1>1, <1>4 DEF TypeOK, Simplify
<1>6. snapMsgs' \subseteq SnapRows /\ awoken' \subseteq Keys
  BY <1>1, <1>3 DEF TypeOK
<1>7. QED
  BY <1>5, <1>6 DEF CloseEpoch, TypeOK, process, input, store

(* ... the execution writer writes the size of a running cluster ... *)
LEMMA TypeWriteExecution ==
  ASSUME TypeOK, Quiet, ExecutionRow, WriteExecution
  PROVE  TypeOK'
<1> DEFINE row == [ex |-> ex, count |-> workers, resume |-> resume]
<1>1. Running
  BY DEF WriteExecution, Quiet, Running, TypeOK
<1>2. row \in ExRows
  BY <1>1 DEF ExRows, TypeOK, Running
<1>3. exs' = [exs EXCEPT ![ExPart[ex]] = @ \cup {row}]
  BY DEF WriteExecution
<1> HIDE DEF row
<1>4. DOMAIN exs' = Parts /\ \A p \in Parts : exs'[p] \subseteq ExRows
  BY <1>2, <1>3 DEF TypeOK
<1>5. exMsg' \in BOOLEAN
  BY DEF WriteExecution
<1>6. QED
  BY <1>4, <1>5 DEF WriteExecution, TypeOK, process, input, step

(* ... the snapshot writer upserts ... *)
LEMMA TypeWriteSnapshot ==
  ASSUME TypeOK, NEW m \in snapMsgs, WriteSnapshot(m)
  PROVE  TypeOK'
<1>1. m \in SnapRows
  BY DEF TypeOK
<1>2. snaps' = [snaps EXCEPT ![SnapPart[m.id]] = UpsertSnap(@, m)]
  BY DEF WriteSnapshot
<1>3. DOMAIN snaps' = Parts /\ \A p \in Parts : snaps'[p] \subseteq SnapRows
  BY <1>1, <1>2 DEF TypeOK, UpsertSnap
<1>4. snapMsgs' \subseteq SnapRows
  BY DEF TypeOK, WriteSnapshot
<1>5. QED
  BY <1>3, <1>4 DEF WriteSnapshot, TypeOK, process, input, step

EpochsTyped ==
  /\ StepIn \subseteq Nat /\ SnapIn \subseteq Nat /\ FrontierIn \subseteq Nat
  /\ CommitIn \subseteq Nat /\ Probe \subseteq Nat

(* Every set of epochs along the dataflow is a set of natural numbers. *)
LEMMA FrontiersTyped == TypeOK => EpochsTyped
BY DEF EpochsTyped, TypeOK, StepIn, SnapIn, FrontierIn, CommitIn, Probe, Caps, Epochs,
       ItemMsgs, SnapRows, FrontMsgs

(* The same in the next state. *)
LEMMA NextFrontiersTyped == TypeOK' => EpochsTyped'
BY FrontiersTyped, PTL

(* ... the frontier operator reports an epoch ... *)
LEMMA TypeEmitFrontier ==
  ASSUME TypeOK, NEW w \in WorkerIds, EmitFrontier(w)
  PROVE  TypeOK'
<1>0. PICK c \in frontCap[w] :
        /\ \E f \in FrontierEpoch(c) :
             frontMsgs' = frontMsgs \cup {[ex |-> ex, worker |-> w, front |-> f, epoch |-> c]}
        /\ frontCap' = [frontCap EXCEPT ![w] = Simplify(FrontierIn)]
  BY DEF EmitFrontier
<1>1. PICK f \in FrontierEpoch(c) :
        frontMsgs' = frontMsgs \cup {[ex |-> ex, worker |-> w, front |-> f, epoch |-> c]}
  BY <1>0
<1>2. c \in Nat /\ f \in Nat /\ Simplify(FrontierIn) \subseteq Nat
  <2>1. FrontierIn \subseteq Nat
    BY FrontiersTyped DEF EpochsTyped
  <2>2. c \in Nat /\ Simplify(FrontierIn) \subseteq Nat
    BY <2>1 DEF Simplify, TypeOK
  <2>3. QED
    BY <2>2 DEF FrontierEpoch
<1>3. frontMsgs' \subseteq FrontMsgs /\ frontCap' \in [WorkerIds -> SUBSET Nat]
  BY <1>0, <1>1, <1>2 DEF TypeOK, FrontMsgs
<1>4. QED
  BY <1>3 DEF EmitFrontier, TypeOK, process, input, step, store

(* ... the frontier writer upserts and ticks the committers ... *)
LEMMA TypeWriteFrontier ==
  ASSUME TypeOK, NEW m \in frontMsgs, WriteFrontier(m)
  PROVE  TypeOK'
<1> DEFINE row == [ex |-> m.ex, worker |-> m.worker, front |-> m.front]
<1>1. m.epoch \in Nat /\ row \in FrontRows
  BY DEF TypeOK, FrontMsgs, FrontRows
<1>2. fronts' = [fronts EXCEPT ![FrontPart[m.ex][m.worker]] = UpsertFront(@, row)]
  BY DEF WriteFrontier
<1> HIDE DEF row
<1>3. DOMAIN fronts' = Parts /\ \A p \in Parts : fronts'[p] \subseteq FrontRows
  BY <1>1, <1>2 DEF TypeOK, UpsertFront
<1>4. frontMsgs' \subseteq FrontMsgs /\ ticks' \in [Parts -> SUBSET Nat]
  BY <1>1 DEF TypeOK, WriteFrontier
<1>5. QED
  BY <1>3, <1>4 DEF WriteFrontier, TypeOK, process, input, step

(* ... the subtraction of the backup interval stays a natural number ... *)
LEMMA TypeCommit ==
  ASSUME TypeOK, NEW p \in Parts, Commit(p)
  PROVE  TypeOK'
<1>1. PICK e \in Simplify(ticks[p]) :
        /\ ticks' = [ticks EXCEPT ![p] = @ \ {e}]
        /\ IF CheckedSub(e, delay) = {}
             THEN UNCHANGED <<commits, snaps>>
             ELSE \E c \in CheckedSub(e, delay) :
                    /\ commits' = [commits EXCEPT ![p] = {c}]
                    /\ snaps' = [snaps EXCEPT ![p] = GcDelete(@, c)]
  BY DEF Commit
<1>2. e \in Nat /\ delay \in Nat
  BY DEF Simplify, TypeOK
<1>3. CheckedSub(e, delay) \subseteq Nat
  BY <1>2 DEF CheckedSub
<1>4. ticks' \in [Parts -> SUBSET Nat]
  BY <1>1 DEF TypeOK
<1>5. /\ DOMAIN snaps' = Parts /\ \A q \in Parts : snaps'[q] \subseteq SnapRows
      /\ DOMAIN commits' = Parts /\ \A q \in Parts : commits'[q] \subseteq Nat
  <2>1. CASE CheckedSub(e, delay) = {}
    BY <1>1, <2>1 DEF TypeOK
  <2>2. CASE CheckedSub(e, delay) # {}
    <3>1. PICK c \in CheckedSub(e, delay) :
            /\ commits' = [commits EXCEPT ![p] = {c}]
            /\ snaps' = [snaps EXCEPT ![p] = GcDelete(@, c)]
      BY <1>1, <2>2
    <3>2. c \in Nat /\ GcDelete(snaps[p], c) \subseteq snaps[p]
      BY <1>3 DEF GcDelete
    <3>3. QED
      BY <3>1, <3>2 DEF TypeOK
  <2>3. QED
    BY <2>1, <2>2
<1>6. QED
  BY <1>4, <1>5 DEF Commit, TypeOK, process, input, step

(* ... and a cluster that stops leaves the store as it is. *)
LEMMA TypeVanish ==
  ASSUME TypeOK, Vanish
  PROVE  TypeOK'
BY NoEffectTyped DEF Vanish, TypeOK, store

=============================================================================
