------------------------ MODULE PartitionedFileProofs -----------------------
(***************************************************************************)
(* The proofs about what the files of PartitionedOutput hold: that a resume*)
(* cuts them to the items before its epoch, and that an open file has each *)
(* of its items once.                                                      *)
(***************************************************************************)
EXTENDS PartitionedFileInvariant, PartitionedOutputProofs

-----------------------------------------------------------------------------
(* Items in a file. *)

LEMMA BelongsIs ==
  ASSUME NEW p, NEW e \in Nat
  PROVE  /\ IsFiniteSet(Belongs(p, e)) /\ Count(p, e) \in Nat
         /\ Belongs(p, e) \subseteq Sources \X Nat
         /\ \A s \in Sources : \A x \in Nat :
              <<s, x>> \in Belongs(p, e)
                <=> 1 <= x /\ x < e /\ x <= Len(Script[s]) /\ FileOf(SinkParts, s, x) = p
<1>1. Belongs(p, e) \subseteq Sources \X (1 .. e - 1)
  BY DEF Belongs, FirstEpoch
<1>2. IsFiniteSet(Sources) /\ IsFiniteSet(1 .. e - 1)
  BY OutputAssumption, FS_Interval
<1>3. IsFiniteSet(Sources \X (1 .. e - 1))
  BY <1>2, FS_Product
<1>4. IsFiniteSet(Belongs(p, e)) /\ Count(p, e) \in Nat
  BY <1>1, <1>3, FS_Subset, FS_CardinalityType DEF Count
<1>5. Belongs(p, e) \subseteq Sources \X Nat
  BY <1>1
<1>6. ASSUME NEW s \in Sources, NEW x \in Nat
      PROVE  <<s, x>> \in Belongs(p, e)
               <=> 1 <= x /\ x < e /\ x <= Len(Script[s]) /\ FileOf(SinkParts, s, x) = p
  <2>1. <<s, x>> \in Sources \X (FirstEpoch .. e - 1) <=> 1 <= x /\ x < e
    BY DEF FirstEpoch
  <2>2. QED
    BY <2>1 DEF Belongs
<1>7. QED
  BY <1>4, <1>5, <1>6

(* Different items are as many as there are. *)
LEMMA LengthIs ==
  ASSUME NEW f, NEW n \in Nat, InOrder(f, n)
  PROVE  Cardinality(Among(f, n)) = n
<1> DEFINE g == [i \in 1 .. n |-> f[i]]
<1>1. g \in [1 .. n -> Among(f, n)]
  BY DEF Among
<1>2. \A i, j \in 1 .. n : g[i] = g[j] => i = j
  <2>1. SUFFICES ASSUME NEW i \in 1 .. n, NEW j \in 1 .. n, g[i] = g[j]
                 PROVE  i = j
    OBVIOUS
  <2>2. f[i] = f[j]
    BY <2>1
  <2>3. ~ (i < j) /\ ~ (j < i)
    BY <2>2 DEF InOrder
  <2>4. QED
    BY <2>3
<1>3. \A y \in Among(f, n) : \E i \in 1 .. n : g[i] = y
  BY DEF Among
<1>4. g \in Bijection(1 .. n, Among(f, n))
  BY <1>1, <1>2, <1>3 DEF Bijection, Injection, Surjection, IsInjective
<1>5. IsFiniteSet(1 .. n) /\ Cardinality(1 .. n) = n
  BY FS_Interval
<1>6. QED
  BY <1>4, <1>5, FS_Bijection DEF ExistsBijection

LEMMA HoldsIs ==
  ASSUME NEW f \in Seq(Sources \X Nat), NEW n \in 0 .. Len(f), InOrder(f, n)
  PROVE  Holds(SubSeq(f, 1, n), Among(f, n))
<1>1. PICK g : g = SubSeq(f, 1, n)
  OBVIOUS
<1>2. n \in Nat
  OBVIOUS
<1>3. /\ Len(g) = n /\ DOMAIN g = 1 .. n
      /\ \A i \in 1 .. n : g[i] = f[i]
  BY <1>1
<1>4. Range(g) = Among(f, n)
  BY <1>3 DEF Range, Among
<1>5. Cardinality(Among(f, n)) = n
  BY <1>2, LengthIs
<1>6. \A i, j \in DOMAIN g : i < j => g[i][2] <= g[j][2]
  BY <1>3 DEF InOrder
<1>7. QED
  BY <1>1, <1>3, <1>4, <1>5, <1>6 DEF Holds

(* A file that has exactly its items before an epoch can be cut there. *)
LEMMA ExactIsCut ==
  ASSUME NEW f \in Seq(Sources \X Nat), NEW p, NEW e,
         InOrder(f, Len(f)), Among(f, Len(f)) = Belongs(p, e)
  PROVE  CutAt(f, p, e)
<1>1. Len(f) \in Nat
  OBVIOUS
<1>2. Count(p, e) = Len(f)
  BY <1>1, LengthIs DEF Count
<1>3. QED
  BY <1>1, <1>2 DEF CutAt

(* What is left of a file that is cut. *)
LEMMA CutIs ==
  ASSUME NEW f, NEW p, NEW e \in Nat, CutAt(f, p, e), NEW g, g = SubSeq(f, 1, Count(p, e))
  PROVE  /\ g \in Seq(Sources \X Nat) /\ InOrder(g, Len(g)) /\ Among(g, Len(g)) = Belongs(p, e)
         /\ CutAt(g, p, e)
<1>1. PICK n \in Nat : n = Count(p, e)
  BY BelongsIs
<1>2. f \in Seq(Sources \X Nat) /\ n <= Len(f)
  BY <1>1 DEF CutAt
<1>3. /\ g \in Seq(Sources \X Nat) /\ Len(g) = n
      /\ \A i \in 1 .. n : g[i] = f[i]
  BY <1>1, <1>2
<1>4. InOrder(g, n) /\ Among(g, n) = Belongs(p, e)
  BY <1>1, <1>3 DEF CutAt, InOrder, Among
<1>5. QED
  BY <1>3, <1>4, ExactIsCut

(* An item is written behind the others. *)
LEMMA WrittenIs ==
  ASSUME NEW f \in Seq(Sources \X Nat), NEW i \in Sources \X Nat, NEW g, g = Append(f, i)
  PROVE  /\ g \in Seq(Sources \X Nat)
         /\ Among(g, Len(g)) = Among(f, Len(f)) \cup {i}
         /\ InOrder(f, Len(f)) /\ i \notin Among(f, Len(f))
              /\ (\A j \in Among(f, Len(f)) : j[2] <= i[2])
              => InOrder(g, Len(g))
         /\ \A p, e : e \in Nat /\ CutAt(f, p, e) => CutAt(g, p, e)
<1>1. PICK n \in Nat : n = Len(f)
  OBVIOUS
<1>2. /\ g \in Seq(Sources \X Nat) /\ Len(g) = n + 1
      /\ \A j \in 1 .. n : g[j] = f[j]
      /\ g[n + 1] = i
  BY <1>1
<1>3. Among(g, n + 1) = Among(f, n) \cup {i}
  <2>1. 1 .. n + 1 = (1 .. n) \cup {n + 1}
    OBVIOUS
  <2>2. QED
    BY <1>2, <2>1 DEF Among
<1>4. ASSUME InOrder(f, n), i \notin Among(f, n), \A j \in Among(f, n) : j[2] <= i[2]
      PROVE  InOrder(g, n + 1)
  <2>1. SUFFICES ASSUME NEW j \in 1 .. n + 1, NEW k \in 1 .. n + 1, j < k
                 PROVE  g[j] # g[k] /\ g[j][2] <= g[k][2]
    BY DEF InOrder
  <2>2. CASE k \in 1 .. n
    <3>1. j \in 1 .. n
      BY <2>1, <2>2
    <3>2. QED
      BY <1>2, <1>4, <2>1, <2>2, <3>1 DEF InOrder
  <2>3. CASE k = n + 1
    <3>1. j \in 1 .. n
      BY <2>1, <2>3
    <3>2. f[j] \in Among(f, n)
      BY <3>1 DEF Among
    <3>3. QED
      BY <1>2, <1>4, <2>3, <3>1, <3>2
  <2>4. k \in 1 .. n \/ k = n + 1
    BY <2>1
  <2>5. QED
    BY <2>2, <2>3, <2>4
<1>5. ASSUME NEW p, NEW e, e \in Nat, CutAt(f, p, e)
      PROVE  CutAt(g, p, e)
  <2>1. PICK c \in Nat : c = Count(p, e)
    BY <1>5, BelongsIs
  <2>2. c <= n
    BY <1>1, <1>5, <2>1 DEF CutAt
  <2>3. c <= n + 1 /\ \A j \in 1 .. c : g[j] = f[j]
    BY <1>2, <2>2
  <2>4. InOrder(g, c) /\ Among(g, c) = Belongs(p, e)
    BY <1>5, <2>1, <2>3 DEF CutAt, InOrder, Among
  <2>5. QED
    BY <1>2, <2>1, <2>3, <2>4 DEF CutAt
<1>6. QED
  BY <1>1, <1>2, <1>3, <1>4, <1>5

-----------------------------------------------------------------------------
(* The recursive functions of the output, one step at a time. *)

(* What passes from each number to the next reaches all of them. *)
LEMMA Upward ==
  ASSUME NEW n \in Nat, NEW B, \A m \in 0 .. n : (m # 0 => m - 1 \in B) => m \in B
  PROVE  \A m \in 0 .. n : m \in B
<1> DEFINE Bad == {m \in 0 .. n : m \notin B}
<1>1. SUFFICES ASSUME Bad # {}
               PROVE  FALSE
  OBVIOUS
<1>2. Bad \in SUBSET Nat
  OBVIOUS
<1> HIDE DEF Bad
<1>3. PICK m \in Bad : \A o \in Bad : m <= o
  BY <1>1, <1>2, NatHasLeast
<1>4. m \in 0 .. n /\ m \notin B
  BY DEF Bad
<1>5. m # 0 => m - 1 \in 0 .. n /\ ~ (m <= m - 1)
  BY <1>4
<1>6. m # 0 => m - 1 \in B
  BY <1>3, <1>5 DEF Bad
<1>7. QED
  BY <1>4, <1>6

(* Now(st, e): the places of the items of e. *)
Now(st, e) == {i \in DOMAIN st.inbuf : st.inbuf[i].epoch = e}

EagerSteps(st, e, after) ==
  /\ after[0] = [st EXCEPT !.inbuf = Only(@, DOMAIN @ \ Now(st, e))]
  /\ \A i \in 1 .. Len(st.inbuf) :
       after[i] = IF i \in Now(st, e) THEN WriteItem(after[i - 1], st.inbuf[i])
                  ELSE after[i - 1]

LEMMA EagerUnfolds ==
  ASSUME NEW st, NEW e, st.inbuf \in Seq(AtRoute)
  PROVE  \E after : EagerSteps(st, e, after) /\ Eager(st, e) = after[Len(st.inbuf)]
<1> DEFINE now == {i \in DOMAIN st.inbuf : st.inbuf[i].epoch = e}
<1> DEFINE n == Len(st.inbuf)
           G(f, i) == IF i = 0 THEN [st EXCEPT !.inbuf = Only(@, DOMAIN @ \ now)]
                      ELSE IF i \in now THEN WriteItem(f[i - 1], st.inbuf[i]) ELSE f[i - 1]
           Rec(f, m) == f = [i \in 0 .. m |-> G(f, i)]
           after == CHOOSE f : Rec(f, n)
<1>1. n \in Nat
  OBVIOUS
<1>2. Eager(st, e) = after[n]
  BY DEF Eager
<1>3. \A f, g : \A i \in Nat : (i # 0 => f[i - 1] = g[i - 1]) => G(f, i) = G(g, i)
  OBVIOUS
<1> HIDE DEF n, G
<1>4. ASSUME NEW m \in Nat, NEW g, m # 0 => Rec(g, m - 1)
      PROVE  \E h : Rec(h, m)
  <2> DEFINE h == [i \in 0 .. m |-> IF i = m THEN G(g, m) ELSE g[i]]
  <2>1. \A i \in 0 .. m - 1 : g[i] = G(g, i)
    <3>1. CASE m # 0
      BY <1>4, <3>1
    <3>2. CASE m = 0
      BY <3>2
    <3>3. QED
      BY <3>1, <3>2
  <2>2. /\ DOMAIN h = 0 .. m /\ h = [i \in 0 .. m |-> h[i]]
        /\ h[m] = G(g, m) /\ \A i \in 0 .. m - 1 : h[i] = g[i]
    BY <1>4
  <2> HIDE DEF h
  <2>3. \A i \in 0 .. m : h[i] = G(h, i)
    <3>1. ASSUME NEW i \in 0 .. m
          PROVE  h[i] = G(h, i)
      <4>1. i \in Nat /\ (i # 0 => i - 1 \in 0 .. m - 1) /\ (i # m => i \in 0 .. m - 1)
        BY <1>4
      <4>2. G(h, i) = G(g, i)
        BY <1>3, <2>2, <4>1
      <4>3. QED
        BY <2>1, <2>2, <4>1, <4>2
    <3>2. QED
      BY <3>1
  <2>4. Rec(h, m)
    BY <2>2, <2>3
  <2> HIDE DEF Rec
  <2>5. QED
    BY <2>4
<1>5. Rec(after, n)
  <2> DEFINE B == {m \in Nat : \E h : Rec(h, m)}
  <2> HIDE DEF Rec
  <2>1. \A m \in 0 .. n : (m # 0 => m - 1 \in B) => m \in B
    BY <1>1, <1>4
  <2> HIDE DEF B
  <2>2. n \in 0 .. n
    BY <1>1
  <2>3. \A m \in 0 .. n : m \in B
    BY <1>1, <2>1, Upward
  <2>4. QED
    BY <2>2, <2>3 DEF B
<1>6. \A i \in 0 .. n : after[i] = G(after, i)
  BY <1>5
<1> HIDE DEF after, Rec
<1>7. after[0] = [st EXCEPT !.inbuf = Only(@, DOMAIN @ \ now)]
  <2>1. 0 \in 0 .. n
    BY <1>1
  <2>2. QED
    BY <1>6, <2>1 DEF G
<1>8. \A i \in 1 .. n : after[i] = IF i \in now THEN WriteItem(after[i - 1], st.inbuf[i])
                                  ELSE after[i - 1]
  <2>1. \A i \in 1 .. n : i \in 0 .. n /\ i # 0
    BY <1>1
  <2>2. QED
    BY <1>6, <2>1 DEF G
<1>9. QED
  BY <1>2, <1>7, <1>8 DEF n, Now, EagerSteps

(* The file p at a step of the close logic. *)
Due(st, e) == {m \in st.loads : m.epoch = e}
LastPart == Max({0} \cup SinkParts)

CloseSteps(st, e, after) ==
  \A p \in 0 .. LastPart :
    LET before == IF p = 0 THEN [Snapshot(st, e) EXCEPT !.loads = @ \ Due(st, e)]
                  ELSE after[p - 1]
    IN  after[p] = IF \E m \in Due(st, e) : m.part = p
                     THEN BuildPart(before, p, (CHOOSE m \in Due(st, e) : m.part = p).offset)
                     ELSE before

LEMMA CloseUnfolds ==
  ASSUME NEW st, NEW e
  PROVE  \E after : CloseSteps(st, e, after) /\ Close(st, e) = after[LastPart]
<1> DEFINE now == Due(st, e)
           before(f, i) == IF i = 0 THEN [Snapshot(st, e) EXCEPT !.loads = @ \ now] ELSE f[i - 1]
<1> DEFINE n == Max({0} \cup SinkParts)
           G(f, i) == IF \E m \in now : m.part = i
                        THEN BuildPart(before(f, i), i, (CHOOSE m \in now : m.part = i).offset)
                        ELSE before(f, i)
           Rec(f, m) == f = [i \in 0 .. m |-> G(f, i)]
           after == CHOOSE f : Rec(f, n)
<1>1. n \in Nat
  BY LastPartIs
<1>2. Close(st, e) = after[n]
  BY DEF Close, Due
<1>3. \A f, g : \A i \in Nat : (i # 0 => f[i - 1] = g[i - 1]) => G(f, i) = G(g, i)
  OBVIOUS
<1> HIDE DEF n, G
<1>4. ASSUME NEW m \in Nat, NEW g, m # 0 => Rec(g, m - 1)
      PROVE  \E h : Rec(h, m)
  <2> DEFINE h == [i \in 0 .. m |-> IF i = m THEN G(g, m) ELSE g[i]]
  <2>1. \A i \in 0 .. m - 1 : g[i] = G(g, i)
    <3>1. CASE m # 0
      BY <1>4, <3>1
    <3>2. CASE m = 0
      BY <3>2
    <3>3. QED
      BY <3>1, <3>2
  <2>2. /\ DOMAIN h = 0 .. m /\ h = [i \in 0 .. m |-> h[i]]
        /\ h[m] = G(g, m) /\ \A i \in 0 .. m - 1 : h[i] = g[i]
    BY <1>4
  <2> HIDE DEF h
  <2>3. \A i \in 0 .. m : h[i] = G(h, i)
    <3>1. ASSUME NEW i \in 0 .. m
          PROVE  h[i] = G(h, i)
      <4>1. i \in Nat /\ (i # 0 => i - 1 \in 0 .. m - 1) /\ (i # m => i \in 0 .. m - 1)
        BY <1>4
      <4>2. G(h, i) = G(g, i)
        BY <1>3, <2>2, <4>1
      <4>3. QED
        BY <2>1, <2>2, <4>1, <4>2
    <3>2. QED
      BY <3>1
  <2>4. Rec(h, m)
    BY <2>2, <2>3
  <2> HIDE DEF Rec
  <2>5. QED
    BY <2>4
<1>5. Rec(after, n)
  <2> DEFINE B == {m \in Nat : \E h : Rec(h, m)}
  <2> HIDE DEF Rec
  <2>1. \A m \in 0 .. n : (m # 0 => m - 1 \in B) => m \in B
    BY <1>1, <1>4
  <2> HIDE DEF B
  <2>2. n \in 0 .. n
    BY <1>1
  <2>3. \A m \in 0 .. n : m \in B
    BY <1>1, <2>1, Upward
  <2>4. QED
    BY <2>2, <2>3 DEF B
<1>6. \A i \in 0 .. n : after[i] = G(after, i)
  BY <1>5
<1> HIDE DEF after, Rec
<1>7. \A i \in 0 .. n : after[i] = IF \E m \in now : m.part = i
             THEN BuildPart(before(after, i), i, (CHOOSE m \in now : m.part = i).offset)
             ELSE before(after, i)
  BY <1>6 DEF G
<1>8. n = LastPart
  BY DEF n, LastPart
<1>9. CloseSteps(st, e, after)
  BY <1>7, <1>8 DEF before, CloseSteps
<1>10. QED
  BY <1>2, <1>8, <1>9

(* The epochs that a frontier closes. *)
Closed(st, view) == {e \in st.queue : IsClosed(view, e)}

ForEachSteps(st, view, n, after) ==
  /\ n \in Nat /\ \A e \in Closed(st, view) : e <= n
  /\ n # 0 => n \in Closed(st, view)
  /\ \A e \in 0 .. n :
       LET before == IF e = 0 THEN st ELSE after[e - 1]
       IN  after[e] = IF e \in Closed(st, view) THEN Close(Eager(before, e), e) ELSE before

LEMMA ForEachUnfolds ==
  ASSUME NEW st, NEW view, st.queue \subseteq Epoch
  PROVE  \E n, after, at :
           /\ ForEachSteps(st, view, n, after)
           /\ at = [after[n] EXCEPT !.queue = @ \ Closed(st, view)]
           /\ ForEach(st, view) = IF view = {} THEN [at EXCEPT !.open = {}]
                                  ELSE IF view \subseteq at.queue
                                         THEN Eager(at, CHOOSE f \in view : TRUE)
                                  ELSE at
<1> DEFINE closed == {e \in st.queue : IsClosed(view, e)}
           before(f, i) == IF i = 0 THEN st ELSE f[i - 1]
<1>1. /\ Max({0} \cup closed) \in Nat
      /\ \A e \in closed : e <= Max({0} \cup closed)
      /\ Max({0} \cup closed) # 0 => Max({0} \cup closed) \in closed
  <2> PICK C : C = closed
    OBVIOUS
  <2>1. IsFiniteSet(C) /\ C \subseteq Nat
    <3>1. C \in SUBSET Epoch /\ IsFiniteSet(Epoch) /\ Epoch \subseteq Nat
      BY EpochIs
    <3>2. QED
      BY <3>1, FS_Subset
  <2> PICK S : S = {0} \cup C
    OBVIOUS
  <2>2. S = C \cup {0}
    OBVIOUS
  <2>3. S \in SUBSET Nat /\ S # {} /\ IsFiniteSet(S)
    <3>1. IsFiniteSet(C \cup {0})
      BY <2>1, FS_AddElement
    <3>2. QED
      BY <2>1, <2>2, <3>1
  <2>4. PICK m : m = Max(S)
    OBVIOUS
  <2>5. m \in S /\ m \in Nat /\ \A y \in S : y <= m
    BY <2>3, <2>4, MaxIs
  <2>6. m = Max({0} \cup closed)
    BY <2>4
  <2>7. QED
    BY <2>5, <2>6
<1> DEFINE n == Max({0} \cup closed)
           G(f, i) == IF i \in closed THEN Close(Eager(before(f, i), i), i) ELSE before(f, i)
           Rec(f, m) == f = [i \in 0 .. m |-> G(f, i)]
           after == CHOOSE f : Rec(f, n)
<1>2. n \in Nat
  BY <1>1
<1>3. ForEach(st, view)
        = IF view = {} THEN [[after[n] EXCEPT !.queue = @ \ closed] EXCEPT !.open = {}]
          ELSE IF view \subseteq [after[n] EXCEPT !.queue = @ \ closed].queue
                 THEN Eager([after[n] EXCEPT !.queue = @ \ closed], CHOOSE f \in view : TRUE)
                 ELSE [after[n] EXCEPT !.queue = @ \ closed]
  BY DEF ForEach
<1>4. \A f, g : \A i \in Nat : (i # 0 => f[i - 1] = g[i - 1]) => G(f, i) = G(g, i)
  OBVIOUS
<1> HIDE DEF n, G
<1>5. ASSUME NEW m \in Nat, NEW g, m # 0 => Rec(g, m - 1)
      PROVE  \E h : Rec(h, m)
  <2> DEFINE h == [i \in 0 .. m |-> IF i = m THEN G(g, m) ELSE g[i]]
  <2>1. \A i \in 0 .. m - 1 : g[i] = G(g, i)
    <3>1. CASE m # 0
      BY <1>5, <3>1
    <3>2. CASE m = 0
      BY <3>2
    <3>3. QED
      BY <3>1, <3>2
  <2>2. /\ DOMAIN h = 0 .. m /\ h = [i \in 0 .. m |-> h[i]]
        /\ h[m] = G(g, m) /\ \A i \in 0 .. m - 1 : h[i] = g[i]
    BY <1>5
  <2> HIDE DEF h
  <2>3. \A i \in 0 .. m : h[i] = G(h, i)
    <3>1. ASSUME NEW i \in 0 .. m
          PROVE  h[i] = G(h, i)
      <4>1. i \in Nat /\ (i # 0 => i - 1 \in 0 .. m - 1) /\ (i # m => i \in 0 .. m - 1)
        BY <1>5
      <4>2. G(h, i) = G(g, i)
        BY <1>4, <2>2, <4>1
      <4>3. QED
        BY <2>1, <2>2, <4>1, <4>2
    <3>2. QED
      BY <3>1
  <2>4. Rec(h, m)
    BY <2>2, <2>3
  <2> HIDE DEF Rec
  <2>5. QED
    BY <2>4
<1>6. Rec(after, n)
  <2> DEFINE B == {m \in Nat : \E h : Rec(h, m)}
  <2> HIDE DEF Rec
  <2>1. \A m \in 0 .. n : (m # 0 => m - 1 \in B) => m \in B
    BY <1>2, <1>5
  <2> HIDE DEF B
  <2>2. n \in 0 .. n
    BY <1>2
  <2>3. \A m \in 0 .. n : m \in B
    BY <1>2, <2>1, Upward
  <2>4. QED
    BY <2>2, <2>3 DEF B
<1>7. \A i \in 0 .. n : after[i] = G(after, i)
  BY <1>6
<1> HIDE DEF after, Rec
<1>8. \A i \in 0 .. n : after[i] = IF i \in closed THEN Close(Eager(before(after, i), i), i)
                                   ELSE before(after, i)
  BY <1>7 DEF G
<1>9. (\A e \in closed : e <= n) /\ (n # 0 => n \in closed)
  BY <1>1 DEF n
<1> HIDE DEF closed
<1>10. PICK at : at = [after[n] EXCEPT !.queue = @ \ closed]
  OBVIOUS
<1>11. ForEach(st, view) = IF view = {} THEN [at EXCEPT !.open = {}]
                           ELSE IF view \subseteq at.queue THEN Eager(at, CHOOSE f \in view : TRUE)
                           ELSE at
  BY <1>3, <1>10
<1>12. closed = Closed(st, view)
  BY DEF closed, Closed
<1>13. ForEachSteps(st, view, n, after)
  BY <1>2, <1>8, <1>9, <1>12 DEF before, ForEachSteps
<1>14. at = [after[n] EXCEPT !.queue = @ \ Closed(st, view)]
  BY <1>10, <1>12
<1>15. QED
  BY <1>11, <1>13, <1>14

-----------------------------------------------------------------------------
(* Loads: the output builds the files of rows of closed epochs. *)

Record(st) == DOMAIN st = Fields /\ st.file \in [SinkParts -> Seq(Sources \X Nat)]
Exact(f, p, e) == InOrder(f, Len(f)) /\ Among(f, Len(f)) = Belongs(p, e)

(* A file that is built at its offset has its items before the resume epoch.*)
LEMMA BuildFile ==
  ASSUME NEW st, Record(st), point \in Nat, NEW p \in SinkParts, CutAt(st.file[p], p, point)
  PROVE  \E b : /\ b = BuildPart(st, p, Count(p, point)) /\ Record(b)
                /\ b.open = st.open \cup {p} /\ b.inbuf = st.inbuf /\ b.loads = st.loads
                /\ b.queue = st.queue /\ b.awoken = st.awoken /\ b.snaps = st.snaps
                /\ \A q \in SinkParts \ {p} : b.file[q] = st.file[q]
                /\ CutAt(b.file[p], p, point) /\ Exact(b.file[p], p, point)
<1>1. PICK b : b = BuildPart(st, p, Count(p, point))
  OBVIOUS
<1>2. PICK g : g = SubSeq(st.file[p], 1, Count(p, point))
  OBVIOUS
<1>3. PICK f : f = st.file[p]
  OBVIOUS
<1>4. /\ g \in Seq(Sources \X Nat) /\ InOrder(g, Len(g)) /\ Among(g, Len(g)) = Belongs(p, point)
      /\ CutAt(g, p, point)
  <2>1. CutAt(f, p, point) /\ g = SubSeq(f, 1, Count(p, point))
    BY <1>2, <1>3
  <2>2. QED
    BY <2>1, CutIs
<1>5. b = [st EXCEPT !.open = @ \cup {p}, !.file[p] = g]
  BY <1>1, <1>2 DEF BuildPart
<1>6. /\ DOMAIN b = Fields /\ b.open = st.open \cup {p} /\ b.inbuf = st.inbuf
      /\ b.loads = st.loads /\ b.queue = st.queue /\ b.awoken = st.awoken /\ b.snaps = st.snaps
      /\ b.file = [st.file EXCEPT ![p] = g]
  BY <1>5 DEF Record, Fields
<1>7. /\ b.file \in [SinkParts -> Seq(Sources \X Nat)] /\ b.file[p] = g
      /\ \A q \in SinkParts \ {p} : b.file[q] = st.file[q]
  BY <1>4, <1>6 DEF Record
<1>8. QED
  BY <1>1, <1>4, <1>6, <1>7 DEF Record, Exact

Loadable(st) == \A m \in st.loads : m.part \in SinkParts /\ m.offset = Count(m.part, point)

(* What st becomes when the rows of the epochs gone have been loaded, but   *)
(* those of the files owed may be missing.                                  *)
LoadedTo(st, v, gone, owed) ==
  /\ Record(v) /\ v.inbuf = <<>> /\ v.awoken = {} /\ v.snaps = st.snaps
  /\ v.loads = {m \in st.loads : m.epoch \notin gone}
  /\ st.open \subseteq v.open /\ v.open \subseteq st.open \cup {m.part : m \in st.loads}
  /\ v.open \subseteq SinkParts
  /\ \A m \in st.loads : m.epoch \in gone => m.part \in v.open \cup owed
  /\ \A p \in SinkParts : CutAt(v.file[p], p, point)
  /\ \A p \in v.open : Exact(v.file[p], p, point)
  /\ \A p \in SinkParts \ v.open : v.file[p] = st.file[p]

LEMMA LoadOne ==
  ASSUME NEW st, Loadable(st), point \in Nat, NEW v, NEW gone, NEW owed,
         LoadedTo(st, v, gone, owed), NEW m \in st.loads
  PROVE  \E b : /\ b = BuildPart(v, m.part, m.offset) /\ b.queue = v.queue
                /\ v.open \subseteq b.open /\ LoadedTo(st, b, gone, owed \ {m.part})
<1> PICK p \in SinkParts : p = m.part
  BY DEF Loadable
<1>1. m.offset = Count(p, point)
  BY DEF Loadable
<1>2. PICK b : /\ b = BuildPart(v, p, Count(p, point)) /\ Record(b)
               /\ b.open = v.open \cup {p} /\ b.inbuf = v.inbuf /\ b.loads = v.loads
               /\ b.queue = v.queue /\ b.awoken = v.awoken /\ b.snaps = v.snaps
               /\ \A q \in SinkParts \ {p} : b.file[q] = v.file[q]
               /\ CutAt(b.file[p], p, point) /\ Exact(b.file[p], p, point)
  BY BuildFile DEF LoadedTo
<1>3. \A q \in SinkParts : CutAt(b.file[q], q, point)
  BY <1>2 DEF LoadedTo
<1>4. \A q \in b.open : Exact(b.file[q], q, point)
  BY <1>2 DEF LoadedTo
<1>5. \A q \in SinkParts \ b.open : b.file[q] = st.file[q]
  BY <1>2 DEF LoadedTo
<1>6. /\ b.open \subseteq st.open \cup {k.part : k \in st.loads} /\ b.open \subseteq SinkParts
      /\ st.open \subseteq b.open
      /\ \A k \in st.loads : k.epoch \in gone => k.part \in b.open \cup (owed \ {p})
  BY <1>2 DEF LoadedTo
<1>7. LoadedTo(st, b, gone, owed \ {p})
  BY <1>2, <1>3, <1>4, <1>5, <1>6 DEF LoadedTo
<1>8. QED
  BY <1>1, <1>2, <1>7

LEMMA SnapshotFile ==
  ASSUME NEW st, DOMAIN st = Fields, NEW e
  PROVE  \E s : /\ s = Snapshot(st, e) /\ DOMAIN s = Fields
                /\ s.snaps = st.snaps \cup Snaps(st, e) /\ s.awoken = {}
                /\ s.inbuf = st.inbuf /\ s.loads = st.loads /\ s.queue = st.queue
                /\ s.open = st.open /\ s.file = st.file
<1>1. PICK s : s = Snapshot(st, e)
  OBVIOUS
<1>2. /\ DOMAIN s = Fields
      /\ s.snaps = st.snaps \cup Snaps(st, e) /\ s.awoken = {}
      /\ s.inbuf = st.inbuf /\ s.loads = st.loads /\ s.queue = st.queue
      /\ s.open = st.open /\ s.file = st.file
  BY <1>1 DEF Snapshot, Fields
<1>3. QED
  BY <1>1, <1>2

LEMMA PartsAreLow == LastPart \in Nat /\ \A p \in SinkParts : p \in Nat /\ p <= LastPart
<1> PICK S : S = {0} \cup SinkParts
  OBVIOUS
<1>1. S \in SUBSET Nat /\ S # {} /\ IsFiniteSet(S)
  <2>1. IsFiniteSet(SinkParts) /\ SinkParts \subseteq Nat
    BY OutputAssumption
  <2>2. IsFiniteSet(SinkParts \cup {0})
    BY <2>1, FS_AddElement
  <2>3. S = SinkParts \cup {0}
    OBVIOUS
  <2>4. QED
    BY <2>1, <2>2, <2>3
<1>2. Max(S) \in S /\ \A y \in S : y <= Max(S)
  BY <1>1, MaxIs
<1>3. QED
  BY <1>1, <1>2 DEF LastPart

LEMMA LoadClose ==
  ASSUME NEW st, Loadable(st), point \in Nat, NEW v, NEW gone, LoadedTo(st, v, gone, {}),
         NEW e, e \notin gone
  PROVE  LoadedTo(st, Close(v, e), gone \cup {e}, {}) /\ Close(v, e).queue = v.queue
<1> DEFINE past == gone \cup {e}
           Owed(i) == {p \in SinkParts : p > i}
<1>1. PICK after : CloseSteps(v, e, after) /\ Close(v, e) = after[LastPart]
  BY CloseUnfolds
<1> DEFINE B == {i \in Nat : /\ LoadedTo(st, after[i], past, Owed(i))
                             /\ after[i].queue = v.queue /\ v.open \subseteq after[i].open}
<1>2. LastPart \in Nat /\ \A p \in SinkParts : p \in Nat /\ p <= LastPart
  BY PartsAreLow
<1>3. Due(v, e) = {m \in st.loads : m.epoch = e}
  BY DEF Due, LoadedTo
<1>4. ASSUME NEW i \in 0 .. LastPart, i # 0 => i - 1 \in B
      PROVE  i \in B
  <2>1. i \in Nat
    BY <1>2
  <2>2. PICK b : /\ b = IF i = 0 THEN [Snapshot(v, e) EXCEPT !.loads = @ \ Due(v, e)]
                        ELSE after[i - 1]
                 /\ after[i] = IF \E m \in Due(v, e) : m.part = i
                                 THEN BuildPart(b, i, (CHOOSE m \in Due(v, e) : m.part = i).offset)
                                 ELSE b
    BY <1>1 DEF CloseSteps
  <2>3. LoadedTo(st, b, past, Owed(i - 1)) /\ b.queue = v.queue /\ v.open \subseteq b.open
    <3>1. CASE i # 0
      BY <1>4, <2>2, <3>1
    <3>2. CASE i = 0
      <4>1. PICK s : /\ s = Snapshot(v, e) /\ DOMAIN s = Fields
                     /\ s.snaps = v.snaps \cup Snaps(v, e) /\ s.awoken = {}
                     /\ s.inbuf = v.inbuf /\ s.loads = v.loads /\ s.queue = v.queue
                     /\ s.open = v.open /\ s.file = v.file
        BY SnapshotFile DEF LoadedTo, Record
      <4>2. s.snaps = v.snaps
        BY <4>1 DEF Snaps, LoadedTo
      <4>3. b = [s EXCEPT !.loads = @ \ Due(v, e)]
        BY <2>2, <3>2, <4>1
      <4>4. /\ DOMAIN b = Fields /\ b.snaps = v.snaps /\ b.awoken = {} /\ b.inbuf = v.inbuf
            /\ b.loads = v.loads \ Due(v, e) /\ b.queue = v.queue
            /\ b.open = v.open /\ b.file = v.file
        BY <4>1, <4>2, <4>3 DEF Fields
      <4>5. b.loads = {m \in st.loads : m.epoch \notin past}
        BY <1>3, <4>4 DEF LoadedTo
      <4>6. \A m \in st.loads : m.epoch \in past => m.part \in b.open \cup Owed(i - 1)
        <5>1. \A p \in SinkParts : p \in Owed(i - 1)
          BY <1>2, <3>2
        <5>2. QED
          BY <5>1 DEF Loadable
      <4> HIDE DEF Owed, past
      <4>7. LoadedTo(st, b, past, Owed(i - 1))
        BY <4>4, <4>5, <4>6 DEF LoadedTo, Record
      <4>8. QED
        BY <4>4, <4>7
    <3>3. QED
      BY <3>1, <3>2
  <2>4. CASE \E m \in Due(v, e) : m.part = i
    <3>1. PICK m : m = CHOOSE k \in Due(v, e) : k.part = i
      OBVIOUS
    <3>2. m \in Due(v, e) /\ m.part = i
      BY <2>4, <3>1
    <3>3. m \in st.loads
      BY <1>3, <3>2
    <3> HIDE DEF Owed, past
    <3>4. PICK c : /\ c = BuildPart(b, m.part, m.offset) /\ c.queue = b.queue /\ b.open \subseteq c.open
                   /\ LoadedTo(st, c, past, Owed(i - 1) \ {m.part})
      BY <2>3, <3>3, LoadOne
    <3>5. Owed(i - 1) \ {i} = Owed(i)
      BY <1>2, <2>1 DEF Owed
    <3>6. c = after[i]
      BY <2>2, <2>4, <3>1, <3>2, <3>4
    <3>7. QED
      BY <2>1, <2>3, <3>2, <3>4, <3>5, <3>6
  <2>5. CASE ~ \E m \in Due(v, e) : m.part = i
    <3>1. after[i] = b
      BY <2>2, <2>5
    <3>2. \A m \in st.loads : m.epoch \in past => m.part \in b.open \cup Owed(i)
      <4>1. SUFFICES ASSUME NEW m \in st.loads, m.epoch \in past
                     PROVE  m.part \in b.open \cup Owed(i)
        OBVIOUS
      <4>2. m.part \in b.open \cup Owed(i - 1)
        BY <2>3, <4>1 DEF LoadedTo
      <4>3. CASE m.epoch = e
        <5>1. m.part # i /\ m.part \in SinkParts
          BY <1>3, <2>5, <4>3 DEF Loadable
        <5>2. m.part \in Nat
          BY <1>2, <5>1
        <5>3. QED
          BY <2>1, <4>2, <5>1, <5>2
      <4>4. CASE m.epoch \in gone
        <5>1. m.part \in v.open
          BY <4>4 DEF LoadedTo
        <5>2. QED
          BY <2>3, <5>1
      <4>5. QED
        BY <4>1, <4>3, <4>4
    <3> HIDE DEF Owed, past
    <3>3. LoadedTo(st, b, past, Owed(i))
      BY <2>3, <3>2 DEF LoadedTo
    <3>4. QED
      BY <2>1, <2>3, <3>1, <3>3
  <2>6. QED
    BY <2>4, <2>5
<1> HIDE DEF B
<1>5. LastPart \in B
  <2>1. \A i \in 0 .. LastPart : (i # 0 => i - 1 \in B) => i \in B
    BY <1>4
  <2>2. \A i \in 0 .. LastPart : i \in B
    BY <1>2, <2>1, Upward
  <2>3. QED
    BY <1>2, <2>2
<1>6. Owed(LastPart) = {}
  BY <1>2
<1> HIDE DEF Owed
<1>7. QED
  BY <1>1, <1>5, <1>6 DEF B

LEMMA EagerNoItems ==
  ASSUME NEW st, DOMAIN st = Fields, st.inbuf = <<>>, NEW e
  PROVE  \E r : /\ r = Eager(st, e) /\ DOMAIN r = Fields /\ r.inbuf = <<>>
                /\ r.loads = st.loads /\ r.queue = st.queue /\ r.open = st.open
                /\ r.awoken = st.awoken /\ r.file = st.file /\ r.snaps = st.snaps
<1>1. st.inbuf \in Seq(AtRoute) /\ Len(st.inbuf) = 0
  OBVIOUS
<1>2. PICK after : EagerSteps(st, e, after) /\ Eager(st, e) = after[Len(st.inbuf)]
  BY <1>1, EagerUnfolds
<1>3. PICK o : o = Only(st.inbuf, DOMAIN st.inbuf \ Now(st, e))
  OBVIOUS
<1>4. o = <<>>
  <2>1. o \in Seq(AtRoute) /\ \A j \in DOMAIN o : \E i \in DOMAIN st.inbuf : TRUE
    BY <1>1, <1>3, OnlyIs
  <2>2. DOMAIN st.inbuf = {}
    OBVIOUS
  <2>3. DOMAIN o = {}
    BY <2>1, <2>2
  <2>4. QED
    BY <2>1, <2>3
<1>5. PICK r : r = Eager(st, e)
  OBVIOUS
<1>6. r = [st EXCEPT !.inbuf = o]
  BY <1>1, <1>2, <1>3, <1>5 DEF EagerSteps
<1>7. QED
  BY <1>4, <1>5, <1>6 DEF Fields

LEMMA LoadForEach ==
  ASSUME NEW st, Loadable(st), point \in Nat, LoadedTo(st, st, {}, {}), st.queue \subseteq Epoch,
         NEW view, view # {}
  PROVE  /\ LoadedTo(st, ForEach(st, view), Closed(st, view), {})
         /\ ForEach(st, view).queue = st.queue \ Closed(st, view)
<1> PICK C : C = Closed(st, view)
  OBVIOUS
<1>1. PICK n, after, at :
        /\ ForEachSteps(st, view, n, after)
        /\ at = [after[n] EXCEPT !.queue = @ \ Closed(st, view)]
        /\ ForEach(st, view) = IF view = {} THEN [at EXCEPT !.open = {}]
                               ELSE IF view \subseteq at.queue
                                      THEN Eager(at, CHOOSE f \in view : TRUE)
                               ELSE at
  BY ForEachUnfolds
<1>2. /\ n \in Nat /\ \A e \in C : e <= n
      /\ \A e \in 0 .. n :
           after[e] = IF e \in C THEN Close(Eager(IF e = 0 THEN st ELSE after[e - 1], e), e)
                      ELSE IF e = 0 THEN st ELSE after[e - 1]
  BY <1>1 DEF ForEachSteps
<1> DEFINE Gone(i) == {e \in C : e <= i}
           B == {i \in Nat : LoadedTo(st, after[i], Gone(i), {}) /\ after[i].queue = st.queue}
<1>3. C \subseteq Nat
  BY EpochIs DEF Closed
<1>4. ASSUME NEW i \in 0 .. n, i # 0 => i - 1 \in B
      PROVE  i \in B
  <2>1. i \in Nat
    BY <1>2
  <2>2. PICK b : b = IF i = 0 THEN st ELSE after[i - 1]
    OBVIOUS
  <2>3. LoadedTo(st, b, Gone(i - 1), {}) /\ b.queue = st.queue
    <3>1. CASE i # 0
      BY <1>4, <2>2, <3>1
    <3>2. CASE i = 0
      <4>1. Gone(i - 1) = {}
        BY <1>3, <3>2
      <4> HIDE DEF Gone
      <4>2. QED
        BY <2>2, <3>2, <4>1
    <3>3. QED
      BY <3>1, <3>2
  <2>4. CASE i \in C
    <3>1. PICK o : /\ o = Eager(b, i) /\ DOMAIN o = Fields /\ o.inbuf = <<>>
                   /\ o.loads = b.loads /\ o.queue = b.queue /\ o.open = b.open
                   /\ o.awoken = b.awoken /\ o.file = b.file /\ o.snaps = b.snaps
      BY <2>3, EagerNoItems DEF LoadedTo, Record
    <3>2. Gone(i) = Gone(i - 1) \cup {i} /\ i \notin Gone(i - 1)
      BY <1>3, <2>1, <2>4
    <3> HIDE DEF Gone
    <3>3. LoadedTo(st, o, Gone(i - 1), {})
      BY <2>3, <3>1 DEF LoadedTo, Record
    <3>4. PICK c : c = Close(o, i)
      OBVIOUS
    <3>5. LoadedTo(st, c, Gone(i), {}) /\ c.queue = o.queue
      BY <3>2, <3>3, <3>4, LoadClose
    <3>6. after[i] = c
      BY <1>2, <2>2, <2>4, <3>1, <3>4
    <3>7. QED
      BY <2>1, <2>3, <3>1, <3>5, <3>6
  <2>5. CASE i \notin C
    <3>1. Gone(i) = Gone(i - 1)
      BY <1>3, <2>1, <2>5
    <3> HIDE DEF Gone
    <3>2. after[i] = b
      BY <1>2, <2>2, <2>5
    <3>3. QED
      BY <2>1, <2>3, <3>1, <3>2
  <2>6. QED
    BY <2>4, <2>5
<1> HIDE DEF B
<1>5. n \in B
  <2>1. \A i \in 0 .. n : (i # 0 => i - 1 \in B) => i \in B
    BY <1>4
  <2>2. \A i \in 0 .. n : i \in B
    BY <1>2, <2>1, Upward
  <2>3. QED
    BY <1>2, <2>2
<1>6. Gone(n) = C
  BY <1>2
<1> HIDE DEF Gone
<1>7. PICK l : l = after[n]
  OBVIOUS
<1>8. LoadedTo(st, l, C, {}) /\ l.queue = st.queue
  BY <1>5, <1>6, <1>7 DEF B
<1>9. /\ DOMAIN at = Fields /\ at.queue = st.queue \ C /\ at.inbuf = l.inbuf
      /\ at.loads = l.loads /\ at.open = l.open /\ at.awoken = l.awoken
      /\ at.file = l.file /\ at.snaps = l.snaps
  BY <1>1, <1>7, <1>8 DEF LoadedTo, Record, Fields
<1>10. LoadedTo(st, at, C, {})
  BY <1>8, <1>9 DEF LoadedTo, Record
<1>11. PICK e : e = CHOOSE f \in view : TRUE
  OBVIOUS
<1>12. PICK o : /\ o = Eager(at, e) /\ DOMAIN o = Fields /\ o.inbuf = <<>>
                /\ o.loads = at.loads /\ o.queue = at.queue /\ o.open = at.open
                /\ o.awoken = at.awoken /\ o.file = at.file /\ o.snaps = at.snaps
  BY <1>10, EagerNoItems DEF LoadedTo, Record
<1>13. LoadedTo(st, o, C, {}) /\ o.queue = st.queue \ C
  BY <1>9, <1>10, <1>12 DEF LoadedTo, Record
<1>14. ForEach(st, view) = at \/ ForEach(st, view) = o
  BY <1>1, <1>11, <1>12
<1>15. QED
  BY <1>9, <1>10, <1>13, <1>14

-----------------------------------------------------------------------------
(* Items: the output writes those of its open epoch. *)

(* What the output is given is of the resume epoch and of different sources,*)
(* and none of it has been written; a file that is not open has no item of  *)
(* an epoch before.                                                         *)
Writable(st) ==
  /\ st.inbuf \in Seq(AtRoute)
  /\ \A i \in DOMAIN st.inbuf :
       LET m == st.inbuf[i]
       IN  /\ m.epoch = point /\ m.part = FileOf(SinkParts, m.source, point)
           /\ point <= Len(Script[m.source])
           /\ \A j \in DOMAIN st.inbuf : st.inbuf[j].source = m.source => i = j
           /\ m.part \in st.open =>
                <<m.source, point>> \notin Among(st.file[m.part], Len(st.file[m.part]))
           /\ m.part \notin st.open => Belongs(m.part, point) = {}

(* The items that are in the file of p after the first k have been written. *)
IsIn(st, k, p, s) ==
  \/ p \in st.open /\ <<s, point>> \in Among(st.file[p], Len(st.file[p]))
  \/ \E j \in 1 .. k : st.inbuf[j].source = s /\ st.inbuf[j].part = p

WroteTo(st, v, k) ==
  /\ Record(v) /\ v.loads = {} /\ v.snaps = st.snaps
  /\ st.open \subseteq v.open /\ v.open \subseteq SinkParts
  /\ st.awoken \subseteq v.awoken /\ v.awoken \subseteq v.open
  /\ \A p \in SinkParts : CutAt(v.file[p], p, point)
  /\ \A p \in SinkParts \ v.open : v.file[p] = st.file[p]
  /\ \A p \in v.open :
       /\ UpTo(v.file[p], p, point)
       /\ p \in v.awoken \/ (p \in st.open /\ v.file[p] = st.file[p])
       /\ \A s \in Sources : <<s, point>> \in Among(v.file[p], Len(v.file[p])) <=> IsIn(st, k, p, s)
  /\ \A j \in 1 .. k : st.inbuf[j].part \in v.open

LEMMA IsInNext ==
  ASSUME NEW st, NEW k \in Nat \ {0}, NEW q, NEW s
  PROVE  IsIn(st, k, q, s)
           <=> IsIn(st, k - 1, q, s) \/ (st.inbuf[k].source = s /\ st.inbuf[k].part = q)
<1> DEFINE P(j) == st.inbuf[j].source = s /\ st.inbuf[j].part = q
           R == q \in st.open /\ <<s, point>> \in Among(st.file[q], Len(st.file[q]))
<1>1. /\ IsIn(st, k, q, s) <=> R \/ \E j \in 1 .. k : P(j)
      /\ IsIn(st, k - 1, q, s) <=> R \/ \E j \in 1 .. k - 1 : P(j)
  BY DEF IsIn
<1>2. /\ \A j \in 1 .. k : j \in 1 .. k - 1 \/ j = k
      /\ \A j \in 1 .. k - 1 : j \in 1 .. k
      /\ k \in 1 .. k
  OBVIOUS
<1> HIDE DEF P, R
<1>3. (\E j \in 1 .. k : P(j)) <=> (\E j \in 1 .. k - 1 : P(j)) \/ P(k)
  BY <1>2
<1>4. QED
  BY <1>1, <1>3 DEF P

LEMMA WriteStep ==
  ASSUME NEW st, Writable(st), point \in Nat \ {0}, NEW k \in DOMAIN st.inbuf,
         NEW v, WroteTo(st, v, k - 1)
  PROVE  \E r : /\ r = WriteItem(v, st.inbuf[k]) /\ WroteTo(st, r, k)
                /\ r.inbuf = v.inbuf /\ r.queue = v.queue
<1>1. PICK m : m = st.inbuf[k]
  OBVIOUS
<1>2. k \in Nat /\ k >= 1 /\ m \in AtRoute
  BY <1>1 DEF Writable
<1>3. PICK p \in SinkParts : p = m.part
  BY <1>2 DEF AtRoute
<1>4. PICK x \in Sources \X Nat : x = <<m.source, point>>
  BY <1>2 DEF AtRoute
<1>5. /\ m.source \in Sources /\ m.epoch = point /\ p = FileOf(SinkParts, m.source, point)
      /\ point <= Len(Script[m.source])
      /\ \A j \in DOMAIN st.inbuf : st.inbuf[j].source = m.source => k = j
      /\ p \in st.open => x \notin Among(st.file[p], Len(st.file[p]))
      /\ p \notin st.open => Belongs(p, point) = {}
  BY <1>1, <1>2, <1>3, <1>4 DEF Writable, AtRoute
<1>6. PICK b : b = IF p \in v.open THEN v ELSE BuildPart(v, p, 0)
  OBVIOUS
<1>7. /\ Record(b) /\ b.open = v.open \cup {p} /\ b.inbuf = v.inbuf /\ b.loads = v.loads
      /\ b.queue = v.queue /\ b.awoken = v.awoken /\ b.snaps = v.snaps
      /\ \A q \in SinkParts \ {p} : b.file[q] = v.file[q]
      /\ CutAt(b.file[p], p, point) /\ UpTo(b.file[p], p, point)
      /\ \A s \in Sources : <<s, point>> \in Among(b.file[p], Len(b.file[p]))
                              <=> IsIn(st, k - 1, p, s)
  <2>1. CASE p \in v.open
    BY <1>6, <2>1 DEF WroteTo
  <2>2. CASE p \notin v.open
    <3>1. Belongs(p, point) = {}
      BY <1>5, <2>2 DEF WroteTo
    <3>2. Count(p, point) = 0
      BY <3>1, FS_EmptySet DEF Count
    <3>3. b = BuildPart(v, p, Count(p, point))
      BY <1>6, <2>2, <3>2
    <3>4. /\ Record(b) /\ b.open = v.open \cup {p} /\ b.inbuf = v.inbuf /\ b.loads = v.loads
          /\ b.queue = v.queue /\ b.awoken = v.awoken /\ b.snaps = v.snaps
          /\ \A q \in SinkParts \ {p} : b.file[q] = v.file[q]
          /\ CutAt(b.file[p], p, point) /\ Exact(b.file[p], p, point)
      BY <3>3, BuildFile DEF WroteTo
    <3>5. UpTo(b.file[p], p, point)
      BY <3>1, <3>4 DEF Exact, UpTo
    <3>6. \A s : <<s, point>> \notin Among(b.file[p], Len(b.file[p])) /\ ~ IsIn(st, k - 1, p, s)
      BY <2>2, <3>1, <3>4 DEF Exact, WroteTo, IsIn
    <3>7. QED
      BY <3>4, <3>5, <3>6
  <2>3. QED
    BY <2>1, <2>2
<1>8. PICK f : f = b.file[p]
  OBVIOUS
<1>9. /\ f \in Seq(Sources \X Nat) /\ CutAt(f, p, point) /\ UpTo(f, p, point)
      /\ \A s \in Sources : <<s, point>> \in Among(f, Len(f)) <=> IsIn(st, k - 1, p, s)
  BY <1>7, <1>8 DEF Record
<1>10. x \notin Among(f, Len(f))
  <2>1. ~ IsIn(st, k - 1, p, m.source)
    <3>1. \A j \in 1 .. k - 1 : j \in DOMAIN st.inbuf /\ j # k
      BY <1>2 DEF Writable
    <3>2. QED
      BY <1>4, <1>5, <3>1 DEF IsIn
  <2>2. QED
    BY <1>4, <1>5, <1>9, <2>1
<1>11. Belongs(p, point) \subseteq Sources \X Nat /\ Belongs(p, point + 1) \subseteq Sources \X Nat
       /\ x \in Belongs(p, point + 1) /\ \A j \in Belongs(p, point + 1) : j[2] <= x[2]
  <2>1. point + 1 \in Nat /\ 1 <= point /\ point < point + 1
    OBVIOUS
  <2>2. x \in Belongs(p, point + 1)
    BY <1>4, <1>5, <2>1, BelongsIs
  <2>3. Belongs(p, point) \subseteq Sources \X Nat /\ Belongs(p, point + 1) \subseteq Sources \X Nat
    BY <2>1, BelongsIs
  <2>4. ASSUME NEW j \in Belongs(p, point + 1)
        PROVE  j[2] <= x[2]
    <3>1. PICK s \in Sources, y \in Nat : j = <<s, y>>
      BY <2>3
    <3>2. y < point + 1
      BY <2>1, <3>1, BelongsIs
    <3>3. QED
      BY <1>4, <3>1, <3>2
  <2>5. QED
    BY <2>2, <2>3, <2>4
<1>12. PICK g : g = Append(f, x)
  OBVIOUS
<1>13. /\ g \in Seq(Sources \X Nat) /\ Among(g, Len(g)) = Among(f, Len(f)) \cup {x}
       /\ InOrder(g, Len(g)) /\ CutAt(g, p, point)
  <2>1. InOrder(f, Len(f)) /\ \A j \in Among(f, Len(f)) : j[2] <= x[2]
    BY <1>9, <1>11 DEF UpTo
  <2>2. QED
    BY <1>9, <1>10, <1>12, <2>1, WrittenIs
<1>14. UpTo(g, p, point)
  BY <1>9, <1>11, <1>13 DEF UpTo
<1>15. PICK r : r = WriteItem(v, m)
  OBVIOUS
<1>16. r = [b EXCEPT !.file[p] = g, !.awoken = @ \cup {p}]
  BY <1>3, <1>4, <1>5, <1>6, <1>8, <1>12, <1>15 DEF WriteItem
<1>17. /\ DOMAIN r = Fields /\ r.open = v.open \cup {p} /\ r.inbuf = v.inbuf /\ r.loads = v.loads
       /\ r.queue = v.queue /\ r.awoken = v.awoken \cup {p} /\ r.snaps = v.snaps
       /\ r.file = [b.file EXCEPT ![p] = g]
  BY <1>7, <1>16 DEF Record, Fields
<1>18. /\ r.file \in [SinkParts -> Seq(Sources \X Nat)] /\ r.file[p] = g
       /\ \A q \in SinkParts \ {p} : r.file[q] = v.file[q]
  BY <1>7, <1>13, <1>17 DEF Record
<1>19. \A q \in SinkParts : CutAt(r.file[q], q, point)
  BY <1>13, <1>18 DEF WroteTo
<1>20. \A q \in SinkParts \ r.open : r.file[q] = st.file[q]
  BY <1>17, <1>18 DEF WroteTo
<1>21. ASSUME NEW q \in r.open
       PROVE  /\ UpTo(r.file[q], q, point)
              /\ q \in r.awoken \/ (q \in st.open /\ r.file[q] = st.file[q])
  <2>1. CASE q = p
    BY <1>14, <1>17, <1>18, <2>1
  <2>2. CASE q # p
    <3>1. q \in v.open /\ q \in SinkParts /\ r.file[q] = v.file[q]
      BY <1>17, <1>18, <2>2 DEF WroteTo
    <3>2. /\ UpTo(v.file[q], q, point)
          /\ q \in v.awoken \/ (q \in st.open /\ v.file[q] = st.file[q])
      BY <3>1 DEF WroteTo
    <3>3. QED
      BY <1>17, <3>1, <3>2
  <2>3. QED
    BY <2>1, <2>2
<1>22. ASSUME NEW q \in r.open, NEW s \in Sources
       PROVE  <<s, point>> \in Among(r.file[q], Len(r.file[q])) <=> IsIn(st, k, q, s)
  <2>1. IsIn(st, k, q, s) <=> IsIn(st, k - 1, q, s) \/ (m.source = s /\ p = q)
    BY <1>1, <1>2, <1>3, IsInNext
  <2>2. CASE q = p
    <3>1. <<s, point>> \in Among(g, Len(g))
            <=> <<s, point>> \in Among(f, Len(f)) \/ <<s, point>> = x
      BY <1>13
    <3>2. <<s, point>> = x <=> m.source = s
      BY <1>4
    <3>3. r.file[q] = g
      BY <1>18, <2>2
    <3>4. <<s, point>> \in Among(f, Len(f)) <=> IsIn(st, k - 1, p, s)
      BY <1>9
    <3>5. QED
      BY <2>1, <2>2, <3>1, <3>2, <3>3, <3>4
  <2>3. CASE q # p
    <3>1. q \in v.open /\ r.file[q] = v.file[q]
      BY <1>17, <1>18, <2>3 DEF WroteTo
    <3>2. <<s, point>> \in Among(v.file[q], Len(v.file[q])) <=> IsIn(st, k - 1, q, s)
      BY <3>1 DEF WroteTo
    <3>3. QED
      BY <2>1, <2>3, <3>1, <3>2
  <2>4. QED
    BY <2>2, <2>3
<1>23. /\ st.open \subseteq r.open /\ r.open \subseteq SinkParts
       /\ st.awoken \subseteq r.awoken /\ r.awoken \subseteq r.open
       /\ \A j \in 1 .. k : st.inbuf[j].part \in r.open
  <2>1. \A j \in 1 .. k : j \in 1 .. k - 1 \/ j = k
    BY <1>2
  <2>2. QED
    BY <1>1, <1>3, <1>17, <2>1 DEF WroteTo
<1>24. WroteTo(st, r, k)
  BY <1>17, <1>18, <1>19, <1>20, <1>21, <1>23, <1>22 DEF WroteTo, Record
<1>25. QED
  BY <1>1, <1>15, <1>17, <1>24

LEMMA OnlyNone ==
  ASSUME NEW S, NEW msgs \in Seq(S)
  PROVE  Only(msgs, {}) = <<>>
<1>1. PICK o : o = Only(msgs, {})
  OBVIOUS
<1>2. o \in Seq(S) /\ \A j \in DOMAIN o : \E i \in DOMAIN msgs \cap {} : o[j] = msgs[i]
  BY <1>1, OnlyIs
<1>3. DOMAIN o = {}
  BY <1>2
<1>4. QED
  BY <1>1, <1>2, <1>3

LEMMA EagerItems ==
  ASSUME NEW st, Writable(st), point \in Nat \ {0}, WroteTo(st, st, 0)
  PROVE  \E r : /\ r = Eager(st, point) /\ WroteTo(st, r, Len(st.inbuf))
                /\ r.inbuf = <<>> /\ r.queue = st.queue
<1>1. st.inbuf \in Seq(AtRoute)
  BY DEF Writable
<1>2. PICK after : EagerSteps(st, point, after) /\ Eager(st, point) = after[Len(st.inbuf)]
  BY <1>1, EagerUnfolds
<1>3. PICK n \in Nat : n = Len(st.inbuf) /\ DOMAIN st.inbuf = 1 .. n
  BY <1>1
<1>4. Now(st, point) = 1 .. n
  BY <1>3 DEF Now, Writable
<1>5. PICK o : o = Only(st.inbuf, DOMAIN st.inbuf \ Now(st, point))
  OBVIOUS
<1>6. o = <<>>
  <2>1. DOMAIN st.inbuf \ Now(st, point) = {}
    BY <1>3, <1>4
  <2>2. QED
    BY <1>1, <1>5, <2>1, OnlyNone
<1>7. /\ after[0] = [st EXCEPT !.inbuf = o]
      /\ \A i \in 1 .. n : after[i] = WriteItem(after[i - 1], st.inbuf[i])
  BY <1>2, <1>3, <1>4, <1>5 DEF EagerSteps
<1> DEFINE B == {i \in Nat : /\ WroteTo(st, after[i], i)
                             /\ after[i].inbuf = <<>> /\ after[i].queue = st.queue}
<1>8. 0 \in B
  <2>1. PICK a : a = after[0]
    OBVIOUS
  <2>2. /\ DOMAIN a = Fields /\ a.inbuf = <<>> /\ a.loads = st.loads /\ a.queue = st.queue
        /\ a.open = st.open /\ a.awoken = st.awoken /\ a.file = st.file /\ a.snaps = st.snaps
    BY <1>6, <1>7, <2>1 DEF WroteTo, Record, Fields
  <2>3. WroteTo(st, a, 0)
    BY <2>2 DEF WroteTo, Record
  <2>4. QED
    BY <2>1, <2>2, <2>3
<1>9. ASSUME NEW i \in 0 .. n, i # 0 => i - 1 \in B
      PROVE  i \in B
  <2>1. CASE i # 0
    <3>1. i \in Nat /\ i \in 1 .. n /\ i - 1 \in B
      BY <1>9, <2>1
    <3>2. PICK v : v = after[i - 1]
      OBVIOUS
    <3>3. WroteTo(st, v, i - 1) /\ v.inbuf = <<>> /\ v.queue = st.queue
      BY <3>1, <3>2
    <3>4. i \in DOMAIN st.inbuf
      BY <1>3, <3>1
    <3>5. PICK r : /\ r = WriteItem(v, st.inbuf[i]) /\ WroteTo(st, r, i)
                   /\ r.inbuf = v.inbuf /\ r.queue = v.queue
      BY <3>3, <3>4, WriteStep
    <3>6. after[i] = r
      BY <1>7, <3>1, <3>2, <3>5
    <3>7. QED
      BY <3>1, <3>3, <3>5, <3>6
  <2>2. QED
    BY <1>8, <2>1
<1> HIDE DEF B
<1>10. n \in B
  <2>1. \A i \in 0 .. n : (i # 0 => i - 1 \in B) => i \in B
    BY <1>9
  <2>2. \A i \in 0 .. n : i \in B
    BY <2>1, Upward
  <2>3. QED
    BY <2>2
<1>11. QED
  BY <1>2, <1>3, <1>10 DEF B

LEMMA CloseNoLoads ==
  ASSUME NEW st, DOMAIN st = Fields, st.loads = {}, NEW e
  PROVE  \E r : /\ r = Close(st, e) /\ DOMAIN r = Fields /\ r.loads = {}
                /\ r.snaps = st.snaps \cup Snaps(st, e) /\ r.awoken = {}
                /\ r.inbuf = st.inbuf /\ r.queue = st.queue
                /\ r.open = st.open /\ r.file = st.file
<1>1. PICK after : CloseSteps(st, e, after) /\ Close(st, e) = after[LastPart]
  BY CloseUnfolds
<1>2. Due(st, e) = {}
  BY DEF Due
<1>3. PICK s : /\ s = Snapshot(st, e) /\ DOMAIN s = Fields
               /\ s.snaps = st.snaps \cup Snaps(st, e) /\ s.awoken = {}
               /\ s.inbuf = st.inbuf /\ s.loads = st.loads /\ s.queue = st.queue
               /\ s.open = st.open /\ s.file = st.file
  BY SnapshotFile
<1>4. PICK r : r = [s EXCEPT !.loads = @ \ Due(st, e)]
  OBVIOUS
<1>5. /\ DOMAIN r = Fields /\ r.loads = {} /\ r.snaps = st.snaps \cup Snaps(st, e)
      /\ r.awoken = {} /\ r.inbuf = st.inbuf /\ r.queue = st.queue
      /\ r.open = st.open /\ r.file = st.file
  BY <1>3, <1>4 DEF Fields
<1>6. \A p \in 0 .. LastPart : after[p] = IF p = 0 THEN r ELSE after[p - 1]
  BY <1>1, <1>2, <1>3, <1>4 DEF CloseSteps
<1>7. LastPart \in Nat
  BY PartsAreLow
<1> DEFINE B == {p \in Nat : after[p] = r}
<1>8. \A p \in 0 .. LastPart : (p # 0 => p - 1 \in B) => p \in B
  BY <1>6
<1> HIDE DEF B
<1>9. \A p \in 0 .. LastPart : p \in B
  BY <1>7, <1>8, Upward
<1>10. after[LastPart] = r
  BY <1>7, <1>9 DEF B
<1>11. QED
  BY <1>1, <1>5, <1>10

(* Nothing of another epoch than the resume epoch, and nothing to write.    *)
LEMMA ForEachNoItems ==
  ASSUME NEW st, DOMAIN st = Fields, st.inbuf = <<>>, st.loads = {}, st.queue \subseteq {point},
         point \in Epoch, point >= 1, NEW view
  PROVE  \E r : /\ r = ForEach(st, view) /\ r.file = st.file /\ r.inbuf = <<>> /\ r.loads = {}
                /\ r.queue = st.queue \ Closed(st, view)
                /\ r.open = IF view = {} THEN {} ELSE st.open
                /\ Closed(st, view) = {} => r.awoken = st.awoken /\ r.snaps = st.snaps
                /\ Closed(st, view) # {} =>
                     r.awoken = {} /\ r.snaps = st.snaps \cup Snaps(st, point)
<1> PICK C : C = Closed(st, view)
  OBVIOUS
<1>1. st.queue \subseteq Epoch /\ point \in Nat \ {0} /\ C \subseteq {point}
  <2>1. point \in Nat
    BY EpochIs
  <2>2. QED
    BY <2>1 DEF Closed
<1>2. PICK n, after, at :
        /\ ForEachSteps(st, view, n, after)
        /\ at = [after[n] EXCEPT !.queue = @ \ Closed(st, view)]
        /\ ForEach(st, view) = IF view = {} THEN [at EXCEPT !.open = {}]
                               ELSE IF view \subseteq at.queue
                                      THEN Eager(at, CHOOSE f \in view : TRUE)
                               ELSE at
  BY <1>1, ForEachUnfolds
<1>3. /\ n \in Nat /\ \A e \in C : e <= n
      /\ n # 0 => n \in C
      /\ \A e \in 0 .. n :
           after[e] = IF e \in C THEN Close(Eager(IF e = 0 THEN st ELSE after[e - 1], e), e)
                      ELSE IF e = 0 THEN st ELSE after[e - 1]
  BY <1>2 DEF ForEachSteps
<1>4. PICK l : l = after[n]
  OBVIOUS
<1>5. /\ DOMAIN l = Fields /\ l.file = st.file /\ l.inbuf = <<>> /\ l.loads = {}
      /\ l.queue = st.queue /\ l.open = st.open
      /\ C = {} => l.awoken = st.awoken /\ l.snaps = st.snaps
      /\ C # {} => l.awoken = {} /\ l.snaps = st.snaps \cup Snaps(st, point)
  <2>1. CASE C = {}
    <3>1. n = 0
      BY <1>3, <2>1
    <3>2. after[0] = st
      BY <1>3, <2>1, <3>1
    <3>3. QED
      BY <1>4, <2>1, <3>1, <3>2
  <2>2. CASE C # {}
    <3>1. C = {point}
      BY <1>1, <2>2
    <3>2. n = point
      BY <1>1, <1>3, <3>1
    <3>3. after[point - 1] = st
      <4> DEFINE B == {e \in Nat : after[e] = st}
      <4>1. \A e \in 0 .. point - 1 : (e # 0 => e - 1 \in B) => e \in B
        <5>1. ASSUME NEW e \in 0 .. point - 1, e # 0 => e - 1 \in B
              PROVE  e \in B
          <6>1. e \in Nat /\ e \in 0 .. n /\ e \notin C
            BY <1>1, <3>1, <3>2
          <6>2. after[e] = IF e = 0 THEN st ELSE after[e - 1]
            BY <1>3, <6>1
          <6>3. QED
            BY <5>1, <6>1, <6>2
        <5>2. QED
          BY <5>1
      <4> HIDE DEF B
      <4>2. point - 1 \in Nat
        BY <1>1
      <4>3. \A e \in 0 .. point - 1 : e \in B
        BY <4>1, <4>2, Upward
      <4>4. QED
        BY <4>2, <4>3 DEF B
    <3>4. PICK o : /\ o = Eager(st, point) /\ DOMAIN o = Fields /\ o.inbuf = <<>>
                   /\ o.loads = st.loads /\ o.queue = st.queue /\ o.open = st.open
                   /\ o.awoken = st.awoken /\ o.file = st.file /\ o.snaps = st.snaps
      BY EagerNoItems
    <3>5. PICK r : /\ r = Close(o, point) /\ DOMAIN r = Fields /\ r.loads = {}
                   /\ r.snaps = o.snaps \cup Snaps(o, point) /\ r.awoken = {}
                   /\ r.inbuf = o.inbuf /\ r.queue = o.queue
                   /\ r.open = o.open /\ r.file = o.file
      BY <3>4, CloseNoLoads
    <3>6. after[point] = r
      <4>1. point \in 0 .. n /\ point # 0 /\ point \in C
        BY <1>1, <3>1, <3>2
      <4>2. after[point] = Close(Eager(after[point - 1], point), point)
        BY <1>3, <4>1
      <4>3. QED
        BY <3>3, <3>4, <3>5, <4>2
    <3>7. Snaps(o, point) = Snaps(st, point)
      BY <3>4 DEF Snaps
    <3>8. QED
      BY <1>4, <2>2, <3>2, <3>4, <3>5, <3>6, <3>7
  <2>3. QED
    BY <2>1, <2>2
<1>6. /\ DOMAIN at = Fields /\ at.queue = st.queue \ C /\ at.inbuf = <<>> /\ at.loads = {}
      /\ at.open = l.open /\ at.awoken = l.awoken /\ at.file = l.file /\ at.snaps = l.snaps
  BY <1>2, <1>4, <1>5 DEF Fields
<1>7. PICK r : r = ForEach(st, view)
  OBVIOUS
<1>8. CASE view = {}
  <2>1. r = [at EXCEPT !.open = {}]
    BY <1>2, <1>7, <1>8
  <2>2. /\ r.queue = at.queue /\ r.inbuf = at.inbuf /\ r.loads = at.loads /\ r.open = {}
        /\ r.awoken = at.awoken /\ r.file = at.file /\ r.snaps = at.snaps
    BY <1>6, <2>1 DEF Fields
  <2>3. QED
    BY <1>5, <1>6, <1>7, <1>8, <2>2
<1>9. CASE view # {}
  <2>1. PICK e : e = CHOOSE f \in view : TRUE
    OBVIOUS
  <2>2. PICK o : /\ o = Eager(at, e) /\ DOMAIN o = Fields /\ o.inbuf = <<>>
                 /\ o.loads = at.loads /\ o.queue = at.queue /\ o.open = at.open
                 /\ o.awoken = at.awoken /\ o.file = at.file /\ o.snaps = at.snaps
    BY <1>6, EagerNoItems
  <2>3. r = at \/ r = o
    BY <1>2, <1>7, <1>9, <2>1, <2>2
  <2>4. /\ r.queue = at.queue /\ r.inbuf = <<>> /\ r.loads = at.loads /\ r.open = at.open
        /\ r.awoken = at.awoken /\ r.file = at.file /\ r.snaps = at.snaps
    BY <1>6, <2>2, <2>3
  <2>5. QED
    BY <1>5, <1>6, <1>7, <1>9, <2>4
<1>10. QED
  BY <1>8, <1>9

(* The items of the open epoch are written at once. *)
LEMMA ForEachItems ==
  ASSUME NEW st, Writable(st), point \in Epoch, point >= 1, WroteTo(st, st, 0), point \in st.queue,
         st.queue \subseteq {point}
  PROVE  \E r : /\ r = ForEach(st, {point}) /\ WroteTo(st, r, Len(st.inbuf))
                /\ r.inbuf = <<>> /\ r.queue = st.queue
<1>1. PICK view : view = {point}
  OBVIOUS
<1>2. st.queue \subseteq Epoch /\ point \in Nat \ {0} /\ st.queue = {point}
  BY EpochIs
<1>3. Closed(st, view) = {}
  BY <1>1, <1>2 DEF Closed, IsClosed
<1>4. PICK n, after, at :
        /\ ForEachSteps(st, view, n, after)
        /\ at = [after[n] EXCEPT !.queue = @ \ Closed(st, view)]
        /\ ForEach(st, view) = IF view = {} THEN [at EXCEPT !.open = {}]
                               ELSE IF view \subseteq at.queue
                                      THEN Eager(at, CHOOSE f \in view : TRUE)
                               ELSE at
  BY <1>2, ForEachUnfolds
<1>5. n = 0 /\ after[0] = st
  BY <1>3, <1>4 DEF ForEachSteps
<1>6. at = [st EXCEPT !.queue = @ \ {}]
  BY <1>3, <1>4, <1>5
<1>7. /\ DOMAIN at = Fields /\ at.inbuf = st.inbuf /\ at.loads = st.loads /\ at.queue = st.queue
      /\ at.open = st.open /\ at.awoken = st.awoken /\ at.file = st.file /\ at.snaps = st.snaps
  BY <1>6 DEF WroteTo, Record, Fields
<1>8. ForEach(st, view) = Eager(at, point)
  <2>1. view # {} /\ view \subseteq at.queue /\ (CHOOSE f \in view : TRUE) = point
    BY <1>1, <1>2, <1>7
  <2>2. QED
    BY <1>4, <2>1
<1>9. Writable(at)
  BY <1>7 DEF Writable
<1>10. \A j, p, s : IsIn(at, j, p, s) <=> IsIn(st, j, p, s)
  BY <1>7 DEF IsIn
<1>11. ASSUME NEW j \in Nat, NEW v
       PROVE  WroteTo(at, v, j) <=> WroteTo(st, v, j)
  BY <1>7, <1>10 DEF WroteTo
<1>12. WroteTo(at, at, 0)
  <2>1. WroteTo(st, at, 0)
    BY <1>7 DEF WroteTo, Record
  <2>2. QED
    BY <1>11, <2>1
<1>13. PICK r : /\ r = Eager(at, point) /\ WroteTo(at, r, Len(at.inbuf))
                /\ r.inbuf = <<>> /\ r.queue = at.queue
  BY <1>2, <1>9, <1>12, EagerItems
<1>14. WroteTo(st, r, Len(st.inbuf))
  <2>1. PICK j \in Nat : j = Len(st.inbuf)
    BY DEF Writable
  <2>2. WroteTo(at, r, j)
    BY <1>7, <1>13, <2>1
  <2>3. QED
    BY <1>11, <2>1, <2>2
<1>15. QED
  BY <1>1, <1>7, <1>8, <1>13, <1>14

-----------------------------------------------------------------------------
(* What the invariant says of a state. *)

LEMMA BelongsNext ==
  ASSUME NEW p, NEW e \in Nat \ {0}
  PROVE  /\ Belongs(p, e) \subseteq Belongs(p, e + 1)
         /\ \A j \in Belongs(p, e + 1) : j \in Belongs(p, e) \/ \E s \in Sources : j = <<s, e>>
         /\ \A s : <<s, e>> \notin Belongs(p, e)
<1>1. e \in Nat /\ e + 1 \in Nat
  OBVIOUS
<1>2. Belongs(p, e) \subseteq Belongs(p, e + 1)
  <2>1. ASSUME NEW j \in Belongs(p, e)
        PROVE  j \in Belongs(p, e + 1)
    <3>1. PICK s \in Sources, y \in Nat : j = <<s, y>>
      BY BelongsIs
    <3>2. 1 <= y /\ y < e /\ y <= Len(Script[s]) /\ FileOf(SinkParts, s, y) = p
      BY <1>1, <3>1, BelongsIs
    <3>3. y < e + 1
      BY <3>2
    <3>4. QED
      BY <1>1, <3>1, <3>2, <3>3, BelongsIs
  <2>2. QED
    BY <2>1
<1>3. ASSUME NEW j \in Belongs(p, e + 1)
      PROVE  j \in Belongs(p, e) \/ \E s \in Sources : j = <<s, e>>
  <2>1. PICK s \in Sources, y \in Nat : j = <<s, y>>
    BY <1>1, BelongsIs
  <2>2. 1 <= y /\ y < e + 1 /\ y <= Len(Script[s]) /\ FileOf(SinkParts, s, y) = p
    BY <1>1, <2>1, BelongsIs
  <2>3. y < e \/ y = e
    BY <2>2
  <2>4. CASE y < e
    <3>1. j \in Belongs(p, e)
      BY <1>1, <2>1, <2>2, <2>4, BelongsIs
    <3>2. QED
      BY <3>1
  <2>5. CASE y = e
    BY <2>1, <2>5
  <2>6. QED
    BY <2>3, <2>4, <2>5
<1>4. ASSUME NEW s, <<s, e>> \in Belongs(p, e)
      PROVE  FALSE
  <2>1. s \in Sources
    BY <1>4, BelongsIs
  <2>2. e < e
    BY <1>1, <1>4, <2>1, BelongsIs
  <2>3. QED
    BY <2>2
<1>5. QED
  BY <1>2, <1>3, <1>4

LEMMA PointIs ==
  ASSUME OutputInv
  PROVE  /\ point \in Nat \ {0} /\ point \in Epoch /\ point >= 1 /\ point + 1 \in Nat \ {0}
         /\ point <= LastEpoch + 1 /\ LastEpoch \in Nat
<1>1. point \in 1 .. LastEpoch + 1
  BY DEF OutputInv, QueuesInv, FirstEpoch
<1>2. QED
  BY <1>1, LastEpochIs, EpochIs DEF Epoch

(* A file that is open is open on its owner. *)
LEMMA OpenOnOne ==
  ASSUME OwnersInv, NEW v \in AllWorkers, NEW w \in AllWorkers, NEW p \in open[v], Owns(w, p)
  PROVE  v = w
BY DEF OwnersInv, Owns

(* What the frontiers say. *)
LEMMA FrontHas ==
  ASSUME NEW w \in ws
  PROVE  /\ cap[w] \subseteq SnapsFront /\ OutIn \subseteq SnapsFront
         /\ \A m \in snapq : m.epoch \in SnapsFront
         /\ \A m \in loads[w] \cup loadsOut[w] : m.epoch \in OutIn
         /\ \A i \in DOMAIN toOut[w] : toOut[w][i].epoch \in OutIn
<1>1. cap[w] \subseteq SnapsFront /\ OutIn \subseteq SnapsFront
  BY DEF SnapsFront
<1>2. \A m \in snapq : m.epoch \in SnapsFront
  BY DEF SnapsFront, Epochs
<1>3. \A m \in loads[w] : m.epoch \in OutIn
  BY DEF OutIn, LoadsFront, Epochs
<1>4. \A m \in Range(toOut[w]) \cup loadsOut[w] : m.epoch \in OutIn
  BY DEF OutIn, Epochs
<1>5. \A i \in DOMAIN toOut[w] : toOut[w][i] \in Range(toOut[w])
  BY DEF Range
<1>6. QED
  BY <1>1, <1>2, <1>3, <1>4, <1>5

LEMMA SourcesFront ==
  /\ \A s \in Sources : src[s] \subseteq OutIn
  /\ \A r \in RecParts : ~ cursor[r].done => 0 \in OutIn
<1>1. \A s \in Sources : src[s] \subseteq OutIn
  BY DEF OutIn, ItemsFront
<1>2. \A r \in RecParts : ~ cursor[r].done => 0 \in OutIn
  BY DEF OutIn, LoadsFront, Unless
<1>3. QED
  BY <1>1, <1>2

LEMMA ItemsAreInFront ==
  ASSUME OutputInv, NEW w \in ws
  PROVE  /\ \A i \in DOMAIN toPart[w] : toPart[w][i].epoch \in OutIn
         /\ \A i \in DOMAIN toRoute[w] : toRoute[w][i].epoch \in OutIn
<1>1. w \in AllWorkers
  BY DEF OutputInv, RoutesInv
<1>2. PICK S : S = AtPart \cup AtRoute
  OBVIOUS
<1>3. PICK a \in Seq(S) : a = toPart[w]
  BY <1>1, <1>2 DEF OutputInv, QueuesInv
<1>4. PICK b \in Seq(S) : b = toRoute[w]
  BY <1>1, <1>2 DEF OutputInv, QueuesInv
<1>5. PICK c : c = a \o b
  OBVIOUS
<1>6. /\ DOMAIN c = 1 .. Len(a) + Len(b) /\ DOMAIN a = 1 .. Len(a) /\ DOMAIN b = 1 .. Len(b)
      /\ \A i \in 1 .. Len(a) : i \in DOMAIN c /\ c[i] = a[i]
      /\ \A i \in 1 .. Len(b) : Len(a) + i \in DOMAIN c /\ c[Len(a) + i] = b[i]
  BY <1>5
<1>7. (\A i \in DOMAIN a : a[i] \in Range(c)) /\ (\A i \in DOMAIN b : b[i] \in Range(c))
  BY <1>6 DEF Range
<1>8. \A m \in Range(c) : m.epoch \in OutIn
  BY <1>3, <1>4, <1>5 DEF OutIn, ItemsFront, Epochs
<1>9. QED
  BY <1>3, <1>4, <1>7, <1>8

(* The smallest of a frontier. *)
LEMMA LeastIs ==
  ASSUME NEW S \in SUBSET Nat, S # {}
  PROVE  Simplify(S) # {} /\ \A f \in Simplify(S) : f \in S /\ \A g \in S : f <= g
<1>1. PICK f \in S : \A g \in S : f <= g
  BY NatHasLeast
<1>2. QED
  BY <1>1 DEF Simplify

(* Nothing before the resume epoch is left when the frontier is there. *)
LEMMA CaughtUp ==
  ASSUME OutputInv, PlacesInv, FrontInv, LoadsInv, ~ LessThan(SnapsFront, point)
  PROVE  ~ Behindhand
<1>1. SnapsFront \subseteq Nat /\ point \in Nat /\ 0 < point /\ \A f \in SnapsFront : point <= f
  <2>1. SnapsFront \subseteq Nat
    BY FrontIs, EpochIs
  <2>2. point \in Nat /\ 0 < point
    BY PointIs
  <2>3. QED
    BY <2>1, <2>2 DEF LessThan
<1>2. \A f \in SnapsFront : ~ (f < point)
  BY <1>1
<1>3. ASSUME NEW w \in AllWorkers
      PROVE  loads[w] = {} /\ loadsOut[w] = {} /\ loadsBuf[w] = {} /\ \A c \in cap[w] : ~ (c < point)
  <2>1. CASE w \in ws
    <3>1. \A c \in cap[w] : c \in SnapsFront
      BY <2>1, FrontHas
    <3>2. \A m \in loads[w] \cup loadsOut[w] : m.epoch \in SnapsFront
      BY <2>1, FrontHas
    <3>3. \A m \in loads[w] \cup loadsOut[w] \cup loadsBuf[w] : m.epoch < point
      BY DEF LoadsInv
    <3>4. \A m \in loadsBuf[w] : \E c \in cap[w] : c <= m.epoch
      BY DEF FrontInv
    <3>5. ASSUME NEW m \in loadsBuf[w]
          PROVE  FALSE
      <4>1. m \in Row /\ m.epoch < point
        BY DEF LoadsInv
      <4>2. m.epoch \in Nat
        BY <4>1, EpochIs DEF Row
      <4>3. PICK c \in cap[w] : c <= m.epoch
        BY <3>4
      <4>4. c \in Nat /\ point <= c
        BY <1>1, <3>1
      <4>5. QED
        BY <1>1, <4>1, <4>2, <4>3, <4>4
    <3>6. loadsBuf[w] = {}
      BY <3>5
    <3>7. QED
      BY <1>2, <3>1, <3>2, <3>3, <3>6
  <2>2. CASE w \notin ws
    BY <2>2 DEF PlacesInv
  <2>3. QED
    BY <2>1, <2>2
<1>4. ASSUME NEW r \in RecParts, ~ cursor[r].done
      PROVE  FALSE
  <2>1. OutIn \subseteq SnapsFront
    BY DEF SnapsFront
  <2>2. QED
    BY <1>1, <1>2, <1>4, <2>1, SourcesFront
<1>5. QED
  BY <1>3, <1>4 DEF Behindhand

(* An item that is in an open file is in its own. *)
LEMMA WroteIs ==
  ASSUME OutputInv, WrittenInv, NEW p \in SinkParts, NEW s \in Sources, Wrote(p, s)
  PROVE  /\ <<s, point>> \in Belongs(p, point + 1) /\ point <= Len(Script[s])
         /\ FileOf(SinkParts, s, point) = p
<1>1. PICK w \in AllWorkers : p \in open[w]
  BY DEF Wrote
<1>2. Among(file[p], Len(file[p])) \subseteq Belongs(p, point + 1)
  BY <1>1 DEF WrittenInv, UpTo
<1>3. <<s, point>> \in Belongs(p, point + 1)
  BY <1>2 DEF Wrote
<1>4. point \in Nat /\ point + 1 \in Nat
  BY PointIs
<1>5. QED
  BY <1>3, <1>4, BelongsIs

(* When all items of the resume epoch have gone through, their files have   *)
(* them.                                                                    *)
LEMMA AllWritten ==
  ASSUME OutputInv, UnderwayInv, WrittenInv, Places = {}, \A s \in Sources : src[s] # {point},
         NEW p \in SinkParts
  PROVE  /\ \A s \in Sources : <<s, point>> \in Belongs(p, point + 1) => Wrote(p, s)
         /\ Belongs(p, point + 1) # Belongs(p, point) => \E w \in AllWorkers : p \in open[w]
         /\ \A w \in AllWorkers : p \in open[w] =>
              Among(file[p], Len(file[p])) = Belongs(p, point + 1)
<1>1. point \in Nat \ {0} /\ point + 1 \in Nat
  BY PointIs
<1>2. ASSUME NEW s \in Sources, <<s, point>> \in Belongs(p, point + 1)
      PROVE  Wrote(p, s)
  <2>1. point <= Len(Script[s]) /\ FileOf(SinkParts, s, point) = p
    BY <1>1, <1>2, BelongsIs
  <2>2. ReadIn(s)
    BY <2>1 DEF ReadIn
  <2>3. PICK q \in SinkParts : Wrote(q, s)
    BY <2>2 DEF UnderwayInv
  <2>4. q = p
    BY <2>1, <2>3, WroteIs
  <2>5. QED
    BY <2>3, <2>4
<1>3. ASSUME Belongs(p, point + 1) # Belongs(p, point)
      PROVE  \E w \in AllWorkers : p \in open[w]
  <2>1. PICK j \in Belongs(p, point + 1) : j \notin Belongs(p, point)
    BY <1>1, <1>3, BelongsNext
  <2>2. PICK s \in Sources : j = <<s, point>>
    BY <1>1, <2>1, BelongsNext
  <2>3. QED
    BY <1>2, <2>1, <2>2 DEF Wrote
<1>4. ASSUME NEW w \in AllWorkers, p \in open[w]
      PROVE  Among(file[p], Len(file[p])) = Belongs(p, point + 1)
  <2>1. UpTo(file[p], p, point)
    BY <1>4 DEF WrittenInv
  <2>2. \A j \in Belongs(p, point + 1) : j \in Among(file[p], Len(file[p]))
    <3>1. ASSUME NEW j \in Belongs(p, point + 1), j \notin Belongs(p, point)
          PROVE  j \in Among(file[p], Len(file[p]))
      <4>1. PICK s \in Sources : j = <<s, point>>
        BY <1>1, <3>1, BelongsNext
      <4>2. QED
        BY <1>2, <4>1 DEF Wrote
    <3>2. QED
      BY <2>1, <3>1 DEF UpTo
  <2>3. QED
    BY <2>1, <2>2 DEF UpTo
<1>5. QED
  BY <1>2, <1>3, <1>4

-----------------------------------------------------------------------------
(* The places of the items. *)

PlaceFacts ==
  /\ \A w \in AllWorkers : \A i \in Nat :
       /\ (<<"part", w, i>> \in Places) <=> (i \in DOMAIN toPart[w])
       /\ (<<"route", w, i>> \in Places) <=> (i \in DOMAIN toRoute[w])
       /\ (<<"out", w, i>> \in Places) <=> (i \in DOMAIN toOut[w])
       /\ At(<<"part", w, i>>) = toPart[w][i]
       /\ At(<<"route", w, i>>) = toRoute[w][i]
       /\ At(<<"out", w, i>>) = toOut[w][i]
  /\ \A x \in Places : \E w \in AllWorkers : \E i \in Nat :
       x = <<"part", w, i>> \/ x = <<"route", w, i>> \/ x = <<"out", w, i>>

LEMMA PlacesAre == PlaceFacts /\ PlaceFacts'
<1>1. ASSUME NEW w \in AllWorkers, NEW i \in Nat
      PROVE  /\ (<<"part", w, i>> \in Places) <=> (i \in DOMAIN toPart[w])
             /\ (<<"route", w, i>> \in Places) <=> (i \in DOMAIN toRoute[w])
             /\ (<<"out", w, i>> \in Places) <=> (i \in DOMAIN toOut[w])
             /\ At(<<"part", w, i>>) = toPart[w][i]
             /\ At(<<"route", w, i>>) = toRoute[w][i]
             /\ At(<<"out", w, i>>) = toOut[w][i]
  BY DEF Places, At, Under, Queues
<1>2. ASSUME NEW w \in AllWorkers, NEW i \in Nat
      PROVE  /\ (<<"part", w, i>> \in Places') <=> (i \in DOMAIN toPart'[w])
             /\ (<<"route", w, i>> \in Places') <=> (i \in DOMAIN toRoute'[w])
             /\ (<<"out", w, i>> \in Places') <=> (i \in DOMAIN toOut'[w])
             /\ At(<<"part", w, i>>)' = toPart'[w][i]
             /\ At(<<"route", w, i>>)' = toRoute'[w][i]
             /\ At(<<"out", w, i>>)' = toOut'[w][i]
  BY DEF Places, At, Under, Queues
<1>3. ASSUME NEW x \in Queues \X AllWorkers \X Nat
      PROVE  \E w \in AllWorkers : \E i \in Nat :
               x = <<"part", w, i>> \/ x = <<"route", w, i>> \/ x = <<"out", w, i>>
  BY DEF Queues
<1>4. Places \subseteq Queues \X AllWorkers \X Nat /\ Places' \subseteq Queues \X AllWorkers \X Nat
  BY DEF Places
<1>5. PlaceFacts
  BY <1>1, <1>3, <1>4 DEF PlaceFacts
<1>6. PlaceFacts'
  BY <1>2, <1>3, <1>4 DEF PlaceFacts
<1>7. QED
  BY <1>5, <1>6

-----------------------------------------------------------------------------
(* What a step leaves alone. *)

LEMMA RowsSame ==
  ASSUME RowsInv, UNCHANGED <<snapq, store>>
  PROVE  RowsInv'
BY DEF RowsInv, store

LEMMA PlacesSame ==
  ASSUME PlacesInv, UNCHANGED <<ws, known, loading, items, output, snapq>>
  PROVE  PlacesInv'
BY DEF PlacesInv, loading, items, output

LEMMA FrontSame ==
  ASSUME FrontInv, UNCHANGED <<ws, src, loading, output, snapq, point>>
  PROVE  FrontInv'
<1>1. Behindhand' <=> Behindhand
  BY DEF Behindhand, loading, output
<1>2. Quiet' <=> Quiet
  BY DEF Quiet, output
<1>3. QED
  BY <1>1, <1>2 DEF FrontInv, output

LEMMA WroteSame ==
  ASSUME UNCHANGED <<open, file, point>>
  PROVE  \A p, s : Wrote(p, s)' <=> Wrote(p, s)
BY DEF Wrote

LEMMA UnderwaySame ==
  ASSUME UnderwayInv, UNCHANGED <<items, open, file, point>>
  PROVE  UnderwayInv'
<1>1. Places' = Places
  BY DEF Places, Under, items
<1>2. \A x : At(x)' = At(x)
  BY DEF At, Under, items
<1>3. \A s : ReadIn(s)' <=> ReadIn(s)
  BY DEF ReadIn, items
<1>4. \A p, s : Wrote(p, s)' <=> Wrote(p, s)
  BY WroteSame
<1>5. QED
  BY <1>1, <1>2, <1>3, <1>4 DEF UnderwayInv

LEMMA LoadsSame ==
  ASSUME LoadsInv, UNCHANGED <<rows, point, loading, loadsOut, loadsBuf, src, open>>
  PROVE  LoadsInv'
<1>1. \A p : Loading(p)' <=> Loading(p)
  BY DEF Loading, LastRows, loading, Behind
<1>2. QED
  BY <1>1 DEF LoadsInv, loading

LEMMA WrittenSame ==
  ASSUME WrittenInv, UNCHANGED <<open, file, point, awoken, snapq, rows>>
  PROVE  WrittenInv'
<1>1. \A p, s : Wrote(p, s)' <=> Wrote(p, s)
  BY WroteSame
<1>2. QED
  BY <1>1 DEF WrittenInv

(* A step that has to do with the routes only. *)
LEMMA FilesSame ==
  ASSUME FilesInv, UNCHANGED <<ws, loading, items, output, snapq, store>>, PlacesInv'
  PROVE  FilesInv'
<1>1. RowsInv'
  BY RowsSame DEF FilesInv
<1>2. CASE ws # {}
  <2>1. FrontInv' /\ UnderwayInv' /\ LoadsInv' /\ WrittenInv'
    BY <1>2, FrontSame, UnderwaySame, LoadsSame, WrittenSame
       DEF FilesInv, loading, items, output, store
  <2>2. QED
    BY <1>1, <2>1 DEF FilesInv
<1>3. CASE ws = {}
  BY <1>1, <1>3 DEF FilesInv
<1>4. QED
  BY <1>2, <1>3

LEMMA StutterFiles ==
  ASSUME FilesInv, UNCHANGED vars
  PROVE  FilesInv'
<1>1. PlacesInv'
  BY PlacesSame DEF FilesInv, vars, routing
<1>2. QED
  BY <1>1, FilesSame DEF vars

LEMMA RoutesFiles ==
  ASSUME FilesInv, NEW w \in AllWorkers,
         Announce(w) \/ Assign \/ \E r \in Routers : LearnRoutes(r, w)
  PROVE  FilesInv'
<1>1. UNCHANGED <<ws, known, loading, items, output, snapq, store>>
  BY DEF Announce, Assign, LearnRoutes
<1>2. PlacesInv'
  BY <1>1, PlacesSame DEF FilesInv
<1>3. QED
  BY <1>1, <1>2, FilesSame

LEMMA LearnPartsFiles ==
  ASSUME FilesInv, OutputInv, NEW w \in AllWorkers, LearnParts(w)
  PROVE  FilesInv'
<1>1. UNCHANGED <<ws, loading, items, output, snapq, store>>
  BY DEF LearnParts
<1>2. 0 \in ws /\ announced = ws
  <2>1. ws # {} /\ announced = ws
    BY DEF LearnParts, AllAnnounced
  <2>2. PICK n \in 1 .. MaxWorkers : ws = 0 .. n - 1
    BY <2>1 DEF FilesInv, PlacesInv
  <2>3. QED
    BY <2>1, <2>2
<1>3. UNION {Listing[v] : v \in announced} = SinkParts
  BY <1>2, OutputAssumption DEF OutputInv, RoutesInv
<1>4. known' = [known EXCEPT ![w] = SinkParts]
  BY <1>3 DEF LearnParts
<1>5. known \in [AllWorkers -> SUBSET SinkParts]
  BY DEF OutputInv, RoutesInv
<1>6. \A v \in AllWorkers : known'[v] \in {{}, SinkParts}
  BY <1>4, <1>5 DEF FilesInv, PlacesInv
<1>7. PlacesInv'
  BY <1>1, <1>6 DEF FilesInv, PlacesInv, loading, items, output
<1>8. QED
  BY <1>1, <1>7, FilesSame

-----------------------------------------------------------------------------
(* An execution starts and ends. *)

LEMMA InitFiles ==
  ASSUME Init
  PROVE  FilesInv
<1>1. \A p \in SinkParts : Belongs(p, 1) = {} /\ Count(p, 1) = 0
  <2>1. ASSUME NEW p \in SinkParts
        PROVE  Belongs(p, 1) = {}
    <3>1. ASSUME NEW j \in Belongs(p, 1)
          PROVE  FALSE
      <4>1. PICK s \in Sources, y \in Nat : j = <<s, y>>
        BY BelongsIs
      <4>2. 1 <= y /\ y < 1
        BY <4>1, BelongsIs
      <4>3. QED
        BY <4>2
    <3>2. QED
      BY <3>1
  <2>2. QED
    BY <2>1, FS_EmptySet DEF Count
<1>2. point = 1 /\ rows = {} /\ snapq = {} /\ \A p \in SinkParts : file[p] = <<>>
  BY DEF Init, Fresh, FirstEpoch
<1>3. \A p \in SinkParts : CutAt(file[p], p, point)
  <2>1. ASSUME NEW p \in SinkParts
        PROVE  CutAt(<<>>, p, 1)
    <3>1. PICK f : f = <<>>
      OBVIOUS
    <3>2. InOrder(f, 0) /\ Among(f, 0) = {}
      BY DEF InOrder, Among
    <3>3. f \in Seq(Sources \X Nat) /\ Len(f) = 0
      BY <3>1
    <3>4. CutAt(f, p, 1)
      BY <1>1, <3>3 DEF CutAt, InOrder, Among
    <3>5. QED
      BY <3>1, <3>4
  <2>2. QED
    BY <1>2, <2>1
<1>4. file \in [SinkParts -> Seq(Sources \X Nat)]
  BY DEF Init
<1>5. RowsInv
  BY <1>1, <1>2, <1>3, <1>4 DEF RowsInv
<1>6. PlacesInv
  BY DEF Init, Fresh, OnAll, PlacesInv
<1>7. QED
  BY <1>5, <1>6 DEF FilesInv, Init

LEMMA LoseFiles ==
  ASSUME FilesInv, Lose, ws' = {}, UNCHANGED store
  PROVE  FilesInv'
<1>1. RowsInv'
  <2>1. snapq' = {} /\ UNCHANGED <<file, rows, point>>
    BY DEF Lose, store
  <2>2. QED
    BY <2>1 DEF FilesInv, RowsInv
<1>2. PlacesInv'
  BY DEF Lose, OnAll, PlacesInv
<1>3. QED
  BY <1>1, <1>2 DEF FilesInv

(* A file with items before the resume epoch has a last row. *)
LEMMA LastRowIs ==
  ASSUME OutputInv, RowsInv, NEW p \in SinkParts, Belongs(p, point) # {}
  PROVE  \E m \in LastRows(RecOf[p], point) : m.part = p
<1>1. point \in Nat
  BY PointIs
<1> DEFINE E == {e \in Nat : e < point /\ \E m \in rows : m.part = p /\ m.epoch = e}
<1>2. E # {}
  <2>1. PICK j \in Belongs(p, point) : TRUE
    OBVIOUS
  <2>2. PICK s \in Sources, y \in Nat : j = <<s, y>>
    BY <1>1, BelongsIs
  <2>3. y < point
    BY <1>1, <2>1, <2>2, BelongsIs
  <2>4. \E m \in rows : m.part = p /\ m.epoch = y
    BY <2>1, <2>2 DEF RowsInv
  <2>5. y \in E
    BY <2>3, <2>4
  <2>6. QED
    BY <2>5
<1>3. E \in SUBSET Nat /\ \A e \in E : e <= point
  BY <1>1
<1> HIDE DEF E
<1>4. PICK e \in E : \A d \in E : d <= e
  BY <1>1, <1>2, <1>3, NatHasGreatest
<1>5. PICK m \in rows : m.part = p /\ m.epoch = e
  BY DEF E
<1>6. \A k \in rows : k.part = p /\ k.epoch < point => k.epoch <= m.epoch
  <2>1. ASSUME NEW k \in rows, k.part = p, k.epoch < point
        PROVE  k.epoch <= m.epoch
    <3>1. k \in Row
      BY DEF RowsInv
    <3>2. k.epoch \in Nat
      BY <3>1, EpochIs DEF Row
    <3>3. k.epoch \in E
      BY <2>1, <3>2 DEF E
    <3>4. QED
      BY <1>4, <1>5, <3>3
  <2>2. QED
    BY <2>1
<1>7. m \in LastRows(RecOf[p], point)
  BY <1>5, <1>6 DEF LastRows, E
<1>8. QED
  BY <1>5, <1>7

LEMMA StartFiles ==
  ASSUME FilesInv, OutputInv, OutputInv', Start
  PROVE  FilesInv'
<1>1. PICK n \in 1 .. MaxWorkers :
        /\ ws' = 0 .. n - 1
        /\ loader' \in CalcPrimaries([r \in RecParts |-> 0 .. n - 1])
        /\ cap' = [w \in AllWorkers |-> IF w < n THEN {0} ELSE {}]
  BY DEF Start
<1>2. ws = {} /\ RowsInv /\ PlacesInv
  BY DEF Start, FilesInv
<1>3. UNCHANGED <<known, cursor, loads, toPart, toRoute, toOut, loadsOut, inbuf, loadsBuf, queue,
                  open, awoken, snapq, file, rows, point>>
  BY DEF Start, routing, store
<1>4. n \in Nat /\ n >= 1 /\ ws' \subseteq AllWorkers /\ 0 \in ws'
  BY <1>1, OutputAssumption DEF OutputInv, RoutesInv, AllWorkers
<1>5. \A w \in AllWorkers :
        /\ toPart[w] = <<>> /\ toRoute[w] = <<>> /\ toOut[w] = <<>>
        /\ loads[w] = {} /\ loadsOut[w] = {} /\ loadsBuf[w] = {}
        /\ queue[w] = {} /\ open[w] = {}
  BY <1>2 DEF PlacesInv
<1>6. \A w \in AllWorkers : awoken[w] = {}
  BY <1>5 DEF OutputInv, AwokenInv
<1>7. cursor = [r \in RecParts |-> Uninit] /\ snapq = {}
  BY <1>2 DEF PlacesInv
<1>8. \A s \in Sources : src'[s] = {point}
  BY DEF Start
<1>9. point \in Nat /\ 0 < point
  BY PointIs
<1>10. RowsInv'
  BY <1>2, <1>3 DEF RowsInv
<1>11. PlacesInv'
  <2>1. \A r \in RecParts : loader'[r] \in ws'
    <3> PICK K : K = [r \in RecParts |-> 0 .. n - 1]
      OBVIOUS
    <3>1. DOMAIN K = RecParts /\ \A r \in RecParts : K[r] = ws'
      BY <1>1
    <3>2. loader' \in CalcPrimaries(K)
      BY <1>1
    <3>3. loader' \in [DOMAIN K -> UNION {K[r] : r \in DOMAIN K}]
      BY <3>2 DEF CalcPrimaries
    <3>4. QED
      BY <3>1, <3>3
  <2>2. \A w \in AllWorkers \ ws' : cap'[w] = {}
    <3>1. ASSUME NEW w \in AllWorkers, w \notin ws'
          PROVE  cap'[w] = {}
      <4>1. w \in Nat
        BY OutputAssumption DEF AllWorkers
      <4>2. ~ (w < n)
        BY <1>1, <3>1, <4>1
      <4>3. QED
        BY <1>1, <4>2
    <3>2. QED
      BY <3>1
  <2>3. ws' \in {{}} \cup {0 .. k - 1 : k \in 1 .. MaxWorkers}
    BY <1>1
  <2>4. \A w \in AllWorkers : known[w] \in {{}, SinkParts} /\ inbuf[w] = <<>>
    BY <1>2 DEF PlacesInv
  <2>5. ws' # {}
    BY <1>4
  <2>6. QED
    BY <1>3, <1>5, <2>1, <2>2, <2>3, <2>4, <2>5 DEF PlacesInv
<1>12. FrontInv'
  <2>1. Quiet'
    BY <1>3, <1>6, <1>7, <1>8 DEF Quiet
  <2>2. \A w \in AllWorkers : cap'[w] = {} => w \notin ws'
    BY <1>1, <1>4
  <2>3. QED
    BY <1>3, <1>5, <1>6, <1>7, <1>8, <2>1, <2>2 DEF FrontInv
<1>13. \A p, s : ~ Wrote(p, s)'
  BY <1>3, <1>5 DEF Wrote
<1>14. \A s \in Sources : ~ ReadIn(s)'
  BY <1>3, <1>8 DEF ReadIn
<1>15. Places' = {}
  <2>1. PlaceFacts'
    BY PlacesAre
  <2>2. \A w \in AllWorkers : toPart'[w] = <<>> /\ toRoute'[w] = <<>> /\ toOut'[w] = <<>>
    BY <1>3, <1>5
  <2>3. DOMAIN <<>> = {}
    OBVIOUS
  <2>4. ASSUME NEW x \in Places'
        PROVE  FALSE
    <3>1. PICK w \in AllWorkers, i \in Nat :
            x = <<"part", w, i>> \/ x = <<"route", w, i>> \/ x = <<"out", w, i>>
      BY <2>1 DEF PlaceFacts
    <3>2. i \in DOMAIN toPart'[w] \/ i \in DOMAIN toRoute'[w] \/ i \in DOMAIN toOut'[w]
      BY <2>1, <3>1 DEF PlaceFacts
    <3>3. QED
      BY <2>2, <2>3, <3>2
  <2>5. QED
    BY <2>4
<1>16. UnderwayInv'
  BY <1>13, <1>14, <1>15 DEF UnderwayInv
<1>17. LoadsInv'
  <2>1. ASSUME NEW p \in SinkParts, Belongs(p, point) # {}
        PROVE  Loading(p)'
    <3>1. PICK m \in LastRows(RecOf[p], point) : m.part = p
      BY <1>2, <2>1, LastRowIs
    <3>2. RecOf[p] \in RecParts
      BY OutputAssumption
    <3>3. ~ cursor[RecOf[p]].done /\ Behind(cursor[RecOf[p]], p)
      BY <1>7, <3>2 DEF Uninit, Behind
    <3>4. LastRows(RecOf[p], point)' = LastRows(RecOf[p], point)
      BY <1>3 DEF LastRows
    <3>5. QED
      BY <1>3, <3>1, <3>3, <3>4 DEF Loading, Behind
  <2>2. QED
    BY <1>3, <1>5, <2>1 DEF LoadsInv
<1>18. WrittenInv'
  BY <1>3, <1>5 DEF WrittenInv
<1>19. QED
  BY <1>10, <1>11, <1>12, <1>16, <1>17, <1>18 DEF FilesInv

-----------------------------------------------------------------------------
(* Loading. *)

LEMMA RowsFinite ==
  ASSUME RowsInv
  PROVE  IsFiniteSet(rows)
<1> DEFINE T == SinkParts \X Epoch
           f == [m \in rows |-> <<m.part, m.epoch>>]
<1>1. IsFiniteSet(T)
  BY OutputAssumption, EpochIs, FS_Product
<1>2. \A m \in rows : m \in Row /\ m.offset = Count(m.part, m.epoch + 1)
  BY DEF RowsInv
<1>3. f \in [rows -> T]
  BY <1>2 DEF Row
<1>4. \A m, k \in rows : f[m] = f[k] => m = k
  <2>1. ASSUME NEW m \in rows, NEW k \in rows, f[m] = f[k]
        PROVE  m = k
    <3>1. m.part = k.part /\ m.epoch = k.epoch
      BY <2>1
    <3>2. m.offset = k.offset
      BY <1>2, <3>1
    <3>3. m \in Row /\ k \in Row
      BY <1>2
    <3>4. QED
      BY <3>1, <3>2, <3>3 DEF Row
  <2>2. QED
    BY <2>1
<1> HIDE DEF f, T
<1>5. f \in Injection(rows, T)
  BY <1>3, <1>4 DEF Injection, IsInjective, f
<1>6. QED
  BY <1>1, <1>5, FS_Injection

(* A row that is read for the resume has the length that its file had then. *)
LEMMA LastRowHas ==
  ASSUME OutputInv, RowsInv, NEW r, NEW m \in LastRows(r, point)
  PROVE  /\ m \in rows /\ m \in Row /\ m.epoch < point /\ RecOf[m.part] = r
         /\ m.offset = Count(m.part, point)
<1>1. /\ m \in rows /\ m.epoch < point /\ RecOf[m.part] = r
      /\ \A k \in rows : k.part = m.part /\ k.epoch < point => k.epoch <= m.epoch
  BY DEF LastRows
<1>2. m \in Row /\ m.offset = Count(m.part, m.epoch + 1)
  BY <1>1 DEF RowsInv
<1>3. PICK p \in SinkParts, e \in Epoch : p = m.part /\ e = m.epoch
  BY <1>2 DEF Row
<1>4. e \in Nat /\ point \in Nat /\ e < point /\ e + 1 \in Nat
  BY <1>1, <1>3, EpochIs, PointIs
<1>5. \A j : j \in Belongs(p, e + 1) => j \in Belongs(p, point)
  <2>1. ASSUME NEW j \in Belongs(p, e + 1)
        PROVE  j \in Belongs(p, point)
    <3>1. PICK s \in Sources, y \in Nat : j = <<s, y>>
      BY <1>4, BelongsIs
    <3>2. 1 <= y /\ y < e + 1 /\ y <= Len(Script[s]) /\ FileOf(SinkParts, s, y) = p
      BY <1>4, <3>1, BelongsIs
    <3>3. y < point
      BY <1>4, <3>2
    <3>4. <<s, y>> \in Belongs(p, point)
      BY <1>4, <3>2, <3>3, BelongsIs
    <3>5. QED
      BY <3>1, <3>4
  <2>2. QED
    BY <2>1
<1>6. \A j : j \in Belongs(p, point) => j \in Belongs(p, e + 1)
  <2>1. ASSUME NEW j \in Belongs(p, point)
        PROVE  j \in Belongs(p, e + 1)
    <3>1. PICK s \in Sources, y \in Nat : j = <<s, y>>
      BY <1>4, BelongsIs
    <3>2. 1 <= y /\ y < point /\ y <= Len(Script[s]) /\ FileOf(SinkParts, s, y) = p
      BY <1>4, <3>1, BelongsIs
    <3>3. PICK k \in rows : k.part = p /\ k.epoch = y
      BY <3>1 DEF RowsInv
    <3>4. y <= e
      BY <1>1, <1>3, <3>2, <3>3
    <3>5. y < e + 1
      BY <1>4, <3>4
    <3>6. <<s, y>> \in Belongs(p, e + 1)
      BY <1>4, <3>2, <3>5, BelongsIs
    <3>7. QED
      BY <3>1, <3>6
  <2>2. QED
    BY <2>1
<1>7. Belongs(p, e + 1) = Belongs(p, point)
  BY <1>5, <1>6
<1>8. Count(p, e + 1) = Count(p, point)
  BY <1>7 DEF Count
<1>9. QED
  BY <1>1, <1>2, <1>3, <1>8

(* A page is what comes next in the order of the keys. *)
Left(r, cur) == {m \in LastRows(r, point) : Behind(cur, m.part)}

LEMMA PageIs ==
  ASSUME OutputInv, RowsInv, NEW r, NEW cur
  PROVE  /\ Select(r, cur) \subseteq Left(r, cur)
         /\ Left(r, cur) # {} => Select(r, cur) # {}
         /\ \A m \in Left(r, cur) \ Select(r, cur) : \A k \in Select(r, cur) : m.part > k.part
<1> DEFINE left == Left(r, cur)
           Before(p) == {k \in left : k.part < p}
<1>1. Select(r, cur) = {m \in left : Cardinality(Before(m.part)) < PageSize}
  BY DEF Select, Left
<1>2. \A m \in left : m \in rows /\ m.part \in Nat
  <2>1. ASSUME NEW m \in left
        PROVE  m \in rows /\ m.part \in Nat
    <3>1. m \in LastRows(r, point)
      BY DEF Left
    <3>2. m \in rows /\ m \in Row
      BY <3>1, LastRowHas
    <3>3. QED
      BY <3>2, OutputAssumption DEF Row
  <2>2. QED
    BY <2>1
<1>3. IsFiniteSet(left)
  BY <1>2, RowsFinite, FS_Subset
<1>4. \A p : IsFiniteSet(Before(p)) /\ Cardinality(Before(p)) \in Nat
  BY <1>3, FS_Subset, FS_CardinalityType
<1> HIDE DEF left
<1>5. left # {} => Select(r, cur) # {}
  <2>1. ASSUME left # {}
        PROVE  \E m \in left : Cardinality(Before(m.part)) < PageSize
    <3> DEFINE P == {m.part : m \in left}
    <3>1. P \in SUBSET Nat /\ P # {}
      BY <1>2, <2>1
    <3>2. PICK p \in P : \A q \in P : p <= q
      BY <3>1, NatHasLeast
    <3>3. PICK m \in left : m.part = p
      BY <3>2
    <3>4. \A k \in left : ~ (k.part < p)
      BY <1>2, <3>1, <3>2
    <3>5. Before(p) = {}
      BY <3>4
    <3>6. Cardinality(Before(p)) = 0
      BY <3>5, FS_EmptySet
    <3>7. 0 < PageSize
      BY OutputAssumption
    <3>8. QED
      BY <3>3, <3>6, <3>7
  <2>2. QED
    BY <1>1, <2>1
<1>6. ASSUME NEW m \in left \ Select(r, cur), NEW k \in Select(r, cur)
      PROVE  m.part > k.part
  <2>1. k \in left /\ Cardinality(Before(k.part)) < PageSize
    BY <1>1
  <2>2. ~ (Cardinality(Before(m.part)) < PageSize)
    BY <1>1
  <2>3. PICK p \in Nat, q \in Nat : p = m.part /\ q = k.part
    BY <1>2, <2>1
  <2>4. CASE p <= q
    <3>1. \A j \in left : j.part \in Nat /\ (j.part < p => j.part < q)
      BY <1>2, <2>4
    <3>2. Before(p) \subseteq Before(q)
      BY <3>1
    <3>3. Cardinality(Before(p)) <= Cardinality(Before(q))
      BY <1>4, <3>2, FS_Subset
    <3>4. PICK a \in Nat, b \in Nat : a = Cardinality(Before(p)) /\ b = Cardinality(Before(q))
      BY <1>4
    <3>5. b < PageSize /\ ~ (a < PageSize) /\ a <= b
      BY <2>1, <2>2, <2>3, <3>3, <3>4
    <3>6. QED
      BY <3>5, OutputAssumption
  <2>5. QED
    BY <2>3, <2>4
<1>7. QED
  BY <1>1, <1>5, <1>6 DEF left

LEMMA LoadPageFiles ==
  ASSUME FilesInv, OutputInv, NEW r \in RecParts, LoadPage(r)
  PROVE  FilesInv'
<1>1. PICK page : page = Select(r, cursor[r])
  OBVIOUS
<1> DEFINE read == {m.part : m \in page}
           next == [done |-> page = {}, at |-> {p \in read : \A q \in read : q <= p}]
<1>2. /\ cursor' = [cursor EXCEPT ![r] = next]
      /\ loads' = [loads EXCEPT ![loader[r]] = @ \cup page]
      /\ ws # {} /\ ~ cursor[r].done
      /\ UNCHANGED <<ws, known, loader, src, toPart, toRoute, toOut, loadsOut, inbuf, loadsBuf,
                     queue, cap, open, awoken, snapq, file, rows, point>>
  BY <1>1 DEF LoadPage, routing, items, output, store
<1>3. RowsInv /\ PlacesInv /\ FrontInv /\ UnderwayInv /\ LoadsInv /\ WrittenInv
  BY <1>2 DEF FilesInv
<1>4. PICK v \in AllWorkers : v = loader[r] /\ v \in ws
  BY <1>2, <1>3 DEF OutputInv, RoutesInv, PlacesInv
<1>5. /\ page \subseteq Left(r, cursor[r]) /\ (Left(r, cursor[r]) # {} => page # {})
      /\ \A m \in Left(r, cursor[r]) \ page : \A k \in page : m.part > k.part
  BY <1>1, <1>3, PageIs
<1>6. DOMAIN cursor = RecParts /\ DOMAIN loads = AllWorkers
  BY DEF OutputInv, QueuesInv
<1>7. \A w \in AllWorkers : loads[w] \subseteq loads'[w] /\ loads'[w] \subseteq loads[w] \cup page
  BY <1>2, <1>4, <1>6
<1>8. cursor'[r] = next /\ \A q \in RecParts : q # r => cursor'[q] = cursor[q]
  BY <1>2, <1>6
<1> HIDE DEF next
<1>9. RowsInv'
  BY <1>2, <1>3, RowsSame DEF store
<1>10. PlacesInv'
  <2>1. \A w \in AllWorkers \ ws : loads'[w] = {}
    BY <1>2, <1>3, <1>4, <1>6 DEF PlacesInv
  <2>2. QED
    BY <1>2, <1>3, <2>1 DEF PlacesInv
<1>11. FrontInv'
  <2>1. Behindhand
    BY <1>2 DEF Behindhand
  <2>2. Quiet'
    BY <1>2, <1>3, <2>1 DEF FrontInv, Quiet
  <2>3. QED
    BY <1>2, <1>3, <2>2 DEF FrontInv
<1>12. UnderwayInv'
  BY <1>2, <1>3, UnderwaySame DEF items
<1>13. LoadsInv'
  <2>1. ASSUME NEW w \in AllWorkers, NEW m \in (loads[w] \cup loadsOut[w] \cup loadsBuf[w])'
        PROVE  m \in Row /\ m.epoch < point /\ m.offset = Count(m.part, point)
    <3>1. m \in loads[w] \cup loadsOut[w] \cup loadsBuf[w] \/ m \in page
      BY <1>2, <1>7
    <3>2. CASE m \in page
      <4>1. m \in LastRows(r, point)
        BY <1>5, <3>2 DEF Left
      <4>2. QED
        BY <1>3, <4>1, LastRowHas
    <3>3. QED
      BY <1>3, <3>1, <3>2 DEF LoadsInv
  <2>2. ASSUME NEW p \in SinkParts, Loading(p)
        PROVE  Loading(p)'
    <3>1. PICK m \in LastRows(RecOf[p], point) :
            /\ m.part = p
            /\ \/ ~ cursor[RecOf[p]].done /\ Behind(cursor[RecOf[p]], p)
               \/ \E w \in AllWorkers : m \in loads[w] \cup loadsOut[w] \cup loadsBuf[w]
      BY <2>2 DEF Loading
    <3>2. RecOf[p] \in RecParts
      BY OutputAssumption
    <3>3. LastRows(RecOf[p], point)' = LastRows(RecOf[p], point)
      BY <1>2 DEF LastRows
    <3>4. CASE \E w \in AllWorkers : m \in loads[w] \cup loadsOut[w] \cup loadsBuf[w]
      <4>1. \E w \in AllWorkers : m \in loads'[w] \cup loadsOut[w] \cup loadsBuf[w]
        BY <1>7, <3>4
      <4>2. QED
        BY <1>2, <3>1, <3>3, <4>1 DEF Loading
    <3>5. CASE ~ cursor[RecOf[p]].done /\ Behind(cursor[RecOf[p]], p)
      <4>1. CASE RecOf[p] # r
        <5>1. cursor'[RecOf[p]] = cursor[RecOf[p]]
          BY <1>8, <3>2, <4>1
        <5>2. QED
          BY <3>1, <3>3, <3>5, <5>1 DEF Loading, Behind
      <4>2. CASE RecOf[p] = r
        <5>1. m \in Left(r, cursor[r])
          BY <3>1, <3>5, <4>2 DEF Left
        <5>2. CASE m \in page
          <6>1. m \in loads'[v]
            BY <1>2, <1>4, <1>6, <5>2
          <6>2. QED
            BY <1>2, <3>1, <3>3, <6>1 DEF Loading
        <5>3. CASE m \notin page
          <6>1. page # {} /\ \A k \in page : p > k.part
            BY <1>5, <3>1, <5>1, <5>3
          <6>2. ~ next.done /\ \A q \in next.at : p > q
            BY <6>1 DEF next
          <6>3. ~ cursor'[r].done /\ Behind(cursor'[r], p)
            BY <1>8, <6>2 DEF Behind
          <6>4. QED
            BY <3>1, <3>3, <4>2, <6>3 DEF Loading, Behind
        <5>4. QED
          BY <5>2, <5>3
      <4>3. QED
        BY <4>1, <4>2
    <3>6. QED
      BY <3>1, <3>4, <3>5
  <2>3. QED
    BY <1>2, <1>3, <2>1, <2>2 DEF LoadsInv
<1>14. WrittenInv'
  BY <1>2, <1>3, WrittenSame
<1>15. QED
  BY <1>9, <1>10, <1>11, <1>12, <1>13, <1>14 DEF FilesInv

(* The primary of a file is a worker of the execution. *)
LEMMA PrimaryIs ==
  ASSUME OutputInv, PlacesInv, primaries # <<>>, NEW p \in SinkParts
  PROVE  primaries[p] \in ws /\ primaries[p] \in AllWorkers
<1>1. primaries \in CalcPrimaries(Listed) /\ ws # {} /\ ws \subseteq AllWorkers
  BY DEF OutputInv, RoutesInv
<1>2. 0 \in ws
  <2>1. PICK n \in 1 .. MaxWorkers : ws = 0 .. n - 1
    BY <1>1 DEF PlacesInv
  <2>2. QED
    BY <2>1
<1>3. /\ DOMAIN Listed = UNION {Listing[u] : u \in ws}
      /\ \A q \in DOMAIN Listed : Listed[q] = {u \in ws : q \in Listing[u]}
  BY DEF Listed
<1>4. DOMAIN Listed = SinkParts
  BY <1>1, <1>2, <1>3, OutputAssumption
<1>5. DOMAIN primaries = SinkParts
  BY <1>1, <1>4 DEF CalcPrimaries
<1>6. primaries[p] \in ws
  BY <1>1, <1>3, <1>5, GreedyIsBalanced
<1>7. QED
  BY <1>1, <1>6

LEMMA RouteLoadsFiles ==
  ASSUME FilesInv, OutputInv, NEW w \in AllWorkers, RouteLoads(w)
  PROVE  FilesInv'
<1>1. PICK m \in loads[w] :
        /\ loads' = [loads EXCEPT ![w] = @ \ {m}]
        /\ loadsOut' = [loadsOut EXCEPT ![routes["loads"][w][m.part]] = @ \cup {m}]
  BY DEF RouteLoads
<1>2. /\ w \in ws
      /\ UNCHANGED <<ws, known, loader, cursor, src, toPart, toRoute, toOut, inbuf, loadsBuf,
                     queue, cap, open, awoken, snapq, file, rows, point>>
  BY DEF RouteLoads, routing, items, store
<1>3. RowsInv /\ PlacesInv /\ FrontInv /\ UnderwayInv /\ LoadsInv /\ WrittenInv
  BY <1>2 DEF FilesInv
<1>4. PICK v \in AllWorkers : v \in ws /\ v = routes["loads"][w][m.part]
  <2>1. routes["loads"][w] = primaries /\ primaries # <<>>
    BY DEF RouteLoads, OutputInv, RoutesInv, Routers
  <2>2. m.part \in SinkParts
    BY DEF OutputInv, QueuesInv, RowsOf
  <2>3. primaries[m.part] \in ws /\ primaries[m.part] \in AllWorkers
    BY <1>3, <2>1, <2>2, PrimaryIs
  <2>4. QED
    BY <2>1, <2>3
<1>5. /\ DOMAIN loads = AllWorkers /\ DOMAIN loadsOut = AllWorkers
      /\ loads'[w] = loads[w] \ {m} /\ m \in loadsOut'[v]
      /\ \A u \in AllWorkers : /\ loads'[u] \subseteq loads[u]
                               /\ u # w => loads'[u] = loads[u]
                               /\ loadsOut[u] \subseteq loadsOut'[u]
                               /\ loadsOut'[u] \subseteq loadsOut[u] \cup {m}
                               /\ u # v => loadsOut'[u] = loadsOut[u]
  BY <1>1, <1>4 DEF OutputInv, QueuesInv
<1>6. RowsInv'
  BY <1>2, <1>3, RowsSame DEF store
<1>7. PlacesInv'
  <2>1. \A u \in AllWorkers \ ws : loads'[u] = {} /\ loadsOut'[u] = {}
    BY <1>2, <1>3, <1>4, <1>5 DEF PlacesInv
  <2>2. QED
    BY <1>2, <1>3, <2>1 DEF PlacesInv
<1>8. FrontInv'
  <2>1. Behindhand
    BY DEF Behindhand
  <2>2. Quiet'
    BY <1>2, <1>3, <2>1 DEF FrontInv, Quiet
  <2>3. QED
    BY <1>2, <1>3, <2>2 DEF FrontInv
<1>9. UnderwayInv'
  BY <1>2, <1>3, UnderwaySame DEF items
<1>10. LoadsInv'
  <2>1. ASSUME NEW u \in AllWorkers, NEW k \in (loads[u] \cup loadsOut[u] \cup loadsBuf[u])'
        PROVE  k \in Row /\ k.epoch < point /\ k.offset = Count(k.part, point)
    <3>1. k \in loads[u] \cup loadsOut[u] \cup loadsBuf[u] \/ k = m
      BY <1>2, <1>5
    <3>2. QED
      BY <1>3, <3>1 DEF LoadsInv
  <2>2. ASSUME NEW p \in SinkParts, Loading(p)
        PROVE  Loading(p)'
    <3>1. PICK k \in LastRows(RecOf[p], point) :
            /\ k.part = p
            /\ \/ ~ cursor[RecOf[p]].done /\ Behind(cursor[RecOf[p]], p)
               \/ \E u \in AllWorkers : k \in loads[u] \cup loadsOut[u] \cup loadsBuf[u]
      BY <2>2 DEF Loading
    <3>2. LastRows(RecOf[p], point)' = LastRows(RecOf[p], point)
      BY <1>2 DEF LastRows
    <3>3. CASE \E u \in AllWorkers : k \in loads[u] \cup loadsOut[u] \cup loadsBuf[u]
      <4>1. PICK u \in AllWorkers : k \in loads[u] \cup loadsOut[u] \cup loadsBuf[u]
        BY <3>3
      <4>2. k \in loads'[u] \cup loadsOut'[u] \cup loadsBuf'[u] \/ k = m
        BY <1>2, <1>5, <4>1
      <4>3. \E x \in AllWorkers : k \in loads'[x] \cup loadsOut'[x] \cup loadsBuf'[x]
        BY <1>5, <4>2
      <4>4. QED
        BY <3>1, <3>2, <4>3 DEF Loading
    <3>4. CASE ~ cursor[RecOf[p]].done /\ Behind(cursor[RecOf[p]], p)
      BY <1>2, <3>1, <3>2, <3>4 DEF Loading, Behind
    <3>5. QED
      BY <3>1, <3>3, <3>4
  <2>3. QED
    BY <1>2, <1>3, <2>1, <2>2 DEF LoadsInv
<1>11. WrittenInv'
  BY <1>2, <1>3, WrittenSame
<1>12. QED
  BY <1>6, <1>7, <1>8, <1>9, <1>10, <1>11 DEF FilesInv

-----------------------------------------------------------------------------
(* The messages at some places, each of which comes from its own place. *)

OnlySteps(msgs, places, after) ==
  /\ after[0] = <<>>
  /\ \A i \in 1 .. Len(msgs) :
       after[i] = IF i \in places THEN Append(after[i - 1], msgs[i]) ELSE after[i - 1]

LEMMA OnlyUnfolds ==
  ASSUME NEW S, NEW msgs \in Seq(S), NEW places
  PROVE  \E after : OnlySteps(msgs, places, after) /\ Only(msgs, places) = after[Len(msgs)]
<1> DEFINE n == Len(msgs)
           G(f, i) == IF i = 0 THEN <<>>
                      ELSE IF i \in places THEN Append(f[i - 1], msgs[i]) ELSE f[i - 1]
           Rec(f, m) == f = [i \in 0 .. m |-> G(f, i)]
           after == CHOOSE f : Rec(f, n)
<1>1. n \in Nat
  OBVIOUS
<1>2. Only(msgs, places) = after[n]
  BY DEF Only
<1>3. \A f, g : \A i \in Nat : (i # 0 => f[i - 1] = g[i - 1]) => G(f, i) = G(g, i)
  OBVIOUS
<1> HIDE DEF n, G
<1>4. ASSUME NEW m \in Nat, NEW g, m # 0 => Rec(g, m - 1)
      PROVE  \E h : Rec(h, m)
  <2> DEFINE h == [i \in 0 .. m |-> IF i = m THEN G(g, m) ELSE g[i]]
  <2>1. \A i \in 0 .. m - 1 : g[i] = G(g, i)
    <3>1. CASE m # 0
      BY <1>4, <3>1
    <3>2. CASE m = 0
      BY <3>2
    <3>3. QED
      BY <3>1, <3>2
  <2>2. /\ DOMAIN h = 0 .. m /\ h = [i \in 0 .. m |-> h[i]]
        /\ h[m] = G(g, m) /\ \A i \in 0 .. m - 1 : h[i] = g[i]
    BY <1>4
  <2> HIDE DEF h
  <2>3. \A i \in 0 .. m : h[i] = G(h, i)
    <3>1. ASSUME NEW i \in 0 .. m
          PROVE  h[i] = G(h, i)
      <4>1. i \in Nat /\ (i # 0 => i - 1 \in 0 .. m - 1) /\ (i # m => i \in 0 .. m - 1)
        BY <1>4
      <4>2. G(h, i) = G(g, i)
        BY <1>3, <2>2, <4>1
      <4>3. QED
        BY <2>1, <2>2, <4>1, <4>2
    <3>2. QED
      BY <3>1
  <2>4. Rec(h, m)
    BY <2>2, <2>3
  <2> HIDE DEF Rec
  <2>5. QED
    BY <2>4
<1>5. Rec(after, n)
  <2> DEFINE B == {m \in Nat : \E h : Rec(h, m)}
  <2> HIDE DEF Rec
  <2>1. \A m \in 0 .. n : (m # 0 => m - 1 \in B) => m \in B
    BY <1>1, <1>4
  <2> HIDE DEF B
  <2>2. n \in 0 .. n
    BY <1>1
  <2>3. \A m \in 0 .. n : m \in B
    BY <1>1, <2>1, Upward
  <2>4. QED
    BY <2>2, <2>3 DEF B
<1>6. \A i \in 0 .. n : after[i] = G(after, i)
  BY <1>5
<1> HIDE DEF after, Rec
<1>7. after[0] = <<>>
  <2>1. 0 \in 0 .. n
    BY <1>1
  <2>2. QED
    BY <1>6, <2>1 DEF G
<1>8. \A i \in 1 .. n : after[i] = IF i \in places THEN Append(after[i - 1], msgs[i])
                                  ELSE after[i - 1]
  <2>1. \A i \in 1 .. n : i \in 0 .. n /\ i # 0
    BY <1>1
  <2>2. QED
    BY <1>6, <2>1 DEF G
<1>9. QED
  BY <1>2, <1>7, <1>8 DEF n, OnlySteps

(* h[j] is where the message j of o comes from; it takes all of P. *)
Picks(o, msgs, P, h) ==
  /\ \A j \in DOMAIN o : h[j] \in P /\ o[j] = msgs[h[j]]
  /\ \A j, k \in DOMAIN o : h[j] = h[k] => j = k
  /\ \A i \in P : \E j \in DOMAIN o : h[j] = i

LEMMA OnlyPicks ==
  ASSUME NEW S, NEW msgs \in Seq(S), NEW places
  PROVE  \E h : Picks(Only(msgs, places), msgs, DOMAIN msgs \cap places, h)
<1> PICK after : OnlySteps(msgs, places, after) /\ Only(msgs, places) = after[Len(msgs)]
  BY OnlyUnfolds
<1>1. PICK n \in Nat : n = Len(msgs) /\ DOMAIN msgs = 1 .. n
  OBVIOUS
<1> DEFINE Upto(i) == (1 .. i) \cap places
           B == {i \in Nat : after[i] \in Seq(S) /\ \E h : Picks(after[i], msgs, Upto(i), h)}
<1>2. 0 \in B
  <2>1. PICK o : o = after[0]
    OBVIOUS
  <2>2. o = <<>>
    BY <2>1 DEF OnlySteps
  <2>3. o \in Seq(S) /\ DOMAIN o = {} /\ Upto(0) = {}
    BY <2>2
  <2>4. \E h : Picks(o, msgs, Upto(0), h)
    BY <2>3 DEF Picks
  <2>5. QED
    BY <2>1, <2>3, <2>4
<1>3. ASSUME NEW i \in 1 .. n, i - 1 \in B
      PROVE  i \in B
  <2>1. PICK a \in Seq(S) : a = after[i - 1]
    BY <1>3
  <2>2. PICK h : Picks(a, msgs, Upto(i - 1), h)
    BY <1>3, <2>1
  <2>3. PICK o : o = after[i]
    OBVIOUS
  <2>4. o = IF i \in places THEN Append(a, msgs[i]) ELSE a
    BY <1>1, <2>1, <2>3 DEF OnlySteps
  <2>5. i \in Nat /\ msgs[i] \in S /\ \A j \in Upto(i - 1) : j # i
    BY <1>1
  <2>6. CASE i \notin places
    <3>1. Upto(i) = Upto(i - 1)
      BY <2>6
    <3>2. QED
      BY <2>2, <2>3, <2>4, <2>5, <2>6, <3>1
  <2>7. CASE i \in places
    <3>1. Upto(i) = Upto(i - 1) \cup {i}
      BY <2>7
    <3>2. PICK l \in Nat : l = Len(a) /\ DOMAIN a = 1 .. l
      OBVIOUS
    <3>3. /\ o \in Seq(S) /\ DOMAIN o = 1 .. l + 1 /\ o[l + 1] = msgs[i]
          /\ \A j \in 1 .. l : o[j] = a[j]
      BY <2>4, <2>5, <2>7, <3>2, AppendIs
    <3>4. PICK k : k = [j \in 1 .. l + 1 |-> IF j = l + 1 THEN i ELSE h[j]]
      OBVIOUS
    <3>5. k[l + 1] = i /\ \A j \in 1 .. l : k[j] = h[j]
      BY <3>4
    <3>6. \A j \in 1 .. l + 1 : j = l + 1 \/ j \in 1 .. l
      OBVIOUS
    <3>7. l + 1 \in 1 .. l + 1 /\ \A j \in 1 .. l : j \in 1 .. l + 1
      OBVIOUS
    <3> HIDE DEF Upto
    <3>8. /\ \A j \in 1 .. l : h[j] \in Upto(i - 1) /\ a[j] = msgs[h[j]]
          /\ \A j, m \in 1 .. l : h[j] = h[m] => j = m
          /\ \A m \in Upto(i - 1) : \E j \in 1 .. l : h[j] = m
      BY <2>2, <3>2 DEF Picks
    <3>9. \A j \in 1 .. l + 1 : k[j] \in Upto(i) /\ o[j] = msgs[k[j]]
      BY <3>1, <3>3, <3>5, <3>6, <3>8
    <3>10. \A j, m \in 1 .. l + 1 : k[j] = k[m] => j = m
      <4>1. ASSUME NEW j \in 1 .. l + 1, NEW m \in 1 .. l + 1, k[j] = k[m]
            PROVE  j = m
        <5>1. CASE j = l + 1 /\ m # l + 1
          BY <2>5, <3>5, <3>6, <3>8, <4>1, <5>1
        <5>2. CASE j # l + 1 /\ m = l + 1
          BY <2>5, <3>5, <3>6, <3>8, <4>1, <5>2
        <5>3. CASE j # l + 1 /\ m # l + 1
          BY <3>5, <3>6, <3>8, <4>1, <5>3
        <5>4. QED
          BY <5>1, <5>2, <5>3
      <4>2. QED
        BY <4>1
    <3>11. \A m \in Upto(i) : \E j \in 1 .. l + 1 : k[j] = m
      BY <3>1, <3>5, <3>7, <3>8
    <3>12. Picks(o, msgs, Upto(i), k)
      BY <3>3, <3>9, <3>10, <3>11 DEF Picks
    <3>13. QED
      BY <2>3, <2>5, <3>3, <3>12
  <2>8. QED
    BY <2>6, <2>7
<1> HIDE DEF B
<1>4. n \in B
  <2>1. ASSUME NEW i \in 0 .. n, i # 0 => i - 1 \in B
        PROVE  i \in B
    <3>1. CASE i = 0
      BY <1>2, <3>1
    <3>2. CASE i # 0
      <4>1. i \in 1 .. n /\ i - 1 \in B
        BY <2>1, <3>2
      <4>2. QED
        BY <1>3, <4>1
    <3>3. QED
      BY <3>1, <3>2
  <2>2. \A i \in 0 .. n : i \in B
    BY <2>1, Upward
  <2>3. QED
    BY <2>2
<1>5. Upto(n) = DOMAIN msgs \cap places
  BY <1>1
<1> HIDE DEF Upto
<1>6. QED
  BY <1>1, <1>4, <1>5 DEF B

-----------------------------------------------------------------------------
(* An item is read. *)

LEMMA PlaceSource ==
  ASSUME OutputInv, NEW x \in Places
  PROVE  At(x).source \in Sources
<1>1. PlaceFacts
  BY PlacesAre
<1>2. PICK w \in AllWorkers, i \in Nat :
        x = <<"part", w, i>> \/ x = <<"route", w, i>> \/ x = <<"out", w, i>>
  BY <1>1 DEF PlaceFacts
<1>3. CASE x = <<"part", w, i>>
  <2>1. PICK a \in Seq(AtPart) : a = toPart[w]
    BY DEF OutputInv, QueuesInv
  <2>2. i \in DOMAIN a /\ At(x) = a[i]
    BY <1>1, <1>3, <2>1 DEF PlaceFacts
  <2>3. At(x) \in AtPart
    BY <2>2
  <2>4. QED
    BY <2>3 DEF AtPart
<1>4. ASSUME NEW a \in Seq(AtRoute), i \in DOMAIN a, At(x) = a[i]
      PROVE  At(x).source \in Sources
  <2>1. At(x) \in AtRoute
    BY <1>4
  <2>2. QED
    BY <2>1 DEF AtRoute
<1>5. CASE x = <<"route", w, i>>
  <2>1. PICK a \in Seq(AtRoute) : a = toRoute[w]
    BY DEF OutputInv, QueuesInv
  <2>2. i \in DOMAIN a /\ At(x) = a[i]
    BY <1>1, <1>5, <2>1 DEF PlaceFacts
  <2>3. QED
    BY <1>4, <2>2
<1>6. CASE x = <<"out", w, i>>
  <2>1. PICK a \in Seq(AtRoute) : a = toOut[w]
    BY DEF OutputInv, QueuesInv
  <2>2. i \in DOMAIN a /\ At(x) = a[i]
    BY <1>1, <1>6, <2>1 DEF PlaceFacts
  <2>3. QED
    BY <1>4, <2>2
<1>7. QED
  BY <1>2, <1>3, <1>5, <1>6

LEMMA EmitFiles ==
  ASSUME FilesInv, OutputInv, NEW s \in Sources, Emit(s)
  PROVE  FilesInv'
<1>1. PICK e \in src[s] :
        /\ e <= point /\ ~ LessThan(SnapsFront, e)
        /\ IF e > Len(Script[s])
             THEN src' = [src EXCEPT ![s] = {}] /\ UNCHANGED toPart
             ELSE /\ src' = [src EXCEPT ![s] = {e + 1}]
                  /\ toPart' = [toPart EXCEPT ![s % Cardinality(ws)] =
                                  Append(@, [epoch |-> e, source |-> s])]
  BY DEF Emit
<1>2. /\ ws # {}
      /\ UNCHANGED <<ws, known, loading, toRoute, toOut, output, snapq, store>>
  BY DEF Emit, routing
<1>3. RowsInv /\ PlacesInv /\ FrontInv /\ UnderwayInv /\ LoadsInv /\ WrittenInv
  BY <1>2 DEF FilesInv
<1>4. point \in Nat \ {0} /\ point + 1 \in Nat
  BY PointIs
<1>5. PICK l \in Nat : l = Len(Script[s])
  BY OutputAssumption
<1>6. e = point /\ src[s] = {point}
  <2>1. src[s] = {point} \/ src[s] = {point + 1} \/ src[s] = {}
    BY <1>3 DEF FrontInv
  <2>2. src[s] # {point + 1}
    BY <1>1, <1>4
  <2>3. src[s] # {}
    BY <1>1
  <2>4. src[s] = {point}
    BY <2>1, <2>2, <2>3
  <2>5. QED
    BY <1>1, <2>4
<1>7. ~ Behindhand
  <2>1. ~ LessThan(SnapsFront, point)
    BY <1>1, <1>6
  <2>2. QED
    BY <1>3, <2>1, CaughtUp
<1>8. DOMAIN src = Sources /\ \A t \in Sources : t # s => src'[t] = src[t]
  BY <1>1 DEF OutputInv, QueuesInv
<1>9. src'[s] = IF point > l THEN {} ELSE {point + 1}
  BY <1>1, <1>5, <1>6, <1>8
<1>10. /\ ~ ReadIn(s)
       /\ ReadIn(s)' <=> point <= l
       /\ \A t \in Sources : t # s => (ReadIn(t)' <=> ReadIn(t))
  <2>1. ~ ReadIn(s)
    BY <1>6 DEF ReadIn
  <2>2. ReadIn(s)' <=> point <= l
    <3>1. src'[s] # {point}
      BY <1>4, <1>9
    <3>2. QED
      BY <1>2, <1>5, <3>1 DEF ReadIn, store
  <2>3. \A t \in Sources : t # s => (ReadIn(t)' <=> ReadIn(t))
    BY <1>2, <1>8 DEF ReadIn, store
  <2>4. QED
    BY <2>1, <2>2, <2>3
<1>11. \A p, t : Wrote(p, t)' <=> Wrote(p, t)
  BY <1>2, WroteSame DEF output, store
<1>12. RowsInv'
  BY <1>2, <1>3, RowsSame
<1>13. FrontInv'
  <2>1. ~ Behindhand'
    BY <1>2, <1>7 DEF Behindhand, loading, output, store
  <2>2. \A t \in Sources : \/ src'[t] \in {{point}, {point + 1}}
                           \/ src'[t] = {} /\ Len(Script[t]) < point
    <3>1. ASSUME NEW t \in Sources
          PROVE  \/ src'[t] \in {{point}, {point + 1}}
                 \/ src'[t] = {} /\ Len(Script[t]) < point
      <4>1. CASE t = s
        BY <1>4, <1>5, <1>9, <4>1
      <4>2. CASE t # s
        BY <1>3, <1>8, <4>2 DEF FrontInv
      <4>3. QED
        BY <4>1, <4>2
    <3>2. QED
      BY <3>1
  <2>3. \A w \in AllWorkers : ~ (w \in ws /\ cap[w] = {})
    <3>1. src[s] # {}
      BY <1>6
    <3>2. QED
      BY <1>3, <3>1 DEF FrontInv
  <2>4. \A w \in AllWorkers : ~ (w \in ws' /\ cap'[w] = {})
    BY <1>2, <2>3 DEF output
  <2>5. /\ \A m \in snapq' : m.epoch = point'
        /\ \A w \in AllWorkers :
             /\ \A d \in queue'[w] : d <= point' /\ \E c \in cap'[w] : c <= d
             /\ \A m \in loadsBuf'[w] : m.epoch \in queue'[w]
             /\ awoken'[w] # {} => point' \in queue'[w]
    BY <1>2, <1>3 DEF FrontInv, output, store
  <2>6. point' = point
    BY <1>2 DEF store
  <2>7. QED
    BY <2>1, <2>2, <2>4, <2>5, <2>6 DEF FrontInv
<1>14. LoadsInv'
  <2>1. \A p : Loading(p)' <=> Loading(p)
    BY <1>2 DEF Loading, LastRows, loading, output, store, Behind
  <2>2. \A p \in SinkParts : Belongs(p, point) # {} =>
          (\E w \in AllWorkers : p \in open[w]) \/ Loading(p)
    BY <1>3, <1>6 DEF LoadsInv
  <2>3. QED
    BY <1>2, <1>3, <2>1, <2>2 DEF LoadsInv, loading, output, store
<1>15. WrittenInv'
  BY <1>2, <1>3, WrittenSame DEF output, store
<1>16. CASE point > l
  <2>1. UNCHANGED toPart
    BY <1>1, <1>5, <1>6, <1>16
  <2>2. PlacesInv'
    BY <1>2, <1>3, <2>1 DEF PlacesInv, loading, output
  <2>3. Places' = Places /\ \A x : At(x)' = At(x)
    BY <1>2, <2>1 DEF Places, At, Under
  <2>4. ~ (point <= l)
    BY <1>4, <1>16
  <2>5. \A t \in Sources : ReadIn(t)' <=> ReadIn(t)
    BY <1>10, <2>4
  <2>6. point' = point
    BY <1>2 DEF store
  <2>7. \A x \in Places : ReadIn(At(x).source)'
    <3>1. ASSUME NEW x \in Places
          PROVE  ReadIn(At(x).source)'
      <4>1. PICK t \in Sources : t = At(x).source
        BY PlaceSource
      <4>2. ReadIn(t)
        BY <1>3, <4>1 DEF UnderwayInv
      <4>3. ReadIn(t)'
        BY <2>5, <4>2
      <4>4. QED
        BY <2>3, <4>1, <4>3 DEF ReadIn
    <3>2. QED
      BY <3>1
  <2>8. UnderwayInv'
    BY <1>3, <1>11, <2>3, <2>5, <2>6, <2>7 DEF UnderwayInv
  <2>9. QED
    BY <1>12, <1>13, <1>14, <1>15, <2>2, <2>8 DEF FilesInv
<1>17. CASE ~ (point > l)
  <2>1. PICK v : v = s % Cardinality(ws)
    OBVIOUS
  <2>2. v \in ws /\ v \in AllWorkers
    <3>1. PICK k \in 1 .. MaxWorkers : ws = 0 .. k - 1
      BY <1>2, <1>3 DEF PlacesInv
    <3>2. k \in Nat /\ k > 0 /\ k - 1 \in Int /\ 0 \in Int /\ ~ (0 > k - 1)
      OBVIOUS
    <3>3. Cardinality(ws) = k
      BY <3>1, <3>2, FS_Interval
    <3>4. s \in Nat
      BY OutputAssumption
    <3>5. v \in ws
      BY <2>1, <3>1, <3>2, <3>3, <3>4
    <3>6. QED
      BY <3>5 DEF OutputInv, RoutesInv
  <2>3. PICK m : m = [epoch |-> point, source |-> s]
    OBVIOUS
  <2>4. PICK a \in Seq(AtPart) : a = toPart[v]
    BY <2>2 DEF OutputInv, QueuesInv
  <2>5. PICK n \in Nat : n = Len(a) /\ DOMAIN a = 1 .. n
    OBVIOUS
  <2>6. toPart' = [toPart EXCEPT ![v] = Append(a, m)]
    BY <1>1, <1>5, <1>6, <1>17, <2>1, <2>3, <2>4
  <2>7. PICK b : b = Append(a, m)
    OBVIOUS
  <2>8. DOMAIN b = 1 .. n + 1 /\ b[n + 1] = m /\ \A i \in 1 .. n : b[i] = a[i]
    <3>1. PICK S : S = AtPart \cup {m}
      OBVIOUS
    <3>2. a \in Seq(S) /\ m \in S
      BY <3>1
    <3>3. QED
      BY <2>5, <2>7, <3>2, AppendIs
  <2>9. toPart'[v] = b /\ \A w \in AllWorkers : w # v => toPart'[w] = toPart[w]
    BY <2>2, <2>6, <2>7 DEF OutputInv, QueuesInv
  <2>10. PlacesInv'
    <3>1. \A w \in AllWorkers \ ws : toPart'[w] = <<>>
      BY <1>3, <2>2, <2>9 DEF PlacesInv
    <3>2. QED
      BY <1>2, <1>3, <3>1 DEF PlacesInv, loading, output
  <2>11. PICK y : y = <<"part", v, n + 1>>
    OBVIOUS
  <2>12. /\ y \in Places' /\ At(y)' = m
         /\ \A x \in Places' : x = y \/ (x \in Places /\ At(x)' = At(x))
         /\ \A x \in Places : x \in Places' /\ x # y /\ At(x)' = At(x)
    <3>1. PlaceFacts /\ PlaceFacts'
      BY PlacesAre
    <3>2. n + 1 \in Nat /\ n + 1 \in 1 .. n + 1
      OBVIOUS
    <3>3. y \in Places' /\ At(y)' = m
      BY <2>2, <2>8, <2>9, <2>11, <3>1, <3>2 DEF PlaceFacts
    <3>4. \A w \in AllWorkers : \A i \in Nat :
            i \in DOMAIN toPart'[w] <=> i \in DOMAIN toPart[w] \/ (w = v /\ i = n + 1)
      BY <2>4, <2>5, <2>8, <2>9
    <3>5. \A w \in AllWorkers : \A i \in DOMAIN toPart[w] : toPart'[w][i] = toPart[w][i]
      BY <2>4, <2>5, <2>8, <2>9
    <3>6. ASSUME NEW x \in Places'
          PROVE  x = y \/ (x \in Places /\ At(x)' = At(x))
      <4>1. PICK w \in AllWorkers, i \in Nat :
              x = <<"part", w, i>> \/ x = <<"route", w, i>> \/ x = <<"out", w, i>>
        BY <3>1 DEF PlaceFacts
      <4>2. CASE x = <<"part", w, i>>
        <5>1. i \in DOMAIN toPart[w] \/ (w = v /\ i = n + 1)
          BY <3>1, <3>4, <4>2 DEF PlaceFacts
        <5>2. CASE i \in DOMAIN toPart[w]
          <6>1. x \in Places
            BY <3>1, <4>2, <5>2 DEF PlaceFacts
          <6>2. At(x)' = toPart'[w][i] /\ At(x) = toPart[w][i]
            BY <4>2 DEF At, Under
          <6>3. QED
            BY <3>5, <5>2, <6>1, <6>2
        <5>3. CASE w = v /\ i = n + 1
          BY <2>11, <4>2, <5>3
        <5>4. QED
          BY <5>1, <5>2, <5>3
      <4>3. CASE x = <<"route", w, i>>
        BY <1>2, <3>1, <4>3 DEF PlaceFacts, At, Under
      <4>4. CASE x = <<"out", w, i>>
        BY <1>2, <3>1, <4>4 DEF PlaceFacts, At, Under
      <4>5. QED
        BY <4>1, <4>2, <4>3, <4>4
    <3>7. ASSUME NEW x \in Places
          PROVE  x \in Places' /\ x # y /\ At(x)' = At(x)
      <4>1. PICK w \in AllWorkers, i \in Nat :
              x = <<"part", w, i>> \/ x = <<"route", w, i>> \/ x = <<"out", w, i>>
        BY <3>1 DEF PlaceFacts
      <4>2. CASE x = <<"part", w, i>>
        <5>1. i \in DOMAIN toPart[w]
          BY <3>1, <4>2 DEF PlaceFacts
        <5>2. ~ (w = v /\ i = n + 1)
          BY <2>4, <2>5, <5>1
        <5>3. x \in Places'
          BY <3>1, <3>4, <4>2, <5>1 DEF PlaceFacts
        <5>4. At(x)' = toPart'[w][i] /\ At(x) = toPart[w][i]
          BY <4>2 DEF At, Under
        <5>5. x # y
          BY <2>11, <4>2, <5>2
        <5>6. QED
          BY <3>5, <5>1, <5>3, <5>4, <5>5
      <4>3. CASE x = <<"route", w, i>>
        BY <1>2, <2>11, <3>1, <4>3 DEF PlaceFacts, At, Under
      <4>4. CASE x = <<"out", w, i>>
        BY <1>2, <2>11, <3>1, <4>4 DEF PlaceFacts, At, Under
      <4>5. QED
        BY <4>1, <4>2, <4>3, <4>4
    <3>8. QED
      BY <3>3, <3>6, <3>7
  <2>13. point <= l
    BY <1>4, <1>17
  <2>14. m.epoch = point /\ m.source = s /\ y[1] = "part" /\ point' = point
    BY <1>2, <2>3, <2>11 DEF store
  <2>15. \A x \in Places : At(x).source # s
    BY <1>3, <1>10 DEF UnderwayInv
  <2>16. UnderwayInv'
    <3>1. ASSUME NEW x \in Places'
          PROVE  /\ At(x)'.epoch = point /\ ReadIn(At(x).source)'
                 /\ x[1] # "part" => At(x)'.part = FileOf(SinkParts, At(x)'.source, point)
      <4>1. CASE x = y
        <5>1. At(x)' = m
          BY <2>12, <4>1
        <5>2. ReadIn(s)'
          BY <1>10, <2>13
        <5>3. ReadIn(At(x).source)'
          BY <2>14, <5>1, <5>2 DEF ReadIn
        <5>4. QED
          BY <2>14, <4>1, <5>1, <5>3
      <4>2. CASE x \in Places /\ At(x)' = At(x)
        <5>1. /\ At(x).epoch = point /\ ReadIn(At(x).source) /\ At(x).source # s
              /\ x[1] # "part" => At(x).part = FileOf(SinkParts, At(x).source, point)
          BY <1>3, <2>15, <4>2 DEF UnderwayInv
        <5>2. PICK t \in Sources : t = At(x).source
          BY <4>2, PlaceSource
        <5>3. ReadIn(At(x).source)'
          <6>1. ReadIn(t)'
            BY <1>10, <5>1, <5>2
          <6>2. QED
            BY <4>2, <5>2, <6>1 DEF ReadIn
        <5>4. QED
          BY <4>2, <5>1, <5>3
      <4>3. QED
        BY <2>12, <4>1, <4>2
    <3>2. \A x, z \in Places' : At(x)'.source = At(z)'.source => x = z
      <4>1. ASSUME NEW x \in Places', NEW z \in Places', At(x)'.source = At(z)'.source
            PROVE  x = z
        <5>1. CASE x = y /\ z # y
          BY <2>12, <2>14, <2>15, <4>1, <5>1
        <5>2. CASE x # y /\ z = y
          BY <2>12, <2>14, <2>15, <4>1, <5>2
        <5>3. CASE x # y /\ z # y
          BY <1>3, <2>12, <4>1, <5>3 DEF UnderwayInv
        <5>4. QED
          BY <5>1, <5>2, <5>3
      <4>2. QED
        BY <4>1
    <3>3. ASSUME NEW t \in Sources, ReadIn(t)'
          PROVE  (\E x \in Places' : At(x)'.source = t) \/ (\E p \in SinkParts : Wrote(p, t)')
      <4>1. CASE t = s
        BY <2>12, <2>14, <4>1
      <4>2. CASE t # s
        <5>1. (\E x \in Places : At(x).source = t) \/ (\E p \in SinkParts : Wrote(p, t))
          BY <1>3, <1>10, <3>3, <4>2 DEF UnderwayInv
        <5>2. QED
          BY <1>11, <2>12, <5>1
      <4>3. QED
        BY <4>1, <4>2
    <3>4. ASSUME NEW t \in Sources, NEW p \in SinkParts, Wrote(p, t)'
          PROVE  ReadIn(t)' /\ \A x \in Places' : At(x)'.source # t
      <4>1. Wrote(p, t)
        BY <1>11, <3>4
      <4>2. ReadIn(t) /\ \A x \in Places : At(x).source # t
        BY <1>3, <4>1 DEF UnderwayInv
      <4>3. t # s
        BY <1>10, <4>2
      <4>4. QED
        BY <1>10, <2>12, <2>14, <4>2, <4>3
    <3>5. QED
      BY <2>14, <3>1, <3>2, <3>3, <3>4 DEF UnderwayInv
  <2>17. QED
    BY <1>12, <1>13, <1>14, <1>15, <2>10, <2>16 DEF FilesInv
<1>18. QED
  BY <1>16, <1>17

-----------------------------------------------------------------------------
(* The items move on. *)

LEMMA ConcatAt ==
  ASSUME NEW S, NEW a \in Seq(S), NEW b \in Seq(S), NEW c, c = a \o b
  PROVE  /\ c \in Seq(S) /\ DOMAIN c = 1 .. Len(a) + Len(b)
         /\ \A i \in 1 .. Len(a) : c[i] = a[i]
         /\ \A i \in 1 .. Len(b) : c[Len(a) + i] = b[i]
OBVIOUS

(* g[x] is the place where the item at x was. *)
LEMMA ItemsMove ==
  ASSUME UnderwayInv, OutputInv, UNCHANGED <<src, open, file, point>>, NEW g,
         \A x \in Places' : /\ g[x] \in Places
                            /\ At(x)'.source = At(g[x]).source /\ At(x)'.epoch = At(g[x]).epoch,
         \A x \in Places' : x[1] # "part" => At(x)'.part = FileOf(SinkParts, At(x)'.source, point),
         \A x, y \in Places' : g[x] = g[y] => x = y,
         \A y \in Places : \E x \in Places' : g[x] = y
  PROVE  UnderwayInv'
<1>1. \A p, s : Wrote(p, s)' <=> Wrote(p, s)
  BY WroteSame
<1>2. \A s : ReadIn(s)' <=> ReadIn(s)
  BY DEF ReadIn
<1>3. ASSUME NEW x \in Places'
      PROVE  At(x)'.epoch = point /\ ReadIn(At(x).source)'
  <2>1. At(g[x]).epoch = point /\ ReadIn(At(g[x]).source)
    BY DEF UnderwayInv
  <2>2. QED
    BY <2>1 DEF ReadIn
<1>4. \A x, y \in Places' : At(x)'.source = At(y)'.source => x = y
  BY DEF UnderwayInv
<1>5. ASSUME NEW s \in Sources, ReadIn(s)'
      PROVE  (\E x \in Places' : At(x)'.source = s) \/ (\E p \in SinkParts : Wrote(p, s)')
  <2>1. (\E y \in Places : At(y).source = s) \/ (\E p \in SinkParts : Wrote(p, s))
    BY <1>2, <1>5 DEF UnderwayInv
  <2>2. ASSUME NEW y \in Places, At(y).source = s
        PROVE  \E x \in Places' : At(x)'.source = s
    <3>1. PICK x \in Places' : g[x] = y
      OBVIOUS
    <3>2. At(x)'.source = At(y).source
      BY <3>1
    <3>3. QED
      BY <2>2, <3>2
  <2>3. QED
    BY <1>1, <2>1, <2>2
<1>6. ASSUME NEW s \in Sources, NEW p \in SinkParts, Wrote(p, s)'
      PROVE  ReadIn(s)' /\ \A x \in Places' : At(x)'.source # s
  <2>1. Wrote(p, s)
    BY <1>1, <1>6
  <2>2. ReadIn(s) /\ \A y \in Places : At(y).source # s
    BY <2>1 DEF UnderwayInv
  <2>3. QED
    BY <1>2, <2>2
<1>7. QED
  BY <1>3, <1>4, <1>5, <1>6 DEF UnderwayInv

LEMMA PartitionFiles ==
  ASSUME FilesInv, OutputInv, NEW w \in AllWorkers, Partition(w)
  PROVE  FilesInv'
<1>1. /\ w \in ws /\ known[w] # {}
      /\ UNCHANGED <<ws, known, loading, src, toOut, output, snapq, store>>
  BY DEF Partition, routing
<1>2. RowsInv /\ PlacesInv /\ FrontInv /\ UnderwayInv /\ LoadsInv /\ WrittenInv
  BY <1>1 DEF FilesInv
<1>3. known[w] = SinkParts
  BY <1>1, <1>2 DEF PlacesInv
<1>4. PICK a \in Seq(AtPart) : a = toPart[w]
  BY DEF OutputInv, QueuesInv
<1>5. PICK r \in Seq(AtRoute) : r = toRoute[w]
  BY DEF OutputInv, QueuesInv
<1>6. PICK n \in Nat : n = Len(a) /\ DOMAIN a = 1 .. n
  OBVIOUS
<1>7. PICK k \in Nat : k = Len(r) /\ DOMAIN r = 1 .. k
  OBVIOUS
<1>8. PICK new : new = [i \in DOMAIN a |->
                          [epoch |-> a[i].epoch, source |-> a[i].source,
                           part |-> FileOf(SinkParts, a[i].source, a[i].epoch)]]
  OBVIOUS
<1>9. /\ toRoute' = [toRoute EXCEPT ![w] = @ \o new]
      /\ toPart' = [toPart EXCEPT ![w] = <<>>]
  BY <1>3, <1>4, <1>8 DEF Partition
<1>10. PICK c : c = r \o new
  OBVIOUS
<1>11. /\ DOMAIN c = 1 .. k + n /\ \A i \in 1 .. k : c[i] = r[i]
       /\ \A i \in 1 .. n : c[k + i] = new[i]
  <2>1. new \in [1 .. n -> {new[i] : i \in 1 .. n}]
    BY <1>6, <1>8
  <2>2. PICK S : S = AtRoute \cup {new[i] : i \in 1 .. n}
    OBVIOUS
  <2>3. new \in [1 .. n -> S]
    BY <2>1, <2>2
  <2>4. new \in Seq(S) /\ Len(new) = n
    BY <2>3
  <2>5. r \in Seq(S)
    BY <2>2
  <2>6. PICK d : d = new
    OBVIOUS
  <2>7. d \in Seq(S) /\ c = r \o d
    BY <1>10, <2>4, <2>6
  <2>8. /\ DOMAIN c = 1 .. Len(r) + Len(d) /\ \A i \in 1 .. Len(r) : c[i] = r[i]
        /\ \A i \in 1 .. Len(d) : c[Len(r) + i] = d[i]
    BY <2>5, <2>7, ConcatAt
  <2>9. QED
    BY <1>7, <2>4, <2>6, <2>8
<1>12. /\ toRoute'[w] = c /\ toPart'[w] = <<>>
       /\ \A v \in AllWorkers : v # w => toRoute'[v] = toRoute[v] /\ toPart'[v] = toPart[v]
  BY <1>5, <1>9, <1>10 DEF OutputInv, QueuesInv
<1>13. PlacesInv'
  <2>1. \A v \in AllWorkers \ ws : toPart'[v] = <<>> /\ toRoute'[v] = <<>>
    BY <1>1, <1>2, <1>12 DEF PlacesInv
  <2>2. QED
    BY <1>1, <1>2, <2>1 DEF PlacesInv, loading, output
<1>14. PICK g : g = [x \in Places' |-> IF x[1] = "route" /\ x[2] = w /\ x[3] > k
                                         THEN <<"part", w, x[3] - k>> ELSE x]
  OBVIOUS
<1>15. PlaceFacts /\ PlaceFacts'
  BY PlacesAre
<1>16. \A i \in 1 .. n : /\ new[i].epoch = a[i].epoch /\ new[i].source = a[i].source
                         /\ new[i].part = FileOf(SinkParts, a[i].source, a[i].epoch)
                         /\ <<"part", w, i>> \in Places /\ At(<<"part", w, i>>) = a[i]
                         /\ a[i].epoch = point
  <2>1. ASSUME NEW i \in 1 .. n
        PROVE  /\ new[i].epoch = a[i].epoch /\ new[i].source = a[i].source
               /\ new[i].part = FileOf(SinkParts, a[i].source, a[i].epoch)
    BY <1>6, <1>8
  <2>2. ASSUME NEW i \in 1 .. n
        PROVE  <<"part", w, i>> \in Places /\ At(<<"part", w, i>>) = a[i]
    <3>1. i \in Nat /\ i \in DOMAIN toPart[w]
      BY <1>4, <1>6
    <3>2. QED
      BY <1>4, <1>15, <3>1 DEF PlaceFacts
  <2>3. ASSUME NEW i \in 1 .. n
        PROVE  a[i].epoch = point
    <3>1. PICK x \in Places : At(x) = a[i]
      BY <2>2
    <3>2. At(x).epoch = point
      BY <1>2 DEF UnderwayInv
    <3>3. QED
      BY <3>1, <3>2
  <2>4. QED
    BY <2>1, <2>2, <2>3
(* Each of the new places. *)
<1>17. ASSUME NEW x \in Places'
       PROVE  \/ /\ x \in Places /\ (x[1] # "part" \/ x[2] # w)
                 /\ g[x] = x /\ At(x)' = At(x)
              \/ \E i \in 1 .. n : /\ x = <<"route", w, k + i>> /\ g[x] = <<"part", w, i>>
                                   /\ At(x)' = new[i]
  <2>1. PICK v \in AllWorkers, i \in Nat :
          x = <<"part", v, i>> \/ x = <<"route", v, i>> \/ x = <<"out", v, i>>
    BY <1>15 DEF PlaceFacts
  <2>2. g[x] = IF x[1] = "route" /\ x[2] = w /\ x[3] > k THEN <<"part", w, x[3] - k>> ELSE x
    BY <1>14
  <2>3. CASE x = <<"part", v, i>>
    <3>1. i \in DOMAIN toPart'[v]
      BY <1>15, <2>3 DEF PlaceFacts
    <3>2. v # w
      BY <1>12, <3>1
    <3>3. x \in Places
      BY <1>12, <1>15, <2>3, <3>1, <3>2 DEF PlaceFacts
    <3>4. At(x)' = At(x)
      BY <1>12, <2>3, <3>2 DEF At, Under
    <3>5. QED
      BY <2>2, <2>3, <3>2, <3>3, <3>4
  <2>4. CASE x = <<"out", v, i>>
    <3>1. x \in Places
      BY <1>1, <1>15, <2>4 DEF PlaceFacts
    <3>2. At(x)' = At(x)
      BY <1>1, <2>4 DEF At, Under
    <3>3. QED
      BY <2>2, <2>4, <3>1, <3>2
  <2>5. CASE x = <<"route", v, i>>
    <3>1. i \in DOMAIN toRoute'[v]
      BY <1>15, <2>5 DEF PlaceFacts
    <3>2. CASE v # w
      <4>1. x \in Places
        BY <1>12, <1>15, <2>5, <3>1, <3>2 DEF PlaceFacts
      <4>2. At(x)' = At(x)
        BY <1>12, <2>5, <3>2 DEF At, Under
      <4>3. QED
        BY <2>2, <2>5, <3>2, <4>1, <4>2
    <3>3. CASE v = w /\ i <= k
      <4>1. i \in DOMAIN toRoute[w]
        BY <1>5, <1>7, <1>11, <1>12, <3>1, <3>3
      <4>2. x \in Places
        BY <1>15, <2>5, <3>3, <4>1 DEF PlaceFacts
      <4>3. At(x)' = toRoute'[w][i] /\ At(x) = toRoute[w][i]
        BY <2>5, <3>3 DEF At, Under
      <4>4. At(x)' = At(x)
        BY <1>5, <1>7, <1>11, <1>12, <4>1, <4>3
      <4>5. QED
        BY <2>2, <2>5, <3>3, <4>2, <4>4
    <3>4. CASE v = w /\ ~ (i <= k)
      <4>1. i \in 1 .. k + n /\ i > k
        BY <1>11, <1>12, <3>1, <3>4
      <4>2. PICK j \in 1 .. n : i = k + j /\ i - k = j
        BY <4>1
      <4>3. At(x)' = toRoute'[w][i]
        BY <2>5, <3>4 DEF At, Under
      <4>4. At(x)' = new[j]
        BY <1>11, <1>12, <4>2, <4>3
      <4>5. g[x] = <<"part", w, j>>
        BY <2>2, <2>5, <3>4, <4>1, <4>2
      <4>6. QED
        BY <2>5, <3>4, <4>2, <4>4, <4>5
    <3>5. QED
      BY <3>2, <3>3, <3>4
  <2>6. QED
    BY <2>1, <2>3, <2>4, <2>5
<1>18. \A x \in Places' : /\ g[x] \in Places
                          /\ At(x)'.source = At(g[x]).source /\ At(x)'.epoch = At(g[x]).epoch
  <2>1. ASSUME NEW x \in Places'
        PROVE  /\ g[x] \in Places
               /\ At(x)'.source = At(g[x]).source /\ At(x)'.epoch = At(g[x]).epoch
    <3>1. CASE x \in Places /\ g[x] = x /\ At(x)' = At(x)
      BY <3>1
    <3>2. CASE \E i \in 1 .. n : /\ x = <<"route", w, k + i>> /\ g[x] = <<"part", w, i>>
                                 /\ At(x)' = new[i]
      <4>1. PICK i \in 1 .. n : g[x] = <<"part", w, i>> /\ At(x)' = new[i]
        BY <3>2
      <4>2. At(g[x]) = a[i]
        BY <1>16, <4>1
      <4>3. QED
        BY <1>16, <4>1, <4>2
    <3>3. QED
      BY <1>17, <3>1, <3>2
  <2>2. QED
    BY <2>1
<1>19. \A x \in Places' : x[1] # "part" => At(x)'.part = FileOf(SinkParts, At(x)'.source, point)
  <2>1. ASSUME NEW x \in Places', x[1] # "part"
        PROVE  At(x)'.part = FileOf(SinkParts, At(x)'.source, point)
    <3>1. CASE x \in Places /\ At(x)' = At(x)
      <4>1. At(x).part = FileOf(SinkParts, At(x).source, point)
        BY <1>2, <2>1, <3>1 DEF UnderwayInv
      <4>2. QED
        BY <3>1, <4>1
    <3>2. CASE \E i \in 1 .. n : At(x)' = new[i]
      <4>1. PICK i \in 1 .. n : At(x)' = new[i]
        BY <3>2
      <4>2. new[i].part = FileOf(SinkParts, new[i].source, point)
        BY <1>16
      <4>3. QED
        BY <4>1, <4>2
    <3>3. QED
      BY <1>17, <3>1, <3>2
  <2>2. QED
    BY <2>1
<1>20. \A x, y \in Places' : g[x] = g[y] => x = y
  <2>1. ASSUME NEW x \in Places', NEW y \in Places', g[x] = g[y]
        PROVE  x = y
    <3> DEFINE Old(z) == (z[1] # "part" \/ z[2] # w) /\ g[z] = z
               New(z, i) == z = <<"route", w, k + i>> /\ g[z] = <<"part", w, i>>
    <3>1. Old(x) \/ \E i \in 1 .. n : New(x, i)
      BY <1>17
    <3>2. Old(y) \/ \E i \in 1 .. n : New(y, i)
      BY <1>17
    <3>3. CASE Old(x) /\ Old(y)
      BY <2>1, <3>3
    <3>4. ASSUME NEW i \in 1 .. n, NEW j \in 1 .. n, New(x, i), New(y, j)
          PROVE  x = y
      <4>1. i = j
        BY <2>1, <3>4
      <4>2. QED
        BY <3>4, <4>1
    <3>5. ASSUME NEW i \in 1 .. n, New(x, i), Old(y)
          PROVE  FALSE
      <4>1. y = <<"part", w, i>>
        BY <2>1, <3>5
      <4>2. QED
        BY <3>5, <4>1
    <3>6. ASSUME NEW i \in 1 .. n, New(y, i), Old(x)
          PROVE  FALSE
      <4>1. x = <<"part", w, i>>
        BY <2>1, <3>6
      <4>2. QED
        BY <3>6, <4>1
    <3> HIDE DEF Old, New
    <3>7. QED
      BY <3>1, <3>2, <3>3, <3>4, <3>5, <3>6
  <2>2. QED
    BY <2>1
<1>21. ASSUME NEW y \in Places
       PROVE  \E x \in Places' : g[x] = y
  <2>1. PICK v \in AllWorkers, i \in Nat :
          y = <<"part", v, i>> \/ y = <<"route", v, i>> \/ y = <<"out", v, i>>
    BY <1>15 DEF PlaceFacts
  <2>2. CASE y = <<"part", w, i>>
    <3>1. i \in 1 .. n
      BY <1>4, <1>6, <1>15, <2>2 DEF PlaceFacts
    <3>2. k + i \in Nat /\ k + i \in 1 .. k + n /\ k + i > k /\ (k + i) - k = i
      BY <3>1
    <3>3. PICK x : x = <<"route", w, k + i>>
      OBVIOUS
    <3>4. x \in Places'
      BY <1>11, <1>12, <1>15, <3>2, <3>3 DEF PlaceFacts
    <3>5. g[x] = <<"part", w, i>>
      BY <1>14, <3>2, <3>3, <3>4
    <3>6. QED
      BY <2>2, <3>4, <3>5
  <2>3. CASE y # <<"part", w, i>>
    <3>1. y \in Places'
      <4>1. CASE y = <<"part", v, i>>
        BY <1>12, <1>15, <2>3, <4>1 DEF PlaceFacts
      <4>2. CASE y = <<"out", v, i>>
        BY <1>1, <1>15, <4>2 DEF PlaceFacts
      <4>3. CASE y = <<"route", v, i>>
        <5>1. i \in DOMAIN toRoute[v]
          BY <1>15, <4>3 DEF PlaceFacts
        <5>2. i \in DOMAIN toRoute'[v]
          <6>1. CASE v = w
            BY <1>5, <1>7, <1>11, <1>12, <5>1, <6>1
          <6>2. CASE v # w
            BY <1>12, <5>1, <6>2
          <6>3. QED
            BY <6>1, <6>2
        <5>3. QED
          BY <1>15, <4>3, <5>2 DEF PlaceFacts
      <4>4. QED
        BY <2>1, <4>1, <4>2, <4>3
    <3>2. g[y] = y
      <4>1. ~ \E j \in 1 .. n : y = <<"route", w, k + j>>
        <5>1. ASSUME NEW j \in 1 .. n, y = <<"route", w, k + j>>
              PROVE  FALSE
          <6>1. k + j \in Nat /\ k + j \notin 1 .. k
            OBVIOUS
          <6>2. k + j \in DOMAIN toRoute[w]
            BY <1>15, <5>1, <6>1 DEF PlaceFacts
          <6>3. QED
            BY <1>5, <1>7, <6>1, <6>2
        <5>2. QED
          BY <5>1
      <4>2. QED
        BY <1>17, <3>1, <4>1
    <3>3. QED
      BY <3>1, <3>2
  <2>4. QED
    BY <2>2, <2>3
<1>22. UnderwayInv'
  <2>1. UNCHANGED <<src, open, file, point>>
    BY <1>1 DEF output, store
  <2>2. QED
    BY <1>2, <1>18, <1>19, <1>20, <1>21, <2>1, ItemsMove
<1>23. RowsInv'
  BY <1>1, <1>2, RowsSame
<1>24. FrontInv'
  BY <1>1, <1>2, FrontSame DEF store
<1>25. LoadsInv'
  BY <1>1, <1>2, LoadsSame DEF output, store
<1>26. WrittenInv'
  BY <1>1, <1>2, WrittenSame DEF output, store
<1>27. QED
  BY <1>13, <1>22, <1>23, <1>24, <1>25, <1>26 DEF FilesInv

(* The sequence c has b and then what h picks from a at the places Q. *)
Delivers(b, c, a, Q, h, l, m) ==
  /\ l = Len(b) /\ DOMAIN b = 1 .. l /\ DOMAIN c = 1 .. l + m
  /\ \A i \in 1 .. l : c[i] = b[i]
  /\ \A j \in 1 .. m : h[j] \in Q /\ c[l + j] = a[h[j]]
  /\ \A i, j \in 1 .. m : h[i] = h[j] => i = j
  /\ \A i \in Q : \E j \in 1 .. m : h[j] = i

LEMMA RouteFiles ==
  ASSUME FilesInv, OutputInv, NEW w \in AllWorkers, Route(w)
  PROVE  FilesInv'
<1>1. /\ w \in ws
      /\ UNCHANGED <<ws, known, loading, src, toPart, output, snapq, store>>
  BY DEF Route, routing
<1>2. RowsInv /\ PlacesInv /\ FrontInv /\ UnderwayInv /\ LoadsInv /\ WrittenInv
  BY <1>1 DEF FilesInv
<1>3. PICK a \in Seq(AtRoute) : a = toRoute[w]
  BY DEF OutputInv, QueuesInv
<1>4. PICK n \in Nat : n = Len(a) /\ DOMAIN a = 1 .. n
  OBVIOUS
<1>5. routes["self"][w] = primaries /\ primaries # <<>>
  BY DEF Route, OutputInv, RoutesInv, Routers
<1> DEFINE P(v) == {i \in DOMAIN a : primaries[a[i].part] = v}
<1>6. /\ toOut' = [v \in AllWorkers |-> toOut[v] \o Only(a, P(v))]
      /\ toRoute' = [toRoute EXCEPT ![w] = <<>>]
  BY <1>3, <1>5 DEF Route
<1>7. \A i \in 1 .. n : primaries[a[i].part] \in ws /\ primaries[a[i].part] \in AllWorkers
  <2>1. ASSUME NEW i \in 1 .. n
        PROVE  primaries[a[i].part] \in ws /\ primaries[a[i].part] \in AllWorkers
    <3>1. a[i] \in AtRoute
      BY <1>4
    <3>2. a[i].part \in SinkParts
      BY <3>1 DEF AtRoute
    <3>3. QED
      BY <1>2, <1>5, <3>2, PrimaryIs
  <2>2. QED
    BY <2>1
<1>8. /\ \A v \in AllWorkers : P(v) \subseteq 1 .. n
      /\ \A i \in 1 .. n : \E v \in AllWorkers : i \in P(v)
      /\ \A u, v : \A i : i \in P(u) /\ i \in P(v) => u = v
      /\ \A v : v \notin ws => P(v) = {}
  BY <1>4, <1>7
<1> HIDE DEF P
<1> DEFINE From(v) == CHOOSE h : Picks(Only(a, P(v)), a, P(v), h)
<1>9. ASSUME NEW v \in AllWorkers
      PROVE  Picks(Only(a, P(v)), a, P(v), From(v))
  <2>1. PICK Q : Q = P(v)
    OBVIOUS
  <2>2. DOMAIN a \cap Q = Q
    BY <1>4, <1>8, <2>1
  <2>3. \E h : Picks(Only(a, Q), a, DOMAIN a \cap Q, h)
    BY OnlyPicks
  <2>4. \E h : Picks(Only(a, Q), a, Q, h)
    BY <2>2, <2>3
  <2>5. Picks(Only(a, Q), a, Q, CHOOSE h : Picks(Only(a, Q), a, Q, h))
    BY <2>4
  <2>6. QED
    BY <2>1, <2>5
<1>10. PICK from : from = [v \in AllWorkers |-> From(v)]
  OBVIOUS
<1>11. ASSUME NEW v \in AllWorkers
       PROVE  \E l, m \in Nat : Delivers(toOut[v], toOut'[v], a, P(v), from[v], l, m)
  <2>1. PICK b \in Seq(AtRoute) : b = toOut[v]
    BY DEF OutputInv, QueuesInv
  <2>2. PICK o \in Seq(AtRoute) : o = Only(a, P(v))
    BY OnlyIs
  <2>3. PICK h : h = from[v]
    OBVIOUS
  <2>4. Picks(o, a, P(v), h)
    BY <1>9, <1>10, <2>2, <2>3
  <2>5. PICK c : c = b \o o
    OBVIOUS
  <2>6. c = toOut'[v]
    BY <1>6, <2>1, <2>2, <2>5
  <2>7. PICK l \in Nat : l = Len(b) /\ DOMAIN b = 1 .. l
    OBVIOUS
  <2>8. PICK m \in Nat : m = Len(o) /\ DOMAIN o = 1 .. m
    OBVIOUS
  <2>9. /\ DOMAIN c = 1 .. l + m /\ \A i \in 1 .. l : c[i] = b[i]
        /\ \A j \in 1 .. m : c[l + j] = o[j]
    BY <2>5, <2>7, <2>8, ConcatAt
  <2>10. /\ \A j \in 1 .. m : h[j] \in P(v) /\ o[j] = a[h[j]]
         /\ \A i, j \in 1 .. m : h[i] = h[j] => i = j
         /\ \A i \in P(v) : \E j \in 1 .. m : h[j] = i
    BY <2>4, <2>8 DEF Picks
  <2>11. \A j \in 1 .. m : h[j] \in P(v) /\ c[l + j] = a[h[j]]
    BY <2>9, <2>10
  <2>12. PICK Q : Q = P(v)
    OBVIOUS
  <2>13. Delivers(b, c, a, Q, h, l, m)
    BY <2>7, <2>9, <2>10, <2>11, <2>12 DEF Delivers
  <2>14. QED
    BY <2>1, <2>3, <2>6, <2>12, <2>13
<1> HIDE DEF From
<1>12. toRoute'[w] = <<>> /\ \A v \in AllWorkers : v # w => toRoute'[v] = toRoute[v]
  BY <1>6 DEF OutputInv, QueuesInv
<1>13. PlacesInv'
  <2>1. ASSUME NEW v \in AllWorkers, v \notin ws
        PROVE  toOut'[v] = <<>> /\ toRoute'[v] = <<>>
    <3>1. toOut[v] = <<>> /\ toRoute[v] = <<>>
      BY <1>2, <2>1 DEF PlacesInv
    <3>2. P(v) = {}
      BY <1>8, <2>1
    <3>3. Only(a, {}) = <<>>
      BY OnlyNone
    <3>4. toOut'[v] = <<>> \o <<>>
      BY <1>6, <3>1, <3>2, <3>3
    <3>5. <<>> \o <<>> = <<>>
      OBVIOUS
    <3>6. QED
      BY <1>1, <1>12, <2>1, <3>1, <3>4, <3>5
  <2>2. QED
    BY <1>1, <1>2, <2>1 DEF PlacesInv, loading, output
<1>14. PICK g : g = [x \in Places' |-> IF x[1] = "out" /\ x[3] > Len(toOut[x[2]])
                                         THEN <<"route", w, from[x[2]][x[3] - Len(toOut[x[2]])]>>
                                         ELSE x]
  OBVIOUS
<1>15. PlaceFacts /\ PlaceFacts'
  BY PlacesAre
<1>16. \A i \in 1 .. n : i \in Nat /\ <<"route", w, i>> \in Places /\ At(<<"route", w, i>>) = a[i]
  <2>1. ASSUME NEW i \in 1 .. n
        PROVE  i \in Nat /\ <<"route", w, i>> \in Places /\ At(<<"route", w, i>>) = a[i]
    <3>1. i \in Nat /\ i \in DOMAIN toRoute[w]
      BY <1>3, <1>4
    <3>2. QED
      BY <1>3, <1>15, <3>1 DEF PlaceFacts
  <2>2. QED
    BY <2>1
<1> DEFINE Old(x) == x \in Places /\ (x[1] # "route" \/ x[2] # w) /\ g[x] = x /\ At(x)' = At(x)
           New(x, v, i) == /\ x[1] = "out" /\ x[2] = v /\ i \in P(v)
                           /\ g[x] = <<"route", w, i>> /\ At(x)' = a[i]
(* Each of the new places. *)
<1>17. ASSUME NEW x \in Places'
       PROVE  Old(x) \/ \E v \in AllWorkers : \E i \in 1 .. n : New(x, v, i)
  <2>1. PICK v \in AllWorkers, i \in Nat :
          x = <<"part", v, i>> \/ x = <<"route", v, i>> \/ x = <<"out", v, i>>
    BY <1>15 DEF PlaceFacts
  <2>2. g[x] = IF x[1] = "out" /\ x[3] > Len(toOut[x[2]])
                 THEN <<"route", w, from[x[2]][x[3] - Len(toOut[x[2]])]>> ELSE x
    BY <1>14
  <2>3. CASE x = <<"part", v, i>>
    <3>1. x \in Places
      BY <1>1, <1>15, <2>3 DEF PlaceFacts
    <3>2. At(x)' = At(x)
      BY <1>1, <2>3 DEF At, Under
    <3>3. QED
      BY <2>2, <2>3, <3>1, <3>2
  <2>4. CASE x = <<"route", v, i>>
    <3>1. i \in DOMAIN toRoute'[v]
      BY <1>15, <2>4 DEF PlaceFacts
    <3>2. v # w
      BY <1>12, <3>1
    <3>3. x \in Places
      BY <1>12, <1>15, <2>4, <3>1, <3>2 DEF PlaceFacts
    <3>4. At(x)' = At(x)
      BY <1>12, <2>4, <3>2 DEF At, Under
    <3>5. QED
      BY <2>2, <2>4, <3>2, <3>3, <3>4
  <2>5. CASE x = <<"out", v, i>>
    <3>1. i \in DOMAIN toOut'[v] /\ At(x)' = toOut'[v][i]
      <4>1. i \in DOMAIN toOut'[v]
        BY <1>15, <2>5 DEF PlaceFacts
      <4>2. At(x)' = toOut'[v][i]
        BY <2>5 DEF At, Under
      <4>3. QED
        BY <4>1, <4>2
    <3>2. PICK l \in Nat, m \in Nat : Delivers(toOut[v], toOut'[v], a, P(v), from[v], l, m)
      BY <1>11
    <3>3. /\ l = Len(toOut[v]) /\ DOMAIN toOut[v] = 1 .. l
          /\ DOMAIN toOut'[v] = 1 .. l + m
          /\ \A k \in 1 .. l : toOut'[v][k] = toOut[v][k]
          /\ \A j \in 1 .. m : from[v][j] \in P(v) /\ toOut'[v][l + j] = a[from[v][j]]
      BY <3>2 DEF Delivers
    <3>4. CASE i <= l
      <4>1. i \in 1 .. l
        BY <3>1, <3>3, <3>4
      <4>2. x \in Places
        BY <1>15, <2>5, <3>3, <4>1 DEF PlaceFacts
      <4>3. At(x) = toOut[v][i]
        BY <2>5 DEF At, Under
      <4>4. At(x)' = At(x)
        BY <3>1, <3>3, <4>1, <4>3
      <4>5. g[x] = x
        BY <2>2, <2>5, <3>3, <3>4
      <4>6. QED
        BY <2>5, <4>2, <4>4, <4>5
    <3>5. CASE ~ (i <= l)
      <4>1. i \in 1 .. l + m /\ i > l
        BY <3>1, <3>3, <3>5
      <4>2. PICK j \in 1 .. m : i = l + j /\ i - l = j
        BY <4>1
      <4>3. PICK k \in P(v) : k = from[v][j]
        BY <3>3
      <4>4. k \in 1 .. n
        BY <1>8
      <4>5. At(x)' = a[k]
        BY <3>1, <3>3, <4>2, <4>3
      <4>6. g[x] = <<"route", w, k>>
        BY <2>2, <2>5, <3>3, <4>1, <4>2, <4>3
      <4>7. New(x, v, k)
        BY <2>5, <4>5, <4>6
      <4>8. QED
        BY <4>4, <4>7
    <3>6. QED
      BY <3>4, <3>5
  <2>6. QED
    BY <2>1, <2>3, <2>4, <2>5
<1>18. \A x \in Places' : /\ g[x] \in Places
                          /\ At(x)'.source = At(g[x]).source /\ At(x)'.epoch = At(g[x]).epoch
  <2>1. ASSUME NEW x \in Places'
        PROVE  /\ g[x] \in Places
               /\ At(x)'.source = At(g[x]).source /\ At(x)'.epoch = At(g[x]).epoch
    <3>1. CASE Old(x)
      BY <3>1
    <3>2. CASE \E v \in AllWorkers : \E i \in 1 .. n : New(x, v, i)
      <4>1. PICK i \in 1 .. n : g[x] = <<"route", w, i>> /\ At(x)' = a[i]
        BY <3>2
      <4>2. At(g[x]) = a[i]
        BY <1>16, <4>1
      <4>3. QED
        BY <1>16, <4>1, <4>2
    <3>3. QED
      BY <1>17, <3>1, <3>2
  <2>2. QED
    BY <2>1
<1>19. \A x \in Places' : x[1] # "part" => At(x)'.part = FileOf(SinkParts, At(x)'.source, point)
  <2>1. ASSUME NEW x \in Places', x[1] # "part"
        PROVE  At(x)'.part = FileOf(SinkParts, At(x)'.source, point)
    <3>1. CASE Old(x)
      <4>1. At(x).part = FileOf(SinkParts, At(x).source, point)
        BY <1>2, <2>1, <3>1 DEF UnderwayInv
      <4>2. QED
        BY <3>1, <4>1
    <3>2. CASE \E v \in AllWorkers : \E i \in 1 .. n : New(x, v, i)
      <4>1. PICK i \in 1 .. n : At(x)' = a[i]
        BY <3>2
      <4>2. PICK y \in Places : y = <<"route", w, i>> /\ At(y) = a[i]
        BY <1>16
      <4>3. At(y).part = FileOf(SinkParts, At(y).source, point)
        BY <1>2, <4>2 DEF UnderwayInv
      <4>4. QED
        BY <4>1, <4>2, <4>3
    <3>3. QED
      BY <1>17, <3>1, <3>2
  <2>2. QED
    BY <2>1
<1>20. ASSUME NEW x \in Places', NEW y \in Places', g[x] = g[y]
       PROVE  x = y
  <2>1. CASE Old(x) /\ Old(y)
    BY <1>20, <2>1
  <2>2. ASSUME NEW i \in 1 .. n, g[x] = <<"route", w, i>>, Old(y)
        PROVE  FALSE
    <3>1. y = <<"route", w, i>>
      BY <1>20, <2>2
    <3>2. QED
      BY <2>2, <3>1
  <2>3. ASSUME NEW i \in 1 .. n, g[y] = <<"route", w, i>>, Old(x)
        PROVE  FALSE
    <3>1. x = <<"route", w, i>>
      BY <1>20, <2>3
    <3>2. QED
      BY <2>3, <3>1
  <2>4. ASSUME NEW u \in AllWorkers, NEW v \in AllWorkers, NEW i \in 1 .. n, NEW j \in 1 .. n,
               New(x, u, i), New(y, v, j), ~ Old(x), ~ Old(y)
        PROVE  x = y
    <3>1. <<"route", w, i>> = <<"route", w, j>>
      <4>1. g[x] = <<"route", w, i>>
        BY <2>4
      <4>2. g[y] = <<"route", w, j>>
        BY <2>4
      <4> HIDE DEF New, Old
      <4>3. QED
        BY <1>20, <4>1, <4>2
    <3>2. i = j
      BY <3>1
    <3>3. u = v
      BY <1>8, <2>4, <3>2
    <3>4. PICK c \in Nat, d \in Nat : x = <<"out", v, c>> /\ y = <<"out", v, d>>
      BY <1>15, <2>4, <3>3 DEF PlaceFacts
    <3>5. PICK l \in Nat, m \in Nat : Delivers(toOut[v], toOut'[v], a, P(v), from[v], l, m)
      BY <1>11
    <3>6. /\ l = Len(toOut[v]) /\ DOMAIN toOut[v] = 1 .. l
          /\ DOMAIN toOut'[v] = 1 .. l + m
          /\ \A k, q \in 1 .. m : from[v][k] = from[v][q] => k = q
      BY <3>5 DEF Delivers
    <3>7. c \in 1 .. l + m /\ d \in 1 .. l + m
      BY <1>15, <3>4, <3>6 DEF PlaceFacts
    <3>8. g[x] = (IF c > l THEN <<"route", w, from[v][c - l]>> ELSE x)
      BY <1>14, <3>4, <3>6
    <3>9. g[y] = (IF d > l THEN <<"route", w, from[v][d - l]>> ELSE y)
      BY <1>14, <3>4, <3>6
    <3>10. c > l /\ from[v][c - l] = i
      BY <2>4, <3>4, <3>8
    <3>11. d > l /\ from[v][d - l] = i
      BY <2>4, <3>2, <3>4, <3>9
    <3>12. c - l \in 1 .. m /\ d - l \in 1 .. m
      BY <3>7, <3>10, <3>11
    <3>13. c - l = d - l
      BY <3>6, <3>10, <3>11, <3>12
    <3>14. c = d
      BY <3>13
    <3>15. QED
      BY <3>4, <3>14
  <2>5. Old(x) \/ \E v \in AllWorkers : \E i \in 1 .. n : New(x, v, i) /\ g[x] = <<"route", w, i>>
    BY <1>17
  <2>6. Old(y) \/ \E v \in AllWorkers : \E i \in 1 .. n : New(y, v, i) /\ g[y] = <<"route", w, i>>
    BY <1>17
  <2> HIDE DEF Old, New
  <2>7. QED
    BY <2>1, <2>2, <2>3, <2>4, <2>5, <2>6
<1>21. ASSUME NEW y \in Places
       PROVE  \E x \in Places' : g[x] = y
  <2>1. PICK v \in AllWorkers, i \in Nat :
          y = <<"part", v, i>> \/ y = <<"route", v, i>> \/ y = <<"out", v, i>>
    BY <1>15 DEF PlaceFacts
  <2>2. CASE y = <<"route", w, i>>
    <3>1. i \in 1 .. n
      BY <1>3, <1>4, <1>15, <2>2 DEF PlaceFacts
    <3>2. PICK u \in AllWorkers : i \in P(u)
      BY <1>8, <3>1
    <3>3. PICK l \in Nat, m \in Nat : Delivers(toOut[u], toOut'[u], a, P(u), from[u], l, m)
      BY <1>11
    <3>4. /\ l = Len(toOut[u]) /\ DOMAIN toOut[u] = 1 .. l
          /\ DOMAIN toOut'[u] = 1 .. l + m
          /\ \A k \in P(u) : \E j \in 1 .. m : from[u][j] = k
      BY <3>3 DEF Delivers
    <3>5. PICK j \in 1 .. m : from[u][j] = i
      BY <3>2, <3>4
    <3>6. l + j \in Nat /\ l + j \in 1 .. l + m /\ l + j > l /\ (l + j) - l = j
      OBVIOUS
    <3>7. PICK x : x = <<"out", u, l + j>>
      OBVIOUS
    <3>8. x \in Places'
      BY <1>15, <3>4, <3>6, <3>7 DEF PlaceFacts
    <3>9. g[x] = <<"route", w, i>>
      BY <1>14, <3>4, <3>5, <3>6, <3>7, <3>8
    <3>10. QED
      BY <2>2, <3>8, <3>9
  <2>3. CASE y # <<"route", w, i>>
    <3>1. CASE y = <<"part", v, i>>
      <4>1. y \in Places'
        BY <1>1, <1>15, <3>1 DEF PlaceFacts
      <4>2. g[y] = y
        BY <1>14, <3>1, <4>1
      <4>3. QED
        BY <4>1, <4>2
    <3>2. CASE y = <<"route", v, i>>
      <4>1. v # w
        BY <2>3, <3>2
      <4>2. y \in Places'
        BY <1>12, <1>15, <3>2, <4>1 DEF PlaceFacts
      <4>3. g[y] = y
        BY <1>14, <3>2, <4>2
      <4>4. QED
        BY <4>2, <4>3
    <3>3. CASE y = <<"out", v, i>>
      <4>1. PICK l \in Nat, m \in Nat : Delivers(toOut[v], toOut'[v], a, P(v), from[v], l, m)
        BY <1>11
      <4>2. l = Len(toOut[v]) /\ DOMAIN toOut[v] = 1 .. l /\ DOMAIN toOut'[v] = 1 .. l + m
        BY <4>1 DEF Delivers
      <4>3. i \in 1 .. l
        BY <1>15, <3>3, <4>2 DEF PlaceFacts
      <4>4. i \in 1 .. l /\ i \in 1 .. l + m /\ ~ (i > l)
        BY <4>3
      <4>5. y \in Places'
        BY <1>15, <3>3, <4>2, <4>4 DEF PlaceFacts
      <4>6. g[y] = y
        BY <1>14, <3>3, <4>2, <4>4, <4>5
      <4>7. QED
        BY <4>5, <4>6
    <3>4. QED
      BY <2>1, <3>1, <3>2, <3>3
  <2>4. QED
    BY <2>2, <2>3
<1>22. UnderwayInv'
  <2>1. UNCHANGED <<src, open, file, point>>
    BY <1>1 DEF output, store
  <2>2. \A x, y \in Places' : g[x] = g[y] => x = y
    BY <1>20
  <2>3. QED
    BY <1>2, <1>18, <1>19, <1>21, <2>1, <2>2, ItemsMove
<1>23. RowsInv'
  BY <1>1, <1>2, RowsSame
<1>24. FrontInv'
  BY <1>1, <1>2, FrontSame DEF store
<1>25. LoadsInv'
  BY <1>1, <1>2, LoadsSame DEF output, store
<1>26. WrittenInv'
  BY <1>1, <1>2, WrittenSame DEF output, store
<1>27. QED
  BY <1>13, <1>22, <1>23, <1>24, <1>25, <1>26 DEF FilesInv

-----------------------------------------------------------------------------
(* The output is activated. *)

(* What the output on w may see, and what it goes from and to. *)
Seen(w, view) ==
  \/ view = {} /\ OutIn = {}
  \/ \E f \in Nat : view = {f} /\ (\A g \in OutIn : f <= g) /\ \E c \in cap[w] : c <= f
From(w, st) ==
  /\ DOMAIN st = Fields /\ st.inbuf = toOut[w] /\ st.loads = loadsBuf[w] \cup loadsOut[w]
  /\ st.queue \subseteq Epoch /\ queue[w] \subseteq st.queue
  /\ \A e \in st.queue : \/ e \in queue[w]
                         \/ \E i \in DOMAIN toOut[w] : e = toOut[w][i].epoch
                         \/ \E m \in loadsOut[w] : e = m.epoch
  /\ \A i \in DOMAIN toOut[w] : toOut[w][i].epoch \in st.queue
  /\ \A m \in loadsOut[w] : m.epoch \in st.queue
  /\ st.open = open[w] /\ st.awoken = awoken[w] /\ st.file = file /\ st.snaps = snapq
To(w, view, r) ==
  /\ inbuf'[w] = r.inbuf /\ loadsBuf'[w] = r.loads /\ queue'[w] = r.queue /\ open'[w] = r.open
  /\ awoken'[w] = r.awoken /\ file' = r.file /\ snapq' = r.snaps
  /\ cap'[w] = view /\ toOut'[w] = <<>> /\ loadsOut'[w] = {}
  /\ \A v \in AllWorkers \ {w} :
       /\ inbuf'[v] = inbuf[v] /\ loadsBuf'[v] = loadsBuf[v] /\ queue'[v] = queue[v]
       /\ open'[v] = open[v] /\ awoken'[v] = awoken[v] /\ cap'[v] = cap[v]
       /\ toOut'[v] = toOut[v] /\ loadsOut'[v] = loadsOut[v]
       /\ \A p \in open[v] : p \notin r.open
  /\ UNCHANGED <<ws, known, loading, src, toPart, toRoute, rows, point>>

LEMMA SeenIs ==
  ASSUME OutputInv, NEW w \in AllWorkers, cap[w] # {}, NEW view \in Views(w)
  PROVE  Seen(w, view)
<1>1. cap[w] \in Options(Epoch) /\ cap[w] \subseteq Nat
  <2>1. cap[w] \in Options(Epoch)
    BY DEF OutputInv, QueuesInv
  <2>2. QED
    BY <2>1, EpochIs DEF Options
<1>2. CASE OutIn = {}
  <2>1. view = cap[w] \/ view = {}
    BY <1>2 DEF Views
  <2>2. CASE view = cap[w]
    <3>1. PICK c \in cap[w] : cap[w] = {c}
      BY <1>1 DEF Options
    <3>2. c \in Nat /\ c <= c
      BY <1>1
    <3>3. QED
      BY <1>2, <2>2, <3>1, <3>2 DEF Seen
  <2>3. QED
    BY <1>2, <2>1, <2>2 DEF Seen
<1>3. CASE OutIn # {}
  <2>1. OutIn \in SUBSET Nat
    BY FrontIs, EpochIs
  <2>2. PICK l : l = CHOOSE e \in Simplify(OutIn) : TRUE
    OBVIOUS
  <2>3. l \in Simplify(OutIn)
    BY <1>3, <2>1, <2>2, LeastIs
  <2>4. l \in Nat /\ \A g \in OutIn : l <= g
    BY <1>3, <2>1, <2>3, LeastIs
  <2>5. PICK f \in 0 .. l : view = {f} /\ ~ IsClosed(cap[w], f)
    BY <1>3, <2>2 DEF Views
  <2>6. PICK c \in cap[w] : ~ (f < c)
    BY <2>5 DEF IsClosed
  <2>7. f \in Nat /\ c <= f
    BY <1>1, <2>4, <2>5, <2>6
  <2>8. \A g \in OutIn : f <= g
    BY <2>1, <2>4, <2>5
  <2>9. QED
    BY <2>5, <2>7, <2>8 DEF Seen
<1>4. QED
  BY <1>2, <1>3

LEMMA OutputIs ==
  ASSUME FilesInv, OutputInv, OutputInv', NEW w \in AllWorkers, Output(w)
  PROVE  \E view, st, r : /\ w \in ws /\ Seen(w, view) /\ From(w, st) /\ To(w, view, r)
                          /\ r = ForEach(st, view)
                          /\ toOut[w] # <<>> \/ loadsOut[w] # {} \/ view # cap[w]
<1> DEFINE in == [inbuf |-> inbuf[w] \o toOut[w], loads |-> loadsBuf[w] \cup loadsOut[w],
                  queue |-> queue[w] \cup Epochs(Range(toOut[w]) \cup loadsOut[w]),
                  open |-> open[w], awoken |-> awoken[w], file |-> file, snaps |-> snapq]
<1>1. PICK view \in Views(w) :
        /\ toOut[w] # <<>> \/ loadsOut[w] # {} \/ view # cap[w]
        /\ \E st \in {ForEach(in, view)} :
             /\ inbuf' = [inbuf EXCEPT ![w] = st.inbuf]
             /\ loadsBuf' = [loadsBuf EXCEPT ![w] = st.loads]
             /\ queue' = [queue EXCEPT ![w] = st.queue]
             /\ open' = [open EXCEPT ![w] = st.open]
             /\ awoken' = [awoken EXCEPT ![w] = st.awoken]
             /\ file' = st.file
             /\ snapq' = st.snaps
        /\ cap' = [cap EXCEPT ![w] = view]
  BY DEF Output
<1>2. /\ w \in ws /\ cap[w] # {}
      /\ toOut' = [toOut EXCEPT ![w] = <<>>] /\ loadsOut' = [loadsOut EXCEPT ![w] = {}]
      /\ UNCHANGED <<ws, known, loading, src, toPart, toRoute, rows, point>>
  BY DEF Output, routing
<1>3. PICK st : st = in
  OBVIOUS
<1>4. PICK r : r = ForEach(st, view)
  OBVIOUS
<1>5. /\ inbuf' = [inbuf EXCEPT ![w] = r.inbuf] /\ loadsBuf' = [loadsBuf EXCEPT ![w] = r.loads]
      /\ queue' = [queue EXCEPT ![w] = r.queue] /\ open' = [open EXCEPT ![w] = r.open]
      /\ awoken' = [awoken EXCEPT ![w] = r.awoken] /\ file' = r.file /\ snapq' = r.snaps
      /\ cap' = [cap EXCEPT ![w] = view]
  BY <1>1, <1>3, <1>4
<1>6. /\ DOMAIN st = Fields
      /\ st.inbuf = inbuf[w] \o toOut[w] /\ st.loads = loadsBuf[w] \cup loadsOut[w]
      /\ st.queue = queue[w] \cup Epochs(Range(toOut[w]) \cup loadsOut[w])
      /\ st.open = open[w] /\ st.awoken = awoken[w] /\ st.file = file /\ st.snaps = snapq
  BY <1>3 DEF Fields
<1> HIDE DEF in
<1>7. Seen(w, view)
  BY <1>2, SeenIs
<1>8. From(w, st)
  <2>1. inbuf[w] = <<>>
    BY DEF FilesInv, PlacesInv
  <2>2. PICK b \in Seq(AtRoute) : b = toOut[w]
    BY DEF OutputInv, QueuesInv
  <2>3. <<>> \o b = b
    OBVIOUS
  <2>4. st.inbuf = toOut[w]
    BY <1>6, <2>1, <2>2, <2>3
  <2>5. \A i \in DOMAIN toOut[w] : toOut[w][i] \in Range(toOut[w])
    BY DEF Range
  <2>6. \A m \in Range(toOut[w]) : \E i \in DOMAIN toOut[w] : m = toOut[w][i]
    BY DEF Range
  <2>7. \A e \in Epochs(Range(toOut[w]) \cup loadsOut[w]) :
           \/ \E i \in DOMAIN toOut[w] : e = toOut[w][i].epoch
           \/ \E m \in loadsOut[w] : e = m.epoch
    BY <2>6 DEF Epochs
  <2>8. /\ \A i \in DOMAIN toOut[w] : toOut[w][i].epoch \in Epochs(Range(toOut[w]) \cup loadsOut[w])
        /\ \A m \in loadsOut[w] : m.epoch \in Epochs(Range(toOut[w]) \cup loadsOut[w])
    BY <2>5 DEF Epochs
  <2>9. Epochs(Range(toOut[w]) \cup loadsOut[w]) \subseteq Epoch
    <3>1. \A i \in DOMAIN b : b[i] \in AtRoute
      BY <2>2
    <3>2. \A i \in DOMAIN toOut[w] : toOut[w][i].epoch \in Epoch
      BY <2>2, <3>1 DEF AtRoute
    <3>3. \A m \in loadsOut[w] : m.epoch \in Epoch
      BY DEF OutputInv, QueuesInv, RowsOf
    <3>4. QED
      BY <2>7, <3>2, <3>3
  <2>10. queue[w] \subseteq Epoch
    BY DEF OutputInv, QueuesInv
  <2>11. QED
    BY <1>6, <2>4, <2>7, <2>8, <2>9, <2>10 DEF From
<1>9. To(w, view, r)
  <2>1. /\ DOMAIN loadsBuf = AllWorkers /\ DOMAIN queue = AllWorkers /\ DOMAIN open = AllWorkers
        /\ DOMAIN awoken = AllWorkers /\ DOMAIN cap = AllWorkers /\ DOMAIN toOut = AllWorkers
        /\ DOMAIN loadsOut = AllWorkers /\ DOMAIN inbuf = AllWorkers
    BY DEF OutputInv, QueuesInv
  <2>2. /\ inbuf'[w] = r.inbuf /\ loadsBuf'[w] = r.loads /\ queue'[w] = r.queue
        /\ open'[w] = r.open /\ awoken'[w] = r.awoken /\ cap'[w] = view
        /\ toOut'[w] = <<>> /\ loadsOut'[w] = {}
    BY <1>2, <1>5, <2>1
  <2>3. ASSUME NEW v \in AllWorkers \ {w}
        PROVE  /\ inbuf'[v] = inbuf[v] /\ loadsBuf'[v] = loadsBuf[v] /\ queue'[v] = queue[v]
               /\ open'[v] = open[v] /\ awoken'[v] = awoken[v] /\ cap'[v] = cap[v]
               /\ toOut'[v] = toOut[v] /\ loadsOut'[v] = loadsOut[v]
               /\ \A p \in open[v] : p \notin r.open
    <3>1. /\ inbuf'[v] = inbuf[v] /\ loadsBuf'[v] = loadsBuf[v] /\ queue'[v] = queue[v]
          /\ open'[v] = open[v] /\ awoken'[v] = awoken[v] /\ cap'[v] = cap[v]
          /\ toOut'[v] = toOut[v] /\ loadsOut'[v] = loadsOut[v]
      BY <1>2, <1>5, <2>1
    <3>2. ASSUME NEW p \in open[v], p \in r.open
          PROVE  FALSE
      <4>1. p \in open'[v] /\ p \in open'[w]
        BY <2>2, <3>1, <3>2
      <4>2. (\A u \in AllWorkers : \A q \in open[u] : Owns(u, q))'
        BY DEF OutputInv, OwnersInv
      <4>3. Owns(v, p)' /\ Owns(w, p)'
        BY <4>1, <4>2
      <4>4. QED
        BY <4>3 DEF Owns
    <3>3. QED
      BY <3>1, <3>2
  <2>4. QED
    BY <1>2, <1>5, <2>2, <2>3 DEF To
<1>10. QED
  BY <1>1, <1>2, <1>4, <1>7, <1>8, <1>9

(* The rows that a resume uses and the pages that are left are the same. *)
LEMMA LoadingSame ==
  ASSUME UNCHANGED <<loading, rows, point>>, NEW p, Loading(p),
         \A m \in rows : m.part = p
           => \A v \in AllWorkers : m \in loadsOut[v] \cup loadsBuf[v]
                => \E u \in AllWorkers : m \in loadsOut'[u] \cup loadsBuf'[u]
  PROVE  Loading(p)'
<1>1. PICK m \in LastRows(RecOf[p], point) :
        /\ m.part = p
        /\ \/ ~ cursor[RecOf[p]].done /\ Behind(cursor[RecOf[p]], p)
           \/ \E w \in AllWorkers : m \in loads[w] \cup loadsOut[w] \cup loadsBuf[w]
  BY DEF Loading
<1>2. m \in rows /\ m \in LastRows(RecOf[p], point)'
  BY DEF LastRows
<1>3. \/ ~ cursor'[RecOf[p]].done /\ Behind(cursor'[RecOf[p]], p)
      \/ \E w \in AllWorkers : m \in loads'[w] \cup loadsOut'[w] \cup loadsBuf'[w]
  BY <1>1, <1>2 DEF loading
<1>4. Behind(cursor'[RecOf[p]], p) <=> Behind(cursor[RecOf[p]], p)'
  BY DEF Behind
<1>5. QED
  BY <1>1, <1>2, <1>3, <1>4 DEF Loading

(* Where files are open after the step. *)
LEMMA WroteAfter ==
  ASSUME NEW w \in AllWorkers, NEW view, NEW r, To(w, view, r), NEW p, NEW s
  PROVE  Wrote(p, s)' <=> \/ p \in r.open /\ <<s, point>> \in Among(r.file[p], Len(r.file[p]))
                          \/ \E v \in AllWorkers \ {w} :
                               /\ p \in open[v] /\ p \notin r.open
                               /\ <<s, point>> \in Among(r.file[p], Len(r.file[p]))
<1>1. Wrote(p, s)' <=> /\ \E v \in AllWorkers : p \in open'[v]
                       /\ <<s, point>> \in Among(r.file[p], Len(r.file[p]))
  BY DEF Wrote, Among, To
<1>2. /\ open'[w] = r.open
      /\ \A v \in AllWorkers \ {w} : open'[v] = open[v] /\ \A q \in open[v] : q \notin r.open
  BY DEF To
<1>3. QED
  BY <1>1, <1>2

(* Older epochs are closed, only rows are loaded. *)
LEMMA OutputBehind ==
  ASSUME FilesInv, OutputInv, OutputInv', NEW w \in AllWorkers, w \in ws,
         NEW view, NEW st, NEW r, Seen(w, view), From(w, st), To(w, view, r),
         r = ForEach(st, view), Behindhand
  PROVE  FilesInv'
<1>1. RowsInv /\ PlacesInv /\ FrontInv /\ UnderwayInv /\ LoadsInv /\ WrittenInv /\ Quiet
  BY DEF FilesInv, FrontInv
<1>2. /\ ws' = ws /\ src' = src /\ rows' = rows /\ point' = point /\ known' = known
      /\ UNCHANGED <<loading, toPart, toRoute>> /\ loads' = loads
  BY DEF To, loading
<1>3. point \in Nat \ {0} /\ point \in Nat /\ point + 1 \in Nat /\ point \in Epoch
  BY PointIs
<1>4. /\ \A s \in Sources : src[s] = {point} /\ ~ ReadIn(s)
      /\ \A v \in AllWorkers : awoken[v] = {}
      /\ snapq = {}
  BY <1>1 DEF Quiet, ReadIn
<1>5. Places = {}
  <2>1. ASSUME NEW x \in Places
        PROVE  FALSE
    <3>1. At(x).source \in Sources
      BY PlaceSource
    <3>2. ReadIn(At(x).source)
      BY <1>1 DEF UnderwayInv
    <3>3. QED
      BY <1>4, <3>1, <3>2
  <2>2. QED
    BY <2>1
<1>6. PlaceFacts /\ PlaceFacts'
  BY PlacesAre
<1>7. toOut[w] = <<>>
  <2>1. PICK b \in Seq(AtRoute) : b = toOut[w]
    BY DEF OutputInv, QueuesInv
  <2>2. \A i \in Nat : i \notin DOMAIN b
    BY <1>5, <1>6, <2>1 DEF PlaceFacts
  <2>3. DOMAIN b = 1 .. Len(b) /\ Len(b) \in Nat
    OBVIOUS
  <2>4. Len(b) = 0
    BY <2>2, <2>3
  <2>5. b = <<>>
    BY <2>4
  <2>6. QED
    BY <2>1, <2>5
<1>8. OutIn # {}
  BY <1>4, SourcesFront, OutputAssumption
<1>9. PICK f \in Nat : view = {f} /\ (\A g \in OutIn : f <= g) /\ \E c \in cap[w] : c <= f
  BY <1>8 DEF Seen
<1>10. \A p, s : ~ Wrote(p, s) \/ p \notin SinkParts \/ s \notin Sources
  BY <1>1, <1>4 DEF UnderwayInv
<1>11. \A v \in AllWorkers : open[v] \subseteq SinkParts
  BY DEF OutputInv, QueuesInv
<1>12. ASSUME NEW v \in AllWorkers, NEW p \in open[v]
       PROVE  Exact(file[p], p, point)
  <2>1. UpTo(file[p], p, point)
    BY <1>1 DEF WrittenInv
  <2>2. ASSUME NEW j \in Among(file[p], Len(file[p])), j \notin Belongs(p, point)
        PROVE  FALSE
    <3>1. j \in Belongs(p, point + 1)
      BY <2>1 DEF UpTo
    <3>2. PICK s \in Sources : j = <<s, point>>
      BY <1>3, <2>2, <3>1, BelongsNext
    <3>3. Wrote(p, s)
      BY <2>2, <3>2 DEF Wrote
    <3>4. QED
      BY <1>10, <1>11, <3>3
  <2>3. QED
    BY <2>1, <2>2 DEF UpTo, Exact
<1>13. /\ DOMAIN st = Fields /\ st.inbuf = <<>> /\ st.loads = loadsBuf[w] \cup loadsOut[w]
       /\ st.queue \subseteq Epoch /\ queue[w] \subseteq st.queue
       /\ \A e \in st.queue : e \in queue[w] \/ \E m \in loadsOut[w] : e = m.epoch
       /\ \A m \in loadsOut[w] : m.epoch \in st.queue
       /\ st.open = open[w] /\ st.awoken = {} /\ st.file = file /\ st.snaps = {}
  BY <1>4, <1>7 DEF From
<1>14. \A m \in st.loads : m \in Row /\ m.epoch < point /\ m.offset = Count(m.part, point)
                           /\ m.epoch \in st.queue
  BY <1>1, <1>13 DEF LoadsInv, FrontInv
<1>15. Loadable(st)
  BY <1>14 DEF Loadable, Row
<1>16. Record(st)
  BY <1>1, <1>13 DEF Record, RowsInv
<1>17. LoadedTo(st, st, {}, {})
  <2>1. \A p \in SinkParts : CutAt(st.file[p], p, point)
    BY <1>1, <1>13 DEF RowsInv
  <2>2. \A p \in st.open : Exact(st.file[p], p, point) /\ p \in SinkParts
    BY <1>11, <1>12, <1>13
  <2>3. QED
    BY <1>13, <1>16, <2>1, <2>2 DEF LoadedTo
<1>18. PICK gone : gone = Closed(st, view)
  OBVIOUS
<1>19. LoadedTo(st, r, gone, {}) /\ r.queue = st.queue \ gone
  BY <1>3, <1>9, <1>13, <1>15, <1>17, <1>18, LoadForEach
<1>20. /\ Record(r) /\ r.inbuf = <<>> /\ r.awoken = {} /\ r.snaps = {}
       /\ r.loads = {m \in st.loads : m.epoch \notin gone}
       /\ st.open \subseteq r.open /\ r.open \subseteq SinkParts
       /\ \A m \in st.loads : m.epoch \in gone => m.part \in r.open
       /\ \A p \in SinkParts : CutAt(r.file[p], p, point)
       /\ \A p \in r.open : Exact(r.file[p], p, point)
       /\ \A p \in SinkParts \ r.open : r.file[p] = file[p]
  BY <1>13, <1>19 DEF LoadedTo
<1>21. /\ inbuf'[w] = <<>> /\ loadsBuf'[w] = r.loads /\ queue'[w] = r.queue /\ open'[w] = r.open
       /\ awoken'[w] = {} /\ file' = r.file /\ snapq' = {}
       /\ cap'[w] = {f} /\ toOut'[w] = <<>> /\ loadsOut'[w] = {}
       /\ \A v \in AllWorkers \ {w} :
            /\ inbuf'[v] = inbuf[v] /\ loadsBuf'[v] = loadsBuf[v] /\ queue'[v] = queue[v]
            /\ open'[v] = open[v] /\ awoken'[v] = awoken[v] /\ cap'[v] = cap[v]
            /\ toOut'[v] = toOut[v] /\ loadsOut'[v] = loadsOut[v]
            /\ \A p \in open[v] : p \notin r.open
  BY <1>9, <1>20 DEF To
<1>22. RowsInv'
  <2>1. file' \in [SinkParts -> Seq(Sources \X Nat)]
    BY <1>20, <1>21 DEF Record
  <2>2. \A p \in SinkParts : CutAt(file'[p], p, point)
    BY <1>20, <1>21
  <2>3. QED
    BY <1>1, <1>2, <1>4, <1>21, <2>1, <2>2 DEF RowsInv
<1>23. PlacesInv'
  <2>1. \A v \in AllWorkers \ ws : v # w
    OBVIOUS
  <2>2. \A v \in AllWorkers \ ws :
          /\ toPart'[v] = <<>> /\ toRoute'[v] = <<>> /\ toOut'[v] = <<>>
          /\ loads'[v] = {} /\ loadsOut'[v] = {} /\ loadsBuf'[v] = {}
          /\ queue'[v] = {} /\ cap'[v] = {} /\ open'[v] = {}
    BY <1>1, <1>2, <1>21, <2>1 DEF PlacesInv
  <2>3. \A v \in AllWorkers : known'[v] \in {{}, SinkParts} /\ inbuf'[v] = <<>>
    BY <1>1, <1>2, <1>21 DEF PlacesInv
  <2>4. QED
    BY <1>1, <1>2, <2>2, <2>3 DEF PlacesInv, loading
<1>24. Places' = {}
  <2>1. ASSUME NEW x \in Places'
        PROVE  FALSE
    <3>1. PICK v \in AllWorkers, i \in Nat :
            x = <<"part", v, i>> \/ x = <<"route", v, i>> \/ x = <<"out", v, i>>
      BY <1>6 DEF PlaceFacts
    <3>2. i \in DOMAIN toPart'[v] \/ i \in DOMAIN toRoute'[v] \/ i \in DOMAIN toOut'[v]
      <4>1. CASE x = <<"part", v, i>>
        BY <1>6, <2>1, <4>1 DEF PlaceFacts
      <4>2. CASE x = <<"route", v, i>>
        BY <1>6, <2>1, <4>2 DEF PlaceFacts
      <4>3. CASE x = <<"out", v, i>>
        BY <1>6, <2>1, <4>3 DEF PlaceFacts
      <4>4. QED
        BY <3>1, <4>1, <4>2, <4>3
    <3>3. toOut'[v] = toOut[v]
      BY <1>7, <1>21
    <3>4. i \in DOMAIN toPart[v] \/ i \in DOMAIN toRoute[v] \/ i \in DOMAIN toOut[v]
      BY <1>2, <3>2, <3>3
    <3>5. QED
      BY <1>5, <1>6, <3>4 DEF PlaceFacts
  <2>2. QED
    BY <2>1
<1>25. \A p \in SinkParts : \A s \in Sources : ~ Wrote(p, s)'
  <2>1. ASSUME NEW p \in SinkParts, NEW s \in Sources, Wrote(p, s)'
        PROVE  FALSE
    <3>1. \/ p \in r.open /\ <<s, point>> \in Among(r.file[p], Len(r.file[p]))
          \/ \E v \in AllWorkers \ {w} :
               /\ p \in open[v] /\ p \notin r.open
               /\ <<s, point>> \in Among(r.file[p], Len(r.file[p]))
      BY <2>1, WroteAfter
    <3>2. CASE p \in r.open /\ <<s, point>> \in Among(r.file[p], Len(r.file[p]))
      <4>1. <<s, point>> \in Belongs(p, point)
        BY <1>20, <3>2 DEF Exact
      <4>2. QED
        BY <1>3, <4>1, BelongsNext
    <3>3. CASE \E v \in AllWorkers \ {w} :
                 /\ p \in open[v] /\ p \notin r.open
                 /\ <<s, point>> \in Among(r.file[p], Len(r.file[p]))
      <4>1. r.file[p] = file[p]
        BY <1>20, <3>3
      <4>2. Wrote(p, s)
        BY <3>3, <4>1 DEF Wrote
      <4>3. QED
        BY <1>10, <4>2
    <3>4. QED
      BY <3>1, <3>2, <3>3
  <2>2. QED
    BY <2>1
<1>26. UnderwayInv'
  <2>1. \A s \in Sources : ~ ReadIn(s)'
    BY <1>2, <1>4 DEF ReadIn
  <2>2. QED
    BY <1>24, <1>25, <2>1 DEF UnderwayInv
<1>27. FrontInv'
  <2>1. Quiet'
    <3>1. \A v \in AllWorkers : awoken'[v] = {}
      BY <1>4, <1>21
    <3>2. QED
      BY <1>2, <1>4, <1>21, <3>1 DEF Quiet
  <2>2. ASSUME NEW v \in AllWorkers, v # w
        PROVE  /\ \A e \in queue'[v] : e <= point /\ \E c \in cap'[v] : c <= e
               /\ \A m \in loadsBuf'[v] : m.epoch \in queue'[v]
               /\ v \in ws /\ cap'[v] = {} => \A s \in Sources : src[s] = {}
    BY <1>1, <1>21, <2>2 DEF FrontInv
  <2>3. ASSUME NEW e \in queue'[w]
        PROVE  e <= point /\ f <= e
    <3>1. e \in st.queue /\ e \notin gone
      BY <1>19, <1>21
    <3>2. e \in Nat
      BY <1>13, <3>1, EpochIs
    <3>3. ~ IsClosed(view, e)
      BY <1>18, <3>1 DEF Closed
    <3>4. ~ (e < f)
      BY <1>9, <3>3 DEF IsClosed
    <3>5. e <= point
      <4>1. CASE e \in queue[w]
        BY <1>1, <4>1 DEF FrontInv
      <4>2. CASE \E m \in loadsOut[w] : e = m.epoch
        <5>1. PICK m \in loadsOut[w] : e = m.epoch
          BY <4>2
        <5>2. e < point
          BY <1>13, <1>14, <5>1
        <5>3. QED
          BY <1>3, <3>2, <5>2
      <4>3. QED
        BY <1>13, <3>1, <4>1, <4>2
    <3>6. QED
      BY <1>9, <3>2, <3>4, <3>5
  <2>4. \A m \in loadsBuf'[w] : m.epoch \in queue'[w]
    BY <1>14, <1>19, <1>20, <1>21
  <2>5. ASSUME NEW v \in AllWorkers
        PROVE  /\ \A e \in queue'[v] : e <= point /\ \E c \in cap'[v] : c <= e
               /\ \A m \in loadsBuf'[v] : m.epoch \in queue'[v]
               /\ v \in ws /\ cap'[v] = {} => \A s \in Sources : src[s] = {}
    <3>1. CASE v = w
      BY <1>21, <2>3, <2>4, <3>1
    <3>2. CASE v # w
      BY <2>2, <3>2
    <3>3. QED
      BY <3>1, <3>2
  <2>6. /\ \A s \in Sources : \/ src'[s] \in {{point}, {point + 1}}
                              \/ src'[s] = {} /\ Len(Script[s]) < point
        /\ \A m \in snapq' : m.epoch = point
        /\ \A v \in AllWorkers : awoken'[v] = {}
    BY <1>2, <1>4, <1>21
  <2>7. QED
    BY <1>2, <2>1, <2>5, <2>6 DEF FrontInv
<1>28. LoadsInv'
  <2>1. ASSUME NEW v \in AllWorkers
        PROVE  loadsBuf'[v] \cup loadsOut'[v] \subseteq loadsBuf[v] \cup loadsOut[v]
    <3>1. CASE v = w
      BY <1>13, <1>20, <1>21, <3>1
    <3>2. CASE v # w
      BY <1>21, <3>2
    <3>3. QED
      BY <3>1, <3>2
  <2>2. \A v \in AllWorkers : \A m \in loads'[v] \cup loadsOut'[v] \cup loadsBuf'[v] :
          m \in Row /\ m.epoch < point /\ m.offset = Count(m.part, point)
    BY <1>1, <1>2, <2>1 DEF LoadsInv
  <2>3. ASSUME NEW p \in SinkParts, Belongs(p, point) # {}
        PROVE  (\E v \in AllWorkers : p \in open'[v]) \/ Loading(p)'
    <3>1. (\E v \in AllWorkers : p \in open[v]) \/ Loading(p)
      BY <1>1, <1>4, <2>3, OutputAssumption DEF LoadsInv
    <3>2. CASE \E v \in AllWorkers : p \in open[v]
      BY <1>13, <1>20, <1>21, <3>2
    <3>3. CASE Loading(p) /\ p \in r.open
      BY <1>21, <3>3
    <3>4. CASE Loading(p) /\ p \notin r.open
      <4>1. ASSUME NEW m \in rows, m.part = p, NEW v \in AllWorkers,
                   m \in loadsOut[v] \cup loadsBuf[v]
            PROVE  \E u \in AllWorkers : m \in loadsOut'[u] \cup loadsBuf'[u]
        <5>1. CASE v = w
          <6>1. m \in st.loads
            BY <1>13, <4>1, <5>1
          <6>2. m.epoch \notin gone
            BY <1>20, <3>4, <4>1, <6>1
          <6>3. m \in loadsBuf'[w]
            BY <1>20, <1>21, <6>1, <6>2
          <6>4. QED
            BY <6>3
        <5>2. CASE v # w
          BY <1>21, <4>1, <5>2
        <5>3. QED
          BY <5>1, <5>2
      <4>2. UNCHANGED <<loading, rows, point>>
        BY <1>2
      <4>3. Loading(p)'
        BY <3>4, <4>1, <4>2, LoadingSame
      <4>4. QED
        BY <4>3
    <3>5. QED
      BY <3>1, <3>2, <3>3, <3>4
  <2>4. QED
    BY <1>2, <2>2, <2>3 DEF LoadsInv
<1>29. WrittenInv'
  <2>1. ASSUME NEW v \in AllWorkers, NEW p \in open'[v]
        PROVE  p \in SinkParts /\ UpTo(file'[p], p, point)
    <3>1. CASE v = w
      <4>1. p \in r.open
        BY <1>21, <2>1, <3>1
      <4>2. p \in SinkParts /\ Exact(r.file[p], p, point)
        BY <1>20, <4>1
      <4>3. Belongs(p, point) \subseteq Belongs(p, point + 1)
        BY <1>3, BelongsNext
      <4>4. QED
        BY <1>21, <4>2, <4>3 DEF Exact, UpTo
    <3>2. CASE v # w
      <4>1. p \in open[v] /\ p \notin r.open
        BY <1>21, <2>1, <3>2
      <4>2. p \in SinkParts /\ r.file[p] = file[p]
        BY <1>11, <1>20, <4>1
      <4>3. UpTo(file[p], p, point)
        BY <1>1, <4>1 DEF WrittenInv
      <4>4. QED
        BY <1>21, <4>2, <4>3
    <3>3. QED
      BY <3>1, <3>2
  <2>2. \A v \in AllWorkers : \A p \in open'[v] : UpTo(file'[p], p, point')
    BY <1>2, <2>1
  <2>3. \A v \in AllWorkers : \A p \in open'[v] : \A s \in Sources : ~ Wrote(p, s)'
    BY <1>25, <2>1
  <2>4. QED
    BY <2>2, <2>3 DEF WrittenInv
<1>30. QED
  BY <1>22, <1>23, <1>26, <1>27, <1>28, <1>29 DEF FilesInv

(* When nothing is of an epoch before the resume epoch. *)
LEMMA AheadIs ==
  ASSUME OutputInv, FrontInv, UnderwayInv, ~ Behindhand, NEW w \in AllWorkers, NEW st, From(w, st)
  PROVE  /\ \A v \in AllWorkers : loads[v] = {} /\ loadsOut[v] = {} /\ loadsBuf[v] = {}
         /\ \A r \in RecParts : cursor[r].done
         /\ \A v \in AllWorkers : \A c \in cap[v] : c \in Nat /\ point <= c
         /\ \A v \in AllWorkers : queue[v] \subseteq {point}
         /\ st.queue \subseteq {point} /\ st.loads = {}
         /\ \A i \in DOMAIN toOut[w] : i \in Nat /\ toOut[w][i].epoch = point
<1>1. point \in Nat
  BY PointIs
<1>2. /\ \A v \in AllWorkers : loads[v] = {} /\ loadsOut[v] = {} /\ loadsBuf[v] = {}
      /\ \A r \in RecParts : cursor[r].done
      /\ \A v \in AllWorkers : \A c \in cap[v] : ~ (c < point)
  BY DEF Behindhand
<1>3. ASSUME NEW v \in AllWorkers, NEW c \in cap[v]
      PROVE  c \in Nat /\ point <= c
  <2>1. cap[v] \in Options(Epoch)
    BY DEF OutputInv, QueuesInv
  <2>2. c \in Nat
    BY <2>1, EpochIs DEF Options
  <2>3. ~ (c < point)
    BY <1>2
  <2>4. QED
    BY <1>1, <2>2, <2>3
<1>4. ASSUME NEW v \in AllWorkers, NEW e \in queue[v]
      PROVE  e = point
  <2>1. e \in Nat
    BY EpochIs DEF OutputInv, QueuesInv
  <2>2. e <= point /\ \E c \in cap[v] : c <= e
    BY DEF FrontInv
  <2>3. PICK c \in cap[v] : c <= e
    BY <2>2
  <2>4. c \in Nat /\ point <= c
    BY <1>3
  <2>5. QED
    BY <1>1, <2>1, <2>2, <2>3, <2>4
<1>5. ASSUME NEW i \in DOMAIN toOut[w]
      PROVE  i \in Nat /\ toOut[w][i].epoch = point
  <2>1. PICK b \in Seq(AtRoute) : b = toOut[w]
    BY DEF OutputInv, QueuesInv
  <2>2. i \in Nat
    BY <2>1
  <2>3. PICK x : x = <<"out", w, i>>
    OBVIOUS
  <2>4. x \in Places /\ At(x) = toOut[w][i]
    BY <2>2, <2>3, PlacesAre DEF PlaceFacts
  <2>5. At(x).epoch = point
    BY <2>4 DEF UnderwayInv
  <2>6. QED
    BY <2>2, <2>4, <2>5
<1>6. st.queue \subseteq {point} /\ st.loads = {}
  BY <1>2, <1>4, <1>5 DEF From
<1>7. QED
  BY <1>2, <1>3, <1>4, <1>5, <1>6

(* What is not disturbed when the output goes on from the resume epoch. *)
LEMMA AheadPlaces ==
  ASSUME PlacesInv, NEW w \in AllWorkers, w \in ws, NEW view, NEW r, To(w, view, r), r.inbuf = <<>>
  PROVE  PlacesInv'
<1>1. \A v \in AllWorkers \ ws : v # w
  OBVIOUS
<1>2. \A v \in AllWorkers \ ws :
        /\ toPart'[v] = <<>> /\ toRoute'[v] = <<>> /\ toOut'[v] = <<>>
        /\ loads'[v] = {} /\ loadsOut'[v] = {} /\ loadsBuf'[v] = {}
        /\ queue'[v] = {} /\ cap'[v] = {} /\ open'[v] = {}
  BY <1>1 DEF To, PlacesInv, loading
<1>3. \A v \in AllWorkers : known'[v] \in {{}, SinkParts} /\ inbuf'[v] = <<>>
  BY DEF To, PlacesInv
<1>4. QED
  BY <1>2, <1>3 DEF To, PlacesInv, loading

LEMMA AheadFront ==
  ASSUME OutputInv, FrontInv, UnderwayInv, ~ Behindhand, NEW w \in AllWorkers, NEW st, From(w, st),
         NEW view, NEW r, To(w, view, r), r.loads = {}, r.queue \subseteq {point},
         \A e \in r.queue : \E c \in view : c <= e,
         \A c \in view : ~ (c < point),
         r.awoken # {} => point \in r.queue,
         \A m \in r.snaps : m.epoch = point,
         view = {} => \A s \in Sources : src[s] = {}
  PROVE  FrontInv' /\ ~ Behindhand'
<1>1. /\ \A v \in AllWorkers : loads[v] = {} /\ loadsOut[v] = {} /\ loadsBuf[v] = {}
      /\ \A q \in RecParts : cursor[q].done
      /\ \A v \in AllWorkers : \A c \in cap[v] : ~ (c < point)
  BY DEF Behindhand
<1>2. /\ ws' = ws /\ src' = src /\ point' = point /\ loads' = loads /\ cursor' = cursor
      /\ snapq' = r.snaps
      /\ loadsBuf'[w] = r.loads /\ queue'[w] = r.queue
      /\ awoken'[w] = r.awoken /\ cap'[w] = view /\ loadsOut'[w] = {}
      /\ \A v \in AllWorkers \ {w} :
           /\ loadsBuf'[v] = loadsBuf[v] /\ queue'[v] = queue[v] /\ loadsOut'[v] = loadsOut[v]
           /\ awoken'[v] = awoken[v] /\ cap'[v] = cap[v]
  BY DEF To, loading
<1>3. \A v \in AllWorkers : /\ loads'[v] = {} /\ loadsOut'[v] = {} /\ loadsBuf'[v] = {}
                            /\ \A c \in cap'[v] : ~ (c < point)
  BY <1>1, <1>2
<1>4. ~ Behindhand'
  BY <1>1, <1>2, <1>3 DEF Behindhand
<1>5. point \in Nat /\ point <= point
  BY PointIs
<1>6. ASSUME NEW v \in AllWorkers
      PROVE  /\ \A e \in queue'[v] : e <= point /\ \E c \in cap'[v] : c <= e
             /\ \A m \in loadsBuf'[v] : m.epoch \in queue'[v]
             /\ awoken'[v] # {} => point \in queue'[v]
             /\ v \in ws /\ cap'[v] = {} => \A s \in Sources : src[s] = {}
  <2>1. CASE v = w
    <3>1. \A e \in r.queue : e <= point
      BY <1>5
    <3>2. QED
      BY <1>2, <2>1, <3>1
  <2>2. CASE v # w
    BY <1>2, <2>2 DEF FrontInv
  <2>3. QED
    BY <2>1, <2>2
<1>7. QED
  BY <1>2, <1>4, <1>6 DEF FrontInv

LEMMA AheadLoads ==
  ASSUME OutputInv, FrontInv, UnderwayInv, LoadsInv, ~ Behindhand,
         NEW w \in AllWorkers, NEW st, From(w, st),
         NEW view, NEW r, To(w, view, r), r.loads = {},
         \/ \A s \in Sources : src[s] = {}
         \/ open[w] \subseteq r.open
  PROVE  LoadsInv'
<1>1. /\ \A v \in AllWorkers : loads[v] = {} /\ loadsOut[v] = {} /\ loadsBuf[v] = {}
      /\ \A q \in RecParts : cursor[q].done
  BY DEF Behindhand
<1>2. /\ src' = src /\ point' = point /\ loads' = loads
      /\ loadsBuf'[w] = r.loads /\ loadsOut'[w] = {} /\ open'[w] = r.open
      /\ \A v \in AllWorkers \ {w} :
           loadsBuf'[v] = loadsBuf[v] /\ loadsOut'[v] = loadsOut[v] /\ open'[v] = open[v]
  BY DEF To, loading
<1>3. \A v \in AllWorkers : loads'[v] = {} /\ loadsOut'[v] = {} /\ loadsBuf'[v] = {}
  BY <1>1, <1>2
<1>4. \A p \in SinkParts : ~ Loading(p)
  BY <1>1, OutputAssumption DEF Loading
<1>5. CASE \A s \in Sources : src[s] = {}
  BY <1>2, <1>3, <1>5 DEF LoadsInv
<1>6. CASE ~ \A s \in Sources : src[s] = {}
  <2>1. \A p \in SinkParts : Belongs(p, point) # {} => \E v \in AllWorkers : p \in open[v]
    BY <1>4, <1>6 DEF LoadsInv
  <2>2. \A v \in AllWorkers : open[v] \subseteq open'[v]
    BY <1>2, <1>6
  <2>3. \A p \in SinkParts : Belongs(p, point)' = Belongs(p, point)
    BY <1>2 DEF Belongs
  <2>4. QED
    BY <1>3, <2>1, <2>2, <2>3 DEF LoadsInv
<1>7. QED
  BY <1>5, <1>6

(* The items of the resume epoch are written. *)
LEMMA OutputItems ==
  ASSUME FilesInv, OutputInv, NEW w \in AllWorkers, w \in ws,
         NEW view, NEW st, NEW r, Seen(w, view), From(w, st), To(w, view, r),
         r = ForEach(st, view), ~ Behindhand, toOut[w] # <<>>
  PROVE  FilesInv'
<1>1. RowsInv /\ PlacesInv /\ FrontInv /\ UnderwayInv /\ LoadsInv /\ WrittenInv
  BY DEF FilesInv
<1>2. /\ ws' = ws /\ src' = src /\ rows' = rows /\ point' = point
      /\ UNCHANGED <<loading, toPart, toRoute>>
  BY DEF To
<1>3. point \in Nat \ {0} /\ point \in Nat /\ point + 1 \in Nat /\ point \in Epoch /\ point >= 1
  BY PointIs
<1>4. /\ \A v \in AllWorkers : loads[v] = {} /\ loadsOut[v] = {} /\ loadsBuf[v] = {}
      /\ \A q \in RecParts : cursor[q].done
      /\ \A v \in AllWorkers : \A c \in cap[v] : c \in Nat /\ point <= c
      /\ st.queue \subseteq {point} /\ st.loads = {}
      /\ \A i \in DOMAIN toOut[w] : i \in Nat /\ toOut[w][i].epoch = point
  BY <1>1, AheadIs
<1>5. /\ DOMAIN st = Fields /\ st.inbuf = toOut[w]
      /\ \A i \in DOMAIN toOut[w] : toOut[w][i].epoch \in st.queue
      /\ st.open = open[w] /\ st.awoken = awoken[w] /\ st.file = file /\ st.snaps = snapq
  BY DEF From
<1>6. PlaceFacts /\ PlaceFacts'
  BY PlacesAre
<1>7. PICK b \in Seq(AtRoute) : b = toOut[w]
  BY DEF OutputInv, QueuesInv
<1>8. DOMAIN b = 1 .. Len(b) /\ Len(b) \in Nat /\ 1 \in DOMAIN b
  <2>1. b # <<>>
    BY <1>7
  <2>2. QED
    BY <2>1
<1>9. point \in OutIn /\ point \in st.queue
  BY <1>4, <1>5, <1>7, <1>8, FrontHas
<1>10. view = {point}
  <2>1. PICK f \in Nat : view = {f} /\ (\A g \in OutIn : f <= g) /\ \E c \in cap[w] : c <= f
    BY <1>9 DEF Seen
  <2>2. PICK c \in cap[w] : c <= f
    BY <2>1
  <2>3. f <= point /\ c \in Nat /\ point <= c
    BY <1>4, <1>9, <2>1
  <2>4. f = point
    BY <1>3, <2>1, <2>2, <2>3
  <2>5. QED
    BY <2>1, <2>4
<1>11. \A v \in AllWorkers : open[v] \subseteq SinkParts
  BY DEF OutputInv, QueuesInv
(* Each item here. *)
<1>12. ASSUME NEW i \in DOMAIN b
       PROVE  /\ i \in Nat /\ <<"out", w, i>> \in Places /\ At(<<"out", w, i>>) = b[i]
              /\ b[i] \in AtRoute /\ b[i].source \in Sources /\ b[i].part \in SinkParts
              /\ b[i].epoch = point /\ b[i].part = FileOf(SinkParts, b[i].source, point)
              /\ ReadIn(b[i].source) /\ Owns(w, b[i].part)
  <2>1. i \in Nat
    BY <1>8
  <2>2. PICK x : x = <<"out", w, i>>
    OBVIOUS
  <2>3. x \in Places /\ At(x) = b[i] /\ x[1] # "part"
    BY <1>6, <1>7, <2>1, <2>2 DEF PlaceFacts
  <2>4. /\ At(x).epoch = point /\ ReadIn(At(x).source)
        /\ At(x).part = FileOf(SinkParts, At(x).source, point)
    BY <1>1, <2>3 DEF UnderwayInv
  <2>5. b[i] \in AtRoute
    OBVIOUS
  <2>6. b[i].source \in Sources /\ b[i].part \in SinkParts
    BY <2>5 DEF AtRoute
  <2>7. Owns(w, b[i].part)
    BY <1>7 DEF OutputInv, OwnersInv
  <2>8. QED
    BY <2>1, <2>2, <2>3, <2>4, <2>5, <2>6, <2>7
<1>13. \A x \in Places : \A i \in DOMAIN b : At(x).source = b[i].source => x = <<"out", w, i>>
  <2>1. ASSUME NEW x \in Places, NEW i \in DOMAIN b, At(x).source = b[i].source
        PROVE  x = <<"out", w, i>>
    <3>1. PICK y \in Places : y = <<"out", w, i>> /\ At(y) = b[i]
      BY <1>12
    <3>2. x = y
      BY <1>1, <2>1, <3>1 DEF UnderwayInv
    <3>3. QED
      BY <3>1, <3>2
  <2>2. QED
    BY <2>1
<1>14. Writable(st)
  <2>1. ASSUME NEW i \in DOMAIN b
        PROVE  /\ b[i].epoch = point /\ b[i].part = FileOf(SinkParts, b[i].source, point)
               /\ point <= Len(Script[b[i].source])
               /\ \A j \in DOMAIN b : b[j].source = b[i].source => i = j
               /\ b[i].part \in open[w] =>
                    <<b[i].source, point>> \notin Among(file[b[i].part], Len(file[b[i].part]))
               /\ b[i].part \notin open[w] => Belongs(b[i].part, point) = {}
    <3>1. PICK x \in Places : x = <<"out", w, i>> /\ At(x) = b[i]
      BY <1>12
    <3>2. ReadIn(b[i].source)
      BY <1>12
    <3>3. point <= Len(Script[b[i].source]) /\ src[b[i].source] # {point}
      BY <3>2 DEF ReadIn
    <3>4. ASSUME NEW j \in DOMAIN b, b[j].source = b[i].source
          PROVE  i = j
      <4>1. x = <<"out", w, j>>
        BY <1>13, <3>1, <3>4
      <4>2. QED
        BY <3>1, <4>1
    <3>5. ASSUME b[i].part \in open[w],
                 <<b[i].source, point>> \in Among(file[b[i].part], Len(file[b[i].part]))
          PROVE  FALSE
      <4>1. PICK s \in Sources, p \in SinkParts : s = b[i].source /\ p = b[i].part
        BY <1>12
      <4>2. Wrote(p, s)
        BY <3>5, <4>1 DEF Wrote
      <4>3. At(x).source # s
        BY <1>1, <4>2 DEF UnderwayInv
      <4>4. QED
        BY <3>1, <4>1, <4>3
    <3>6. ASSUME b[i].part \notin open[w], Belongs(b[i].part, point) # {}
          PROVE  FALSE
      <4>1. PICK s \in Sources, p \in SinkParts : s = b[i].source /\ p = b[i].part
        BY <1>12
      <4>2. src[s] # {}
        <5>1. Len(Script[s]) \in Nat
          BY OutputAssumption
        <5>2. point <= Len(Script[s])
          BY <3>3, <4>1
        <5>3. ~ (Len(Script[s]) < point)
          BY <1>3, <5>1, <5>2
        <5>4. \/ src[s] \in {{point}, {point + 1}}
              \/ src[s] = {} /\ Len(Script[s]) < point
          BY <1>1 DEF FrontInv
        <5>5. QED
          BY <5>3, <5>4
      <4>3. (\E v \in AllWorkers : p \in open[v]) \/ Loading(p)
        BY <1>1, <3>6, <4>1, <4>2 DEF LoadsInv
      <4>4. ~ Loading(p)
        BY <1>4, OutputAssumption DEF Loading
      <4>5. PICK v \in AllWorkers : p \in open[v]
        BY <4>3, <4>4
      <4>6. Owns(w, p)
        BY <1>12, <4>1
      <4>7. v = w
        BY <4>5, <4>6, OpenOnOne DEF OutputInv
      <4>8. QED
        BY <3>6, <4>1, <4>5, <4>7
    <3>7. QED
      BY <1>12, <3>3, <3>4, <3>5, <3>6
  <2>2. QED
    BY <1>5, <1>7, <2>1 DEF Writable
<1>15. WroteTo(st, st, 0)
  <2>1. Record(st)
    BY <1>1, <1>5 DEF Record, RowsInv
  <2>2. st.open \subseteq SinkParts /\ st.awoken \subseteq st.open
    BY <1>5, <1>11 DEF OutputInv, AwokenInv
  <2>3. \A p \in SinkParts : CutAt(st.file[p], p, point)
    BY <1>1, <1>5 DEF RowsInv
  <2>4. \A p \in st.open : UpTo(st.file[p], p, point)
    BY <1>1, <1>5 DEF WrittenInv
  <2>5. ASSUME NEW p \in st.open, NEW s \in Sources
        PROVE  <<s, point>> \in Among(st.file[p], Len(st.file[p])) <=> IsIn(st, 0, p, s)
    BY DEF IsIn
  <2>6. 1 .. 0 = {}
    OBVIOUS
  <2>7. QED
    BY <1>4, <2>1, <2>2, <2>3, <2>4, <2>5, <2>6 DEF WroteTo
<1>16. WroteTo(st, r, Len(b)) /\ r.inbuf = <<>> /\ r.queue = st.queue
  <2>1. PICK q : q = ForEach(st, {point}) /\ WroteTo(st, q, Len(st.inbuf))
                 /\ q.inbuf = <<>> /\ q.queue = st.queue
    BY <1>3, <1>4, <1>9, <1>14, <1>15, ForEachItems
  <2>2. QED
    BY <1>5, <1>7, <1>10, <2>1
<1>17. /\ Record(r) /\ r.loads = {} /\ r.snaps = snapq
       /\ open[w] \subseteq r.open /\ r.open \subseteq SinkParts
       /\ awoken[w] \subseteq r.awoken /\ r.awoken \subseteq r.open
       /\ \A p \in SinkParts : CutAt(r.file[p], p, point)
       /\ \A p \in SinkParts \ r.open : r.file[p] = file[p]
       /\ \A p \in r.open :
            /\ UpTo(r.file[p], p, point)
            /\ p \in r.awoken \/ (p \in open[w] /\ r.file[p] = file[p])
            /\ \A s \in Sources : <<s, point>> \in Among(r.file[p], Len(r.file[p]))
                                    <=> IsIn(st, Len(b), p, s)
       /\ \A j \in 1 .. Len(b) : b[j].part \in r.open
  BY <1>5, <1>7, <1>16 DEF WroteTo
<1>18. \A p, s : IsIn(st, Len(b), p, s) <=>
         \/ p \in open[w] /\ <<s, point>> \in Among(file[p], Len(file[p]))
         \/ \E j \in DOMAIN b : b[j].source = s /\ b[j].part = p
  BY <1>5, <1>7, <1>8 DEF IsIn
<1>19. RowsInv'
  <2>1. file' \in [SinkParts -> Seq(Sources \X Nat)] /\ snapq' = snapq
    BY <1>17 DEF Record, To
  <2>2. \A p \in SinkParts : CutAt(file'[p], p, point)
    BY <1>17 DEF To
  <2>3. QED
    BY <1>1, <1>2, <2>1, <2>2 DEF RowsInv
<1>20. PlacesInv'
  BY <1>1, <1>16, AheadPlaces
<1>21. FrontInv'
  <2>1. r.queue \subseteq {point} /\ point \in r.queue
    BY <1>4, <1>9, <1>16
  <2>2. \A e \in r.queue : \E c \in view : c <= e
    <3>1. point \in view /\ point <= point
      BY <1>3, <1>10
    <3>2. QED
      BY <2>1, <3>1
  <2>3. \A c \in view : ~ (c < point)
    BY <1>3, <1>10
  <2>4. \A m \in r.snaps : m.epoch = point
    BY <1>1, <1>17 DEF FrontInv
  <2>5. QED
    BY <1>1, <1>10, <1>17, <2>1, <2>2, <2>3, <2>4, AheadFront
<1>22. LoadsInv'
  BY <1>1, <1>17, AheadLoads
(* Each item that was on its way is, or it has been written. *)
<1>23. \A x \in Places' : x \in Places /\ At(x)' = At(x) /\ \A i \in DOMAIN b : x # <<"out", w, i>>
  <2>1. ASSUME NEW x \in Places'
        PROVE  x \in Places /\ At(x)' = At(x) /\ \A i \in DOMAIN b : x # <<"out", w, i>>
    <3>1. PICK v \in AllWorkers, i \in Nat :
            x = <<"part", v, i>> \/ x = <<"route", v, i>> \/ x = <<"out", v, i>>
      BY <1>6 DEF PlaceFacts
    <3>2. CASE x = <<"part", v, i>>
      <4>1. x \in Places
        BY <1>2, <1>6, <3>2 DEF PlaceFacts
      <4>2. At(x)' = At(x)
        BY <1>2, <3>2 DEF At, Under
      <4>3. QED
        BY <3>2, <4>1, <4>2
    <3>3. CASE x = <<"route", v, i>>
      <4>1. x \in Places
        BY <1>2, <1>6, <3>3 DEF PlaceFacts
      <4>2. At(x)' = At(x)
        BY <1>2, <3>3 DEF At, Under
      <4>3. QED
        BY <3>3, <4>1, <4>2
    <3>4. CASE x = <<"out", v, i>>
      <4>1. i \in DOMAIN toOut'[v]
        BY <1>6, <3>4 DEF PlaceFacts
      <4>2. v # w
        BY <4>1 DEF To
      <4>3. toOut'[v] = toOut[v]
        BY <4>2 DEF To
      <4>4. x \in Places
        BY <1>6, <3>4, <4>1, <4>3 DEF PlaceFacts
      <4>5. At(x)' = At(x)
        BY <3>4, <4>3 DEF At, Under
      <4>6. QED
        BY <3>4, <4>2, <4>4, <4>5
    <3>5. QED
      BY <3>1, <3>2, <3>3, <3>4
  <2>2. QED
    BY <2>1
<1>24. \A x \in Places : x \in Places' \/ \E i \in DOMAIN b : x = <<"out", w, i>>
  <2>1. ASSUME NEW x \in Places
        PROVE  x \in Places' \/ \E i \in DOMAIN b : x = <<"out", w, i>>
    <3>1. PICK v \in AllWorkers, i \in Nat :
            x = <<"part", v, i>> \/ x = <<"route", v, i>> \/ x = <<"out", v, i>>
      BY <1>6 DEF PlaceFacts
    <3>2. CASE x = <<"part", v, i>>
      BY <1>2, <1>6, <3>2 DEF PlaceFacts
    <3>3. CASE x = <<"route", v, i>>
      BY <1>2, <1>6, <3>3 DEF PlaceFacts
    <3>4. CASE x = <<"out", v, i>>
      <4>1. i \in DOMAIN toOut[v]
        BY <1>6, <3>4 DEF PlaceFacts
      <4>2. CASE v = w
        BY <1>7, <3>4, <4>1, <4>2
      <4>3. CASE v # w
        <5>1. toOut'[v] = toOut[v]
          BY <4>3 DEF To
        <5>2. QED
          BY <1>6, <3>4, <4>1, <5>1 DEF PlaceFacts
      <4>4. QED
        BY <4>2, <4>3
    <3>5. QED
      BY <3>1, <3>2, <3>3, <3>4
  <2>2. QED
    BY <2>1
<1>25. ASSUME NEW p \in SinkParts, NEW s \in Sources
       PROVE  Wrote(p, s)' <=> Wrote(p, s) \/ \E j \in DOMAIN b : b[j].source = s /\ b[j].part = p
  <2>1. Wrote(p, s)' <=> \/ p \in r.open /\ <<s, point>> \in Among(r.file[p], Len(r.file[p]))
                         \/ \E v \in AllWorkers \ {w} :
                              /\ p \in open[v] /\ p \notin r.open
                              /\ <<s, point>> \in Among(r.file[p], Len(r.file[p]))
    BY WroteAfter
  <2>2. CASE p \in r.open
    <3>1. Wrote(p, s)' <=> IsIn(st, Len(b), p, s)
      BY <1>17, <2>1, <2>2
    <3>2. \A v \in AllWorkers \ {w} : p \notin open[v]
      BY <2>2 DEF To
    <3>3. Wrote(p, s) <=> p \in open[w] /\ <<s, point>> \in Among(file[p], Len(file[p]))
      BY <3>2 DEF Wrote
    <3>4. QED
      BY <1>18, <3>1, <3>3
  <2>3. CASE p \notin r.open
    <3>1. r.file[p] = file[p]
      BY <1>17, <2>3
    <3>2. p \notin open[w] /\ \A j \in DOMAIN b : b[j].part # p
      BY <1>8, <1>17, <2>3
    <3>3. Wrote(p, s) <=> \E v \in AllWorkers \ {w} :
            p \in open[v] /\ <<s, point>> \in Among(file[p], Len(file[p]))
      BY <3>2 DEF Wrote
    <3>4. QED
      BY <2>1, <2>3, <3>1, <3>2, <3>3
  <2>4. QED
    BY <2>2, <2>3
<1>26. UnderwayInv'
  <2>1. \A s : ReadIn(s)' <=> ReadIn(s)
    BY <1>2 DEF ReadIn
  <2>2. \A x \in Places' : /\ At(x)'.epoch = point /\ ReadIn(At(x)'.source)
                           /\ x[1] # "part" => At(x)'.part = FileOf(SinkParts, At(x)'.source, point)
    BY <1>1, <1>23 DEF UnderwayInv
  <2>3. \A x, y \in Places' : At(x)'.source = At(y)'.source => x = y
    BY <1>1, <1>23 DEF UnderwayInv
  <2>4. ASSUME NEW s \in Sources, ReadIn(s)
        PROVE  (\E x \in Places' : At(x)'.source = s) \/ \E p \in SinkParts : Wrote(p, s)'
    <3>1. CASE \E p \in SinkParts : Wrote(p, s)
      BY <1>25, <3>1
    <3>2. CASE \E x \in Places : At(x).source = s
      <4>1. PICK x \in Places : At(x).source = s
        BY <3>2
      <4>2. CASE x \in Places'
        BY <1>23, <4>1, <4>2
      <4>3. CASE \E i \in DOMAIN b : x = <<"out", w, i>>
        <5>1. PICK i \in DOMAIN b : x = <<"out", w, i>>
          BY <4>3
        <5>2. b[i].source = s /\ b[i].part \in SinkParts
          BY <1>12, <4>1, <5>1
        <5>3. QED
          BY <1>25, <5>2
      <4>4. QED
        BY <1>24, <4>2, <4>3
    <3>3. QED
      BY <1>1, <2>4, <3>1, <3>2 DEF UnderwayInv
  <2>5. ASSUME NEW s \in Sources, NEW p \in SinkParts, Wrote(p, s)'
        PROVE  ReadIn(s) /\ \A x \in Places' : At(x)'.source # s
    <3>1. CASE Wrote(p, s)
      BY <1>1, <1>23, <3>1 DEF UnderwayInv
    <3>2. CASE \E j \in DOMAIN b : b[j].source = s /\ b[j].part = p
      <4>1. PICK j \in DOMAIN b : b[j].source = s
        BY <3>2
      <4>2. ReadIn(s)
        BY <1>12, <4>1
      <4>3. ASSUME NEW x \in Places', At(x)'.source = s
            PROVE  FALSE
        <5>1. x \in Places /\ At(x).source = b[j].source
          BY <1>23, <4>1, <4>3
        <5>2. x = <<"out", w, j>>
          BY <1>13, <5>1
        <5>3. QED
          BY <1>23, <5>2
      <4>4. QED
        BY <4>2, <4>3
    <3>3. QED
      BY <1>25, <2>5, <3>1, <3>2
  <2>6. QED
    BY <1>2, <2>1, <2>2, <2>3, <2>4, <2>5 DEF UnderwayInv
<1>27. WrittenInv'
  <2>1. ASSUME NEW v \in AllWorkers, NEW p \in open'[v]
        PROVE  /\ UpTo(file'[p], p, point')
               /\ (\E s \in Sources : Wrote(p, s)') =>
                    p \in awoken'[v] \/ \E m \in snapq' \cup rows' : m.part = p /\ m.epoch = point'
    <3>1. file' = r.file /\ snapq' = snapq
      BY <1>17 DEF To
    <3>2. CASE v = w
      <4>1. p \in r.open /\ p \in SinkParts /\ awoken'[v] = r.awoken
        BY <1>17, <2>1, <3>2 DEF To
      <4>2. UpTo(r.file[p], p, point)
        BY <1>17, <4>1
      <4>3. ASSUME NEW s \in Sources, Wrote(p, s)', p \notin r.awoken
            PROVE  \E m \in snapq \cup rows : m.part = p /\ m.epoch = point
        <5>1. p \in open[w] /\ r.file[p] = file[p]
          BY <1>17, <4>1, <4>3
        <5>2. Wrote(p, s)
          <6>1. <<s, point>> \in Among(r.file[p], Len(r.file[p]))
            BY <4>3, WroteAfter
          <6>2. QED
            BY <5>1, <6>1 DEF Wrote
        <5>3. p \notin awoken[w]
          BY <1>17, <4>3
        <5>4. QED
          BY <1>1, <5>1, <5>2, <5>3 DEF WrittenInv
      <4>4. QED
        BY <1>2, <3>1, <4>1, <4>2, <4>3
    <3>3. CASE v # w
      <4>1. p \in open[v] /\ p \notin r.open /\ awoken'[v] = awoken[v]
        BY <2>1, <3>3 DEF To
      <4>2. p \in SinkParts /\ r.file[p] = file[p]
        BY <1>11, <1>17, <4>1
      <4>3. ASSUME NEW s \in Sources, Wrote(p, s)'
            PROVE  Wrote(p, s)
        <5>1. \A j \in DOMAIN b : b[j].part # p
          BY <1>8, <1>17, <4>1
        <5>2. QED
          BY <1>25, <4>2, <4>3, <5>1
      <4>4. UpTo(file[p], p, point)
        BY <1>1, <4>1 DEF WrittenInv
      <4>5. (\E s \in Sources : Wrote(p, s)) =>
              p \in awoken[v] \/ \E m \in snapq \cup rows : m.part = p /\ m.epoch = point
        BY <1>1, <4>1 DEF WrittenInv
      <4>6. QED
        BY <1>2, <3>1, <4>1, <4>2, <4>3, <4>4, <4>5
    <3>4. QED
      BY <3>2, <3>3
  <2>2. QED
    BY <2>1 DEF WrittenInv
<1>28. QED
  BY <1>19, <1>20, <1>21, <1>22, <1>26, <1>27 DEF FilesInv

(* The resume epoch is over when what is still to come is of a later one. *)
LEMMA EpochOver ==
  ASSUME OutputInv, RowsInv, PlacesInv, UnderwayInv, WrittenInv, \A g \in OutIn : point < g
  PROVE  /\ Places = {} /\ \A s \in Sources : src[s] # {point}
         /\ \A p \in SinkParts : \A v \in AllWorkers : p \in open[v] =>
              Len(file[p]) \in Nat /\ Len(file[p]) = Count(p, point + 1)
<1>1. point \notin OutIn
  BY PointIs
<1>2. ASSUME NEW x \in Places
      PROVE  FALSE
  <2>1. PICK v \in AllWorkers, i \in Nat :
          x = <<"part", v, i>> \/ x = <<"route", v, i>> \/ x = <<"out", v, i>>
    BY PlacesAre DEF PlaceFacts
  <2>2. At(x).epoch = point
    BY DEF UnderwayInv
  <2>3. CASE v \in ws
    <3>1. CASE x = <<"part", v, i>>
      BY <1>1, <1>2, <2>2, <2>3, <3>1, PlacesAre, ItemsAreInFront DEF PlaceFacts
    <3>2. CASE x = <<"route", v, i>>
      BY <1>1, <1>2, <2>2, <2>3, <3>2, PlacesAre, ItemsAreInFront DEF PlaceFacts
    <3>3. CASE x = <<"out", v, i>>
      BY <1>1, <1>2, <2>2, <2>3, <3>3, PlacesAre, FrontHas DEF PlaceFacts
    <3>4. QED
      BY <2>1, <3>1, <3>2, <3>3
  <2>4. CASE v \notin ws
    <3>1. toPart[v] = <<>> /\ toRoute[v] = <<>> /\ toOut[v] = <<>>
      BY <2>4 DEF PlacesInv
    <3>2. i \notin DOMAIN <<>>
      OBVIOUS
    <3>3. CASE x = <<"part", v, i>>
      BY <1>2, <3>1, <3>2, <3>3, PlacesAre DEF PlaceFacts
    <3>4. CASE x = <<"route", v, i>>
      BY <1>2, <3>1, <3>2, <3>4, PlacesAre DEF PlaceFacts
    <3>5. CASE x = <<"out", v, i>>
      BY <1>2, <3>1, <3>2, <3>5, PlacesAre DEF PlaceFacts
    <3>6. QED
      BY <2>1, <3>3, <3>4, <3>5
  <2>5. QED
    BY <2>3, <2>4
<1>3. Places = {}
  BY <1>2
<1>4. \A s \in Sources : src[s] # {point}
  BY <1>1, SourcesFront
<1>5. ASSUME NEW p \in SinkParts, NEW v \in AllWorkers, p \in open[v]
      PROVE  Len(file[p]) \in Nat /\ Len(file[p]) = Count(p, point + 1)
  <2>1. Among(file[p], Len(file[p])) = Belongs(p, point + 1)
    BY <1>3, <1>4, <1>5, AllWritten
  <2>2. InOrder(file[p], Len(file[p]))
    BY <1>5 DEF WrittenInv, UpTo
  <2>3. file[p] \in Seq(Sources \X Nat)
    BY DEF RowsInv
  <2>4. Len(file[p]) \in Nat
    BY <2>3
  <2>5. Cardinality(Among(file[p], Len(file[p]))) = Len(file[p])
    BY <2>2, <2>4, LengthIs
  <2>6. QED
    BY <2>1, <2>4, <2>5 DEF Count
<1>6. QED
  BY <1>3, <1>4, <1>5

(* Nothing is written; the resume epoch may be over. *)
LEMMA OutputQuiet ==
  ASSUME FilesInv, OutputInv, OutputInv', NEW w \in AllWorkers, w \in ws,
         NEW view, NEW st, NEW r, Seen(w, view), From(w, st), To(w, view, r),
         r = ForEach(st, view), ~ Behindhand, toOut[w] = <<>>
  PROVE  FilesInv'
<1>1. RowsInv /\ PlacesInv /\ FrontInv /\ UnderwayInv /\ LoadsInv /\ WrittenInv
  BY DEF FilesInv
<1>2. /\ ws' = ws /\ src' = src /\ rows' = rows /\ point' = point
      /\ UNCHANGED <<loading, toPart, toRoute>>
  BY DEF To
<1>3. point \in Nat \ {0} /\ point \in Nat /\ point + 1 \in Nat /\ point \in Epoch /\ point >= 1
  BY PointIs
<1>4. /\ \A v \in AllWorkers : loads[v] = {} /\ loadsOut[v] = {} /\ loadsBuf[v] = {}
      /\ \A q \in RecParts : cursor[q].done
      /\ \A v \in AllWorkers : \A c \in cap[v] : c \in Nat /\ point <= c
      /\ \A v \in AllWorkers : queue[v] \subseteq {point}
      /\ st.queue \subseteq {point} /\ st.loads = {}
  BY <1>1, AheadIs
<1>5. /\ DOMAIN st = Fields /\ st.inbuf = <<>>
      /\ st.open = open[w] /\ st.awoken = awoken[w] /\ st.file = file /\ st.snaps = snapq
      /\ queue[w] \subseteq st.queue
  BY DEF From
<1>6. PICK gone : gone = Closed(st, view)
  OBVIOUS
<1>7. /\ r.file = file /\ r.inbuf = <<>> /\ r.loads = {}
      /\ r.queue = st.queue \ gone
      /\ r.open = IF view = {} THEN {} ELSE open[w]
      /\ gone = {} => r.awoken = awoken[w] /\ r.snaps = snapq
      /\ gone # {} => r.awoken = {} /\ r.snaps = snapq \cup Snaps(st, point)
  BY <1>3, <1>4, <1>5, <1>6, ForEachNoItems
<1>8. \A v \in AllWorkers : open[v] \subseteq SinkParts /\ awoken[v] \subseteq open[v]
  BY DEF OutputInv, QueuesInv, AwokenInv
<1>9. ASSUME \A g \in OutIn : point < g
      PROVE  /\ Places = {} /\ \A s \in Sources : src[s] # {point}
             /\ \A p \in SinkParts : \A v \in AllWorkers : p \in open[v] =>
                  Len(file[p]) \in Nat /\ Len(file[p]) = Count(p, point + 1)
  BY <1>1, <1>9, EpochOver
<1>10. OutIn \subseteq Nat
  BY FrontIs, EpochIs
<1>11. ASSUME gone # {}
       PROVE  /\ gone = {point} /\ \A g \in OutIn : point < g
  <2>1. gone \subseteq {point} /\ IsClosed(view, point)
    BY <1>4, <1>6, <1>11 DEF Closed
  <2>2. CASE view = {} /\ OutIn = {}
    BY <1>11, <2>1, <2>2
  <2>3. CASE \E f \in Nat : view = {f} /\ \A g \in OutIn : f <= g
    <3>1. PICK f \in Nat : view = {f} /\ \A g \in OutIn : f <= g
      BY <2>3
    <3>2. point < f
      BY <2>1, <3>1 DEF IsClosed
    <3>3. \A g \in OutIn : point < g
      BY <1>3, <1>10, <3>1, <3>2
    <3>4. QED
      BY <1>11, <2>1, <3>3
  <2>4. QED
    BY <2>2, <2>3 DEF Seen
<1>12. ASSUME view = {}
       PROVE  /\ OutIn = {} /\ Places = {}
              /\ \A s \in Sources : src[s] = {} /\ ~ ReadIn(s)
  <2>1. OutIn = {}
    BY <1>12 DEF Seen
  <2>2. Places = {}
    BY <1>9, <2>1
  <2>3. ASSUME NEW s \in Sources
        PROVE  src[s] = {} /\ ~ ReadIn(s)
    <3>1. src[s] = {}
      BY <2>1, SourcesFront
    <3>2. Len(Script[s]) < point
      BY <1>1, <3>1 DEF FrontInv
    <3>3. Len(Script[s]) \in Nat
      BY OutputAssumption
    <3>4. ~ (point <= Len(Script[s]))
      BY <1>3, <3>2, <3>3
    <3>5. QED
      BY <3>1, <3>4 DEF ReadIn
  <2>4. QED
    BY <2>1, <2>2, <2>3
(* The snapshots of the written files. *)
<1>13. ASSUME NEW m \in r.snaps, m \notin snapq
       PROVE  m \in Row /\ m.epoch = point /\ m.offset = Count(m.part, point + 1)
  <2>1. gone # {} /\ m \in Snaps(st, point)
    BY <1>7, <1>13
  <2>2. PICK p \in awoken[w] : m = [part |-> p, epoch |-> point, offset |-> Len(file[p])]
    BY <1>5, <2>1 DEF Snaps
  <2>3. p \in open[w] /\ p \in SinkParts
    BY <1>8
  <2>4. Len(file[p]) \in Nat /\ Len(file[p]) = Count(p, point + 1)
    BY <1>9, <1>11, <2>1, <2>3
  <2>5. m.part = p /\ m.epoch = point /\ m.offset = Len(file[p])
    BY <2>2
  <2>6. m \in Row
    BY <1>3, <2>2, <2>3, <2>4 DEF Row
  <2>7. QED
    BY <2>4, <2>5, <2>6
<1>14. snapq \subseteq r.snaps
  BY <1>7
<1>15. file' = file /\ snapq' = r.snaps /\ toOut'[w] = <<>> /\ open'[w] = r.open
  BY <1>7 DEF To
<1>16. RowsInv'
  <2>1. \A m \in r.snaps : m \in Row /\ m.offset = Count(m.part, m.epoch + 1)
    <3>1. ASSUME NEW m \in r.snaps
          PROVE  m \in Row /\ m.offset = Count(m.part, m.epoch + 1)
      <4>1. CASE m \in snapq
        BY <1>1, <4>1 DEF RowsInv
      <4>2. CASE m \notin snapq
        BY <1>13, <4>2
      <4>3. QED
        BY <4>1, <4>2
    <3>2. QED
      BY <3>1
  <2>2. QED
    BY <1>1, <1>2, <1>15, <2>1 DEF RowsInv
<1>17. PlacesInv'
  BY <1>1, <1>7, AheadPlaces
<1>18. FrontInv'
  <2>1. ASSUME NEW e \in r.queue
        PROVE  \E c \in view : c <= e
    <3>1. e = point /\ e \notin gone /\ e \in st.queue
      BY <1>4, <1>7
    <3>2. ~ IsClosed(view, point)
      BY <1>6, <3>1 DEF Closed
    <3>3. PICK c \in view : ~ (point < c)
      BY <3>2 DEF IsClosed
    <3>4. c \in Nat
      BY <3>3 DEF Seen
    <3>5. QED
      BY <1>3, <3>1, <3>3, <3>4
  <2>2. ASSUME NEW c \in view, c < point
        PROVE  FALSE
    <3>1. PICK f \in Nat : view = {f} /\ \E d \in cap[w] : d <= f
      BY <2>2 DEF Seen
    <3>2. PICK d \in cap[w] : d <= f
      BY <3>1
    <3>3. d \in Nat /\ point <= d
      BY <1>4
    <3>4. c = f
      BY <3>1
    <3>5. QED
      BY <1>3, <2>2, <3>2, <3>3, <3>4
  <2>3. ASSUME r.awoken # {}
        PROVE  point \in r.queue
    <3>1. gone = {} /\ awoken[w] # {}
      BY <1>7, <2>3
    <3>2. point \in queue[w]
      BY <1>1, <3>1 DEF FrontInv
    <3>3. QED
      BY <1>5, <1>7, <3>1, <3>2
  <2>4. \A m \in r.snaps : m.epoch = point
    BY <1>1, <1>13 DEF FrontInv
  <2>5. r.queue \subseteq {point}
    BY <1>4, <1>7
  <2>6. QED
    BY <1>1, <1>7, <1>12, <2>1, <2>2, <2>3, <2>4, <2>5, AheadFront
<1>19. LoadsInv'
  BY <1>1, <1>7, <1>12, AheadLoads
<1>20. /\ Places' = Places /\ \A x : At(x)' = At(x)
       /\ \A s : ReadIn(s)' <=> ReadIn(s)
  <2>1. toOut' = toOut
    <3>1. toOut \in [AllWorkers -> Seq(AtRoute)]
      BY DEF OutputInv, QueuesInv
    <3>2. toOut' \in [AllWorkers -> Seq(AtRoute)]
      BY DEF OutputInv, QueuesInv
    <3>3. \A v \in AllWorkers : toOut'[v] = toOut[v]
      BY <1>15 DEF To
    <3>4. QED
      BY <3>1, <3>2, <3>3
  <2>2. QED
    BY <1>2, <2>1 DEF Places, At, Under, ReadIn
<1>21. \A v \in AllWorkers : open'[v] \subseteq open[v] /\ (view # {} => open'[v] = open[v])
  BY <1>7 DEF To
<1>22. \A p, s : Wrote(p, s)' => Wrote(p, s)
  BY <1>2, <1>15, <1>21 DEF Wrote
<1>23. UnderwayInv'
  <2>1. CASE view = {}
    <3>1. \A s \in Sources : \A p \in SinkParts : ~ Wrote(p, s)
      BY <1>1, <1>12, <2>1 DEF UnderwayInv
    <3>2. QED
      BY <1>12, <1>20, <1>22, <2>1, <3>1 DEF UnderwayInv
  <2>2. CASE view # {}
    <3>1. \A p, s : Wrote(p, s)' <=> Wrote(p, s)
      BY <1>2, <1>15, <1>21, <2>2 DEF Wrote
    <3>2. QED
      BY <1>1, <1>2, <1>20, <3>1 DEF UnderwayInv
  <2>3. QED
    BY <2>1, <2>2
<1>24. WrittenInv'
  <2>1. ASSUME NEW v \in AllWorkers, NEW p \in open'[v]
        PROVE  /\ UpTo(file'[p], p, point')
               /\ (\E s \in Sources : Wrote(p, s)') =>
                    p \in awoken'[v] \/ \E m \in snapq' \cup rows' : m.part = p /\ m.epoch = point'
    <3>1. p \in open[v]
      BY <1>21
    <3>2. /\ UpTo(file[p], p, point)
          /\ (\E s \in Sources : Wrote(p, s)) =>
               p \in awoken[v] \/ \E m \in snapq \cup rows : m.part = p /\ m.epoch = point
      BY <1>1, <3>1 DEF WrittenInv
    <3>3. CASE awoken'[v] = awoken[v]
      BY <1>2, <1>14, <1>15, <1>22, <3>2, <3>3
    <3>4. CASE awoken'[v] # awoken[v]
      <4>1. v = w /\ awoken'[w] = r.awoken /\ gone # {}
        BY <1>7, <3>4 DEF To
      <4>2. ASSUME p \in awoken[w]
            PROVE  \E m \in snapq' : m.part = p /\ m.epoch = point
        <5>1. PICK m : m = [part |-> p, epoch |-> point, offset |-> Len(file[p])]
          OBVIOUS
        <5>2. m \in Snaps(st, point)
          BY <1>5, <4>2, <5>1 DEF Snaps
        <5>3. m \in snapq'
          BY <1>7, <1>15, <4>1, <5>2
        <5>4. QED
          BY <5>1, <5>3
      <4>3. QED
        BY <1>2, <1>14, <1>15, <1>22, <3>2, <4>1, <4>2
    <3>5. QED
      BY <3>3, <3>4
  <2>2. QED
    BY <2>1 DEF WrittenInv
<1>25. QED
  BY <1>16, <1>17, <1>18, <1>19, <1>23, <1>24 DEF FilesInv

LEMMA OutputFiles ==
  ASSUME FilesInv, OutputInv, OutputInv', NEW w \in AllWorkers, Output(w)
  PROVE  FilesInv'
<1>1. PICK view, st, r : /\ w \in ws /\ Seen(w, view) /\ From(w, st) /\ To(w, view, r)
                         /\ r = ForEach(st, view)
                         /\ toOut[w] # <<>> \/ loadsOut[w] # {} \/ view # cap[w]
  BY OutputIs
<1>2. CASE Behindhand
  BY <1>1, <1>2, OutputBehind
<1>3. CASE ~ Behindhand /\ toOut[w] # <<>>
  BY <1>1, <1>3, OutputItems
<1>4. CASE ~ Behindhand /\ toOut[w] = <<>>
  BY <1>1, <1>4, OutputQuiet
<1>5. QED
  BY <1>2, <1>3, <1>4

-----------------------------------------------------------------------------
(* Snapshots are written and the frontier moves on. *)

LEMMA WriteSnapFiles ==
  ASSUME FilesInv, OutputInv, WriteSnap
  PROVE  FilesInv'
<1>1. PICK m \in snapq :
        /\ rows' = {n \in rows : <<n.part, n.epoch>> # <<m.part, m.epoch>>} \cup {m}
        /\ snapq' = snapq \ {m}
  BY DEF WriteSnap
<1>2. UNCHANGED <<ws, known, loading, items, output, file, point>>
  BY DEF WriteSnap, routing
<1>3. RowsInv /\ PlacesInv
  BY DEF FilesInv
<1>4. ws # {}
  BY <1>1, <1>3 DEF PlacesInv
<1>5. FrontInv /\ UnderwayInv /\ LoadsInv /\ WrittenInv
  BY <1>4 DEF FilesInv
<1>6. m \in Row /\ m.offset = Count(m.part, m.epoch + 1) /\ m.epoch = point
  BY <1>1, <1>3, <1>5 DEF RowsInv, FrontInv
<1>7. point \in Nat
  BY PointIs
(* The rows of each key and epoch before are the same, and one is new. *)
<1>8. /\ rows' \subseteq rows \cup {m}
      /\ \A k \in rows : k.epoch # point => k \in rows'
      /\ \A k \in rows : \E n \in rows' : n.part = k.part /\ n.epoch = k.epoch
      /\ m \in rows'
  <2>1. ASSUME NEW k \in rows
        PROVE  \E n \in rows' : n.part = k.part /\ n.epoch = k.epoch
    <3>1. CASE k \in rows'
      BY <3>1
    <3>2. CASE k \notin rows'
      <4>1. <<k.part, k.epoch>> = <<m.part, m.epoch>>
        BY <1>1, <3>2
      <4>2. m \in rows' /\ k.part = m.part /\ k.epoch = m.epoch
        BY <1>1, <4>1
      <4>3. QED
        BY <4>2
    <3>3. QED
      BY <3>1, <3>2
  <2>2. \A k \in rows : k.epoch # point => k \in rows'
    BY <1>1, <1>6
  <2>3. rows' \subseteq rows \cup {m} /\ m \in rows'
    BY <1>1
  <2>4. QED
    BY <2>1, <2>2, <2>3
<1>9. RowsInv'
  <2>1. ASSUME NEW p \in SinkParts, NEW i \in Belongs(p, point)
        PROVE  \E n \in rows' : n.part = p /\ n.epoch = i[2]
    <3>1. PICK k \in rows : k.part = p /\ k.epoch = i[2]
      BY <1>3 DEF RowsInv
    <3>2. QED
      BY <1>8, <3>1
  <2>2. rows' \cup snapq' \subseteq rows \cup snapq
    BY <1>1
  <2>3. /\ rows' \subseteq Row /\ snapq' \subseteq Row
        /\ \A k \in rows' \cup snapq' : k.offset = Count(k.part, k.epoch + 1)
    BY <1>1, <1>3, <2>2 DEF RowsInv
  <2>4. QED
    BY <1>2, <1>3, <2>1, <2>3 DEF RowsInv
<1>10. PlacesInv'
  BY <1>2, <1>3, <1>4 DEF PlacesInv, loading, items, output
<1>11. FrontInv'
  <2>1. ~ Behindhand
    BY <1>1, <1>5 DEF FrontInv, Quiet
  <2>2. ~ Behindhand'
    BY <1>2, <2>1 DEF Behindhand, loading, output
  <2>3. \A n \in snapq' : n.epoch = point
    BY <1>1, <1>5 DEF FrontInv
  <2>4. QED
    BY <1>2, <1>5, <2>2, <2>3 DEF FrontInv, items, output
<1>12. UnderwayInv'
  BY <1>2, <1>5, UnderwaySame DEF output
<1>13. \A r : LastRows(r, point)' = LastRows(r, point)
  <2>1. \A k \in Row : k.epoch \in Nat
    BY EpochIs DEF Row
  <2>2. \A k \in rows : k.epoch < point => k.epoch # point
    BY <1>3, <1>7, <2>1 DEF RowsInv
  <2>3. ~ (m.epoch < point)
    BY <1>6, <1>7
  <2>4. {k \in rows' : k.epoch < point} = {k \in rows : k.epoch < point}
    BY <1>8, <2>2, <2>3
  <2>5. ASSUME NEW r
        PROVE  LastRows(r, point)' = LastRows(r, point)
    <3>1. \A k : k \in rows' /\ k.epoch < point <=> k \in rows /\ k.epoch < point
      BY <2>4
    <3>2. \A k : k \in LastRows(r, point)' <=>
                   /\ k \in rows' /\ RecOf[k.part] = r /\ k.epoch < point
                   /\ \A n \in rows' : n.part = k.part /\ n.epoch < point => n.epoch <= k.epoch
      BY <1>2 DEF LastRows
    <3>3. \A k : k \in LastRows(r, point) <=>
                   /\ k \in rows /\ RecOf[k.part] = r /\ k.epoch < point
                   /\ \A n \in rows : n.part = k.part /\ n.epoch < point => n.epoch <= k.epoch
      BY DEF LastRows
    <3>4. \A k : k \in LastRows(r, point)' <=> k \in LastRows(r, point)
      BY <3>1, <3>2, <3>3
    <3>5. LastRows(r, point)' = {k \in rows' : k \in LastRows(r, point)'}
      BY <1>2 DEF LastRows
    <3>6. LastRows(r, point) = {k \in rows : k \in LastRows(r, point)}
      BY DEF LastRows
    <3>7. QED
      BY <3>4, <3>5, <3>6
  <2>6. QED
    BY <2>5
<1>14. LoadsInv'
  <2>1. \A p : Loading(p)' <=> Loading(p)
    <3>1. ASSUME NEW p
          PROVE  Loading(p)' <=> Loading(p)
      <4>1. PICK L : L = LastRows(RecOf[p], point)
        OBVIOUS
      <4>2. LastRows(RecOf[p], point)' = L
        BY <1>13, <4>1
      <4>3. Loading(p) <=>
              \E k \in L :
                /\ k.part = p
                /\ \/ ~ cursor[RecOf[p]].done /\ Behind(cursor[RecOf[p]], p)
                   \/ \E w \in AllWorkers : k \in loads[w] \cup loadsOut[w] \cup loadsBuf[w]
        BY <4>1 DEF Loading
      <4>4. Loading(p)' <=>
              \E k \in L :
                /\ k.part = p
                /\ \/ ~ cursor'[RecOf[p]].done /\ Behind(cursor'[RecOf[p]], p)
                   \/ \E w \in AllWorkers : k \in loads'[w] \cup loadsOut'[w] \cup loadsBuf'[w]
        BY <4>2 DEF Loading, Behind
      <4>5. QED
        BY <1>2, <4>3, <4>4 DEF loading, output
    <3>2. QED
      BY <3>1
  <2>2. QED
    BY <1>2, <1>5, <2>1 DEF LoadsInv, loading, items, output
<1>15. WrittenInv'
  <2>1. \A p, s : Wrote(p, s)' <=> Wrote(p, s)
    BY <1>2, WroteSame DEF output
  <2>2. ASSUME NEW p, NEW k \in snapq \cup rows, k.part = p, k.epoch = point
        PROVE  \E n \in snapq' \cup rows' : n.part = p /\ n.epoch = point
    <3>1. CASE k \in rows
      BY <1>8, <2>2, <3>1
    <3>2. CASE k \in snapq
      BY <1>1, <2>2, <3>2
    <3>3. QED
      BY <2>2, <3>1, <3>2
  <2>3. ASSUME NEW v \in AllWorkers, NEW p \in open'[v]
        PROVE  /\ UpTo(file'[p], p, point')
               /\ (\E s \in Sources : Wrote(p, s)') =>
                    p \in awoken'[v] \/ \E n \in snapq' \cup rows' : n.part = p /\ n.epoch = point'
    <3>1. open' = open /\ awoken' = awoken /\ file' = file /\ point' = point
      BY <1>2 DEF output
    <3>2. /\ UpTo(file[p], p, point)
          /\ (\E s \in Sources : Wrote(p, s)) =>
               p \in awoken[v] \/ \E n \in snapq \cup rows : n.part = p /\ n.epoch = point
      BY <1>5, <2>3, <3>1 DEF WrittenInv
    <3>3. QED
      BY <2>1, <2>2, <3>1, <3>2
  <2>4. QED
    BY <2>3 DEF WrittenInv
<1>16. QED
  BY <1>9, <1>10, <1>11, <1>12, <1>14, <1>15 DEF FilesInv

LEMMA AdvanceFiles ==
  ASSUME FilesInv, OutputInv, Advance
  PROVE  FilesInv'
<1>1. PICK f : /\ f \in IF SnapsFront = {} THEN {LastEpoch + 1} ELSE Simplify(SnapsFront)
               /\ f > point /\ point' = f
  BY DEF Advance
<1>2. UNCHANGED <<ws, known, loading, items, output, snapq, file, rows>> /\ ws # {}
  BY DEF Advance, routing
<1>3. RowsInv /\ PlacesInv /\ FrontInv /\ UnderwayInv /\ LoadsInv /\ WrittenInv
  BY <1>2 DEF FilesInv
<1>4. /\ point \in Nat \ {0} /\ point \in Nat /\ point + 1 \in Nat \ {0} /\ point + 1 \in Nat
      /\ point < point + 1 /\ LastEpoch \in Nat
  BY PointIs
<1>5. SnapsFront \in SUBSET Nat /\ SnapsFront \subseteq Epoch
  BY FrontIs, EpochIs
<1>6. f \in Nat /\ f <= LastEpoch + 1 /\ \A g \in SnapsFront : f <= g /\ point < g
  <2>1. CASE SnapsFront = {}
    BY <1>1, <1>4, <2>1
  <2>2. CASE SnapsFront # {}
    <3>1. f \in Simplify(SnapsFront)
      BY <1>1, <2>2
    <3>2. f \in SnapsFront /\ \A g \in SnapsFront : f <= g
      BY <1>5, <2>2, <3>1, LeastIs
    <3>3. f \in Nat /\ f <= LastEpoch + 1
      BY <1>5, <3>2, EpochIs
    <3>4. \A g \in SnapsFront : point < g
      BY <1>1, <1>4, <1>5, <3>2, <3>3
    <3>5. QED
      BY <3>2, <3>3, <3>4
  <2>3. QED
    BY <2>1, <2>2
<1>7. OutIn \subseteq SnapsFront
  BY DEF SnapsFront
<1>8. \A g \in OutIn : point < g
  BY <1>6, <1>7
<1>9. ~ Behindhand
  <2>1. ~ LessThan(SnapsFront, point)
    BY <1>4, <1>5, <1>6 DEF LessThan
  <2>2. QED
    BY <1>3, <2>1, CaughtUp
<1>10. /\ Places = {} /\ \A s \in Sources : src[s] # {point}
       /\ \A p \in SinkParts : \A v \in AllWorkers : p \in open[v] =>
            Len(file[p]) \in Nat /\ Len(file[p]) = Count(p, point + 1)
  BY <1>3, <1>8, EpochOver
<1>11. /\ \A v \in AllWorkers : loads[v] = {} /\ loadsOut[v] = {} /\ loadsBuf[v] = {}
       /\ \A q \in RecParts : cursor[q].done
  BY <1>9 DEF Behindhand
<1>12. ASSUME NEW v \in AllWorkers
       PROVE  /\ \A c \in cap[v] : c \in Nat /\ point < c
              /\ queue[v] = {} /\ awoken[v] = {}
  <2>1. \A c \in cap[v] : c \in SnapsFront
    <3>1. CASE v \in ws
      BY <3>1, FrontHas
    <3>2. CASE v \notin ws
      BY <1>3, <3>2 DEF PlacesInv
    <3>3. QED
      BY <3>1, <3>2
  <2>2. \A c \in cap[v] : c \in Nat /\ point < c
    BY <1>5, <1>6, <2>1
  <2>3. ASSUME NEW e \in queue[v]
        PROVE  FALSE
    <3>1. e <= point /\ \E c \in cap[v] : c <= e
      BY <1>3 DEF FrontInv
    <3>2. e \in Nat
      BY EpochIs DEF OutputInv, QueuesInv
    <3>3. PICK c \in cap[v] : c <= e
      BY <3>1
    <3>4. QED
      BY <1>4, <2>2, <3>1, <3>2, <3>3
  <2>4. queue[v] = {}
    BY <2>3
  <2>5. awoken[v] = {}
    BY <2>4 DEF OutputInv, AwokenInv
  <2>6. QED
    BY <2>2, <2>4, <2>5
<1>13. snapq = {}
  <2>1. ASSUME NEW m \in snapq
        PROVE  FALSE
    <3>1. m.epoch = point
      BY <1>3 DEF FrontInv
    <3>2. m.epoch \in SnapsFront
      BY <1>2, FrontHas
    <3>3. QED
      BY <1>4, <1>6, <3>1, <3>2
  <2>2. QED
    BY <2>1
(* The frontier moves on by one epoch: a source waits for that. *)
<1>14. PICK z \in Sources : src[z] = {point + 1}
  <2>1. \A s \in Sources : \/ src[s] = {point + 1}
                           \/ src[s] = {} /\ Len(Script[s]) < point
    BY <1>3, <1>10 DEF FrontInv
  <2>2. PICK s \in Sources : LastEpoch = Len(Script[s])
    BY LastEpochIs
  <2>3. ~ (LastEpoch < point)
    BY <1>1, <1>4, <1>6
  <2>4. src[s] = {point + 1}
    BY <2>1, <2>2, <2>3
  <2>5. QED
    BY <2>4
<1>15. f = point + 1 /\ point' = point + 1
  <2>1. point + 1 \in SnapsFront
    BY <1>7, <1>14, SourcesFront
  <2>2. f <= point + 1
    BY <1>6, <2>1
  <2>3. QED
    BY <1>1, <1>4, <1>6, <2>2
<1>16. \A s \in Sources : \/ src[s] = {point + 1}
                          \/ src[s] = {} /\ Len(Script[s]) < point + 1 /\ ~ (point + 1 <= Len(Script[s]))
  <2>1. ASSUME NEW s \in Sources, src[s] # {point + 1}
        PROVE  src[s] = {} /\ Len(Script[s]) < point + 1 /\ ~ (point + 1 <= Len(Script[s]))
    <3>1. src[s] = {} /\ Len(Script[s]) < point
      BY <1>3, <1>10, <2>1 DEF FrontInv
    <3>2. Len(Script[s]) \in Nat
      BY OutputAssumption
    <3>3. QED
      BY <1>4, <3>1, <3>2
  <2>2. QED
    BY <2>1
<1>17. \A v \in AllWorkers : open[v] \subseteq SinkParts
  BY DEF OutputInv, QueuesInv
(* The files have all of the epoch that is over. *)
<1>18. ASSUME NEW p \in SinkParts
       PROVE  /\ \A s \in Sources : <<s, point>> \in Belongs(p, point + 1) => Wrote(p, s)
              /\ Belongs(p, point + 1) # Belongs(p, point) => \E v \in AllWorkers : p \in open[v]
              /\ \A v \in AllWorkers : p \in open[v] =>
                   /\ Among(file[p], Len(file[p])) = Belongs(p, point + 1)
                   /\ InOrder(file[p], Len(file[p]))
  <2>1. /\ \A s \in Sources : <<s, point>> \in Belongs(p, point + 1) => Wrote(p, s)
        /\ Belongs(p, point + 1) # Belongs(p, point) => \E v \in AllWorkers : p \in open[v]
        /\ \A v \in AllWorkers : p \in open[v] =>
             Among(file[p], Len(file[p])) = Belongs(p, point + 1)
    BY <1>3, <1>10, AllWritten
  <2>2. \A v \in AllWorkers : p \in open[v] => InOrder(file[p], Len(file[p]))
    BY <1>3 DEF WrittenInv, UpTo
  <2>3. QED
    BY <2>1, <2>2
<1>19. PICK n \in Nat \ {0} : n = point + 1 /\ n \in Nat /\ n + 1 \in Nat
  BY <1>4
<1>20. point' = n
  BY <1>15, <1>19
<1>21. RowsInv'
  <2>1. ASSUME NEW p \in SinkParts, NEW i \in Belongs(p, n)
        PROVE  \E m \in rows : m.part = p /\ m.epoch = i[2]
    <3>1. CASE i \in Belongs(p, point)
      BY <1>3, <3>1 DEF RowsInv
    <3>2. CASE i \notin Belongs(p, point)
      <4>1. PICK s \in Sources : i = <<s, point>>
        BY <1>4, <1>19, <2>1, <3>2, BelongsNext
      <4>2. Wrote(p, s)
        BY <1>18, <1>19, <2>1, <4>1
      <4>3. PICK v \in AllWorkers : p \in open[v]
        BY <4>2 DEF Wrote
      <4>4. p \in awoken[v] \/ \E m \in snapq \cup rows : m.part = p /\ m.epoch = point
        BY <1>3, <4>2, <4>3 DEF WrittenInv
      <4>5. \E m \in rows : m.part = p /\ m.epoch = point
        BY <1>12, <1>13, <4>4
      <4>6. i[2] = point
        BY <4>1
      <4>7. QED
        BY <4>5, <4>6
    <3>3. QED
      BY <3>1, <3>2
  <2>2. ASSUME NEW p \in SinkParts
        PROVE  CutAt(file[p], p, n)
    <3>1. CASE \E v \in AllWorkers : p \in open[v]
      <4>1. file[p] \in Seq(Sources \X Nat)
        BY <1>3 DEF RowsInv
      <4>2. Among(file[p], Len(file[p])) = Belongs(p, n) /\ InOrder(file[p], Len(file[p]))
        BY <1>18, <1>19, <3>1
      <4>3. QED
        BY <4>1, <4>2, ExactIsCut
    <3>2. CASE ~ \E v \in AllWorkers : p \in open[v]
      <4>1. Belongs(p, n) = Belongs(p, point)
        BY <1>18, <1>19, <3>2
      <4>2. CutAt(file[p], p, point)
        BY <1>3 DEF RowsInv
      <4>3. Count(p, n) = Count(p, point)
        BY <4>1 DEF Count
      <4>4. QED
        BY <4>1, <4>2, <4>3 DEF CutAt, InOrder, Among
    <3>3. QED
      BY <3>1, <3>2
  <2>3. /\ \A p \in SinkParts : \A i \in Belongs(p, point') :
             \E m \in rows' : m.part = p /\ m.epoch = i[2]
        /\ \A p \in SinkParts : CutAt(file'[p], p, point')
    BY <1>2, <1>20, <2>1, <2>2
  <2>4. QED
    BY <1>2, <1>3, <2>3 DEF RowsInv
<1>22. PlacesInv'
  BY <1>2, <1>3, PlacesSame
<1>23. FrontInv'
  <2>1. \A v \in AllWorkers : \A c \in cap[v] : ~ (c < n)
    BY <1>4, <1>12, <1>19
  <2>2. ~ Behindhand'
    BY <1>2, <1>11, <1>20, <2>1 DEF Behindhand, loading, output
  <2>3. \A s \in Sources : src[s] = {n} \/ (src[s] = {} /\ Len(Script[s]) < n)
    BY <1>16, <1>19
  <2>4. \A v \in AllWorkers : queue'[v] = {} /\ awoken'[v] = {} /\ loadsBuf'[v] = {}
    BY <1>2, <1>11, <1>12 DEF output
  <2>5. \A v \in AllWorkers : v \in ws' /\ cap'[v] = {} => \A s \in Sources : src'[s] = {}
    BY <1>2, <1>3 DEF FrontInv, output, items
  <2>6. snapq' = {} /\ src' = src
    BY <1>2, <1>13 DEF items
  <2>7. QED
    BY <1>20, <2>2, <2>3, <2>4, <2>5, <2>6 DEF FrontInv
<1>24. \A p \in SinkParts : \A s \in Sources : ~ Wrote(p, s)'
  <2>1. ASSUME NEW p \in SinkParts, NEW s \in Sources, Wrote(p, s)'
        PROVE  FALSE
    <3>1. (\E v \in AllWorkers : p \in open[v]) /\ <<s, n>> \in Among(file[p], Len(file[p]))
      BY <1>2, <1>20, <2>1 DEF Wrote, output, Among
    <3>2. <<s, n>> \in Belongs(p, n)
      BY <1>18, <1>19, <3>1
    <3>3. QED
      BY <1>19, <3>2, BelongsNext
  <2>2. QED
    BY <2>1
<1>25. UnderwayInv'
  <2>1. Places' = {}
    BY <1>2, <1>10 DEF Places, Under, items
  <2>2. \A s \in Sources : ~ ReadIn(s)'
    BY <1>2, <1>16, <1>19, <1>20 DEF ReadIn, items
  <2>3. QED
    BY <1>24, <2>1, <2>2 DEF UnderwayInv
<1>26. LoadsInv'
  <2>1. \A v \in AllWorkers : loads'[v] = {} /\ loadsOut'[v] = {} /\ loadsBuf'[v] = {}
    BY <1>2, <1>11 DEF loading, output
  <2>2. ASSUME NEW p \in SinkParts, Belongs(p, n) # {}
        PROVE  \E v \in AllWorkers : p \in open[v]
    <3>1. CASE Belongs(p, n) # Belongs(p, point)
      BY <1>18, <1>19, <3>1
    <3>2. CASE Belongs(p, n) = Belongs(p, point)
      <4>1. ~ Loading(p)
        BY <1>11, OutputAssumption DEF Loading
      <4>2. src[z] # {}
        BY <1>14
      <4>3. QED
        BY <1>3, <2>2, <3>2, <4>1, <4>2 DEF LoadsInv
    <3>3. QED
      BY <3>1, <3>2
  <2>3. open' = open
    BY <1>2 DEF output
  <2>4. \A p \in SinkParts : Belongs(p, point') # {} => \E v \in AllWorkers : p \in open'[v]
    BY <1>20, <2>2, <2>3
  <2>5. QED
    BY <2>1, <2>4 DEF LoadsInv
<1>27. WrittenInv'
  <2>1. ASSUME NEW v \in AllWorkers, NEW p \in open'[v]
        PROVE  p \in SinkParts /\ UpTo(file'[p], p, point')
    <3>1. p \in open[v] /\ p \in SinkParts
      BY <1>2, <1>17, <2>1 DEF output
    <3>2. Among(file[p], Len(file[p])) = Belongs(p, n) /\ InOrder(file[p], Len(file[p]))
      BY <1>18, <1>19, <3>1
    <3>3. Belongs(p, n) \subseteq Belongs(p, n + 1)
      BY <1>19, BelongsNext
    <3>4. UpTo(file[p], p, n)
      BY <3>2, <3>3 DEF UpTo
    <3>5. QED
      BY <1>2, <1>20, <3>1, <3>4
  <2>2. \A v \in AllWorkers : \A p \in open'[v] : \A s \in Sources : ~ Wrote(p, s)'
    BY <1>24, <2>1
  <2>3. QED
    BY <2>1, <2>2 DEF WrittenInv
<1>28. QED
  BY <1>21, <1>22, <1>23, <1>25, <1>26, <1>27 DEF FilesInv

-----------------------------------------------------------------------------
(* The theorems. *)

LEMMA NextFiles ==
  ASSUME FilesInv, OutputInv, [Next]_vars
  PROVE  FilesInv'
<1>1. OutputInv'
  BY NextInv
<1>2. CASE Start
  BY <1>1, <1>2, StartFiles
<1>3. CASE Finish
  BY <1>3, LoseFiles DEF Finish
<1>4. CASE Crash
  BY <1>4, LoseFiles DEF Crash
<1>5. CASE Assign
  <2>1. 0 \in AllWorkers
    BY OutputAssumption DEF AllWorkers
  <2>2. QED
    BY <1>5, <2>1, RoutesFiles
<1>6. CASE WriteSnap
  BY <1>6, WriteSnapFiles
<1>7. CASE Advance
  BY <1>7, AdvanceFiles
<1>8. ASSUME NEW w \in AllWorkers, Announce(w)
      PROVE  FilesInv'
  BY <1>8, RoutesFiles
<1>9. ASSUME NEW w \in AllWorkers, LearnParts(w)
      PROVE  FilesInv'
  BY <1>9, LearnPartsFiles
<1>10. ASSUME NEW w \in AllWorkers, NEW r \in Routers, LearnRoutes(r, w)
       PROVE  FilesInv'
  BY <1>10, RoutesFiles
<1>11. ASSUME NEW w \in AllWorkers, RouteLoads(w)
       PROVE  FilesInv'
  BY <1>11, RouteLoadsFiles
<1>12. ASSUME NEW w \in AllWorkers, Partition(w)
       PROVE  FilesInv'
  BY <1>12, PartitionFiles
<1>13. ASSUME NEW w \in AllWorkers, Route(w)
       PROVE  FilesInv'
  BY <1>13, RouteFiles
<1>14. ASSUME NEW w \in AllWorkers, Output(w)
       PROVE  FilesInv'
  BY <1>1, <1>14, OutputFiles
<1>15. ASSUME NEW r \in RecParts, LoadPage(r)
       PROVE  FilesInv'
  BY <1>15, LoadPageFiles
<1>16. ASSUME NEW s \in Sources, Emit(s)
       PROVE  FilesInv'
  BY <1>16, EmitFiles
<1>17. CASE UNCHANGED vars
  BY <1>17, StutterFiles
<1>18. QED
  BY <1>2, <1>3, <1>4, <1>5, <1>6, <1>7, <1>8, <1>9, <1>10, <1>11, <1>12, <1>13, <1>14,
     <1>15, <1>16, <1>17 DEF Next, Steps

(* Each item of the resume epoch is in one queue or at the end of its open  *)
(* file, behind all the older items of that file; and the rows have the     *)
(* lengths that the files had at the end of each epoch.                     *)
THEOREM FilesInvHolds == Spec => []FilesInv
<1>1. Init => FilesInv
  BY InitFiles
<1>2. FilesInv /\ OutputInv /\ [Next]_vars => FilesInv'
  BY NextFiles
<1>3. QED
  BY <1>1, <1>2, OutputInvHolds, PTL DEF Spec

(* A resume cuts every file to its items before the resume epoch, whatever  *)
(* has been written behind them and on however many workers: of the rows of *)
(* a file the last one before the resume epoch has the length it had then.  *)
THEOREM ResumeCutsFilesHolds == Spec => []ResumeCutsFiles
<1>1. OutputInv /\ FilesInv => ResumeCutsFiles
  <2>1. SUFFICES ASSUME OutputInv, FilesInv, NEW p \in SinkParts
                 PROVE  LET last == {m \in LastRows(RecOf[p], point) : m.part = p}
                            offset == IF last = {} THEN 0 ELSE (CHOOSE m \in last : TRUE).offset
                        IN  /\ offset <= Len(file[p])
                            /\ Holds(SubSeq(file[p], 1, offset), Belongs(p, point))
    BY DEF ResumeCutsFiles
  <2> DEFINE last == {m \in LastRows(RecOf[p], point) : m.part = p}
             offset == IF last = {} THEN 0 ELSE (CHOOSE m \in last : TRUE).offset
  <2>2. RowsInv
    BY <2>1 DEF FilesInv
  <2>3. offset = Count(p, point)
    <3>1. CASE last = {}
      <4>1. Belongs(p, point) = {}
        BY <2>1, <2>2, <3>1, LastRowIs
      <4>2. Count(p, point) = 0
        BY <4>1, FS_EmptySet DEF Count
      <4>3. QED
        BY <3>1, <4>2
    <3>2. CASE last # {}
      <4>1. PICK m \in last : offset = m.offset
        BY <3>2
      <4>2. m \in LastRows(RecOf[p], point) /\ m.part = p
        OBVIOUS
      <4>3. QED
        BY <2>1, <2>2, <4>1, <4>2, LastRowHas
    <3>3. QED
      BY <3>1, <3>2
  <2> HIDE DEF offset, last
  <2>4. PICK n \in Nat : n = Count(p, point)
    BY <2>1, PointIs, BelongsIs
  <2>5. CutAt(file[p], p, point)
    BY <2>2 DEF RowsInv
  <2>6. /\ file[p] \in Seq(Sources \X Nat) /\ n <= Len(file[p])
        /\ InOrder(file[p], n) /\ Among(file[p], n) = Belongs(p, point)
    BY <2>4, <2>5 DEF CutAt
  <2>7. n \in 0 .. Len(file[p])
    BY <2>6
  <2>8. Holds(SubSeq(file[p], 1, n), Belongs(p, point))
    BY <2>6, <2>7, HoldsIs
  <2>9. offset <= Len(file[p]) /\ Holds(SubSeq(file[p], 1, offset), Belongs(p, point))
    BY <2>3, <2>4, <2>6, <2>8
  <2>10. QED
    BY <2>9 DEF offset, last
<1>2. QED
  BY <1>1, OutputInvHolds, FilesInvHolds, PTL

(* A file that is open has all its items before the resume epoch, none of   *)
(* its items twice and no other, in the order of their epochs.              *)
THEOREM OpenFilesExactHolds == Spec => []OpenFilesExact
<1>1. OutputInv /\ FilesInv => OpenFilesExact
  <2>1. SUFFICES ASSUME OutputInv, FilesInv, NEW w \in ws, NEW p \in open[w]
                 PROVE  /\ Belongs(p, point) \subseteq Range(file[p])
                        /\ Holds(file[p], Range(file[p]) \cap Belongs(p, LastEpoch + 1))
    BY DEF OpenFilesExact
  <2>2. w \in AllWorkers /\ p \in SinkParts
    BY <2>1 DEF OutputInv, RoutesInv, QueuesInv
  <2>3. RowsInv /\ WrittenInv
    BY <2>1 DEF FilesInv
  <2>4. PICK f \in Seq(Sources \X Nat) : f = file[p]
    BY <2>2, <2>3 DEF RowsInv
  <2>5. UpTo(f, p, point)
    BY <2>2, <2>3, <2>4 DEF WrittenInv
  <2>6. Range(f) = Among(f, Len(f))
    BY <2>4 DEF Range, Among
  <2>7. point \in Nat /\ point + 1 \in Nat /\ LastEpoch \in Nat /\ LastEpoch + 1 \in Nat
    BY <2>1, PointIs
  <2>8. Belongs(p, point + 1) \subseteq Belongs(p, LastEpoch + 1)
    <3>1. ASSUME NEW i \in Belongs(p, point + 1)
          PROVE  i \in Belongs(p, LastEpoch + 1)
      <4>1. PICK s \in Sources, x \in Nat : i = <<s, x>>
        BY <2>7, BelongsIs
      <4>2. 1 <= x /\ x <= Len(Script[s]) /\ FileOf(SinkParts, s, x) = p
        BY <2>7, <4>1, BelongsIs
      <4>3. Len(Script[s]) \in Nat /\ Len(Script[s]) <= LastEpoch
        BY LastEpochIs, OutputAssumption
      <4>4. x < LastEpoch + 1
        BY <2>7, <4>2, <4>3
      <4>5. <<s, x>> \in Belongs(p, LastEpoch + 1)
        BY <2>7, <4>2, <4>4, BelongsIs
      <4>6. QED
        BY <4>1, <4>5
    <3>2. QED
      BY <3>1
  <2>9. Range(f) \cap Belongs(p, LastEpoch + 1) = Among(f, Len(f))
    BY <2>5, <2>6, <2>8 DEF UpTo
  <2>10. Len(f) \in 0 .. Len(f) /\ SubSeq(f, 1, Len(f)) = f
    BY <2>4
  <2>11. Holds(f, Among(f, Len(f)))
    <3>1. Holds(SubSeq(f, 1, Len(f)), Among(f, Len(f)))
      BY <2>5, <2>10, HoldsIs DEF UpTo
    <3>2. QED
      BY <2>10, <3>1
  <2>12. QED
    BY <2>4, <2>5, <2>6, <2>9, <2>11 DEF UpTo
<1>2. QED
  BY <1>1, OutputInvHolds, FilesInvHolds, PTL

(* A sequence of some values is one of more. *)
LEMMA SeqOfMore ==
  ASSUME NEW S, NEW T, S \subseteq T, NEW s \in Seq(S)
  PROVE  s \in Seq(T)
<1>1. PICK n \in Nat : n = Len(s) /\ DOMAIN s = 1 .. n
  OBVIOUS
<1>2. s = [i \in 1 .. n |-> s[i]] /\ \A i \in 1 .. n : s[i] \in T
  BY <1>1
<1>3. [i \in 1 .. n |-> s[i]] \in Seq(T)
  BY <1>2
<1>4. QED
  BY <1>2, <1>3

(* A capability is of one epoch or none. *)
LEMMA OptionHasOne ==
  ASSUME NEW T \in SUBSET Nat, NEW o \in Options(T)
  PROVE  o \subseteq Nat /\ Cardinality(o) <= 1
<1>1. CASE o = {}
  BY <1>1, FS_EmptySet
<1>2. CASE o # {}
  <2>1. PICK x \in T : o = {x}
    BY <1>2 DEF Options
  <2>2. Cardinality(o) = 1
    BY <2>1, FS_Singleton
  <2>3. QED
    BY <2>1, <2>2
<1>3. QED
  BY <1>1, <1>2

(* The types of all the variables, those of the rows and of what is loaded  *)
(* included: an offset is the length that a file had.                       *)
THEOREM OutputTypeOKHolds == Spec => []TypeOK
<1>1. OutputInv /\ FilesInv => TypeOK
  <2>1. SUFFICES ASSUME OutputInv, FilesInv
                 PROVE  TypeOK
    OBVIOUS
  <2>2. RoutesInv /\ QueuesInv /\ AwokenInv /\ RowsInv /\ PlacesInv
    BY <2>1 DEF OutputInv, FilesInv
  <2> DEFINE Rows == [part : SinkParts, epoch : Nat, offset : Nat]
             Part == [epoch : Nat, source : Sources]
             Item == [epoch : Nat, source : Sources, part : SinkParts]
  <2>3. Row \subseteq Rows /\ Epoch \subseteq Nat
    BY EpochIs DEF Row
  <2>4. DOMAIN primaries \subseteq SinkParts
    <3>1. CASE primaries = <<>>
      <4>1. DOMAIN <<>> = {}
        OBVIOUS
      <4>2. QED
        BY <3>1, <4>1
    <3>2. CASE primaries # <<>>
      <4>1. primaries \in CalcPrimaries(Listed) /\ ws \subseteq AllWorkers
        BY <2>2, <3>2 DEF RoutesInv
      <4>2. DOMAIN primaries = UNION {Listing[w] : w \in ws}
        BY <4>1 DEF CalcPrimaries, Listed
      <4>3. QED
        BY <4>1, <4>2, OutputAssumption
    <3>3. QED
      BY <3>1, <3>2
  <2>5. Range(primaries) \subseteq ws
    <3>1. CASE primaries = <<>>
      <4>1. Range(<<>>) = {}
        BY DEF Range
      <4>2. QED
        BY <3>1, <4>1
    <3>2. CASE primaries # <<>>
      <4>1. \A p \in DOMAIN primaries : primaries[p] \in ws
        BY <2>1, <2>2, <2>4, <3>2, PrimaryIs
      <4>2. QED
        BY <4>1 DEF Range
    <3>3. QED
      BY <3>1, <3>2
  <2>6. Range(<<>>) = {}
    BY DEF Range
  <2>7. /\ ex \in 0 .. MaxExecutions /\ ws \subseteq AllWorkers /\ finished \in BOOLEAN
        /\ announced \subseteq ws /\ DOMAIN primaries \subseteq SinkParts
    BY <2>2, <2>4 DEF RoutesInv
  <2>8. /\ loader \in [RecParts -> AllWorkers]
        /\ \A r \in RecParts : cursor[r].done \in BOOLEAN /\ cursor[r].at \subseteq SinkParts
        /\ point \in FirstEpoch .. LastEpoch + 1
    BY <2>2 DEF QueuesInv
  <2>9. \A s \in Sources : src[s] \subseteq Nat /\ Cardinality(src[s]) <= 1
    <3>1. FirstEpoch .. LastEpoch + 1 \in SUBSET Nat
      BY LastEpochIs DEF FirstEpoch
    <3>2. \A s \in Sources : src[s] \in Options(FirstEpoch .. LastEpoch + 1)
      BY <2>2 DEF QueuesInv
    <3>3. QED
      BY <3>1, <3>2, OptionHasOne
  <2>10. /\ snapq \cup rows \subseteq Rows
         /\ \A p \in SinkParts : file[p] \in Seq(Sources \X Nat)
    BY <2>2, <2>3 DEF RowsInv
  <2>11. ASSUME NEW w \in AllWorkers
         PROVE  /\ known[w] \subseteq SinkParts
                /\ \A r \in Routers : Range(routes[r][w]) \subseteq ws
                /\ loads[w] \cup loadsOut[w] \cup loadsBuf[w] \subseteq Rows
                /\ toPart[w] \in Seq(Part)
                /\ toRoute[w] \o toOut[w] \o inbuf[w] \in Seq(Item)
                /\ queue[w] \subseteq Nat /\ cap[w] \subseteq Nat /\ Cardinality(cap[w]) <= 1
                /\ awoken[w] \subseteq open[w] /\ open[w] \subseteq SinkParts
    <3>1. known[w] \subseteq SinkParts
      BY <2>2 DEF RoutesInv
    <3>2. \A r \in Routers : Range(routes[r][w]) \subseteq ws
      <4>1. \A r \in Routers : routes[r][w] \in {<<>>, primaries}
        BY <2>2 DEF RoutesInv
      <4>2. QED
        BY <2>5, <2>6, <4>1
    <3>3. loads[w] \cup loadsOut[w] \cup loadsBuf[w] \subseteq Rows
      <4>1. CASE ws = {}
        <5>1. loads[w] = {} /\ loadsOut[w] = {} /\ loadsBuf[w] = {}
          BY <2>2, <4>1 DEF PlacesInv
        <5>2. QED
          BY <5>1
      <4>2. CASE ws # {}
        <5>1. \A m \in loads[w] \cup loadsOut[w] \cup loadsBuf[w] : m \in Row
          BY <2>1, <4>2 DEF FilesInv, LoadsInv
        <5>2. QED
          BY <2>3, <5>1
      <4>3. QED
        BY <4>1, <4>2
    <3>4. toPart[w] \in Seq(Part)
      <4>1. toPart[w] \in Seq(AtPart)
        BY <2>2 DEF QueuesInv
      <4>2. AtPart \subseteq Part
        BY <2>3 DEF AtPart
      <4> HIDE DEF Part
      <4>3. QED
        BY <4>1, <4>2, SeqOfMore
    <3>5. toRoute[w] \o toOut[w] \o inbuf[w] \in Seq(Item)
      <4>1. AtRoute \subseteq Item
        BY <2>3 DEF AtRoute
      <4>2. toRoute[w] \in Seq(AtRoute) /\ toOut[w] \in Seq(AtRoute) /\ inbuf[w] \in Seq(AtRoute)
        BY <2>2 DEF QueuesInv
      <4> HIDE DEF Item
      <4>3. PICK a \in Seq(Item) : a = toRoute[w]
        BY <4>1, <4>2, SeqOfMore
      <4>4. PICK b \in Seq(Item) : b = toOut[w]
        BY <4>1, <4>2, SeqOfMore
      <4>5. PICK c \in Seq(Item) : c = inbuf[w]
        BY <4>1, <4>2, SeqOfMore
      <4>6. a \o b \o c \in Seq(Item)
        OBVIOUS
      <4>7. QED
        BY <4>3, <4>4, <4>5, <4>6
    <3>6. queue[w] \subseteq Nat /\ open[w] \subseteq SinkParts
      BY <2>2, <2>3 DEF QueuesInv
    <3>7. cap[w] \subseteq Nat /\ Cardinality(cap[w]) <= 1
      <4>1. cap[w] \in Options(Epoch) /\ Epoch \in SUBSET Nat
        BY <2>2, <2>3 DEF QueuesInv
      <4>2. QED
        BY <4>1, OptionHasOne
    <3>8. awoken[w] \subseteq open[w]
      BY <2>2 DEF AwokenInv
    <3>9. QED
      BY <3>1, <3>2, <3>3, <3>4, <3>5, <3>6, <3>7, <3>8
  <2>12. QED
    BY <2>7, <2>8, <2>9, <2>10, <2>11 DEF TypeOK
<1>2. QED
  BY <1>1, OutputInvHolds, FilesInvHolds, PTL
=============================================================================
