---------------------- MODULE PartitionedOutputProofs ----------------------
(***************************************************************************)
(* The proofs about PartitionedOutput: that the greedy choice of the       *)
(* primaries is balanced, and that a file has one writer.                  *)
(***************************************************************************)
EXTENDS PartitionedOutputInvariant, WellFoundedInduction, FiniteSetTheorems, TLAPS

LEMMA NatHasLeast ==
  ASSUME NEW S \in SUBSET Nat, S # {}
  PROVE  \E x \in S : \A y \in S : x <= y
<1>1. IsWellFoundedOn(OpToRel(<, Nat), Nat)
  BY NatLessThanWellFounded
<1>2. PICK x \in S : ~ \E y \in S : <<y, x>> \in OpToRel(<, Nat)
  BY <1>1, WFMin
<1>3. \A y \in S : ~ (y < x)
  BY <1>2 DEF OpToRel
<1>4. QED
  BY <1>3

LEMMA NatHasGreatest ==
  ASSUME NEW S \in SUBSET Nat, S # {}, NEW b \in Nat, \A y \in S : y <= b
  PROVE  \E x \in S : \A y \in S : y <= x
<1> DEFINE T == {b - y : y \in S}
<1>1. \A y \in S : y \in Nat /\ b - y \in Nat
  OBVIOUS
<1>2. T \in SUBSET Nat /\ T # {}
  BY <1>1
<1>3. PICK m \in T : \A t \in T : m <= t
  BY <1>2, NatHasLeast
<1>4. PICK x \in S : m = b - x
  BY <1>3
<1>5. \A y \in S : y <= x
  BY <1>1, <1>3, <1>4
<1>6. QED
  BY <1>5

-----------------------------------------------------------------------------
(* The greedy choice. *)

PartsOf(prim, w) == {q \in DOMAIN prim : prim[q] = w}

(* What an order of the partitions gives to a worker in all is what the     *)
(* worker has.                                                              *)
LEMMA AssignedIs ==
  ASSUME NEW K, IsFiniteSet(DOMAIN K), NEW order \in ByCount(K), NEW prim, NEW w,
         DOMAIN prim = DOMAIN K
  PROVE  /\ \A p \in DOMAIN K : \E j \in DOMAIN order : order[j] = p
         /\ Cardinality(PartsOf(prim, w)) = Assigned(prim, order, Cardinality(DOMAIN K), w)
<1> DEFINE n == Cardinality(DOMAIN K)
           at == {i \in 1 .. n : prim[order[i]] = w}
           has == PartsOf(prim, w)
<1>1. n \in Nat
  BY FS_CardinalityType
<1>2. /\ order \in [1 .. n -> DOMAIN K]
      /\ \A i, j \in 1 .. n : i < j => order[i] # order[j]
  BY DEF ByCount
<1> HIDE DEF n
<1>3. \A i, j \in 1 .. n : order[i] = order[j] => i = j
  BY <1>1, <1>2
<1>4. \A p \in DOMAIN K : \E j \in 1 .. n : order[j] = p
  <2>1. order \in Injection(1 .. n, DOMAIN K)
    BY <1>2, <1>3 DEF Injection, IsInjective
  <2>2. IsFiniteSet(1 .. n) /\ Cardinality(1 .. n) = n
    BY <1>1, FS_Interval
  <2>3. order \in Surjection(1 .. n, DOMAIN K)
    BY <2>1, <2>2, FS_Injection DEF n
  <2>4. QED
    BY <2>3 DEF Surjection
<1>5. IsFiniteSet(at)
  <2>1. IsFiniteSet(1 .. n)
    BY <1>1, FS_Interval
  <2>2. at \in SUBSET (1 .. n)
    OBVIOUS
  <2>3. QED
    BY <2>1, <2>2, FS_Subset
<1>6. ExistsBijection(at, has)
  <2> DEFINE f == [i \in at |-> order[i]]
  <2>1. f \in [at -> has]
    BY <1>2 DEF PartsOf
  <2>2. \A i, j \in at : f[i] = f[j] => i = j
    BY <1>3
  <2>3. \A p \in has : \E i \in at : f[i] = p
    BY <1>4 DEF PartsOf
  <2>4. f \in Bijection(at, has)
    BY <2>1, <2>2, <2>3 DEF Bijection, Injection, Surjection, IsInjective
  <2>5. QED
    BY <2>4 DEF ExistsBijection
<1>7. Cardinality(has) = Cardinality(at)
  BY <1>5, <1>6, FS_Bijection
<1>8. QED
  BY <1>2, <1>4, <1>7 DEF Assigned, n

(* Of two workers that both list a partition, its primary has at most one   *)
(* partition more: it got its last one when it had no more than the other,  *)
(* who was a candidate as well, or that one would have come earlier.        *)
LEMMA GreedyIsBalanced ==
  ASSUME NEW W \in SUBSET AllWorkers, NEW K,
         DOMAIN K = UNION {Listing[w] : w \in W},
         \A q \in DOMAIN K : K[q] = {w \in W : q \in Listing[w]},
         NEW prim \in CalcPrimaries(K), NEW p \in DOMAIN prim
  PROVE  /\ prim[p] \in W /\ p \in Listing[prim[p]]
         /\ \A w \in W : p \in Listing[w] =>
              Cardinality(PartsOf(prim, prim[p])) <= Cardinality(PartsOf(prim, w)) + 1
<1>1. IsFiniteSet(DOMAIN K) /\ IsFiniteSet(W) /\ DOMAIN prim = DOMAIN K
  <2>1. DOMAIN K \in SUBSET SinkParts /\ IsFiniteSet(SinkParts)
    BY OutputAssumption
  <2>2. IsFiniteSet(AllWorkers)
    BY OutputAssumption, FS_Interval DEF AllWorkers
  <2>3. DOMAIN prim = DOMAIN K
    BY DEF CalcPrimaries
  <2>4. QED
    BY <2>1, <2>2, <2>3, FS_Subset
<1>2. \A q \in DOMAIN K : K[q] = {w \in W : q \in Listing[w]}
  OBVIOUS
<1>3. PICK order \in ByCount(K) :
        \A i \in DOMAIN order :
          /\ prim[order[i]] \in K[order[i]]
          /\ \A w \in K[order[i]] :
               Assigned(prim, order, i - 1, prim[order[i]]) <= Assigned(prim, order, i - 1, w)
  BY DEF CalcPrimaries
<1> DEFINE n == Cardinality(DOMAIN K)
<1>4. /\ order \in [1 .. n -> DOMAIN K]
      /\ \A i, j \in 1 .. n : i < j =>
           order[i] # order[j] /\ Cardinality(K[order[i]]) <= Cardinality(K[order[j]])
  BY DEF ByCount
<1>5. n \in Nat
  BY <1>1, FS_CardinalityType
<1>6. \A w : Cardinality(PartsOf(prim, w)) = Assigned(prim, order, n, w)
  BY <1>1, AssignedIs
<1>7. PICK j \in 1 .. n : order[j] = p
  <2>1. p \in DOMAIN K /\ DOMAIN order = 1 .. n
    BY <1>1, <1>4
  <2>2. \A q \in DOMAIN K : \E i \in DOMAIN order : order[i] = q
    BY <1>1, AssignedIs
  <2>3. QED
    BY <2>1, <2>2
<1> HIDE DEF n
<1>8. prim[p] \in K[p] /\ p \in DOMAIN K
  BY <1>1, <1>3, <1>4, <1>7
<1>9. ASSUME NEW w \in W, p \in Listing[w]
      PROVE  Assigned(prim, order, n, prim[p]) <= Assigned(prim, order, n, w) + 1
  <2> DEFINE v == prim[p]
             Is(m, u) == {i \in 1 .. m : prim[order[i]] = u}
  <2>1. PICK i \in 1 .. n : prim[order[i]] = v /\ \A l \in 1 .. n : prim[order[l]] = v => l <= i
    <3> DEFINE S == Is(n, v)
    <3>1. S \in SUBSET Nat /\ j \in S /\ \A y \in S : y <= n
      BY <1>5, <1>7
    <3> HIDE DEF S
    <3>2. PICK i \in S : \A y \in S : y <= i
      BY <1>5, <3>1, NatHasGreatest
    <3>3. QED
      BY <3>2 DEF S
  <2>2. /\ \A m \in Nat : \A u : IsFiniteSet(Is(m, u)) /\ Cardinality(Is(m, u)) \in Nat
        /\ Assigned(prim, order, n, v) = Cardinality(Is(n, v))
        /\ Assigned(prim, order, n, w) = Cardinality(Is(n, w))
        /\ Assigned(prim, order, i - 1, v) = Cardinality(Is(i - 1, v))
        /\ Assigned(prim, order, i - 1, w) = Cardinality(Is(i - 1, w))
    <3>1. ASSUME NEW m \in Nat, NEW u
          PROVE  IsFiniteSet(Is(m, u)) /\ Cardinality(Is(m, u)) \in Nat
      <4>1. IsFiniteSet(1 .. m)
        BY <3>1, FS_Interval
      <4>2. Is(m, u) \in SUBSET (1 .. m)
        OBVIOUS
      <4>3. QED
        BY <4>1, <4>2, FS_Subset, FS_CardinalityType
    <3>2. QED
      BY <3>1 DEF Assigned
  <2>3. i - 1 \in Nat /\ i \in Nat /\ j <= i
    BY <1>5, <1>7, <2>1
  <2>4. Is(n, v) = Is(i - 1, v) \cup {i} /\ i \notin Is(i - 1, v)
    BY <1>5, <2>1, <2>3
  <2>5. Is(i - 1, w) \in SUBSET Is(n, w)
    BY <1>5, <2>3
  <2> HIDE DEF Is, v
  <2>6. Cardinality(Is(n, v)) = Cardinality(Is(i - 1, v)) + 1
    <3>1. IsFiniteSet(Is(i - 1, v))
      BY <2>2, <2>3
    <3>2. PICK A : A = Is(i - 1, v)
      OBVIOUS
    <3>3. Cardinality(A \cup {i}) = Cardinality(A) + 1
      BY <2>4, <3>1, <3>2, FS_AddElement
    <3>4. QED
      BY <2>4, <3>2, <3>3
  <2>7. Cardinality(Is(i - 1, w)) <= Cardinality(Is(n, w))
    BY <1>5, <2>2, <2>5, FS_Subset
  <2>8. w \in K[order[i]]
    <3>1. SUFFICES ASSUME w \notin K[order[i]]
                   PROVE  FALSE
      OBVIOUS
    <3> DEFINE q == order[i]
    <3>2. q \in DOMAIN K
      BY <1>4
    <3>3. q \notin Listing[w]
      BY <1>2, <3>1, <3>2
    <3>4. K[q] \subseteq K[p]
      <4>1. SUFFICES ASSUME NEW u \in K[q]
                     PROVE  u \in K[p]
        OBVIOUS
      <4>2. u \in W /\ q \in Listing[u]
        BY <1>2, <3>2
      <4>3. u \in AllWorkers /\ w \in AllWorkers
        BY <4>2
      <4>4. Listing[w] \subseteq Listing[u]
        BY <3>3, <4>2, <4>3, NestedListing
      <4>5. QED
        BY <1>2, <1>8, <1>9, <4>2, <4>4
    <3>5. w \in K[p]
      BY <1>2, <1>8, <1>9
    <3>6. IsFiniteSet(K[p])
      <4>1. K[p] \in SUBSET W
        BY <1>2, <1>8
      <4>2. QED
        BY <1>1, <4>1, FS_Subset
    <3>7. Cardinality(K[q]) <= Cardinality(K[p]) /\ Cardinality(K[q]) # Cardinality(K[p])
          /\ Cardinality(K[q]) \in Nat /\ Cardinality(K[p]) \in Nat
      <4>1. K[q] \in SUBSET K[p] /\ K[q] # K[p]
        BY <3>1, <3>4, <3>5
      <4>2. QED
        BY <3>6, <4>1, FS_Subset, FS_CardinalityType
    <3>8. Cardinality(K[p]) <= Cardinality(K[q])
      <4>1. CASE j = i
        BY <1>7, <3>7, <4>1
      <4>2. CASE j < i
        BY <1>4, <1>7, <4>2
      <4>3. QED
        BY <2>3, <4>1, <4>2
    <3>9. QED
      BY <3>7, <3>8
  <2>9. Cardinality(Is(i - 1, v)) <= Cardinality(Is(i - 1, w))
    BY <1>3, <1>4, <2>1, <2>2, <2>8
  <2>10. QED
    BY <1>5, <2>2, <2>3, <2>6, <2>7, <2>9 DEF v
<1>10. QED
  BY <1>2, <1>6, <1>8, <1>9

-----------------------------------------------------------------------------
(* Sequences, numbers and names. *)

LEMMA AppendIs ==
  ASSUME NEW S, NEW s \in Seq(S), NEW x \in S
  PROVE  /\ Append(s, x) \in Seq(S)
         /\ DOMAIN s = 1 .. Len(s) /\ Len(s) \in Nat
         /\ DOMAIN Append(s, x) = 1 .. Len(s) + 1 /\ Len(Append(s, x)) = Len(s) + 1
         /\ \A i \in DOMAIN s : Append(s, x)[i] = s[i]
         /\ Append(s, x)[Len(s) + 1] = x
OBVIOUS

LEMMA ConcatIs ==
  ASSUME NEW S, NEW a \in Seq(S), NEW b \in Seq(S)
  PROVE  /\ a \o b \in Seq(S)
         /\ \A j \in DOMAIN (a \o b) : \/ \E i \in DOMAIN a : (a \o b)[j] = a[i]
                                       \/ \E i \in DOMAIN b : (a \o b)[j] = b[i]
<1> PICK c : c = a \o b
  OBVIOUS
<1>1. /\ c \in Seq(S) /\ DOMAIN a = 1 .. Len(a) /\ Len(a) \in Nat /\ Len(b) \in Nat
      /\ DOMAIN b = 1 .. Len(b) /\ DOMAIN c = 1 .. Len(a) + Len(b)
      /\ \A j \in 1 .. Len(a) : c[j] = a[j]
      /\ \A j \in 1 .. Len(b) : c[Len(a) + j] = b[j]
  OBVIOUS
<1>2. ASSUME NEW j \in DOMAIN c, j \notin DOMAIN a
      PROVE  \E i \in DOMAIN b : c[j] = b[i]
  <2>1. PICK la \in Nat : la = Len(a)
    BY <1>1
  <2>2. PICK lb \in Nat : lb = Len(b)
    BY <1>1
  <2>3. j \in 1 .. la + lb /\ j \notin 1 .. la
    BY <1>1, <1>2, <2>1, <2>2
  <2>4. j - la \in 1 .. lb /\ la + (j - la) = j
    BY <2>3
  <2>5. QED
    BY <1>1, <2>1, <2>2, <2>4
<1>3. QED
  BY <1>1, <1>2

LEMMA OptionIs ==
  ASSUME NEW T, NEW o \in Options(T)
  PROVE  o \subseteq T /\ \A x \in o : o = {x}
BY DEF Options

(* The messages at some places. *)
LEMMA OnlyIs ==
  ASSUME NEW S, NEW msgs \in Seq(S), NEW places
  PROVE  /\ Only(msgs, places) \in Seq(S)
         /\ \A j \in DOMAIN Only(msgs, places) :
              \E i \in DOMAIN msgs \cap places : Only(msgs, places)[j] = msgs[i]
<1> DEFINE n == Len(msgs)
           G(f, i) == IF i = 0 THEN <<>>
                      ELSE IF i \in places THEN Append(f[i - 1], msgs[i]) ELSE f[i - 1]
           Rec(f, m) == f = [i \in 0 .. m |-> G(f, i)]
           after == CHOOSE f : Rec(f, n)
           Fine(v, i) == /\ v \in Seq(S)
                         /\ \A j \in DOMAIN v : \E k \in DOMAIN msgs \cap places : v[j] = msgs[k]
<1>1. n \in Nat
OBVIOUS
<1>2. Only(msgs, places) = after[n]
  BY DEF Only
<1>3. \A f, g : \A i \in Nat : (i # 0 => f[i - 1] = g[i - 1]) => G(f, i) = G(g, i)
  OBVIOUS
<1>4. ASSUME NEW i \in 0 .. n, NEW f, i # 0 => Fine(f[i - 1], i - 1)
      PROVE  Fine(G(f, i), i)
  <2>1. CASE i = 0
    <3>1. G(f, i) = <<>> /\ <<>> \in Seq(S) /\ DOMAIN <<>> = {}
      BY <2>1
    <3> HIDE DEF G
    <3>2. QED
      BY <3>1
  <2>2. CASE i # 0 /\ i \notin places
    BY <1>4, <2>2
  <2>3. CASE i # 0 /\ i \in places
    <3>1. i \in DOMAIN msgs \cap places /\ msgs[i] \in S
      BY <1>1, <2>3
    <3>2. PICK s \in Seq(S) : s = f[i - 1]
      BY <1>4, <2>3
    <3>3. PICK t : t = Append(s, msgs[i])
      OBVIOUS
    <3>4. G(f, i) = t
      BY <2>3, <3>2, <3>3
    <3>5. /\ t \in Seq(S) /\ DOMAIN s = 1 .. Len(s) /\ Len(s) \in Nat
          /\ DOMAIN t = 1 .. Len(s) + 1 /\ t[Len(s) + 1] = msgs[i]
          /\ \A j \in DOMAIN s : t[j] = s[j]
      BY <3>1, <3>2, <3>3, AppendIs
    <3>6. \A j \in DOMAIN t : j \in DOMAIN s \/ j = Len(s) + 1
      BY <3>5
    <3>7. \A j \in DOMAIN s : \E k \in DOMAIN msgs \cap places : s[j] = msgs[k]
      BY <1>4, <2>3, <3>2
    <3> HIDE DEF G
    <3>8. QED
      BY <3>1, <3>4, <3>5, <3>6, <3>7
  <2>4. QED
    BY <2>1, <2>2, <2>3
<1> HIDE DEF n, G, Fine
(* The function exists: there is none that is the shortest to be missing. *)
<1>5. \A m \in Nat : \E f : Rec(f, m)
  <2> DEFINE Bad == {m \in Nat : ~ \E f : Rec(f, m)}
  <2>1. SUFFICES ASSUME Bad # {}
                 PROVE  FALSE
    OBVIOUS
  <2>2. Bad \in SUBSET Nat
    OBVIOUS
  <2> HIDE DEF Bad
  <2>3. PICK m \in Bad : \A o \in Bad : m <= o
    BY <2>1, <2>2, NatHasLeast
  <2>4. m \in Nat /\ ~ \E f : Rec(f, m)
    BY DEF Bad
  <2>5. \E g : m # 0 => Rec(g, m - 1)
    <3>1. CASE m # 0
      <4>1. m - 1 \in Nat /\ ~ (m <= m - 1)
        BY <2>4, <3>1
      <4>2. m - 1 \notin Bad
        BY <2>3, <4>1
      <4> HIDE DEF Rec
      <4>3. QED
        BY <4>1, <4>2 DEF Bad
    <3>2. QED
      BY <3>1
  <2>6. PICK g : m # 0 => Rec(g, m - 1)
    BY <2>5
  <2> DEFINE h == [i \in 0 .. m |-> IF i = m THEN G(g, m) ELSE g[i]]
  <2>7. \A i \in 0 .. m - 1 : g[i] = G(g, i)
    <3>1. CASE m # 0
      BY <2>6, <3>1
    <3>2. CASE m = 0
      BY <3>2
    <3>3. QED
      BY <3>1, <3>2
  <2>8. /\ DOMAIN h = 0 .. m /\ h = [i \in 0 .. m |-> h[i]]
        /\ h[m] = G(g, m) /\ \A i \in 0 .. m - 1 : h[i] = g[i]
    BY <2>4
  <2> HIDE DEF h
  <2>9. \A i \in 0 .. m : h[i] = G(h, i)
    <3>1. ASSUME NEW i \in 0 .. m
          PROVE  h[i] = G(h, i)
      <4>1. i \in Nat /\ (i # 0 => i - 1 \in 0 .. m - 1) /\ (i # m => i \in 0 .. m - 1)
        BY <2>4
      <4>2. G(h, i) = G(g, i)
        BY <1>3, <2>8, <4>1
      <4>3. QED
        BY <2>7, <2>8, <4>1, <4>2
    <3>2. QED
      BY <3>1
  <2>10. Rec(h, m)
    BY <2>8, <2>9
  <2> HIDE DEF Rec
  <2>11. QED
    BY <2>4, <2>10
<1>6. Rec(after, n)
  <2> HIDE DEF Rec
  <2>1. \E f : Rec(f, n)
    BY <1>1, <1>5
  <2>2. QED
    BY <2>1
<1>7. \A i \in 0 .. n : after[i] = G(after, i)
  BY <1>6
<1> HIDE DEF after, Rec
(* Nor is there a first place where it would not be as it should. *)
<1>8. \A i \in 0 .. n : Fine(after[i], i)
  <2> DEFINE Bad == {i \in 0 .. n : ~ Fine(after[i], i)}
  <2>1. SUFFICES ASSUME Bad # {}
                 PROVE  FALSE
    OBVIOUS
  <2>2. Bad \in SUBSET Nat
    BY <1>1
  <2> HIDE DEF Bad
  <2>3. PICK m \in Bad : \A o \in Bad : m <= o
    BY <2>1, <2>2, NatHasLeast
  <2>4. m \in 0 .. n /\ ~ Fine(after[m], m)
    BY DEF Bad
  <2>5. m # 0 => Fine(after[m - 1], m - 1)
    <3>1. m # 0 => m - 1 \in 0 .. n /\ ~ (m <= m - 1)
      BY <1>1, <2>4
    <3>2. m # 0 => m - 1 \notin Bad
      BY <2>3, <3>1
    <3>3. QED
      BY <3>1, <3>2 DEF Bad
  <2>6. Fine(G(after, m), m)
    BY <1>4, <2>4, <2>5
  <2>7. QED
    BY <1>7, <2>4, <2>6
<1>9. Fine(after[n], n)
  BY <1>1, <1>8
<1>10. QED
  BY <1>2, <1>9 DEF Fine

LEMMA FiniteIsBounded ==
  ASSUME NEW S \in SUBSET Nat, IsFiniteSet(S)
  PROVE  \E b \in Nat : \A y \in S : y <= b
<1> DEFINE Bounded(T) == \E b \in Nat : \A y \in T : y <= b
           Bad == {n \in Nat : \E T \in SUBSET S : Cardinality(T) = n /\ ~ Bounded(T)}
<1>1. \A T \in SUBSET S : IsFiniteSet(T) /\ Cardinality(T) \in Nat
  BY FS_Subset, FS_CardinalityType
<1>2. Bad = {}
  <2>1. SUFFICES ASSUME Bad # {}
                 PROVE  FALSE
    OBVIOUS
  <2>2. Bad \in SUBSET Nat
    OBVIOUS
  <2> HIDE DEF Bad
  <2>3. PICK n \in Bad : \A m \in Bad : n <= m
    BY <2>1, <2>2, NatHasLeast
  <2>4. PICK T \in SUBSET S : Cardinality(T) = n /\ ~ Bounded(T)
    BY DEF Bad
  <2>5. PICK x : x \in T
    BY <2>4
  <2>6. Cardinality(T \ {x}) = n - 1 /\ n - 1 \in Nat /\ ~ (n <= n - 1)
    <3>1. Cardinality(T \ {x}) = n - 1
      BY <1>1, <2>4, <2>5, FS_RemoveElement
    <3>2. T \ {x} \in SUBSET S
      OBVIOUS
    <3>3. n \in Nat /\ Cardinality(T \ {x}) \in Nat
      BY <1>1, <2>2, <3>2
    <3>4. QED
      BY <3>1, <3>3
  <2>7. PICK b \in Nat : \A y \in T \ {x} : y <= b
    <3>1. T \ {x} \in SUBSET S /\ n - 1 \notin Bad
      BY <2>3, <2>6
    <3>2. QED
      BY <2>6, <3>1 DEF Bad
  <2>8. x \in Nat /\ b + x \in Nat /\ \A y \in T : y \in Nat
    BY <2>5
  <2>9. \A y \in T : y <= b + x
    BY <2>7, <2>8
  <2>10. QED
    BY <2>4, <2>8, <2>9
<1>3. QED
  BY <1>1, <1>2

LEMMA MaxIs ==
  ASSUME NEW S \in SUBSET Nat, S # {}, IsFiniteSet(S)
  PROVE  Max(S) \in S /\ \A y \in S : y <= Max(S)
<1>1. PICK b \in Nat : \A y \in S : y <= b
  BY FiniteIsBounded
<1>2. PICK x \in S : \A y \in S : y <= x
  BY <1>1, NatHasGreatest
<1>3. \A y \in S : x >= y
  BY <1>2
<1>4. Max(S) \in S /\ \A y \in S : Max(S) >= y
  BY <1>3 DEF Max
<1>5. \A y \in S : y \in Nat
  OBVIOUS
<1>6. QED
  BY <1>4, <1>5

(* The last epoch in which a source has an item. *)
LEMMA LastEpochIs ==
  /\ LastEpoch \in Nat /\ \A s \in Sources : Len(Script[s]) <= LastEpoch
  /\ \E s \in Sources : LastEpoch = Len(Script[s])
<1> DEFINE N == {Len(Script[s]) : s \in Sources}
<1>1. IsFiniteSet(Sources) /\ Sources # {} /\ \A s \in Sources : Len(Script[s]) \in Nat
  BY OutputAssumption
<1>2. N \in SUBSET Nat /\ N # {}
  BY <1>1
<1>3. IsFiniteSet(N)
  <2> DEFINE len == [s \in Sources |-> Len(Script[s])]
  <2>1. len \in Surjection(Sources, N)
    BY DEF Surjection
  <2>2. QED
    BY <1>1, <2>1, FS_Surjection
<1>4. \A s \in Sources : Len(Script[s]) \in N
  OBVIOUS
<1> HIDE DEF N
<1>5. PICK b \in Nat : \A y \in N : y <= b
  BY <1>2, <1>3, FiniteIsBounded
<1>6. PICK x \in N : \A y \in N : y <= x
  BY <1>2, <1>5, NatHasGreatest
<1>7. \E m \in N : \A s \in Sources : Len(Script[s]) <= m
  BY <1>4, <1>6
<1>8. LastEpoch \in N /\ \A s \in Sources : Len(Script[s]) <= LastEpoch
  BY <1>7 DEF LastEpoch, N
<1>9. \E s \in Sources : LastEpoch = Len(Script[s])
  BY <1>8 DEF N
<1>10. QED
  BY <1>2, <1>8, <1>9

LEMMA EpochIs ==
  /\ Epoch \in SUBSET Nat /\ 0 \in Epoch /\ 1 \in Epoch /\ IsFiniteSet(Epoch)
  /\ LastEpoch + 1 \in Nat /\ \A e \in Epoch : e <= LastEpoch + 1
<1>1. LastEpoch \in Nat
  BY LastEpochIs
<1>2. IsFiniteSet(0 .. LastEpoch + 1)
  BY <1>1, FS_Interval
<1>3. QED
  BY <1>1, <1>2 DEF Epoch

(* The name that an index stands for is one of the names. *)
LEMMA FileIs ==
  ASSUME NEW parts \in SUBSET SinkParts, parts # {}, NEW s \in Sources,
         NEW e \in 1 .. Len(Script[s])
  PROVE  FileOf(parts, s, e) \in parts
<1> DEFINE n == Cardinality(parts)
           before(p) == {q \in parts : q < p}
           rank == [p \in parts |-> Cardinality(before(p))]
           i == Script[s][e] % n
<1>1. IsFiniteSet(parts) /\ parts \subseteq Nat /\ n \in Nat /\ n # 0
  <2>1. IsFiniteSet(parts) /\ parts \subseteq Nat
    BY OutputAssumption, FS_Subset
  <2>2. QED
    BY <2>1, FS_CardinalityType, FS_EmptySet
<1>2. \A p \in parts : IsFiniteSet(before(p)) /\ Cardinality(before(p)) \in 0 .. n - 1
  <2>1. ASSUME NEW p \in parts
        PROVE  IsFiniteSet(before(p)) /\ Cardinality(before(p)) \in 0 .. n - 1
    <3>1. before(p) \in SUBSET parts /\ before(p) # parts
      BY <1>1
    <3> HIDE DEF before
    <3>2. /\ IsFiniteSet(before(p)) /\ Cardinality(before(p)) \in Nat
          /\ Cardinality(before(p)) <= n /\ Cardinality(before(p)) # n
      BY <1>1, <3>1, FS_Subset, FS_CardinalityType
    <3> HIDE DEF n
    <3>3. QED
      BY <1>1, <3>2
  <2>2. QED
    BY <2>1
<1>3. \A p, q \in parts : p < q => rank[p] # rank[q]
  <2>1. ASSUME NEW p \in parts, NEW q \in parts, p < q
        PROVE  rank[p] # rank[q]
    <3>1. before(p) \in SUBSET before(q) /\ before(p) # before(q)
      <4>1. p \in Nat /\ q \in Nat
        BY <1>1
      <4>2. p \in before(q) /\ p \notin before(p)
        BY <2>1, <4>1
      <4>3. \A r \in before(p) : r \in before(q)
        BY <1>1, <2>1
      <4>4. QED
        BY <4>2, <4>3
    <3> HIDE DEF before
    <3>2. Cardinality(before(p)) # Cardinality(before(q))
      BY <1>2, <3>1, FS_Subset
    <3>3. QED
      BY <3>2
  <2>2. QED
    BY <2>1
<1> HIDE DEF n, before
<1>4. rank \in [parts -> 0 .. n - 1]
  BY <1>2
<1>5. \A p, q \in parts : rank[p] = rank[q] => p = q
  BY <1>1, <1>3
<1> HIDE DEF rank
<1>6. rank \in Surjection(parts, 0 .. n - 1)
  <2>1. rank \in Injection(parts, 0 .. n - 1)
    BY <1>4, <1>5 DEF Injection, IsInjective
  <2>2. IsFiniteSet(0 .. n - 1) /\ Cardinality(0 .. n - 1) = n
    BY <1>1, FS_Interval
  <2>3. QED
    BY <2>1, <2>2, FS_Injection DEF n
<1>7. i \in 0 .. n - 1
  <2>1. PICK x \in Nat : x = Script[s][e]
    BY OutputAssumption
  <2>2. x % n \in 0 .. n - 1
    BY <1>1
  <2>3. QED
    BY <2>1, <2>2
<1> HIDE DEF i
<1>8. PICK p \in parts : rank[p] = i
  BY <1>6, <1>7 DEF Surjection
<1>9. \E q \in parts : Cardinality(before(q)) = i
  BY <1>8 DEF rank
<1>10. QED
  BY <1>9 DEF FileOf, before, i, n

-----------------------------------------------------------------------------
(* The work of the output on w, on a record of what it keeps. *)

(* What is on w, and belongs to it. *)
Fields == {"inbuf", "loads", "queue", "open", "awoken", "file", "snaps"}
Kept(w, st) ==
  /\ DOMAIN st = Fields
  /\ st.inbuf \in Seq(AtRoute) /\ \A i \in DOMAIN st.inbuf : Owns(w, st.inbuf[i].part)
  /\ \A m \in st.loads : m.part \in SinkParts /\ m.epoch \in Epoch /\ Owns(w, m.part)
  /\ st.queue \subseteq Epoch
  /\ st.open \subseteq SinkParts /\ \A p \in st.open : Owns(w, p)
  /\ st.awoken \subseteq st.open
  /\ RowsOf(st.snaps)

LEMMA BuildPartIs ==
  ASSUME NEW w, NEW st, Kept(w, st), NEW p \in SinkParts, Owns(w, p), NEW offset
  PROVE  /\ Kept(w, BuildPart(st, p, offset))
         /\ BuildPart(st, p, offset).queue = st.queue
         /\ BuildPart(st, p, offset).awoken = st.awoken
         /\ BuildPart(st, p, offset).inbuf = st.inbuf
         /\ BuildPart(st, p, offset).open = st.open \cup {p}
<1> PICK s : s = BuildPart(st, p, offset)
  OBVIOUS
<1>1. /\ DOMAIN s = DOMAIN st /\ s.open = st.open \cup {p}
      /\ s.inbuf = st.inbuf /\ s.loads = st.loads /\ s.queue = st.queue
      /\ s.awoken = st.awoken /\ s.snaps = st.snaps
  BY DEF BuildPart, Kept, Fields
<1>2. Kept(w, s)
  BY <1>1 DEF Kept
<1>3. QED
  BY <1>1, <1>2

LEMMA WriteItemIs ==
  ASSUME NEW w, NEW st, Kept(w, st), NEW m \in AtRoute, Owns(w, m.part)
  PROVE  Kept(w, WriteItem(st, m)) /\ WriteItem(st, m).queue = st.queue
<1> PICK b : b = IF m.part \in st.open THEN st ELSE BuildPart(st, m.part, 0)
  OBVIOUS
<1>1. m.part \in SinkParts
  BY DEF AtRoute
<1>2. Kept(w, b) /\ b.queue = st.queue /\ m.part \in b.open
  <2>1. CASE m.part \in st.open
    BY <2>1
  <2>2. CASE m.part \notin st.open
    BY <1>1, <2>2, BuildPartIs
  <2>3. QED
    BY <2>1, <2>2
<1> PICK s : s = WriteItem(st, m)
  OBVIOUS
<1>3. s = [b EXCEPT !.file[m.part] = Append(@, <<m.source, m.epoch>>),
                    !.awoken = @ \cup {m.part}]
  BY DEF WriteItem
<1>4. /\ DOMAIN s = DOMAIN b /\ s.awoken = b.awoken \cup {m.part}
      /\ s.inbuf = b.inbuf /\ s.loads = b.loads /\ s.queue = b.queue
      /\ s.open = b.open /\ s.snaps = b.snaps
  BY <1>2, <1>3 DEF Kept, Fields
<1>5. Kept(w, s)
  BY <1>2, <1>4 DEF Kept
<1>6. QED
  BY <1>2, <1>4, <1>5

LEMMA EagerIs ==
  ASSUME NEW w, NEW st, Kept(w, st), NEW e
  PROVE  Kept(w, Eager(st, e)) /\ Eager(st, e).queue = st.queue
<1> DEFINE now == {i \in DOMAIN st.inbuf : st.inbuf[i].epoch = e}
<1> DEFINE n == Len(st.inbuf)
           G(f, i) == IF i = 0 THEN [st EXCEPT !.inbuf = Only(@, DOMAIN @ \ now)]
                      ELSE IF i \in now THEN WriteItem(f[i - 1], st.inbuf[i]) ELSE f[i - 1]
           Rec(f, m) == f = [i \in 0 .. m |-> G(f, i)]
           after == CHOOSE f : Rec(f, n)
           Fine(v, i) == Kept(w, v) /\ v.queue = st.queue
<1>1. n \in Nat
  BY DEF Kept
<1>2. Eager(st, e) = after[n]
  BY DEF Eager
<1>3. \A f, g : \A i \in Nat : (i # 0 => f[i - 1] = g[i - 1]) => G(f, i) = G(g, i)
  OBVIOUS
<1>4. ASSUME NEW i \in 0 .. n, NEW f, i # 0 => Fine(f[i - 1], i - 1)
      PROVE  Fine(G(f, i), i)
  <2>1. CASE i = 0
    <3>0. PICK o : o = Only(st.inbuf, DOMAIN st.inbuf \ now)
      OBVIOUS
    <3> PICK s : s = G(f, i)
      OBVIOUS
    <3>1. s = [st EXCEPT !.inbuf = o]
      BY <2>1, <3>0
    <3> HIDE DEF G, now
    <3>2. /\ o \in Seq(AtRoute)
          /\ \A j \in DOMAIN o : \E k \in DOMAIN st.inbuf : o[j] = st.inbuf[k]
      <4>1. PICK buf : buf = st.inbuf
        OBVIOUS
      <4>2. buf \in Seq(AtRoute)
        BY <4>1 DEF Kept
      <4>3. PICK places : places = DOMAIN buf \ now
        OBVIOUS
      <4>4. o = Only(buf, places)
        BY <3>0, <4>1, <4>3
      <4>5. /\ Only(buf, places) \in Seq(AtRoute)
            /\ \A j \in DOMAIN Only(buf, places) :
                 \E k \in DOMAIN buf \cap places : Only(buf, places)[j] = buf[k]
        BY <4>2, OnlyIs
      <4>6. QED
        BY <4>1, <4>4, <4>5
    <3>3. /\ DOMAIN s = DOMAIN st /\ s.inbuf = o /\ s.loads = st.loads /\ s.queue = st.queue
          /\ s.open = st.open /\ s.awoken = st.awoken /\ s.snaps = st.snaps
      BY <3>1 DEF Kept, Fields
    <3>4. \A j \in DOMAIN s.inbuf : Owns(w, s.inbuf[j].part)
      BY <3>2, <3>3 DEF Kept
    <3>5. Kept(w, s)
      BY <3>2, <3>3, <3>4 DEF Kept
    <3>6. QED
      BY <3>3, <3>5
  <2>2. CASE i # 0 /\ i \notin now
    BY <1>4, <2>2
  <2>3. CASE i # 0 /\ i \in now
    <3>1. PICK m : m = st.inbuf[i]
      OBVIOUS
    <3>2. m \in AtRoute /\ Owns(w, m.part)
      BY <2>3, <3>1 DEF Kept
    <3>3. PICK s : s = f[i - 1]
      OBVIOUS
    <3>4. Kept(w, s) /\ s.queue = st.queue
      BY <1>4, <2>3, <3>3
    <3>5. G(f, i) = WriteItem(s, m)
      BY <2>3, <3>1, <3>3
    <3> HIDE DEF G
    <3>6. Kept(w, WriteItem(s, m)) /\ WriteItem(s, m).queue = s.queue
      BY <3>2, <3>4, WriteItemIs
    <3>7. QED
      BY <3>4, <3>5, <3>6
  <2>4. QED
    BY <2>1, <2>2, <2>3
<1> HIDE DEF now, n, G, Fine
(* The function exists: there is none that is the shortest to be missing. *)
<1>5. \A m \in Nat : \E f : Rec(f, m)
  <2> DEFINE Bad == {m \in Nat : ~ \E f : Rec(f, m)}
  <2>1. SUFFICES ASSUME Bad # {}
                 PROVE  FALSE
    OBVIOUS
  <2>2. Bad \in SUBSET Nat
    OBVIOUS
  <2> HIDE DEF Bad
  <2>3. PICK m \in Bad : \A o \in Bad : m <= o
    BY <2>1, <2>2, NatHasLeast
  <2>4. m \in Nat /\ ~ \E f : Rec(f, m)
    BY DEF Bad
  <2>5. \E g : m # 0 => Rec(g, m - 1)
    <3>1. CASE m # 0
      <4>1. m - 1 \in Nat /\ ~ (m <= m - 1)
        BY <2>4, <3>1
      <4>2. m - 1 \notin Bad
        BY <2>3, <4>1
      <4> HIDE DEF Rec
      <4>3. QED
        BY <4>1, <4>2 DEF Bad
    <3>2. QED
      BY <3>1
  <2>6. PICK g : m # 0 => Rec(g, m - 1)
    BY <2>5
  <2> DEFINE h == [i \in 0 .. m |-> IF i = m THEN G(g, m) ELSE g[i]]
  <2>7. \A i \in 0 .. m - 1 : g[i] = G(g, i)
    <3>1. CASE m # 0
      BY <2>6, <3>1
    <3>2. CASE m = 0
      BY <3>2
    <3>3. QED
      BY <3>1, <3>2
  <2>8. /\ DOMAIN h = 0 .. m /\ h = [i \in 0 .. m |-> h[i]]
        /\ h[m] = G(g, m) /\ \A i \in 0 .. m - 1 : h[i] = g[i]
    BY <2>4
  <2> HIDE DEF h
  <2>9. \A i \in 0 .. m : h[i] = G(h, i)
    <3>1. ASSUME NEW i \in 0 .. m
          PROVE  h[i] = G(h, i)
      <4>1. i \in Nat /\ (i # 0 => i - 1 \in 0 .. m - 1) /\ (i # m => i \in 0 .. m - 1)
        BY <2>4
      <4>2. G(h, i) = G(g, i)
        BY <1>3, <2>8, <4>1
      <4>3. QED
        BY <2>7, <2>8, <4>1, <4>2
    <3>2. QED
      BY <3>1
  <2>10. Rec(h, m)
    BY <2>8, <2>9
  <2> HIDE DEF Rec
  <2>11. QED
    BY <2>4, <2>10
<1>6. Rec(after, n)
  <2> HIDE DEF Rec
  <2>1. \E f : Rec(f, n)
    BY <1>1, <1>5
  <2>2. QED
    BY <2>1
<1>7. \A i \in 0 .. n : after[i] = G(after, i)
  BY <1>6
<1> HIDE DEF after, Rec
(* Nor is there a first place where it would not be as it should. *)
<1>8. \A i \in 0 .. n : Fine(after[i], i)
  <2> DEFINE Bad == {i \in 0 .. n : ~ Fine(after[i], i)}
  <2>1. SUFFICES ASSUME Bad # {}
                 PROVE  FALSE
    OBVIOUS
  <2>2. Bad \in SUBSET Nat
    BY <1>1
  <2> HIDE DEF Bad
  <2>3. PICK m \in Bad : \A o \in Bad : m <= o
    BY <2>1, <2>2, NatHasLeast
  <2>4. m \in 0 .. n /\ ~ Fine(after[m], m)
    BY DEF Bad
  <2>5. m # 0 => Fine(after[m - 1], m - 1)
    <3>1. m # 0 => m - 1 \in 0 .. n /\ ~ (m <= m - 1)
      BY <1>1, <2>4
    <3>2. m # 0 => m - 1 \notin Bad
      BY <2>3, <3>1
    <3>3. QED
      BY <3>1, <3>2 DEF Bad
  <2>6. Fine(G(after, m), m)
    BY <1>4, <2>4, <2>5
  <2>7. QED
    BY <1>7, <2>4, <2>6
<1>9. Fine(after[n], n)
  BY <1>1, <1>8
<1>10. QED
  BY <1>2, <1>9 DEF Fine

LEMMA SnapshotIs ==
  ASSUME NEW w, NEW st, Kept(w, st), NEW e \in Epoch
  PROVE  /\ Kept(w, Snapshot(st, e)) /\ Snapshot(st, e).queue = st.queue
         /\ Snapshot(st, e).awoken = {} /\ Snapshot(st, e).loads = st.loads
<1> PICK s : s = Snapshot(st, e)
  OBVIOUS
<1>1. /\ DOMAIN s = DOMAIN st /\ s.snaps = st.snaps \cup Snaps(st, e) /\ s.awoken = {}
      /\ s.inbuf = st.inbuf /\ s.loads = st.loads /\ s.queue = st.queue /\ s.open = st.open
  BY DEF Snapshot, Kept, Fields
<1>2. RowsOf(Snaps(st, e))
  BY DEF RowsOf, Snaps, Kept
<1>3. RowsOf(s.snaps)
  BY <1>1, <1>2 DEF RowsOf, Kept
<1>4. Kept(w, s)
  BY <1>1, <1>3 DEF Kept
<1>5. QED
  BY <1>1, <1>4

LEMMA LastPartIs == Max({0} \cup SinkParts) \in Nat
<1> DEFINE S == {0} \cup SinkParts
<1>1. S \in SUBSET Nat /\ S # {} /\ IsFiniteSet(S)
  <2>1. IsFiniteSet(SinkParts) /\ SinkParts \subseteq Nat
    BY OutputAssumption
  <2>2. IsFiniteSet(SinkParts \cup {0})
    BY <2>1, FS_AddElement
  <2>3. S = SinkParts \cup {0}
    OBVIOUS
  <2>4. QED
    BY <2>1, <2>2, <2>3
<1> HIDE DEF S
<1>2. Max(S) \in Nat
  BY <1>1, MaxIs
<1>3. QED
  BY <1>2 DEF S

(* Closing an epoch leaves no file to be snapshotted. *)
LEMMA CloseIs ==
  ASSUME NEW w, NEW st, Kept(w, st), NEW e \in Epoch
  PROVE  Kept(w, Close(st, e)) /\ Close(st, e).queue = st.queue /\ Close(st, e).awoken = {}
<1> DEFINE now == {m \in st.loads : m.epoch = e}
           before(f, i) == IF i = 0 THEN [Snapshot(st, e) EXCEPT !.loads = @ \ now] ELSE f[i - 1]
<1> DEFINE n == Max({0} \cup SinkParts)
           G(f, i) == IF \E m \in now : m.part = i
                        THEN BuildPart(before(f, i), i, (CHOOSE m \in now : m.part = i).offset)
                        ELSE before(f, i)
           Rec(f, m) == f = [i \in 0 .. m |-> G(f, i)]
           after == CHOOSE f : Rec(f, n)
           Fine(v, i) == Kept(w, v) /\ v.queue = st.queue /\ v.awoken = {}
<1>1. n \in Nat
  BY LastPartIs
<1>2. Close(st, e) = after[n]
  BY DEF Close
<1>3. \A f, g : \A i \in Nat : (i # 0 => f[i - 1] = g[i - 1]) => G(f, i) = G(g, i)
  OBVIOUS
<1>4. ASSUME NEW i \in 0 .. n, NEW f, i # 0 => Fine(f[i - 1], i - 1)
      PROVE  Fine(G(f, i), i)
  <2>0. PICK b : b = before(f, i)
    OBVIOUS
  <2>1. Fine(b, i)
    <3>1. CASE i # 0
      BY <1>4, <2>0, <3>1
    <3>2. CASE i = 0
      <4> PICK s : s = Snapshot(st, e)
        OBVIOUS
      <4>1. Kept(w, s) /\ s.queue = st.queue /\ s.awoken = {} /\ s.loads = st.loads
        BY SnapshotIs
      <4>2. b = [s EXCEPT !.loads = @ \ now]
        BY <2>0, <3>2
      <4>3. /\ DOMAIN b = DOMAIN s /\ b.loads = s.loads \ now
            /\ b.inbuf = s.inbuf /\ b.queue = s.queue /\ b.open = s.open
            /\ b.awoken = s.awoken /\ b.snaps = s.snaps
        BY <4>1, <4>2 DEF Kept, Fields
      <4>4. Kept(w, b)
        BY <4>1, <4>3 DEF Kept
      <4>5. QED
        BY <4>1, <4>3, <4>4
    <3>3. QED
      BY <3>1, <3>2
  <2>2. CASE \E m \in now : m.part = i
    <3>1. i \in SinkParts /\ Owns(w, i)
      BY <2>2 DEF Kept
    <3>2. PICK o : o = (CHOOSE m \in now : m.part = i).offset
      OBVIOUS
    <3>3. G(f, i) = BuildPart(b, i, o)
      BY <2>0, <2>2, <3>2
    <3>4. Kept(w, b) /\ b.queue = st.queue /\ b.awoken = {}
      BY <2>1
    <3> HIDE DEF now, before, G, n
    <3>5. /\ Kept(w, BuildPart(b, i, o)) /\ BuildPart(b, i, o).queue = b.queue
          /\ BuildPart(b, i, o).awoken = b.awoken
      BY <3>1, <3>4, BuildPartIs
    <3>6. QED
      BY <3>3, <3>4, <3>5
  <2>3. CASE ~ \E m \in now : m.part = i
    BY <2>0, <2>1, <2>3
  <2>4. QED
    BY <2>2, <2>3
<1> HIDE DEF now, before, n, G, Fine
(* The function exists: there is none that is the shortest to be missing. *)
<1>5. \A m \in Nat : \E f : Rec(f, m)
  <2> DEFINE Bad == {m \in Nat : ~ \E f : Rec(f, m)}
  <2>1. SUFFICES ASSUME Bad # {}
                 PROVE  FALSE
    OBVIOUS
  <2>2. Bad \in SUBSET Nat
    OBVIOUS
  <2> HIDE DEF Bad
  <2>3. PICK m \in Bad : \A o \in Bad : m <= o
    BY <2>1, <2>2, NatHasLeast
  <2>4. m \in Nat /\ ~ \E f : Rec(f, m)
    BY DEF Bad
  <2>5. \E g : m # 0 => Rec(g, m - 1)
    <3>1. CASE m # 0
      <4>1. m - 1 \in Nat /\ ~ (m <= m - 1)
        BY <2>4, <3>1
      <4>2. m - 1 \notin Bad
        BY <2>3, <4>1
      <4> HIDE DEF Rec
      <4>3. QED
        BY <4>1, <4>2 DEF Bad
    <3>2. QED
      BY <3>1
  <2>6. PICK g : m # 0 => Rec(g, m - 1)
    BY <2>5
  <2> DEFINE h == [i \in 0 .. m |-> IF i = m THEN G(g, m) ELSE g[i]]
  <2>7. \A i \in 0 .. m - 1 : g[i] = G(g, i)
    <3>1. CASE m # 0
      BY <2>6, <3>1
    <3>2. CASE m = 0
      BY <3>2
    <3>3. QED
      BY <3>1, <3>2
  <2>8. /\ DOMAIN h = 0 .. m /\ h = [i \in 0 .. m |-> h[i]]
        /\ h[m] = G(g, m) /\ \A i \in 0 .. m - 1 : h[i] = g[i]
    BY <2>4
  <2> HIDE DEF h
  <2>9. \A i \in 0 .. m : h[i] = G(h, i)
    <3>1. ASSUME NEW i \in 0 .. m
          PROVE  h[i] = G(h, i)
      <4>1. i \in Nat /\ (i # 0 => i - 1 \in 0 .. m - 1) /\ (i # m => i \in 0 .. m - 1)
        BY <2>4
      <4>2. G(h, i) = G(g, i)
        BY <1>3, <2>8, <4>1
      <4>3. QED
        BY <2>7, <2>8, <4>1, <4>2
    <3>2. QED
      BY <3>1
  <2>10. Rec(h, m)
    BY <2>8, <2>9
  <2> HIDE DEF Rec
  <2>11. QED
    BY <2>4, <2>10
<1>6. Rec(after, n)
  <2> HIDE DEF Rec
  <2>1. \E f : Rec(f, n)
    BY <1>1, <1>5
  <2>2. QED
    BY <2>1
<1>7. \A i \in 0 .. n : after[i] = G(after, i)
  BY <1>6
<1> HIDE DEF after, Rec
(* Nor is there a first place where it would not be as it should. *)
<1>8. \A i \in 0 .. n : Fine(after[i], i)
  <2> DEFINE Bad == {i \in 0 .. n : ~ Fine(after[i], i)}
  <2>1. SUFFICES ASSUME Bad # {}
                 PROVE  FALSE
    OBVIOUS
  <2>2. Bad \in SUBSET Nat
    BY <1>1
  <2> HIDE DEF Bad
  <2>3. PICK m \in Bad : \A o \in Bad : m <= o
    BY <2>1, <2>2, NatHasLeast
  <2>4. m \in 0 .. n /\ ~ Fine(after[m], m)
    BY DEF Bad
  <2>5. m # 0 => Fine(after[m - 1], m - 1)
    <3>1. m # 0 => m - 1 \in 0 .. n /\ ~ (m <= m - 1)
      BY <1>1, <2>4
    <3>2. m # 0 => m - 1 \notin Bad
      BY <2>3, <3>1
    <3>3. QED
      BY <3>1, <3>2 DEF Bad
  <2>6. Fine(G(after, m), m)
    BY <1>4, <2>4, <2>5
  <2>7. QED
    BY <1>7, <2>4, <2>6
<1>9. Fine(after[n], n)
  BY <1>1, <1>8
<1>10. QED
  BY <1>2, <1>9 DEF Fine

(* What for_each leaves: a written file is snapshotted by an epoch that is  *)
(* still queued.                                                            *)
LEMMA ForEachIs ==
  ASSUME NEW w, NEW st, Kept(w, st), st.awoken # {} => st.queue # {}, NEW view
  PROVE  /\ Kept(w, ForEach(st, view))
         /\ ForEach(st, view).awoken # {} => ForEach(st, view).queue # {}
<1> DEFINE closed == {e \in st.queue : IsClosed(view, e)}
           before(f, i) == IF i = 0 THEN st ELSE f[i - 1]
<1> DEFINE n == Max({0} \cup closed)
           G(f, i) == IF i \in closed THEN Close(Eager(before(f, i), i), i) ELSE before(f, i)
           Rec(f, m) == f = [i \in 0 .. m |-> G(f, i)]
           after == CHOOSE f : Rec(f, n)
           Fine(v, i) == /\ Kept(w, v) /\ v.queue = st.queue
                         /\ closed = {} => v.awoken = st.awoken
                         /\ i \in closed => v.awoken = {}
<1>0. /\ Max({0} \cup closed) \in Nat
      /\ closed # {} => Max({0} \cup closed) \in closed
  <2> PICK C : C = closed
    OBVIOUS
  <2>1. IsFiniteSet(C) /\ C \subseteq Nat
    <3>1. C \in SUBSET Epoch /\ IsFiniteSet(Epoch) /\ Epoch \subseteq Nat
      BY EpochIs DEF Kept
    <3>2. QED
      BY <3>1, FS_Subset
  <2> PICK S : S = {0} \cup C
    OBVIOUS
  <2>2. S = C \cup {0}
    OBVIOUS
  <2>3. S \in SUBSET Nat /\ S # {} /\ IsFiniteSet(S)
    <3>1. IsFiniteSet(C \cup {0})
      BY <2>1, FS_AddElement
    <3>2. QED
      BY <2>1, <2>2, <3>1
  <2>4. PICK m : m = Max(S)
    OBVIOUS
  <2>5. m \in S /\ m \in Nat /\ \A y \in S : y <= m
    BY <2>3, <2>4, MaxIs
  <2>6. ASSUME NEW y \in C
        PROVE  m \in C
    <3>1. y \in Nat /\ y <= m
      BY <2>1, <2>5
    <3>2. m # 0 => m \in C
      BY <2>5
    <3>3. m = 0 => y = m
      BY <3>1
    <3>4. QED
      BY <3>2, <3>3
  <2>7. m = Max({0} \cup closed)
    BY <2>4
  <2>8. QED
    BY <2>5, <2>6, <2>7
<1>1. n \in Nat
  BY <1>0
<1>2. ForEach(st, view)
        = IF view = {} THEN [[after[n] EXCEPT !.queue = @ \ closed] EXCEPT !.open = {}]
          ELSE IF view \subseteq [after[n] EXCEPT !.queue = @ \ closed].queue
                 THEN Eager([after[n] EXCEPT !.queue = @ \ closed], CHOOSE f \in view : TRUE)
                 ELSE [after[n] EXCEPT !.queue = @ \ closed]
  BY DEF ForEach
<1>3. \A f, g : \A i \in Nat : (i # 0 => f[i - 1] = g[i - 1]) => G(f, i) = G(g, i)
  OBVIOUS
<1>4. ASSUME NEW i \in 0 .. n, NEW f, i # 0 => Fine(f[i - 1], i - 1)
      PROVE  Fine(G(f, i), i)
  <2>0. PICK b : b = before(f, i)
    OBVIOUS
  <2>1. Kept(w, b) /\ b.queue = st.queue /\ (closed = {} => b.awoken = st.awoken)
    <3>1. CASE i # 0
      BY <1>4, <2>0, <3>1
    <3>2. CASE i = 0
      BY <2>0, <3>2
    <3>3. QED
      BY <3>1, <3>2
  <2>2. CASE i \in closed
    <3>1. i \in Epoch
      BY <2>2 DEF Kept
    <3> PICK o : o = Eager(b, i)
      OBVIOUS
    <3>2. Kept(w, o) /\ o.queue = st.queue
      BY <2>1, EagerIs
    <3> PICK c : c = Close(o, i)
      OBVIOUS
    <3>3. Kept(w, c) /\ c.queue = st.queue /\ c.awoken = {}
      BY <3>1, <3>2, CloseIs
    <3>4. G(f, i) = c
      BY <2>0, <2>2
    <3>5. QED
      BY <2>2, <3>3, <3>4
  <2>3. CASE i \notin closed
    BY <2>0, <2>1, <2>3
  <2>4. QED
    BY <2>2, <2>3
<1> HIDE DEF closed, before, n, G, Fine
(* The function exists: there is none that is the shortest to be missing. *)
<1>5. \A m \in Nat : \E f : Rec(f, m)
  <2> DEFINE Bad == {m \in Nat : ~ \E f : Rec(f, m)}
  <2>1. SUFFICES ASSUME Bad # {}
                 PROVE  FALSE
    OBVIOUS
  <2>2. Bad \in SUBSET Nat
    OBVIOUS
  <2> HIDE DEF Bad
  <2>3. PICK m \in Bad : \A o \in Bad : m <= o
    BY <2>1, <2>2, NatHasLeast
  <2>4. m \in Nat /\ ~ \E f : Rec(f, m)
    BY DEF Bad
  <2>5. \E g : m # 0 => Rec(g, m - 1)
    <3>1. CASE m # 0
      <4>1. m - 1 \in Nat /\ ~ (m <= m - 1)
        BY <2>4, <3>1
      <4>2. m - 1 \notin Bad
        BY <2>3, <4>1
      <4> HIDE DEF Rec
      <4>3. QED
        BY <4>1, <4>2 DEF Bad
    <3>2. QED
      BY <3>1
  <2>6. PICK g : m # 0 => Rec(g, m - 1)
    BY <2>5
  <2> DEFINE h == [i \in 0 .. m |-> IF i = m THEN G(g, m) ELSE g[i]]
  <2>7. \A i \in 0 .. m - 1 : g[i] = G(g, i)
    <3>1. CASE m # 0
      BY <2>6, <3>1
    <3>2. CASE m = 0
      BY <3>2
    <3>3. QED
      BY <3>1, <3>2
  <2>8. /\ DOMAIN h = 0 .. m /\ h = [i \in 0 .. m |-> h[i]]
        /\ h[m] = G(g, m) /\ \A i \in 0 .. m - 1 : h[i] = g[i]
    BY <2>4
  <2> HIDE DEF h
  <2>9. \A i \in 0 .. m : h[i] = G(h, i)
    <3>1. ASSUME NEW i \in 0 .. m
          PROVE  h[i] = G(h, i)
      <4>1. i \in Nat /\ (i # 0 => i - 1 \in 0 .. m - 1) /\ (i # m => i \in 0 .. m - 1)
        BY <2>4
      <4>2. G(h, i) = G(g, i)
        BY <1>3, <2>8, <4>1
      <4>3. QED
        BY <2>7, <2>8, <4>1, <4>2
    <3>2. QED
      BY <3>1
  <2>10. Rec(h, m)
    BY <2>8, <2>9
  <2> HIDE DEF Rec
  <2>11. QED
    BY <2>4, <2>10
<1>6. Rec(after, n)
  <2> HIDE DEF Rec
  <2>1. \E f : Rec(f, n)
    BY <1>1, <1>5
  <2>2. QED
    BY <2>1
<1>7. \A i \in 0 .. n : after[i] = G(after, i)
  BY <1>6
<1> HIDE DEF after, Rec
(* Nor is there a first place where it would not be as it should. *)
<1>8. \A i \in 0 .. n : Fine(after[i], i)
  <2> DEFINE Bad == {i \in 0 .. n : ~ Fine(after[i], i)}
  <2>1. SUFFICES ASSUME Bad # {}
                 PROVE  FALSE
    OBVIOUS
  <2>2. Bad \in SUBSET Nat
    BY <1>1
  <2> HIDE DEF Bad
  <2>3. PICK m \in Bad : \A o \in Bad : m <= o
    BY <2>1, <2>2, NatHasLeast
  <2>4. m \in 0 .. n /\ ~ Fine(after[m], m)
    BY DEF Bad
  <2>5. m # 0 => Fine(after[m - 1], m - 1)
    <3>1. m # 0 => m - 1 \in 0 .. n /\ ~ (m <= m - 1)
      BY <1>1, <2>4
    <3>2. m # 0 => m - 1 \notin Bad
      BY <2>3, <3>1
    <3>3. QED
      BY <3>1, <3>2 DEF Bad
  <2>6. Fine(G(after, m), m)
    BY <1>4, <2>4, <2>5
  <2>7. QED
    BY <1>7, <2>4, <2>6
<1>9. Fine(after[n], n)
  BY <1>1, <1>8
<1> PICK l : l = after[n]
  OBVIOUS
<1>10. /\ Kept(w, l) /\ l.queue = st.queue
       /\ closed = {} => l.awoken = st.awoken
       /\ closed # {} => l.awoken = {}
  <2>1. closed # {} => n \in closed
    BY <1>0 DEF n
  <2>2. QED
    BY <1>9, <2>1 DEF Fine
<1>11. PICK at : at = [l EXCEPT !.queue = @ \ closed]
  OBVIOUS
<1>12. /\ DOMAIN at = DOMAIN l /\ at.queue = st.queue \ closed /\ at.awoken = l.awoken
       /\ at.inbuf = l.inbuf /\ at.loads = l.loads /\ at.open = l.open /\ at.snaps = l.snaps
  BY <1>10, <1>11 DEF Kept, Fields
<1>13. Kept(w, at) /\ (at.awoken # {} => at.queue # {})
  <2>1. Kept(w, at)
    BY <1>10, <1>12 DEF Kept
  <2>2. CASE closed # {}
    BY <1>10, <1>12, <2>1, <2>2
  <2>3. CASE closed = {}
    BY <1>10, <1>12, <2>1, <2>3
  <2>4. QED
    BY <2>1, <2>2, <2>3
<1>14. ForEach(st, view) = IF view = {} THEN [at EXCEPT !.open = {}]
                           ELSE IF view \subseteq at.queue THEN Eager(at, CHOOSE f \in view : TRUE)
                           ELSE at
  BY <1>2, <1>11
<1>15. CASE view = {}
  <2>1. closed = st.queue
    BY <1>15 DEF closed, IsClosed
  <2>2. at.queue = {} /\ at.awoken = {}
    BY <1>12, <1>13, <2>1
  <2> PICK s : s = [at EXCEPT !.open = {}]
    OBVIOUS
  <2>3. /\ DOMAIN s = DOMAIN at /\ s.open = {} /\ s.awoken = at.awoken /\ s.queue = at.queue
        /\ s.inbuf = at.inbuf /\ s.loads = at.loads /\ s.snaps = at.snaps
    BY <1>13 DEF Kept, Fields
  <2>4. Kept(w, s)
    BY <1>13, <2>2, <2>3 DEF Kept
  <2>5. QED
    BY <1>14, <1>15, <2>2, <2>3, <2>4
<1>16. CASE view # {} /\ view \subseteq at.queue
  <2> PICK front : front = CHOOSE f \in view : TRUE
    OBVIOUS
  <2> PICK s : s = Eager(at, front)
    OBVIOUS
  <2>1. Kept(w, s) /\ s.queue = at.queue
    BY <1>13, EagerIs
  <2>2. at.queue # {}
    BY <1>16
  <2>3. ForEach(st, view) = s
    BY <1>14, <1>16
  <2>4. QED
    BY <2>1, <2>2, <2>3
<1>17. CASE view # {} /\ ~ (view \subseteq at.queue)
  BY <1>13, <1>14, <1>17
<1>18. QED
  BY <1>15, <1>16, <1>17

-----------------------------------------------------------------------------
(* The steps. *)

LEMMA RoutesUnchanged ==
  ASSUME RoutesInv, UNCHANGED <<ex, ws, finished, routing>>
  PROVE  RoutesInv'
<1>1. Listed' = Listed
  BY DEF Listed
<1>2. QED
  BY <1>1 DEF RoutesInv, routing

LEMMA OwnersUnchanged ==
  ASSUME OwnersInv, UNCHANGED <<primaries, toOut, inbuf, loadsOut, loadsBuf, open>>
  PROVE  OwnersInv'
<1>1. \A w, p : Owns(w, p)' <=> Owns(w, p)
  BY DEF Owns
<1>2. QED
  BY <1>1 DEF OwnersInv

(* Between two executions there is nothing but what is persistent. *)
LEMMA InitInv ==
  ASSUME Init
  PROVE  OutputInv
<1>1. Epoch \in SUBSET Nat /\ 0 \in Epoch /\ LastEpoch \in Nat
  BY EpochIs, LastEpochIs
<1>2. 0 \in AllWorkers /\ 0 \in 0 .. MaxExecutions
  BY OutputAssumption DEF AllWorkers
<1>3. RoutesInv
  BY <1>2 DEF Init, Fresh, OnAll, RoutesInv
<1>4. QueuesInv
  <2>1. loader \in [RecParts -> AllWorkers] /\ cursor \in [RecParts -> [done : BOOLEAN, at : SUBSET SinkParts]]
    BY <1>2 DEF Init, Fresh, Uninit
  <2>2. point \in FirstEpoch .. LastEpoch + 1 /\ src \in [Sources -> Options(FirstEpoch .. LastEpoch + 1)]
    BY <1>1 DEF Init, Fresh, FirstEpoch, Options
  <2>3. /\ toPart \in [AllWorkers -> Seq(AtPart)] /\ toRoute \in [AllWorkers -> Seq(AtRoute)]
        /\ toOut \in [AllWorkers -> Seq(AtRoute)] /\ inbuf \in [AllWorkers -> Seq(AtRoute)]
    <3>1. \A S : <<>> \in Seq(S)
      OBVIOUS
    <3>2. QED
      BY <3>1 DEF Init, Fresh, OnAll
  <2>4. /\ queue \in [AllWorkers -> SUBSET Epoch] /\ cap \in [AllWorkers -> Options(Epoch)]
        /\ open \in [AllWorkers -> SUBSET SinkParts] /\ awoken \in [AllWorkers -> SUBSET SinkParts]
    BY DEF Init, Fresh, OnAll, Options
  <2>5. /\ RowsOf(snapq) /\ RowsOf(rows)
        /\ \A w \in AllWorkers : RowsOf(loads[w]) /\ RowsOf(loadsOut[w]) /\ RowsOf(loadsBuf[w])
        /\ DOMAIN loads = AllWorkers /\ DOMAIN loadsOut = AllWorkers /\ DOMAIN loadsBuf = AllWorkers
    BY DEF Init, Fresh, OnAll, RowsOf
  <2>6. QED
    BY <2>1, <2>2, <2>3, <2>4, <2>5 DEF QueuesInv
<1>5. AwokenInv
  BY DEF Init, Fresh, OnAll, AwokenInv
<1>6. OwnersInv
  BY DEF Init, Fresh, OnAll, OwnersInv
<1>7. QED
  BY <1>3, <1>4, <1>5, <1>6 DEF OutputInv

LEMMA LoseInv ==
  ASSUME OutputInv, Lose, ws' = {}, finished' \in BOOLEAN, UNCHANGED <<ex, store>>
  PROVE  OutputInv'
<1>1. Epoch \in SUBSET Nat /\ 0 \in Epoch /\ LastEpoch \in Nat
  BY EpochIs, LastEpochIs
<1>2. 0 \in AllWorkers
  BY OutputAssumption DEF AllWorkers
<1>3. RoutesInv'
  BY DEF Lose, OnAll, OutputInv, RoutesInv
<1>4. QueuesInv'
  <2>1. /\ (loader \in [RecParts -> AllWorkers])'
        /\ (cursor \in [RecParts -> [done : BOOLEAN, at : SUBSET SinkParts]])'
    BY <1>2 DEF Lose, Uninit
  <2>2. /\ (point \in FirstEpoch .. LastEpoch + 1)'
        /\ (src \in [Sources -> Options(FirstEpoch .. LastEpoch + 1)])'
    BY DEF Lose, OutputInv, QueuesInv, store, Options
  <2>3. /\ (toPart \in [AllWorkers -> Seq(AtPart)])' /\ (toRoute \in [AllWorkers -> Seq(AtRoute)])'
        /\ (toOut \in [AllWorkers -> Seq(AtRoute)])' /\ (inbuf \in [AllWorkers -> Seq(AtRoute)])'
    <3>1. \A S : <<>> \in Seq(S)
      OBVIOUS
    <3>2. QED
      BY <3>1 DEF Lose, OnAll
  <2>4. /\ (queue \in [AllWorkers -> SUBSET Epoch])' /\ (cap \in [AllWorkers -> Options(Epoch)])'
        /\ (open \in [AllWorkers -> SUBSET SinkParts])'
        /\ (awoken \in [AllWorkers -> SUBSET SinkParts])'
    BY DEF Lose, OnAll, Options
  <2>5. /\ RowsOf(snapq') /\ RowsOf(rows')
        /\ \A w \in AllWorkers : RowsOf(loads'[w]) /\ RowsOf(loadsOut'[w]) /\ RowsOf(loadsBuf'[w])
        /\ DOMAIN loads' = AllWorkers /\ DOMAIN loadsOut' = AllWorkers /\ DOMAIN loadsBuf' = AllWorkers
    BY DEF Lose, OnAll, RowsOf, OutputInv, QueuesInv, store
  <2>6. QED
    BY <2>1, <2>2, <2>3, <2>4, <2>5 DEF QueuesInv
<1>5. AwokenInv'
  BY DEF Lose, OnAll, AwokenInv
<1>6. OwnersInv'
  BY DEF Lose, OnAll, OwnersInv
<1>7. QED
  BY <1>3, <1>4, <1>5, <1>6 DEF OutputInv

LEMMA StartInv ==
  ASSUME OutputInv, Start
  PROVE  OutputInv'
<1>1. Epoch \in SUBSET Nat /\ 0 \in Epoch
  BY EpochIs
<1>2. PICK n \in 1 .. MaxWorkers :
        /\ ws' = 0 .. n - 1
        /\ loader' \in CalcPrimaries([r \in RecParts |-> 0 .. n - 1])
        /\ cap' = [w \in AllWorkers |-> IF w < n THEN {0} ELSE {}]
  BY DEF Start
<1>3. ws' \subseteq AllWorkers /\ ex' \in 0 .. MaxExecutions
  BY <1>2, OutputAssumption DEF Start, OutputInv, RoutesInv, AllWorkers
<1>4. RoutesInv'
  BY <1>3 DEF Start, OutputInv, RoutesInv, routing
<1>5. QueuesInv'
  <2>1. loader' \in [RecParts -> AllWorkers]
    <3> PICK K : K = [r \in RecParts |-> 0 .. n - 1]
      OBVIOUS
    <3>1. DOMAIN K = RecParts /\ \A r \in RecParts : K[r] \subseteq AllWorkers
      BY OutputAssumption DEF AllWorkers
    <3>2. loader' \in CalcPrimaries(K)
      BY <1>2
    <3>3. loader' \in [DOMAIN K -> UNION {K[r] : r \in DOMAIN K}]
      BY <3>2 DEF CalcPrimaries
    <3>4. QED
      BY <3>1, <3>3
  <2>2. cap' \in [AllWorkers -> Options(Epoch)]
    BY <1>1, <1>2 DEF Options
  <2>3. src' \in [Sources -> Options(FirstEpoch .. LastEpoch + 1)]
    BY DEF Start, OutputInv, QueuesInv, Options
  <2>4. QED
    BY <2>1, <2>2, <2>3 DEF Start, OutputInv, QueuesInv, store
<1>6. AwokenInv'
  BY DEF Start, OutputInv, AwokenInv
<1>7. OwnersInv'
  BY OwnersUnchanged DEF Start, OutputInv, routing
<1>8. QED
  BY <1>4, <1>5, <1>6, <1>7 DEF OutputInv

LEMMA AnnounceInv ==
  ASSUME OutputInv, NEW w \in AllWorkers, Announce(w)
  PROVE  OutputInv'
<1>1. RoutesInv'
  BY DEF Announce, OutputInv, RoutesInv
<1>2. QueuesInv'
  BY DEF Announce, OutputInv, QueuesInv, loading, items, output, store
<1>3. AwokenInv'
  BY DEF Announce, OutputInv, AwokenInv, output
<1>4. OwnersInv'
  BY OwnersUnchanged DEF Announce, OutputInv, items, output
<1>5. QED
  BY <1>1, <1>2, <1>3, <1>4 DEF OutputInv

(* There is nothing yet that anyone could own. *)
LEMMA AssignInv ==
  ASSUME OutputInv, Assign
  PROVE  OutputInv'
<1>1. RoutesInv'
  <2>1. Listed' = Listed
    BY DEF Assign, Listed
  <2>2. primaries' \in CalcPrimaries(Listed)
    BY DEF Assign, AllAnnounced, Listed
  <2>3. routes \in [Routers -> [AllWorkers -> {<<>>}]]
    BY DEF Assign, OutputInv, RoutesInv
  <2>4. routes' \in [Routers -> [AllWorkers -> {<<>>, primaries'}]]
    BY <2>3 DEF Assign
  <2>5. QED
    BY <2>1, <2>2, <2>4 DEF Assign, AllAnnounced, OutputInv, RoutesInv
<1>2. QueuesInv'
  BY DEF Assign, OutputInv, QueuesInv, loading, items, output, store
<1>3. AwokenInv'
  BY DEF Assign, OutputInv, AwokenInv, output
<1>4. OwnersInv'
  <2>1. \A w, p : ~ Owns(w, p)
    BY DEF Assign, Owns
  <2>2. \A w \in AllWorkers : /\ DOMAIN toOut[w] = {} /\ DOMAIN inbuf[w] = {}
                              /\ loadsOut[w] = {} /\ loadsBuf[w] = {} /\ open[w] = {}
    BY <2>1 DEF OutputInv, OwnersInv
  <2>3. QED
    BY <2>2 DEF Assign, OwnersInv, items, output
<1>5. QED
  BY <1>1, <1>2, <1>3, <1>4 DEF OutputInv

LEMMA LearnPartsInv ==
  ASSUME OutputInv, NEW w \in AllWorkers, LearnParts(w)
  PROVE  OutputInv'
<1>1. RoutesInv'
  <2>1. Listed' = Listed
    BY DEF LearnParts, Listed
  <2>2. UNION {Listing[v] : v \in announced} \subseteq SinkParts
    BY OutputAssumption DEF OutputInv, RoutesInv
  <2>3. known' \in [AllWorkers -> SUBSET SinkParts]
    BY <2>2 DEF LearnParts, OutputInv, RoutesInv
  <2>4. QED
    BY <2>1, <2>3 DEF LearnParts, OutputInv, RoutesInv
<1>2. QueuesInv'
  BY DEF LearnParts, OutputInv, QueuesInv, loading, items, output, store
<1>3. AwokenInv'
  BY DEF LearnParts, OutputInv, AwokenInv, output
<1>4. OwnersInv'
  BY OwnersUnchanged DEF LearnParts, OutputInv, items, output
<1>5. QED
  BY <1>1, <1>2, <1>3, <1>4 DEF OutputInv

LEMMA LearnRoutesInv ==
  ASSUME OutputInv, NEW w \in AllWorkers, NEW r \in Routers, LearnRoutes(r, w)
  PROVE  OutputInv'
<1>1. RoutesInv'
  <2>1. Listed' = Listed
    BY DEF LearnRoutes, Listed
  <2>2. routes' \in [Routers -> [AllWorkers -> {<<>>, primaries}]]
    BY DEF LearnRoutes, RoutingMap, OutputInv, RoutesInv
  <2>3. QED
    BY <2>1, <2>2 DEF LearnRoutes, OutputInv, RoutesInv
<1>2. QueuesInv'
  BY DEF LearnRoutes, OutputInv, QueuesInv, loading, items, output, store
<1>3. AwokenInv'
  BY DEF LearnRoutes, OutputInv, AwokenInv, output
<1>4. OwnersInv'
  BY OwnersUnchanged DEF LearnRoutes, OutputInv, items, output
<1>5. QED
  BY <1>1, <1>2, <1>3, <1>4 DEF OutputInv

(* Nothing is under way in an epoch that there is not. *)
LEMMA EpochsIs ==
  ASSUME NEW S, \A m \in S : m.epoch \in Epoch, NEW s \in Seq(S)
  PROVE  Epochs(Range(s)) \subseteq Epoch
BY DEF Epochs, Range

LEMMA FrontIs ==
  ASSUME OutputInv
  PROVE  LoadsFront \subseteq Epoch /\ OutIn \subseteq Epoch /\ SnapsFront \subseteq Epoch
<1>1. \A d : Unless(d) \subseteq Epoch
  BY EpochIs DEF Unless
<1>2. ws \subseteq AllWorkers
  BY DEF OutputInv, RoutesInv
<1>3. /\ \A w \in AllWorkers : /\ Epochs(loads[w]) \subseteq Epoch
                               /\ \A m \in loadsOut[w] : m.epoch \in Epoch
      /\ Epochs(snapq) \subseteq Epoch
  BY DEF OutputInv, QueuesInv, RowsOf, Epochs
<1>4. LoadsFront \subseteq Epoch
  <2>1. SUFFICES ASSUME NEW f \in LoadsFront
                 PROVE  f \in Epoch
    OBVIOUS
  <2>2. (\E r \in RecParts : f \in Unless(cursor[r].done)) \/ \E w \in ws : f \in Epochs(loads[w])
    BY DEF LoadsFront
  <2>3. QED
    BY <1>1, <1>2, <1>3, <2>2
<1>5. ItemsFront \subseteq Epoch
  <2>1. \A s \in Sources : src[s] \subseteq Epoch
    <3>1. ASSUME NEW s \in Sources
          PROVE  src[s] \subseteq Epoch
      <4>1. src[s] \in Options(FirstEpoch .. LastEpoch + 1)
        BY DEF OutputInv, QueuesInv
      <4>2. src[s] \subseteq FirstEpoch .. LastEpoch + 1
        BY <4>1, OptionIs
      <4>3. FirstEpoch .. LastEpoch + 1 \subseteq Epoch
        BY LastEpochIs DEF FirstEpoch, Epoch
      <4>4. QED
        BY <4>2, <4>3
    <3>2. QED
      BY <3>1
  <2>2. ASSUME NEW w \in ws
        PROVE  Epochs(Range(toPart[w] \o toRoute[w])) \subseteq Epoch
    <3> PICK S : S = AtPart \cup AtRoute
      OBVIOUS
    <3>1. \A m \in S : m.epoch \in Epoch
      BY DEF AtPart, AtRoute
    <3>2. PICK a : a = toPart[w]
      OBVIOUS
    <3>3. PICK b : b = toRoute[w]
      OBVIOUS
    <3>4. a \in Seq(AtPart) /\ b \in Seq(AtRoute)
      BY <1>2, <3>2, <3>3 DEF OutputInv, QueuesInv
    <3>5. a \in Seq(S) /\ b \in Seq(S)
      BY <3>4
    <3>6. PICK c : c = a \o b
      OBVIOUS
    <3>7. c \in Seq(S)
      BY <3>5, <3>6, ConcatIs
    <3>8. Epochs(Range(c)) \subseteq Epoch
      BY <3>1, <3>7, EpochsIs
    <3>9. QED
      BY <3>2, <3>3, <3>6, <3>8
  <2>3. SUFFICES ASSUME NEW f \in ItemsFront
                 PROVE  f \in Epoch
    OBVIOUS
  <2>4. \/ \E s \in Sources : f \in src[s]
        \/ \E w \in ws : f \in Epochs(Range(toPart[w] \o toRoute[w]))
    BY DEF ItemsFront
  <2>5. QED
    BY <2>1, <2>2, <2>4
<1>6. \A w \in ws : Epochs(Range(toOut[w]) \cup loadsOut[w]) \subseteq Epoch
  <2>1. ASSUME NEW w \in ws
        PROVE  Epochs(Range(toOut[w]) \cup loadsOut[w]) \subseteq Epoch
    <3>1. toOut[w] \in Seq(AtRoute) /\ \A m \in AtRoute : m.epoch \in Epoch
      BY <1>2 DEF OutputInv, QueuesInv, AtRoute
    <3>2. PICK s : s = toOut[w]
      OBVIOUS
    <3>3. Epochs(Range(s)) \subseteq Epoch
      BY <3>1, <3>2, EpochsIs
    <3>4. \A m \in loadsOut[w] : m.epoch \in Epoch
      BY <1>2, <1>3
    <3>5. Epochs(Range(s) \cup loadsOut[w]) \subseteq Epoch
      BY <3>3, <3>4 DEF Epochs
    <3>6. QED
      BY <3>2, <3>5
  <2>2. QED
    BY <2>1
<1>7. OutIn \subseteq Epoch
  <2>1. SUFFICES ASSUME NEW f \in OutIn
                 PROVE  f \in Epoch
    OBVIOUS
  <2>2. \/ f \in LoadsFront \cup ItemsFront
        \/ \E w \in ws :
             \/ f \in Unless(known[w] # {} /\ \A r \in Routers : routes[r][w] # <<>>)
             \/ f \in Epochs(Range(toOut[w]) \cup loadsOut[w])
    BY DEF OutIn
  <2>3. QED
    BY <1>1, <1>4, <1>5, <1>6, <2>2
<1>8. \A w \in ws : cap[w] \subseteq Epoch
  <2>1. \A w \in ws : cap[w] \in Options(Epoch)
    BY <1>2 DEF OutputInv, QueuesInv
  <2>2. QED
    BY <2>1, OptionIs
<1>9. ASSUME NEW f \in SnapsFront
      PROVE  f \in Epoch
  <2>1. f \in OutIn \/ (\E w \in ws : f \in cap[w]) \/ f \in Epochs(snapq)
    BY DEF SnapsFront
  <2>2. QED
    BY <1>3, <1>7, <1>8, <2>1
<1>10. QED
  BY <1>4, <1>7, <1>9

LEMMA LoadPageInv ==
  ASSUME OutputInv, NEW r \in RecParts, LoadPage(r)
  PROVE  OutputInv'
<1>1. RoutesInv'
  BY RoutesUnchanged DEF LoadPage, OutputInv
<1>2. QueuesInv'
  <2>1. PICK page : page = Select(r, cursor[r])
    OBVIOUS
  <2> DEFINE read == {m.part : m \in page}
  <2>2. page \subseteq rows
    BY <2>1 DEF Select, LastRows
  <2>3. RowsOf(page) /\ read \subseteq SinkParts
    BY <2>2 DEF OutputInv, QueuesInv, RowsOf
  <2> DEFINE next == [done |-> page = {}, at |-> {p \in read : \A q \in read : q <= p}]
  <2>4. /\ cursor' = [cursor EXCEPT ![r] = next]
        /\ loads' = [loads EXCEPT ![loader[r]] = @ \cup page]
    BY <2>1 DEF LoadPage
  <2>5. next \in [done : BOOLEAN, at : SUBSET SinkParts]
    BY <2>3
  <2> HIDE DEF next, read
  <2>6. cursor' \in [RecParts -> [done : BOOLEAN, at : SUBSET SinkParts]]
    BY <2>4, <2>5 DEF OutputInv, QueuesInv
  <2>7. DOMAIN loads' = AllWorkers /\ \A w \in AllWorkers : RowsOf(loads'[w])
    BY <2>3, <2>4 DEF OutputInv, QueuesInv, RowsOf
  <2>8. QED
    BY <2>6, <2>7 DEF LoadPage, OutputInv, QueuesInv, items, output, store
<1>3. AwokenInv'
  BY DEF LoadPage, OutputInv, AwokenInv, output
<1>4. OwnersInv'
  BY OwnersUnchanged DEF LoadPage, OutputInv, routing, items, output
<1>5. QED
  BY <1>1, <1>2, <1>3, <1>4 DEF OutputInv

LEMMA RouteLoadsInv ==
  ASSUME OutputInv, NEW w \in AllWorkers, RouteLoads(w)
  PROVE  OutputInv'
<1>1. RoutesInv'
  BY RoutesUnchanged DEF RouteLoads, OutputInv
<1>2. PICK m \in loads[w] :
        /\ loads' = [loads EXCEPT ![w] = @ \ {m}]
        /\ loadsOut' = [loadsOut EXCEPT ![routes["loads"][w][m.part]] = @ \cup {m}]
  BY DEF RouteLoads
<1>3. routes["loads"][w] = primaries /\ primaries # <<>>
  BY DEF RouteLoads, OutputInv, RoutesInv, Routers
<1> DEFINE v == primaries[m.part]
<1>4. loadsOut' = [loadsOut EXCEPT ![v] = @ \cup {m}]
  BY <1>2, <1>3
<1>5. m.part \in SinkParts /\ m.epoch \in Epoch
  BY DEF OutputInv, QueuesInv, RowsOf
<1> HIDE DEF v
<1>6. QueuesInv'
  <2>1. DOMAIN loads' = AllWorkers /\ \A u \in AllWorkers : RowsOf(loads'[u])
    BY <1>2 DEF OutputInv, QueuesInv, RowsOf
  <2>2. DOMAIN loadsOut' = AllWorkers /\ \A u \in AllWorkers : RowsOf(loadsOut'[u])
    BY <1>4, <1>5 DEF OutputInv, QueuesInv, RowsOf
  <2>3. QED
    BY <2>1, <2>2 DEF RouteLoads, OutputInv, QueuesInv, items, store
<1>7. AwokenInv'
  BY DEF RouteLoads, OutputInv, AwokenInv
<1>8. OwnersInv'
  <2>1. \A u, p : Owns(u, p)' <=> Owns(u, p)
    BY DEF Owns, RouteLoads, routing
  <2>2. Owns(v, m.part)
    BY <1>3 DEF Owns, v
  <2>3. \A u \in AllWorkers : \A n \in loadsOut'[u] : Owns(u, n.part)
    BY <1>4, <2>2 DEF OutputInv, QueuesInv, OwnersInv
  <2>4. QED
    BY <2>1, <2>3 DEF RouteLoads, OutputInv, OwnersInv, items
<1>9. QED
  BY <1>1, <1>6, <1>7, <1>8 DEF OutputInv

LEMMA EmitInv ==
  ASSUME OutputInv, NEW s \in Sources, Emit(s)
  PROVE  OutputInv'
<1>1. RoutesInv'
  BY RoutesUnchanged DEF Emit, OutputInv
<1>2. PICK e \in src[s] :
        IF e > Len(Script[s])
          THEN src' = [src EXCEPT ![s] = {}] /\ UNCHANGED toPart
          ELSE /\ src' = [src EXCEPT ![s] = {e + 1}]
               /\ toPart' = [toPart EXCEPT ![s % Cardinality(ws)] =
                               Append(@, [epoch |-> e, source |-> s])]
  BY DEF Emit
<1>3. PICK l \in Nat : l = Len(Script[s])
  BY OutputAssumption
<1>4. e \in FirstEpoch .. LastEpoch + 1 /\ l <= LastEpoch /\ LastEpoch \in Nat
  <2>1. src[s] \in Options(FirstEpoch .. LastEpoch + 1)
    BY DEF OutputInv, QueuesInv
  <2>2. QED
    BY <1>3, <2>1, OptionIs, LastEpochIs
<1>5. QueuesInv'
  <2>1. src' \in [Sources -> Options(FirstEpoch .. LastEpoch + 1)]
    <3> PICK T : T = Options(FirstEpoch .. LastEpoch + 1)
      OBVIOUS
    <3>0. src \in [Sources -> T] /\ {} \in T /\ \A x \in FirstEpoch .. LastEpoch + 1 : {x} \in T
      BY DEF OutputInv, QueuesInv, Options
    <3>1. CASE e > l
      BY <1>2, <1>3, <3>0, <3>1
    <3>2. CASE ~ (e > l)
      <4>1. e + 1 \in FirstEpoch .. LastEpoch + 1
        BY <1>3, <1>4, <3>2 DEF FirstEpoch
      <4>2. src' = [src EXCEPT ![s] = {e + 1}]
        BY <1>2, <1>3, <3>2
      <4>3. {e + 1} \in T
        BY <3>0, <4>1
      <4>4. QED
        BY <3>0, <4>2, <4>3
    <3>3. QED
      BY <3>1, <3>2
  <2>2. toPart' \in [AllWorkers -> Seq(AtPart)]
    <3>1. CASE e > l
      BY <1>2, <1>3, <3>1 DEF OutputInv, QueuesInv
    <3>2. CASE ~ (e > l)
      <4>1. PICK m : m = [epoch |-> e, source |-> s]
        OBVIOUS
      <4>2. m \in AtPart
        <5>1. e \in 1 .. l /\ e \in Epoch
          BY <1>4, <3>2 DEF FirstEpoch, Epoch
        <5>2. m.epoch = e /\ m.source = s /\ m \in [epoch : Epoch, source : Sources]
          BY <4>1, <5>1
        <5>3. QED
          BY <1>3, <5>1, <5>2 DEF AtPart
      <4>3. PICK v : v = s % Cardinality(ws)
        OBVIOUS
      <4>4. toPart' = [toPart EXCEPT ![v] = Append(@, m)]
        BY <1>2, <1>3, <3>2, <4>1, <4>3
      <4>5. toPart \in [AllWorkers -> Seq(AtPart)]
        BY DEF OutputInv, QueuesInv
      <4>6. \A q \in Seq(AtPart) : Append(q, m) \in Seq(AtPart)
        BY <4>2, AppendIs
      <4>7. QED
        BY <4>4, <4>5, <4>6
    <3>3. QED
      BY <3>1, <3>2
  <2>3. QED
    BY <2>1, <2>2 DEF Emit, OutputInv, QueuesInv, loading, output, store
<1>6. AwokenInv'
  BY DEF Emit, OutputInv, AwokenInv, output
<1>7. OwnersInv'
  BY OwnersUnchanged DEF Emit, OutputInv, routing, output
<1>8. QED
  BY <1>1, <1>5, <1>6, <1>7 DEF OutputInv

LEMMA PartitionInv ==
  ASSUME OutputInv, NEW w \in AllWorkers, Partition(w)
  PROVE  OutputInv'
<1>1. RoutesInv'
  BY RoutesUnchanged DEF Partition, OutputInv
<1> PICK a : a = toPart[w]
  OBVIOUS
<1> PICK parts : parts = known[w]
  OBVIOUS
<1>2. a \in Seq(AtPart) /\ parts \in SUBSET SinkParts /\ parts # {}
  BY DEF Partition, OutputInv, QueuesInv, RoutesInv
<1> DEFINE new == [i \in DOMAIN a |->
                     [epoch |-> a[i].epoch, source |-> a[i].source,
                      part |-> FileOf(parts, a[i].source, a[i].epoch)]]
<1>3. /\ toRoute' = [toRoute EXCEPT ![w] = @ \o new]
      /\ toPart' = [toPart EXCEPT ![w] = <<>>]
  BY DEF Partition
<1>4. new \in Seq(AtRoute)
  <2>1. ASSUME NEW i \in DOMAIN a
        PROVE  new[i] \in AtRoute
    <3>1. a[i] \in AtPart
      BY <1>2
    <3>2. /\ a[i].epoch \in Epoch /\ a[i].source \in Sources
          /\ a[i].epoch \in 1 .. Len(Script[a[i].source])
      BY <3>1 DEF AtPart
    <3>3. FileOf(parts, a[i].source, a[i].epoch) \in SinkParts
      BY <1>2, <3>2, FileIs
    <3>4. QED
      BY <3>2, <3>3 DEF AtRoute
  <2>2. DOMAIN a = 1 .. Len(a) /\ Len(a) \in Nat
    BY <1>2
  <2>3. new \in [1 .. Len(a) -> AtRoute]
    BY <2>1, <2>2
  <2> HIDE DEF new
  <2>4. QED
    BY <2>2, <2>3
<1> HIDE DEF new
<1>5. QueuesInv'
  <2>1. toPart' \in [AllWorkers -> Seq(AtPart)]
    <3>1. <<>> \in Seq(AtPart) /\ toPart \in [AllWorkers -> Seq(AtPart)]
      BY DEF OutputInv, QueuesInv
    <3>2. QED
      BY <1>3, <3>1
  <2>2. toRoute' \in [AllWorkers -> Seq(AtRoute)]
    <3>1. toRoute \in [AllWorkers -> Seq(AtRoute)]
      BY DEF OutputInv, QueuesInv
    <3>2. \A s \in Seq(AtRoute) : s \o new \in Seq(AtRoute)
      BY <1>4, ConcatIs
    <3>3. QED
      BY <1>3, <3>1, <3>2
  <2>3. QED
    BY <2>1, <2>2 DEF Partition, OutputInv, QueuesInv, loading, output, store
<1>6. AwokenInv'
  BY DEF Partition, OutputInv, AwokenInv, output
<1>7. OwnersInv'
  BY OwnersUnchanged DEF Partition, OutputInv, routing, output
<1>8. QED
  BY <1>1, <1>5, <1>6, <1>7 DEF OutputInv

(* A worker's router sends to v what v is the primary of. *)
LEMMA RouteInv ==
  ASSUME OutputInv, NEW w \in AllWorkers, Route(w)
  PROVE  OutputInv'
<1>1. RoutesInv'
  BY RoutesUnchanged DEF Route, OutputInv
<1> PICK a : a = toRoute[w]
  OBVIOUS
<1>2. a \in Seq(AtRoute)
  BY DEF OutputInv, QueuesInv
<1>3. routes["self"][w] = primaries /\ primaries # <<>>
  BY DEF Route, OutputInv, RoutesInv, Routers
<1> DEFINE places(v) == {i \in DOMAIN a : primaries[a[i].part] = v}
<1>4. /\ toOut' = [v \in AllWorkers |-> toOut[v] \o Only(a, places(v))]
      /\ toRoute' = [toRoute EXCEPT ![w] = <<>>]
  BY <1>3 DEF Route
<1>5. ASSUME NEW v \in AllWorkers
      PROVE  /\ toOut'[v] \in Seq(AtRoute)
             /\ \A i \in DOMAIN toOut'[v] : Owns(v, toOut'[v][i].part)
  <2>1. PICK b : b = toOut[v]
    OBVIOUS
  <2>2. b \in Seq(AtRoute) /\ \A i \in DOMAIN b : Owns(v, b[i].part)
    BY <2>1 DEF OutputInv, QueuesInv, OwnersInv
  <2>3. PICK P : P = places(v)
    OBVIOUS
  <2>4. \A i \in P : Owns(v, a[i].part)
    BY <1>3, <2>3 DEF Owns
  <2> HIDE DEF places
  <2>5. PICK o : o = Only(a, P)
    OBVIOUS
  <2>6. /\ Only(a, P) \in Seq(AtRoute)
        /\ \A j \in DOMAIN Only(a, P) : \E i \in DOMAIN a \cap P : Only(a, P)[j] = a[i]
    BY <1>2, OnlyIs
  <2>7. o \in Seq(AtRoute) /\ \A i \in DOMAIN o : Owns(v, o[i].part)
    BY <2>4, <2>5, <2>6
  <2>8. PICK T : T = AtRoute
    OBVIOUS
  <2>9. b \in Seq(T) /\ o \in Seq(T)
    BY <2>2, <2>7, <2>8
  <2>10. /\ b \o o \in Seq(T)
         /\ \A j \in DOMAIN (b \o o) : \/ \E i \in DOMAIN b : (b \o o)[j] = b[i]
                                       \/ \E i \in DOMAIN o : (b \o o)[j] = o[i]
    BY <2>9, ConcatIs
  <2>11. PICK c : c = b \o o
    OBVIOUS
  <2>12. \A j \in DOMAIN c : Owns(v, c[j].part)
    BY <2>2, <2>7, <2>10, <2>11
  <2>13. toOut'[v] = c
    BY <1>4, <2>1, <2>3, <2>5, <2>11
  <2>14. QED
    BY <2>8, <2>10, <2>11, <2>12, <2>13
<1> HIDE DEF places
<1>6. QueuesInv'
  <2>1. toOut' \in [AllWorkers -> Seq(AtRoute)]
    BY <1>4, <1>5
  <2>2. toRoute' \in [AllWorkers -> Seq(AtRoute)]
    <3>1. <<>> \in Seq(AtRoute) /\ toRoute \in [AllWorkers -> Seq(AtRoute)]
      BY DEF OutputInv, QueuesInv
    <3>2. QED
      BY <1>4, <3>1
  <2>3. QED
    BY <2>1, <2>2 DEF Route, OutputInv, QueuesInv, loading, output, store
<1>7. AwokenInv'
  BY DEF Route, OutputInv, AwokenInv, output
<1>8. OwnersInv'
  <2>1. \A u, p : Owns(u, p)' <=> Owns(u, p)
    BY DEF Owns, Route, routing
  <2>2. QED
    BY <1>5, <2>1 DEF Route, OutputInv, OwnersInv, output
<1>9. QED
  BY <1>1, <1>6, <1>7, <1>8 DEF OutputInv

(* The frontier that the output sees is one, and no later than the inputs. *)
LEMMA ViewIs ==
  ASSUME OutputInv, NEW w \in AllWorkers, NEW view \in Views(w)
  PROVE  view \in Options(Epoch)
<1>1. CASE OutIn = {}
  <2>1. cap[w] \in Options(Epoch)
    BY DEF OutputInv, QueuesInv
  <2>2. view = cap[w] \/ view = {}
    BY <1>1 DEF Views
  <2>3. QED
    BY <2>1, <2>2 DEF Options
<1>2. CASE OutIn # {}
  <2>1. OutIn \in SUBSET Nat /\ OutIn \subseteq Epoch
    BY FrontIs, EpochIs
  <2>2. PICK x \in OutIn : \A y \in OutIn : x <= y
    BY <1>2, <2>1, NatHasLeast
  <2>3. x \in Simplify(OutIn)
    BY <2>2 DEF Simplify
  <2>4. PICK last : last = CHOOSE e \in Simplify(OutIn) : TRUE
    OBVIOUS
  <2>5. last \in Simplify(OutIn)
    BY <2>3, <2>4
  <2>6. last \in Epoch
    BY <2>1, <2>5 DEF Simplify
  <2>7. PICK g \in 0 .. last : view = {g}
    BY <1>2, <2>4 DEF Views
  <2>8. g \in Epoch
    BY <2>6, <2>7, LastEpochIs DEF Epoch
  <2>9. QED
    BY <2>7, <2>8 DEF Options
<1>3. QED
  BY <1>1, <1>2

LEMMA OutputStepInv ==
  ASSUME OutputInv, NEW w \in AllWorkers, Output(w)
  PROVE  OutputInv'
<1>1. RoutesInv'
  BY RoutesUnchanged DEF Output, OutputInv
<1> DEFINE in == [inbuf |-> inbuf[w] \o toOut[w], loads |-> loadsBuf[w] \cup loadsOut[w],
                  queue |-> queue[w] \cup Epochs(Range(toOut[w]) \cup loadsOut[w]),
                  open |-> open[w], awoken |-> awoken[w], file |-> file, snaps |-> snapq]
<1>2. PICK view \in Views(w) : \E st \in {ForEach(in, view)} :
        /\ inbuf' = [inbuf EXCEPT ![w] = st.inbuf]
        /\ loadsBuf' = [loadsBuf EXCEPT ![w] = st.loads]
        /\ queue' = [queue EXCEPT ![w] = st.queue]
        /\ open' = [open EXCEPT ![w] = st.open]
        /\ awoken' = [awoken EXCEPT ![w] = st.awoken]
        /\ file' = st.file
        /\ snapq' = st.snaps
        /\ cap' = [cap EXCEPT ![w] = view]
  BY DEF Output
<1>3. PICK i : i = in
  OBVIOUS
<1>4. /\ DOMAIN i = Fields
      /\ i.inbuf = inbuf[w] \o toOut[w] /\ i.loads = loadsBuf[w] \cup loadsOut[w]
      /\ i.queue = queue[w] \cup Epochs(Range(toOut[w]) \cup loadsOut[w])
      /\ i.open = open[w] /\ i.awoken = awoken[w] /\ i.snaps = snapq
  BY <1>3 DEF Fields
<1> HIDE DEF in
<1>5. Kept(w, i)
  <2>1. i.inbuf \in Seq(AtRoute) /\ \A j \in DOMAIN i.inbuf : Owns(w, i.inbuf[j].part)
    <3>1. PICK a : a = inbuf[w]
      OBVIOUS
    <3>2. PICK b : b = toOut[w]
      OBVIOUS
    <3>3. /\ a \in Seq(AtRoute) /\ \A j \in DOMAIN a : Owns(w, a[j].part)
          /\ b \in Seq(AtRoute) /\ \A j \in DOMAIN b : Owns(w, b[j].part)
      BY <3>1, <3>2 DEF OutputInv, QueuesInv, OwnersInv
    <3>4. PICK T : T = AtRoute
      OBVIOUS
    <3>5. a \in Seq(T) /\ b \in Seq(T)
      BY <3>3, <3>4
    <3>6. /\ a \o b \in Seq(T)
          /\ \A j \in DOMAIN (a \o b) : \/ \E k \in DOMAIN a : (a \o b)[j] = a[k]
                                        \/ \E k \in DOMAIN b : (a \o b)[j] = b[k]
      BY <3>5, ConcatIs
    <3>7. PICK c : c = a \o b
      OBVIOUS
    <3>8. \A j \in DOMAIN c : Owns(w, c[j].part)
      BY <3>3, <3>6, <3>7
    <3>9. i.inbuf = c
      BY <1>4, <3>1, <3>2, <3>7
    <3>10. QED
      BY <3>4, <3>6, <3>7, <3>8, <3>9
  <2>2. \A m \in i.loads : m.part \in SinkParts /\ m.epoch \in Epoch /\ Owns(w, m.part)
    BY <1>4 DEF OutputInv, QueuesInv, OwnersInv, RowsOf
  <2>3. i.queue \subseteq Epoch
    <3>1. PICK b : b = toOut[w]
      OBVIOUS
    <3>2. b \in Seq(AtRoute) /\ \A m \in AtRoute : m.epoch \in Epoch
      BY <3>1 DEF OutputInv, QueuesInv, AtRoute
    <3>3. Epochs(Range(b)) \subseteq Epoch
      BY <3>2, EpochsIs
    <3>4. \A m \in loadsOut[w] : m.epoch \in Epoch
      BY DEF OutputInv, QueuesInv, RowsOf
    <3>5. Epochs(Range(b) \cup loadsOut[w]) \subseteq Epoch
      BY <3>3, <3>4 DEF Epochs
    <3>6. queue[w] \subseteq Epoch
      BY DEF OutputInv, QueuesInv
    <3>7. QED
      BY <1>4, <3>1, <3>5, <3>6
  <2>4. i.open \subseteq SinkParts /\ \A p \in i.open : Owns(w, p)
    BY <1>4 DEF OutputInv, QueuesInv, OwnersInv
  <2>5. i.awoken \subseteq i.open /\ RowsOf(i.snaps)
    BY <1>4 DEF OutputInv, QueuesInv, AwokenInv
  <2>6. QED
    BY <1>4, <2>1, <2>2, <2>3, <2>4, <2>5 DEF Kept
<1>6. i.awoken # {} => i.queue # {}
  BY <1>4 DEF OutputInv, AwokenInv
<1>7. PICK st : st = ForEach(i, view)
  OBVIOUS
<1>8. Kept(w, st) /\ (st.awoken # {} => st.queue # {})
  BY <1>5, <1>6, <1>7, ForEachIs
<1>9. /\ inbuf' = [inbuf EXCEPT ![w] = st.inbuf]
      /\ loadsBuf' = [loadsBuf EXCEPT ![w] = st.loads]
      /\ queue' = [queue EXCEPT ![w] = st.queue]
      /\ open' = [open EXCEPT ![w] = st.open]
      /\ awoken' = [awoken EXCEPT ![w] = st.awoken]
      /\ snapq' = st.snaps
      /\ cap' = [cap EXCEPT ![w] = view]
  BY <1>2, <1>3, <1>7
<1>10. /\ toOut' = [toOut EXCEPT ![w] = <<>>] /\ loadsOut' = [loadsOut EXCEPT ![w] = {}]
       /\ UNCHANGED <<ex, ws, finished, routing, loading, src, toPart, toRoute, rows, point>>
  BY DEF Output
<1>11. view \in Options(Epoch)
  BY ViewIs
<1>12. QueuesInv'
  <2>1. /\ inbuf' \in [AllWorkers -> Seq(AtRoute)] /\ queue' \in [AllWorkers -> SUBSET Epoch]
        /\ cap' \in [AllWorkers -> Options(Epoch)]
    BY <1>8, <1>9, <1>11 DEF OutputInv, QueuesInv, Kept
  <2>2. /\ open' \in [AllWorkers -> SUBSET SinkParts]
        /\ awoken' \in [AllWorkers -> SUBSET SinkParts] /\ RowsOf(snapq')
    BY <1>8, <1>9 DEF OutputInv, QueuesInv, Kept
  <2>3. /\ DOMAIN loadsBuf' = AllWorkers /\ DOMAIN loadsOut' = AllWorkers
        /\ \A u \in AllWorkers : RowsOf(loadsBuf'[u]) /\ RowsOf(loadsOut'[u])
    BY <1>8, <1>9, <1>10 DEF OutputInv, QueuesInv, Kept, RowsOf
  <2>4. toOut' \in [AllWorkers -> Seq(AtRoute)]
    <3>1. <<>> \in Seq(AtRoute) /\ toOut \in [AllWorkers -> Seq(AtRoute)]
      BY DEF OutputInv, QueuesInv
    <3>2. QED
      BY <1>10, <3>1
  <2>5. QED
    BY <1>10, <2>1, <2>2, <2>3, <2>4 DEF OutputInv, QueuesInv, loading
<1>13. AwokenInv'
  BY <1>8, <1>9 DEF OutputInv, QueuesInv, AwokenInv, Kept
<1>14. OwnersInv'
  <2>1. \A u, p : Owns(u, p)' <=> Owns(u, p)
    BY <1>10 DEF Owns, routing
  <2>2. ASSUME NEW u \in AllWorkers, u # w
        PROVE  /\ toOut'[u] = toOut[u] /\ inbuf'[u] = inbuf[u] /\ loadsOut'[u] = loadsOut[u]
               /\ loadsBuf'[u] = loadsBuf[u] /\ open'[u] = open[u]
    BY <1>9, <1>10, <2>2 DEF OutputInv, QueuesInv
  <2>3. /\ toOut'[w] = <<>> /\ inbuf'[w] = st.inbuf /\ loadsOut'[w] = {}
        /\ loadsBuf'[w] = st.loads /\ open'[w] = st.open
    BY <1>9, <1>10 DEF OutputInv, QueuesInv
  <2>4. ASSUME NEW u \in AllWorkers
        PROVE  /\ \A j \in DOMAIN toOut'[u] : Owns(u, toOut'[u][j].part)
               /\ \A j \in DOMAIN inbuf'[u] : Owns(u, inbuf'[u][j].part)
               /\ \A m \in loadsOut'[u] \cup loadsBuf'[u] : Owns(u, m.part)
               /\ \A p \in open'[u] : Owns(u, p)
    <3>1. CASE u = w
      BY <1>8, <2>3, <3>1 DEF Kept
    <3>2. CASE u # w
      BY <2>2, <3>2 DEF OutputInv, OwnersInv
    <3>3. QED
      BY <3>1, <3>2
  <2>5. QED
    BY <2>1, <2>4 DEF OwnersInv
<1>15. QED
  BY <1>1, <1>12, <1>13, <1>14 DEF OutputInv

LEMMA WriteSnapInv ==
  ASSUME OutputInv, WriteSnap
  PROVE  OutputInv'
<1>1. RoutesInv'
  BY RoutesUnchanged DEF WriteSnap, OutputInv
<1>2. QueuesInv'
  <2>1. RowsOf(snapq') /\ RowsOf(rows')
    BY DEF WriteSnap, OutputInv, QueuesInv, RowsOf
  <2>2. QED
    BY <2>1 DEF WriteSnap, OutputInv, QueuesInv, loading, items, output
<1>3. AwokenInv'
  BY DEF WriteSnap, OutputInv, AwokenInv, output
<1>4. OwnersInv'
  BY OwnersUnchanged DEF WriteSnap, OutputInv, routing, items, output
<1>5. QED
  BY <1>1, <1>2, <1>3, <1>4 DEF OutputInv

LEMMA AdvanceInv ==
  ASSUME OutputInv, Advance
  PROVE  OutputInv'
<1>1. RoutesInv'
  BY RoutesUnchanged DEF Advance, OutputInv
<1>2. QueuesInv'
  <2>1. PICK f \in IF SnapsFront = {} THEN {LastEpoch + 1} ELSE Simplify(SnapsFront) :
          f > point /\ point' = f
    BY DEF Advance
  <2>2. LastEpoch \in Nat /\ point \in FirstEpoch .. LastEpoch + 1
    BY LastEpochIs DEF OutputInv, QueuesInv
  <2>3. f \in 0 .. LastEpoch + 1
    <3>1. CASE SnapsFront = {}
      BY <2>1, <2>2, <3>1
    <3>2. CASE SnapsFront # {}
      BY <2>1, <3>2, FrontIs DEF Simplify, Epoch
    <3>3. QED
      BY <3>1, <3>2
  <2>4. point' \in FirstEpoch .. LastEpoch + 1
    BY <2>1, <2>2, <2>3 DEF FirstEpoch
  <2>5. QED
    BY <2>4 DEF Advance, OutputInv, QueuesInv, loading, items, output
<1>3. AwokenInv'
  BY DEF Advance, OutputInv, AwokenInv, output
<1>4. OwnersInv'
  BY OwnersUnchanged DEF Advance, OutputInv, routing, items, output
<1>5. QED
  BY <1>1, <1>2, <1>3, <1>4 DEF OutputInv

LEMMA StutterInv ==
  ASSUME OutputInv, UNCHANGED vars
  PROVE  OutputInv'
<1>1. RoutesInv'
  BY RoutesUnchanged DEF OutputInv, vars
<1>2. QueuesInv'
  BY DEF OutputInv, QueuesInv, vars, loading, items, output, store
<1>3. AwokenInv'
  BY DEF OutputInv, AwokenInv, vars, output
<1>4. OwnersInv'
  BY OwnersUnchanged DEF OutputInv, vars, routing, items, output
<1>5. QED
  BY <1>1, <1>2, <1>3, <1>4 DEF OutputInv

LEMMA NextInv ==
  ASSUME OutputInv, [Next]_vars
  PROVE  OutputInv'
<1>1. CASE Start
  BY <1>1, StartInv
<1>2. CASE Finish
  BY <1>2, LoseInv DEF Finish
<1>3. CASE Crash
  <2>1. finished \in BOOLEAN
    BY DEF OutputInv, RoutesInv
  <2>2. QED
    BY <1>3, <2>1, LoseInv DEF Crash
<1>4. CASE Assign
  BY <1>4, AssignInv
<1>5. CASE WriteSnap
  BY <1>5, WriteSnapInv
<1>6. CASE Advance
  BY <1>6, AdvanceInv
<1>7. ASSUME NEW w \in AllWorkers, Announce(w)
      PROVE  OutputInv'
  BY <1>7, AnnounceInv
<1>8. ASSUME NEW w \in AllWorkers, LearnParts(w)
      PROVE  OutputInv'
  BY <1>8, LearnPartsInv
<1>9. ASSUME NEW w \in AllWorkers, NEW r \in Routers, LearnRoutes(r, w)
      PROVE  OutputInv'
  BY <1>9, LearnRoutesInv
<1>10. ASSUME NEW w \in AllWorkers, RouteLoads(w)
       PROVE  OutputInv'
  BY <1>10, RouteLoadsInv
<1>11. ASSUME NEW w \in AllWorkers, Partition(w)
       PROVE  OutputInv'
  BY <1>11, PartitionInv
<1>12. ASSUME NEW w \in AllWorkers, Route(w)
       PROVE  OutputInv'
  BY <1>12, RouteInv
<1>13. ASSUME NEW w \in AllWorkers, Output(w)
       PROVE  OutputInv'
  BY <1>13, OutputStepInv
<1>14. ASSUME NEW r \in RecParts, LoadPage(r)
       PROVE  OutputInv'
  BY <1>14, LoadPageInv
<1>15. ASSUME NEW s \in Sources, Emit(s)
       PROVE  OutputInv'
  BY <1>15, EmitInv
<1>16. CASE UNCHANGED vars
  BY <1>16, StutterInv
<1>17. QED
  BY <1>1, <1>2, <1>3, <1>4, <1>5, <1>6, <1>7, <1>8, <1>9, <1>10, <1>11, <1>12, <1>13, <1>14,
     <1>15, <1>16 DEF Next, Steps

-----------------------------------------------------------------------------
(* The theorems. *)

(* What is routed by the broadcast primaries stays with them: the routing   *)
(* maps of an execution are all the one of worker 0, and the output of a    *)
(* worker has, and is sent, only files that worker is the primary of.       *)
THEOREM OutputInvHolds == Spec => []OutputInv
<1>1. Init => OutputInv
  BY InitInv
<1>2. OutputInv /\ [Next]_vars => OutputInv'
  BY NextInv
<1>3. QED
  BY <1>1, <1>2, PTL DEF Spec

(* A file is open for writing on at most one worker, whatever the workers   *)
(* list and however many there are: route sends its items and its snapshot  *)
(* to the one primary that assign_primaries has broadcast.                  *)
THEOREM OneWriterHolds == Spec => []OneWriter
<1>1. OutputInv => OneWriter
  <2>1. SUFFICES ASSUME OutputInv, NEW v \in ws, NEW w \in ws, v # w
                 PROVE  open[v] \cap open[w] = {}
    BY DEF OneWriter
  <2>2. v \in AllWorkers /\ w \in AllWorkers
    BY <2>1 DEF OutputInv, RoutesInv
  <2>3. \A p \in open[v] \cap open[w] : primaries[p] = v /\ primaries[p] = w
    BY <2>1, <2>2 DEF OutputInv, OwnersInv, Owns
  <2>4. QED
    BY <2>1, <2>3
<1>2. QED
  BY <1>1, OutputInvHolds, PTL

(* The greedy choice of calc_primaries, whatever order the unstable sort    *)
(* leaves between partitions that as many workers list: a primary lists its *)
(* partition, and has at most one more than any worker that lists it too.   *)
THEOREM PrimariesBalancedHolds == Spec => []PrimariesBalanced
<1>1. OutputInv => PrimariesBalanced
  <2>1. SUFFICES ASSUME OutputInv, NEW p \in DOMAIN primaries
                 PROVE  LET Has(w) == {q \in DOMAIN primaries : primaries[q] = w}
                        IN  /\ p \in Listing[primaries[p]]
                            /\ \A w \in ws : p \in Listing[w] =>
                                 Cardinality(Has(primaries[p])) <= Cardinality(Has(w)) + 1
    BY DEF PrimariesBalanced
  <2>2. primaries # <<>>
    <3>1. DOMAIN <<>> = {}
      OBVIOUS
    <3>2. QED
      BY <2>1, <3>1
  <2>3. primaries \in CalcPrimaries(Listed) /\ ws \in SUBSET AllWorkers
    BY <2>1, <2>2 DEF OutputInv, RoutesInv
  <2>4. PICK W : W = ws
    OBVIOUS
  <2>5. PICK K : K = Listed
    OBVIOUS
  <2>6. PICK prim : prim = primaries
    OBVIOUS
  <2>7. /\ W \in SUBSET AllWorkers /\ DOMAIN K = UNION {Listing[w] : w \in W}
        /\ \A q \in DOMAIN K : K[q] = {w \in W : q \in Listing[w]}
    BY <2>3, <2>4, <2>5 DEF Listed
  <2>8. prim \in CalcPrimaries(K) /\ p \in DOMAIN prim
    BY <2>1, <2>3, <2>5, <2>6
  <2>9. /\ prim[p] \in W /\ p \in Listing[prim[p]]
        /\ \A w \in W : p \in Listing[w] =>
             Cardinality(PartsOf(prim, prim[p])) <= Cardinality(PartsOf(prim, w)) + 1
    BY <2>7, <2>8, GreedyIsBalanced
  <2>10. QED
    BY <2>4, <2>6, <2>9 DEF PartsOf
<1>2. QED
  BY <1>1, OutputInvHolds, PTL
=============================================================================
