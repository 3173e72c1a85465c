---------------------------- MODULE WindowProofs -----------------------------
(***************************************************************************)
(* Windows, for every configuration, every number of items and every       *)
(* moment of a crash.  Sliding and tumbling windows: which of them an item *)
(* falls in, and that none loses it.  Sessions: what merging makes of them.*)
(* Both: what the watermark does, and which items it makes late.           *)
(***************************************************************************)
EXTENDS WindowInvariant, FiniteSetTheorems, SequenceTheorems, WellFoundedInduction, TLAPS

-----------------------------------------------------------------------------
(* Least elements. *)

(* A nonempty set of natural numbers has a least element. *)
LEMMA NatHasLeast ==
  ASSUME NEW S, S \subseteq Nat, S # {}
  PROVE  \E x \in S : \A y \in S : x <= y
<1> DEFINE R == {ss \in Nat \X Nat : ss[1] < ss[2]}
<1>1. IsWellFoundedOn(R, Nat)
  BY NatLessThanWellFounded DEF OpToRel
<1>2. \A a, b \in Nat : a < b => <<a, b>> \in R
  OBVIOUS
<1> HIDE DEF R
<1>3. PICK x \in S : \A y \in S : ~ (<<y, x>> \in R)
  BY <1>1, WFMin
<1>4. x \in Nat /\ \A y \in S : y \in Nat
  OBVIOUS
<1>5. \A y \in S : ~ (y < x)
  BY <1>2, <1>3, <1>4
<1>6. QED
  BY <1>4, <1>5

(* A finite nonempty set of integers has a least element, and Min is it. *)
LEMMA MinIsLeast ==
  ASSUME NEW S, S \subseteq Int, S # {}, IsFiniteSet(S)
  PROVE  Min(S) \in S /\ \A y \in S : Min(S) <= y
<1> DEFINE Least(T) == \E x \in T : \A y \in T : x <= y
           Bad == {n \in Nat : \E T : /\ IsFiniteSet(T) /\ T \subseteq Int /\ T # {}
                                      /\ Cardinality(T) = n /\ ~ Least(T)}
<1>1. Bad = {}
  <2>1. SUFFICES ASSUME Bad # {}
                 PROVE  FALSE
    OBVIOUS
  <2>2. Bad \subseteq Nat
    OBVIOUS
  <2> HIDE DEF Bad
  <2>3. PICK n \in Bad : \A m \in Bad : n <= m
    BY <2>1, <2>2, NatHasLeast
  <2> USE DEF Bad
  <2>4. PICK T : /\ IsFiniteSet(T) /\ T \subseteq Int /\ T # {}
                 /\ Cardinality(T) = n /\ ~ Least(T)
    OBVIOUS
  <2>5. PICK x \in T : TRUE
    BY <2>4
  <2>6. IsFiniteSet(T \ {x}) /\ Cardinality(T \ {x}) = n - 1
    BY <2>4, <2>5, FS_RemoveElement
  <2>7. Cardinality(T \ {x}) \in Nat
    BY <2>6, FS_CardinalityType
  <2>8. CASE T \ {x} = {}
    BY <2>4, <2>5, <2>8
  <2>9. CASE T \ {x} # {}
    <3>1. n - 1 \notin Bad
      BY <2>2, <2>3
    <3>2. Least(T \ {x})
      BY <2>4, <2>6, <2>7, <2>9, <3>1
    <3>3. PICK z \in T \ {x} : \A y \in T \ {x} : z <= y
      BY <3>2
    <3>4. (x <= z /\ \A y \in T : x <= y) \/ (z <= x /\ \A y \in T : z <= y)
      BY <2>4, <2>5, <3>3
    <3>5. QED
      BY <2>4, <2>5, <3>3, <3>4
  <2>10. QED
    BY <2>8, <2>9
<1>2. Cardinality(S) \in Nat
  BY FS_CardinalityType
<1>3. PICK x \in S : \A y \in S : x <= y
  BY <1>1, <1>2
<1>4. QED
  BY <1>3 DEF Min

-----------------------------------------------------------------------------
(* The windows of an item. *)

LEMMA DivIs ==
  ASSUME NEW x \in Int, NEW d \in Nat \ {0}
  PROVE  x \div d \in Int /\ d * (x \div d) <= x /\ x < d * (x \div d) + d
BY SMTT(30)

LEMMA BelowNext ==
  ASSUME NEW d \in Nat \ {0}, NEW i \in Int, NEW j \in Int, d * i < d * j + d
  PROVE  i <= j
BY SMTT(30)

(* Whole milliseconds are not rounded, and an i32 is not wrapped. *)
LEMMA NoRounding == Milli = 1 => \A d \in Int : NumMillis(d) = d
<1>1. \A d \in Int : d \div 1 = d
  BY SMTT(30)
<1>2. QED
  BY <1>1 DEF NumMillis

LEMMA NoWrapping == \A i \in I32 : i \in Int /\ AsI32(i) = i
<1>1. I32Half \in Nat \ {0}
  BY SlidingAssumption
<1>2. QED
  BY <1>1, SMTT(30) DEF I32, AsI32

(* The code's range of indices, from the first window that has not ended by *)
(* the time, has every window that holds it.                                *)
LEMMA IntersectsIs ==
  ASSUME Milli = 1,
         NEW cfg, cfg.length \in Nat \ {0}, cfg.offset \in Nat \ {0}, cfg.align \in Int,
         NEW time \in Int, Fits(cfg, time)
  PROVE  Intersects(cfg, time) = {Window(cfg, i) : i \in Covering(cfg, time, I32)}
<1> DEFINE a == cfg.align
           d == cfg.offset
           len == cfg.length
           x == time - (a + len)
           q == x \div d
           r == (- len) \div d
<1>1. x \in Int /\ q \in Int /\ r \in Int /\ - len \in Int
  BY DivIs
<1>2. d * q <= x /\ x < d * q + d
  BY <1>1, DivIs
<1>3. d * r <= - len /\ - len < d * r + d
  BY <1>1, DivIs
<1>4. FirstWindow(cfg, time) = q + 1
  BY <1>1, NoRounding DEF FirstWindow, DivFloor
<1>5. DivCeil(NumMillis(cfg.length), NumMillis(cfg.offset)) = - r
  BY <1>1, NoRounding DEF DivCeil
<1>6. Intersects(cfg, time) =
        {w \in {Window(cfg, (q + 1) + i) : i \in 0 .. (- r - 1)} : w.open <= time}
  BY <1>4, <1>5 DEF Intersects
<1> HIDE DEF q, r
<1>7. \A i \in Int : /\ d * i \in Int /\ d * (i - 1) = d * i - d
                     /\ i \in (q + 1) .. (q - r) => x < d * i /\ d * i <= time - a + d
  <2>1. SUFFICES ASSUME NEW i \in Int
                 PROVE  /\ d * i \in Int /\ d * (i - 1) = d * i - d
                        /\ i \in (q + 1) .. (q - r) => x < d * i /\ d * i <= time - a + d
    OBVIOUS
  <2>2. d * i \in Int /\ d * (i - 1) = d * i - d
    BY SMTT(30)
  <2>3. ASSUME i >= q + 1
        PROVE  d * i >= d * q + d
    BY <1>1, <2>3, SMTT(30)
  <2>4. ASSUME i <= q - r
        PROVE  d * i <= d * q - d * r
    BY <1>1, <2>4, SMTT(30)
  <2>5. d * q \in Int /\ d * r \in Int
    BY <1>1, SMTT(30)
  <2> HIDE DEF x
  <2>6. ASSUME i \in (q + 1) .. (q - r)
        PROVE  x < d * i
    BY <1>1, <1>2, <2>2, <2>3, <2>5, <2>6
  <2>7. ASSUME i \in (q + 1) .. (q - r)
        PROVE  d * i <= x + len + d
    BY <1>1, <1>2, <1>3, <2>2, <2>4, <2>5, <2>7
  <2>8. QED
    BY <2>2, <2>6, <2>7 DEF x
<1>8. ASSUME NEW i \in (q + 1) .. (q - r)
      PROVE  i \in I32 /\ AsI32(i) = i
  <2>1. i \in Int
    BY <1>1
  <2>2. x < d * i /\ d * i <= time - a + d /\ d * (i - 1) = d * i - d /\ d * i \in Int
    BY <1>7, <2>1
  <2>3. PICK y \in Int : y = d * i
    BY <2>2
  <2>4. d * (i - 1) = y - d /\ x < y /\ y <= time - a + d
    BY <2>2, <2>3
  <2>5. a + d * (i - 1) <= time /\ time < a + y + len
    BY <2>4
  <2>6. QED
    BY <2>1, <2>3, <2>5, NoWrapping DEF Fits
<1>9. ASSUME NEW i \in Int, a + d * i <= time, time < a + d * i + len
      PROVE  i \in (q + 1) .. (q - r)
  <2>1. d * i \in Int /\ d * q \in Int /\ d * r \in Int
    BY <1>1, SMTT(30)
  <2>2. d * q < d * i
    BY <1>1, <1>2, <1>9, <2>1
  <2>3. d * i < d * q - d * r + d
    BY <1>1, <1>2, <1>3, <1>9, <2>1
  <2>4. q < i
    BY <1>1, <2>2, SMTT(30)
  <2>5. d * (q - r) = d * q - d * r
    BY <1>1, SMTT(30)
  <2>6. i <= q - r
    BY <1>1, <2>3, <2>5, BelowNext
  <2>7. QED
    BY <1>1, <2>4, <2>6
<1>10. ASSUME NEW w \in Intersects(cfg, time)
       PROVE  w \in {Window(cfg, i) : i \in Covering(cfg, time, I32)}
  <2>1. PICK j \in 0 .. (- r - 1) : w = Window(cfg, (q + 1) + j)
    BY <1>6
  <2>2. PICK i \in (q + 1) .. (q - r) : w = Window(cfg, i)
    BY <1>1, <2>1
  <2>3. i \in Int /\ AsI32(i) = i /\ i \in I32
    BY <1>1, <1>8
  <2>4. a + d * i <= time
    BY <1>6, <2>2, <2>3 DEF Window
  <2>5. time < a + d * i + len
    BY <1>1, <1>7, <2>3, SMTT(30)
  <2>6. QED
    BY <2>2, <2>3, <2>4, <2>5 DEF Covering
<1>11. ASSUME NEW i \in Covering(cfg, time, I32)
       PROVE  Window(cfg, i) \in Intersects(cfg, time)
  <2>1. i \in Int /\ AsI32(i) = i /\ a + d * i <= time /\ time < a + d * i + len
    BY NoWrapping DEF Covering
  <2>2. i \in (q + 1) .. (q - r)
    BY <1>9, <2>1
  <2>3. i - (q + 1) \in 0 .. (- r - 1) /\ (q + 1) + (i - (q + 1)) = i
    BY <1>1, <2>1, <2>2
  <2>4. Window(cfg, i).open <= time
    BY <2>1 DEF Window
  <2>5. QED
    BY <1>6, <2>3, <2>4
<1>12. QED
  BY <1>10, <1>11

(* SlidingWindower::intersects yields the windows that hold a time, no other *)
(* and none less: overlapping, tumbling or with gaps, on either side of      *)
(* align_to.  Needed are whole milliseconds and room for the indices.        *)
THEOREM SlidingAssignmentHolds ==
  Milli = 1 /\ I32Half >= 32 => (Spec => []SlidingAssignment)
<1> SUFFICES ASSUME Milli = 1, I32Half >= 32
             PROVE  Spec => []SlidingAssignment
  OBVIOUS
<1>1. ASSUME NEW length \in 1 .. MaxLength, NEW offset \in 1 .. MaxLength - 1,
             NEW align \in -2 .. 2, NEW time \in (0 - MaxDistance) .. MaxDistance
      PROVE  LET cfg == [length |-> length * Milli, offset |-> offset * Milli, align |-> align]
             IN  Intersects(cfg, time)
                   = CoveringWindows(cfg, time, (0 - 2 * MaxDistance) .. 2 * MaxDistance)
  <2> DEFINE cfg == [length |-> length, offset |-> offset, align |-> align]
  <2>1. /\ length \in 1 .. 5 /\ offset \in 1 .. 4 /\ align \in -2 .. 2 /\ time \in -14 .. 14
        /\ length * Milli = length /\ offset * Milli = offset
        /\ (0 - 2 * MaxDistance) .. 2 * MaxDistance = -28 .. 28
    BY DEF MaxLength, MaxDistance
  <2>2. I32Half \in Nat /\ -28 .. 28 \subseteq I32
    BY SlidingAssumption DEF I32
  <2>3. \A i \in Int : align + offset * (i - 1) <= time /\ time < align + offset * i + length
                       => i \in -28 .. 28
    <3>1. SUFFICES ASSUME NEW i \in Int, align + offset * (i - 1) <= time,
                          time < align + offset * i + length
                   PROVE  i \in -28 .. 28
      OBVIOUS
    <3>2. /\ i - 1 >= 0 => offset * (i - 1) >= i - 1
          /\ i <= 0 => offset * i <= i
          /\ offset * (i - 1) \in Int /\ offset * i \in Int
      BY <2>1, SMTT(30)
    <3>3. i <= 17
      BY <2>1, <3>1, <3>2
    <3>4. i >= -20
      BY <2>1, <3>1, <3>2
    <3>5. QED
      BY <3>3, <3>4
  <2>4. Fits(cfg, time)
    BY <2>2, <2>3 DEF Fits
  <2>5. \A i \in Int : align + offset * i <= time => align + offset * (i - 1) <= time
    BY <2>1, SMTT(30)
  <2>6. Covering(cfg, time, I32) = Covering(cfg, time, -28 .. 28)
    BY <2>2, <2>3, <2>5 DEF Covering, I32
  <2>7. Intersects(cfg, time) = {Window(cfg, i) : i \in Covering(cfg, time, I32)}
    BY <2>1, <2>4, IntersectsIs
  <2>8. \A i \in Covering(cfg, time, I32) :
          Window(cfg, i) = [key |-> i, open |-> cfg.align + cfg.offset * i,
                            close |-> cfg.align + cfg.offset * i + cfg.length]
    BY NoWrapping DEF Window, Covering
  <2>9. Intersects(cfg, time) = CoveringWindows(cfg, time, -28 .. 28)
    BY <2>6, <2>7, <2>8, ZenonT(30) DEF CoveringWindows
  <2>10. QED
    BY <2>1, <2>9
<1>2. SlidingAssignment
  BY <1>1 DEF SlidingAssignment
<1>3. QED
  BY <1>2, PTL

-----------------------------------------------------------------------------
(* The clock. *)

LEMMA ConfigIs ==
  ASSUME NEW c \in Configs
  PROVE  /\ c.clock \in {"event", "system"} /\ c.kind \in {"sliding", "session"}
         /\ c.wait \in Nat /\ c.length \in Nat \ {0} /\ c.offset \in Nat \ {0}
         /\ c.gap \in Nat \ {0} /\ c.align \in Int
         /\ MinUtc \in Int /\ MaxUtc \in Nat \ {0}
         /\ \A t \in Times : t \in Int /\ MinUtc < t - c.wait /\ t < MaxUtc /\ t + c.length < MaxUtc
<1>1. c \in [clock : {"event", "system"}, wait : Nat, kind : {"sliding", "session"},
             length : Nat \ {0}, offset : Nat \ {0}, align : Int, gap : Nat \ {0}]
  BY WindowAssumption
<1>2. MinUtc \in Int /\ MaxUtc \in Nat \ {0} /\ MaxNow \in Nat /\ Times \subseteq Int
  BY WindowAssumption
<1>3. \A t \in Times : MinUtc < t - c.wait /\ t + c.gap + c.length + c.wait + MaxNow < MaxUtc
  BY WindowAssumption
<1>4. \A t \in Times : t < MaxUtc /\ t + c.length < MaxUtc
  BY <1>1, <1>2, <1>3
<1>5. QED
  BY <1>1, <1>2, <1>3, <1>4

LEMMA MaxOfOne == \A x \in Int : Max({x}) = x
BY DEF Max

(* Without a new item the clock stays as it is. *)
LEMMA ClockStays ==
  ASSUME conf \in Configs, now \in Nat, ClockInv(Live)
  PROVE  /\ NewClock({}) = clock
         /\ \A c \in clock : EventWatermark({}) = WatermarkOf(c)
         /\ \A c \in clock : WatermarkOf(c) \in Int
<1>1. clock \subseteq [event : Int, system : Nat] /\ \A c, d \in clock : c = d
  BY DEF ClockInv, Live
<1>2. SeenTimes({}) = clock
  BY DEF SeenTimes
<1>3. \A c \in clock : WatermarkOf(c) \in Int
  BY <1>1, ConfigIs DEF WatermarkOf
<1>4. NewClock({}) = clock
  BY <1>1, <1>2 DEF NewClock
<1>5. ASSUME NEW c \in clock
      PROVE  EventWatermark({}) = WatermarkOf(c)
  <2>1. clock = {c}
    BY <1>1
  <2>2. {WatermarkOf(d) : d \in NewClock({})} = {WatermarkOf(c)}
    BY <1>4, <2>1
  <2>3. EventWatermark({}) = Max({WatermarkOf(d) : d \in NewClock({})})
    BY <1>2 DEF EventWatermark
  <2>4. QED
    BY <1>3, <2>2, <2>3, MaxOfOne
<1>6. QED
  BY <1>3, <1>4, <1>5

(* With a new item the clock has one item, whose watermark is the largest. *)
LEMMA ClockMoves ==
  ASSUME conf \in Configs, now \in Nat, ~ ended, ClockInv(Live),
         NEW t \in Int, t <= MaxUtc
  PROVE  \E m \in SeenTimes({t}) :
           /\ NewClock({t}) = {m} /\ EventWatermark({t}) = WatermarkOf(m)
           /\ \A d \in SeenTimes({t}) : WatermarkOf(d) \in Int /\ WatermarkOf(d) <= WatermarkOf(m)
<1> DEFINE n == [event |-> t, system |-> now]
<1>1. /\ clock \subseteq [event : Int, system : Nat] /\ \A c, d \in clock : c = d
      /\ \A c \in clock : c.system <= now /\ c.event < MaxUtc
  BY DEF ClockInv, Live
<1>2. SeenTimes({t}) = clock \cup {n}
  BY DEF SeenTimes
<1>3. conf.wait \in Nat /\ MaxUtc \in Int
  BY ConfigIs
<1>4. \A d \in SeenTimes({t}) : WatermarkOf(d) \in Int
  BY <1>1, <1>2, <1>3 DEF WatermarkOf
<1>5. \A m \in SeenTimes({t}) : NewClock({t}) = {m} => EventWatermark({t}) = WatermarkOf(m)
  <2>1. ASSUME NEW m \in SeenTimes({t}), NewClock({t}) = {m}
        PROVE  EventWatermark({t}) = WatermarkOf(m)
    <3>1. {WatermarkOf(d) : d \in NewClock({t})} = {WatermarkOf(m)}
      BY <2>1
    <3>2. EventWatermark({t}) = Max({WatermarkOf(d) : d \in NewClock({t})})
      BY <1>2 DEF EventWatermark
    <3>3. QED
      BY <1>4, <3>1, <3>2, MaxOfOne
  <2>2. QED
    BY <2>1
<1>6. CASE clock = {}
  <2>1. SeenTimes({t}) = {n}
    BY <1>2, <1>6
  <2>2. NewClock({t}) = {n}
    BY <2>1 DEF NewClock
  <2>3. WatermarkOf(n) \in Int /\ EventWatermark({t}) = WatermarkOf(n)
    BY <1>4, <1>5, <2>1, <2>2
  <2> HIDE DEF n
  <2>4. QED
    BY <2>1, <2>2, <2>3
<1>7. CASE clock # {}
  <2>1. PICK c \in clock : clock = {c}
    BY <1>1, <1>7
  <2>2. SeenTimes({t}) = {c, n} /\ c.system \in Nat /\ c.event \in Int
    BY <1>1, <1>2, <2>1
  (* A tie of both watermark and system time is one of equal items. *)
  <2>3. WatermarkOf(c) = WatermarkOf(n) /\ c.system = now => c = n
    <3>1. SUFFICES ASSUME WatermarkOf(c) = WatermarkOf(n), c.system = now
                   PROVE  c = n
      OBVIOUS
    <3>2. WatermarkOf(c) = c.event - conf.wait + (now - c.system)
      BY <1>1 DEF WatermarkOf
    <3>3. CASE t = MaxUtc
      BY <1>1, <1>3, <2>2, <3>1, <3>2, <3>3 DEF WatermarkOf
    <3>4. CASE t # MaxUtc
      <4>1. WatermarkOf(n) = t - conf.wait + (now - now)
        BY <3>4 DEF WatermarkOf
      <4>2. c.event = t
        BY <1>3, <2>2, <3>1, <3>2, <4>1
      <4>3. QED
        BY <1>1, <3>1, <4>2
    <3>5. QED
      BY <3>3, <3>4
  <2> DEFINE Wc == WatermarkOf(c)
             Wn == WatermarkOf(n)
  <2>4. Wc \in Int /\ Wn \in Int /\ n.system = now /\ c.system <= now
    BY <1>1, <1>4, <2>2
  <2>5. NewClock({t}) =
          {e \in {c, n} : \A d \in {c, n} :
             WatermarkOf(d) < WatermarkOf(e) \/ (WatermarkOf(d) = WatermarkOf(e) /\ d.system <= e.system)}
    BY <2>2 DEF NewClock
  <2>6. n.system \in Nat
    OBVIOUS
  <2> HIDE DEF Wc, Wn, n
  <2>7. CASE Wc <= Wn
    <3>1. \A d \in {c, n} : WatermarkOf(d) < WatermarkOf(n)
                               \/ (WatermarkOf(d) = WatermarkOf(n) /\ d.system <= n.system)
      BY <2>2, <2>4, <2>7, <2>6 DEF Wc, Wn
    <3>2. n \in NewClock({t})
      BY <2>5, <3>1
    <3>3. c \in NewClock({t}) => c = n
      BY <2>3, <2>4, <2>5, <2>7, <2>2 DEF Wc, Wn
    <3>4. NewClock({t}) = {n}
      BY <2>5, <3>2, <3>3
    <3>5. QED
      BY <1>4, <1>5, <2>2, <2>4, <2>7, <3>4 DEF Wc, Wn
  <2>8. CASE Wn < Wc
    <3>1. c \in NewClock({t})
      BY <2>4, <2>5, <2>8, <2>2 DEF Wc, Wn
    <3>2. n \notin NewClock({t})
      BY <2>4, <2>5, <2>8, <2>2 DEF Wc, Wn
    <3>3. NewClock({t}) = {c}
      BY <2>5, <3>1, <3>2
    <3>4. QED
      BY <1>4, <1>5, <2>2, <2>4, <2>8, <3>3 DEF Wc, Wn
  <2>9. QED
    BY <2>4, <2>7, <2>8
<1>8. QED
  BY <1>6, <1>7

-----------------------------------------------------------------------------
(* What DrainClosed leaves. *)

Passed(ws, wm) == {w \in ws : IsClosed(w, wm)}
Left(ws, wm) == {w \in ws : ~ IsClosed(w, wm)}

LEMMA DrainedIs ==
  ASSUME NEW wm, NEW ws, NEW ls, NEW mk, NEW cl, DrainClosed(wm, ws, ls, mk, cl)
  PROVE  /\ windows' = Left(ws, wm)
         /\ windows' = {} => /\ clock' = {} /\ maxKey' = 0
                             /\ logics' = NoLogics /\ nextAwake' = {}
         /\ windows' # {} => /\ clock' = cl /\ maxKey' = mk
                             /\ logics' = Restrict(ls, DOMAIN ls \ {w.key : w \in Passed(ws, wm)})
                             /\ nextAwake' = NextAwake(windows')
         /\ \E order \in ByStart(Passed(ws, wm)) :
              closed' = closed \o [j \in DOMAIN order |->
                [key |-> order[j].key, open |-> order[j].open,
                 close |-> order[j].close, items |-> ls[order[j].key]]]
<1>1. ws \ Passed(ws, wm) = Left(ws, wm)
  BY DEF Passed, Left
<1>2. /\ windows' = Left(ws, wm)
      /\ Left(ws, wm) = {} => /\ clock' = {} /\ maxKey' = 0
                              /\ logics' = NoLogics /\ nextAwake' = {}
      /\ Left(ws, wm) # {} => /\ clock' = cl /\ maxKey' = mk
                              /\ logics' = Restrict(ls, DOMAIN ls \ {w.key : w \in Passed(ws, wm)})
                              /\ nextAwake' = NextAwake(Left(ws, wm))
      /\ \E order \in ByStart(Passed(ws, wm)) :
           closed' = closed \o [j \in DOMAIN order |->
             [key |-> order[j].key, open |-> order[j].open,
              close |-> order[j].close, items |-> ls[order[j].key]]]
  BY <1>1, Zenon DEF DrainClosed, Passed
<1>3. QED
  BY <1>2, Zenon

LEMMA DrainedClock ==
  ASSUME NEW wm, NEW ws, NEW ls, NEW mk, NEW cl, DrainClosed(wm, ws, ls, mk, cl), windows' # {}
  PROVE  clock' = cl
BY DrainedIs

LEMMA InitClock == Init => WClockInv
<1> SUFFICES ASSUME Init
             PROVE  WClockInv
  OBVIOUS
<1>1. MaxCrashes \in Nat
  BY WindowAssumption
<1>2. ScalarsInv
  <2>1. /\ conf \in Configs /\ now = 0 /\ crashes = 0 /\ due = FALSE /\ ended = FALSE
        /\ arrived = <<>> /\ done = 0 /\ saved.done = 0
    BY DEF Init
  <2>2. due \in BOOLEAN /\ ended \in BOOLEAN
    BY <2>1, Zenon
  <2>3. QED
    BY <1>1, <2>1, <2>2 DEF ScalarsInv
<1>3. ClockInv(Live) /\ ClockInv(saved)
  BY DEF Init, ClockInv, Live
<1>4. QED
  BY <1>2, <1>3 DEF WClockInv

LEMMA NextScalars ==
  ASSUME ScalarsInv, [Next]_vars
  PROVE  ScalarsInv' /\ conf' = conf /\ now <= now'
<1> USE DEF ScalarsInv
<1>1. ASSUME NEW t \in ItemTimes, OnItem(t)
      PROVE  ScalarsInv' /\ conf' = conf /\ now <= now'
  <2> DEFINE i == done + 1
  <2>1. /\ ~ ended /\ done' = i /\ UNCHANGED <<conf, due, saved, ended, crashes>>
        /\ now' = (IF conf.clock = "event" THEN now ELSE t)
        /\ arrived' = (IF done = Len(arrived) THEN Append(arrived, t)
                                              ELSE [arrived EXCEPT ![i] = t])
    BY <1>1 DEF OnItem
  <2>2. t \in Int /\ t \in Times \cup (0 .. MaxUtc - 1) /\ now' \in Nat /\ now <= now'
    <3>1. MaxUtc \in Nat /\ conf.length \in Nat \ {0} /\ \A u \in Times : u \in Int
      BY ConfigIs
    <3>2. CASE conf.clock = "event"
      BY <2>1, <3>1, <3>2 DEF ItemTimes
    <3>3. CASE conf.clock # "event"
      <4>1. t \in {now, now + 1} /\ t + conf.length < MaxUtc
        BY <3>3 DEF ItemTimes
      <4>2. QED
        BY <2>1, <3>1, <3>3, <4>1
    <3>4. QED
      BY <3>2, <3>3
  <2>3. i \in 1 .. Len(arrived) + 1 /\ Len(arrived) \in Nat
    OBVIOUS
  <2>4. /\ arrived' \in Seq(Int) /\ done' \in 0 .. Len(arrived')
        /\ \A j \in 1 .. Len(arrived') : arrived'[j] \in Times \cup (0 .. MaxUtc - 1)
    <3>1. CASE done = Len(arrived)
      <4>1. /\ arrived' = Append(arrived, t) /\ Len(arrived') = Len(arrived) + 1
            /\ arrived' \in Seq(Int)
        BY <2>1, <2>2, <3>1
      <4>2. \A j \in 1 .. Len(arrived') :
              arrived'[j] = IF j \in 1 .. Len(arrived) THEN arrived[j] ELSE t
        BY <2>2, <4>1
      <4>3. QED
        BY <2>1, <2>2, <2>3, <3>1, <4>1, <4>2
    <3>2. CASE done # Len(arrived)
      <4>1. arrived' = [arrived EXCEPT ![i] = t] /\ i \in 1 .. Len(arrived)
        BY <2>1, <2>3, <3>2
      <4>2. arrived' \in Seq(Int) /\ Len(arrived') = Len(arrived)
        BY <2>2, <4>1
      <4>3. \A j \in 1 .. Len(arrived') : arrived'[j] = IF j = i THEN t ELSE arrived[j]
        BY <4>1, <4>2
      <4>4. QED
        BY <2>1, <2>2, <2>3, <4>1, <4>2, <4>3
    <3>3. QED
      BY <3>1, <3>2
  <2>5. QED
    BY <2>1, <2>2, <2>3, <2>4
<1>2. CASE FindDue
  BY <1>2 DEF FindDue, input
<1>3. CASE OnAwake
  <2>1. due' = FALSE /\ UNCHANGED <<conf, now, saved, arrived, done, ended, crashes>>
    BY <1>3 DEF OnAwake, input
  <2>2. due' \in BOOLEAN /\ ended' \in BOOLEAN
    BY <2>1, Zenon
  <2>3. QED
    BY <2>1, <2>2
<1>4. CASE OnEof
  BY <1>4 DEF OnEof, input
<1>5. CASE Snapshot
  BY <1>5 DEF Snapshot, input
<1>6. CASE Crash
  <2>1. MaxCrashes \in Nat
    BY WindowAssumption
  <2>2. /\ crashes' = crashes + 1 /\ crashes < MaxCrashes /\ due' = FALSE
        /\ done' = saved.done /\ UNCHANGED <<conf, now, saved, arrived, ended>>
    BY <1>6 DEF Crash
  <2>3. due' \in BOOLEAN /\ ended' \in BOOLEAN
    BY <2>2, Zenon
  <2>4. QED
    BY <2>1, <2>2, <2>3
<1>7. CASE Tick
  BY <1>7 DEF Tick, input
<1>8. CASE UNCHANGED vars
  BY <1>8 DEF vars, input
<1>9. QED
  BY <1>1, <1>2, <1>3, <1>4, <1>5, <1>6, <1>7, <1>8 DEF Next, Stopped

(* Applying an item, a wake-up or EOF leaves a good clock. *)
LEMMA DrainClock ==
  ASSUME WClockInv, ~ ended, NEW next, NEW ws, NEW ls, NEW mk, NEW cl, NEW wm,
         DrainClosed(wm, ws, ls, mk, cl),
         conf' = conf, now' \in Nat, now <= now',
         \/ next = {} /\ ws = windows /\ (cl = NewClock({}) \/ (cl = {} /\ conf.clock # "event"))
         \/ \E t \in Int : /\ next = {t} /\ t <= MaxUtc /\ (t < MaxUtc \/ ended')
                           /\ (cl = NewClock({t}) \/ (cl = {} /\ conf.clock # "event"))
  PROVE  ClockInv(Live)'
<1>1. ScalarsInv /\ ClockInv(Live)
  BY DEF WClockInv
<1>2. conf \in Configs /\ now \in Nat
  BY <1>1 DEF ScalarsInv
<1>3. Live'.clock = clock' /\ Live'.windows = windows'
  BY DEF Live
<1>4. \/ clock' = {} /\ windows' = {}
      \/ clock' = cl /\ windows' # {} /\ windows' \subseteq ws
  <2>1. windows' = Left(ws, wm) /\ (windows' = {} => clock' = {}) /\ (windows' # {} => clock' = cl)
    BY DrainedIs
  <2>2. Left(ws, wm) \subseteq ws
    BY DEF Left
  <2>3. QED
    BY <2>1, <2>2
<1>5. /\ clock \subseteq [event : Int, system : Nat] /\ \A c, d \in clock : c = d
      /\ \A c \in clock : c.system <= now /\ c.event < MaxUtc
      /\ conf.clock = "event" /\ windows # {} => clock # {}
  BY <1>1 DEF ClockInv, Live
<1>6. /\ cl \subseteq [event : Int, system : Nat] /\ \A c, d \in cl : c = d
      /\ \A c \in cl : c.system <= now /\ (~ ended' => c.event < MaxUtc)
      /\ conf.clock = "event" /\ ws # {} => cl # {} \/ next # {}
      /\ next # {} /\ conf.clock = "event" => cl # {}
  <2>1. CASE next = {}
    BY <1>1, <1>2, <1>5, <2>1, ClockStays
  <2>2. CASE next # {}
    <3>1. PICK t \in Int : /\ next = {t} /\ t <= MaxUtc /\ (t < MaxUtc \/ ended')
                           /\ (cl = NewClock({t}) \/ (cl = {} /\ conf.clock # "event"))
      BY <2>2
    <3>2. CASE cl = NewClock({t})
      <4>1. PICK m \in SeenTimes({t}) : NewClock({t}) = {m}
        BY <1>1, <1>2, <3>1, ClockMoves
      <4>2. m \in clock \cup {[event |-> t, system |-> now]}
        BY DEF SeenTimes
      <4>3. m \in [event : Int, system : Nat] /\ m.system <= now /\ (~ ended' => m.event < MaxUtc)
        BY <1>2, <1>5, <3>1, <4>2
      <4>4. QED
        BY <3>2, <4>1, <4>3
    <3>3. CASE cl = {} /\ conf.clock # "event"
      BY <3>3
    <3>4. QED
      BY <3>1, <3>2, <3>3
  <2>3. QED
    BY <2>1, <2>2
<1>7. CASE clock' = {} /\ windows' = {}
  BY <1>3, <1>7 DEF ClockInv
<1>8. CASE clock' = cl /\ windows' # {} /\ windows' \subseteq ws
  <2>1. \A c \in cl : c.system <= now'
    BY <1>2, <1>6
  <2>2. conf.clock = "event" => cl # {}
    BY <1>6, <1>8
  <2>3. QED
    BY <1>3, <1>6, <1>8, <2>1, <2>2 DEF ClockInv
<1>9. QED
  BY <1>4, <1>7, <1>8

LEMMA NextClock ==
  ASSUME WClockInv, [Next]_vars
  PROVE  WClockInv'
<1>1. ScalarsInv /\ ScalarsInv' /\ conf' = conf /\ now <= now'
  BY NextScalars DEF WClockInv
<1>2. now \in Nat /\ now' \in Nat /\ conf \in Configs
  BY <1>1 DEF ScalarsInv
<1>3. MaxUtc \in Int /\ \A t \in Times : t \in Int /\ t < MaxUtc
  BY <1>2, ConfigIs
(* A clock that stays the same. *)
<1>4. ASSUME NEW s, ClockInv(s), ended' = ended
      PROVE  /\ \A c \in s.clock : c.system <= now' /\ (~ ended' => c.event < MaxUtc)
             /\ s.clock \subseteq [event : Int, system : Nat]
             /\ \A c, d \in s.clock : c = d
             /\ conf'.clock = "event" /\ s.windows # {} => s.clock # {}
  BY <1>1, <1>2, <1>4 DEF ClockInv
<1>5. ASSUME saved' = saved
      PROVE  ended' = ended \/ ended' => ClockInv(saved)'
  BY <1>1, <1>2, <1>5 DEF ClockInv, WClockInv
<1>6. ASSUME NEW t \in ItemTimes, OnItem(t)
      PROVE  WClockInv'
  <2>1. /\ ~ ended /\ saved' = saved /\ ended' = ended
        /\ \E wm, ws, ls, mk : DrainClosed(wm, ws, ls, mk,
                                  IF conf.clock = "event" THEN NewClock({t}) ELSE {})
    BY <1>6 DEF OnItem
  <2>2. t \in Int /\ t < MaxUtc
    <3>1. CASE conf.clock = "event"
      BY <1>3, <3>1 DEF ItemTimes
    <3>2. CASE conf.clock # "event"
      <4>1. t \in {now, now + 1} /\ t + conf.length < MaxUtc /\ conf.length \in Nat
        BY <1>2, <3>2, ConfigIs DEF ItemTimes
      <4>2. QED
        BY <1>2, <1>3, <4>1
    <3>3. QED
      BY <3>1, <3>2
  <2>3. PICK wm, ws, ls, mk : DrainClosed(wm, ws, ls, mk,
                                IF conf.clock = "event" THEN NewClock({t}) ELSE {})
    BY <2>1
  <2>4. ClockInv(Live)'
    <3> DEFINE cl == IF conf.clock = "event" THEN NewClock({t}) ELSE {}
    <3>1. t <= MaxUtc /\ (cl = NewClock({t}) \/ (cl = {} /\ conf.clock # "event"))
      BY <1>3, <2>2
    <3> HIDE DEF cl
    <3>2. PICK nx : nx = {t}
      OBVIOUS
    <3>3. DrainClosed(wm, ws, ls, mk, cl)
      BY <2>3 DEF cl
    <3>4. QED
      BY <1>1, <1>2, <2>1, <2>2, <3>1, <3>2, <3>3, DrainClock
  <2>5. QED
    BY <1>1, <1>5, <2>1, <2>4 DEF WClockInv
<1>7. CASE FindDue
  <2>1. ended' = ended /\ saved' = saved /\ Live' = Live
    BY <1>7 DEF FindDue, input, logic, outcome, Live
  <2>2. QED
    BY <1>1, <1>4, <1>5, <2>1 DEF WClockInv, ClockInv
<1>8. CASE OnAwake
  <2>1. /\ ~ ended /\ saved' = saved /\ ended' = ended
        /\ DrainClosed(Watermark({}), windows, logics, maxKey,
                       IF conf.clock = "event" THEN NewClock({}) ELSE {})
    BY <1>8 DEF OnAwake
  <2>2. ClockInv(Live)'
    <3> DEFINE cl == IF conf.clock = "event" THEN NewClock({}) ELSE {}
    <3>1. cl = NewClock({}) \/ (cl = {} /\ conf.clock # "event")
      OBVIOUS
    <3> HIDE DEF cl
    <3>2. PICK nx : nx = {}
      OBVIOUS
    <3>3. PICK wm : wm = Watermark({})
      OBVIOUS
    <3>4. DrainClosed(wm, windows, logics, maxKey, cl)
      BY <2>1, <3>3 DEF cl
    <3>5. QED
      BY <1>1, <1>2, <2>1, <3>1, <3>2, <3>4, DrainClock
  <2>3. QED
    BY <1>1, <1>5, <2>1, <2>2 DEF WClockInv
<1>9. CASE OnEof
  <2>1. /\ ~ ended /\ saved' = saved /\ ended'
        /\ DrainClosed(Watermark({MaxUtc}), windows, logics, maxKey, NewClock({MaxUtc}))
    BY <1>9 DEF OnEof
  <2>2. ClockInv(Live)'
    <3>1. PICK cl : cl = NewClock({MaxUtc})
      OBVIOUS
    <3>2. PICK nx : nx = {MaxUtc}
      OBVIOUS
    <3>3. PICK wm : wm = Watermark({MaxUtc})
      OBVIOUS
    <3>4. DrainClosed(wm, windows, logics, maxKey, cl)
      BY <2>1, <3>1, <3>3
    <3>5. MaxUtc <= MaxUtc
      BY <1>3
    <3>6. QED
      BY <1>1, <1>2, <1>3, <2>1, <3>1, <3>2, <3>4, <3>5, DrainClock
  <2>3. QED
    BY <1>1, <1>5, <2>1, <2>2 DEF WClockInv
<1>10. CASE Snapshot
  <2>1. ended' = ended /\ Live' = Live /\ saved'.clock = clock /\ saved'.windows = windows
    BY <1>10 DEF Snapshot, input, logic, outcome, Live
  <2>2. Live.clock = clock /\ Live.windows = windows
    BY DEF Live
  <2>3. QED
    BY <1>1, <1>4, <2>1, <2>2 DEF WClockInv, ClockInv
<1>11. CASE Crash
  <2>1. ended' = ended /\ saved' = saved /\ clock' = saved.clock /\ windows' = saved.windows
    BY <1>11 DEF Crash
  <2>2. Live'.clock = clock' /\ Live'.windows = windows'
    BY DEF Live
  <2>3. QED
    BY <1>1, <1>4, <2>1, <2>2 DEF WClockInv, ClockInv
<1>12. CASE Tick
  <2>1. ended' = ended /\ saved' = saved /\ Live' = Live
    BY <1>12 DEF Tick, input, logic, outcome, Live
  <2>2. QED
    BY <1>1, <1>4, <2>1 DEF WClockInv, ClockInv
<1>13. CASE UNCHANGED vars
  <2>1. ended' = ended /\ saved' = saved /\ Live' = Live
    BY <1>13 DEF vars, input, logic, outcome, Live
  <2>2. QED
    BY <1>1, <1>4, <2>1 DEF WClockInv, ClockInv
<1>14. QED
  BY <1>6, <1>7, <1>8, <1>9, <1>10, <1>11, <1>12, <1>13 DEF Next, Stopped

-----------------------------------------------------------------------------
(* The watermark of a logic that lives. *)

(* What the watermark of a logic is, as long as it lives. *)
WatermarkInv ==
  windows # {} =>
    /\ conf.clock = "event" =>
         \E c \in clock : clock = {c} /\ Watermark({}) = WatermarkOf(c) /\ WatermarkOf(c) \in Int
    /\ conf.clock = "system" => Watermark({}) = now

LEMMA WatermarkIs == WClockInv => WatermarkInv
<1> SUFFICES ASSUME WClockInv, windows # {}
             PROVE  /\ conf.clock = "event" =>
                         \E c \in clock : /\ clock = {c} /\ Watermark({}) = WatermarkOf(c)
                                         /\ WatermarkOf(c) \in Int
                    /\ conf.clock = "system" => Watermark({}) = now
  BY DEF WatermarkInv
<1>1. conf \in Configs /\ now \in Nat /\ ClockInv(Live)
  BY DEF WClockInv, ScalarsInv
<1>2. /\ \A c, d \in clock : c = d
      /\ conf.clock = "event" => clock # {}
  BY <1>1 DEF ClockInv, Live
<1>3. conf.clock = "event" => Watermark({}) = EventWatermark({})
  BY DEF Watermark
<1>4. conf.clock = "system" => Watermark({}) = now
  BY DEF Watermark
<1>5. \A c \in clock : EventWatermark({}) = WatermarkOf(c) /\ WatermarkOf(c) \in Int
  BY <1>1, ClockStays
<1>6. QED
  BY <1>2, <1>3, <1>4, <1>5

LEMMA WatermarkIsNext == WClockInv' => WatermarkInv'
BY WatermarkIs, PTL

(* Two clocks with a logic between them: the later watermark is larger. *)
LEMMA NextWatermark ==
  ASSUME WClockInv, [Next]_vars, windows # {}, windows' # {}, crashes' = crashes
  PROVE  Watermark({}) <= Watermark({})'
<1>1. ScalarsInv /\ conf' = conf /\ now <= now' /\ now \in Nat /\ now' \in Nat /\ conf \in Configs
  BY NextScalars DEF WClockInv, ScalarsInv
<1>2. WatermarkInv /\ WatermarkInv'
  BY WatermarkIs, WatermarkIsNext, NextClock
<1>3. CASE conf.clock = "system"
  BY <1>1, <1>2, <1>3 DEF WatermarkInv
<1>4. CASE conf.clock = "event"
  <2>1. PICK c \in clock : clock = {c} /\ Watermark({}) = WatermarkOf(c) /\ WatermarkOf(c) \in Int
    BY <1>2, <1>4 DEF WatermarkInv
  <2>2. PICK m \in clock' : /\ clock' = {m} /\ Watermark({})' = WatermarkOf(m)'
                            /\ WatermarkOf(m)' \in Int
    BY <1>1, <1>2, <1>4 DEF WatermarkInv
  <2>3. /\ clock \subseteq [event : Int, system : Nat] /\ ClockInv(Live)
        /\ conf.wait \in Nat /\ MaxUtc \in Int
    BY <1>1, ConfigIs DEF WClockInv, ClockInv, Live
  <2> PICK v \in Int : v = WatermarkOf(m)'
    BY <2>2
  (* The clock is the same, and time goes on. *)
  <2>4. ASSUME clock' = clock
        PROVE  WatermarkOf(c) <= v
    <3>1. m = c
      BY <2>1, <2>2, <2>4
    <3>2. c.event \in Int /\ c.system \in Nat
      BY <2>3
    <3>3. QED
      BY <1>1, <2>3, <3>1, <3>2 DEF WatermarkOf
  (* An item or EOF comes in, at the same time. *)
  <2>5. ASSUME NEW t \in Int, t <= MaxUtc, ~ ended, now' = now, clock' = NewClock({t})
        PROVE  WatermarkOf(c) <= v
    <3>1. PICK n \in SeenTimes({t}) :
            /\ NewClock({t}) = {n}
            /\ \A d \in SeenTimes({t}) : WatermarkOf(d) <= WatermarkOf(n)
      BY <1>1, <2>3, <2>5, ClockMoves
    <3>2. m = n
      BY <2>2, <2>5, <3>1
    <3>3. WatermarkOf(m)' = WatermarkOf(m)
      BY <1>1, <2>5 DEF WatermarkOf
    <3>4. c \in SeenTimes({t})
      BY DEF SeenTimes
    <3>5. QED
      BY <3>1, <3>2, <3>3, <3>4
  <2>6. ASSUME NEW t \in ItemTimes, OnItem(t)
        PROVE  WatermarkOf(c) <= v
    <3>1. /\ ~ ended /\ now' = now
          /\ \E wm, ws, ls, mk : DrainClosed(wm, ws, ls, mk, NewClock({t}))
      BY <1>4, <2>6 DEF OnItem
    <3>2. t \in Int /\ t <= MaxUtc
      BY <1>1, <1>4, ConfigIs DEF ItemTimes
    <3>3. clock' = NewClock({t})
      <4>1. PICK cl : cl = NewClock({t})
        OBVIOUS
      <4>2. \E wm, ws, ls, mk : DrainClosed(wm, ws, ls, mk, cl)
        BY <3>1, <4>1
      <4>3. QED
        BY <4>1, <4>2, DrainedClock
    <3>4. QED
      BY <2>5, <3>1, <3>2, <3>3
  <2>7. ASSUME OnAwake
        PROVE  WatermarkOf(c) <= v
    <3>1. DrainClosed(Watermark({}), windows, logics, maxKey, NewClock({}))
      BY <1>4, <2>7 DEF OnAwake
    <3>2. clock' = NewClock({})
      <4>1. PICK cl : cl = NewClock({})
        OBVIOUS
      <4>2. PICK wm : wm = Watermark({})
        OBVIOUS
      <4>3. DrainClosed(wm, windows, logics, maxKey, cl)
        BY <3>1, <4>1, <4>2
      <4>4. QED
        BY <4>1, <4>3, DrainedClock
    <3>3. NewClock({}) = clock
      BY <1>1, <2>3, ClockStays
    <3>4. QED
      BY <2>4, <3>2, <3>3
  <2>8. ASSUME OnEof
        PROVE  WatermarkOf(c) <= v
    <3>1. /\ ~ ended /\ now' = now
          /\ DrainClosed(Watermark({MaxUtc}), windows, logics, maxKey, NewClock({MaxUtc}))
      BY <2>8 DEF OnEof
    <3>2. clock' = NewClock({MaxUtc})
      <4>1. PICK cl : cl = NewClock({MaxUtc})
        OBVIOUS
      <4>2. PICK wm : wm = Watermark({MaxUtc})
        OBVIOUS
      <4>3. DrainClosed(wm, windows, logics, maxKey, cl)
        BY <3>1, <4>1, <4>2
      <4>4. QED
        BY <4>1, <4>3, DrainedClock
    <3>3. MaxUtc <= MaxUtc
      BY <2>3
    <3>4. QED
      BY <2>3, <2>5, <3>1, <3>2, <3>3
  <2>9. ASSUME FindDue \/ Snapshot \/ Tick \/ UNCHANGED vars
        PROVE  WatermarkOf(c) <= v
    BY <2>4, <2>9 DEF FindDue, Snapshot, Tick, vars, logic
  <2>10. ~ Crash
    BY <1>1 DEF Crash, ScalarsInv
  <2>11. WatermarkOf(c) <= v
    BY <2>6, <2>7, <2>8, <2>9, <2>10 DEF Next, Stopped
  <2>12. QED
    BY <2>1, <2>2, <2>11
<1>5. QED
  BY <1>1, <1>3, <1>4, ConfigIs

(* At every step a logic has at most one item that its watermark is made     *)
(* from, and one while a window is open: EventClock never falls back to the  *)
(* beginning of time, whatever crashes set it back to.                       *)
THEOREM WClockInvHolds == Spec => []WClockInv
<1>1. WClockInv /\ [Next]_vars => WClockInv'
  BY NextClock
<1>2. QED
  BY InitClock, <1>1, PTL DEF Spec

(* The watermark of a logic that lives does not go back, with either clock   *)
(* and either windower: not for an item that is older than the one before    *)
(* it, not for one that took longer to arrive, nor for a wake-up or EOF.     *)
THEOREM WatermarkAdvancesHolds == Spec => WatermarkAdvances
<1>1. WClockInv /\ [Next]_vars =>
        [windows # {} /\ windows' # {} /\ crashes' = crashes
           => Watermark({}) <= Watermark({})']_vars
  BY NextWatermark
<1>2. QED
  BY WClockInvHolds, <1>1, PTL DEF Spec, WatermarkAdvances

-----------------------------------------------------------------------------
(* Sliding windows. *)

LEMMA ConcatIs ==
  ASSUME NEW S, NEW a \in Seq(S), NEW b \in Seq(S), NEW c, c = a \o b
  PROVE  /\ c \in Seq(S)
         /\ DOMAIN a = 1 .. Len(a) /\ Len(a) \in Nat
         /\ DOMAIN c = 1 .. Len(a) + Len(b)
         /\ \A j \in DOMAIN a : c[j] = a[j]
         /\ \A j \in 1 .. Len(b) : c[Len(a) + j] = b[j]
OBVIOUS

LEMMA WindowIs ==
  ASSUME NEW c \in Configs, NEW i \in Int
  PROVE  /\ Window(c, i).key = i
         /\ Window(c, i).open \in Int /\ Window(c, i).close \in Int
         /\ Window(c, i).close = Window(c, i).open + c.length
<1>1. c.align \in Int /\ c.offset \in Nat /\ c.length \in Nat
  BY ConfigIs
<1>2. AsI32(i) \in Int
  <2>1. I32Half \in Nat \ {0}
    BY SlidingAssumption
  <2>2. QED
    BY <2>1, SMTT(30) DEF AsI32
<1>3. c.offset * AsI32(i) \in Int
  BY <1>1, <1>2, SMTT(30)
<1>4. QED
  BY <1>1, <1>3 DEF Window

(* A set of windows of the configuration. *)
Sliding(ws) ==
  /\ IsFiniteSet(ws)
  /\ \A w \in ws : w.key \in Int /\ w = Window(conf, w.key) /\ w.close < MaxUtc

LEMMA SlidingAre ==
  ASSUME conf \in Configs, NEW ws, Sliding(ws)
  PROVE  /\ \A w \in ws : w.key \in Int /\ w.open \in Int /\ w.close \in Int
         /\ \A v, w \in ws : v.key = w.key => v = w
<1>1. \A w \in ws : w.key \in Int /\ w = Window(conf, w.key)
  BY DEF Sliding
<1>2. QED
  BY <1>1, WindowIs

(* However times are rounded, an item meets windows of the configuration. *)
LEMMA IntersectsAre ==
  ASSUME conf \in Configs, NEW t \in Int, t + conf.length < MaxUtc
  PROVE  Sliding(Intersects(conf, t))
<1> DEFINE f == FirstWindow(conf, t)
           num == DivCeil(NumMillis(conf.length), NumMillis(conf.offset))
           W == {Window(conf, f + i) : i \in 0 .. (num - 1)}
<1>1. /\ Milli \in Nat \ {0} /\ conf.offset \in Nat \ {0} /\ conf.length \in Nat \ {0}
      /\ conf.align \in Int /\ Milli <= conf.offset /\ MaxUtc \in Int
  BY ConfigIs, SlidingAssumption, WindowAssumption
<1>2. \A d \in Int : NumMillis(d) \in Int
  <2>1. \A d \in Int : d \div Milli \in Int
    BY <1>1, DivIs
  <2>2. QED
    BY <1>1, <2>1 DEF NumMillis
<1>3. NumMillis(conf.offset) \in Nat \ {0}
  <2>1. PICK q \in Int : /\ q = conf.offset \div Milli
                         /\ Milli * q <= conf.offset /\ conf.offset < Milli * q + Milli
    <3>1. PICK x \in Int : x = conf.offset
      BY <1>1
    <3>2. /\ x \div Milli \in Int /\ Milli * (x \div Milli) <= x
          /\ x < Milli * (x \div Milli) + Milli
      BY <1>1, <3>1, DivIs
    <3>3. QED
      BY <3>1, <3>2
  <2>2. q > 0
    BY <1>1, <2>1, SMTT(30)
  <2>3. QED
    BY <1>1, <2>1, <2>2 DEF NumMillis
<1>4. f \in Int
  <2>1. PICK x \in Int : x = NumMillis(t - (conf.align + conf.length))
    BY <1>1, <1>2
  <2>2. x \div NumMillis(conf.offset) \in Int
    BY <1>3, DivIs
  <2>3. QED
    BY <2>1, <2>2 DEF FirstWindow, DivFloor
<1>5. num \in Int
  <2>1. PICK x \in Int : x = NumMillis(conf.length)
    BY <1>1, <1>2
  <2>2. - x \in Int
    BY <2>1
  <2>3. (- x) \div NumMillis(conf.offset) \in Int
    BY <1>3, <2>2, DivIs
  <2>4. QED
    BY <2>1, <2>3 DEF DivCeil
<1>6. Intersects(conf, t) = {w \in W : w.open <= t}
  BY DEF Intersects
<1> HIDE DEF f, num
<1>7. IsFiniteSet(W)
  <2>1. IsFiniteSet(0 .. (num - 1))
    BY <1>5, FS_Interval
  <2> DEFINE g == [i \in 0 .. (num - 1) |-> Window(conf, f + i)]
  <2>2. g \in Surjection(0 .. (num - 1), W)
    BY DEF Surjection
  <2>3. QED
    BY <2>1, <2>2, FS_Surjection
<1>8. ASSUME NEW w \in W, w.open <= t
      PROVE  w.key \in Int /\ w = Window(conf, w.key) /\ w.close < MaxUtc
  <2>1. PICK i \in 0 .. (num - 1) : w = Window(conf, f + i)
    OBVIOUS
  <2>2. f + i \in Int
    BY <1>4, <1>5
  <2>3. w.key = f + i /\ w.open \in Int /\ w.close = w.open + conf.length
    BY <2>1, <2>2, WindowIs
  <2>4. QED
    BY <1>1, <1>8, <2>1, <2>2, <2>3
<1> HIDE DEF W
<1>9. IsFiniteSet(Intersects(conf, t))
  BY <1>6, <1>7, FS_Subset
<1>10. QED
  BY <1>6, <1>8, <1>9 DEF Sliding

(* The windows that close are emitted, each at one new place. *)
Emit(w, ls) == [key |-> w.key, open |-> w.open, close |-> w.close, items |-> ls[w.key]]
NewPlaces == DOMAIN closed' \ DOMAIN closed
EmitsAll(out, ls) ==
  /\ closed' \in Seq(Emission)
  /\ \A j \in DOMAIN closed : j \in DOMAIN closed' /\ closed'[j] = closed[j]
  /\ \A j \in NewPlaces : \E w \in out : closed'[j] = Emit(w, ls)
  /\ \A w \in out : \E j \in NewPlaces : closed'[j] = Emit(w, ls)
  /\ \A j, l \in NewPlaces : closed'[j].key = closed'[l].key => j = l

LEMMA Emitted ==
  ASSUME conf \in Configs, NEW out, Sliding(out), NEW ls,
         \A w \in out : ls[w.key] \in SUBSET Nat,
         closed \in Seq(Emission),
         \E order \in ByStart(out) :
           closed' = closed \o [j \in DOMAIN order |->
             [key |-> order[j].key, open |-> order[j].open,
              close |-> order[j].close, items |-> ls[order[j].key]]]
  PROVE  EmitsAll(out, ls)
<1> PICK order \in ByStart(out) :
      closed' = closed \o [j \in DOMAIN order |->
        [key |-> order[j].key, open |-> order[j].open,
         close |-> order[j].close, items |-> ls[order[j].key]]]
  OBVIOUS
<1>1. /\ \A w \in out : w.key \in Int /\ w.open \in Int /\ w.close \in Int
      /\ \A v, w \in out : v.key = w.key => v = w
      /\ IsFiniteSet(out)
  BY SlidingAre DEF Sliding
<1> DEFINE n == Cardinality(out)
           emit(w) == Emit(w, ls)
           new == [j \in 1 .. n |-> emit(order[j])]
<1>2. n \in Nat
  BY <1>1, FS_CardinalityType
<1>3. order \in [1 .. n -> out] /\ \A i, j \in 1 .. n : i < j => order[i] # order[j]
  BY DEF ByStart
<1> HIDE DEF n
<1>4. \A i, j \in 1 .. n : order[i] = order[j] => i = j
  BY <1>2, <1>3
<1>5. \A w \in out : \E j \in 1 .. n : order[j] = w
  <2>1. order \in Injection(1 .. n, out)
    BY <1>3, <1>4 DEF Injection, IsInjective
  <2>2. IsFiniteSet(1 .. n) /\ Cardinality(1 .. n) = n
    BY <1>2, FS_Interval
  <2>3. order \in Surjection(1 .. n, out)
    BY <1>1, <2>1, <2>2, FS_Injection DEF n
  <2>4. QED
    BY <2>3 DEF Surjection
<1>6. \A w \in out : emit(w) \in Emission
  BY <1>1 DEF Emission, Emit
<1>7. new \in Seq(Emission) /\ Len(new) = n
  <2>1. \A j \in 1 .. n : emit(order[j]) \in Emission
    BY <1>3, <1>6
  <2> HIDE DEF emit
  <2>2. QED
    BY <1>2, <2>1
<1>8. closed' = closed \o new
  BY <1>3 DEF Emit
<1>9. \A j \in 1 .. n : new[j] = emit(order[j])
  OBVIOUS
<1> HIDE DEF new, emit
<1>10. PICK c : c = closed'
  OBVIOUS
<1>11. PICK added : added = new
  OBVIOUS
<1>12. /\ c \in Seq(Emission)
       /\ DOMAIN closed = 1 .. Len(closed) /\ Len(closed) \in Nat
       /\ DOMAIN c = 1 .. Len(closed) + Len(added)
       /\ \A j \in DOMAIN closed : c[j] = closed[j]
  <2>1. c = closed \o added /\ added \in Seq(Emission)
    BY <1>7, <1>8, <1>10, <1>11
  <2>2. QED
    BY <2>1, ConcatIs
<1>13. \A j \in 1 .. Len(added) : c[Len(closed) + j] = added[j]
  <2>1. c = closed \o added /\ added \in Seq(Emission)
    BY <1>7, <1>8, <1>10, <1>11
  <2>2. QED
    BY <2>1, ConcatIs
<1>14. Len(added) = n /\ \A j \in 1 .. n : added[j] = emit(order[j])
  BY <1>7, <1>9, <1>11
<1>15. /\ closed' \in Seq(Emission)
       /\ DOMAIN closed = 1 .. Len(closed) /\ Len(closed) \in Nat
       /\ DOMAIN closed' = 1 .. Len(closed) + n
       /\ \A j \in DOMAIN closed : closed'[j] = closed[j]
  BY <1>10, <1>12, <1>14
<1>16. \A j \in 1 .. n : closed'[Len(closed) + j] = emit(order[j])
  <2>1. \A j \in 1 .. n : c[Len(closed) + j] = emit(order[j])
    BY <1>13, <1>14
  <2>2. QED
    BY <1>10, <2>1
<1>17. /\ \A j \in DOMAIN closed : j \in DOMAIN closed'
       /\ \A j \in DOMAIN closed' \ DOMAIN closed : j \in Int /\ j - Len(closed) \in 1 .. n
       /\ \A j \in 1 .. n : Len(closed) + j \in DOMAIN closed' \ DOMAIN closed
  <2>1. PICK m \in Nat : m = Len(closed)
    BY <1>15
  <2>2. DOMAIN closed = 1 .. m /\ DOMAIN closed' = 1 .. m + n
    BY <1>15, <2>1
  <2>3. /\ \A j \in 1 .. m : j \in 1 .. m + n
        /\ \A j \in (1 .. m + n) \ (1 .. m) : j \in Int /\ j - m \in 1 .. n
        /\ \A j \in 1 .. n : m + j \in (1 .. m + n) \ (1 .. m)
    BY <1>2
  <2>4. QED
    BY <2>1, <2>2, <2>3
<1>18. \A j \in DOMAIN closed' \ DOMAIN closed :
         j - Len(closed) \in 1 .. n /\ closed'[j] = emit(order[j - Len(closed)])
  <2>1. SUFFICES ASSUME NEW j \in DOMAIN closed' \ DOMAIN closed
                 PROVE  j - Len(closed) \in 1 .. n /\ closed'[j] = emit(order[j - Len(closed)])
    OBVIOUS
  <2>2. j - Len(closed) \in 1 .. n /\ j = Len(closed) + (j - Len(closed))
    <3>1. PICK m \in Nat : m = Len(closed)
      BY <1>15
    <3>2. j \in Int /\ j - m \in 1 .. n
      BY <1>17, <3>1
    <3>3. j = m + (j - m)
      BY <3>2
    <3>4. QED
      BY <3>1, <3>2, <3>3
  <2>3. PICK i : i = j - Len(closed)
    OBVIOUS
  <2>4. i \in 1 .. n /\ j = Len(closed) + i
    BY <2>2, <2>3
  <2>5. closed'[Len(closed) + i] = emit(order[i])
    BY <1>16, <2>4
  <2>6. closed'[j] = emit(order[i])
    BY <2>4, <2>5
  <2>7. QED
    BY <2>3, <2>4, <2>6
<1>19. \A w \in out : \E j \in DOMAIN closed' \ DOMAIN closed : closed'[j] = emit(w)
  <2>1. SUFFICES ASSUME NEW w \in out
                 PROVE  \E j \in DOMAIN closed' \ DOMAIN closed : closed'[j] = emit(w)
    OBVIOUS
  <2>2. PICK j \in 1 .. n : order[j] = w
    BY <1>5
  <2>3. Len(closed) + j \in DOMAIN closed' \ DOMAIN closed
    BY <1>17, <2>2
  <2>4. closed'[Len(closed) + j] = emit(w)
    BY <1>16, <2>2
  <2>5. PICK l : l = Len(closed) + j
    OBVIOUS
  <2>6. closed'[l] = emit(w) /\ l \in DOMAIN closed' \ DOMAIN closed
    BY <2>3, <2>4, <2>5
  <2>7. QED
    BY <2>6
<1>20. \A j \in DOMAIN closed' \ DOMAIN closed : \E w \in out : closed'[j] = emit(w)
  BY <1>3, <1>18
<1>21. \A j, l \in DOMAIN closed' \ DOMAIN closed : closed'[j].key = closed'[l].key => j = l
  <2>1. SUFFICES ASSUME NEW j \in DOMAIN closed' \ DOMAIN closed,
                        NEW l \in DOMAIN closed' \ DOMAIN closed,
                        closed'[j].key = closed'[l].key
                 PROVE  j = l
    OBVIOUS
  <2>2. order[j - Len(closed)].key = order[l - Len(closed)].key
    <3>1. \A w : emit(w).key = w.key
      BY DEF emit, Emit
    <3>2. QED
      BY <1>18, <2>1, <3>1
  <2>3. order[j - Len(closed)] = order[l - Len(closed)]
    BY <1>1, <1>3, <1>18, <2>2
  <2>4. j - Len(closed) = l - Len(closed)
    BY <1>4, <1>18, <2>3
  <2>5. QED
    <3>1. PICK m \in Nat : m = Len(closed)
      BY <1>15
    <3>2. j \in Int /\ l \in Int
      BY <1>17
    <3>3. QED
      BY <2>4, <3>1, <3>2
<1>22. \A j \in DOMAIN closed : j \in DOMAIN closed' /\ closed'[j] = closed[j]
  BY <1>15, <1>17
<1>23. closed' \in Seq(Emission)
  BY <1>15
<1>24. QED
  BY <1>19, <1>20, <1>21, <1>22, <1>23 DEF emit, EmitsAll, NewPlaces

(* What a step does that lets the windows ws, with the folds ls, close at    *)
(* the watermark wm.                                                         *)
Closing(ws, wm) == {w \in ws : w.close < wm}
Staying(ws, wm) == {w \in ws : ~ (w.close < wm)}
Moved(ws, ls, wm) ==
  /\ windows' = Staying(ws, wm)
  /\ DOMAIN logics' = Keys(windows') /\ \A k \in Keys(windows') : logics'[k] = ls[k]
  /\ EmitsAll(Closing(ws, wm), ls)

LEMMA DrainMoves ==
  ASSUME conf \in Configs, conf.kind = "sliding",
         NEW wm, NEW ws, NEW ls, NEW mk, NEW cl, DrainClosed(wm, ws, ls, mk, cl),
         Sliding(ws), NEW n \in Nat, ls \in [Keys(ws) -> SUBSET (1 .. n)], mk \in Nat,
         closed \in Seq(Emission)
  PROVE  /\ Moved(ws, ls, wm)
         /\ logics' \in [Keys(windows') -> SUBSET (1 .. n)] /\ maxKey' \in Nat
         /\ IF windows' = {} THEN nextAwake' = {}
                             ELSE nextAwake' = {SlidingNextClose(windows')}
<1> DEFINE out == Closing(ws, wm)
           left == Staying(ws, wm)
<1>1. \A w \in ws : IsClosed(w, wm) <=> w.close < wm
  BY DEF IsClosed, SlidingClosed
<1>2. /\ out = Passed(ws, wm) /\ left = Left(ws, wm)
      /\ out \subseteq ws /\ left \subseteq ws
  BY <1>1 DEF Closing, Staying, Passed, Left
<1> HIDE DEF out, left
<1>3. /\ windows' = left
      /\ left = {} => maxKey' = 0 /\ logics' = NoLogics /\ nextAwake' = {}
      /\ left # {} => /\ maxKey' = mk /\ nextAwake' = NextAwake(left)
                      /\ logics' = Restrict(ls, DOMAIN ls \ {w.key : w \in out})
      /\ \E order \in ByStart(out) :
           closed' = closed \o [j \in DOMAIN order |->
             [key |-> order[j].key, open |-> order[j].open,
              close |-> order[j].close, items |-> ls[order[j].key]]]
  <2>1. /\ windows' = Left(ws, wm)
        /\ windows' = {} => /\ clock' = {} /\ maxKey' = 0
                            /\ logics' = NoLogics /\ nextAwake' = {}
        /\ windows' # {} => /\ clock' = cl /\ maxKey' = mk
                            /\ logics' = Restrict(ls, DOMAIN ls \ {w.key : w \in Passed(ws, wm)})
                            /\ nextAwake' = NextAwake(windows')
        /\ \E order \in ByStart(Passed(ws, wm)) :
             closed' = closed \o [j \in DOMAIN order |->
               [key |-> order[j].key, open |-> order[j].open,
                close |-> order[j].close, items |-> ls[order[j].key]]]
    BY DrainedIs, ZenonT(40)
  <2>2. QED
    BY <1>2, <2>1, Zenon
<1>4. /\ \A w \in ws : w.key \in Int /\ w.open \in Int /\ w.close \in Int
      /\ \A v, w \in ws : v.key = w.key => v = w
  BY SlidingAre
<1>5. Keys(ws) \ {w.key : w \in out} = Keys(left)
  <2>1. \A w \in ws : w \in out \/ w \in left
    BY DEF out, left, Closing, Staying
  <2>2. \A w \in left : w \notin out
    BY DEF out, left, Closing, Staying
  <2>3. QED
    BY <1>2, <1>4, <2>1, <2>2 DEF Keys
<1>6. Keys(left) \subseteq Keys(ws)
  BY <1>2 DEF Keys
<1>7. /\ logics' \in [Keys(left) -> SUBSET (1 .. n)]
      /\ \A k \in Keys(left) : logics'[k] = ls[k]
  <2>1. CASE left = {}
    <3>1. Keys(left) = {}
      BY <2>1 DEF Keys
    <3>2. QED
      BY <1>3, <2>1, <3>1 DEF NoLogics
  <2>2. CASE left # {}
    <3>1. logics' = [k \in Keys(left) |-> ls[k]]
      BY <1>3, <1>5, <2>2 DEF Restrict
    <3>2. QED
      BY <1>6, <3>1
  <2>3. QED
    BY <2>1, <2>2
<1>8. Sliding(out)
  BY <1>2, FS_Subset DEF Sliding
<1>9. \A w \in out : ls[w.key] \in SUBSET Nat
  <2>1. SUFFICES ASSUME NEW w \in out
                 PROVE  ls[w.key] \in SUBSET Nat
    OBVIOUS
  <2>2. w.key \in Keys(ws)
    BY <1>2 DEF Keys
  <2>3. ls[w.key] \in SUBSET (1 .. n)
    BY <2>2
  <2>4. QED
    BY <2>3
<1>10. EmitsAll(out, ls)
  BY <1>3, <1>8, <1>9, Emitted
<1>11. Moved(ws, ls, wm)
  BY <1>3, <1>7, <1>10 DEF Moved, out, left
<1>12. NextAwake(left) = {SlidingNextClose(left)}
  BY DEF NextAwake, NextClose
<1>13. QED
  BY <1>3, <1>7, <1>11, <1>12

LEMMA DrainSliding ==
  ASSUME ScalarsInv, conf.kind = "sliding", SlidingInv(Live), ~ ended,
         conf' = conf, now' \in Nat, now <= now',
         NEW wm, NEW ws, NEW ls, NEW mk, NEW cl, DrainClosed(wm, ws, ls, mk, cl),
         Sliding(ws), mk \in Nat, done' \in Nat, done <= done',
         ls \in [Keys(ws) -> SUBSET (1 .. done')],
         late' \subseteq (1 .. done') \X Int,
         conf.clock = "system" => /\ ended' \/ wm = now
                                  /\ \A j \in DOMAIN closed : closed[j].key \notin Keys(ws)
  PROVE  SlidingInv(Live)' /\ Moved(ws, ls, wm)
<1>1. conf \in Configs /\ now \in Nat /\ done \in Nat
  BY DEF ScalarsInv
<1>2. /\ closed \in Seq(Emission)
      /\ \A j \in DOMAIN closed : /\ closed[j].close = Window(conf, closed[j].key).close
                                  /\ closed[j].items \subseteq 1 .. done
  BY DEF SlidingInv, OutcomeInv, Live
<1>3. /\ Moved(ws, ls, wm)
      /\ logics' \in [Keys(windows') -> SUBSET (1 .. done')] /\ maxKey' \in Nat
      /\ IF windows' = {} THEN nextAwake' = {}
                          ELSE nextAwake' = {SlidingNextClose(windows')}
  BY <1>1, <1>2, DrainMoves
<1>4. windows' = Staying(ws, wm) /\ EmitsAll(Closing(ws, wm), ls)
  BY <1>3 DEF Moved
<1>5. /\ Live'.windows = windows' /\ Live'.logics = logics' /\ Live'.maxKey = maxKey'
      /\ Live'.nextAwake = nextAwake' /\ Live'.done = done' /\ Live'.late = late'
      /\ Live'.closed = closed'
  BY DEF Live
<1>6. /\ Staying(ws, wm) \subseteq ws /\ Closing(ws, wm) \subseteq ws
      /\ \A w \in Closing(ws, wm) : w \notin Staying(ws, wm) /\ w.close < wm
  BY DEF Staying, Closing
<1>7. /\ \A w \in ws : w.key \in Int /\ w = Window(conf, w.key) /\ w.close < MaxUtc
      /\ \A v, w \in ws : v.key = w.key => v = w
      /\ IsFiniteSet(ws)
  BY <1>1, SlidingAre DEF Sliding
<1>8. WindowsInv(Live)'
  <2>1. IsFiniteSet(windows')
    BY <1>4, <1>6, <1>7, FS_Subset
  <2>2. \A w \in windows' : w.key \in Int /\ w = Window(conf', w.key) /\ w.close < MaxUtc
    BY <1>4, <1>6, <1>7
  <2>3. nextAwake' = IF windows' = {} THEN {} ELSE {SlidingNextClose(windows')}
    BY <1>3
  <2>4. QED
    BY <1>3, <1>5, <2>1, <2>2, <2>3 DEF WindowsInv, Keys
<1>9. \A j \in NewPlaces : \E w \in Closing(ws, wm) :
        /\ w \in ws /\ closed'[j] = Emit(w, ls)
        /\ closed'[j].key = w.key /\ closed'[j].close = w.close /\ closed'[j].items = ls[w.key]
        /\ closed'[j].items \subseteq 1 .. done'
  <2>1. SUFFICES ASSUME NEW j \in NewPlaces
                 PROVE  \E w \in Closing(ws, wm) :
                          /\ w \in ws /\ closed'[j] = Emit(w, ls)
                          /\ closed'[j].key = w.key /\ closed'[j].close = w.close
                          /\ closed'[j].items = ls[w.key]
                          /\ closed'[j].items \subseteq 1 .. done'
    OBVIOUS
  <2>2. PICK w \in Closing(ws, wm) : closed'[j] = Emit(w, ls)
    BY <1>4 DEF EmitsAll
  <2>3. w \in ws /\ w.key \in Keys(ws)
    BY <1>6 DEF Keys
  <2>4. ls[w.key] \in SUBSET (1 .. done')
    BY <2>3
  <2>5. QED
    BY <2>2, <2>3, <2>4 DEF Emit
<1>10. \A j \in DOMAIN closed' : j \in NewPlaces \/ (j \in DOMAIN closed /\ closed'[j] = closed[j])
  BY <1>4 DEF EmitsAll, NewPlaces
<1>11. OutcomeInv(Live)'
  <2>1. \A j \in DOMAIN closed' :
          /\ closed'[j].close = Window(conf, closed'[j].key).close
          /\ closed'[j].items \subseteq 1 .. done'
    <3>1. SUFFICES ASSUME NEW j \in DOMAIN closed'
                   PROVE  /\ closed'[j].close = Window(conf, closed'[j].key).close
                          /\ closed'[j].items \subseteq 1 .. done'
      OBVIOUS
    <3>2. CASE j \in NewPlaces
      BY <1>7, <1>9, <3>2
    <3>3. CASE j \in DOMAIN closed /\ closed'[j] = closed[j]
      <4>1. 1 .. done \subseteq 1 .. done'
        BY <1>1
      <4>2. QED
        BY <1>2, <3>3, <4>1
    <3>4. QED
      BY <1>10, <3>2, <3>3
  <2>2. closed' \in Seq(Emission)
    BY <1>4 DEF EmitsAll
  <2>3. QED
    BY <1>5, <2>1, <2>2 DEF OutcomeInv
<1>12. OnceInv(Live)'
  <2>1. SUFFICES ASSUME conf.clock = "system"
                 PROVE  /\ \A j, l \in DOMAIN closed' : closed'[j].key = closed'[l].key => j = l
                        /\ \A j \in DOMAIN closed' : /\ closed'[j].key \notin Keys(windows')
                                                     /\ ~ ended' => closed'[j].close < now'
    BY <1>5 DEF OnceInv, Keys
  <2>2. /\ \A j, l \in DOMAIN closed : closed[j].key = closed[l].key => j = l
        /\ \A j \in DOMAIN closed : closed[j].key \notin Keys(ws) /\ closed[j].close < now
    BY <2>1 DEF SlidingInv, OnceInv, Live
  <2>3. \A j \in DOMAIN closed : closed[j].close \in Int
    <3>1. \A j \in DOMAIN closed : closed[j] \in Emission
      BY <1>2
    <3>2. QED
      BY <3>1 DEF Emission
  <2>4. \A j \in NewPlaces : closed'[j].key \in Keys(ws) /\ closed'[j].key \notin Keys(windows')
    BY <1>4, <1>6, <1>7, <1>9 DEF Keys
  <2>5. \A j, l \in DOMAIN closed' : closed'[j].key = closed'[l].key => j = l
    <3>1. \A j, l \in NewPlaces : closed'[j].key = closed'[l].key => j = l
      BY <1>4 DEF EmitsAll
    <3>2. QED
      BY <1>10, <2>2, <2>4, <3>1
  <2>6. \A j \in DOMAIN closed' : closed'[j].key \notin Keys(windows')
    <3>1. Keys(windows') \subseteq Keys(ws)
      BY <1>4, <1>6 DEF Keys
    <3>2. QED
      BY <1>10, <2>2, <2>4, <3>1
  <2>7. \A w \in ws : w.close \in Int
    BY <1>1, <1>7, WindowIs
  <2>8. ASSUME NEW j \in DOMAIN closed', ~ ended'
        PROVE  closed'[j].close < now'
    <3>1. CASE j \in NewPlaces
      <4>1. PICK w \in ws : closed'[j].close = w.close /\ w.close < wm
        BY <1>6, <1>9, <3>1
      <4>2. QED
        BY <1>1, <2>1, <2>7, <2>8, <4>1
    <3>2. CASE j \in DOMAIN closed /\ closed'[j] = closed[j]
      BY <1>1, <2>2, <2>3, <3>2
    <3>3. QED
      BY <1>10, <3>1, <3>2
  <2>9. QED
    BY <2>5, <2>6, <2>8
<1>13. QED
  BY <1>3, <1>8, <1>11, <1>12 DEF SlidingInv

(* Until EOF, what has happened under the system clock has happened before   *)
(* any later time.                                                           *)
LEMMA OnceLasts ==
  ASSUME NEW s, SlidingInv(s), now \in Nat, now' \in Nat, now <= now', ended' = ended,
         conf' = conf
  PROVE  conf'.clock = "system" =>
           /\ \A j, l \in DOMAIN s.closed : s.closed[j].key = s.closed[l].key => j = l
           /\ \A j \in DOMAIN s.closed : /\ s.closed[j].key \notin Keys(s.windows)
                                         /\ ~ ended' => s.closed[j].close < now'
<1>1. s.closed \in Seq(Emission)
  BY DEF SlidingInv, OutcomeInv
<1>2. \A j \in DOMAIN s.closed : s.closed[j] \in Emission
  BY <1>1
<1>3. \A j \in DOMAIN s.closed : s.closed[j].close \in Int
  BY <1>2 DEF Emission
<1>4. QED
  BY <1>3 DEF SlidingInv, OnceInv

LEMMA SavedLasts ==
  ASSUME SlidingInv(saved), saved' = saved, conf' = conf,
         now \in Nat, now' \in Nat, now <= now', ended' = ended \/ ended'
  PROVE  SlidingInv(saved)'
<1>1. WindowsInv(saved)' /\ OutcomeInv(saved)'
  BY DEF SlidingInv, WindowsInv, OutcomeInv, Keys
<1>2. OnceInv(saved)'
  <2>1. CASE ended' = ended
    BY <2>1, OnceLasts DEF OnceInv, Keys
  <2>2. CASE ended'
    BY <2>2 DEF SlidingInv, OnceInv, Keys
  <2>3. QED
    BY <2>1, <2>2
<1>3. QED
  BY <1>1, <1>2 DEF SlidingInv

LEMMA LiveLasts ==
  ASSUME SlidingInv(Live), Live' = Live, conf' = conf,
         now \in Nat, now' \in Nat, now <= now', ended' = ended
  PROVE  SlidingInv(Live)'
<1>1. WindowsInv(Live)' /\ OutcomeInv(Live)'
  BY DEF SlidingInv, WindowsInv, OutcomeInv, Keys
<1>2. OnceInv(Live)'
  BY OnceLasts DEF OnceInv, Keys
<1>3. QED
  BY <1>1, <1>2 DEF SlidingInv

(* A snapshot is as good as the state it is taken of, and a crash makes the  *)
(* state as good as the snapshot.                                            *)
LEMMA SnapshotIs ==
  ASSUME Snapshot
  PROVE  saved' = Live /\ Live' = Live /\ UNCHANGED <<conf, now, arrived, ended, crashes, windows>>
BY DEF Snapshot, input, Live, logic, outcome, SnapshotLogics

LEMMA SnapshotSliding ==
  ASSUME SlidingInv(Live), saved' = Live, conf' = conf, now' = now, ended' = ended
  PROVE  SlidingInv(saved)'
BY DEF SlidingInv, WindowsInv, OutcomeInv, OnceInv, Keys

LEMMA CrashSliding ==
  ASSUME SlidingInv(saved), Crash
  PROVE  SlidingInv(Live)'
<1>1. /\ Live'.windows = saved.windows /\ Live'.logics = saved.logics
      /\ Live'.maxKey = saved.maxKey /\ Live'.nextAwake = saved.nextAwake
      /\ Live'.done = saved.done /\ Live'.late = saved.late /\ Live'.closed = saved.closed
      /\ conf' = conf /\ now' = now /\ ended' = ended
  BY DEF Crash, Live
<1>2. QED
  BY <1>1 DEF SlidingInv, WindowsInv, OutcomeInv, OnceInv, Keys

(* An item for sliding windows, at the watermark wm. *)
Accepted(wm, t) == windows \cup SlidingAccepts(conf, wm, t)
Folded(wm, t) == Fold(Keys(SlidingAccepts(conf, wm, t)), done + 1)
ItemStep(wm, t) ==
  /\ ~ ended /\ done' = done + 1 /\ UNCHANGED <<conf, saved, ended>>
  /\ late' = late \cup {<<done + 1, k>> : k \in Keys(SlidingLate(conf, wm, t))}
  /\ Sliding(Intersects(conf, t)) /\ Sliding(Accepted(wm, t))
  /\ Folded(wm, t) \in [Keys(Accepted(wm, t)) -> SUBSET (1 .. done + 1)]
  /\ conf.clock = "system" => wm = now
  /\ \E cl : DrainClosed(wm, Accepted(wm, t), Folded(wm, t), maxKey, cl)

LEMMA ItemIs ==
  ASSUME ScalarsInv, conf.kind = "sliding", SlidingInv(Live), NEW t \in ItemTimes, OnItem(t)
  PROVE  t \in Int /\ t \in Times \cup (0 .. MaxUtc - 1) /\ \E wm : ItemStep(wm, t)
<1>1. conf \in Configs /\ now \in Nat /\ done \in Nat
  BY DEF ScalarsInv
<1>2. t \in Int /\ t + conf.length < MaxUtc /\ t < MaxUtc /\ t \in Times \cup (0 .. MaxUtc - 1)
  <2>1. MaxUtc \in Nat /\ conf.length \in Nat \ {0}
    BY <1>1, ConfigIs
  <2>2. CASE conf.clock = "event"
    BY <1>1, <2>2, ConfigIs DEF ItemTimes
  <2>3. CASE conf.clock # "event"
    <3>1. t \in {now, now + 1} /\ t + conf.length < MaxUtc
      BY <2>3 DEF ItemTimes
    <3>2. QED
      BY <1>1, <2>1, <3>1
  <2>4. QED
    BY <2>2, <2>3
<1>3. PICK wm : wm = Watermark({t})
  OBVIOUS
<1>4. PICK ins : ins = Insert(wm, t)
  OBVIOUS
<1>5. ins = [windows |-> Accepted(wm, t), maxKey |-> maxKey,
             ok |-> Keys(SlidingAccepts(conf, wm, t)),
             late |-> Keys(SlidingLate(conf, wm, t))]
  BY <1>4 DEF Insert, Accepted, Keys
<1>6. /\ ~ ended /\ done' = done + 1 /\ UNCHANGED <<conf, saved, ended>>
      /\ late' = late \cup {<<done + 1, k>> : k \in ins.late}
      /\ \E cl : DrainClosed(wm, ins.windows, Fold(ins.ok, done + 1), ins.maxKey, cl)
  BY <1>3, <1>4 DEF OnItem
<1>7. Sliding(Intersects(conf, t))
  BY <1>1, <1>2, IntersectsAre
<1>8. /\ Sliding(windows) /\ logics \in [Keys(windows) -> SUBSET (1 .. done)]
  BY DEF SlidingInv, WindowsInv, Live, Sliding
<1>9. Sliding(Accepted(wm, t))
  <2>1. SlidingAccepts(conf, wm, t) \subseteq Intersects(conf, t)
    BY DEF SlidingAccepts
  <2>2. IsFiniteSet(SlidingAccepts(conf, wm, t))
    BY <1>7, <2>1, FS_Subset DEF Sliding
  <2>3. IsFiniteSet(Accepted(wm, t))
    BY <1>8, <2>2, FS_Union DEF Sliding, Accepted
  <2>4. QED
    BY <1>7, <1>8, <2>1, <2>3 DEF Sliding, Accepted
<1>10. Folded(wm, t) \in [Keys(Accepted(wm, t)) -> SUBSET (1 .. done + 1)]
  <2> DEFINE K == Keys(SlidingAccepts(conf, wm, t))
  <2>1. Keys(Accepted(wm, t)) = DOMAIN logics \cup K
    BY <1>8 DEF Keys, Accepted
  <2>2. 1 .. done \subseteq 1 .. done + 1 /\ done + 1 \in 1 .. done + 1
    BY <1>1
  <2> HIDE DEF K
  <2>3. \A k \in DOMAIN logics : logics[k] \subseteq 1 .. done + 1
    BY <1>8, <2>2
  <2>4. Folded(wm, t) =
          [k \in (DOMAIN logics) \cup K |->
             (IF k \in DOMAIN logics THEN logics[k] ELSE {}) \cup (IF k \in K THEN {done + 1} ELSE {})]
    BY DEF Folded, Fold, K
  <2>5. QED
    BY <2>1, <2>2, <2>3, <2>4
<1>11. conf.clock = "system" => wm = now
  <2>1. {t} # {MaxUtc}
    BY <1>2
  <2>2. QED
    BY <1>3, <2>1 DEF Watermark
<1>12. ItemStep(wm, t)
  BY <1>5, <1>6, <1>7, <1>9, <1>10, <1>11 DEF ItemStep, Folded
<1>13. QED
  BY <1>2, <1>12

(* Under the system clock no item falls in a window that has been emitted. *)
LEMMA ItemSliding ==
  ASSUME ScalarsInv, conf.kind = "sliding", SlidingInv(Live), NEW t \in Int, NEW wm,
         ItemStep(wm, t), now' \in Nat, now <= now'
  PROVE  SlidingInv(Live)' /\ Moved(Accepted(wm, t), Folded(wm, t), wm)
<1>1. /\ ~ ended /\ done' = done + 1 /\ conf' = conf /\ ended' = ended
      /\ late' = late \cup {<<done + 1, k>> : k \in Keys(SlidingLate(conf, wm, t))}
      /\ Sliding(Intersects(conf, t)) /\ Sliding(Accepted(wm, t))
      /\ Folded(wm, t) \in [Keys(Accepted(wm, t)) -> SUBSET (1 .. done + 1)]
      /\ conf.clock = "system" => wm = now
  BY DEF ItemStep
<1>2. PICK cl : DrainClosed(wm, Accepted(wm, t), Folded(wm, t), maxKey, cl)
  BY DEF ItemStep
<1>3. /\ done \in Nat /\ done' \in Nat /\ done <= done' /\ conf \in Configs /\ now \in Nat
  BY <1>1 DEF ScalarsInv
<1>4. late' \subseteq (1 .. done') \X Int
  <2>1. late \subseteq (1 .. done) \X Int /\ 1 .. done \subseteq 1 .. done' /\ done + 1 \in 1 .. done'
    BY <1>1, <1>3 DEF SlidingInv, OutcomeInv, Live
  <2>2. Keys(SlidingLate(conf, wm, t)) \subseteq Int
    BY <1>1 DEF Keys, SlidingLate, Sliding
  <2>3. QED
    BY <1>1, <2>1, <2>2
<1>5. ASSUME conf.clock = "system", NEW j \in DOMAIN closed
      PROVE  closed[j].key \notin Keys(Accepted(wm, t))
  <2>1. /\ closed[j].key \notin Keys(windows) /\ closed[j].close < now
        /\ closed[j].close = Window(conf, closed[j].key).close
    BY <1>1, <1>5 DEF SlidingInv, OnceInv, OutcomeInv, Live
  <2>2. ASSUME NEW w \in SlidingAccepts(conf, wm, t), w.key = closed[j].key
        PROVE  FALSE
    <3>1. ~ (w.close < now) /\ w = Window(conf, w.key)
      BY <1>1, <1>5 DEF SlidingAccepts, SlidingIsLate, Sliding
    <3>2. QED
      BY <2>1, <2>2, <3>1
  <2>3. QED
    BY <2>1, <2>2 DEF Keys, Accepted
<1>6. maxKey \in Nat
  BY DEF SlidingInv, WindowsInv, Live
<1>7. PICK ws : ws = Accepted(wm, t)
  OBVIOUS
<1>8. PICK ls : ls = Folded(wm, t)
  OBVIOUS
<1>9. /\ DrainClosed(wm, ws, ls, maxKey, cl) /\ Sliding(ws)
      /\ ls \in [Keys(ws) -> SUBSET (1 .. done')]
      /\ conf.clock = "system" => /\ ended' \/ wm = now
                                  /\ \A j \in DOMAIN closed : closed[j].key \notin Keys(ws)
  BY <1>1, <1>2, <1>5, <1>7, <1>8
<1>10. SlidingInv(Live)' /\ Moved(ws, ls, wm)
  BY <1>1, <1>3, <1>4, <1>6, <1>9, DrainSliding
<1>11. QED
  BY <1>7, <1>8, <1>10

LEMMA AwakeSliding ==
  ASSUME WClockInv, WSlidingInv, conf.kind = "sliding", OnAwake
  PROVE  SlidingInv(Live)' /\ \E wm : Moved(windows, logics, wm)
<1>1. ScalarsInv /\ SlidingInv(Live)
  BY DEF WClockInv, WSlidingInv
<1>2. PICK cl : DrainClosed(Watermark({}), windows, logics, maxKey, cl)
  BY DEF OnAwake
<1>3. PICK wm : wm = Watermark({})
  OBVIOUS
<1>4. /\ ~ ended /\ UNCHANGED <<conf, now, done, late, ended>>
      /\ now \in Nat /\ done \in Nat /\ conf \in Configs
  BY <1>1 DEF OnAwake, input, ScalarsInv
<1>5. /\ Sliding(windows) /\ logics \in [Keys(windows) -> SUBSET (1 .. done)] /\ maxKey \in Nat
      /\ late \subseteq (1 .. done) \X Int
      /\ conf.clock = "system" => \A j \in DOMAIN closed : closed[j].key \notin Keys(windows)
  BY <1>1 DEF SlidingInv, WindowsInv, OutcomeInv, OnceInv, Live, Sliding
<1>6. conf.clock = "system" => wm = now
  BY <1>3 DEF Watermark
<1>7. PICK ls : ls = logics
  OBVIOUS
<1>8. PICK ws : ws = windows
  OBVIOUS
<1>9. DrainClosed(wm, ws, ls, maxKey, cl)
  BY <1>2, <1>3, <1>7, <1>8
<1>10. SlidingInv(Live)' /\ Moved(ws, ls, wm)
  BY <1>1, <1>4, <1>5, <1>6, <1>7, <1>8, <1>9, DrainSliding
<1>11. QED
  BY <1>7, <1>8, <1>10

(* At EOF every window closes. *)
LEMMA EofSliding ==
  ASSUME WClockInv, WSlidingInv, conf.kind = "sliding", OnEof
  PROVE  SlidingInv(Live)' /\ (\E wm : Moved(windows, logics, wm)) /\ windows' = {}
<1>1. ScalarsInv /\ SlidingInv(Live) /\ ClockInv(Live)
  BY DEF WClockInv, WSlidingInv
<1>2. PICK cl : DrainClosed(Watermark({MaxUtc}), windows, logics, maxKey, cl)
  BY DEF OnEof
<1>3. PICK wm : wm = Watermark({MaxUtc})
  OBVIOUS
<1>4. /\ ~ ended /\ ended' /\ UNCHANGED <<conf, now, done, late>>
      /\ now \in Nat /\ done \in Nat /\ conf \in Configs
  BY <1>1 DEF OnEof, input, ScalarsInv
<1>5. /\ Sliding(windows) /\ logics \in [Keys(windows) -> SUBSET (1 .. done)] /\ maxKey \in Nat
      /\ late \subseteq (1 .. done) \X Int
      /\ conf.clock = "system" => \A j \in DOMAIN closed : closed[j].key \notin Keys(windows)
  BY <1>1 DEF SlidingInv, WindowsInv, OutcomeInv, OnceInv, Live, Sliding
<1>6. PICK ls : ls = logics
  OBVIOUS
<1>7. PICK ws : ws = windows
  OBVIOUS
<1>8. DrainClosed(wm, ws, ls, maxKey, cl)
  BY <1>2, <1>3, <1>6, <1>7
<1>9. SlidingInv(Live)' /\ Moved(ws, ls, wm)
  BY <1>1, <1>4, <1>5, <1>6, <1>7, <1>8, DrainSliding
<1>10. wm \in Int /\ MaxUtc <= wm
  <2>1. MaxUtc \in Int /\ MaxUtc <= MaxUtc /\ conf.clock \in {"event", "system"}
    BY <1>4, ConfigIs
  <2>2. CASE conf.clock = "system"
    BY <1>3, <2>1, <2>2 DEF Watermark
  <2>3. CASE conf.clock = "event"
    <3>1. PICK m \in SeenTimes({MaxUtc}) :
            /\ EventWatermark({MaxUtc}) = WatermarkOf(m)
            /\ \A d \in SeenTimes({MaxUtc}) : WatermarkOf(d) \in Int /\ WatermarkOf(d) <= WatermarkOf(m)
      BY <1>1, <1>4, <2>1, ClockMoves
    <3>2. PICK d \in SeenTimes({MaxUtc}) : d.event = MaxUtc
      <4>1. [event |-> MaxUtc, system |-> now] \in SeenTimes({MaxUtc})
        BY DEF SeenTimes
      <4>2. [event |-> MaxUtc, system |-> now].event = MaxUtc
        OBVIOUS
      <4>3. QED
        BY <4>1, <4>2
    <3>3. WatermarkOf(d) = MaxUtc
      BY <3>2 DEF WatermarkOf
    <3>4. QED
      BY <1>3, <2>3, <3>1, <3>2, <3>3 DEF Watermark
  <2>4. QED
    BY <2>1, <2>2, <2>3
<1>11. \A w \in windows : w.close < wm
  <2>1. MaxUtc \in Int
    BY <1>4, ConfigIs
  <2>2. \A w \in windows : w.close < MaxUtc /\ w.close \in Int
    BY <1>4, <1>5, SlidingAre DEF Sliding
  <2>3. QED
    BY <1>10, <2>1, <2>2
<1>12. windows' = {}
  BY <1>7, <1>9, <1>11 DEF Moved, Staying
<1>13. QED
  BY <1>6, <1>7, <1>9, <1>12

LEMMA InitSliding == Init => WSlidingInv
<1> SUFFICES ASSUME Init
             PROVE  SlidingInv(Live) /\ SlidingInv(saved) /\ (ended => windows = {})
  BY DEF WSlidingInv
<1>1. /\ saved = [clock |-> {}, windows |-> {}, maxKey |-> 0, logics |-> NoLogics,
                  nextAwake |-> {}, done |-> 0, late |-> {}, closed |-> <<>>]
      /\ Live = saved /\ windows = {}
  BY DEF Init, Live
<1>2. IsFiniteSet({})
  BY FS_EmptySet
<1>3. Keys({}) = {}
  BY DEF Keys
<1>4. NoLogics \in [{} -> SUBSET (1 .. 0)]
  BY DEF NoLogics
<1>5. WindowsInv(saved)
  BY <1>1, <1>2, <1>3, <1>4 DEF WindowsInv
<1>6. OutcomeInv(saved) /\ OnceInv(saved)
  BY <1>1, <1>3 DEF OutcomeInv, OnceInv
<1>7. QED
  BY <1>1, <1>5, <1>6 DEF SlidingInv

LEMMA NextSliding ==
  ASSUME WClockInv, WSlidingInv, [Next]_vars
  PROVE  WSlidingInv'
<1>1. ScalarsInv /\ conf' = conf /\ now <= now' /\ now \in Nat /\ now' \in Nat /\ conf \in Configs
  BY NextScalars DEF WClockInv, ScalarsInv
<1> SUFFICES ASSUME conf.kind = "sliding"
             PROVE  SlidingInv(Live)' /\ SlidingInv(saved)' /\ (ended' => windows' = {})
  BY <1>1 DEF WSlidingInv
<1>2. SlidingInv(Live) /\ SlidingInv(saved) /\ (ended => windows = {})
  BY DEF WSlidingInv
<1>3. ASSUME NEW t \in ItemTimes, OnItem(t)
      PROVE  SlidingInv(Live)' /\ SlidingInv(saved)' /\ (ended' => windows' = {})
  <2>1. t \in Int /\ \E wm : ItemStep(wm, t)
    BY <1>1, <1>2, <1>3, ItemIs
  <2>2. PICK wm : ItemStep(wm, t)
    BY <2>1
  <2>3. SlidingInv(Live)'
    BY <1>1, <1>2, <2>1, <2>2, ItemSliding
  <2>4. saved' = saved /\ ended' = ended /\ ~ ended
    BY <2>2 DEF ItemStep
  <2>5. QED
    BY <1>1, <1>2, <2>3, <2>4, SavedLasts
<1>4. CASE FindDue
  <2>1. saved' = saved /\ Live' = Live /\ ended' = ended /\ windows' = windows
    BY <1>4 DEF FindDue, input, logic, outcome, Live
  <2>2. QED
    BY <1>1, <1>2, <2>1, SavedLasts, LiveLasts
<1>5. CASE OnAwake
  <2>1. saved' = saved /\ ended' = ended /\ ~ ended
    BY <1>5 DEF OnAwake
  <2>2. QED
    BY <1>1, <1>2, <1>5, <2>1, AwakeSliding, SavedLasts
<1>6. CASE OnEof
  <2>1. saved' = saved /\ ended'
    BY <1>6 DEF OnEof
  <2>2. QED
    BY <1>1, <1>2, <1>6, <2>1, EofSliding, SavedLasts
<1>7. CASE Snapshot
  <2>1. saved' = Live /\ Live' = Live /\ now' = now /\ ended' = ended /\ windows' = windows
    BY <1>7, SnapshotIs
  <2>2. QED
    BY <1>1, <1>2, <2>1, LiveLasts, SnapshotSliding
<1>8. CASE Crash
  <2>1. saved' = saved /\ ended' = ended /\ ~ ended
    BY <1>8 DEF Crash
  <2>2. QED
    BY <1>1, <1>2, <1>8, <2>1, SavedLasts, CrashSliding
<1>9. CASE Tick
  <2>1. saved' = saved /\ Live' = Live /\ ended' = ended /\ windows' = windows
    BY <1>9 DEF Tick, input, logic, outcome, Live
  <2>2. QED
    BY <1>1, <1>2, <2>1, SavedLasts, LiveLasts
<1>10. CASE UNCHANGED vars
  <2>1. saved' = saved /\ Live' = Live /\ ended' = ended /\ windows' = windows
    BY <1>10 DEF vars, input, logic, outcome, Live
  <2>2. QED
    BY <1>1, <1>2, <2>1, SavedLasts, LiveLasts
<1>11. QED
  BY <1>3, <1>4, <1>5, <1>6, <1>7, <1>8, <1>9, <1>10 DEF Next, Stopped

(* The invariant of the sliding windows, the live ones and the saved ones. *)
THEOREM WSlidingInvHolds == Spec => []WSlidingInv
<1>1. WClockInv /\ WSlidingInv /\ [Next]_vars => WSlidingInv'
  BY NextSliding
<1>2. QED
  BY WClockInvHolds, InitSliding, <1>1, PTL DEF Spec

(* Under the system clock each window is emitted at most once, whatever      *)
(* crashes: once it has been, it has ended by the clock, and no item is      *)
(* given an earlier time than the clock had then.                            *)
THEOREM SystemClosedOnceHolds == Spec => []SystemClosedOnce
<1>1. WSlidingInv => SystemClosedOnce
  BY DEF WSlidingInv, SlidingInv, OnceInv, Live, SystemClosedOnce, ClosedOnce
<1>2. QED
  BY WSlidingInvHolds, <1>1, PTL

-----------------------------------------------------------------------------
(* No item is lost or counted twice. *)

(* What closing windows does to one item and one window: it is held as       *)
(* before, or it goes from the window to one new emission.                   *)
LEMMA MovedAccount ==
  ASSUME NEW ws, NEW ls, NEW wm, Moved(ws, ls, wm),
         \A v, w \in ws : v.key = w.key => v = w,
         NEW i, NEW k
  PROVE  /\ k \in Keys(ws) /\ i \in ls[k] <=>
              \/ HeldIn(Live, i, k)'
              \/ \E j \in NewPlaces : j \in EmittedAt(Live, i, k)'
         /\ ~ (HeldIn(Live, i, k)' /\ \E j \in NewPlaces : j \in EmittedAt(Live, i, k)')
         /\ \A j \in DOMAIN closed : j \in EmittedAt(Live, i, k)' <=> j \in EmittedAt(Live, i, k)
         /\ \A j \in EmittedAt(Live, i, k)' : j \in DOMAIN closed \/ j \in NewPlaces
         /\ \A j, l \in NewPlaces :
              j \in EmittedAt(Live, i, k)' /\ l \in EmittedAt(Live, i, k)' => j = l
<1>1. /\ windows' = Staying(ws, wm) /\ DOMAIN logics' = Keys(windows')
      /\ \A x \in Keys(windows') : logics'[x] = ls[x]
      /\ \A j \in DOMAIN closed : j \in DOMAIN closed' /\ closed'[j] = closed[j]
      /\ \A j \in NewPlaces : \E w \in Closing(ws, wm) : closed'[j] = Emit(w, ls)
      /\ \A w \in Closing(ws, wm) : \E j \in NewPlaces : closed'[j] = Emit(w, ls)
      /\ \A j, l \in NewPlaces : closed'[j].key = closed'[l].key => j = l
  BY DEF Moved, EmitsAll
<1>2. \A w : Emit(w, ls).key = w.key /\ Emit(w, ls).items = ls[w.key]
  BY DEF Emit
<1>3. \A j : j \in EmittedAt(Live, i, k)' <=>
               j \in DOMAIN closed' /\ i \in closed'[j].items /\ closed'[j].key = k
  BY DEF EmittedAt, Live
<1>4. \A j : j \in EmittedAt(Live, i, k) <=>
               j \in DOMAIN closed /\ i \in closed[j].items /\ closed[j].key = k
  BY DEF EmittedAt, Live
<1>5. HeldIn(Live, i, k)' <=> k \in Keys(windows') /\ i \in ls[k]
  BY <1>1 DEF HeldIn, Live
<1>6. (\E j \in NewPlaces : j \in EmittedAt(Live, i, k)') <=> k \in Keys(Closing(ws, wm)) /\ i \in ls[k]
  <2>1. ASSUME NEW j \in NewPlaces, j \in EmittedAt(Live, i, k)'
        PROVE  k \in Keys(Closing(ws, wm)) /\ i \in ls[k]
    BY <1>1, <1>2, <1>3, <2>1 DEF Keys
  <2>2. ASSUME k \in Keys(Closing(ws, wm)), i \in ls[k]
        PROVE  \E j \in NewPlaces : j \in EmittedAt(Live, i, k)'
    <3>1. PICK w \in Closing(ws, wm) : k = w.key
      BY <2>2 DEF Keys
    <3>2. PICK j \in NewPlaces : closed'[j] = Emit(w, ls)
      BY <1>1
    <3>3. QED
      BY <1>2, <1>3, <2>2, <3>1, <3>2 DEF NewPlaces
  <2>3. QED
    BY <2>1, <2>2
<1>7. /\ k \in Keys(ws) <=> k \in Keys(windows') \/ k \in Keys(Closing(ws, wm))
      /\ ~ (k \in Keys(windows') /\ k \in Keys(Closing(ws, wm)))
  BY <1>1 DEF Keys, Staying, Closing
<1>8. \A j \in DOMAIN closed : j \in EmittedAt(Live, i, k)' <=> j \in EmittedAt(Live, i, k)
  BY <1>1, <1>3, <1>4
<1>9. \A j \in EmittedAt(Live, i, k)' : j \in DOMAIN closed \/ j \in NewPlaces
  BY <1>3 DEF NewPlaces
<1>10. \A j, l \in NewPlaces :
         j \in EmittedAt(Live, i, k)' /\ l \in EmittedAt(Live, i, k)' => j = l
  BY <1>1, <1>3
<1>11. QED
  BY <1>5, <1>6, <1>7, <1>8, <1>9, <1>10

LEMMA MovedAccounted ==
  ASSUME NEW ws, NEW ls, NEW wm, Moved(ws, ls, wm),
         \A v, w \in ws : v.key = w.key => v = w,
         NEW i, NEW k, NEW covers,
         Accounted(k \in Keys(ws) /\ i \in ls[k], EmittedAt(Live, i, k),
                   IsLateFor(Live, i, k)', covers)
  PROVE  Accounted(HeldIn(Live, i, k)', EmittedAt(Live, i, k)',
                   IsLateFor(Live, i, k)', covers)
<1>1. \A j \in EmittedAt(Live, i, k) : j \in DOMAIN closed
  BY DEF EmittedAt, Live
<1> DEFINE held == k \in Keys(ws) /\ i \in ls[k]
           held2 == HeldIn(Live, i, k)'
           new == \E j \in NewPlaces : j \in EmittedAt(Live, i, k)'
           isLate == IsLateFor(Live, i, k)'
<1> PICK E : E = EmittedAt(Live, i, k)
  OBVIOUS
<1> PICK F : F = EmittedAt(Live, i, k)'
  OBVIOUS
<1>2. /\ held <=> held2 \/ new
      /\ ~ (held2 /\ new)
      /\ \A j \in DOMAIN closed : j \in F <=> j \in E
      /\ \A j \in F : j \in DOMAIN closed \/ j \in NewPlaces
      /\ \A j, l \in NewPlaces : j \in F /\ l \in F => j = l
  BY MovedAccount
<1>3. /\ held \/ E # {} \/ isLate <=> covers
      /\ ~ (held /\ isLate) /\ (E # {} => ~ held /\ ~ isLate)
      /\ \A j, l \in E : j = l
  BY DEF Accounted
<1>4. new <=> \E j \in NewPlaces : j \in F
  OBVIOUS
<1> HIDE DEF held, held2, isLate, new
<1>5. F # {} <=> E # {} \/ new
  BY <1>1, <1>2, <1>4
<1>6. \A j, l \in F : j = l
  <2>1. SUFFICES ASSUME NEW j \in F, NEW l \in F
                 PROVE  j = l
    OBVIOUS
  <2>2. CASE new
    <3>1. E = {}
      BY <1>2, <1>3, <2>2
    <3>2. j \in NewPlaces /\ l \in NewPlaces
      BY <1>2, <3>1
    <3>3. QED
      BY <1>2, <3>2
  <2>3. CASE ~ new
    BY <1>1, <1>2, <1>3, <1>4, <2>3
  <2>4. QED
    BY <2>2, <2>3
<1>7. (held2 \/ F # {} \/ isLate) <=> covers
  BY <1>2, <1>3, <1>5
<1>8. ~ (held2 /\ isLate) /\ (F # {} => ~ held2 /\ ~ isLate)
  BY <1>2, <1>3, <1>5
<1>9. Accounted(held2, F, isLate, covers)
  BY <1>6, <1>7, <1>8, Zenon DEF Accounted
<1>10. QED
  BY <1>9 DEF held2, isLate

(* An item is taken or late for just the windows it meets. *)
LEMMA ItemAccount ==
  ASSUME WholeMillis, ScalarsInv, ScalarsInv', conf.kind = "sliding", SlidingInv(Live),
         AccountInv(Live), NEW t \in ItemTimes, OnItem(t)
  PROVE  AccountInv(Live)' /\ \A i \in 1 .. done : arrived'[i] = arrived[i]
<1>1. PICK wm : ItemStep(wm, t)
  BY ItemIs
<1>2. t \in Int /\ t \in Times \cup (0 .. MaxUtc - 1)
  BY ItemIs
<1>3. /\ conf \in Configs /\ done \in Nat /\ arrived \in Seq(Int) /\ done <= Len(arrived)
      /\ now \in Nat /\ now' \in Nat
  BY DEF ScalarsInv
<1>4. /\ ~ ended /\ done' = done + 1 /\ conf' = conf
      /\ late' = late \cup {<<done + 1, k>> : k \in Keys(SlidingLate(conf, wm, t))}
      /\ Sliding(Intersects(conf, t)) /\ Sliding(Accepted(wm, t))
  BY <1>1 DEF ItemStep
<1>5. arrived' = (IF done = Len(arrived) THEN Append(arrived, t)
                                         ELSE [arrived EXCEPT ![done + 1] = t])
      /\ now <= now'
  <2>1. /\ arrived' = (IF done = Len(arrived) THEN Append(arrived, t)
                                              ELSE [arrived EXCEPT ![done + 1] = t])
        /\ now' = IF conf.clock = "event" THEN now ELSE t
    BY DEF OnItem
  <2>2. conf.clock # "event" => t \in {now, now + 1}
    BY DEF ItemTimes
  <2>3. QED
    BY <1>3, <2>1, <2>2
<1>6. arrived'[done + 1] = t /\ \A i \in 1 .. done : arrived'[i] = arrived[i]
  <2>1. done + 1 \in 1 .. Len(arrived) + 1 /\ Len(arrived) \in Nat
    BY <1>3
  <2>2. CASE done = Len(arrived)
    BY <1>2, <1>3, <1>5, <2>1, <2>2
  <2>3. CASE done # Len(arrived)
    BY <1>2, <1>3, <1>5, <2>1, <2>3
  <2>4. QED
    BY <2>2, <2>3
<1>7. Moved(Accepted(wm, t), Folded(wm, t), wm)
  BY <1>1, <1>2, <1>3, <1>5, ItemSliding
<1>8. Intersects(conf, t) = {Window(conf, i) : i \in Covering(conf, t, I32)}
  <2>1. Milli = 1 /\ Fits(conf, t)
    BY <1>2, <1>3 DEF WholeMillis
  <2>2. conf.length \in Nat \ {0} /\ conf.offset \in Nat \ {0} /\ conf.align \in Int
    BY <1>3, ConfigIs
  <2>3. QED
    BY <1>2, <2>1, <2>2, IntersectsIs
<1>9. Keys(Intersects(conf, t)) = Covering(conf, t, I32)
  <2>1. \A i \in Covering(conf, t, I32) : Window(conf, i).key = i
    BY <1>3, NoWrapping, WindowIs DEF Covering
  <2>2. QED
    BY <1>8, <2>1 DEF Keys
<1>10. /\ logics \in [Keys(windows) -> SUBSET (1 .. done)]
       /\ \A j \in DOMAIN closed : closed[j].items \subseteq 1 .. done
       /\ late \subseteq (1 .. done) \X Int
  BY DEF SlidingInv, WindowsInv, OutcomeInv, Live
<1>11. ~ (done + 1 \in 1 .. done) /\ 1 .. done' = (1 .. done) \cup {done + 1}
  BY <1>3, <1>4
<1> DEFINE A == SlidingAccepts(conf, wm, t)
           L == SlidingLate(conf, wm, t)
           ws == Accepted(wm, t)
           ls == Folded(wm, t)
<1>12. \A i \in 1 .. done + 1 : \A k :
         k \in Keys(ws) /\ i \in ls[k] <=>
           \/ i # done + 1 /\ HeldIn(Live, i, k)
           \/ i = done + 1 /\ k \in Keys(A)
  <2>1. ls = [k \in (DOMAIN logics) \cup Keys(A) |->
                (IF k \in DOMAIN logics THEN logics[k] ELSE {})
                  \cup (IF k \in Keys(A) THEN {done + 1} ELSE {})]
    BY DEF Folded, Fold
  <2>2. Keys(ws) = DOMAIN logics \cup Keys(A)
    BY <1>10 DEF Accepted, Keys
  <2>3. \A k \in DOMAIN logics : done + 1 \notin logics[k]
    BY <1>10, <1>11
  <2>4. \A i, k : HeldIn(Live, i, k) <=> k \in DOMAIN logics /\ i \in logics[k]
    BY DEF HeldIn, Live
  <2> HIDE DEF A, ls, ws
  <2>5. QED
    BY <2>1, <2>2, <2>3, <2>4
<1>13. \A i \in 1 .. done + 1 : \A k :
         IsLateFor(Live, i, k)' <=> \/ i # done + 1 /\ IsLateFor(Live, i, k)
                                    \/ i = done + 1 /\ k \in Keys(L)
  <2>1. \A i, k : IsLateFor(Live, i, k)' <=> <<i, k>> \in late'
    BY DEF IsLateFor, Live
  <2>2. \A i, k : IsLateFor(Live, i, k) <=> <<i, k>> \in late
    BY DEF IsLateFor, Live
  <2>3. \A k : <<done + 1, k>> \notin late
    BY <1>10, <1>11
  <2> HIDE DEF L
  <2>4. late' = late \cup {<<done + 1, k>> : k \in Keys(L)}
    BY <1>4 DEF L
  <2>5. QED
    BY <2>1, <2>2, <2>3, <2>4, ZenonT(30)
<1>14. /\ \A k : k \in Keys(A) \/ k \in Keys(L) <=> k \in Covering(conf, t, I32)
       /\ \A k : ~ (k \in Keys(A) /\ k \in Keys(L))
  <2>1. \A v, w \in Intersects(conf, t) : v.key = w.key => v = w
    BY <1>3, <1>4, SlidingAre
  <2>2. QED
    BY <1>9, <2>1 DEF A, L, SlidingAccepts, SlidingLate, Keys
<1>15. \A v, w \in ws : v.key = w.key => v = w
  BY <1>3, <1>4, SlidingAre
<1> HIDE DEF A, L, ws, ls
<1>16. ASSUME NEW i \in 1 .. done + 1, NEW k \in Int
       PROVE  Accounted(k \in Keys(ws) /\ i \in ls[k], EmittedAt(Live, i, k),
                        IsLateFor(Live, i, k)', k \in Covering(conf, arrived'[i], I32))
  <2>1. CASE i = done + 1
    <3>1. EmittedAt(Live, i, k) = {}
      BY <1>10, <1>11, <2>1 DEF EmittedAt, Live
    <3>2. /\ (k \in Keys(ws) /\ i \in ls[k]) <=> k \in Keys(A)
          /\ IsLateFor(Live, i, k)' <=> k \in Keys(L)
          /\ k \in Covering(conf, arrived'[i], I32) <=> k \in Keys(A) \/ k \in Keys(L)
      BY <1>6, <1>12, <1>13, <1>14, <2>1
    <3>3. QED
      BY <1>14, <3>1, <3>2 DEF Accounted
  <2>2. CASE i # done + 1
    <3>1. i \in 1 .. done /\ Live.done = done
      BY <1>3, <2>2 DEF Live
    <3>2. Accounted(HeldIn(Live, i, k), EmittedAt(Live, i, k), IsLateFor(Live, i, k),
                    k \in Covering(conf, arrived[i], I32))
      BY <3>1 DEF AccountInv
    <3>3. /\ (k \in Keys(ws) /\ i \in ls[k]) <=> HeldIn(Live, i, k)
          /\ IsLateFor(Live, i, k)' <=> IsLateFor(Live, i, k)
          /\ arrived'[i] = arrived[i]
      BY <1>6, <1>12, <1>13, <2>2, <3>1
    <3>4. QED
      BY <3>2, <3>3 DEF Accounted
  <2>3. QED
    BY <2>1, <2>2
<1>17. ASSUME NEW i \in 1 .. done', NEW k \in Int
       PROVE  Accounted(HeldIn(Live, i, k)', EmittedAt(Live, i, k)', IsLateFor(Live, i, k)',
                        k \in Covering(conf, arrived'[i], I32))
  <2>1. Moved(ws, ls, wm)
    BY <1>7 DEF ws, ls
  <2>2. i \in 1 .. done + 1
    BY <1>4
  <2>3. PICK c : c = (k \in Covering(conf, arrived'[i], I32))
    OBVIOUS
  <2>4. Accounted(k \in Keys(ws) /\ i \in ls[k], EmittedAt(Live, i, k), IsLateFor(Live, i, k)', c)
    BY <1>16, <2>2, <2>3
  <2>5. Accounted(HeldIn(Live, i, k)', EmittedAt(Live, i, k)', IsLateFor(Live, i, k)', c)
    BY <1>15, <2>1, <2>4, MovedAccounted
  <2>6. QED
    BY <2>3, <2>5
<1>18. AccountInv(Live)'
  <2>1. Live'.done = done'
    BY DEF Live
  <2>2. QED
    BY <1>4, <1>17, <2>1 DEF AccountInv
<1>19. QED
  BY <1>6, <1>18

(* An awakening, or EOF, closes windows and takes no item. *)
LEMMA MovedKept ==
  ASSUME ScalarsInv, conf.kind = "sliding", SlidingInv(Live), AccountInv(Live),
         NEW wm, Moved(windows, logics, wm), UNCHANGED <<conf, arrived, done, late>>
  PROVE  AccountInv(Live)'
<1>1. PICK ws : ws = windows
  OBVIOUS
<1>2. PICK ls : ls = logics
  OBVIOUS
<1>3. /\ conf \in Configs /\ Sliding(windows)
      /\ DOMAIN logics = Keys(windows) /\ Live.done = done /\ Live'.done = done'
  BY DEF ScalarsInv, SlidingInv, WindowsInv, Sliding, Live
<1>4. \A v, w \in ws : v.key = w.key => v = w
  BY <1>1, <1>3, SlidingAre
<1>5. ASSUME NEW i \in 1 .. done', NEW k \in Int
      PROVE  Accounted(HeldIn(Live, i, k)', EmittedAt(Live, i, k)', IsLateFor(Live, i, k)',
                       k \in Covering(conf, arrived'[i], I32))
  <2>1. PICK c : c = (k \in Covering(conf, arrived'[i], I32))
    OBVIOUS
  <2>2. Accounted(HeldIn(Live, i, k), EmittedAt(Live, i, k), IsLateFor(Live, i, k), c)
    BY <1>3, <1>5, <2>1 DEF AccountInv
  <2>3. HeldIn(Live, i, k) <=> k \in Keys(ws) /\ i \in ls[k]
    BY <1>1, <1>2, <1>3 DEF HeldIn, Live
  <2>4. IsLateFor(Live, i, k)' <=> IsLateFor(Live, i, k)
    BY DEF IsLateFor, Live
  <2>5. Accounted(k \in Keys(ws) /\ i \in ls[k], EmittedAt(Live, i, k), IsLateFor(Live, i, k)', c)
    BY <2>2, <2>3, <2>4 DEF Accounted
  <2>6. Accounted(HeldIn(Live, i, k)', EmittedAt(Live, i, k)', IsLateFor(Live, i, k)', c)
    BY <1>1, <1>2, <1>4, <2>5, MovedAccounted
  <2>7. QED
    BY <2>1, <2>6
<1>6. QED
  BY <1>3, <1>5 DEF AccountInv

(* An account that stays the same, of items that keep their times. *)
LEMMA AccountStays ==
  ASSUME NEW s, AccountInv(s), s.done \in 0 .. done, UNCHANGED conf,
         \A i \in 1 .. s.done : arrived'[i] = arrived[i]
  PROVE  \A i \in 1 .. s.done : \A k \in Int :
           Accounted(HeldIn(s, i, k), EmittedAt(s, i, k), IsLateFor(s, i, k),
                     k \in Covering(conf', arrived'[i], I32))
BY DEF AccountInv

LEMMA SavedAccount ==
  ASSUME ScalarsInv, AccountInv(saved), UNCHANGED <<conf, saved>>,
         \A i \in 1 .. done : arrived'[i] = arrived[i]
  PROVE  AccountInv(saved)'
<1>1. saved.done \in 0 .. done /\ done \in Nat
  BY DEF ScalarsInv
<1>2. \A i \in 1 .. saved.done : i \in 1 .. done
  BY <1>1
<1>3. PICK s : s = saved
  OBVIOUS
<1>4. \A i \in 1 .. s.done : \A k \in Int :
        Accounted(HeldIn(s, i, k), EmittedAt(s, i, k), IsLateFor(s, i, k),
                  k \in Covering(conf', arrived'[i], I32))
  BY <1>1, <1>2, <1>3, AccountStays
<1>5. saved' = s
  BY <1>3
<1>6. QED
  BY <1>4, <1>5 DEF AccountInv, HeldIn, EmittedAt, IsLateFor

LEMMA LiveAccount ==
  ASSUME AccountInv(Live), UNCHANGED <<conf, arrived, Live>>
  PROVE  AccountInv(Live)'
<1>1. PICK s : s = Live
  OBVIOUS
<1>2. Live' = s
  BY <1>1
<1>3. AccountInv(s)
  BY <1>1
<1>4. QED
  BY <1>2, <1>3 DEF AccountInv, HeldIn, EmittedAt, IsLateFor

LEMMA SnapshotAccount ==
  ASSUME AccountInv(Live), saved' = Live, UNCHANGED <<conf, arrived>>
  PROVE  AccountInv(saved)'
<1>1. PICK s : s = Live
  OBVIOUS
<1>2. saved' = s
  BY <1>1
<1>3. AccountInv(s)
  BY <1>1
<1>4. QED
  BY <1>2, <1>3 DEF AccountInv, HeldIn, EmittedAt, IsLateFor

LEMMA CrashAccount ==
  ASSUME AccountInv(saved), Crash
  PROVE  AccountInv(Live)'
<1>1. /\ Live'.logics = saved.logics /\ Live'.done = saved.done /\ Live'.late = saved.late
      /\ Live'.closed = saved.closed /\ conf' = conf /\ arrived' = arrived
  BY DEF Crash, Live
<1>2. QED
  BY <1>1 DEF AccountInv, HeldIn, EmittedAt, IsLateFor

LEMMA InitAccount == Init => WAccountInv
<1> SUFFICES ASSUME Init
             PROVE  AccountInv(Live) /\ AccountInv(saved)
  BY DEF WAccountInv
<1>1. saved.done = 0 /\ Live.done = 0
  BY DEF Init, Live
<1>2. QED
  BY <1>1 DEF AccountInv

LEMMA NextAccount ==
  ASSUME WholeMillis, WClockInv, WSlidingInv, WAccountInv, [Next]_vars
  PROVE  WAccountInv'
<1>1. ScalarsInv /\ ScalarsInv' /\ conf' = conf
  BY NextScalars DEF WClockInv
<1> SUFFICES ASSUME conf.kind = "sliding"
             PROVE  AccountInv(Live)' /\ AccountInv(saved)'
  BY <1>1 DEF WAccountInv
<1>2. SlidingInv(Live) /\ AccountInv(Live) /\ AccountInv(saved)
  BY DEF WSlidingInv, WAccountInv
<1>3. ASSUME NEW t \in ItemTimes, OnItem(t)
      PROVE  AccountInv(Live)' /\ AccountInv(saved)'
  <2>1. AccountInv(Live)' /\ \A i \in 1 .. done : arrived'[i] = arrived[i]
    BY <1>1, <1>2, <1>3, ItemAccount
  <2>2. saved' = saved
    BY <1>3 DEF OnItem
  <2>3. QED
    BY <1>1, <1>2, <2>1, <2>2, SavedAccount
<1>4. ASSUME UNCHANGED <<arrived, saved, Live>>
      PROVE  AccountInv(Live)' /\ AccountInv(saved)'
  BY <1>1, <1>2, <1>4, SavedAccount, LiveAccount
<1>5. ASSUME NEW wm, Moved(windows, logics, wm), UNCHANGED <<arrived, done, late, saved>>
      PROVE  AccountInv(Live)' /\ AccountInv(saved)'
  BY <1>1, <1>2, <1>5, SavedAccount, MovedKept
<1>6. CASE FindDue
  BY <1>4, <1>6 DEF FindDue, input, logic, outcome, Live
<1>7. CASE OnAwake
  <2>1. UNCHANGED <<arrived, done, late, saved>>
    BY <1>7 DEF OnAwake, input
  <2>2. \E wm : Moved(windows, logics, wm)
    BY <1>7, AwakeSliding
  <2>3. QED
    BY <1>5, <2>1, <2>2
<1>8. CASE OnEof
  <2>1. UNCHANGED <<arrived, done, late, saved>>
    BY <1>8 DEF OnEof, input
  <2>2. \E wm : Moved(windows, logics, wm)
    BY <1>8, EofSliding
  <2>3. QED
    BY <1>5, <2>1, <2>2
<1>9. CASE Snapshot
  <2>1. saved' = Live /\ Live' = Live /\ arrived' = arrived
    BY <1>9, SnapshotIs
  <2>2. QED
    BY <1>1, <1>2, <2>1, LiveAccount, SnapshotAccount
<1>10. CASE Crash
  <2>1. saved' = saved /\ arrived' = arrived
    BY <1>10 DEF Crash
  <2>2. QED
    BY <1>1, <1>2, <1>10, <2>1, SavedAccount, CrashAccount
<1>11. CASE Tick
  BY <1>4, <1>11 DEF Tick, input, logic, outcome, Live
<1>12. CASE UNCHANGED vars
  BY <1>4, <1>12 DEF vars, input, logic, outcome, Live
<1>13. QED
  BY <1>3, <1>6, <1>7, <1>8, <1>9, <1>10, <1>11, <1>12 DEF Next, Stopped

(* Each item is in one place for each window, in the state and in its        *)
(* snapshot.                                                                 *)
THEOREM WAccountInvHolds == WholeMillis => (Spec => []WAccountInv)
<1>1. WholeMillis /\ WClockInv /\ WSlidingInv /\ WAccountInv /\ [Next]_vars => WAccountInv'
  BY NextAccount
<1> SUFFICES ASSUME WholeMillis
             PROVE  Spec => []WAccountInv
  OBVIOUS
<1>2. WClockInv /\ WSlidingInv /\ WAccountInv /\ [Next]_vars => WAccountInv'
  BY <1>1
<1>3. QED
  BY WClockInvHolds, WSlidingInvHolds, InitAccount, <1>2, PTL DEF Spec

(* The keys of the windows that an item has been emitted with. *)
EmittedKeys(i) == {closed[j].key : j \in Emissions(i)}

(* No two emissions of an item are of one window: as many as there are keys. *)
LEMMA EmissionsCounted ==
  ASSUME closed \in Seq(Emission), NEW i,
         \A j, l \in Emissions(i) : closed[j].key = closed[l].key => j = l
  PROVE  Cardinality(EmittedKeys(i)) = Cardinality(Emissions(i))
<1> DEFINE f == [j \in Emissions(i) |-> closed[j].key]
<1>1. f \in Surjection(Emissions(i), EmittedKeys(i)) /\ f \in Injection(Emissions(i), EmittedKeys(i))
  <2>1. /\ DOMAIN f = Emissions(i)
        /\ \A j \in Emissions(i) : f[j] = closed[j].key /\ f[j] \in EmittedKeys(i)
    BY DEF EmittedKeys
  <2>2. f \in [Emissions(i) -> EmittedKeys(i)]
    BY <2>1
  <2>3. \A k \in EmittedKeys(i) : \E j \in Emissions(i) : f[j] = k
    BY <2>1 DEF EmittedKeys
  <2>4. \A j, l \in Emissions(i) : f[j] = f[l] => j = l
    BY <2>1
  <2> HIDE DEF f
  <2>5. QED
    BY <2>2, <2>3, <2>4 DEF Surjection, Injection, IsInjective
<1>2. IsFiniteSet(Emissions(i))
  <2>1. Len(closed) \in Nat /\ Emissions(i) \in SUBSET (1 .. Len(closed))
    BY DEF Emissions
  <2>2. IsFiniteSet(1 .. Len(closed))
    BY <2>1, FS_Interval
  <2>3. QED
    BY <2>1, <2>2, FS_Subset
<1>3. QED
  BY <1>1, <1>2, FS_Surjection

(* Every item given to the logic is, for each window that covers its time,   *)
(* late, or held, or emitted, and emitted once: whatever the order of the    *)
(* items, and across snapshots and crashes; at EOF nothing is held back.     *)
(* The code needs whole milliseconds and windows that an i32 can count.      *)
THEOREM SlidingItemsAccountedHolds == WholeMillis => (Spec => []SlidingItemsAccounted)
<1>1. WClockInv /\ WSlidingInv /\ WAccountInv => SlidingItemsAccounted
  <2> SUFFICES ASSUME WClockInv, WSlidingInv, WAccountInv, conf.kind = "sliding",
                      NEW i \in 1 .. done
               PROVE  /\ Held(i) \cup EmittedKeys(i) \cup LateFor(i) = Covering(conf, arrived[i], I32)
                      /\ Held(i) \cap LateFor(i) = {}
                      /\ (Held(i) \cup LateFor(i)) \cap EmittedKeys(i) = {}
                      /\ Cardinality(EmittedKeys(i)) = Cardinality(Emissions(i))
                      /\ ended => Held(i) = {}
    BY DEF SlidingItemsAccounted, EmittedKeys
  <2>1. /\ SlidingInv(Live) /\ AccountInv(Live) /\ (ended => windows = {})
        /\ Live.done = done
    BY DEF WSlidingInv, WAccountInv, Live
  <2>2. /\ DOMAIN logics = Keys(windows) /\ closed \in Seq(Emission) /\ late \subseteq (1 .. done) \X Int
        /\ \A w \in windows : w.key \in Int
    BY <2>1 DEF SlidingInv, WindowsInv, OutcomeInv, Live
  <2> DEFINE C == Covering(conf, arrived[i], I32)
  <2>3. \A k \in Int : /\ HeldIn(Live, i, k) \/ EmittedAt(Live, i, k) # {} \/ IsLateFor(Live, i, k)
                            <=> k \in C
                       /\ ~ (HeldIn(Live, i, k) /\ IsLateFor(Live, i, k))
                       /\ EmittedAt(Live, i, k) # {} => /\ ~ HeldIn(Live, i, k)
                                                        /\ ~ IsLateFor(Live, i, k)
                       /\ \A j, l \in EmittedAt(Live, i, k) : j = l
    BY <2>1 DEF AccountInv, Accounted
  <2>4. C \subseteq Int
    BY SlidingAssumption DEF Covering, I32
  <2> HIDE DEF C
  <2>5. \A k : k \in Held(i) <=> k \in Int /\ HeldIn(Live, i, k)
    BY <2>2 DEF Held, HeldIn, Live, Keys
  <2>6. \A j \in DOMAIN closed : closed[j].key \in Int
    <3>1. \A j \in DOMAIN closed : closed[j] \in Emission
      BY <2>2
    <3>2. QED
      BY <3>1 DEF Emission
  <2>7. \A k : k \in EmittedKeys(i) <=> k \in Int /\ EmittedAt(Live, i, k) # {}
    <3>1. \A k : k \in EmittedKeys(i) <=>
                   \E j \in DOMAIN closed : i \in closed[j].items /\ closed[j].key = k
      BY DEF EmittedKeys, Emissions
    <3>2. \A k : EmittedAt(Live, i, k) = {j \in DOMAIN closed : i \in closed[j].items /\ closed[j].key = k}
      BY DEF EmittedAt, Live
    <3>3. QED
      BY <2>6, <3>1, <3>2
  <2>8. \A k : k \in LateFor(i) <=> k \in Int /\ IsLateFor(Live, i, k)
    BY <2>2 DEF LateFor, IsLateFor, Live
  <2>9. /\ Held(i) \cup EmittedKeys(i) \cup LateFor(i) = C
        /\ Held(i) \cap LateFor(i) = {} /\ (Held(i) \cup LateFor(i)) \cap EmittedKeys(i) = {}
    <3>1. \A k : k \in Held(i) \/ k \in EmittedKeys(i) \/ k \in LateFor(i) <=> k \in C
      BY <2>3, <2>4, <2>5, <2>7, <2>8
    <3>2. \A k : /\ ~ (k \in Held(i) /\ k \in LateFor(i))
                 /\ k \in EmittedKeys(i) => ~ (k \in Held(i)) /\ ~ (k \in LateFor(i))
      BY <2>3, <2>5, <2>7, <2>8
    <3>3. QED
      BY <3>1, <3>2
  <2>10. \A j, l \in Emissions(i) : closed[j].key = closed[l].key => j = l
    <3>1. \A j \in Emissions(i) : j \in EmittedAt(Live, i, closed[j].key) /\ closed[j].key \in Int
      BY <2>6 DEF Emissions, EmittedAt, Live
    <3>2. QED
      BY <2>3, <3>1
  <2>11. ended => Held(i) = {}
    BY <2>1 DEF Held
  <2>12. QED
    BY <2>2, <2>9, <2>10, <2>11, EmissionsCounted DEF C
<1> SUFFICES ASSUME WholeMillis
             PROVE  Spec => []SlidingItemsAccounted
  OBVIOUS
<1>2. Spec => []WAccountInv
  BY WAccountInvHolds
<1>3. QED
  BY WClockInvHolds, WSlidingInvHolds, <1>1, <1>2, PTL

-----------------------------------------------------------------------------
(* The list of sessions: its order, and what merge_sessions makes of it.    *)

(* Sessions of different keys are ordered. *)
Ordered(ss) ==
  /\ IsFiniteSet(ss) /\ ss \subseteq WindowRecords
  /\ \A v, w \in ss : v.key = w.key => v = w

LEMMA BeforeIs ==
  ASSUME NEW ss, Ordered(ss)
  PROVE  /\ \A r, s \in ss : r = s \/ Before(r, s) \/ Before(s, r)
         /\ \A r, s \in ss : Before(r, s) => r # s /\ ~ Before(s, r) /\ r.open <= s.open
         /\ \A r, s, t \in ss : Before(r, s) /\ Before(s, t) => Before(r, t)
<1>1. \A r \in ss : r.key \in Int /\ r.open \in Int /\ r.close \in Int
  BY DEF Ordered, WindowRecords
<1>2. \A r, s \in ss : r = s \/ Before(r, s) \/ Before(s, r)
  BY <1>1 DEF Ordered, Before
<1>3. \A r, s \in ss : Before(r, s) => r # s /\ ~ Before(s, r) /\ r.open <= s.open
  BY <1>1 DEF Before
<1>4. \A r, s, t \in ss : Before(r, s) /\ Before(s, t) => Before(r, t)
  BY <1>1 DEF Before
<1>5. QED
  BY <1>2, <1>3, <1>4

LEMMA PartOrdered ==
  ASSUME NEW ss, Ordered(ss), NEW tt, tt \subseteq ss
  PROVE  Ordered(tt)
BY FS_Subset DEF Ordered

(* A list that is not empty has a first and a last session. *)
IsFirst(ss, s) == s \in ss /\ \A r \in ss : r = s \/ Before(s, r)
IsLast(ss, s) == s \in ss /\ \A r \in ss : r = s \/ Before(r, s)

LEMMA EndsExist ==
  ASSUME NEW ss, Ordered(ss), ss # {}
  PROVE  (\E s : IsFirst(ss, s)) /\ (\E s : IsLast(ss, s))
<1> DEFINE Ends(tt) == (\E s : IsFirst(tt, s)) /\ (\E s : IsLast(tt, s))
           Bad == {n \in Nat : \E tt : /\ tt \subseteq ss /\ tt # {}
                                       /\ Cardinality(tt) = n /\ ~ Ends(tt)}
<1> HIDE DEF Ends
<1>1. Bad = {}
  <2>1. SUFFICES ASSUME Bad # {}
                 PROVE  FALSE
    OBVIOUS
  <2>2. Bad \subseteq Nat
    OBVIOUS
  <2> HIDE DEF Bad
  <2>3. PICK n \in Bad : \A m \in Bad : n <= m
    BY <2>1, <2>2, NatHasLeast
  <2> USE DEF Bad
  <2>4. PICK tt : tt \subseteq ss /\ tt # {} /\ Cardinality(tt) = n /\ ~ Ends(tt)
    OBVIOUS
  <2>5. PICK x \in tt : TRUE
    BY <2>4
  <2>6. IsFiniteSet(tt) /\ x \in ss
    BY <2>4, <2>5, PartOrdered DEF Ordered
  <2>7. PICK uu : uu = tt \ {x}
    OBVIOUS
  <2>8. uu \subseteq ss /\ Cardinality(uu) = n - 1 /\ Cardinality(uu) \in Nat
    <3>1. IsFiniteSet(uu) /\ Cardinality(uu) = n - 1
      BY <2>4, <2>5, <2>6, <2>7, FS_RemoveElement
    <3>2. QED
      BY <2>4, <2>7, <3>1, FS_CardinalityType
  <2>9. CASE uu = {}
    <3>1. \A r \in tt : r = x
      BY <2>7, <2>9
    <3>2. IsFirst(tt, x) /\ IsLast(tt, x)
      BY <2>5, <3>1 DEF IsFirst, IsLast
    <3>3. QED
      BY <2>4, <3>2 DEF Ends
  <2>10. CASE uu # {}
    <3>1. n - 1 \notin Bad
      <4>1. ~ (n <= n - 1)
        BY <2>8
      <4> HIDE DEF Bad
      <4>2. QED
        BY <2>3, <4>1
    <3>2. Ends(uu)
      BY <2>8, <2>10, <3>1
    <3>3. PICK f : IsFirst(uu, f)
      BY <3>2 DEF Ends
    <3>4. PICK l : IsLast(uu, l)
      BY <3>2 DEF Ends
    <3>5. f \in ss /\ l \in ss /\ f \in tt /\ l \in tt /\ \A r \in tt : r = x \/ r \in uu
      BY <2>7, <2>8, <3>3, <3>4 DEF IsFirst, IsLast
    <3>6. \E s : IsFirst(tt, s)
      <4>1. CASE Before(x, f)
        <5>1. \A r \in tt : r = x \/ Before(x, r)
          BY <2>4, <2>6, <3>3, <3>5, <4>1, BeforeIs DEF IsFirst
        <5>2. QED
          BY <2>5, <5>1 DEF IsFirst
      <4>2. CASE ~ Before(x, f)
        <5>1. x = f \/ Before(f, x)
          BY <2>6, <3>5, <4>2, BeforeIs
        <5>2. \A r \in tt : r = f \/ Before(f, r)
          BY <3>3, <3>5, <5>1 DEF IsFirst
        <5>3. QED
          BY <3>5, <5>2 DEF IsFirst
      <4>3. QED
        BY <4>1, <4>2
    <3>7. \E s : IsLast(tt, s)
      <4>1. CASE Before(l, x)
        <5>1. \A r \in tt : r = x \/ Before(r, x)
          BY <2>4, <2>6, <3>4, <3>5, <4>1, BeforeIs DEF IsLast
        <5>2. QED
          BY <2>5, <5>1 DEF IsLast
      <4>2. CASE ~ Before(l, x)
        <5>1. x = l \/ Before(x, l)
          BY <2>6, <3>5, <4>2, BeforeIs
        <5>2. \A r \in tt : r = l \/ Before(r, l)
          BY <3>4, <3>5, <5>1 DEF IsLast
        <5>3. QED
          BY <3>5, <5>2 DEF IsLast
      <4>3. QED
        BY <4>1, <4>2
    <3>8. QED
      BY <2>4, <3>6, <3>7 DEF Ends
  <2>11. QED
    BY <2>9, <2>10
<1>2. Cardinality(ss) \in Nat
  BY FS_CardinalityType DEF Ordered
<1>3. QED
  BY <1>1, <1>2 DEF Ends

LEMMA EndsAre ==
  ASSUME NEW ss, Ordered(ss), ss # {}
  PROVE  IsFirst(ss, FirstOf(ss)) /\ IsLast(ss, LastOf(ss))
<1>1. PICK f : IsFirst(ss, f)
  BY EndsExist
<1>2. PICK l : IsLast(ss, l)
  BY EndsExist
<1>3. IsFirst(ss, FirstOf(ss))
  BY <1>1 DEF IsFirst, FirstOf
<1>4. IsLast(ss, LastOf(ss))
  BY <1>2 DEF IsLast, LastOf
<1>5. QED
  BY <1>3, <1>4

(* The session that a session follows, and the one that follows it. *)
LEMMA FollowsIs ==
  ASSUME NEW ss, Ordered(ss), NEW s \in ss, NEW r, Follows(ss, r, s)
  PROVE  /\ r \in ss /\ Before(r, s) /\ r = LastOf(Earlier(ss, s))
         /\ \A q \in ss : Before(q, s) => q = r \/ Before(q, r)
         /\ \A q \in ss : Before(r, q) => q = s \/ Before(s, q)
<1>1. Earlier(ss, s) \subseteq ss /\ Earlier(ss, s) # {} /\ r = LastOf(Earlier(ss, s))
  BY DEF Earlier, Follows
<1>2. IsLast(Earlier(ss, s), r)
  BY <1>1, PartOrdered, EndsAre
<1>3. r \in ss /\ Before(r, s) /\ \A q \in ss : Before(q, s) => q = r \/ Before(q, r)
  BY <1>2 DEF IsLast, Earlier
<1>4. \A q \in ss : Before(r, q) => q = s \/ Before(s, q)
  BY <1>3, BeforeIs
<1>5. QED
  BY <1>1, <1>3, <1>4

LEMMA NextIs ==
  ASSUME NEW ss, Ordered(ss), NEW r \in ss, NEW t \in ss, Before(r, t)
  PROVE  \E s \in ss : Follows(ss, r, s) /\ (s = t \/ Before(s, t))
<1> DEFINE after == {q \in ss : Before(r, q)}
<1>1. after \subseteq ss /\ t \in after
  OBVIOUS
<1>2. PICK s : IsFirst(after, s)
  BY <1>1, PartOrdered, EndsExist
<1>3. s \in ss /\ Before(r, s) /\ \A q \in ss : Before(r, q) => q = s \/ Before(s, q)
  BY <1>2 DEF IsFirst
<1>4. Earlier(ss, s) \subseteq ss /\ r \in Earlier(ss, s)
  BY <1>3 DEF Earlier
<1>5. IsLast(Earlier(ss, s), LastOf(Earlier(ss, s)))
  BY <1>4, PartOrdered, EndsAre
<1>6. PICK l : l = LastOf(Earlier(ss, s))
  OBVIOUS
<1>7. l \in ss /\ Before(l, s) /\ (r = l \/ Before(r, l))
  BY <1>4, <1>5, <1>6 DEF IsLast, Earlier
<1>8. l = r
  BY <1>3, <1>7, BeforeIs
<1>9. QED
  BY <1>1, <1>3, <1>4, <1>6, <1>8 DEF Follows

(* Tops is what its definition says: there is no smallest beginning of the   *)
(* list on which it would be undefined.                                      *)
TopAt(top, ss, gap, s) ==
  IF Earlier(ss, s) # {} /\ InSession(top[LastOf(Earlier(ss, s))], s.open, gap)
    THEN MergeWith(top[LastOf(Earlier(ss, s))], s)
    ELSE s

LEMMA TopsAre ==
  ASSUME NEW ss, Ordered(ss), NEW gap
  PROVE  /\ DOMAIN Tops(ss, gap) = ss
         /\ \A s \in ss : Tops(ss, gap)[s] = TopAt(Tops(ss, gap), ss, gap, s)
<1> DEFINE Begins(tt) == tt \subseteq ss /\ \A s \in tt : Earlier(ss, s) \subseteq tt
           Rec(f, tt) == f = [s \in tt |-> TopAt(f, ss, gap, s)]
           Bad == {n \in Nat : \E tt : /\ Begins(tt) /\ Cardinality(tt) = n
                                       /\ ~ \E f : Rec(f, tt)}
<1> HIDE DEF Begins, Rec
<1>1. Bad = {}
  <2>1. SUFFICES ASSUME Bad # {}
                 PROVE  FALSE
    OBVIOUS
  <2>2. Bad \subseteq Nat
    OBVIOUS
  <2> HIDE DEF Bad
  <2>3. PICK n \in Bad : \A m \in Bad : n <= m
    BY <2>1, <2>2, NatHasLeast
  <2> USE DEF Bad
  <2>4. PICK tt : Begins(tt) /\ Cardinality(tt) = n /\ ~ \E f : Rec(f, tt)
    OBVIOUS
  <2>5. tt \subseteq ss /\ \A s \in tt : Earlier(ss, s) \subseteq tt
    BY <2>4 DEF Begins
  <2>6. tt # {}
    <3>1. SUFFICES ASSUME tt = {}
                   PROVE  FALSE
      OBVIOUS
    <3> DEFINE f == [s \in {} |-> s]
    <3>2. Rec(f, tt)
      BY <3>1 DEF Rec
    <3>3. QED
      BY <2>4, <3>2
  <2>7. PICK x : IsLast(tt, x)
    BY <2>5, <2>6, PartOrdered, EndsExist
  <2>8. x \in tt /\ x \in ss /\ \A r \in tt : r = x \/ Before(r, x)
    BY <2>5, <2>7 DEF IsLast
  <2>9. PICK uu : uu = tt \ {x}
    OBVIOUS
  <2>10. uu \subseteq ss /\ Cardinality(uu) = n - 1 /\ Cardinality(uu) \in Nat
    <3>1. IsFiniteSet(tt)
      BY <2>5, PartOrdered DEF Ordered
    <3>2. IsFiniteSet(uu) /\ Cardinality(uu) = n - 1
      BY <2>4, <2>8, <2>9, <3>1, FS_RemoveElement
    <3>3. QED
      BY <2>5, <2>9, <3>2, FS_CardinalityType
  <2>11. \A s \in tt : Earlier(ss, s) \subseteq uu
    <3>1. SUFFICES ASSUME NEW s \in tt, NEW r \in Earlier(ss, s)
                   PROVE  r \in uu
      OBVIOUS
    <3>2. r \in tt /\ r \in ss /\ s \in ss /\ Before(r, s)
      BY <2>5, <3>1 DEF Earlier
    <3>3. r # x
      BY <2>8, <3>1, <3>2, BeforeIs
    <3>4. QED
      BY <2>9, <3>2, <3>3
  <2>12. Begins(uu)
    BY <2>9, <2>10, <2>11 DEF Begins
  <2>13. n - 1 \notin Bad
    <3>1. ~ (n <= n - 1)
      BY <2>10
    <3> HIDE DEF Bad
    <3>2. QED
      BY <2>3, <3>1
  <2>14. PICK g : Rec(g, uu)
    BY <2>10, <2>12, <2>13
  <2>15. \A s \in uu : g[s] = TopAt(g, ss, gap, s)
    BY <2>14 DEF Rec
  <2> DEFINE f == [s \in tt |-> IF s = x THEN TopAt(g, ss, gap, x) ELSE g[s]]
  <2>16. \A s \in tt : Earlier(ss, s) # {} => LastOf(Earlier(ss, s)) \in uu
    <3>1. SUFFICES ASSUME NEW s \in tt, Earlier(ss, s) # {}
                   PROVE  LastOf(Earlier(ss, s)) \in uu
      OBVIOUS
    <3>2. Earlier(ss, s) \subseteq ss
      BY DEF Earlier
    <3>3. LastOf(Earlier(ss, s)) \in Earlier(ss, s)
      BY <3>1, <3>2, PartOrdered, EndsAre DEF IsLast
    <3>4. QED
      BY <2>11, <3>3
  <2>17. \A q \in uu : f[q] = g[q]
    BY <2>9
  <2>18. \A s \in tt : TopAt(f, ss, gap, s) = TopAt(g, ss, gap, s)
    <3> HIDE DEF f
    <3>1. QED
      BY <2>16, <2>17 DEF TopAt
  <2>19. \A s \in tt : f[s] = TopAt(g, ss, gap, s)
    BY <2>9, <2>15
  <2>20. Rec(f, tt)
    <3>1. f = [s \in tt |-> f[s]]
      OBVIOUS
    <3> HIDE DEF f
    <3>2. f = [s \in tt |-> TopAt(f, ss, gap, s)]
      BY <2>18, <2>19, <3>1
    <3>3. QED
      BY <3>2 DEF Rec
  <2>21. QED
    BY <2>4, <2>20
<1>2. Cardinality(ss) \in Nat
  BY FS_CardinalityType DEF Ordered
<1>3. Begins(ss)
  BY DEF Begins, Earlier
<1>4. \E f : Rec(f, ss)
  BY <1>1, <1>2, <1>3
<1>5. Tops(ss, gap) = CHOOSE f : Rec(f, ss)
  BY DEF Tops, Rec, TopAt
<1>6. Rec(Tops(ss, gap), ss)
  BY <1>4, <1>5
<1>7. PICK f : f = Tops(ss, gap)
  OBVIOUS
<1>8. f = [s \in ss |-> TopAt(f, ss, gap, s)]
  BY <1>6, <1>7 DEF Rec
<1>9. DOMAIN f = ss /\ \A s \in ss : f[s] = TopAt(f, ss, gap, s)
  BY <1>8
<1>10. QED
  BY <1>7, <1>9

LEMMA TopIs ==
  ASSUME NEW ss, Ordered(ss), NEW gap, NEW s \in ss
  PROVE  \/ /\ Tops(ss, gap)[s] = s
            /\ \A r \in ss : Follows(ss, r, s) => ~ InSession(Tops(ss, gap)[r], s.open, gap)
         \/ \E r \in ss : /\ Follows(ss, r, s) /\ InSession(Tops(ss, gap)[r], s.open, gap)
                          /\ Tops(ss, gap)[s] = MergeWith(Tops(ss, gap)[r], s)
<1>1. PICK top : top = Tops(ss, gap)
  OBVIOUS
<1>2. top[s] = TopAt(top, ss, gap, s)
  BY <1>1, TopsAre
<1>3. CASE Earlier(ss, s) # {} /\ InSession(top[LastOf(Earlier(ss, s))], s.open, gap)
  <2>1. PICK r : r = LastOf(Earlier(ss, s))
    OBVIOUS
  <2>2. Follows(ss, r, s)
    BY <1>3, <2>1 DEF Follows
  <2>3. r \in ss
    BY <2>2, FollowsIs
  <2>4. top[s] = MergeWith(top[r], s) /\ InSession(top[r], s.open, gap)
    BY <1>2, <1>3, <2>1 DEF TopAt
  <2>5. QED
    BY <1>1, <2>2, <2>3, <2>4
<1>4. CASE ~ (Earlier(ss, s) # {} /\ InSession(top[LastOf(Earlier(ss, s))], s.open, gap))
  <2>1. top[s] = s
    BY <1>2, <1>4 DEF TopAt
  <2>2. \A r \in ss : Follows(ss, r, s) => ~ InSession(top[r], s.open, gap)
    BY <1>4 DEF Follows
  <2>3. QED
    BY <1>1, <2>1, <2>2
<1>5. QED
  BY <1>3, <1>4

(* The top of the list when s is taken has the key and the start of some     *)
(* session u, and ends after u and after s; no session between stays.        *)
Stays(ss, gap, r) ==
  \A s \in ss : Follows(ss, r, s) => ~ InSession(Tops(ss, gap)[r], s.open, gap)
TopFrom(ss, gap, m, u, s) ==
  /\ m \in WindowRecords /\ m.key = u.key /\ m.open = u.open
  /\ u.close <= m.close /\ s.close <= m.close
  /\ u = s \/ Before(u, s)
  /\ \A r \in ss : Stays(ss, gap, r) /\ Before(r, s) => Before(r, u)

LEMMA TopStarts ==
  ASSUME NEW ss, Ordered(ss), NEW gap, NEW s \in ss
  PROVE  \E u \in ss : TopFrom(ss, gap, Tops(ss, gap)[s], u, s)
<1> DEFINE Bad == {t \in ss : ~ \E u \in ss : TopFrom(ss, gap, Tops(ss, gap)[t], u, t)}
<1>1. SUFFICES ASSUME Bad # {}
               PROVE  FALSE
  OBVIOUS
<1>2. Bad \subseteq ss
  OBVIOUS
<1>3. PICK t : IsFirst(Bad, t)
  <2> HIDE DEF Bad
  <2>1. QED
    BY <1>1, <1>2, PartOrdered, EndsExist
<1>4. t \in ss /\ t \in Bad /\ \A r \in Bad : r = t \/ Before(t, r)
  <2> HIDE DEF Bad
  <2>1. QED
    BY <1>2, <1>3 DEF IsFirst
<1>5. PICK m : m = Tops(ss, gap)[t]
  OBVIOUS
<1>6. t \in WindowRecords /\ t.open \in Int /\ t.close \in Int /\ t.key \in Int
  BY <1>4 DEF Ordered, WindowRecords
<1>7. CASE m = t
  <2>1. TopFrom(ss, gap, m, t, t)
    BY <1>6, <1>7 DEF TopFrom
  <2>2. QED
    BY <1>4, <1>5, <2>1
<1>8. CASE \E r \in ss : /\ Follows(ss, r, t) /\ InSession(Tops(ss, gap)[r], t.open, gap)
                         /\ m = MergeWith(Tops(ss, gap)[r], t)
  <2>1. PICK r \in ss : /\ Follows(ss, r, t) /\ InSession(Tops(ss, gap)[r], t.open, gap)
                        /\ m = MergeWith(Tops(ss, gap)[r], t)
    BY <1>8
  <2>2. PICK o : o = Tops(ss, gap)[r]
    OBVIOUS
  <2>3. Before(r, t) /\ \A q \in ss : Before(q, t) => q = r \/ Before(q, r)
    BY <1>4, <2>1, FollowsIs
  <2>4. r \notin Bad
    <3>1. r # t /\ ~ Before(t, r)
      BY <1>4, <2>3, BeforeIs
    <3> HIDE DEF Bad
    <3>2. QED
      BY <1>4, <3>1
  <2>5. PICK u \in ss : TopFrom(ss, gap, o, u, r)
    BY <2>2, <2>4
  <2>6. /\ o \in WindowRecords /\ o.key = u.key /\ o.open = u.open
        /\ u.close <= o.close /\ r.close <= o.close /\ (u = r \/ Before(u, r))
        /\ \A q \in ss : Stays(ss, gap, q) /\ Before(q, r) => Before(q, u)
    BY <2>5 DEF TopFrom
  <2>7. o.open \in Int /\ o.close \in Int /\ o.key \in Int /\ u.close \in Int
    BY <2>6 DEF Ordered, WindowRecords
  <2>8. Before(u, t)
    BY <1>4, <2>3, <2>6, BeforeIs
  <2>9. u.open <= t.open
    BY <1>4, <2>8, BeforeIs
  <2>10. m = [key |-> o.key, open |-> o.open, close |-> IF t.close > o.close THEN t.close ELSE o.close]
    <3>1. ~ (t.open < o.open)
      BY <1>6, <2>6, <2>7, <2>9
    <3>2. QED
      BY <2>1, <2>2, <3>1 DEF MergeWith
  <2>11. /\ m \in WindowRecords /\ m.key = u.key /\ m.open = u.open
         /\ u.close <= m.close /\ t.close <= m.close
    BY <1>6, <2>6, <2>7, <2>10 DEF WindowRecords
  <2>12. ~ Stays(ss, gap, r)
    BY <1>4, <2>1 DEF Stays
  <2>13. \A q \in ss : Stays(ss, gap, q) /\ Before(q, t) => Before(q, u)
    BY <2>3, <2>6, <2>12
  <2>14. TopFrom(ss, gap, m, u, t)
    BY <2>8, <2>11, <2>13 DEF TopFrom
  <2>15. QED
    BY <1>4, <1>5, <2>14
<1>9. QED
  BY <1>4, <1>5, <1>7, <1>8, TopIs

(* What a session holds is in one that stays. *)
LEMMA TopCovers ==
  ASSUME NEW ss, Ordered(ss), NEW gap, NEW s \in ss
  PROVE  \E r \in ss : /\ Stays(ss, gap, r)
                       /\ Tops(ss, gap)[r].open <= s.open /\ s.close <= Tops(ss, gap)[r].close
<1> DEFINE Covers(r) == Tops(ss, gap)[r].open <= s.open /\ s.close <= Tops(ss, gap)[r].close
           C == {r \in ss : Covers(r)}
<1>1. \A r \in ss : /\ Tops(ss, gap)[r].open \in Int /\ Tops(ss, gap)[r].close \in Int
                    /\ Tops(ss, gap)[r].open <= r.open /\ r.close <= Tops(ss, gap)[r].close
                    /\ r.open \in Int /\ r.close \in Int
  <2>1. SUFFICES ASSUME NEW r \in ss
                 PROVE  /\ Tops(ss, gap)[r].open \in Int /\ Tops(ss, gap)[r].close \in Int
                        /\ Tops(ss, gap)[r].open <= r.open /\ r.close <= Tops(ss, gap)[r].close
                        /\ r.open \in Int /\ r.close \in Int
    OBVIOUS
  <2>2. PICK u \in ss : TopFrom(ss, gap, Tops(ss, gap)[r], u, r)
    BY TopStarts
  <2>3. PICK m : m = Tops(ss, gap)[r]
    OBVIOUS
  <2>4. m \in WindowRecords /\ m.open = u.open /\ r.close <= m.close /\ (u = r \/ Before(u, r))
    BY <2>2, <2>3 DEF TopFrom
  <2>5. m.open \in Int /\ m.close \in Int /\ r.open \in Int /\ r.close \in Int
    BY <2>4 DEF Ordered, WindowRecords
  <2>6. m.open <= r.open
    BY <2>4, <2>5, BeforeIs
  <2>7. QED
    BY <2>3, <2>4, <2>5, <2>6
<1>2. C \subseteq ss /\ s \in C
  BY <1>1
<1>3. PICK r : IsLast(C, r)
  <2> HIDE DEF C
  <2>1. QED
    BY <1>2, PartOrdered, EndsExist
<1>4. r \in ss /\ Covers(r) /\ \A q \in C : q = r \/ Before(q, r)
  BY <1>3 DEF IsLast
<1>5. Stays(ss, gap, r)
  <2>1. SUFFICES ASSUME NEW t \in ss, Follows(ss, r, t), InSession(Tops(ss, gap)[r], t.open, gap)
                 PROVE  FALSE
    BY DEF Stays
  <2>2. Before(r, t) /\ r = LastOf(Earlier(ss, t))
    BY <2>1, FollowsIs
  <2>3. Tops(ss, gap)[t] = MergeWith(Tops(ss, gap)[r], t)
    <3>1. Tops(ss, gap)[t] = TopAt(Tops(ss, gap), ss, gap, t)
      BY TopsAre
    <3>2. QED
      BY <2>1, <2>2, <3>1 DEF TopAt, Follows
  <2>4. PICK m : m = Tops(ss, gap)[r]
    OBVIOUS
  <2>5. PICK o : o = Tops(ss, gap)[t]
    OBVIOUS
  <2>6. /\ m.open \in Int /\ m.close \in Int /\ t.open \in Int /\ t.close \in Int
        /\ s.open \in Int /\ s.close \in Int /\ m.open <= s.open /\ s.close <= m.close
    BY <1>1, <1>4, <2>4
  <2>7. o = [key |-> m.key, open |-> IF t.open < m.open THEN t.open ELSE m.open,
             close |-> IF t.close > m.close THEN t.close ELSE m.close]
    BY <2>3, <2>4, <2>5 DEF MergeWith
  <2>8. o.open <= s.open /\ s.close <= o.close
    BY <2>6, <2>7
  <2>9. t \in C
    BY <2>5, <2>8
  <2>10. t # r /\ ~ Before(t, r)
    BY <1>4, <2>2, BeforeIs
  <2>11. QED
    BY <1>4, <2>9, <2>10
<1>6. QED
  BY <1>4, <1>5

(* merge_sessions: the sessions are a gap apart, each has the key and the    *)
(* start of one that was merged into it, and what one held one still holds.  *)
LEMMA MergedAre ==
  ASSUME NEW ss, Ordered(ss), NEW gap \in Nat
  PROVE  /\ IsFiniteSet(MergeSessions(ss, gap)) /\ Apart(MergeSessions(ss, gap), gap)
         /\ \A m \in MergeSessions(ss, gap) : m \in WindowRecords /\ \E u \in ss :
              m.key = u.key /\ m.open = u.open /\ u.close <= m.close
         /\ \A m, o \in MergeSessions(ss, gap) : m.key = o.key => m = o
         /\ \A s \in ss : \E m \in MergeSessions(ss, gap) : m.open <= s.open /\ s.close <= m.close
<1> DEFINE S == {r \in ss : Stays(ss, gap, r)}
<1>1. PICK M : M = MergeSessions(ss, gap)
  OBVIOUS
<1>2. PICK top : top = Tops(ss, gap)
  OBVIOUS
<1>3. M = {top[r] : r \in S}
  BY <1>1, <1>2 DEF MergeSessions, Stays
<1>4. IsFiniteSet(M)
  <2>1. IsFiniteSet(S)
    BY FS_Subset DEF Ordered
  <2> HIDE DEF S
  <2> DEFINE g == [r \in S |-> top[r]]
  <2>2. g \in Surjection(S, M)
    BY <1>3 DEF Surjection
  <2>3. QED
    BY <2>1, <2>2, FS_Surjection
<1>5. \A m \in M : m \in WindowRecords /\ \E u \in ss :
        m.key = u.key /\ m.open = u.open /\ u.close <= m.close
  <2>1. SUFFICES ASSUME NEW m \in M
                 PROVE  m \in WindowRecords /\ \E u \in ss :
                          m.key = u.key /\ m.open = u.open /\ u.close <= m.close
    OBVIOUS
  <2>2. PICK r \in ss : m = top[r]
    BY <1>3
  <2>3. PICK u \in ss : TopFrom(ss, gap, m, u, r)
    BY <1>2, <2>2, TopStarts
  <2>4. QED
    BY <2>3 DEF TopFrom
(* Of two that stay, the later starts when the earlier has ended. *)
<1>6. ASSUME NEW r \in S, NEW s \in S, Before(r, s)
      PROVE  top[s].open >= CloseTime(top[r], gap) /\ top[r].key # top[s].key
  <2>1. PICK n \in ss : Follows(ss, r, n) /\ (n = s \/ Before(n, s))
    BY <1>6, NextIs
  <2>2. PICK m : m = top[r]
    OBVIOUS
  <2>3. PICK o : o = top[s]
    OBVIOUS
  <2>4. PICK u \in ss : TopFrom(ss, gap, m, u, r)
    BY <1>2, <2>2, TopStarts
  <2>5. PICK v \in ss : TopFrom(ss, gap, o, v, s)
    BY <1>2, <2>3, TopStarts
  <2>6. /\ m \in WindowRecords /\ m.key = u.key /\ m.open = u.open /\ (u = r \/ Before(u, r))
        /\ o \in WindowRecords /\ o.key = v.key /\ o.open = v.open /\ Before(r, v)
    BY <1>6, <2>4, <2>5 DEF TopFrom
  <2>7. Before(r, n) /\ (v = n \/ Before(n, v))
    BY <2>1, <2>6, FollowsIs
  <2>8. ~ InSession(m, n.open, gap)
    BY <1>2, <2>1, <2>2 DEF Stays
  <2>9. /\ m.open \in Int /\ m.close \in Int /\ n.open \in Int /\ o.open \in Int
        /\ u.open \in Int /\ r.open \in Int /\ v.open \in Int
    BY <2>6 DEF Ordered, WindowRecords
  <2>10. u.open <= r.open /\ r.open <= n.open /\ n.open <= v.open
    BY <2>6, <2>7, <2>9, BeforeIs
  <2>11. n.open >= m.close + gap
    BY <2>6, <2>8, <2>9, <2>10 DEF InSession, IsOpenAt, CloseTime
  <2>12. o.open >= CloseTime(m, gap)
    BY <2>6, <2>9, <2>10, <2>11 DEF CloseTime
  <2>13. u # v
    BY <2>6, BeforeIs
  <2>14. m.key # o.key
    BY <2>6, <2>13 DEF Ordered
  <2>15. QED
    BY <2>2, <2>3, <2>12, <2>14
<1>7. \A r, s \in S : r = s \/ Before(r, s) \/ Before(s, r)
  BY BeforeIs
<1>8. Apart(M, gap)
  <2>1. SUFFICES ASSUME NEW m \in M, NEW o \in M
                 PROVE  m = o \/ m.open >= CloseTime(o, gap) \/ o.open >= CloseTime(m, gap)
    BY DEF Apart
  <2>2. PICK r \in S : m = top[r]
    BY <1>3
  <2>3. PICK s \in S : o = top[s]
    BY <1>3
  <2> HIDE DEF S
  <2>4. QED
    BY <1>6, <1>7, <2>2, <2>3
<1>9. \A m, o \in M : m.key = o.key => m = o
  <2>1. SUFFICES ASSUME NEW m \in M, NEW o \in M, m.key = o.key
                 PROVE  m = o
    OBVIOUS
  <2>2. PICK r \in S : m = top[r]
    BY <1>3
  <2>3. PICK s \in S : o = top[s]
    BY <1>3
  <2> HIDE DEF S
  <2>4. QED
    BY <1>6, <1>7, <2>1, <2>2, <2>3
<1>10. \A s \in ss : \E m \in M : m.open <= s.open /\ s.close <= m.close
  <2>1. SUFFICES ASSUME NEW s \in ss
                 PROVE  \E m \in M : m.open <= s.open /\ s.close <= m.close
    OBVIOUS
  <2>2. PICK r \in ss : Stays(ss, gap, r) /\ top[r].open <= s.open /\ s.close <= top[r].close
    BY <1>2, TopCovers
  <2>3. top[r] \in M
    BY <1>3, <2>2
  <2>4. QED
    BY <2>2, <2>3
<1>11. QED
  BY <1>1, <1>4, <1>5, <1>8, <1>9, <1>10

(* insert(): the new item's session, which holds its time already.  The old  *)
(* sessions are in those of the same key.                                    *)
LEMMA AddedAre ==
  ASSUME NEW ss, NEW mk \in Nat, Listed(ss, mk), NEW gap \in Nat \ {0}, NEW t \in Int
  PROVE  LET ms == AddSession(ss, mk, t, gap)
             s == SessionFor(ms, t, gap)
         IN  /\ Listed(ms, mk + 1) /\ Apart(ms, gap)
             /\ s \in ms /\ s.open <= t /\ t <= s.close /\ TryInsert(s, t) = s
             /\ \A m \in ms : \/ m = s /\ m.key = mk + 1
                              \/ \E u \in ss : m.key = u.key /\ m.open = u.open /\ u.close <= m.close
<1> DEFINE new == NewSession(mk + 1, t)
           all == ss \cup {new}
<1>1. PICK ms : ms = AddSession(ss, mk, t, gap)
  OBVIOUS
<1>2. PICK s : s = SessionFor(ms, t, gap)
  OBVIOUS
<1>3. new \in WindowRecords /\ new.key = mk + 1 /\ new.open = t /\ new.close = t
  BY DEF NewSession, WindowRecords
<1>4. ms = MergeSessions(all, gap)
  BY <1>1 DEF AddSession
<1> HIDE DEF new
<1>5. /\ IsFiniteSet(ss) /\ ss \subseteq WindowRecords
      /\ \A w \in ss : w.open <= w.close /\ w.key \in 1 .. mk
      /\ \A v, w \in ss : v.key = w.key => v = w
  BY DEF Listed
<1>6. Ordered(all)
  <2>1. IsFiniteSet(all)
    BY <1>5, FS_AddElement
  <2>2. \A w \in ss : w.key # new.key
    BY <1>3, <1>5
  <2>3. QED
    BY <1>3, <1>5, <2>1, <2>2 DEF Ordered
<1>7. /\ IsFiniteSet(ms) /\ Apart(ms, gap) /\ \A m, o \in ms : m.key = o.key => m = o
      /\ \A m \in ms : m \in WindowRecords /\ \E u \in all :
           m.key = u.key /\ m.open = u.open /\ u.close <= m.close
      /\ \E m \in ms : m.open <= new.open /\ new.close <= m.close
  <2>1. new \in all
    OBVIOUS
  <2> HIDE DEF all
  <2>2. QED
    BY <1>4, <1>6, <2>1, MergedAre
<1>8. \A m \in ms : m.key \in Int /\ m.open \in Int /\ m.close \in Int
  BY <1>7 DEF WindowRecords
<1>9. Listed(ms, mk + 1)
  <2>1. SUFFICES ASSUME NEW m \in ms
                 PROVE  m.open <= m.close /\ m.key \in 1 .. mk + 1
    BY <1>7 DEF Listed
  <2>2. PICK u \in all : m.key = u.key /\ m.open = u.open /\ u.close <= m.close
    BY <1>7
  <2>3. u.open <= u.close /\ u.key \in 1 .. mk + 1 /\ u.close \in Int
    <3>1. CASE u = new
      BY <1>3, <3>1
    <3>2. CASE u \in ss
      BY <1>5, <3>2 DEF WindowRecords
    <3>3. QED
      BY <3>1, <3>2
  <2>4. QED
    BY <1>8, <2>2, <2>3
<1>10. PICK m \in ms : m.open <= t /\ t <= m.close
  BY <1>3, <1>7
(* No other session holds the time, so this is the one that is found. *)
<1>11. \A o \in ms : InSession(o, t, gap) => o = m
  <2>1. SUFFICES ASSUME NEW o \in ms, InSession(o, t, gap), o # m
                 PROVE  FALSE
    OBVIOUS
  <2>2. o.open <= t /\ t < o.close + gap
    BY <1>8, <2>1 DEF InSession, IsOpenAt, CloseTime
  <2>3. o.open >= m.close + gap \/ m.open >= o.close + gap
    BY <1>7, <2>1 DEF Apart, CloseTime
  <2>4. QED
    BY <1>8, <1>10, <2>2, <2>3
<1>12. InSession(m, t, gap)
  BY <1>8, <1>10 DEF InSession, IsOpenAt, CloseTime
<1>13. s = m
  <2>1. {o \in ms : InSession(o, t, gap)} = {m}
    BY <1>11, <1>12
  <2>2. s = FirstOf({m})
    BY <1>2, <2>1 DEF SessionFor
  <2>3. QED
    BY <2>2 DEF FirstOf
<1>14. TryInsert(s, t) = s
  <2>1. ~ (t > s.close)
    BY <1>8, <1>10, <1>13
  <2>2. s = [s EXCEPT !.close = s.close]
    BY <1>7, <1>13 DEF WindowRecords
  <2>3. QED
    BY <2>1, <2>2 DEF TryInsert
<1>15. ASSUME NEW o \in ms
       PROVE  \/ o = s /\ o.key = mk + 1
              \/ \E u \in ss : o.key = u.key /\ o.open = u.open /\ u.close <= o.close
  <2>1. PICK u \in all : o.key = u.key /\ o.open = u.open /\ u.close <= o.close
    BY <1>7
  <2>2. CASE u = new
    <3>1. o.open <= t /\ t <= o.close
      BY <1>3, <2>1, <2>2
    <3>2. InSession(o, t, gap)
      BY <1>8, <3>1 DEF InSession, IsOpenAt, CloseTime
    <3>3. QED
      BY <1>3, <1>11, <1>13, <2>1, <2>2, <3>2
  <2>3. CASE u \in ss
    BY <2>1, <2>3
  <2>4. QED
    BY <2>2, <2>3
<1>16. QED
  BY <1>1, <1>2, <1>7, <1>9, <1>10, <1>13, <1>14, <1>15

-----------------------------------------------------------------------------
(* The sessions of a key, by the actions. *)

(* Closing sessions leaves good ones, each with its logic. *)
LEMMA DrainSession ==
  ASSUME conf.kind = "session", conf' = conf,
         NEW wm, NEW ws, NEW ls, NEW mk \in Nat, NEW cl, DrainClosed(wm, ws, ls, mk, cl),
         Listed(ws, mk), Apart(ws, conf.gap),
         Keys(ws) \subseteq DOMAIN ls, DOMAIN ls \subseteq 1 .. mk,
         \A k \in DOMAIN ls : ls[k] \subseteq 1 .. done',
         \A w \in ws : \A i \in ls[w.key] : w.open <= arrived'[i] /\ arrived'[i] <= w.close,
         late' \subseteq (1 .. done') \X Int
  PROVE  SessionInv(Live)'
<1>1. /\ windows' = Left(ws, wm)
      /\ windows' = {} => maxKey' = 0 /\ logics' = NoLogics /\ nextAwake' = {}
      /\ windows' # {} => /\ maxKey' = mk /\ nextAwake' = NextAwake(windows')
                          /\ logics' = Restrict(ls, DOMAIN ls \ {w.key : w \in Passed(ws, wm)})
  BY DrainedIs
<1>2. /\ Live'.windows = windows' /\ Live'.maxKey = maxKey' /\ Live'.logics = logics'
      /\ Live'.nextAwake = nextAwake' /\ Live'.done = done' /\ Live'.late = late'
  BY DEF Live
<1>3. Left(ws, wm) \subseteq ws /\ Passed(ws, wm) \subseteq ws
      /\ \A v \in Left(ws, wm), w \in Passed(ws, wm) : v # w
  BY DEF Left, Passed
<1>4. /\ IsFiniteSet(ws) /\ ws \subseteq WindowRecords
      /\ \A w \in ws : w.open <= w.close /\ w.key \in 1 .. mk
      /\ \A v, w \in ws : v.key = w.key => v = w
  BY DEF Listed
<1>5. CASE windows' = {}
  <2>1. maxKey' = 0 /\ logics' = NoLogics /\ nextAwake' = {}
    BY <1>1, <1>5
  <2>2. DOMAIN logics' = {}
    BY <2>1 DEF NoLogics
  <2>3. Listed({}, 0) /\ Apart({}, conf.gap) /\ Keys({}) = {}
    BY FS_EmptySet DEF Listed, Apart, Keys
  <2>4. Listed(Live'.windows, Live'.maxKey) /\ Apart(Live'.windows, conf'.gap)
    BY <1>2, <1>5, <2>1, <2>3
  <2>5. /\ Keys(Live'.windows) \subseteq DOMAIN Live'.logics /\ DOMAIN Live'.logics \subseteq 1 .. Live'.maxKey
        /\ \A k \in DOMAIN Live'.logics : Live'.logics[k] \subseteq 1 .. Live'.done
        /\ \A w \in Live'.windows : \A i \in Live'.logics[w.key] :
             w.open <= arrived'[i] /\ arrived'[i] <= w.close
    BY <1>2, <1>5, <2>2, <2>3
  <2>6. QED
    BY <1>2, <1>5, <2>1, <2>4, <2>5 DEF SessionInv, Keys, Listed, Apart
<1>6. CASE windows' # {}
  <2>1. /\ maxKey' = mk /\ nextAwake' = NextAwake(windows')
        /\ logics' = Restrict(ls, DOMAIN ls \ {w.key : w \in Passed(ws, wm)})
    BY <1>1, <1>6
  <2>2. nextAwake' = {SessionNextClose(windows', conf.gap)}
    BY <2>1 DEF NextAwake, NextClose
  <2>3. /\ DOMAIN logics' = DOMAIN ls \ Keys(Passed(ws, wm))
        /\ \A k \in DOMAIN logics' : logics'[k] = ls[k]
    BY <2>1 DEF Restrict, Keys
  <2>4. PICK rs : rs = windows'
    OBVIOUS
  <2>5. rs \subseteq ws /\ rs = Left(ws, wm)
    BY <1>1, <1>3, <2>4
  <2>6. Listed(rs, mk) /\ Apart(rs, conf.gap)
    <3>1. IsFiniteSet(rs)
      BY <1>4, <2>5, FS_Subset
    <3>2. Apart(rs, conf.gap)
      BY <2>5 DEF Apart
    <3>3. QED
      BY <1>4, <2>5, <3>1, <3>2 DEF Listed
  <2>7. \A w \in rs : w.key \in DOMAIN logics'
    <3>1. SUFFICES ASSUME NEW w \in rs
                   PROVE  w.key \in DOMAIN logics'
      OBVIOUS
    <3>2. w.key \in Keys(ws)
      BY <2>5 DEF Keys
    <3>3. w.key \notin Keys(Passed(ws, wm))
      BY <1>3, <1>4, <2>5 DEF Keys
    <3>4. QED
      BY <2>3, <3>2, <3>3
  <2>8. DOMAIN logics' \subseteq 1 .. mk /\ \A k \in DOMAIN logics' : logics'[k] \subseteq 1 .. done'
    BY <2>3
  <2>9. \A w \in rs : \A i \in logics'[w.key] : w.open <= arrived'[i] /\ arrived'[i] <= w.close
    BY <2>3, <2>5, <2>7
  <2>10. Keys(rs) \subseteq DOMAIN logics'
    BY <2>7 DEF Keys
  <2>11. /\ Live'.maxKey \in Nat /\ Listed(Live'.windows, Live'.maxKey)
         /\ Apart(Live'.windows, conf'.gap)
    BY <1>2, <2>1, <2>4, <2>6
  <2>12. /\ Keys(Live'.windows) \subseteq DOMAIN Live'.logics /\ DOMAIN Live'.logics \subseteq 1 .. Live'.maxKey
         /\ \A k \in DOMAIN Live'.logics : Live'.logics[k] \subseteq 1 .. Live'.done
         /\ \A w \in Live'.windows : \A i \in Live'.logics[w.key] :
              w.open <= arrived'[i] /\ arrived'[i] <= w.close
    BY <1>2, <2>1, <2>4, <2>8, <2>9, <2>10
  <2>13. Live'.nextAwake = IF Live'.windows = {} THEN {} ELSE {SessionNextClose(Live'.windows, conf'.gap)}
    BY <1>2, <1>6, <2>2
  <2>14. QED
    BY <1>2, <2>11, <2>12, <2>13 DEF SessionInv, Keys, Listed, Apart
<1>7. QED
  BY <1>5, <1>6

LEMMA FoldIs ==
  ASSUME NEW keys, NEW i
  PROVE  /\ DOMAIN Fold(keys, i) = (DOMAIN logics) \cup keys
         /\ \A k \in (DOMAIN logics) \cup keys : Fold(keys, i)[k] =
              (IF k \in DOMAIN logics THEN logics[k] ELSE {}) \cup (IF k \in keys THEN {i} ELSE {})
BY DEF Fold

(* An item that is not late is in the one session that holds its time. *)
LEMMA ItemSession ==
  ASSUME ScalarsInv, conf.kind = "session", SessionInv(Live), NEW t \in ItemTimes, OnItem(t)
  PROVE  SessionInv(Live)' /\ \A i \in 1 .. done : arrived'[i] = arrived[i]
<1>1. conf \in Configs /\ now \in Nat /\ done \in 0 .. Len(arrived) /\ arrived \in Seq(Int)
  BY DEF ScalarsInv
<1>2. conf.gap \in Nat \ {0} /\ MaxUtc \in Nat /\ \A u \in Times : u \in Int
  BY <1>1, ConfigIs
<1>3. t \in Int
  BY <1>1, <1>2 DEF ItemTimes
<1>4. PICK wm : wm = Watermark({t})
  OBVIOUS
<1>5. PICK ins : ins = Insert(wm, t)
  OBVIOUS
<1>6. /\ done' = done + 1 /\ conf' = conf
      /\ late' = late \cup {<<done + 1, k>> : k \in ins.late}
      /\ arrived' = (IF done = Len(arrived) THEN Append(arrived, t)
                                            ELSE [arrived EXCEPT ![done + 1] = t])
      /\ \E cl : DrainClosed(wm, ins.windows, Fold(ins.ok, done + 1), ins.maxKey, cl)
  BY <1>4, <1>5 DEF OnItem
<1>7. (\A i \in 1 .. done : arrived'[i] = arrived[i]) /\ arrived'[done + 1] = t
  <2>1. CASE done = Len(arrived)
    BY <1>1, <1>3, <1>6, <2>1
  <2>2. CASE done # Len(arrived)
    BY <1>1, <1>3, <1>6, <2>2
  <2>3. QED
    BY <2>1, <2>2
<1>8. /\ maxKey \in Nat /\ Listed(windows, maxKey) /\ Apart(windows, conf.gap)
      /\ Keys(windows) \subseteq DOMAIN logics /\ DOMAIN logics \subseteq 1 .. maxKey
      /\ \A k \in DOMAIN logics : logics[k] \subseteq 1 .. done
      /\ \A w \in windows : \A i \in logics[w.key] : w.open <= arrived[i] /\ arrived[i] <= w.close
      /\ late \subseteq (1 .. done) \X Int
  BY DEF SessionInv, Live
<1>9. PICK cl : DrainClosed(wm, ins.windows, Fold(ins.ok, done + 1), ins.maxKey, cl)
  BY <1>6
<1>10. PICK ls : ls = Fold(ins.ok, done + 1)
  OBVIOUS
<1>11. /\ DOMAIN ls = (DOMAIN logics) \cup ins.ok
       /\ \A k \in DOMAIN ls : ls[k] =
            (IF k \in DOMAIN logics THEN logics[k] ELSE {}) \cup (IF k \in ins.ok THEN {done + 1} ELSE {})
  <2>1. PICK ok : ok = ins.ok
    OBVIOUS
  <2>2. PICK i : i = done + 1
    OBVIOUS
  <2>3. ls = Fold(ok, i)
    BY <1>10, <2>1, <2>2
  <2>4. /\ DOMAIN ls = (DOMAIN logics) \cup ok
        /\ \A k \in (DOMAIN logics) \cup ok : ls[k] =
             (IF k \in DOMAIN logics THEN logics[k] ELSE {}) \cup (IF k \in ok THEN {i} ELSE {})
    BY <2>3, FoldIs
  <2>5. QED
    BY <2>1, <2>2, <2>4
<1>12. /\ done + 1 \in 1 .. done' /\ done' \in Nat
       /\ \A i \in 1 .. done : i \in 1 .. done'
  BY <1>1, <1>6
<1>13. \A k \in DOMAIN ls : ls[k] \subseteq 1 .. done'
  BY <1>8, <1>11, <1>12
<1>14. ASSUME ins.late \subseteq Int
       PROVE  late' \subseteq (1 .. done') \X Int
  BY <1>6, <1>8, <1>12, <1>14
<1>15. CASE SessionLate(wm, t)
  <2>1. ins = [windows |-> windows, maxKey |-> maxKey, ok |-> {}, late |-> {maxKey}]
    BY <1>5, <1>15 DEF Insert
  <2>2. /\ ins.windows = windows /\ ins.maxKey = maxKey /\ ins.ok = {} /\ ins.late = {maxKey}
    BY <2>1
  <2>3. DOMAIN ls = DOMAIN logics /\ \A k \in DOMAIN ls : ls[k] = logics[k]
    BY <1>11, <2>2
  <2>4. \A w \in windows : w.key \in DOMAIN logics
    BY <1>8 DEF Keys
  <2>5. \A w \in windows : \A i \in ls[w.key] : w.open <= arrived'[i] /\ arrived'[i] <= w.close
    BY <1>7, <1>8, <2>3, <2>4
  <2>6. late' \subseteq (1 .. done') \X Int
    BY <1>8, <1>14, <2>2
  <2>7. DrainClosed(wm, windows, ls, maxKey, cl)
    BY <1>9, <1>10, <2>2
  <2>8. SessionInv(Live)'
    BY <1>6, <1>8, <1>13, <2>3, <2>5, <2>6, <2>7, DrainSession
  <2>9. QED
    BY <1>7, <2>8
<1>16. CASE ~ SessionLate(wm, t)
  <2>1. PICK ss : ss = AddSession(windows, maxKey, t, conf.gap)
    OBVIOUS
  <2>2. PICK s : s = SessionFor(ss, t, conf.gap)
    OBVIOUS
  <2>3. /\ Listed(ss, maxKey + 1) /\ Apart(ss, conf.gap)
        /\ s \in ss /\ s.open <= t /\ t <= s.close /\ TryInsert(s, t) = s
        /\ \A m \in ss : \/ m = s /\ m.key = maxKey + 1
                         \/ \E u \in windows : m.key = u.key /\ m.open = u.open /\ u.close <= m.close
    <3>1. PICK gap \in Nat \ {0} : gap = conf.gap
      BY <1>2
    <3>2. PICK mk \in Nat : mk = maxKey
      BY <1>8
    <3>3. PICK ws : ws = windows
      OBVIOUS
    <3>4. Listed(ws, mk) /\ ss = AddSession(ws, mk, t, gap) /\ s = SessionFor(ss, t, gap)
      BY <1>8, <2>1, <2>2, <3>1, <3>2, <3>3
    <3>5. /\ Listed(ss, mk + 1) /\ Apart(ss, gap)
          /\ s \in ss /\ s.open <= t /\ t <= s.close /\ TryInsert(s, t) = s
          /\ \A m \in ss : \/ m = s /\ m.key = mk + 1
                           \/ \E u \in ws : m.key = u.key /\ m.open = u.open /\ u.close <= m.close
      BY <1>3, <3>4, AddedAre
    <3>6. QED
      BY <3>1, <3>2, <3>3, <3>5
  <2>4. ins = [windows |-> (ss \ {s}) \cup {TryInsert(s, t)}, maxKey |-> maxKey + 1,
               ok |-> {s.key}, late |-> {}]
    BY <1>5, <1>16, <2>1, <2>2 DEF Insert
  <2>5. /\ ins.windows = ss /\ ins.maxKey = maxKey + 1 /\ ins.ok = {s.key} /\ ins.late = {}
    BY <2>3, <2>4
  <2>6. /\ ss \subseteq WindowRecords
        /\ \A w \in ss : w.open <= w.close /\ w.key \in 1 .. maxKey + 1
        /\ \A v, w \in ss : v.key = w.key => v = w
    BY <2>3 DEF Listed
  <2>7. Keys(ss) \subseteq DOMAIN ls /\ DOMAIN ls \subseteq 1 .. maxKey + 1
    <3>1. ASSUME NEW m \in ss
          PROVE  m.key \in DOMAIN ls
      <4>1. CASE m = s
        BY <1>11, <2>5, <4>1
      <4>2. CASE \E u \in windows : m.key = u.key
        BY <1>8, <1>11, <4>2 DEF Keys
      <4>3. QED
        BY <2>3, <4>1, <4>2
    <3>2. s.key \in 1 .. maxKey + 1 /\ \A k \in 1 .. maxKey : k \in 1 .. maxKey + 1
      BY <1>8, <2>3, <2>6
    <3>3. QED
      BY <1>8, <1>11, <2>5, <3>1, <3>2 DEF Keys
  <2>8. ASSUME NEW m \in ss, NEW i \in ls[m.key]
        PROVE  m.open <= arrived'[i] /\ arrived'[i] <= m.close
    <3>1. m.key \in DOMAIN ls
      BY <2>7 DEF Keys
    <3>2. \/ m.key \in DOMAIN logics /\ i \in logics[m.key]
          \/ m.key = s.key /\ i = done + 1
      BY <1>11, <2>5, <2>8, <3>1
    <3>3. CASE m.key \in DOMAIN logics /\ i \in logics[m.key]
      <4>1. m.key # maxKey + 1
        BY <1>8, <3>3
      <4>2. PICK u \in windows : m.key = u.key /\ m.open = u.open /\ u.close <= m.close
        BY <2>3, <4>1
      <4>3. u.open <= arrived[i] /\ arrived[i] <= u.close /\ i \in 1 .. done
        BY <1>8, <3>3, <4>2
      <4>4. arrived'[i] = arrived[i] /\ arrived[i] \in Int
        BY <1>1, <1>7, <4>3
      <4>5. u.close \in Int /\ m.close \in Int
        BY <1>8, <2>6 DEF Listed, WindowRecords
      <4>6. QED
        BY <4>2, <4>3, <4>4, <4>5
    <3>4. CASE m.key = s.key /\ i = done + 1
      BY <1>7, <2>3, <2>6, <3>4
    <3>5. QED
      BY <3>2, <3>3, <3>4
  <2>9. late' \subseteq (1 .. done') \X Int
    BY <1>14, <2>5
  <2>10. DrainClosed(wm, ss, ls, maxKey + 1, cl) /\ maxKey + 1 \in Nat
    BY <1>8, <1>9, <1>10, <2>5
  <2>11. PICK mk \in Nat : mk = maxKey + 1
    BY <2>10
  <2>12. SessionInv(Live)'
    BY <1>6, <1>13, <2>3, <2>7, <2>8, <2>9, <2>10, <2>11, DrainSession
  <2>13. QED
    BY <1>7, <2>12
<1>17. QED
  BY <1>15, <1>16

(* An awakening and EOF change nothing but that sessions close. *)
LEMMA ClosingSession ==
  ASSUME conf.kind = "session", SessionInv(Live), NEW wm, NEW cl,
         DrainClosed(wm, windows, logics, maxKey, cl), UNCHANGED <<conf, arrived, done, late>>
  PROVE  SessionInv(Live)'
<1>1. /\ maxKey \in Nat /\ Listed(windows, maxKey) /\ Apart(windows, conf.gap)
      /\ Keys(windows) \subseteq DOMAIN logics /\ DOMAIN logics \subseteq 1 .. maxKey
      /\ \A k \in DOMAIN logics : logics[k] \subseteq 1 .. done
      /\ \A w \in windows : \A i \in logics[w.key] : w.open <= arrived[i] /\ arrived[i] <= w.close
      /\ late \subseteq (1 .. done) \X Int
  BY DEF SessionInv, Live
<1>2. PICK ws : ws = windows
  OBVIOUS
<1>3. PICK ls : ls = logics
  OBVIOUS
<1>4. PICK mk : mk = maxKey
  OBVIOUS
<1>5. /\ DrainClosed(wm, ws, ls, mk, cl) /\ mk \in Nat /\ Listed(ws, mk) /\ Apart(ws, conf.gap)
      /\ Keys(ws) \subseteq DOMAIN ls /\ DOMAIN ls \subseteq 1 .. mk
      /\ \A k \in DOMAIN ls : ls[k] \subseteq 1 .. done'
      /\ \A w \in ws : \A i \in ls[w.key] : w.open <= arrived'[i] /\ arrived'[i] <= w.close
      /\ late' \subseteq (1 .. done') \X Int /\ conf' = conf
  BY <1>1, <1>2, <1>3, <1>4
<1>6. QED
  BY <1>5, DrainSession

(* What is true of a record stays true while its items keep their times. *)
LEMMA SessionStays ==
  ASSUME NEW s, SessionInv(s), UNCHANGED conf, \A i \in 1 .. s.done : arrived'[i] = arrived[i]
  PROVE  /\ s.maxKey \in Nat /\ Listed(s.windows, s.maxKey) /\ Apart(s.windows, conf'.gap)
         /\ Keys(s.windows) \subseteq DOMAIN s.logics /\ DOMAIN s.logics \subseteq 1 .. s.maxKey
         /\ \A k \in DOMAIN s.logics : s.logics[k] \subseteq 1 .. s.done
         /\ \A w \in s.windows : \A i \in s.logics[w.key] :
              w.open <= arrived'[i] /\ arrived'[i] <= w.close
         /\ s.nextAwake = IF s.windows = {} THEN {} ELSE {SessionNextClose(s.windows, conf'.gap)}
         /\ s.late \subseteq (1 .. s.done) \X Int
<1>1. \A w \in s.windows : w.key \in DOMAIN s.logics
  BY DEF SessionInv, Keys
<1>2. \A w \in s.windows : \A i \in s.logics[w.key] : arrived'[i] = arrived[i]
  BY <1>1 DEF SessionInv
<1>3. QED
  BY <1>2 DEF SessionInv

LEMMA SavedSession ==
  ASSUME ScalarsInv, SessionInv(saved), UNCHANGED <<conf, saved>>,
         \A i \in 1 .. done : arrived'[i] = arrived[i]
  PROVE  SessionInv(saved)'
<1>1. saved.done \in 0 .. done /\ done \in Nat
  BY DEF ScalarsInv
<1>2. \A i \in 1 .. saved.done : i \in 1 .. done
  BY <1>1
<1>3. PICK s : s = saved
  OBVIOUS
<1>4. saved' = s /\ SessionInv(s) /\ \A i \in 1 .. s.done : arrived'[i] = arrived[i]
  BY <1>2, <1>3
<1>5. QED
  BY <1>4, SessionStays DEF SessionInv, Keys, Listed, Apart

LEMMA LiveSession ==
  ASSUME SessionInv(Live), UNCHANGED <<conf, arrived, Live>>
  PROVE  SessionInv(Live)'
<1>1. PICK s : s = Live
  OBVIOUS
<1>2. Live' = s /\ SessionInv(s) /\ \A i \in 1 .. s.done : arrived'[i] = arrived[i]
  BY <1>1
<1>3. QED
  BY <1>2, SessionStays DEF SessionInv, Keys, Listed, Apart

LEMMA SnapshotSession ==
  ASSUME SessionInv(Live), saved' = Live, UNCHANGED <<conf, arrived>>
  PROVE  SessionInv(saved)'
<1>1. PICK s : s = Live
  OBVIOUS
<1>2. saved' = s /\ SessionInv(s) /\ \A i \in 1 .. s.done : arrived'[i] = arrived[i]
  BY <1>1
<1>3. QED
  BY <1>2, SessionStays DEF SessionInv, Keys, Listed, Apart

LEMMA CrashSession ==
  ASSUME SessionInv(saved), Crash
  PROVE  SessionInv(Live)'
<1>1. PICK s : s = saved
  OBVIOUS
<1>2. /\ Live'.windows = s.windows /\ Live'.logics = s.logics /\ Live'.maxKey = s.maxKey
      /\ Live'.nextAwake = s.nextAwake /\ Live'.done = s.done /\ Live'.late = s.late
      /\ conf' = conf /\ arrived' = arrived
  BY <1>1 DEF Crash, Live
<1>3. SessionInv(s) /\ \A i \in 1 .. s.done : arrived'[i] = arrived[i]
  BY <1>1, <1>2
<1>4. QED
  BY <1>2, <1>3, SessionStays DEF SessionInv, Keys, Listed, Apart

LEMMA InitSession == Init => WSessionInv
<1> SUFFICES ASSUME Init
             PROVE  SessionInv(Live) /\ SessionInv(saved)
  BY DEF WSessionInv
<1>1. /\ saved = [clock |-> {}, windows |-> {}, maxKey |-> 0, logics |-> NoLogics,
                  nextAwake |-> {}, done |-> 0, late |-> {}, closed |-> <<>>]
      /\ Live = saved
  BY DEF Init, Live
<1>2. Listed({}, 0) /\ Apart({}, conf.gap) /\ Keys({}) = {}
  BY FS_EmptySet DEF Listed, Apart, Keys
<1>3. DOMAIN NoLogics = {}
  BY DEF NoLogics
<1>4. SessionInv(saved)
  BY <1>1, <1>2, <1>3 DEF SessionInv
<1>5. QED
  BY <1>1, <1>4

LEMMA NextSession ==
  ASSUME WClockInv, WSessionInv, [Next]_vars
  PROVE  WSessionInv'
<1>1. ScalarsInv /\ conf' = conf
  BY NextScalars DEF WClockInv
<1> SUFFICES ASSUME conf.kind = "session"
             PROVE  SessionInv(Live)' /\ SessionInv(saved)'
  BY <1>1 DEF WSessionInv
<1>2. SessionInv(Live) /\ SessionInv(saved)
  BY DEF WSessionInv
<1>3. ASSUME NEW t \in ItemTimes, OnItem(t)
      PROVE  SessionInv(Live)' /\ SessionInv(saved)'
  <2>1. SessionInv(Live)' /\ \A i \in 1 .. done : arrived'[i] = arrived[i]
    BY <1>1, <1>2, <1>3, ItemSession
  <2>2. saved' = saved
    BY <1>3 DEF OnItem
  <2>3. QED
    BY <1>1, <1>2, <2>1, <2>2, SavedSession
<1>4. ASSUME UNCHANGED <<arrived, saved, Live>>
      PROVE  SessionInv(Live)' /\ SessionInv(saved)'
  BY <1>1, <1>2, <1>4, SavedSession, LiveSession
<1>5. ASSUME NEW wm, NEW cl, DrainClosed(wm, windows, logics, maxKey, cl),
             UNCHANGED <<arrived, done, late, saved>>
      PROVE  SessionInv(Live)' /\ SessionInv(saved)'
  BY <1>1, <1>2, <1>5, SavedSession, ClosingSession
<1>6. CASE FindDue
  BY <1>4, <1>6 DEF FindDue, input, logic, outcome, Live
<1>7. CASE OnAwake
  <2>1. UNCHANGED <<arrived, done, late, saved>>
    BY <1>7 DEF OnAwake, input
  <2>2. \E wm, cl : DrainClosed(wm, windows, logics, maxKey, cl)
    BY <1>7 DEF OnAwake
  <2>3. QED
    BY <1>5, <2>1, <2>2
<1>8. CASE OnEof
  <2>1. UNCHANGED <<arrived, done, late, saved>>
    BY <1>8 DEF OnEof, input
  <2>2. \E wm, cl : DrainClosed(wm, windows, logics, maxKey, cl)
    BY <1>8 DEF OnEof
  <2>3. QED
    BY <1>5, <2>1, <2>2
<1>9. CASE Snapshot
  <2>1. saved' = Live /\ Live' = Live /\ arrived' = arrived
    BY <1>9, SnapshotIs
  <2>2. QED
    BY <1>1, <1>2, <2>1, LiveSession, SnapshotSession
<1>10. CASE Crash
  <2>1. saved' = saved /\ arrived' = arrived
    BY <1>10 DEF Crash
  <2>2. QED
    BY <1>1, <1>2, <1>10, <2>1, SavedSession, CrashSession
<1>11. CASE Tick
  BY <1>4, <1>11 DEF Tick, input, logic, outcome, Live
<1>12. CASE UNCHANGED vars
  BY <1>4, <1>12 DEF vars, input, logic, outcome, Live
<1>13. QED
  BY <1>3, <1>6, <1>7, <1>8, <1>9, <1>10, <1>11, <1>12 DEF Next, Stopped

(* The invariant of sessions, of the live ones and the saved ones. *)
THEOREM WSessionInvHolds == Spec => []WSessionInv
<1>1. WClockInv /\ WSessionInv /\ [Next]_vars => WSessionInv'
  BY NextSession
<1>2. QED
  BY WClockInvHolds, InitSession, <1>1, PTL DEF Spec

(* Open sessions are a gap apart, in whatever order their items came and     *)
(* however often they were merged or loaded; what a session holds lies in it.*)
THEOREM SessionsApartHolds == Spec => []SessionsApart
<1>1. WSessionInv => SessionsApart
  BY DEF WSessionInv, SessionInv, Live, SessionsApart, Apart
<1>2. QED
  BY WSessionInvHolds, <1>1, PTL

-----------------------------------------------------------------------------
(* Items that are not out of order by more than the waiting duration. *)

(* What was overtaken remains so while the items keep their times. *)
SeenRest(s) ==
  /\ ~ ended' => \A c \in s.clock :
       \E j \in 1 .. s.done : c.event = arrived'[j] /\ c.system = seen'[j]
  /\ \A p \in s.late : p[1] \in 1 .. s.done /\ Overtaken(p[1], LateTime(p[1], p[2]))'

LEMMA SeenStays ==
  ASSUME NEW s, SeenInv(s), UNCHANGED conf, ended => ended', s.done \in Nat,
         \A i \in 1 .. s.done : arrived'[i] = arrived[i] /\ seen'[i] = seen[i]
  PROVE  conf'.clock = "event" => SeenRest(s)
<1> SUFFICES ASSUME conf.clock = "event"
             PROVE  SeenRest(s)
  OBVIOUS
<1>1. ~ ended' => \A c \in s.clock :
        \E j \in 1 .. s.done : c.event = arrived'[j] /\ c.system = seen'[j]
  BY DEF SeenInv
<1>2. ASSUME NEW p \in s.late
      PROVE  p[1] \in 1 .. s.done /\ Overtaken(p[1], LateTime(p[1], p[2]))'
  <2>1. p[1] \in 1 .. s.done /\ Overtaken(p[1], LateTime(p[1], p[2]))
    BY DEF SeenInv
  <2>2. PICK j \in 1 .. p[1] :
          LateTime(p[1], p[2]) + conf.wait < arrived[j] + (seen[p[1]] - seen[j])
    BY <2>1 DEF Overtaken
  <2>3. j \in 1 .. s.done
    BY <2>1
  <2>4. LateTime(p[1], p[2])' = LateTime(p[1], p[2])
    BY <2>1 DEF LateTime
  <2>5. QED
    BY <2>1, <2>2, <2>3, <2>4 DEF Overtaken
<1>3. QED
  BY <1>1, <1>2 DEF SeenRest

(* An item leaves those before it, and when they were seen, as they are. *)
LEMMA ItemSeen ==
  ASSUME ScalarsInv, seen \in [1 .. done -> Nat], NEW t \in ItemTimes, OnItem(t)
  PROVE  /\ t \in Int /\ done \in Nat /\ done' = done + 1
         /\ \A i \in 1 .. done : arrived'[i] = arrived[i] /\ seen'[i] = seen[i]
         /\ arrived'[done + 1] = t /\ seen'[done + 1] = now /\ seen' \in [1 .. done' -> Nat]
         /\ conf' = conf /\ ended' = ended /\ saved' = saved /\ ~ ended
<1>1. conf \in Configs /\ now \in Nat /\ done \in 0 .. Len(arrived) /\ arrived \in Seq(Int)
  BY DEF ScalarsInv
<1>2. t \in Int
  BY <1>1, ConfigIs DEF ItemTimes
<1>3. /\ done' = done + 1 /\ conf' = conf /\ ended' = ended /\ saved' = saved /\ ~ ended
      /\ arrived' = (IF done = Len(arrived) THEN Append(arrived, t)
                                            ELSE [arrived EXCEPT ![done + 1] = t])
      /\ seen' = Append(seen, now)
  BY DEF OnItem
<1>4. (\A i \in 1 .. done : arrived'[i] = arrived[i]) /\ arrived'[done + 1] = t
  <2>1. CASE done = Len(arrived)
    BY <1>1, <1>2, <1>3, <2>1
  <2>2. CASE done # Len(arrived)
    BY <1>1, <1>2, <1>3, <2>2
  <2>3. QED
    BY <2>1, <2>2
<1>5. PICK r : r = seen'
  OBVIOUS
<1>6. done \in Nat /\ r = Append(seen, now)
  BY <1>1, <1>3, <1>5
<1>7. r \in [1 .. done + 1 -> Nat] /\ r[done + 1] = now /\ \A j \in 1 .. done : r[j] = seen[j]
  <2>1. seen \in Seq(Nat) /\ Len(seen) = done
    BY <1>6
  <2>2. /\ r \in Seq(Nat) /\ Len(r) = done + 1 /\ r[done + 1] = now
        /\ \A j \in 1 .. done : r[j] = seen[j]
    BY <1>1, <1>6, <2>1
  <2>3. r \in [1 .. done + 1 -> Nat]
    BY <2>2, LenProperties
  <2>4. QED
    BY <2>2, <2>3
<1>8. QED
  BY <1>2, <1>3, <1>4, <1>5, <1>6, <1>7

(* The windows an item is late for are those that have ended before the     *)
(* watermark, and a session takes no item from before it.                   *)
LEMMA ItemLate ==
  ASSUME conf \in Configs, NEW t \in Int, NEW wm,
         conf.kind = "sliding" => Sliding(Intersects(conf, t)),
         NEW k \in Insert(wm, t).late
  PROVE  IF conf.kind = "sliding" THEN Window(conf, k).close < wm ELSE t < wm
<1>1. CASE conf.kind = "sliding"
  <2>1. k \in {w.key : w \in SlidingLate(conf, wm, t)}
    BY <1>1 DEF Insert
  <2>2. PICK w \in Intersects(conf, t) : k = w.key /\ w.close < wm
    BY <2>1 DEF SlidingLate, SlidingIsLate
  <2>3. w = Window(conf, w.key)
    BY <1>1 DEF Sliding
  <2>4. QED
    BY <1>1, <2>2, <2>3
<1>2. CASE conf.kind # "sliding"
  <2>1. conf.kind = "session"
    BY <1>2, ConfigIs
  <2>2. CASE SessionLate(wm, t)
    BY <1>2, <2>2 DEF SessionLate
  <2>3. CASE ~ SessionLate(wm, t)
    BY <2>1, <2>3 DEF Insert
  <2>4. QED
    BY <2>2, <2>3
<1>3. QED
  BY <1>1, <1>2

(* The watermark an item is held against is that of an item the key has had, *)
(* or of the item itself: what is late has been overtaken by it.             *)
LEMMA ItemOvertaken ==
  ASSUME WClockInv, SeenInv(Live), conf.clock = "event",
         NEW t \in ItemTimes, OnItem(t), NEW n, n = done + 1
  PROVE  /\ \A c \in NewClock({t}) :
              \E j \in 1 .. done + 1 : c.event = arrived'[j] /\ c.system = seen'[j]
         /\ \A k \in Insert(Watermark({t}), t).late : Overtaken(n, LateTime(n, k))'
<1>1. ScalarsInv /\ ClockInv(Live)
  BY DEF WClockInv
<1>2. seen \in [1 .. done -> Nat]
  BY DEF SeenInv
<1>3. /\ t \in Int /\ done \in Nat /\ done' = done + 1
      /\ \A i \in 1 .. done : arrived'[i] = arrived[i] /\ seen'[i] = seen[i]
      /\ arrived'[done + 1] = t /\ seen'[done + 1] = now /\ seen' \in [1 .. done' -> Nat]
      /\ conf' = conf /\ ~ ended
  BY <1>1, <1>2, ItemSeen
<1>4. conf \in Configs /\ now \in Nat
  BY <1>1 DEF ScalarsInv
<1>5. MaxUtc \in Nat /\ conf.wait \in Nat /\ t < MaxUtc /\ t + conf.length < MaxUtc
  BY <1>4, ConfigIs DEF ItemTimes
<1>6. PICK m \in SeenTimes({t}) : NewClock({t}) = {m} /\ EventWatermark({t}) = WatermarkOf(m)
  <2>1. t <= MaxUtc
    BY <1>3, <1>5
  <2>2. QED
    BY <1>1, <1>3, <1>4, <2>1, ClockMoves
<1>7. PICK j \in 1 .. done + 1 : m.event = arrived'[j] /\ m.system = seen'[j]
  <2>1. CASE m \in clock
    <3>1. PICK l \in 1 .. done : m.event = arrived[l] /\ m.system = seen[l]
      BY <1>3, <2>1 DEF SeenInv, Live
    <3>2. l \in 1 .. done + 1
      BY <1>3
    <3>3. QED
      BY <1>3, <3>1, <3>2
  <2>2. CASE m = [event |-> t, system |-> now]
    <3>1. done + 1 \in 1 .. done + 1
      BY <1>3
    <3>2. QED
      BY <1>3, <2>2, <3>1
  <2>3. QED
    BY <2>1, <2>2 DEF SeenTimes
<1>8. m.event \in Int /\ m.system \in Nat /\ m.event < MaxUtc
  BY <1>1, <1>3, <1>4, <1>5 DEF SeenTimes, ClockInv, Live
<1>9. PICK wm : wm = Watermark({t})
  OBVIOUS
<1>10. wm = m.event - conf.wait + (now - m.system)
  BY <1>5, <1>6, <1>8, <1>9 DEF Watermark, WatermarkOf
<1>11. ASSUME NEW x \in Int, x < wm
       PROVE  x + conf.wait < arrived'[j] + (seen'[done + 1] - seen'[j])
  BY <1>3, <1>4, <1>5, <1>7, <1>8, <1>10, <1>11
<1>12. ASSUME NEW k \in Insert(wm, t).late
       PROVE  Overtaken(n, LateTime(n, k))'
  <2>1. conf.kind = "sliding" => Sliding(Intersects(conf, t))
    BY <1>3, <1>4, <1>5, IntersectsAre
  <2>2. IF conf.kind = "sliding" THEN Window(conf, k).close < wm ELSE t < wm
    BY <1>3, <1>4, <2>1, <1>12, ItemLate
  <2>3. conf.kind = "sliding" => Window(conf, k).close \in Int
    <3>1. SUFFICES ASSUME conf.kind = "sliding"
                   PROVE  Window(conf, k).close \in Int
      OBVIOUS
    <3>2. k \in {w.key : w \in SlidingLate(conf, wm, t)}
      BY <1>12, <3>1 DEF Insert
    <3>3. k \in Int
      BY <2>1, <3>1, <3>2 DEF SlidingLate, Sliding
    <3>4. QED
      BY <1>4, <3>3, WindowIs
  <2>4. PICK x : x = IF conf.kind = "sliding" THEN Window(conf, k).close ELSE t
    OBVIOUS
  <2>5. x \in Int /\ x < wm
    BY <1>3, <2>2, <2>3, <2>4
  <2>6. LateTime(n, k)' = x
    <3>1. Window(conf, k)' = Window(conf, k)
      BY <1>3 DEF Window
    <3>2. QED
      BY <1>3, <2>4, <3>1 DEF LateTime
  <2>7. x + conf.wait < arrived'[j] + (seen'[done + 1] - seen'[j])
    BY <1>11, <2>5
  <2>8. QED
    <3>1. \E l \in 1 .. n : x + conf.wait < arrived'[l] + (seen'[n] - seen'[l])
      BY <1>7, <2>7
    <3>2. QED
      BY <1>3, <2>6, <3>1 DEF Overtaken
<1>13. QED
  BY <1>6, <1>7, <1>9, <1>12

(* Applying an item, a wake-up or EOF. *)
LEMMA DrainSeen ==
  ASSUME NEW wm, NEW ws, NEW ls, NEW mk, NEW cl, DrainClosed(wm, ws, ls, mk, cl),
         seen' \in [1 .. done' -> Nat],
         conf'.clock = "event" /\ ~ ended' => \A c \in cl :
           \E j \in 1 .. done' : c.event = arrived'[j] /\ c.system = seen'[j],
         conf'.clock = "event" => \A p \in late' :
           p[1] \in 1 .. done' /\ Overtaken(p[1], LateTime(p[1], p[2]))'
  PROVE  SeenInv(Live)'
<1>1. Live'.clock = clock' /\ Live'.done = done' /\ Live'.late = late'
  BY DEF Live
<1>2. clock' = {} \/ clock' = cl
  BY DrainedIs
<1>3. conf'.clock = "event" /\ ~ ended' => \A c \in clock' :
        \E j \in 1 .. done' : c.event = arrived'[j] /\ c.system = seen'[j]
  BY <1>2
<1>4. QED
  BY <1>1, <1>3 DEF SeenInv

LEMMA OnItemSeen ==
  ASSUME WClockInv, WSeenInv, NEW t \in ItemTimes, OnItem(t)
  PROVE  WSeenInv'
<1>1. ScalarsInv /\ ClockInv(Live) /\ SeenInv(Live) /\ SeenInv(saved)
  BY DEF WClockInv, WSeenInv
<1>2. seen \in [1 .. done -> Nat]
  BY <1>1 DEF SeenInv
<1>3. PICK n : n = done + 1
  OBVIOUS
<1>4. /\ t \in Int /\ done \in Nat /\ done' = n
      /\ \A i \in 1 .. done : arrived'[i] = arrived[i] /\ seen'[i] = seen[i]
      /\ arrived'[n] = t /\ seen'[n] = now /\ seen' \in [1 .. done' -> Nat]
      /\ conf' = conf /\ ended' = ended /\ saved' = saved /\ ~ ended
  BY <1>1, <1>2, <1>3, ItemSeen
<1>5. PICK s : s = Live
  OBVIOUS
<1>6. /\ s.done = done /\ s.clock = clock /\ s.late = late
  BY <1>5 DEF Live
<1>7. conf'.clock = "event" => \A p \in late :
        p[1] \in 1 .. done /\ Overtaken(p[1], LateTime(p[1], p[2]))'
  BY <1>1, <1>4, <1>5, <1>6, SeenStays DEF SeenRest
<1>8. SeenInv(Live)'
  <2>1. PICK ins : ins = Insert(Watermark({t}), t)
    OBVIOUS
  <2>2. PICK cl : /\ cl = (IF conf.clock = "event" THEN NewClock({t}) ELSE {})
                  /\ DrainClosed(Watermark({t}), ins.windows, Fold(ins.ok, n), ins.maxKey, cl)
                  /\ late' = late \cup {<<n, k>> : k \in ins.late}
    BY <1>3, <2>1 DEF OnItem
  <2>3. conf'.clock = "event" /\ ~ ended' => \A c \in cl :
          \E j \in 1 .. done' : c.event = arrived'[j] /\ c.system = seen'[j]
    BY <1>1, <1>3, <1>4, <2>2, ItemOvertaken
  <2>4. ASSUME conf'.clock = "event", NEW p \in late'
        PROVE  p[1] \in 1 .. done' /\ Overtaken(p[1], LateTime(p[1], p[2]))'
    <3>1. CASE p \in late
      BY <1>3, <1>4, <1>7, <2>4, <3>1
    <3>2. CASE p \notin late
      <4>1. PICK k \in ins.late : p = <<n, k>>
        BY <2>2, <3>2
      <4>2. Overtaken(n, LateTime(n, k))'
        BY <1>1, <1>3, <1>4, <2>1, <2>4, <4>1, ItemOvertaken
      <4>3. p[1] = n /\ p[2] = k /\ n \in 1 .. done'
        BY <1>3, <1>4, <4>1
      <4>4. QED
        BY <4>2, <4>3
    <3>3. QED
      BY <3>1, <3>2
  <2>5. \E wm, ws, ls, mk : DrainClosed(wm, ws, ls, mk, cl)
    BY <2>2
  <2>6. QED
    BY <1>4, <2>3, <2>4, <2>5, DrainSeen
<1>9. SeenInv(saved)'
  <2>1. PICK r : r = saved
    OBVIOUS
  <2>2. r.done \in Nat /\ \A i \in 1 .. r.done : i \in 1 .. done
    BY <1>1, <1>4, <2>1 DEF ScalarsInv
  <2>3. SeenInv(r) /\ saved' = r
    BY <1>1, <1>4, <2>1
  <2>4. conf'.clock = "event" => SeenRest(r)
    BY <1>4, <2>2, <2>3, SeenStays
  <2>5. QED
    BY <1>4, <2>3, <2>4 DEF SeenInv, SeenRest
<1>10. QED
  BY <1>8, <1>9 DEF WSeenInv

(* A wake-up, or EOF, after which no item comes. *)
LEMMA ClosingSeen ==
  ASSUME WClockInv, WSeenInv, UNCHANGED <<conf, input, late, saved>>,
         \/ OnAwake
         \/ ended' /\ \E wm, ws, ls, mk, cl : DrainClosed(wm, ws, ls, mk, cl)
  PROVE  WSeenInv'
<1>1. ScalarsInv /\ ClockInv(Live) /\ SeenInv(Live) /\ SeenInv(saved)
  BY DEF WClockInv, WSeenInv
<1>2. /\ conf \in Configs /\ now \in Nat /\ done \in Nat /\ saved.done \in Nat
      /\ seen \in [1 .. done -> Nat] /\ arrived' = arrived /\ done' = done /\ seen' = seen
  BY <1>1 DEF ScalarsInv, SeenInv, input
<1>3. ended => ended'
  BY DEF OnAwake
<1>4. PICK s : s = Live
  OBVIOUS
<1>5. PICK r : r = saved
  OBVIOUS
<1>6. SeenInv(r) /\ saved' = r /\ r.done \in Nat
  BY <1>1, <1>2, <1>5
<1>7. SeenInv(saved)'
  <2>1. conf'.clock = "event" => SeenRest(r)
    BY <1>3, <1>2, <1>6, SeenStays
  <2>2. QED
    BY <1>2, <1>6, <2>1 DEF SeenInv, SeenRest
<1>8. SeenInv(s) /\ s.done = done /\ s.clock = clock /\ s.late = late
  BY <1>1, <1>4 DEF Live
<1>9. /\ conf'.clock = "event" /\ ~ ended' => \A c \in clock :
           \E j \in 1 .. done' : c.event = arrived'[j] /\ c.system = seen'[j]
      /\ conf'.clock = "event" => \A p \in late' :
           p[1] \in 1 .. done' /\ Overtaken(p[1], LateTime(p[1], p[2]))'
  <2>1. conf'.clock = "event" => SeenRest(s)
    BY <1>2, <1>3, <1>8, SeenStays
  <2>2. QED
    BY <1>2, <1>8, <2>1 DEF SeenRest
<1>10. \E wm, ws, ls, mk, cl : /\ DrainClosed(wm, ws, ls, mk, cl)
                               /\ conf'.clock = "event" => ended' \/ cl = clock
  <2>1. CASE OnAwake
    <3>1. PICK cl : /\ cl = (IF conf.clock = "event" THEN NewClock({}) ELSE {})
                    /\ DrainClosed(Watermark({}), windows, logics, maxKey, cl)
      BY <2>1 DEF OnAwake
    <3>2. conf'.clock = "event" => cl = clock
      BY <1>1, <1>2, <3>1, ClockStays
    <3>3. QED
      BY <3>1, <3>2
  <2>2. CASE ended' /\ \E wm, ws, ls, mk, cl : DrainClosed(wm, ws, ls, mk, cl)
    BY <2>2
  <2>3. QED
    BY <2>1, <2>2
<1>11. SeenInv(Live)'
  BY <1>2, <1>9, <1>10, DrainSeen
<1>12. QED
  BY <1>7, <1>11 DEF WSeenInv

LEMMA InitSeen == Init => WSeenInv
<1> SUFFICES ASSUME Init
             PROVE  WSeenInv
  OBVIOUS
<1>1. /\ seen = <<>> /\ done = 0 /\ clock = {} /\ late = {}
      /\ saved.clock = {} /\ saved.late = {}
  BY DEF Init
<1>2. seen \in [1 .. done -> Nat]
  BY <1>1
<1>3. QED
  BY <1>1, <1>2 DEF WSeenInv, SeenInv, Live

LEMMA NextSeen ==
  ASSUME WClockInv, WSeenInv, [Next]_vars
  PROVE  WSeenInv'
<1>1. ScalarsInv /\ SeenInv(Live) /\ SeenInv(saved) /\ conf' = conf
  BY NextScalars DEF WClockInv, WSeenInv
<1>2. done \in Nat /\ saved.done \in 0 .. done /\ seen \in [1 .. done -> Nat]
  BY <1>1 DEF ScalarsInv, SeenInv
<1>3. PICK s : s = Live
  OBVIOUS
<1>4. SeenInv(s) /\ s.done = done /\ s.clock = clock /\ s.late = late
  BY <1>1, <1>3 DEF Live
<1>5. PICK r : r = saved
  OBVIOUS
<1>6. SeenInv(r) /\ r.done \in Nat /\ \A i \in 1 .. r.done : i \in 1 .. done
  BY <1>1, <1>2, <1>5
<1>7. ASSUME UNCHANGED <<input, saved, Live, ended>>
      PROVE  WSeenInv'
  <2>1. Live' = s /\ saved' = r /\ arrived' = arrived /\ done' = done /\ seen' = seen
    BY <1>3, <1>5, <1>7 DEF input
  <2>2. conf'.clock = "event" => SeenRest(s) /\ SeenRest(r)
    BY <1>1, <1>2, <1>4, <1>6, <1>7, <2>1, SeenStays
  <2>3. SeenInv(Live)' /\ SeenInv(saved)'
    BY <1>2, <2>1, <2>2 DEF SeenInv, SeenRest
  <2>4. QED
    BY <2>3 DEF WSeenInv
<1>8. CASE FindDue
  BY <1>7, <1>8 DEF FindDue, input, logic, outcome, Live
<1>9. CASE OnAwake
  <2>1. UNCHANGED <<conf, input, late, saved>>
    BY <1>9 DEF OnAwake
  <2>2. QED
    BY <1>9, <2>1, ClosingSeen
<1>10. CASE OnEof
  <2>1. ended' /\ UNCHANGED <<conf, input, late, saved>>
    BY <1>10 DEF OnEof
  <2>2. \E wm, ws, ls, mk, cl : DrainClosed(wm, ws, ls, mk, cl)
    BY <1>10 DEF OnEof
  <2>3. QED
    BY <2>1, <2>2, ClosingSeen
<1>11. CASE Snapshot
  <2>1. /\ saved' = s /\ Live' = s /\ arrived' = arrived /\ seen' = seen
        /\ done' = done /\ ended' = ended
    BY <1>3, <1>11, SnapshotIs DEF Snapshot, input
  <2>2. conf'.clock = "event" => SeenRest(s)
    BY <1>1, <1>2, <1>4, <2>1, SeenStays
  <2>3. SeenInv(Live)' /\ SeenInv(saved)'
    BY <1>2, <2>1, <2>2 DEF SeenInv, SeenRest
  <2>4. QED
    BY <2>3 DEF WSeenInv
<1>12. CASE Crash
  <2>1. /\ saved' = r /\ arrived' = arrived /\ done' = r.done /\ ended' = ended
        /\ Live'.clock = r.clock /\ Live'.done = r.done /\ Live'.late = r.late
        /\ seen' = [j \in 1 .. r.done |-> seen[j]]
    BY <1>5, <1>12 DEF Crash, Live
  <2>2. /\ seen' \in [1 .. done' -> Nat]
        /\ \A i \in 1 .. r.done : arrived'[i] = arrived[i] /\ seen'[i] = seen[i]
    BY <1>2, <1>6, <2>1
  <2>3. conf'.clock = "event" => SeenRest(r)
    BY <1>1, <1>6, <2>1, <2>2, SeenStays
  <2>4. SeenInv(Live)' /\ SeenInv(saved)'
    BY <2>1, <2>2, <2>3 DEF SeenInv, SeenRest
  <2>5. QED
    BY <2>4 DEF WSeenInv
<1>13. CASE Tick
  BY <1>7, <1>13 DEF Tick, input, logic, outcome, Live
<1>14. CASE UNCHANGED vars
  BY <1>7, <1>14 DEF vars, input, logic, outcome, Live
<1>15. CASE \E t \in ItemTimes : OnItem(t)
  BY <1>15, OnItemSeen
<1>16. QED
  BY <1>8, <1>9, <1>10, <1>11, <1>12, <1>13, <1>14, <1>15 DEF Next, Stopped

(* The item that makes the watermark was given to the key, and its time was  *)
(* kept as it was, by the clock and by its snapshots.                        *)
THEOREM WSeenInvHolds == Spec => []WSeenInv
<1>1. WClockInv /\ WSeenInv /\ [Next]_vars => WSeenInv'
  BY NextSeen
<1>2. QED
  BY WClockInvHolds, InitSeen, <1>1, PTL DEF Spec

(* No item is refused that is not out of order by more than the waiting      *)
(* duration, whatever the items before it, and whatever crashes they saw.    *)
THEOREM OnTimeItemsTakenHolds == Spec => []OnTimeItemsTaken
<1>1. WSeenInv => OnTimeItemsTaken
  BY DEF WSeenInv, SeenInv, Live, OnTimeItemsTaken
<1>2. QED
  BY WSeenInvHolds, <1>1, PTL

(* The types, with sliding windows and with sessions: every window that may  *)
(* close has a logic, and the timer has one time.                            *)
THEOREM TypeOKHolds == Spec => []TypeOK
<1>1. WClockInv /\ WSlidingInv /\ WSessionInv /\ WSeenInv => TypeOK
  <2>1. SUFFICES ASSUME WClockInv, WSlidingInv, WSessionInv, WSeenInv
                 PROVE  TypeOK
    OBVIOUS
  <2>2. ScalarsInv /\ ClockInv(Live)
    BY <2>1 DEF WClockInv
  <2>3. /\ now \in Nat /\ crashes \in 0 .. MaxCrashes /\ {due, ended} \subseteq BOOLEAN
        /\ arrived \in Seq(Int) /\ done \in 0 .. Len(arrived) /\ conf \in Configs
    <3>1. due \in BOOLEAN /\ ended \in BOOLEAN
      BY <2>2 DEF ScalarsInv
    <3>2. {due, ended} \subseteq BOOLEAN
      BY <3>1, Zenon
    <3>3. QED
      BY <2>2, <3>2 DEF ScalarsInv
  <2>4. \A S : (\A c, d \in S : c = d) => Cardinality(S) <= 1
    <3>1. SUFFICES ASSUME NEW S, \A c, d \in S : c = d
                   PROVE  Cardinality(S) <= 1
      OBVIOUS
    <3>2. CASE S = {}
      BY <3>2, FS_EmptySet
    <3>3. CASE S # {}
      <4>1. PICK c : S = {c}
        BY <3>1, <3>3
      <4>2. Cardinality({c}) = 1
        BY FS_Singleton
      <4>3. QED
        BY <4>1, <4>2
    <3>4. QED
      BY <3>2, <3>3
  <2>5. clock \subseteq [event : Int, system : Nat] /\ Cardinality(clock) <= 1
    BY <2>2, <2>4 DEF ClockInv, Live
  <2>6. /\ windows \subseteq WindowRecords /\ maxKey \in Nat
        /\ Keys(windows) \subseteq DOMAIN logics
        /\ \A k \in DOMAIN logics : logics[k] \subseteq 1 .. done
        /\ late \subseteq (1 .. done) \X Int
        /\ nextAwake \subseteq Int /\ \A a, b \in nextAwake : a = b
    <3>1. CASE conf.kind = "sliding"
      <4>1. WindowsInv(Live) /\ OutcomeInv(Live)
        BY <2>1, <3>1 DEF WSlidingInv, SlidingInv
      <4>2. /\ Sliding(windows) /\ maxKey \in Nat
            /\ logics \in [Keys(windows) -> SUBSET (1 .. done)]
            /\ nextAwake = (IF windows = {} THEN {} ELSE {SlidingNextClose(windows)})
            /\ late \subseteq (1 .. done) \X Int
        BY <4>1 DEF WindowsInv, OutcomeInv, Live, Sliding
      <4>3. windows \subseteq WindowRecords
        <5>1. SUFFICES ASSUME NEW w \in windows
                       PROVE  w \in WindowRecords
          OBVIOUS
        <5>2. w.key \in Int /\ w = Window(conf, w.key)
          BY <4>2 DEF Sliding
        <5>3. /\ Window(conf, w.key).key \in Int /\ Window(conf, w.key).open \in Int
              /\ Window(conf, w.key).close \in Int
          BY <2>3, <5>2, WindowIs
        <5>4. Window(conf, w.key) \in WindowRecords
          BY <5>3 DEF WindowRecords, Window
        <5>5. QED
          BY <5>2, <5>4
      <4>4. windows # {} => SlidingNextClose(windows) \in Int
        <5> DEFINE C == {v.close : v \in windows}
        <5>1. SUFFICES ASSUME windows # {}
                       PROVE  SlidingNextClose(windows) \in Int
          OBVIOUS
        <5>2. C \subseteq Int /\ C # {}
          BY <4>3, <5>1 DEF WindowRecords
        <5>3. IsFiniteSet(C)
          <6> DEFINE g == [v \in windows |-> v.close]
          <6>1. g \in Surjection(windows, C)
            BY DEF Surjection
          <6>2. QED
            BY <4>2, <6>1, FS_Surjection DEF Sliding
        <5>4. Min(C) \in C
          BY <5>2, <5>3, MinIsLeast
        <5>5. QED
          BY <5>2, <5>4 DEF SlidingNextClose
      <4>5. QED
        BY <4>2, <4>3, <4>4
    <3>2. CASE conf.kind = "session"
      <4>1. /\ maxKey \in Nat /\ Listed(windows, maxKey)
            /\ Keys(windows) \subseteq DOMAIN logics
            /\ \A k \in DOMAIN logics : logics[k] \subseteq 1 .. done
            /\ nextAwake = (IF windows = {} THEN {} ELSE {SessionNextClose(windows, conf.gap)})
            /\ late \subseteq (1 .. done) \X Int
        BY <2>1, <3>2 DEF WSessionInv, SessionInv, Live
      <4>2. windows \subseteq WindowRecords /\ Ordered(windows) /\ conf.gap \in Nat
        BY <2>3, <4>1, ConfigIs DEF Listed, Ordered
      <4>3. windows # {} => SessionNextClose(windows, conf.gap) \in Int
        <5>1. SUFFICES ASSUME windows # {}
                       PROVE  SessionNextClose(windows, conf.gap) \in Int
          OBVIOUS
        <5>2. LastOf(windows) \in windows
          BY <4>2, <5>1, EndsAre DEF IsLast
        <5>3. LastOf(windows).close \in Int
          BY <4>2, <5>2 DEF WindowRecords
        <5>4. QED
          BY <4>2, <5>3 DEF SessionNextClose, CloseTime
      <4>4. QED
        BY <4>1, <4>2, <4>3
    <3>3. QED
      BY <2>3, <3>1, <3>2, ConfigIs
  <2>7. Cardinality(nextAwake) <= 1
    BY <2>4, <2>6
  <2>8. seen \in [1 .. done -> Nat]
    BY <2>1 DEF WSeenInv, SeenInv
  <2>9. QED
    BY <2>3, <2>5, <2>6, <2>7, <2>8 DEF TypeOK, Keys
<1>2. QED
  BY WClockInvHolds, WSlidingInvHolds, WSessionInvHolds, WSeenInvHolds, <1>1, PTL
=============================================================================
