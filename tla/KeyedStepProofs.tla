--------------------------- MODULE KeyedStepProofs ---------------------------
(***************************************************************************)
(* The proofs about KeyedStep: what one epoch does to one key, what an     *)
(* activation may see of the input, and from these the invariant; then,    *)
(* with it, the order of each key's items on their way to the sink.        *)
(***************************************************************************)
EXTENDS KeyedStepInvariant, WellFoundedInduction, FiniteSetTheorems, TLAPS

LEMMA NatHasLeast ==
  ASSUME NEW S \in SUBSET Nat, S # {}
  PROVE  \E x \in S : \A y \in S : x <= y
<1>1. IsWellFoundedOn(OpToRel(<, Nat), Nat)
  BY NatLessThanWellFounded
<1>2. PICK x \in S : ~ \E y \in S : <<y, x>> \in OpToRel(<, Nat)
  BY <1>1, WFMin
<1>3. \A y \in S : ~ (y < x)
  BY <1>2 DEF OpToRel
<1>4. QED
  BY <1>3

LEMMA ConfigIs ==
  ASSUME conf \in Configs
  PROVE  /\ conf.logic \in {"collect", "fold_final", "alarm"}
         /\ conf.timeout \in Nat \ {0} /\ conf.max_size \in Nat \ {0}
         /\ conf.interval \in Nat /\ conf.endless \in BOOLEAN
         /\ conf.script \in [Workers -> Seq(Keys \cup {Idle, Abort})]
BY StepAssumption

LEMMA AppendIs ==
  ASSUME NEW S, NEW s \in Seq(S), NEW x \in S
  PROVE  /\ Append(s, x) \in Seq(S)
         /\ DOMAIN s = 1 .. Len(s) /\ Len(s) \in Nat
         /\ DOMAIN Append(s, x) = 1 .. Len(s) + 1 /\ Len(Append(s, x)) = Len(s) + 1
         /\ \A i \in DOMAIN s : Append(s, x)[i] = s[i]
         /\ Append(s, x)[Len(s) + 1] = x
OBVIOUS

LEMMA ConcatIs ==
  ASSUME NEW S, NEW a \in Seq(S), NEW b \in Seq(S), NEW c, c = a \o b
  PROVE  /\ c \in Seq(S)
         /\ DOMAIN a = 1 .. Len(a) /\ Len(a) \in Nat /\ Len(b) \in Nat
         /\ DOMAIN c = 1 .. Len(a) + Len(b) /\ Len(c) = Len(a) + Len(b)
         /\ \A j \in DOMAIN a : c[j] = a[j]
         /\ \A j \in 1 .. Len(b) : c[Len(a) + j] = b[j]
OBVIOUS

LEMMA OptionIs ==
  ASSUME NEW T, NEW o \in Options(T)
  PROVE  /\ o = {} \/ (The(o) \in T /\ o = {The(o)})
         /\ o \subseteq T /\ \A x, y \in o : x = y
BY DEF Options, The

-----------------------------------------------------------------------------
(* One call of a logic. *)

Result == [logic : Logics, emit : Seq(Seq(Items)), discard : BOOLEAN]

LEMMA LogicTypes ==
  ASSUME conf \in Configs, now \in Nat, NEW l \in Logics
  PROVE  /\ New \in Logics /\ \A v \in Items : OnItem(l, v) \in Result
         /\ OnNotify(l) \in Result /\ OnEof(l) \in Result
<1>1. conf.logic \in {"collect", "fold_final", "alarm"} /\ conf.timeout \in Nat
  BY ConfigIs
<1>2. New \in Logics
  BY DEF New, Logics
<1>3. l.acc \in Seq(Items) /\ l.at \in Nat \cup {None}
  BY DEF Logics
<1>4. ASSUME NEW v \in Items
      PROVE  OnItem(l, v) \in Result
  <2>1. Append(l.acc, v) \in Seq(Items) /\ <<Append(l.acc, v)>> \in Seq(Seq(Items))
    BY <1>3, <1>4, AppendIs
  <2>2. <<>> \in Seq(Seq(Items)) /\ now + conf.timeout \in Nat
    BY <1>1
  <2>3. QED
    BY <1>1, <1>2, <1>3, <2>1, <2>2 DEF OnItem, Result, Returns, Logics
<1>5. OnNotify(l) \in Result
  <2>1. <<l.acc>> \in Seq(Seq(Items)) /\ <<>> \in Seq(Seq(Items))
    BY <1>3
  <2>2. QED
    BY <1>1, <1>2, <1>3, <2>1 DEF OnNotify, Result, Returns, Logics
<1>6. OnEof(l) \in Result
  <2>1. <<l.acc>> \in Seq(Seq(Items)) /\ <<>> \in Seq(Seq(Items))
    BY <1>3
  <2>2. QED
    BY <1>1, <1>2, <1>3, <2>1 DEF OnEof, Result, Returns, Logics
<1>7. QED
  BY <1>2, <1>4, <1>5, <1>6

(* What the operator does with an answer. *)
Applied(r, st, res) ==
  /\ r \in KeyStates
  /\ r.logic = (IF res.discard THEN {} ELSE {res.logic})
  /\ r.sched = (IF res.discard THEN {} ELSE st.sched)
  /\ r.awoken = TRUE
  /\ r.snap = st.snap /\ r.eofs = st.eofs /\ r.late = st.late /\ r.asked = st.asked
  /\ r.wrong = st.wrong
  /\ Len(r.outs) = Len(st.outs) + Len(res.emit)
  /\ \A j \in 1 .. Len(st.outs) : r.outs[j] = st.outs[j]
  /\ \A j \in 1 .. Len(res.emit) : r.outs[Len(st.outs) + j].value = res.emit[j]

LEMMA ApplyIs ==
  ASSUME NEW st \in KeyStates, NEW epoch \in Nat, NEW res \in Result
  PROVE  Applied(Apply(st, epoch, res), st, res)
<1> PICK r : r = Apply(st, epoch, res)
  OBVIOUS
<1> DEFINE more == [i \in DOMAIN res.emit |-> [epoch |-> epoch, value |-> res.emit[i]]]
<1>1. res.emit \in Seq(Seq(Items)) /\ res.logic \in Logics /\ res.discard \in BOOLEAN
  BY DEF Result
<1>2. st.outs \in Seq(Out)
  BY DEF KeyStates
<1>3. more \in Seq(Out) /\ Len(more) = Len(res.emit)
      /\ \A j \in 1 .. Len(res.emit) : more[j].value = res.emit[j]
  <2>1. DOMAIN res.emit = 1 .. Len(res.emit) /\ Len(res.emit) \in Nat
        /\ \A i \in 1 .. Len(res.emit) : res.emit[i] \in Seq(Items)
    BY <1>1
  <2>2. \A i \in 1 .. Len(res.emit) : [epoch |-> epoch, value |-> res.emit[i]] \in Out
    BY <2>1 DEF Out
  <2>3. QED
    BY <2>1, <2>2
<1> HIDE DEF more
<1>4. PICK o : o = st.outs \o more
  OBVIOUS
<1>5. /\ o \in Seq(Out) /\ Len(st.outs) \in Nat /\ Len(o) = Len(st.outs) + Len(res.emit)
      /\ \A j \in 1 .. Len(st.outs) : o[j] = st.outs[j]
      /\ \A j \in 1 .. Len(res.emit) : o[Len(st.outs) + j] = more[j]
  <2>1. more \in Seq(Out) /\ Len(more) = Len(res.emit)
    BY <1>3
  <2>2. PICK a \in Seq(Out) : a = st.outs
    BY <1>2
  <2>3. PICK b \in Seq(Out) : b = more
    BY <2>1
  <2>4. o = a \o b
    BY <1>4, <2>2, <2>3
  <2>5. /\ o \in Seq(Out) /\ DOMAIN a = 1 .. Len(a) /\ Len(a) \in Nat /\ Len(o) = Len(a) + Len(b)
        /\ \A j \in DOMAIN a : o[j] = a[j]
        /\ \A j \in 1 .. Len(b) : o[Len(a) + j] = b[j]
    BY <2>4, ConcatIs
  <2>6. QED
    BY <2>1, <2>2, <2>3, <2>5
<1>6. Apply(st, epoch, res) =
        [st EXCEPT !.outs = @ \o more, !.logic = IF res.discard THEN {} ELSE {res.logic},
                   !.sched = IF res.discard THEN {} ELSE @, !.awoken = TRUE]
  BY DEF Apply, more
<1>7. PICK l \in Options(Logics) : l = IF res.discard THEN {} ELSE {res.logic}
  BY <1>1 DEF Options
<1>8. PICK s \in Options(Nat) : s = IF res.discard THEN {} ELSE st.sched
  BY DEF Options, KeyStates
<1>9. Apply(st, epoch, res) =
        [logic |-> l, sched |-> s, awoken |-> TRUE, outs |-> o, snap |-> st.snap,
         eofs |-> st.eofs, late |-> st.late, asked |-> st.asked, wrong |-> st.wrong]
  BY <1>4, <1>6, <1>5, <1>7, <1>8 DEF KeyStates
<1>10. /\ r.logic = l /\ r.sched = s /\ r.awoken = TRUE /\ r.outs = o /\ r.snap = st.snap
       /\ r.eofs = st.eofs /\ r.late = st.late /\ r.asked = st.asked /\ r.wrong = st.wrong
  BY <1>9
<1>11. r \in KeyStates
  BY <1>5, <1>9 DEF KeyStates
<1>12. /\ Len(o) = Len(st.outs) + Len(res.emit)
       /\ \A j \in 1 .. Len(st.outs) : o[j] = st.outs[j]
       /\ \A j \in 1 .. Len(res.emit) : o[Len(st.outs) + j].value = res.emit[j]
  BY <1>3, <1>5
<1>13. QED
  BY <1>7, <1>8, <1>10, <1>11, <1>12 DEF Applied

-----------------------------------------------------------------------------
(* One item, one notification, one EOF, one epoch: what they keep.          *)

(* What is true of a key between the steps. *)
Good(st) == st \in KeyStates /\ Scheduled(st) /\ Current(st)

(* From st to res: nothing emitted or forgotten by a fold_final logic, and  *)
(* no item after EOF.                                                       *)
FinalKeeps(st, res) ==
  conf.logic = "fold_final" =>
    /\ Len(res.outs) = Len(st.outs)
    /\ \A v : KeyHas(st, v) => KeyHas(res, v)
Keeps(st, res) ==
  /\ Good(res) /\ FinalKeeps(st, res)
  /\ res.eofs = st.eofs /\ (st.eofs = 0 => res.late = st.late)

LEMMA ItemKeeps ==
  ASSUME conf \in Configs, now \in Nat, NEW st, Good(st), NEW m \in Msg
  PROVE  /\ Keeps(st, ItemStep(st, m))
         /\ conf.logic = "fold_final" => KeyHas(ItemStep(st, m), m.value)
<1> DEFINE l == IF st.logic = {} THEN New ELSE The(st.logic)
           told == [st EXCEPT !.late = @ + (IF st.eofs > 0 THEN 1 ELSE 0)]
           res == OnItem(l, m.value)
           fin == Apply(told, m.epoch, res)
<1> USE DEF Good
<1>1. st.logic \in Options(Logics) /\ m.epoch \in Nat /\ m.value \in Items
  BY DEF KeyStates, Msg
<1>2. l \in Logics /\ New \in Logics /\ (st.logic # {} => st.logic = {l})
  <2>1. New \in Logics
    BY DEF New, Logics
  <2>2. QED
    BY <1>1, <2>1, OptionIs
<1>3. told \in KeyStates /\ told.outs = st.outs /\ told.logic = st.logic /\ told.sched = st.sched
      /\ told.snap = st.snap /\ told.eofs = st.eofs /\ (st.eofs = 0 => told.late = st.late)
  BY DEF KeyStates
<1>4. res \in Result
  <2> HIDE DEF l
  <2>1. QED
    BY <1>1, <1>2, LogicTypes
<1>5. ItemStep(st, m) = fin
  BY DEF ItemStep
<1> HIDE DEF l, told, res
<1>6. Applied(fin, told, res)
  BY <1>1, <1>3, <1>4, ApplyIs
<1>7. /\ fin \in KeyStates /\ fin.logic = (IF res.discard THEN {} ELSE {res.logic})
      /\ fin.sched = (IF res.discard THEN {} ELSE st.sched) /\ fin.awoken = TRUE
      /\ fin.eofs = st.eofs /\ fin.late = told.late
      /\ Len(fin.outs) = Len(st.outs) + Len(res.emit)
      /\ \A j \in 1 .. Len(st.outs) : fin.outs[j] = st.outs[j]
  BY <1>3, <1>6 DEF Applied
<1> HIDE DEF fin
<1>8. Good(fin)
  BY <1>7 DEF Scheduled, Current
<1>9. ASSUME conf.logic = "fold_final"
      PROVE  /\ Len(fin.outs) = Len(st.outs) /\ (\A v : KeyHas(st, v) => KeyHas(fin, v))
             /\ KeyHas(fin, m.value)
  <2>1. res = [logic |-> [l EXCEPT !.acc = Append(l.acc, m.value)], emit |-> <<>>, discard |-> FALSE]
    BY <1>9 DEF res, OnItem, Returns
  <2>2. /\ res.logic.acc = Append(l.acc, m.value) /\ Len(res.emit) = 0 /\ ~ res.discard
        /\ l.acc \in Seq(Items)
    BY <1>2, <2>1 DEF Logics
  <2>3. /\ DOMAIN l.acc = 1 .. Len(l.acc) /\ DOMAIN res.logic.acc = 1 .. Len(l.acc) + 1
        /\ \A i \in DOMAIN l.acc : res.logic.acc[i] = l.acc[i]
        /\ res.logic.acc[Len(l.acc) + 1] = m.value /\ Len(l.acc) \in Nat
    BY <1>1, <2>2, AppendIs
  <2>4. fin.logic = {res.logic}
    BY <1>7, <2>2
  <2>5. st.outs \in Seq(Out) /\ fin.outs \in Seq(Out) /\ Len(fin.outs) = Len(st.outs)
    BY <1>7, <2>2 DEF KeyStates
  <2>6. DOMAIN fin.outs = DOMAIN st.outs /\ \A j \in DOMAIN st.outs : fin.outs[j] = st.outs[j]
    BY <1>7, <2>5
  <2>7. \A v : KeyHas(st, v) => KeyHas(fin, v)
    <3>1. SUFFICES ASSUME NEW v, KeyHas(st, v)
                   PROVE  KeyHas(fin, v)
      OBVIOUS
    <3>2. CASE \E k \in st.logic : \E i \in DOMAIN k.acc : k.acc[i] = v
      <4>1. PICK i \in DOMAIN l.acc : l.acc[i] = v
        BY <1>2, <3>2
      <4>2. i \in DOMAIN res.logic.acc /\ res.logic.acc[i] = v
        BY <2>3, <4>1
      <4>3. QED
        BY <2>4, <4>2 DEF KeyHas
    <3>3. CASE \E j \in DOMAIN st.outs : \E i \in DOMAIN st.outs[j].value : st.outs[j].value[i] = v
      BY <2>6, <3>3 DEF KeyHas
    <3>4. QED
      BY <3>1, <3>2, <3>3 DEF KeyHas
  <2>8. KeyHas(fin, m.value)
    <3>1. Len(l.acc) + 1 \in DOMAIN res.logic.acc
      BY <2>3
    <3>2. QED
      BY <2>3, <2>4, <3>1 DEF KeyHas
  <2>9. QED
    BY <2>5, <2>7, <2>8
<1>10. QED
  BY <1>3, <1>5, <1>7, <1>8, <1>9 DEF Keeps, FinalKeeps

LEMMA NotifyKeeps ==
  ASSUME conf \in Configs, now \in Nat, NEW st, Good(st), NEW epoch \in Nat
  PROVE  Keeps(st, NotifyStep(st, epoch))
<1> DEFINE l == The(st.logic)
           told == [st EXCEPT !.sched = {}, !.wrong = @ + (IF st.asked = {} THEN 1 ELSE 0)]
           res == OnNotify(l)
           fin == Apply(told, epoch, res)
<1>1. CASE \A t \in st.sched : t > now
  BY <1>1 DEF NotifyStep, Keeps, FinalKeeps
<1>2. CASE ~ \A t \in st.sched : t > now
  <2>1. st.logic = {l} /\ l \in Logics /\ st \in KeyStates
    BY <1>2, OptionIs DEF Good, Scheduled, KeyStates
  <2>2. /\ told \in KeyStates /\ told.outs = st.outs /\ told.logic = st.logic /\ told.sched = {}
        /\ told.snap = st.snap /\ told.eofs = st.eofs /\ told.late = st.late
    <3>1. {} \in Options(Nat)
      BY DEF Options
    <3>2. PICK n \in Nat : n = st.wrong + (IF st.asked = {} THEN 1 ELSE 0)
      BY <2>1 DEF KeyStates
    <3>3. told = [st EXCEPT !.sched = {}, !.wrong = n]
      BY <3>2
    <3> HIDE DEF told
    <3>4. told = [[st EXCEPT !.sched = {}] EXCEPT !.wrong = n]
      BY <2>1, <3>3 DEF KeyStates
    <3>5. PICK mid \in KeyStates : mid = [st EXCEPT !.sched = {}]
      BY <2>1, <3>1 DEF KeyStates
    <3>6. told = [mid EXCEPT !.wrong = n]
      BY <3>4, <3>5
    <3>7. told \in KeyStates
      BY <3>6 DEF KeyStates
    <3>8. QED
      BY <2>1, <3>3, <3>7 DEF KeyStates
  <2>3. res \in Result
    <3> HIDE DEF l
    <3>1. QED
      BY <2>1, LogicTypes
  <2>4. NotifyStep(st, epoch) = fin
    BY <1>2 DEF NotifyStep
  <2> HIDE DEF l, told, res
  <2>5. Applied(fin, told, res)
    BY <2>2, <2>3, ApplyIs
  <2> HIDE DEF fin
  <2>6. Good(fin) /\ fin.eofs = st.eofs /\ fin.late = st.late
    BY <2>2, <2>5 DEF Applied, Good, Scheduled, Current
  <2>7. FinalKeeps(st, fin)
    <3>1. SUFFICES ASSUME conf.logic = "fold_final"
                   PROVE  Len(fin.outs) = Len(st.outs) /\ \A v : KeyHas(st, v) => KeyHas(fin, v)
      BY DEF FinalKeeps
    <3>2. res.logic = l /\ res.emit = <<>> /\ res.discard = FALSE
      BY <3>1 DEF res, OnNotify, Returns
    <3>3. fin.logic = st.logic /\ Len(fin.outs) = Len(st.outs)
      BY <2>1, <2>2, <2>5, <3>2 DEF Applied, KeyStates
    <3>4. DOMAIN fin.outs = DOMAIN st.outs /\ \A j \in DOMAIN st.outs : fin.outs[j] = st.outs[j]
      <4>1. fin.outs \in Seq(Out) /\ st.outs \in Seq(Out)
        BY <2>1, <2>5 DEF Applied, KeyStates
      <4>2. \A j \in 1 .. Len(st.outs) : fin.outs[j] = st.outs[j]
        BY <2>2, <2>5 DEF Applied
      <4>3. QED
        BY <3>3, <4>1, <4>2
    <3>5. QED
      BY <3>3, <3>4 DEF KeyHas
  <2>8. QED
    BY <2>4, <2>6, <2>7 DEF Keeps
<1>3. QED
  BY <1>1, <1>2

LEMMA RescheduleKeeps ==
  ASSUME NEW st, Good(st)
  PROVE  /\ Keeps(st, Reschedule(st)) /\ Reschedule(st).late = st.late
         /\ Reschedule(st).logic = st.logic
<1> DEFINE at == {t \in {NotifyAt(l) : l \in st.logic} : t # None}
           fin == [st EXCEPT !.asked = at, !.sched = IF at = {} THEN @ ELSE at]
<1>1. CASE ~ st.awoken
  BY <1>1 DEF Reschedule, Keeps, FinalKeeps
<1>2. CASE st.awoken
  <2>1. st \in KeyStates
    BY DEF Good
  <2>2. at \in Options(Nat) /\ (st.logic = {} => at = {})
    <3>1. st.logic = {} => at = {}
      OBVIOUS
    <3>2. ASSUME NEW l \in Logics, st.logic = {l}
          PROVE  at \in Options(Nat)
      <4>1. l.at \in Nat \cup {None}
        BY DEF Logics
      <4>2. at = IF l.at = None THEN {} ELSE {l.at}
        BY <3>2 DEF NotifyAt
      <4>3. QED
        BY <4>1, <4>2 DEF Options
    <3>3. st.logic \in Options(Logics)
      BY <2>1 DEF KeyStates
    <3>4. QED
      BY <3>1, <3>2, <3>3 DEF Options
  <2>3. Reschedule(st) = fin
    BY <1>2 DEF Reschedule
  <2> HIDE DEF at
  <2>4. /\ fin \in KeyStates /\ fin.logic = st.logic /\ fin.outs = st.outs /\ fin.snap = st.snap
        /\ fin.eofs = st.eofs /\ fin.late = st.late /\ fin.awoken = st.awoken
        /\ fin.sched = IF at = {} THEN st.sched ELSE at
    BY <2>1, <2>2 DEF KeyStates
  <2> HIDE DEF fin
  <2>5. Good(fin)
    BY <2>2, <2>4 DEF Good, Scheduled, Current
  <2>6. QED
    BY <2>3, <2>4, <2>5 DEF Keeps, FinalKeeps, KeyHas
<1>3. QED
  BY <1>1, <1>2

LEMMA SnapshotKeeps ==
  ASSUME NEW st, Good(st)
  PROVE  /\ Keeps(st, SnapshotStep(st)) /\ SnapshotStep(st).late = st.late
         /\ SnapshotStep(st).logic = st.logic
<1> DEFINE fin == [st EXCEPT !.snap = IF st.awoken THEN st.logic ELSE @, !.awoken = FALSE]
<1>1. SnapshotStep(st) = fin /\ st \in KeyStates
  BY DEF SnapshotStep, Good
<1>2. /\ fin \in KeyStates /\ fin.logic = st.logic /\ fin.outs = st.outs /\ fin.sched = st.sched
      /\ fin.eofs = st.eofs /\ fin.late = st.late /\ fin.awoken = FALSE
      /\ fin.snap = IF st.awoken THEN st.logic ELSE st.snap
  BY <1>1 DEF KeyStates
<1> HIDE DEF fin
<1>3. Good(fin)
  BY <1>2 DEF Good, Scheduled, Current
<1>4. QED
  BY <1>1, <1>2, <1>3 DEF Keeps, FinalKeeps, KeyHas

(* on_eof: the call is counted, and fold_final emits what it holds. *)
AtEof(st, res) ==
  /\ Good(res) /\ res.eofs = st.eofs + 1 /\ (st.eofs = 0 => res.late = st.late)
  /\ conf.logic = "fold_final" =>
       /\ Len(res.outs) <= Len(st.outs) + 1 /\ res.logic = {}
       /\ \A v : KeyHas(st, v) => KeyHas(res, v)

LEMMA EofIs ==
  ASSUME conf \in Configs, now \in Nat, NEW st, Good(st), NEW epoch \in Nat
  PROVE  AtEof(st, EofStep(st, epoch))
<1> DEFINE l == The(st.logic)
           told == [st EXCEPT !.eofs = @ + 1]
           res == OnEof(l)
           fin == Apply(told, epoch, res)
<1>1. st \in KeyStates /\ st.outs \in Seq(Out)
  BY DEF Good, KeyStates
<1>2. /\ told \in KeyStates /\ told.outs = st.outs /\ told.logic = st.logic /\ told.sched = st.sched
      /\ told.snap = st.snap /\ told.eofs = st.eofs + 1 /\ told.late = st.late
      /\ told.awoken = st.awoken
  BY <1>1 DEF KeyStates
<1>3. CASE st.logic = {}
  <2>1. EofStep(st, epoch) = told
    BY <1>3 DEF EofStep
  <2> HIDE DEF told
  <2>2. Good(told)
    BY <1>2 DEF Good, Scheduled, Current
  <2>3. QED
    BY <1>1, <1>2, <1>3, <2>1, <2>2 DEF AtEof, KeyHas
<1>4. CASE st.logic # {}
  <2>1. st.logic = {l} /\ l \in Logics
    BY <1>1, <1>4, OptionIs DEF KeyStates
  <2>2. res \in Result
    <3> HIDE DEF l
    <3>1. QED
      BY <2>1, LogicTypes
  <2>3. EofStep(st, epoch) = fin
    BY <1>4 DEF EofStep
  <2> HIDE DEF l, told, res
  <2>4. Applied(fin, told, res)
    BY <1>2, <2>2, ApplyIs
  <2> HIDE DEF fin
  <2>5. Good(fin) /\ fin.eofs = st.eofs + 1 /\ fin.late = st.late
    BY <1>2, <2>4 DEF Applied, Good, Scheduled, Current
  <2>6. ASSUME conf.logic = "fold_final"
        PROVE  /\ Len(fin.outs) = Len(st.outs) + 1 /\ fin.logic = {}
               /\ \A v : KeyHas(st, v) => KeyHas(fin, v)
    <3>1. res.emit = <<l.acc>> /\ res.discard = TRUE
      BY <2>6 DEF res, OnEof, Returns
    <3>2. Len(fin.outs) = Len(st.outs) + 1
      BY <1>2, <2>4, <3>1 DEF Applied
    <3>3. /\ \A j \in 1 .. Len(st.outs) : fin.outs[j] = st.outs[j]
          /\ fin.outs[Len(st.outs) + 1].value = l.acc
      <4>1. Len(res.emit) = 1 /\ res.emit[1] = l.acc
        BY <3>1
      <4>2. QED
        BY <1>2, <2>4, <4>1 DEF Applied
    <3>4. /\ DOMAIN st.outs = 1 .. Len(st.outs) /\ Len(st.outs) \in Nat
          /\ DOMAIN fin.outs = 1 .. Len(st.outs) + 1
      BY <1>1, <2>4, <3>2 DEF Applied, KeyStates
    <3>5. ASSUME NEW v, KeyHas(st, v)
          PROVE  KeyHas(fin, v)
      <4>1. CASE \E k \in st.logic : \E i \in DOMAIN k.acc : k.acc[i] = v
        <5>1. \E i \in DOMAIN l.acc : l.acc[i] = v
          BY <2>1, <4>1
        <5>2. Len(st.outs) + 1 \in DOMAIN fin.outs
          BY <3>4
        <5>3. QED
          BY <3>3, <5>1, <5>2 DEF KeyHas
      <4>2. CASE \E j \in DOMAIN st.outs : \E i \in DOMAIN st.outs[j].value : st.outs[j].value[i] = v
        <5>1. PICK j \in DOMAIN st.outs : \E i \in DOMAIN st.outs[j].value : st.outs[j].value[i] = v
          BY <4>2
        <5>2. j \in DOMAIN fin.outs /\ fin.outs[j] = st.outs[j]
          BY <3>3, <3>4
        <5>3. QED
          BY <5>1, <5>2 DEF KeyHas
      <4>3. QED
        BY <3>5, <4>1, <4>2 DEF KeyHas
    <3>6. fin.logic = {}
      BY <2>4, <3>1 DEF Applied
    <3>7. QED
      BY <3>2, <3>5, <3>6
  <2>7. Len(fin.outs) \in Nat /\ Len(st.outs) \in Nat
    <3>1. fin.outs \in Seq(Out)
      BY <2>4 DEF Applied, KeyStates
    <3>2. QED
      BY <1>1, <3>1
  <2>8. QED
    BY <2>3, <2>5, <2>6, <2>7 DEF AtEof
<1>5. QED
  BY <1>3, <1>4

LEMMA KeepsTwice ==
  ASSUME NEW a, NEW b, NEW c, Keeps(a, b), Keeps(b, c)
  PROVE  Keeps(a, c)
BY DEF Keeps, FinalKeeps

(* The items of an epoch, by the recursive function that takes them. *)
LEMMA TakeItemsIs ==
  ASSUME NEW st0, NEW k, NEW epoch, NEW buf \in Seq(Msg)
  PROVE  \E after : /\ after[0] = st0
                    /\ \A i \in 1 .. Len(buf) :
                         after[i] = IF buf[i].key = k /\ buf[i].epoch = epoch
                                    THEN ItemStep(after[i - 1], buf[i]) ELSE after[i - 1]
                    /\ TakeItems(st0, k, epoch, buf) = after[Len(buf)]
<1> DEFINE takes(i) == buf[i].key = k /\ buf[i].epoch = epoch
           n == Len(buf)
           G(f, i) == IF i = 0 THEN st0
                      ELSE IF takes(i) THEN ItemStep(f[i - 1], buf[i]) ELSE f[i - 1]
           Rec(f, m) == f = [i \in 0 .. m |-> G(f, i)]
           after == CHOOSE f : Rec(f, n)
<1>1. n \in Nat /\ \A i \in 1 .. n : buf[i] \in Msg
  OBVIOUS
<1>2. TakeItems(st0, k, epoch, buf) = after[n]
  BY DEF TakeItems
(* The function exists: there is none that is the shortest to be missing. *)
<1>3. \A m \in Nat : \E f : Rec(f, m)
  <2> DEFINE Bad == {m \in Nat : ~ \E f : Rec(f, m)}
  <2>1. SUFFICES ASSUME Bad # {}
                 PROVE  FALSE
    OBVIOUS
  <2>2. Bad \in SUBSET Nat
    OBVIOUS
  <2> HIDE DEF Bad
  <2>3. PICK m \in Bad : \A o \in Bad : m <= o
    BY <2>1, <2>2, NatHasLeast
  <2>4. m \in Nat /\ ~ \E f : Rec(f, m)
    BY DEF Bad
  <2>5. CASE m = 0
    <3> DEFINE f == [i \in 0 .. 0 |-> st0]
    <3>1. Rec(f, 0)
      OBVIOUS
    <3> HIDE DEF f, Rec
    <3>2. QED
      BY <2>4, <2>5, <3>1
  <2>6. CASE m # 0
    <3>1. m - 1 \in Nat /\ ~ (m <= m - 1)
      BY <2>4, <2>6
    <3>2. m - 1 \notin Bad
      BY <2>3, <3>1
    <3> HIDE DEF Rec
    <3>3. PICK g : Rec(g, m - 1)
      BY <3>1, <3>2 DEF Bad
    <3> USE DEF Rec
    <3> DEFINE x == IF takes(m) THEN ItemStep(g[m - 1], buf[m]) ELSE g[m - 1]
               f == [i \in 0 .. m |-> IF i = m THEN x ELSE g[i]]
    <3> HIDE DEF takes
    <3>4. \A i \in 0 .. m - 1 : g[i] = G(g, i)
      BY <3>3
    <3> HIDE DEF Rec
    <3>5. \A i \in 0 .. m : f[i] = G(f, i)
      <4>1. ASSUME NEW i \in 0 .. m
            PROVE  f[i] = G(f, i)
        <5>1. CASE i = m
          <6>1. f[i] = x /\ f[i - 1] = g[i - 1] /\ i # 0
            BY <2>4, <2>6, <5>1
          <6> HIDE DEF f
          <6>2. QED
            BY <5>1, <6>1
        <5>2. CASE i # m
          <6>1. i \in 0 .. m - 1 /\ f[i] = g[i] /\ (i # 0 => f[i - 1] = g[i - 1])
            BY <2>4, <5>2
          <6> HIDE DEF f
          <6>2. QED
            BY <3>4, <6>1
        <5>3. QED
          BY <5>1, <5>2
      <4>2. QED
        BY <4>1
    <3>6. DOMAIN f = 0 .. m /\ f = [i \in 0 .. m |-> f[i]]
      OBVIOUS
    <3> HIDE DEF f, G
    <3>7. f = [i \in 0 .. m |-> G(f, i)]
      BY <3>5, <3>6
    <3>8. Rec(f, m)
      BY <3>7 DEF Rec
    <3>9. QED
      BY <2>4, <3>8
  <2>7. QED
    BY <2>5, <2>6
<1>4. Rec(after, n)
  <2> HIDE DEF Rec
  <2>1. \E f : Rec(f, n)
    BY <1>1, <1>3
  <2>2. QED
    BY <2>1
<1> HIDE DEF takes
<1>5. \A i \in 0 .. n : after[i] = G(after, i)
  BY <1>4
<1> HIDE DEF after, Rec
<1>6. after[0] = st0 /\ \A i \in 1 .. n : after[i] = IF takes(i) THEN ItemStep(after[i - 1], buf[i])
                                                     ELSE after[i - 1]
  BY <1>1, <1>5
<1>7. QED
  BY <1>2, <1>6 DEF n, takes

LEMMA TakeItemsKeeps ==
  ASSUME conf \in Configs, now \in Nat, NEW st0, Good(st0), NEW k, NEW epoch, NEW buf \in Seq(Msg)
  PROVE  /\ Keeps(st0, TakeItems(st0, k, epoch, buf))
         /\ conf.logic = "fold_final" =>
              \A j \in 1 .. Len(buf) : buf[j].key = k /\ buf[j].epoch = epoch =>
                KeyHas(TakeItems(st0, k, epoch, buf), buf[j].value)
<1> DEFINE takes(i) == buf[i].key = k /\ buf[i].epoch = epoch
<1>1. PICK n \in Nat : n = Len(buf)
  OBVIOUS
<1>2. \A i \in 1 .. n : buf[i] \in Msg
  BY <1>1
<1>3. PICK after : /\ after[0] = st0
                   /\ \A i \in 1 .. n : after[i] = IF takes(i) THEN ItemStep(after[i - 1], buf[i])
                                                    ELSE after[i - 1]
                   /\ TakeItems(st0, k, epoch, buf) = after[n]
  BY <1>1, TakeItemsIs
<1> HIDE DEF takes
<1> DEFINE Fine(i) == /\ Keeps(st0, after[i])
                      /\ conf.logic = "fold_final" =>
                           \A j \in 1 .. i : takes(j) => KeyHas(after[i], buf[j].value)
(* Nor is there a first place where it would not keep what it should. *)
<1>4. \A i \in 0 .. n : Fine(i)
  <2> DEFINE Bad == {i \in 0 .. n : ~ Fine(i)}
  <2>1. SUFFICES ASSUME Bad # {}
                 PROVE  FALSE
    OBVIOUS
  <2>2. Bad \in SUBSET Nat
    OBVIOUS
  <2> HIDE DEF Bad
  <2>3. PICK m \in Bad : \A o \in Bad : m <= o
    BY <2>1, <2>2, NatHasLeast
  <2>4. m \in 0 .. n /\ ~ Fine(m)
    BY DEF Bad
  <2>5. Fine(0)
    BY <1>3 DEF Keeps, FinalKeeps
  <2>6. m # 0 /\ m - 1 \in 0 .. n /\ m \in 1 .. n
    <3> HIDE DEF Fine
    <3>1. QED
      BY <1>1, <2>4, <2>5
  <2>7. Fine(m - 1)
    <3>1. ~ (m <= m - 1)
      BY <2>6
    <3>2. m - 1 \notin Bad
      BY <2>3, <3>1
    <3> HIDE DEF Fine
    <3>3. QED
      BY <2>6, <3>2 DEF Bad
  <2>8. CASE takes(m)
    <3>1. after[m] = ItemStep(after[m - 1], buf[m])
      BY <1>3, <2>6, <2>8
    <3>2. PICK b : b = after[m - 1]
      OBVIOUS
    <3>3. PICK c : c = after[m]
      OBVIOUS
    <3>4. Good(b) /\ c = ItemStep(b, buf[m]) /\ buf[m] \in Msg
      BY <1>2, <2>6, <2>7, <3>1, <3>2, <3>3 DEF Keeps
    <3>5. Keeps(b, c) /\ (conf.logic = "fold_final" => KeyHas(c, buf[m].value))
      BY <3>4, ItemKeeps
    <3>6. Keeps(st0, c)
      BY <2>7, <3>2, <3>5, KeepsTwice
    <3>7. conf.logic = "fold_final" => \A j \in 1 .. m : takes(j) => KeyHas(c, buf[j].value)
      <4>1. \A j \in 1 .. m : j = m \/ j \in 1 .. m - 1
        BY <2>6
      <4>2. conf.logic = "fold_final" => \A j \in 1 .. m - 1 : takes(j) => KeyHas(c, buf[j].value)
        BY <2>7, <3>2, <3>5 DEF Keeps, FinalKeeps
      <4>3. QED
        BY <3>5, <4>1, <4>2
    <3>8. QED
      BY <2>4, <3>3, <3>6, <3>7
  <2>9. CASE ~ takes(m)
    <3>1. after[m] = after[m - 1]
      BY <1>3, <2>6, <2>9
    <3>2. \A j \in 1 .. m : takes(j) => j \in 1 .. m - 1
      BY <2>6, <2>9
    <3>3. QED
      BY <2>4, <2>7, <3>1, <3>2
  <2>10. QED
    BY <2>8, <2>9
<1>5. Fine(n)
  BY <1>4
<1>6. QED
  BY <1>1, <1>3, <1>5 DEF takes

(* All of an epoch. *)
LEMMA EpochIs ==
  ASSUME conf \in Configs, now \in Nat, NEW st0, Good(st0), NEW k, NEW epoch \in Nat,
         NEW buf \in Seq(Msg), NEW view
  PROVE  /\ IF view = {} THEN AtEof(st0, EpochStep(st0, k, epoch, buf, view))
                         ELSE Keeps(st0, EpochStep(st0, k, epoch, buf, view))
         /\ conf.logic = "fold_final" =>
              \A j \in 1 .. Len(buf) : buf[j].key = k /\ buf[j].epoch = epoch =>
                KeyHas(EpochStep(st0, k, epoch, buf, view), buf[j].value)
<1>1. PICK st1 : st1 = TakeItems(st0, k, epoch, buf)
  OBVIOUS
<1>2. PICK st2 : st2 = NotifyStep(st1, epoch)
  OBVIOUS
<1>3. PICK st3 : st3 = IF view = {} THEN EofStep(st2, epoch) ELSE st2
  OBVIOUS
<1>4. PICK st4 : st4 = Reschedule(st3)
  OBVIOUS
<1>5. PICK st5 : st5 = IF IsClosed(view, epoch) THEN SnapshotStep(st4) ELSE st4
  OBVIOUS
<1>6. EpochStep(st0, k, epoch, buf, view) = st5
  BY <1>1, <1>2, <1>3, <1>4, <1>5 DEF EpochStep
<1>7. /\ Keeps(st0, st1)
      /\ conf.logic = "fold_final" =>
           \A j \in 1 .. Len(buf) : buf[j].key = k /\ buf[j].epoch = epoch => KeyHas(st1, buf[j].value)
  BY <1>1, TakeItemsKeeps
<1>8. Keeps(st1, st2)
  <2>1. Good(st1)
    BY <1>7 DEF Keeps
  <2>2. QED
    BY <1>2, <2>1, NotifyKeeps
<1>9. Keeps(st0, st2)
  BY <1>7, <1>8, KeepsTwice
<1>10. Good(st2) /\ (view = {} => AtEof(st2, st3)) /\ Good(st3)
  <2>1. Good(st2)
    BY <1>8 DEF Keeps
  <2>2. AtEof(st2, EofStep(st2, epoch))
    BY <2>1, EofIs
  <2>3. QED
    BY <1>3, <2>1, <2>2 DEF AtEof
<1>11. Keeps(st3, st5) /\ st5.late = st3.late /\ st5.logic = st3.logic
  <2>1. Keeps(st3, st4) /\ st4.late = st3.late /\ st4.logic = st3.logic
    BY <1>4, <1>10, RescheduleKeeps
  <2>2. /\ Keeps(st4, SnapshotStep(st4)) /\ Keeps(st4, st4)
        /\ SnapshotStep(st4).late = st4.late /\ SnapshotStep(st4).logic = st4.logic
    <3>1. Good(st4)
      BY <2>1 DEF Keeps
    <3>2. QED
      BY <3>1, SnapshotKeeps DEF Keeps, FinalKeeps
  <2>3. QED
    BY <1>5, <2>1, <2>2, KeepsTwice
<1>12. CASE view = {}
  <2>1. AtEof(st0, st5)
    <3>1. /\ Good(st5) /\ st5.eofs = st3.eofs /\ st3.eofs = st2.eofs + 1 /\ st2.eofs = st0.eofs
          /\ st0.eofs \in Nat
      BY <1>9, <1>10, <1>11, <1>12 DEF AtEof, Keeps, Good, KeyStates
    <3>2. ASSUME st0.eofs = 0
          PROVE  st5.late = st0.late
      <4>1. st2.late = st0.late /\ st2.eofs = 0
        BY <1>9, <3>2 DEF Keeps
      <4>2. st3.late = st2.late
        BY <1>10, <1>12, <4>1 DEF AtEof
      <4>3. QED
        BY <1>11, <4>1, <4>2
    <3>3. ASSUME conf.logic = "fold_final"
          PROVE  /\ Len(st5.outs) <= Len(st0.outs) + 1 /\ st5.logic = {}
                 /\ \A v : KeyHas(st0, v) => KeyHas(st5, v)
      BY <1>9, <1>10, <1>11, <1>12, <3>3 DEF AtEof, Keeps, FinalKeeps
    <3>4. QED
      BY <3>1, <3>2, <3>3 DEF AtEof
  <2>2. conf.logic = "fold_final" => \A v : KeyHas(st1, v) => KeyHas(st5, v)
    BY <1>8, <1>10, <1>11, <1>12 DEF AtEof, Keeps, FinalKeeps
  <2>3. QED
    BY <1>6, <1>7, <1>12, <2>1, <2>2
<1>13. CASE view # {}
  <2>1. st3 = st2
    BY <1>3, <1>13
  <2>2. Keeps(st0, st5) /\ Keeps(st1, st5)
    BY <1>8, <1>9, <1>11, <2>1, KeepsTwice
  <2>3. conf.logic = "fold_final" => \A v : KeyHas(st1, v) => KeyHas(st5, v)
    BY <2>2 DEF Keeps, FinalKeeps
  <2>4. QED
    BY <1>6, <1>7, <1>13, <2>2, <2>3
<1>14. QED
  BY <1>12, <1>13

(* The epochs of an activation in order: none, one or two of them. *)
LEMMA KeyStepIs ==
  ASSUME NEW w \in Workers, NEW k \in MyKeys(w), NEW buf, NEW view,
         NEW c \in Nat, NEW f \in Nat, c <= f
  PROVE  LET x == EpochStep(KeyState(k), k, c, buf, view)
         IN  KeyStep(w, k, buf, {c, f}, view) = IF c = f THEN x ELSE EpochStep(x, k, f, buf, view)
<1> PICK st0 : st0 = KeyState(k)
  OBVIOUS
<1> PICK x : x = EpochStep(st0, k, c, buf, view)
  OBVIOUS
<1> PICK y : y = EpochStep(x, k, f, buf, view)
  OBVIOUS
<1> PICK epochs : epochs = {c, f}
  OBVIOUS
<1> DEFINE last == Max(epochs \cup {0})
           B(g, e) == IF e = 0 THEN st0 ELSE g[e - 1]
           G(g, e) == IF e \in epochs THEN EpochStep(B(g, e), k, e, buf, view) ELSE B(g, e)
           Rec(g) == g = [e \in 0 .. last |-> G(g, e)]
           after == CHOOSE g : Rec(g)
           Val(e) == IF e < c THEN st0 ELSE IF c = f \/ e < f THEN x ELSE y
<1>1. last = f
  <2>1. \A m \in Int : (m \in epochs \cup {0} /\ \A z \in epochs \cup {0} : m >= z) <=> m = f
    OBVIOUS
  <2>2. \A m \in epochs \cup {0} : m \in Int
    OBVIOUS
  <2>3. last = CHOOSE m \in epochs \cup {0} : \A z \in epochs \cup {0} : m >= z
    BY DEF Max
  <2>4. f \in epochs \cup {0} /\ \A z \in epochs \cup {0} : f >= z
    OBVIOUS
  <2>5. last \in epochs \cup {0} /\ \A z \in epochs \cup {0} : last >= z
    BY <2>3, <2>4
  <2>6. QED
    BY <2>1, <2>2, <2>5
<1>2. KeyStep(w, k, buf, epochs, view) = after[last]
  BY DEF KeyStep
<1> HIDE DEF last
<1>3. \A e \in 0 .. last : /\ e = 0 \/ e - 1 \in 0 .. last
                           /\ e # 0 /\ e < c => e - 1 < c
  BY <1>1
(* What a function that has these values up to e - 1 has for e. *)
<1>4. ASSUME NEW e \in 0 .. last, NEW g, e # 0 => g[e - 1] = Val(e - 1)
      PROVE  G(g, e) = Val(e)
  <2>1. e \in Nat /\ e <= f
    BY <1>1
  <2>2. CASE e < c
    <3>1. e \notin epochs /\ B(g, e) = st0
      BY <1>4, <2>1, <2>2
    <3>2. QED
      BY <2>1, <2>2, <3>1
  <2>3. CASE e = c
    <3>1. e \in epochs /\ B(g, e) = st0 /\ Val(e) = x
      BY <1>4, <2>1, <2>3
    <3>2. QED
      BY <2>3, <3>1
  <2>4. CASE c < e /\ e < f
    <3>1. e \notin epochs /\ B(g, e) = x /\ Val(e) = x
      BY <1>4, <2>1, <2>4
    <3>2. QED
      BY <3>1
  <2>5. CASE c < e /\ e = f
    <3>1. e \in epochs /\ B(g, e) = x /\ Val(e) = y
      BY <1>4, <2>1, <2>5
    <3>2. QED
      BY <2>5, <3>1
  <2>6. QED
    BY <2>1, <2>2, <2>3, <2>4, <2>5
<1> HIDE DEF G, Val
<1>5. Rec(after)
  <2> DEFINE h == [e \in 0 .. last |-> Val(e)]
  <2>1. \A e \in 0 .. last : e # 0 => h[e - 1] = Val(e - 1)
    BY <1>3
  <2>2. DOMAIN h = 0 .. last /\ \A e \in 0 .. last : h[e] = Val(e)
    OBVIOUS
  <2> HIDE DEF h
  <2>3. \A e \in 0 .. last : G(h, e) = Val(e)
    BY <1>4, <2>1
  <2>4. h = [e \in 0 .. last |-> Val(e)]
    BY DEF h
  <2>5. Rec(h)
    BY <2>3, <2>4
  <2> HIDE DEF Rec
  <2>6. QED
    BY <2>5
<1>6. \A e \in 0 .. last : after[e] = G(after, e)
  BY <1>5
<1> HIDE DEF after, Rec
<1>7. \A e \in 0 .. last : after[e] = Val(e)
  <2> DEFINE Bad == {e \in 0 .. last : after[e] # Val(e)}
  <2>1. SUFFICES ASSUME Bad # {}
                 PROVE  FALSE
    OBVIOUS
  <2>2. Bad \in SUBSET Nat
    BY <1>1
  <2> HIDE DEF Bad
  <2>3. PICK e \in Bad : \A o \in Bad : e <= o
    BY <2>1, <2>2, NatHasLeast
  <2>4. e \in 0 .. last /\ after[e] # Val(e) /\ e \in Nat
    BY <1>1 DEF Bad
  <2>5. ASSUME e # 0
        PROVE  after[e - 1] = Val(e - 1)
    <3>1. e - 1 \in 0 .. last /\ ~ (e <= e - 1)
      BY <1>3, <2>4, <2>5
    <3>2. e - 1 \notin Bad
      BY <2>3, <3>1
    <3>3. QED
      BY <3>1, <3>2 DEF Bad
  <2>6. QED
    BY <1>4, <1>6, <2>4, <2>5
<1>8. after[last] = Val(f)
  <2>1. last \in 0 .. last
    BY <1>1
  <2>2. QED
    BY <1>1, <1>7, <2>1
<1>9. Val(f) = IF c = f THEN x ELSE y
  BY DEF Val
<1>10. QED
  BY <1>2, <1>8, <1>9

LEMMA KeyStepNone ==
  ASSUME NEW w \in Workers, NEW k, NEW buf, NEW view
  PROVE  KeyStep(w, k, buf, {}, view) = KeyState(k)
<1> PICK st0 : st0 = KeyState(k)
  OBVIOUS
<1> DEFINE last == Max({} \cup {0})
           B(g, e) == IF e = 0 THEN st0 ELSE g[e - 1]
           G(g, e) == IF e \in {} THEN EpochStep(B(g, e), k, e, buf, view) ELSE B(g, e)
           Rec(g) == g = [e \in 0 .. last |-> G(g, e)]
           after == CHOOSE g : Rec(g)
<1>1. last = 0
  BY DEF Max
<1>2. k \in MyKeys(w) => KeyStep(w, k, buf, {}, view) = after[last]
  BY DEF KeyStep
<1> HIDE DEF last
<1>3. Rec(after)
  <2> DEFINE h == [e \in 0 .. last |-> st0]
  <2>1. Rec(h)
    BY <1>1
  <2> HIDE DEF h, Rec
  <2>2. QED
    BY <2>1
<1>4. after[last] = st0
  <2>1. 0 \in 0 .. last
    BY <1>1
  <2> HIDE DEF after
  <2>2. after[0] = G(after, 0)
    BY <1>3, <2>1
  <2>3. QED
    BY <1>1, <2>2
<1>5. QED
  BY <1>2, <1>4 DEF KeyStep

-----------------------------------------------------------------------------
(* What an activation sees. *)

LEMMA StepInIs ==
  \A e : e \in StepIn <=> \E w \in Workers : \/ e \in part[w].cap
                                             \/ \E j \in DOMAIN chan[w] : chan[w][j].epoch = e
<1>1. \A w, e : e \in Epochs(chan[w]) <=> \E j \in DOMAIN chan[w] : chan[w][j].epoch = e
  BY DEF Epochs, Range
<1>2. \A e : e \in StepIn <=> \E w \in Workers : e \in part[w].cap \cup Epochs(chan[w])
  BY DEF StepIn
<1> HIDE DEF StepIn
<1>3. QED
  BY <1>1, <1>2

LEMMA ViewIs ==
  ASSUME ThreadsInv, LinkInv, NEW w \in Workers, NEW view \in Views(w), cap[w] # {}
  PROVE  \/ view = {} /\ StepIn = {}
         \/ \E f \in Nat : /\ view = {f} /\ (\A e \in StepIn : f <= e)
                           /\ \A c \in cap[w] : c <= f
<1>1. cap[w] \in Options(Nat) /\ cap[w] = {The(cap[w])} /\ The(cap[w]) \in Nat
  BY OptionIs DEF ThreadsInv
<1>2. CASE StepIn = {}
  BY <1>1, <1>2 DEF Views
<1>3. CASE StepIn # {}
  <2>1. StepIn \subseteq Nat
    <3>1. \A v \in Workers : part[v].cap \subseteq Nat /\ chan[v] \in Seq(Msg)
      <4>1. \A v \in Workers : part[v] \in Part /\ chan[v] \in Seq(Msg)
        BY DEF ThreadsInv
      <4>2. QED
        BY <4>1, OptionIs DEF Part
    <3>2. \A v \in Workers : \A j \in DOMAIN chan[v] : chan[v][j].epoch \in Nat
      <4>1. \A v \in Workers : \A j \in DOMAIN chan[v] : chan[v][j] \in Msg
        BY <3>1
      <4>2. QED
        BY <4>1 DEF Msg
    <3>3. QED
      BY <3>1, <3>2, StepInIs
  <2>2. PICK s : s = StepIn
    OBVIOUS
  <2>3. PICK e \in s : \A g \in s : e <= g
    BY <1>3, <2>1, <2>2, NatHasLeast
  <2>4. PICK m : m = CHOOSE d \in Simplify(StepIn) : TRUE
    OBVIOUS
  <2>5. m \in Simplify(StepIn)
    BY <2>2, <2>3, <2>4 DEF Simplify
  <2>6. m \in Nat /\ \A g \in StepIn : m <= g
    BY <2>1, <2>5 DEF Simplify
  <2>7. Views(w) = {{f} : f \in {g \in 0 .. m : ~ IsClosed(cap[w], g)}}
    BY <1>3, <2>4 DEF Views
  <2>8. PICK f \in 0 .. m : view = {f} /\ ~ IsClosed(cap[w], f)
    BY <2>7
  <2>9. f \in Nat /\ (\A g \in StepIn : f <= g)
    BY <2>1, <2>6, <2>8
  <2>10. \A c \in cap[w] : c <= f
    BY <1>1, <2>8, <2>9 DEF IsClosed
  <2>11. QED
    BY <2>8, <2>9, <2>10
<1>4. QED
  BY <1>2, <1>3

(* The activation on w at capability c: what it has read, and the epochs it *)
(* works on.  At EOF there is no input, and only epoch c.  Before, items    *)
(* are there only if the frontier is at c, and they are all of epoch c.     *)
WorkedOn(n, view, c, epochs) ==
  \/ view = {} /\ StepIn = {} /\ n = 0 /\ epochs = {c, c}
  \/ \E f \in Nat : /\ view = {f} /\ c <= f /\ (\A e \in StepIn : f <= e)
                    /\ epochs = {} \/ epochs = {c, f}
                    /\ n # 0 => f = c
Activation(w, n, view, buf, c, epochs) ==
  /\ cap[w] = {c} /\ c \in Nat
  /\ buf \in Seq(Msg) /\ Len(buf) = n /\ (\A j \in 1 .. n : buf[j] = chan[w][j])
  /\ \A j \in 1 .. n : buf[j].epoch = c /\ c \in epochs
  /\ WorkedOn(n, view, c, epochs)
  /\ CapAfter(w, epochs, view) = view

LEMMA BufferIs ==
  ASSUME ThreadsInv, LinkInv, NEW w \in Workers, NEW n \in 0 .. Len(chan[w]),
         NEW buf, buf = inbuf[w] \o SubSeq(chan[w], 1, n)
  PROVE  buf \in Seq(Msg) /\ Len(buf) = n /\ \A j \in 1 .. n : buf[j] = chan[w][j]
<1>1. chan[w] \in Seq(Msg) /\ inbuf[w] = <<>>
  BY DEF ThreadsInv, LinkInv
<1>2. SubSeq(chan[w], 1, n) \in Seq(Msg) /\ Len(SubSeq(chan[w], 1, n)) = n
      /\ \A j \in 1 .. n : SubSeq(chan[w], 1, n)[j] = chan[w][j]
  BY <1>1
<1>3. PICK s \in Seq(Msg) : s = SubSeq(chan[w], 1, n)
  BY <1>2
<1>4. buf = s
  BY <1>1, <1>3
<1>5. QED
  BY <1>2, <1>3, <1>4

(* What has been read is of epoch c, which is upstream. *)
LEMMA ReadIs ==
  ASSUME ThreadsInv, LinkInv, NEW w \in Workers, NEW n \in 0 .. Len(chan[w]),
         NEW c \in cap[w], NEW j \in 1 .. n
  PROVE  chan[w][j].epoch = c /\ c \in StepIn /\ c >= ResumeEpoch
<1>1. j \in DOMAIN chan[w]
  <2>1. chan[w] \in Seq(Msg)
    BY DEF ThreadsInv
  <2>2. QED
    BY <2>1
<1>2. cap[w] = {chan[w][j].epoch}
  BY <1>1 DEF LinkInv
<1>3. chan[w][j].epoch = c
  BY <1>2
<1>4. chan[w][j].epoch \in StepIn
  BY <1>1, StepInIs
<1>5. c \in StepIn
  BY <1>3, <1>4
<1>6. c >= ResumeEpoch
  BY <1>5 DEF LinkInv
<1>7. QED
  BY <1>3, <1>5, <1>6

LEMMA ProcessEpochsIs ==
  ASSUME NEW buf \in Seq(Msg), NEW c \in Nat, \A j \in 1 .. Len(buf) : buf[j].epoch = c,
         NEW view
  PROVE  ProcessEpochs(buf, c, view)
           = {x \in {c} : IsClosed(view, x)}
                    \cup {x \in (IF view = {} THEN {c} ELSE view) : x >= ResumeEpoch}
<1>1. \A x \in Epochs(buf) : x = c
  BY DEF Epochs, Range
<1>2. {c} \cup Epochs(buf) = {c}
  BY <1>1
<1>3. QED
  BY <1>2 DEF ProcessEpochs

LEMMA CapAfterIs ==
  ASSUME NEW w, NEW c \in Nat, NEW f \in Nat, c <= f
  PROVE  /\ CapAfter(w, {c, f}, {f}) = {f}
         /\ CapAfter(w, {}, {f}) = cap[w]
<1>1. {c, f} # {} /\ {f} # {}
  OBVIOUS
<1>2. CapAfter(w, {c, f}, {f}) = {x \in {c, f} : \A y \in {c, f} : y <= x}
  BY <1>1 DEF CapAfter
<1>3. {x \in {c, f} : \A y \in {c, f} : y <= x} = {f}
  OBVIOUS
<1>4. CapAfter(w, {}, {f}) = cap[w]
  BY <1>1 DEF CapAfter
<1>5. QED
  BY <1>2, <1>3, <1>4

LEMMA CapAfterEof == \A w, epochs : CapAfter(w, epochs, {}) = {}
  BY DEF CapAfter

LEMMA ActivationIs ==
  ASSUME ThreadsInv, LinkInv, NEW w \in Workers, cap[w] # {},
         NEW n \in 0 .. Len(chan[w]), NEW view \in Views(w),
         NEW c \in Nat, cap[w] = {c},
         NEW buf \in Seq(Msg), Len(buf) = n, \A j \in 1 .. n : buf[j] = chan[w][j],
         NEW epochs, epochs = ProcessEpochs(buf, c, view)
  PROVE  Activation(w, n, view, buf, c, epochs)
<1>1. cap[w] = {c} /\ c \in Nat
  OBVIOUS
<1>2. buf \in Seq(Msg) /\ Len(buf) = n /\ \A j \in 1 .. n : buf[j] = chan[w][j]
  OBVIOUS
<1>3. \A j \in 1 .. n : chan[w][j].epoch = c /\ c \in StepIn /\ c >= ResumeEpoch
  <2>1. ASSUME NEW j \in 1 .. n
        PROVE  chan[w][j].epoch = c /\ c \in StepIn /\ c >= ResumeEpoch
    <3>1. c \in cap[w]
      BY <1>1
    <3>2. QED
      BY <3>1, ReadIs
  <2>2. QED
    BY <2>1
<1>4. n \in Nat
  <2>1. chan[w] \in Seq(Msg)
    BY DEF ThreadsInv
  <2>2. QED
    BY <2>1
<1>5. \A j \in 1 .. n : buf[j].epoch = c
  BY <1>2, <1>3
<1>6. n # 0 => c \in StepIn /\ c >= ResumeEpoch
  <2>1. n # 0 => 1 \in 1 .. n
    BY <1>4
  <2>2. QED
    BY <1>3, <2>1
<1>7. epochs = {x \in {c} : IsClosed(view, x)}
                 \cup {x \in (IF view = {} THEN {c} ELSE view) : x >= ResumeEpoch}
  <2>1. \A j \in 1 .. Len(buf) : buf[j].epoch = c
    BY <1>2, <1>5
  <2>2. QED
    BY <1>1, <1>2, <2>1, ProcessEpochsIs
<1>8. CASE view = {} /\ StepIn = {}
  <2>1. n = 0
    BY <1>6, <1>8
  <2>2. epochs = {c, c}
    BY <1>7, <1>8 DEF IsClosed
  <2>3. CapAfter(w, epochs, view) = view
    BY <1>8, CapAfterEof
  <2>4. \A j \in 1 .. n : buf[j].epoch = c /\ c \in epochs
    BY <1>5, <2>2
  <2>5. view = {} /\ StepIn = {}
    BY <1>8
  <2>6. WorkedOn(n, view, c, epochs)
    BY <2>1, <2>2, <2>5 DEF WorkedOn
  <2>7. QED
    BY <1>1, <1>2, <2>3, <2>4, <2>6 DEF Activation
<1>9. ASSUME NEW f \in Nat, view = {f}, \A e \in StepIn : f <= e, c <= f
      PROVE  Activation(w, n, view, buf, c, epochs)
  <2>1. n # 0 => f = c /\ c >= 1
    BY <1>1, <1>6, <1>9 DEF ResumeEpoch
  <2>2. IsClosed(view, c) <=> c < f
    BY <1>9 DEF IsClosed
  <2>3. {x \in (IF view = {} THEN {c} ELSE view) : x >= ResumeEpoch} = (IF f >= 1 THEN {f} ELSE {})
    BY <1>9 DEF ResumeEpoch
  <2>4. {x \in {c} : IsClosed(view, x)} = (IF c < f THEN {c} ELSE {})
    BY <2>2
  <2>5. epochs = (IF c < f THEN {c} ELSE {}) \cup (IF f >= 1 THEN {f} ELSE {})
    BY <1>7, <2>3, <2>4
  <2>6. epochs = {c, f} \/ (epochs = {} /\ c = f)
    <3>1. CASE c < f
      <4>1. f >= 1
        BY <1>1, <3>1
      <4>2. QED
        BY <2>5, <3>1, <4>1
    <3>2. CASE ~ (c < f)
      <4>1. c = f
        BY <1>1, <1>9, <3>2
      <4>2. QED
        BY <2>5, <3>2, <4>1
    <3>3. QED
      BY <3>1, <3>2
  <2>7. CapAfter(w, epochs, view) = view
    <3>1. c \in Nat /\ f \in Nat /\ c <= f
      BY <1>1, <1>9
    <3>2. CapAfter(w, {c, f}, {f}) = {f} /\ CapAfter(w, {}, {f}) = cap[w]
      BY <3>1, CapAfterIs
    <3>3. QED
      BY <1>1, <1>9, <2>6, <3>2
  <2>8. \A j \in 1 .. n : buf[j].epoch = c /\ c \in epochs
    <3>1. n # 0 => c \in epochs
      BY <2>1, <2>5
    <3>2. ASSUME NEW j \in 1 .. n
          PROVE  buf[j].epoch = c /\ c \in epochs
      <4>1. n # 0
        BY <1>4, <3>2
      <4>2. QED
        BY <1>5, <3>1, <3>2, <4>1
    <3>3. QED
      BY <3>2
  <2>9. WorkedOn(n, view, c, epochs)
    <3>1. epochs = {} \/ epochs = {c, f}
      BY <2>6
    <3>2. QED
      BY <1>9, <2>1, <3>1 DEF WorkedOn
  <2>10. QED
    BY <1>1, <1>2, <2>7, <2>8, <2>9 DEF Activation
<1>10. QED
  <2>1. \/ view = {} /\ StepIn = {}
        \/ \E f \in Nat : /\ view = {f} /\ (\A e \in StepIn : f <= e)
                          /\ \A d \in cap[w] : d <= f
    BY ViewIs
  <2>2. CASE view = {} /\ StepIn = {}
    BY <1>8, <2>2
  <2>3. ASSUME NEW f \in Nat, view = {f}, \A e \in StepIn : f <= e, \A d \in cap[w] : d <= f
        PROVE  Activation(w, n, view, buf, c, epochs)
    <3>1. c <= f
      BY <1>1, <2>3
    <3>2. QED
      BY <1>9, <2>3, <3>1
  <2>4. QED
    BY <2>1, <2>2, <2>3

(* All that has been read is worked on. *)
LEMMA UnreadNone ==
  ASSUME NEW buf \in Seq(Msg), NEW epochs, \A j \in 1 .. Len(buf) : buf[j].epoch \in epochs
  PROVE  Unread(buf, epochs) = <<>>
<1> DEFINE n == Len(buf)
           G(f, i) == IF i = 0 THEN <<>>
                      ELSE IF buf[i].epoch \in epochs THEN f[i - 1] ELSE Append(f[i - 1], buf[i])
           Rec(f) == f = [i \in 0 .. n |-> G(f, i)]
           left == CHOOSE f : Rec(f)
<1>1. Unread(buf, epochs) = left[n]
  BY DEF Unread
<1>2. Rec(left)
  <2> DEFINE f == [i \in 0 .. n |-> <<>>]
  <2>1. \A i \in 0 .. n : G(f, i) = <<>>
    <3>1. ASSUME NEW i \in 0 .. n, i # 0
          PROVE  buf[i].epoch \in epochs /\ i - 1 \in 0 .. n
      BY <3>1
    <3>2. QED
      BY <3>1
  <2>2. f = [i \in 0 .. n |-> <<>>]
    OBVIOUS
  <2> HIDE DEF f, G
  <2>3. Rec(f)
    BY <2>1, <2>2
  <2> HIDE DEF Rec
  <2>4. QED
    BY <2>3
<1>3. \A i \in 0 .. n : left[i] = G(left, i)
  BY <1>2
<1> HIDE DEF left
<1>4. left[0] = <<>> /\ \A i \in 1 .. n : left[i] = left[i - 1]
  BY <1>3
<1>5. \A i \in 0 .. n : left[i] = <<>>
  <2> DEFINE Bad == {i \in 0 .. n : left[i] # <<>>}
  <2>1. SUFFICES ASSUME Bad # {}
                 PROVE  FALSE
    OBVIOUS
  <2>2. Bad \in SUBSET Nat
    OBVIOUS
  <2> HIDE DEF Bad
  <2>3. PICK i \in Bad : \A o \in Bad : i <= o
    BY <2>1, <2>2, NatHasLeast
  <2>4. i \in 0 .. n /\ left[i] # <<>>
    BY DEF Bad
  <2>5. i \in 1 .. n /\ i - 1 \in 0 .. n /\ ~ (i <= i - 1)
    BY <1>4, <2>4
  <2>6. i - 1 \notin Bad
    BY <2>3, <2>5
  <2>7. left[i - 1] = <<>>
    BY <2>5, <2>6 DEF Bad
  <2>8. QED
    BY <1>4, <2>4, <2>5, <2>7
<1>6. QED
  BY <1>1, <1>5

-----------------------------------------------------------------------------
(* One activation of the operator. *)

(* What it does to a key: on_eof once, at EOF; the items of it are taken.   *)
KeptBy(st, res, view) == IF view = {} THEN AtEof(st, res) ELSE Keeps(st, res)
Taken(k, res, buf) ==
  conf.logic = "fold_final" => \A j \in 1 .. Len(buf) : buf[j].key = k => KeyHas(res, buf[j].value)

LEMMA EpochKeeps ==
  ASSUME conf \in Configs, now \in Nat, NEW st, Good(st), NEW k, NEW c \in Nat,
         NEW buf \in Seq(Msg), \A j \in 1 .. Len(buf) : buf[j].epoch = c, NEW view
  PROVE  /\ KeptBy(st, EpochStep(st, k, c, buf, view), view)
         /\ Taken(k, EpochStep(st, k, c, buf, view), buf)
<1> PICK res : res = EpochStep(st, k, c, buf, view)
  OBVIOUS
<1>1. /\ IF view = {} THEN AtEof(st, res) ELSE Keeps(st, res)
      /\ conf.logic = "fold_final" =>
           \A j \in 1 .. Len(buf) : buf[j].key = k /\ buf[j].epoch = c => KeyHas(res, buf[j].value)
  BY EpochIs
<1>2. KeptBy(st, res, view)
  BY <1>1 DEF KeptBy
<1>3. Taken(k, res, buf)
  BY <1>1 DEF Taken
<1>4. QED
  BY <1>2, <1>3

LEMMA KeyStepKeeps ==
  ASSUME conf \in Configs, now \in Nat, NEW w \in Workers, NEW k \in MyKeys(w), Good(KeyState(k)),
         NEW n, NEW view, NEW buf, NEW c, NEW epochs, Activation(w, n, view, buf, c, epochs)
  PROVE  /\ KeptBy(KeyState(k), KeyStep(w, k, buf, epochs, view), view)
         /\ Taken(k, KeyStep(w, k, buf, epochs, view), buf)
<1> PICK st : st = KeyState(k)
  OBVIOUS
<1> PICK x : x = EpochStep(st, k, c, buf, view)
  OBVIOUS
<1> PICK res : res = KeyStep(w, k, buf, epochs, view)
  OBVIOUS
<1>1. /\ c \in Nat /\ buf \in Seq(Msg) /\ Len(buf) = n /\ WorkedOn(n, view, c, epochs)
      /\ \A j \in 1 .. n : buf[j].epoch = c /\ c \in epochs
  BY DEF Activation
<1>2. KeptBy(st, x, view) /\ Taken(k, x, buf)
  <2>1. \A j \in 1 .. Len(buf) : buf[j].epoch = c
    BY <1>1
  <2>2. QED
    BY <1>1, <2>1, EpochKeeps
<1>3. \A f \in Nat : c <= f =>
        KeyStep(w, k, buf, {c, f}, view) = IF c = f THEN x ELSE EpochStep(x, k, f, buf, view)
  BY <1>1, KeyStepIs
<1>4. CASE view = {} /\ epochs = {c, c}
  <2>1. res = x
    BY <1>1, <1>3, <1>4
  <2>2. QED
    BY <1>2, <2>1
<1>5. CASE view # {} /\ epochs = {}
  <2>1. res = st
    BY <1>5, KeyStepNone
  <2>2. \A j \in 1 .. Len(buf) : FALSE
    BY <1>1, <1>5
  <2>3. Keeps(st, st)
    BY DEF Keeps, FinalKeeps
  <2>4. QED
    BY <1>5, <2>1, <2>2, <2>3 DEF KeptBy, Taken
<1>6. ASSUME NEW f \in Nat, c <= f, view # {}, epochs = {c, f}
      PROVE  KeptBy(st, res, view) /\ Taken(k, res, buf)
  <2>1. CASE c = f
    <3>1. res = x
      BY <1>1, <1>3, <1>6, <2>1
    <3>2. QED
      BY <1>2, <3>1
  <2>2. CASE c # f
    <3>1. res = EpochStep(x, k, f, buf, view)
      BY <1>3, <1>6, <2>2
    <3>2. Keeps(st, x) /\ Good(x)
      BY <1>2, <1>6 DEF KeptBy, Keeps
    <3>3. Keeps(x, res)
      <4>1. IF view = {} THEN AtEof(x, res) ELSE Keeps(x, res)
        BY <1>1, <3>1, <3>2, EpochIs
      <4>2. QED
        BY <1>6, <4>1
    <3>4. Keeps(st, res)
      BY <3>2, <3>3, KeepsTwice
    <3>5. conf.logic = "fold_final" => \A v : KeyHas(x, v) => KeyHas(res, v)
      BY <3>3 DEF Keeps, FinalKeeps
    <3>6. QED
      BY <1>2, <1>6, <3>4, <3>5 DEF KeptBy, Taken
  <2>3. QED
    BY <2>1, <2>2
<1>7. QED
  <2>1. \/ view = {} /\ epochs = {c, c}
        \/ \E f \in Nat : view # {} /\ c <= f /\ (epochs = {} \/ epochs = {c, f})
    BY <1>1 DEF WorkedOn
  <2>2. CASE view = {} /\ epochs = {c, c}
    BY <1>4, <2>2
  <2>3. CASE \E f \in Nat : view # {} /\ c <= f /\ (epochs = {} \/ epochs = {c, f})
    BY <1>5, <1>6, <2>3
  <2>4. QED
    BY <2>1, <2>2, <2>3

LEMMA KeyStepOther ==
  ASSUME NEW w, NEW k \in Keys, WorkerOf[k] # w, NEW buf, NEW epochs, NEW view
  PROVE  KeyStep(w, k, buf, epochs, view) = KeyState(k)
BY DEF KeyStep, MyKeys

-----------------------------------------------------------------------------
(* The order of a key's items over one activation. *)

LEMMA ValuesIs ==
  ASSUME NEW s \in Seq(Out), NEW t, t = Values(s)
  PROVE  /\ t \in Seq(Seq(Items)) /\ Len(t) = Len(s) /\ Len(s) \in Nat
         /\ DOMAIN s = 1 .. Len(s) /\ \A j \in DOMAIN s : t[j] = s[j].value
<1>1. DOMAIN s = 1 .. Len(s) /\ Len(s) \in Nat /\ \A j \in 1 .. Len(s) : s[j] \in Out
  OBVIOUS
<1>2. \A j \in 1 .. Len(s) : s[j].value \in Seq(Items)
  BY <1>1 DEF Out
<1>3. t = [j \in 1 .. Len(s) |-> s[j].value]
  BY <1>1 DEF Values
<1>4. QED
  BY <1>1, <1>2, <1>3

(* A list of lists after another, and an item after a list.                 *)
LEMMA OrderlyJoin ==
  ASSUME NEW X \in Seq(Seq(Items)), NEW Y \in Seq(Seq(Items)), NEW Z \in Seq(Seq(Items)),
         Len(Z) = Len(X) + Len(Y), \A j \in 1 .. Len(X) : Z[j] = X[j],
         \A j \in 1 .. Len(Y) : Z[Len(X) + j] = Y[j]
  PROVE  /\ AllOf(Z) = AllOf(X) \cup AllOf(Y)
         /\ Orderly(X) /\ Orderly(Y) /\ Precede(AllOf(X), AllOf(Y)) => Orderly(Z)
<1>1. PICK S : S = Seq(Items)
  OBVIOUS
<1>2. X \in Seq(S) /\ Y \in Seq(S) /\ Z \in Seq(S)
  BY <1>1
<1>3. PICK m \in Nat : m = Len(X)
  BY <1>2
<1>4. PICK n \in Nat : n = Len(Y)
  BY <1>2
<1>5. DOMAIN X = 1 .. m /\ DOMAIN Y = 1 .. n /\ DOMAIN Z = 1 .. m + n
  BY <1>2, <1>3, <1>4
<1>6. ASSUME NEW j \in DOMAIN Z
      PROVE  \/ j \in DOMAIN X /\ j <= m /\ Z[j] = X[j]
             \/ j - m \in DOMAIN Y /\ j > m /\ Z[j] = Y[j - m]
  <2>1. CASE j <= m
    BY <1>3, <1>5, <2>1
  <2>2. CASE ~ (j <= m)
    <3>1. j \in 1 .. m + n
      BY <1>5
    <3>2. j - m \in 1 .. n /\ j = m + (j - m) /\ j > m
      BY <2>2, <3>1
    <3>3. PICK i \in 1 .. n : i = j - m
      BY <3>2
    <3>4. Z[m + i] = Y[i]
      BY <1>3, <1>4
    <3>5. Z[j] = Y[j - m]
      BY <3>2, <3>3, <3>4
    <3>6. QED
      BY <1>5, <3>2, <3>5
  <2>3. QED
    BY <2>1, <2>2
<1>7. \A j \in DOMAIN X : j \in DOMAIN Z /\ Z[j] = X[j]
  BY <1>3, <1>5
<1>8. \A j \in DOMAIN Y : m + j \in DOMAIN Z /\ Z[m + j] = Y[j]
  <2>1. \A j \in DOMAIN Y : m + j \in DOMAIN Z
    BY <1>5
  <2>2. QED
    BY <1>3, <1>4, <1>5, <2>1
<1>9. AllOf(Z) = AllOf(X) \cup AllOf(Y)
  <2>1. \A v : v \in AllOf(Z) => v \in AllOf(X) \cup AllOf(Y)
    BY <1>6 DEF AllOf
  <2>2. \A v : v \in AllOf(X) => v \in AllOf(Z)
    BY <1>7 DEF AllOf
  <2>3. \A v : v \in AllOf(Y) => v \in AllOf(Z)
    BY <1>8 DEF AllOf
  <2>4. QED
    BY <2>1, <2>2, <2>3
<1>10. ASSUME Orderly(X), Orderly(Y), Precede(AllOf(X), AllOf(Y))
       PROVE  Orderly(Z)
  <2>1. \A j \in DOMAIN Z : Increasing(Z[j])
    BY <1>6, <1>10 DEF Orderly
  <2>2. ASSUME NEW i \in DOMAIN Z, NEW j \in DOMAIN Z, i < j
        PROVE  Precede(Range(Z[i]), Range(Z[j]))
    <3>1. i \in Int /\ j \in Int
      BY <1>5
    <3>2. CASE i <= m /\ j <= m
      <4>1. i \in DOMAIN X /\ j \in DOMAIN X /\ Z[i] = X[i] /\ Z[j] = X[j]
        BY <1>6, <3>1, <3>2
      <4>2. QED
        BY <1>10, <2>2, <4>1 DEF Orderly
    <3>3. CASE i <= m /\ j > m
      <4>1. i \in DOMAIN X /\ j - m \in DOMAIN Y /\ Z[i] = X[i] /\ Z[j] = Y[j - m]
        BY <1>6, <3>1, <3>3
      <4>2. Range(X[i]) \subseteq AllOf(X) /\ Range(Y[j - m]) \subseteq AllOf(Y)
        BY <4>1 DEF AllOf
      <4>3. QED
        BY <1>10, <4>1, <4>2 DEF Precede
    <3>4. CASE i > m
      <4>1. /\ i - m \in DOMAIN Y /\ j - m \in DOMAIN Y /\ Z[i] = Y[i - m] /\ Z[j] = Y[j - m]
            /\ i - m < j - m
        BY <1>6, <2>2, <3>1, <3>4
      <4>2. QED
        BY <1>10, <4>1 DEF Orderly
    <3>5. QED
      BY <2>2, <3>1, <3>2, <3>3, <3>4
  <2>3. QED
    BY <2>1, <2>2 DEF Orderly
<1>11. QED
  BY <1>9, <1>10

LEMMA ConcatOrder ==
  ASSUME NEW X \in Seq(Seq(Items)), NEW Y \in Seq(Seq(Items)), NEW Z, Z = X \o Y
  PROVE  /\ Z \in Seq(Seq(Items)) /\ AllOf(Z) = AllOf(X) \cup AllOf(Y)
         /\ Orderly(X) /\ Orderly(Y) /\ Precede(AllOf(X), AllOf(Y)) => Orderly(Z)
<1>1. /\ Z \in Seq(Seq(Items)) /\ Len(Z) = Len(X) + Len(Y)
      /\ \A j \in 1 .. Len(X) : Z[j] = X[j]
      /\ \A j \in 1 .. Len(Y) : Z[Len(X) + j] = Y[j]
  <2>1. PICK S : S = Seq(Items)
    OBVIOUS
  <2>2. X \in Seq(S) /\ Y \in Seq(S)
    BY <2>1
  <2>3. /\ Z \in Seq(S) /\ DOMAIN X = 1 .. Len(X) /\ Len(Z) = Len(X) + Len(Y)
        /\ \A j \in DOMAIN X : Z[j] = X[j]
        /\ \A j \in 1 .. Len(Y) : Z[Len(X) + j] = Y[j]
    BY <2>2, ConcatIs
  <2>4. QED
    BY <2>1, <2>3
<1>2. QED
  BY <1>1, OrderlyJoin

LEMMA AppendOrder ==
  ASSUME NEW a \in Seq(Items), NEW v \in Items
  PROVE  /\ Append(a, v) \in Seq(Items)
         /\ Range(Append(a, v)) = Range(a) \cup {v}
         /\ Increasing(a) /\ Precede(Range(a), {v}) => Increasing(Append(a, v))
<1>1. PICK b : b = Append(a, v)
  OBVIOUS
<1>2. PICK n \in Nat : n = Len(a)
  OBVIOUS
<1>3. /\ b \in Seq(Items) /\ DOMAIN a = 1 .. n /\ DOMAIN b = 1 .. n + 1
      /\ (\A i \in DOMAIN a : b[i] = a[i]) /\ b[n + 1] = v
  BY <1>1, <1>2, AppendIs
<1>4. \A i \in DOMAIN b : i \in DOMAIN a \/ i = n + 1
  BY <1>3
<1>5. Range(b) = Range(a) \cup {v}
  <2>1. \A i \in DOMAIN a : i \in DOMAIN b
    BY <1>3
  <2>2. n + 1 \in DOMAIN b
    BY <1>3
  <2>3. QED
    BY <1>3, <1>4, <2>1, <2>2 DEF Range
<1>6. ASSUME Increasing(a), Precede(Range(a), {v})
      PROVE  Increasing(b)
  <2>1. SUFFICES ASSUME NEW i \in DOMAIN b, NEW j \in DOMAIN b, i < j, b[i][1] = b[j][1]
                 PROVE  b[i][2] < b[j][2]
    BY DEF Increasing
  <2>2. i \in DOMAIN a /\ b[i] = a[i]
    BY <1>3, <2>1
  <2>3. CASE j \in DOMAIN a
    BY <1>3, <1>6, <2>1, <2>2, <2>3 DEF Increasing
  <2>4. CASE j = n + 1
    <3>1. b[j] = v
      BY <1>3, <2>4
    <3>2. a[i] \in Range(a)
      BY <2>2 DEF Range
    <3>3. QED
      BY <1>6, <2>1, <2>2, <3>1, <3>2 DEF Precede
  <2>5. QED
    BY <1>4, <2>3, <2>4
<1>7. QED
  BY <1>1, <1>3, <1>5, <1>6

(* What an answer does to a key: the list a that the logic holds after the  *)
(* call stays, or is emitted and the logic dropped.                         *)
Flushes(res, a) ==
  \/ ~ res.discard /\ res.emit = <<>> /\ res.logic.acc = a
  \/ res.discard /\ res.emit = <<a>>

LEMMA AppliedOrder ==
  ASSUME NEW st \in KeyStates, NEW told \in KeyStates, told.outs = st.outs, NEW res \in Result, NEW r,
         Applied(r, told, res), NEW a \in Seq(Items), Flushes(res, a),
         Orderly(Values(st.outs)), Increasing(a), Precede(AllOf(Values(st.outs)), Range(a))
  PROVE  KeyOrder(r) /\ Mine(r) = AllOf(Values(st.outs)) \cup Range(a)
<1>1. PICK s \in Seq(Out) : s = st.outs
  BY DEF KeyStates
<1>2. PICK q \in Seq(Out) : q = r.outs
  BY DEF Applied, KeyStates
<1>3. PICK X : X = Values(s)
  OBVIOUS
<1>4. PICK Z : Z = Values(q)
  OBVIOUS
<1>5. /\ X \in Seq(Seq(Items)) /\ Len(X) = Len(s) /\ Len(s) \in Nat
      /\ DOMAIN s = 1 .. Len(s) /\ \A j \in DOMAIN s : X[j] = s[j].value
  BY <1>3, ValuesIs
<1>6. /\ Z \in Seq(Seq(Items)) /\ Len(Z) = Len(q) /\ Len(q) \in Nat
      /\ DOMAIN q = 1 .. Len(q) /\ \A j \in DOMAIN q : Z[j] = q[j].value
  BY <1>4, ValuesIs
<1>7. /\ Len(q) = Len(s) + Len(res.emit) /\ \A j \in 1 .. Len(s) : q[j] = s[j]
      /\ \A j \in 1 .. Len(res.emit) : q[Len(s) + j].value = res.emit[j]
      /\ r.logic = (IF res.discard THEN {} ELSE {res.logic})
  BY <1>1, <1>2 DEF Applied
<1>8. PICK Y \in Seq(Seq(Items)) : Y = res.emit
  BY DEF Result
<1>9. PICK m \in Nat : m = Len(s)
  BY <1>5
<1>10. PICK n \in Nat : n = Len(Y)
  BY <1>8
<1>11. Len(q) = m + n
  BY <1>7, <1>8, <1>9, <1>10
<1>12. \A j \in 1 .. Len(X) : Z[j] = X[j]
  <2>1. \A j \in 1 .. m : j \in DOMAIN s /\ j \in DOMAIN q
    BY <1>5, <1>6, <1>9, <1>11
  <2>2. \A j \in 1 .. m : q[j] = s[j]
    BY <1>7, <1>9
  <2>3. \A j \in 1 .. m : Z[j] = q[j].value /\ X[j] = s[j].value
    BY <1>5, <1>6, <2>1
  <2>4. QED
    BY <1>5, <1>9, <2>2, <2>3
<1>13. \A j \in 1 .. Len(Y) : Z[Len(X) + j] = Y[j]
  <2>1. \A j \in 1 .. n : m + j \in DOMAIN q
    BY <1>6, <1>11
  <2>2. \A j \in 1 .. n : q[m + j].value = Y[j]
    BY <1>7, <1>8, <1>9, <1>10
  <2>3. QED
    BY <1>5, <1>6, <1>9, <1>10, <2>1, <2>2
<1>14. Len(Z) = Len(X) + Len(Y)
  BY <1>5, <1>6, <1>9, <1>10, <1>11
<1>15. /\ AllOf(Z) = AllOf(X) \cup AllOf(Y)
       /\ Orderly(X) /\ Orderly(Y) /\ Precede(AllOf(X), AllOf(Y)) => Orderly(Z)
  BY <1>5, <1>6, <1>12, <1>13, <1>14, OrderlyJoin
<1>16. Orderly(X) /\ Precede(AllOf(X), Range(a)) /\ X = Values(st.outs) /\ Z = Values(r.outs)
  BY <1>1, <1>2, <1>3, <1>4
<1>17. CASE ~ res.discard /\ res.emit = <<>> /\ res.logic.acc = a
  <2>1. DOMAIN Y = {}
    BY <1>8, <1>17
  <2>2. AllOf(Y) = {} /\ Orderly(Y)
    BY <2>1 DEF AllOf, Orderly
  <2>3. AllOf(Z) = AllOf(X) /\ Orderly(Z)
    BY <1>15, <1>16, <2>2 DEF Precede
  <2>4. r.logic = {res.logic}
    BY <1>7, <1>17
  <2>5. Held(r) = Range(a)
    BY <1>17, <2>4 DEF Held
  <2>6. QED
    BY <1>16, <1>17, <2>3, <2>4, <2>5 DEF KeyOrder, Mine
<1>18. CASE res.discard /\ res.emit = <<a>>
  <2>1. DOMAIN Y = {1} /\ Y[1] = a
    BY <1>8, <1>18
  <2>2. AllOf(Y) = Range(a)
    BY <2>1 DEF AllOf
  <2>3. Orderly(Y)
    BY <2>1 DEF Orderly
  <2>4. AllOf(Z) = AllOf(X) \cup Range(a) /\ Orderly(Z)
    BY <1>15, <1>16, <2>2, <2>3
  <2>5. r.logic = {}
    BY <1>7, <1>18
  <2>6. Held(r) = {}
    BY <2>5 DEF Held
  <2>7. QED
    BY <1>16, <2>4, <2>5, <2>6 DEF KeyOrder, Mine, Precede
<1>19. QED
  BY <1>17, <1>18 DEF Flushes

(* The logic that answers, new or kept, and what it holds.                  *)
LEMMA LogicOrder ==
  ASSUME NEW st, Good(st), KeyOrder(st), NEW l, l = IF st.logic = {} THEN New ELSE The(st.logic)
  PROVE  /\ l \in Logics /\ l.acc \in Seq(Items) /\ Increasing(l.acc) /\ Range(l.acc) = Held(st)
         /\ Orderly(Values(st.outs)) /\ Precede(AllOf(Values(st.outs)), Range(l.acc))
<1>1. st.logic \in Options(Logics) /\ Orderly(Values(st.outs)) /\ Precede(AllOf(Values(st.outs)), Held(st))
      /\ \A k \in st.logic : Increasing(k.acc)
  BY DEF Good, KeyStates, KeyOrder
<1>2. CASE st.logic = {}
  <2>1. l = New /\ New \in Logics /\ l.acc = <<>>
    BY <1>2 DEF New, Logics
  <2>2. Held(st) = {}
    BY <1>2 DEF Held
  <2>3. DOMAIN l.acc = {}
    BY <2>1
  <2>4. Range(l.acc) = {} /\ Increasing(l.acc)
    BY <2>3 DEF Range, Increasing
  <2>5. Range(l.acc) = Held(st)
    BY <2>2, <2>4
  <2>6. l.acc \in Seq(Items)
    BY <2>1 DEF Logics
  <2>7. QED
    BY <1>1, <2>1, <2>4, <2>5, <2>6
<1>3. CASE st.logic # {}
  <2>1. st.logic = {l} /\ l \in Logics
    BY <1>1, <1>3, OptionIs
  <2>2. Held(st) = Range(l.acc)
    BY <2>1 DEF Held
  <2>3. QED
    BY <1>1, <2>1, <2>2 DEF Logics
<1>4. QED
  BY <1>2, <1>3

LEMMA AnswersFlush ==
  ASSUME conf \in Configs, NEW l \in Logics
  PROVE  /\ \A v \in Items : Flushes(OnItem(l, v), Append(l.acc, v))
         /\ Flushes(OnNotify(l), l.acc) /\ Flushes(OnEof(l), l.acc)
<1>1. conf.logic \in {"collect", "fold_final", "alarm"}
  BY ConfigIs
<1>2. ASSUME NEW v \in Items
      PROVE  Flushes(OnItem(l, v), Append(l.acc, v))
  BY <1>1 DEF Flushes, OnItem, Returns, Logics
<1>3. Flushes(OnNotify(l), l.acc)
  BY <1>1 DEF Flushes, OnNotify, Returns, Logics
<1>4. Flushes(OnEof(l), l.acc)
  BY <1>1 DEF Flushes, OnEof, Returns, Logics
<1>5. QED
  BY <1>2, <1>3, <1>4

LEMMA ItemOrder ==
  ASSUME conf \in Configs, now \in Nat, NEW st, Good(st), KeyOrder(st), NEW m \in Msg,
         Precede(Mine(st), {m.value})
  PROVE  /\ KeyOrder(ItemStep(st, m))
         /\ Mine(ItemStep(st, m)) = Mine(st) \cup {m.value}
<1>1. PICK l : l = IF st.logic = {} THEN New ELSE The(st.logic)
  OBVIOUS
<1>2. PICK told : told = [st EXCEPT !.late = @ + (IF st.eofs > 0 THEN 1 ELSE 0)]
  OBVIOUS
<1>3. PICK res : res = OnItem(l, m.value)
  OBVIOUS
<1>4. PICK a : a = Append(l.acc, m.value)
  OBVIOUS
<1>5. ItemStep(st, m) = Apply(told, m.epoch, res)
  BY <1>1, <1>2, <1>3 DEF ItemStep
<1>6. m.value \in Items /\ m.epoch \in Nat
  BY DEF Msg
<1>7. /\ l \in Logics /\ l.acc \in Seq(Items) /\ Increasing(l.acc) /\ Range(l.acc) = Held(st)
      /\ Orderly(Values(st.outs)) /\ Precede(AllOf(Values(st.outs)), Range(l.acc))
  BY <1>1, LogicOrder
<1>8. told \in KeyStates /\ told.outs = st.outs /\ st \in KeyStates
  BY <1>2 DEF Good, KeyStates
<1>9. res \in Result /\ Flushes(res, a)
  BY <1>3, <1>4, <1>6, <1>7, LogicTypes, AnswersFlush
<1>10. Applied(Apply(told, m.epoch, res), told, res)
  BY <1>6, <1>8, <1>9, ApplyIs
<1>11. a \in Seq(Items) /\ Range(a) = Range(l.acc) \cup {m.value} /\ Increasing(a)
  <2>1. Precede(Range(l.acc), {m.value})
    BY <1>7 DEF Mine, Precede
  <2>2. QED
    BY <1>4, <1>6, <1>7, <2>1, AppendOrder
<1>12. Precede(AllOf(Values(st.outs)), Range(a))
  BY <1>7, <1>11 DEF Mine, Precede
<1>13. PICK r : r = Apply(told, m.epoch, res)
  OBVIOUS
<1>14. Applied(r, told, res)
  BY <1>10, <1>13
<1>15. /\ a \in Seq(Items) /\ Increasing(a)
       /\ st \in KeyStates /\ told \in KeyStates /\ told.outs = st.outs
       /\ res \in Result /\ Flushes(res, a) /\ Orderly(Values(st.outs))
  BY <1>7, <1>8, <1>9, <1>11
<1>16. KeyOrder(r) /\ Mine(r) = AllOf(Values(st.outs)) \cup Range(a)
  BY <1>12, <1>14, <1>15, AppliedOrder
<1>17. Mine(r) = Mine(st) \cup {m.value}
  BY <1>7, <1>11, <1>16 DEF Mine
<1>18. QED
  BY <1>5, <1>13, <1>16, <1>17

(* A call that brings no item.                                              *)
SameOrder(st, res) == KeyOrder(st) => KeyOrder(res) /\ Mine(res) = Mine(st)

LEMMA CallOrder ==
  ASSUME conf \in Configs, now \in Nat, NEW st, Good(st), st.logic # {},
         NEW told \in KeyStates, told.outs = st.outs, NEW epoch \in Nat,
         NEW res, res \in {OnNotify(The(st.logic)), OnEof(The(st.logic))}
  PROVE  SameOrder(st, Apply(told, epoch, res))
<1>1. SUFFICES ASSUME KeyOrder(st)
               PROVE  /\ KeyOrder(Apply(told, epoch, res))
                      /\ Mine(Apply(told, epoch, res)) = Mine(st)
  BY DEF SameOrder
<1>2. PICK l : l = The(st.logic)
  OBVIOUS
<1>3. /\ l \in Logics /\ l.acc \in Seq(Items) /\ Increasing(l.acc) /\ Range(l.acc) = Held(st)
      /\ Orderly(Values(st.outs)) /\ Precede(AllOf(Values(st.outs)), Range(l.acc))
  BY <1>1, <1>2, LogicOrder
<1>4. res \in Result /\ Flushes(res, l.acc)
  BY <1>2, <1>3, LogicTypes, AnswersFlush
<1>5. PICK r : r = Apply(told, epoch, res)
  OBVIOUS
<1>6. Applied(r, told, res)
  BY <1>4, <1>5, ApplyIs
<1>7. st \in KeyStates
  BY DEF Good
<1>8. KeyOrder(r) /\ Mine(r) = AllOf(Values(st.outs)) \cup Range(l.acc)
  BY <1>3, <1>4, <1>6, <1>7, AppliedOrder
<1>9. QED
  BY <1>3, <1>5, <1>8 DEF Mine

LEMMA SameFields ==
  ASSUME NEW st, NEW res, res.outs = st.outs, res.logic = st.logic
  PROVE  SameOrder(st, res)
BY DEF SameOrder, KeyOrder, Mine, Held

LEMMA NotifyOrder ==
  ASSUME conf \in Configs, now \in Nat, NEW st, Good(st), NEW epoch \in Nat
  PROVE  SameOrder(st, NotifyStep(st, epoch))
<1>1. CASE \A t \in st.sched : t > now
  BY <1>1 DEF NotifyStep, SameOrder
<1>2. CASE ~ \A t \in st.sched : t > now
  <2>1. PICK told : told = [st EXCEPT !.sched = {}, !.wrong = @ + (IF st.asked = {} THEN 1 ELSE 0)]
    OBVIOUS
  <2>2. st.logic # {} /\ st \in KeyStates
    BY <1>2 DEF Good, Scheduled
  <2>3. told \in KeyStates /\ told.outs = st.outs
    <3>1. {} \in Options(Nat)
      BY DEF Options
    <3>2. PICK n \in Nat : n = st.wrong + (IF st.asked = {} THEN 1 ELSE 0)
      BY <2>2 DEF KeyStates
    <3>3. PICK mid \in KeyStates : mid = [st EXCEPT !.sched = {}]
      BY <2>2, <3>1 DEF KeyStates
    <3>4. told = [mid EXCEPT !.wrong = n] /\ mid.outs = st.outs
      BY <2>1, <2>2, <3>2, <3>3 DEF KeyStates
    <3>5. QED
      BY <3>4 DEF KeyStates
  <2>4. NotifyStep(st, epoch) = Apply(told, epoch, OnNotify(The(st.logic)))
    BY <1>2, <2>1 DEF NotifyStep
  <2>5. PICK res : res = OnNotify(The(st.logic))
    OBVIOUS
  <2>6. SameOrder(st, Apply(told, epoch, res))
    BY <2>2, <2>3, <2>5, CallOrder
  <2>7. QED
    BY <2>4, <2>5, <2>6
<1>3. QED
  BY <1>1, <1>2

LEMMA EofOrder ==
  ASSUME conf \in Configs, now \in Nat, NEW st, Good(st), NEW epoch \in Nat
  PROVE  SameOrder(st, EofStep(st, epoch))
<1>1. PICK told : told = [st EXCEPT !.eofs = @ + 1]
  OBVIOUS
<1>2. told \in KeyStates /\ told.outs = st.outs /\ told.logic = st.logic
  BY <1>1 DEF Good, KeyStates
<1>3. CASE st.logic = {}
  <2>1. EofStep(st, epoch) = told
    BY <1>1, <1>3 DEF EofStep
  <2>2. QED
    BY <1>2, <2>1, SameFields
<1>4. CASE st.logic # {}
  <2>1. EofStep(st, epoch) = Apply(told, epoch, OnEof(The(st.logic)))
    BY <1>1, <1>4 DEF EofStep
  <2>2. PICK res : res = OnEof(The(st.logic))
    OBVIOUS
  <2>3. SameOrder(st, Apply(told, epoch, res))
    BY <1>2, <1>4, <2>2, CallOrder
  <2>4. QED
    BY <2>1, <2>2, <2>3
<1>5. QED
  BY <1>3, <1>4

LEMMA CacheOrder ==
  ASSUME NEW st, Good(st)
  PROVE  SameOrder(st, Reschedule(st)) /\ SameOrder(st, SnapshotStep(st))
<1>1. st \in KeyStates
  BY DEF Good
<1>2. Reschedule(st).outs = st.outs /\ Reschedule(st).logic = st.logic
  BY <1>1 DEF Reschedule, KeyStates
<1>3. SnapshotStep(st).outs = st.outs /\ SnapshotStep(st).logic = st.logic
  BY <1>1 DEF SnapshotStep, KeyStates
<1>4. QED
  BY <1>2, <1>3, SameFields

(* A call that brings the items of the key in buf.                          *)
Ordered(k, st, res, buf) ==
  KeyOrder(st) /\ LinedUp(k, buf) /\ Precede(Mine(st), Coming(k, buf)) =>
    KeyOrder(res) /\ Mine(res) = Mine(st) \cup Coming(k, buf)

LEMMA TakeItemsOrder ==
  ASSUME conf \in Configs, now \in Nat, NEW st0, Good(st0), NEW k, NEW epoch, NEW buf \in Seq(Msg),
         \A j \in 1 .. Len(buf) : buf[j].epoch = epoch
  PROVE  Ordered(k, st0, TakeItems(st0, k, epoch, buf), buf)
<1> SUFFICES ASSUME KeyOrder(st0), LinedUp(k, buf), Precede(Mine(st0), Coming(k, buf))
             PROVE  /\ KeyOrder(TakeItems(st0, k, epoch, buf))
                    /\ Mine(TakeItems(st0, k, epoch, buf)) = Mine(st0) \cup Coming(k, buf)
  BY DEF Ordered
<1>1. PICK n \in Nat : n = Len(buf)
  OBVIOUS
<1>2. DOMAIN buf = 1 .. n /\ \A i \in 1 .. n : buf[i] \in Msg /\ buf[i].epoch = epoch
  BY <1>1
<1>3. PICK after : /\ after[0] = st0
                   /\ \A i \in 1 .. n : after[i] = IF buf[i].key = k THEN ItemStep(after[i - 1], buf[i])
                                                    ELSE after[i - 1]
                   /\ TakeItems(st0, k, epoch, buf) = after[n]
  <2>1. PICK after : /\ after[0] = st0
                     /\ \A i \in 1 .. Len(buf) :
                          after[i] = IF buf[i].key = k /\ buf[i].epoch = epoch
                                     THEN ItemStep(after[i - 1], buf[i]) ELSE after[i - 1]
                     /\ TakeItems(st0, k, epoch, buf) = after[Len(buf)]
    BY TakeItemsIs
  <2>2. QED
    BY <1>1, <1>2, <2>1
<1> DEFINE Got(i) == {buf[j].value : j \in {x \in 1 .. i : buf[x].key = k}}
           Fine(i) == /\ Good(after[i]) /\ KeyOrder(after[i])
                      /\ Mine(after[i]) = Mine(st0) \cup Got(i)
<1>4. \A i \in 0 .. n : Fine(i)
  <2> DEFINE Bad == {i \in 0 .. n : ~ Fine(i)}
  <2>1. SUFFICES ASSUME Bad # {}
                 PROVE  FALSE
    OBVIOUS
  <2>2. Bad \in SUBSET Nat
    OBVIOUS
  <2> HIDE DEF Bad
  <2>3. PICK m \in Bad : \A o \in Bad : m <= o
    BY <2>1, <2>2, NatHasLeast
  <2>4. m \in 0 .. n /\ ~ Fine(m)
    BY DEF Bad
  <2>5. Fine(0)
    <3>1. Got(0) = {}
      OBVIOUS
    <3> HIDE DEF Got
    <3>2. QED
      BY <1>3, <3>1
  <2>6. m # 0 /\ m - 1 \in 0 .. n /\ m \in 1 .. n
    <3> HIDE DEF Fine
    <3>1. QED
      BY <1>1, <2>4, <2>5
  <2>7. Fine(m - 1)
    <3>1. ~ (m <= m - 1)
      BY <2>6
    <3>2. m - 1 \notin Bad
      BY <2>3, <3>1
    <3> HIDE DEF Fine
    <3>3. QED
      BY <2>6, <3>2 DEF Bad
  <2>8. \A x \in 1 .. m : x \in 1 .. m - 1 \/ x = m
    BY <2>6
  <2>9. \A x \in 1 .. m - 1 : x \in 1 .. m /\ x < m /\ x \in 1 .. n
    BY <2>6
  <2>10. CASE buf[m].key = k
    <3>1. PICK b : b = after[m - 1]
      OBVIOUS
    <3>2. PICK c : c = after[m]
      OBVIOUS
    <3>3. PICK v : v = buf[m].value
      OBVIOUS
    <3>4. Good(b) /\ KeyOrder(b) /\ Mine(b) = Mine(st0) \cup Got(m - 1)
      BY <2>7, <3>1
    <3>5. c = ItemStep(b, buf[m]) /\ buf[m] \in Msg
      BY <1>2, <1>3, <2>6, <2>10, <3>1, <3>2
    <3>6. Precede(Mine(st0), {v})
      <4>1. v \in Coming(k, buf)
        BY <1>2, <2>6, <2>10, <3>3 DEF Coming
      <4>2. QED
        BY <4>1 DEF Precede
    <3>7. Precede(Got(m - 1), {v})
      <4>1. ASSUME NEW x \in 1 .. m - 1, buf[x].key = k, buf[x].value[1] = v[1]
            PROVE  buf[x].value[2] < v[2]
        <5>1. x \in DOMAIN buf /\ m \in DOMAIN buf /\ x < m
          BY <1>2, <2>6, <2>9, <4>1
        <5>2. QED
          BY <2>10, <3>3, <4>1, <5>1 DEF LinedUp
      <4>2. QED
        BY <4>1 DEF Precede
    <3>8. Precede(Mine(b), {v})
      BY <3>4, <3>6, <3>7 DEF Precede
    <3>9. KeyOrder(c) /\ Mine(c) = Mine(b) \cup {v}
      BY <3>3, <3>4, <3>5, <3>8, ItemOrder
    <3>10. Good(c)
      <4>1. Keeps(b, ItemStep(b, buf[m]))
        BY <3>4, <3>5, ItemKeeps
      <4>2. QED
        BY <3>5, <4>1 DEF Keeps
    <3>11. Got(m) = Got(m - 1) \cup {v}
      <4>1. m \in 1 .. m
        BY <2>6
      <4>2. QED
        BY <2>8, <2>9, <2>10, <3>3, <4>1
    <3> HIDE DEF Got
    <3>12. QED
      BY <2>4, <3>2, <3>4, <3>9, <3>10, <3>11
  <2>11. CASE buf[m].key # k
    <3>1. after[m] = after[m - 1]
      BY <1>3, <2>6, <2>11
    <3>2. Got(m) = Got(m - 1)
      BY <2>8, <2>9, <2>11
    <3> HIDE DEF Got
    <3>3. QED
      BY <2>4, <2>7, <3>1, <3>2
  <2>12. QED
    BY <2>10, <2>11
<1>5. Fine(n)
  BY <1>1, <1>4
<1>6. Got(n) = Coming(k, buf)
  BY <1>2 DEF Coming
<1> HIDE DEF Got
<1>7. QED
  BY <1>3, <1>5, <1>6

LEMMA EpochOrder ==
  ASSUME conf \in Configs, now \in Nat, NEW st0, Good(st0), NEW k, NEW epoch \in Nat,
         NEW buf \in Seq(Msg), \A j \in 1 .. Len(buf) : buf[j].epoch = epoch, NEW view
  PROVE  Ordered(k, st0, EpochStep(st0, k, epoch, buf, view), buf)
<1>1. PICK st1 : st1 = TakeItems(st0, k, epoch, buf)
  OBVIOUS
<1>2. PICK st2 : st2 = NotifyStep(st1, epoch)
  OBVIOUS
<1>3. PICK st3 : st3 = IF view = {} THEN EofStep(st2, epoch) ELSE st2
  OBVIOUS
<1>4. PICK st4 : st4 = Reschedule(st3)
  OBVIOUS
<1>5. PICK st5 : st5 = IF IsClosed(view, epoch) THEN SnapshotStep(st4) ELSE st4
  OBVIOUS
<1>6. EpochStep(st0, k, epoch, buf, view) = st5
  BY <1>1, <1>2, <1>3, <1>4, <1>5 DEF EpochStep
<1>7. Good(st1) /\ Ordered(k, st0, st1, buf)
  BY <1>1, TakeItemsKeeps, TakeItemsOrder DEF Keeps
<1>8. Good(st2) /\ SameOrder(st1, st2)
  BY <1>2, <1>7, NotifyKeeps, NotifyOrder DEF Keeps
<1>9. Good(st3) /\ SameOrder(st2, st3)
  <2>1. Good(EofStep(st2, epoch)) /\ SameOrder(st2, EofStep(st2, epoch))
    BY <1>8, EofIs, EofOrder DEF AtEof
  <2>2. QED
    BY <1>3, <1>8, <2>1 DEF SameOrder
<1>10. Good(st4) /\ SameOrder(st3, st4)
  BY <1>4, <1>9, RescheduleKeeps, CacheOrder DEF Keeps
<1>11. SameOrder(st4, st5)
  BY <1>5, <1>10, CacheOrder DEF SameOrder
<1>12. QED
  BY <1>6, <1>7, <1>8, <1>9, <1>10, <1>11 DEF SameOrder, Ordered

LEMMA KeyStepOrder ==
  ASSUME conf \in Configs, now \in Nat, NEW w \in Workers, NEW k \in MyKeys(w), Good(KeyState(k)),
         NEW n, NEW view, NEW buf, NEW c, NEW epochs, Activation(w, n, view, buf, c, epochs)
  PROVE  Ordered(k, KeyState(k), KeyStep(w, k, buf, epochs, view), buf)
<1> PICK st : st = KeyState(k)
  OBVIOUS
<1> PICK x : x = EpochStep(st, k, c, buf, view)
  OBVIOUS
<1> PICK res : res = KeyStep(w, k, buf, epochs, view)
  OBVIOUS
<1>1. /\ c \in Nat /\ buf \in Seq(Msg) /\ Len(buf) = n /\ WorkedOn(n, view, c, epochs)
      /\ \A j \in 1 .. n : buf[j].epoch = c /\ c \in epochs
  BY DEF Activation
<1>2. Ordered(k, st, x, buf) /\ Good(x)
  <2>1. \A j \in 1 .. Len(buf) : buf[j].epoch = c
    BY <1>1
  <2>2. Ordered(k, st, x, buf)
    BY <1>1, <2>1, EpochOrder
  <2>3. KeptBy(st, x, view)
    BY <1>1, <2>1, EpochKeeps
  <2>4. QED
    BY <2>2, <2>3 DEF KeptBy, AtEof, Keeps
<1>3. \A f \in Nat : c <= f =>
        KeyStep(w, k, buf, {c, f}, view) = IF c = f THEN x ELSE EpochStep(x, k, f, buf, view)
  BY <1>1, KeyStepIs
<1>4. ASSUME n = 0
      PROVE  Coming(k, buf) = {} /\ \A j \in 1 .. Len(buf) : FALSE
  BY <1>1, <1>4 DEF Coming
<1>5. CASE epochs = {c, c}
  <2>1. res = x
    BY <1>1, <1>3, <1>5
  <2>2. QED
    BY <1>2, <2>1
<1>6. CASE epochs = {}
  <2>1. res = st
    BY <1>6, KeyStepNone
  <2>2. \A j \in DOMAIN buf : FALSE
    BY <1>1, <1>6
  <2>3. Coming(k, buf) = {}
    BY <2>2 DEF Coming
  <2>4. QED
    BY <2>1, <2>3 DEF Ordered
<1>7. ASSUME NEW f \in Nat, c <= f, c # f, epochs = {c, f}, n = 0
      PROVE  Ordered(k, st, res, buf)
  <2>1. res = EpochStep(x, k, f, buf, view)
    BY <1>3, <1>7
  <2>2. Ordered(k, x, res, buf)
    BY <1>1, <1>2, <1>4, <1>7, <2>1, EpochOrder
  <2>3. Coming(k, buf) = {}
    BY <1>4, <1>7
  <2>4. QED
    BY <1>2, <2>2, <2>3 DEF Ordered, Precede
<1>8. QED
  <2>1. \/ epochs = {c, c} \/ epochs = {}
        \/ \E f \in Nat : c <= f /\ epochs = {c, f} /\ (n # 0 => f = c)
    BY <1>1 DEF WorkedOn
  <2>2. ASSUME NEW f \in Nat, c <= f, epochs = {c, f}, n # 0 => f = c
        PROVE  Ordered(k, st, res, buf)
    BY <1>5, <1>7, <2>2
  <2>3. QED
    BY <1>5, <1>6, <2>1, <2>2

-----------------------------------------------------------------------------
(* The step of the unary operator on w, with what it saw. *)
Reads(w, n, buf) ==
  /\ buf \in Seq(Msg) /\ Len(buf) = n /\ \A j \in 1 .. n : buf[j] = chan[w][j]
  /\ \A k \in MyKeys(w) : Ordered(k, KeyState(k), KeyState(k)', buf)
Stepped(w, n, view) ==
  /\ n \in 0 .. Len(chan[w]) /\ cap[w] # {}
  /\ \/ view = {} /\ StepIn = {}
     \/ \E f \in Nat : /\ view = {f} /\ (\A e \in StepIn : f <= e)
                       /\ \A c \in cap[w] : c <= f
  /\ inbuf' = [inbuf EXCEPT ![w] = <<>>]
  /\ cap' = [cap EXCEPT ![w] = view]
  /\ chan' = [chan EXCEPT ![w] = SubSeq(@, n + 1, Len(@))]
  /\ \A k \in MyKeys(w) :
       /\ KeptBy(KeyState(k), KeyState(k)', view)
       /\ conf.logic = "fold_final" =>
            \A j \in 1 .. n : chan[w][j].key = k => KeyHas(KeyState(k)', chan[w][j].value)
  /\ \A k \in Keys : WorkerOf[k] # w => KeyState(k)' = KeyState(k)
  /\ \E buf : Reads(w, n, buf)
  /\ DOMAIN logics' = Keys /\ timers' \in [Workers -> SUBSET Nat]
  /\ UNCHANGED <<conf, now, part, threads, written>>

LEMMA TimersIs ==
  ASSUME NEW w, timers[w] \subseteq Nat, NEW times, times \subseteq Nat
  PROVE  Timers(w, times) \subseteq Nat
BY DEF Timers

(* What the step assigns. *)
StepSets(w, buf, epochs, after, view) ==
  /\ inbuf' = [inbuf EXCEPT ![w] = Unread(buf, epochs)]
  /\ cap' = [cap EXCEPT ![w] = CapAfter(w, epochs, view)]
  /\ logics' = [k \in Keys |-> after[k].logic]
  /\ sched' = [k \in Keys |-> after[k].sched]
  /\ awoken' = [k \in Keys |-> after[k].awoken]
  /\ outs' = [k \in Keys |-> after[k].outs]
  /\ timers' = [timers EXCEPT ![w] = Timers(w, UNION {after[k].sched : k \in MyKeys(w)})]
  /\ snaps' = [k \in Keys |-> after[k].snap]
  /\ eofs' = [k \in Keys |-> after[k].eofs]
  /\ late' = [k \in Keys |-> after[k].late]
  /\ asked' = [k \in Keys |-> after[k].asked]
  /\ wrong' = [k \in Keys |-> after[k].wrong]

LEMMA StepIs ==
  ASSUME ThreadsInv, LinkInv, KeysInv, CacheInv, NEW w \in Workers, Step(w)
  PROVE  \E n, view : Stepped(w, n, view)
<1>1. /\ cap[w] # {} /\ UNCHANGED <<conf, now, part, threads, written>>
      /\ conf \in Configs /\ now \in Nat /\ timers \in [Workers -> SUBSET Nat]
  BY StepAssumption DEF Step, ThreadsInv
<1>2. PICK n \in 0 .. Len(chan[w]), view \in Views(w) :
        /\ \E buf \in {inbuf[w] \o SubSeq(chan[w], 1, n)} :
           \E epochs \in {ProcessEpochs(buf, The(cap[w]), view)} :
           \E after \in {[k \in Keys |-> KeyStep(w, k, buf, epochs, view)]} :
            StepSets(w, buf, epochs, after, view)
        /\ chan' = [chan EXCEPT ![w] = SubSeq(@, n + 1, Len(@))]
  BY DEF Step, StepSets
<1>3. PICK buf, c, epochs, after :
        /\ buf = inbuf[w] \o SubSeq(chan[w], 1, n) /\ c = The(cap[w])
        /\ epochs = ProcessEpochs(buf, c, view)
        /\ after = [k \in Keys |-> KeyStep(w, k, buf, epochs, view)]
        /\ StepSets(w, buf, epochs, after, view)
  BY <1>2
<1>4. Activation(w, n, view, buf, c, epochs)
  <2>1. cap[w] \in Options(Nat)
    BY DEF ThreadsInv
  <2>2. c \in Nat /\ cap[w] = {c}
    BY <1>1, <1>3, <2>1, OptionIs
  <2>3. buf \in Seq(Msg) /\ Len(buf) = n /\ \A j \in 1 .. n : buf[j] = chan[w][j]
    BY <1>3, BufferIs
  <2>4. epochs = ProcessEpochs(buf, c, view)
    BY <1>3
  <2>5. QED
    BY <1>1, <2>2, <2>3, <2>4, ActivationIs
<1>5. /\ buf \in Seq(Msg) /\ Len(buf) = n /\ (\A j \in 1 .. n : buf[j] = chan[w][j])
      /\ (\A j \in 1 .. n : buf[j].epoch \in epochs) /\ CapAfter(w, epochs, view) = view
  BY <1>4 DEF Activation
<1>6. Unread(buf, epochs) = <<>>
  BY <1>5, UnreadNone
<1>7. \A k \in Keys : Good(KeyState(k))
  BY DEF KeysInv, CacheInv, Good
<1>8. ASSUME NEW k \in Keys
      PROVE  /\ after[k] \in KeyStates
             /\ k \in MyKeys(w) => KeptBy(KeyState(k), after[k], view) /\ Taken(k, after[k], buf)
             /\ WorkerOf[k] # w => after[k] = KeyState(k)
  <2>1. after[k] = KeyStep(w, k, buf, epochs, view)
    BY <1>3
  <2>2. CASE k \in MyKeys(w)
    <3>1. /\ KeptBy(KeyState(k), KeyStep(w, k, buf, epochs, view), view)
          /\ Taken(k, KeyStep(w, k, buf, epochs, view), buf)
      BY <1>1, <1>4, <1>7, <2>2, KeyStepKeeps
    <3>2. KeptBy(KeyState(k), after[k], view) /\ Taken(k, after[k], buf)
      BY <2>1, <3>1
    <3>3. after[k] \in KeyStates
      BY <3>2 DEF KeptBy, AtEof, Keeps, Good
    <3>4. WorkerOf[k] = w
      BY <2>2 DEF MyKeys
    <3>5. QED
      BY <3>2, <3>3, <3>4
  <2>3. CASE k \notin MyKeys(w)
    <3>1. WorkerOf[k] # w
      BY <2>3 DEF MyKeys
    <3>2. after[k] = KeyState(k)
      BY <2>1, <3>1, KeyStepOther
    <3>3. QED
      BY <1>7, <2>3, <3>2 DEF Good
  <2>4. QED
    BY <2>2, <2>3
<1>9. ASSUME NEW k \in Keys
      PROVE  KeyState(k)' = after[k]
  <2>1. after[k] \in KeyStates
    BY <1>8
  <2>2. /\ logics'[k] = after[k].logic /\ sched'[k] = after[k].sched
        /\ awoken'[k] = after[k].awoken /\ outs'[k] = after[k].outs
        /\ snaps'[k] = after[k].snap /\ eofs'[k] = after[k].eofs /\ late'[k] = after[k].late
        /\ asked'[k] = after[k].asked /\ wrong'[k] = after[k].wrong
    BY <1>3 DEF StepSets
  <2>3. KeyState(k)' =
          [logic |-> after[k].logic, sched |-> after[k].sched, awoken |-> after[k].awoken,
           outs |-> after[k].outs, snap |-> after[k].snap, eofs |-> after[k].eofs,
           late |-> after[k].late, asked |-> after[k].asked, wrong |-> after[k].wrong]
    BY <2>2 DEF KeyState
  <2>4. QED
    BY <2>1, <2>3 DEF KeyStates
<1>10. ASSUME NEW k \in MyKeys(w)
       PROVE  /\ KeptBy(KeyState(k), KeyState(k)', view)
              /\ conf.logic = "fold_final" =>
                   \A j \in 1 .. n : chan[w][j].key = k => KeyHas(KeyState(k)', chan[w][j].value)
  <2>1. k \in Keys
    BY DEF MyKeys
  <2>2. KeptBy(KeyState(k), after[k], view) /\ Taken(k, after[k], buf) /\ KeyState(k)' = after[k]
    BY <1>8, <1>9, <2>1
  <2>3. conf.logic = "fold_final" =>
          \A j \in 1 .. n : chan[w][j].key = k => KeyHas(after[k], chan[w][j].value)
    BY <1>5, <2>2 DEF Taken
  <2>4. QED
    BY <2>2, <2>3
<1>11. \A k \in Keys : WorkerOf[k] # w => KeyState(k)' = KeyState(k)
  BY <1>8, <1>9
<1>12. Reads(w, n, buf)
  <2>1. ASSUME NEW k \in MyKeys(w)
        PROVE  Ordered(k, KeyState(k), KeyState(k)', buf)
    <3>1. k \in Keys
      BY DEF MyKeys
    <3>2. Ordered(k, KeyState(k), KeyStep(w, k, buf, epochs, view), buf)
      BY <1>1, <1>4, <1>7, <3>1, KeyStepOrder
    <3>3. KeyState(k)' = KeyStep(w, k, buf, epochs, view)
      BY <1>3, <1>9, <3>1
    <3>4. QED
      BY <3>2, <3>3
  <2>2. QED
    BY <1>5, <2>1 DEF Reads
<1>13. timers' \in [Workers -> SUBSET Nat]
  <2>1. PICK times : times = UNION {after[k].sched : k \in MyKeys(w)}
    OBVIOUS
  <2>2. \A k \in MyKeys(w) : after[k].sched \subseteq Nat
    <3>1. \A k \in MyKeys(w) : after[k].sched \in Options(Nat)
      BY <1>8 DEF MyKeys, KeyStates
    <3>2. QED
      BY <3>1, OptionIs
  <2>3. times \subseteq Nat
    BY <2>1, <2>2
  <2>4. Timers(w, times) \subseteq Nat
    BY <1>1, <2>3, TimersIs
  <2>5. timers' = [timers EXCEPT ![w] = Timers(w, times)]
    BY <1>3, <2>1 DEF StepSets
  <2>6. QED
    BY <1>1, <2>4, <2>5
<1>14. /\ inbuf' = [inbuf EXCEPT ![w] = <<>>] /\ cap' = [cap EXCEPT ![w] = view]
       /\ chan' = [chan EXCEPT ![w] = SubSeq(@, n + 1, Len(@))] /\ DOMAIN logics' = Keys
  BY <1>2, <1>3, <1>5, <1>6 DEF StepSets
<1>15. \/ view = {} /\ StepIn = {}
       \/ \E f \in Nat : /\ view = {f} /\ (\A e \in StepIn : f <= e)
                         /\ \A d \in cap[w] : d <= f
  BY <1>1, ViewIs
<1>16. Stepped(w, n, view)
  BY <1>1, <1>10, <1>11, <1>13, <1>14, <1>15, <1>12 DEF Stepped
<1>17. QED
  BY <1>16

-----------------------------------------------------------------------------
(* The invariant. *)

StepInv ==
  ThreadsInv /\ KeysInv /\ SourcesInv /\ LinkInv /\ EofInv /\ CacheInv /\ FinalInv

LEMMA StepInNext ==
  \A e : e \in StepIn' <=> \E w \in Workers : \/ e \in part'[w].cap
                                              \/ \E j \in DOMAIN chan'[w] : chan'[w][j].epoch = e
<1>1. \A w, e : e \in Epochs(chan'[w]) <=> \E j \in DOMAIN chan'[w] : chan'[w][j].epoch = e
  BY DEF Epochs, Range
<1>2. \A e : e \in StepIn' <=> \E w \in Workers : e \in part'[w].cap \cup Epochs(chan'[w])
  BY DEF StepIn, Epochs, Range
<1> HIDE DEF StepIn
<1>3. QED
  BY <1>1, <1>2

LEMMA InitInv == Init => StepInv
<1> SUFFICES ASSUME Init
             PROVE  StepInv
  OBVIOUS
<1>1. ThreadsInv
  <2>1. {ResumeEpoch} \in Options(Nat) /\ {0} \in Options(Nat)
    BY DEF Options, ResumeEpoch
  <2>2. [cap |-> {ResumeEpoch}, pos |-> 0, awake |-> None, started |-> 0] \in Part
    BY <2>1 DEF Part
  <2>3. part \in [Workers -> Part] /\ \A w \in Workers : part[w].started <= now
    <3>1. PICK p \in Part : p = [cap |-> {ResumeEpoch}, pos |-> 0, awake |-> None, started |-> 0]
      BY <2>2
    <3>2. part = [w \in Workers |-> p] /\ now = 0 /\ p.started = 0
      BY <3>1 DEF Init
    <3>3. \A w \in Workers : part[w] = p
      BY <3>2
    <3>4. QED
      BY <3>2, <3>3
  <2>4. <<>> \in Seq(Msg)
    OBVIOUS
  <2>5. cap \in [Workers -> Options(Nat)] /\ timers \in [Workers -> SUBSET Nat]
        /\ chan \in [Workers -> Seq(Msg)]
    <3>1. PICK o \in Options(Nat) : o = {0}
      BY <2>1
    <3>2. cap = [w \in Workers |-> o]
      BY <3>1 DEF Init
    <3>3. cap \in [Workers -> Options(Nat)]
      BY <3>2
    <3>4. timers = [w \in Workers |-> {}] /\ chan = [w \in Workers |-> <<>>]
      BY DEF Init
    <3>5. QED
      BY <2>4, <3>3, <3>4
  <2>6. conf \in Configs /\ now \in 0 .. MaxNow /\ running \in [Workers -> BOOLEAN]
        /\ abort \in [Workers -> BOOLEAN] /\ interrupt \in BOOLEAN
    <3>1. conf \in Configs /\ now \in 0 .. MaxNow
      BY StepAssumption DEF Init
    <3>2. running \in [Workers -> BOOLEAN] /\ abort \in [Workers -> BOOLEAN] /\ interrupt \in BOOLEAN
      BY Zenon DEF Init
    <3>3. QED
      BY <3>1, <3>2
  <2>7. QED
    BY <2>3, <2>5, <2>6 DEF ThreadsInv
<1>2. \A k \in Keys :
        KeyState(k) = [logic |-> {}, sched |-> {}, awoken |-> FALSE, outs |-> <<>>, snap |-> {},
                       eofs |-> 0, late |-> 0, asked |-> {}, wrong |-> 0]
  BY DEF KeyState, Init
<1>3. KeysInv
  <2>1. {} \in Options(Nat) /\ {} \in Options(Logics) /\ <<>> \in Seq(Out)
    BY DEF Options
  <2>2. [logic |-> {}, sched |-> {}, awoken |-> FALSE, outs |-> <<>>, snap |-> {},
         eofs |-> 0, late |-> 0, asked |-> {}, wrong |-> 0] \in KeyStates
    BY <2>1 DEF KeyStates
  <2>3. \A k \in Keys : KeyState(k) \in KeyStates
    BY <1>2, <2>2
  <2>4. DOMAIN logics = Keys /\ \A k \in Keys : written[k] \in Seq(Seq(Items))
    BY DEF Init
  <2>5. QED
    BY <2>3, <2>4 DEF KeysInv
<1>4. SourcesInv
  <2>1. conf.script \in [Workers -> Seq(Keys \cup {Idle, Abort})]
    BY ConfigIs DEF Init
  <2>2. ASSUME NEW w \in Workers
        PROVE  /\ part[w].pos <= Len(conf.script[w]) /\ 1 .. part[w].pos = {}
               /\ part[w].cap # {}
    <3>1. part[w] = [cap |-> {ResumeEpoch}, pos |-> 0, awake |-> None, started |-> 0]
      BY DEF Init
    <3>2. Len(conf.script[w]) \in Nat
      BY <2>1
    <3>3. part[w].pos = 0 /\ part[w].cap # {}
      BY <3>1
    <3>4. 1 .. part[w].pos = {}
      BY <3>3
    <3>5. QED
      BY <3>2, <3>3, <3>4
  <2>3. QED
    BY <2>2 DEF SourcesInv
<1>5. LinkInv
  <2>1. \A e \in StepIn : e = ResumeEpoch
    <3>1. \A w \in Workers : part[w].cap = {ResumeEpoch} /\ DOMAIN chan[w] = {}
      BY DEF Init
    <3>2. QED
      BY <3>1, StepInIs
  <2>2. \A w \in Workers : 0 \in cap[w] /\ 0 <= ResumeEpoch /\ ResumeEpoch >= ResumeEpoch
    BY DEF ResumeEpoch, Init
  <2>3. \A w \in Workers : DOMAIN chan[w] = {}
    BY DEF Init
  <2>4. inbuf = [w \in Workers |-> <<>>]
    BY DEF Init
  <2>5. QED
    BY <2>1, <2>2, <2>3, <2>4 DEF LinkInv
<1>6. EofInv
  BY DEF EofInv, Init
<1>7. CacheInv
  <2>1. ASSUME NEW k \in Keys
        PROVE  KeyState(k).sched = {} /\ KeyState(k).snap = KeyState(k).logic
    <3>1. PICK r : r = [logic |-> {}, sched |-> {}, awoken |-> FALSE, outs |-> <<>>, snap |-> {},
                        eofs |-> 0, late |-> 0, asked |-> {}, wrong |-> 0]
      OBVIOUS
    <3>2. r.sched = {} /\ r.logic = {} /\ r.snap = {}
      BY <3>1
    <3>3. KeyState(k) = r
      BY <1>2, <2>1, <3>1
    <3>4. QED
      BY <3>2, <3>3
  <2>2. QED
    BY <2>1 DEF CacheInv, Scheduled, Current
<1>8. FinalInv
  <2>1. WorkerOf \in [Keys -> Workers]
    BY StepAssumption
  <2>2. \A k \in Keys : cap[WorkerOf[k]] = {0} /\ Len(written[k]) = 0 /\ Len(outs[k]) = 0
    BY <2>1 DEF Init
  <2>3. \A w \in Workers : part[w].pos = 0
    BY DEF Init
  <2>4. \A w \in Workers : 1 .. part[w].pos = {}
    BY <2>3
  <2>5. ASSUME NEW k \in Keys
        PROVE  /\ Len(written[k]) + Len(outs[k]) <= 1 /\ Len(written[k]) + Len(outs[k]) # 1
               /\ cap[WorkerOf[k]] # {}
    <3>1. Len(written[k]) = 0 /\ Len(outs[k]) = 0
      BY <2>2
    <3>2. 0 \in cap[WorkerOf[k]]
      BY <2>2
    <3>3. QED
      BY <3>1, <3>2
  <2>6. ASSUME NEW k \in Keys, NEW w \in Workers, NEW i \in 1 .. part[w].pos
        PROVE  FALSE
    BY <2>4, <2>6
  <2>7. QED
    BY <2>5, <2>6, Zenon DEF FinalInv
<1>9. QED
  BY <1>1, <1>3, <1>4, <1>5, <1>6, <1>7, <1>8 DEF StepInv

(* Actions that leave everything the links and the keys have as it is. *)
LEMMA StutterKeeps ==
  ASSUME StepInv, UNCHANGED <<conf, source, op, outs, history>>,
         now' \in 0 .. MaxNow, now' >= now,
         running' \in [Workers -> BOOLEAN], abort' \in [Workers -> BOOLEAN], interrupt' \in BOOLEAN
  PROVE  StepInv'
<1>1. UNCHANGED <<conf, part, chan, inbuf, cap, logics, sched, awoken, timers, outs, written, snaps,
                  eofs, late, asked, wrong>>
  BY DEF source, op, history
<1>2. ThreadsInv'
  <2>1. \A w \in Workers : part[w].started \in Nat
    BY DEF StepInv, ThreadsInv, Part
  <2>2. now \in 0 .. MaxNow /\ MaxNow \in Nat
    BY StepAssumption DEF StepInv, ThreadsInv
  <2>3. \A w \in Workers : part'[w].started <= now'
    BY <1>1, <2>1, <2>2 DEF StepInv, ThreadsInv
  <2>4. QED
    BY <1>1, <2>3 DEF StepInv, ThreadsInv
<1>3. \A k \in Keys : KeyState(k)' = KeyState(k)
  BY <1>1 DEF KeyState
<1>4. KeysInv'
  BY <1>1, <1>3 DEF StepInv, KeysInv
<1>5. SourcesInv'
  BY <1>1 DEF StepInv, SourcesInv
<1>6. LinkInv'
  <2>1. StepIn' = StepIn
    BY <1>1 DEF StepIn
  <2>2. QED
    BY <1>1, <2>1 DEF StepInv, LinkInv
<1>7. EofInv'
  BY <1>1 DEF StepInv, EofInv
<1>8. CacheInv'
  BY <1>3 DEF StepInv, CacheInv
<1>9. FinalInv'
  <2>1. \A k \in Keys : \A v : Has(k, v)' <=> Has(k, v)
    BY <1>1, <1>3 DEF Has, KeyHas, OnItsWay, Written
  <2>2. QED
    BY <1>1, <2>1 DEF StepInv, FinalInv
<1>10. QED
  BY <1>2, <1>4, <1>5, <1>6, <1>7, <1>8, <1>9 DEF StepInv

LEMMA StepKeeps ==
  ASSUME StepInv, NEW w \in Workers, NEW n, NEW view, Stepped(w, n, view)
  PROVE  StepInv'
<1>1. /\ n \in 0 .. Len(chan[w]) /\ cap[w] # {}
      /\ inbuf' = [inbuf EXCEPT ![w] = <<>>] /\ cap' = [cap EXCEPT ![w] = view]
      /\ chan' = [chan EXCEPT ![w] = SubSeq(@, n + 1, Len(@))]
      /\ DOMAIN logics' = Keys /\ timers' \in [Workers -> SUBSET Nat]
      /\ UNCHANGED <<conf, now, part, running, abort, interrupt, written>>
  BY DEF Stepped, threads
<1>2. \/ view = {} /\ StepIn = {}
      \/ \E f \in Nat : /\ view = {f} /\ (\A e \in StepIn : f <= e)
                        /\ \A c \in cap[w] : c <= f
  BY DEF Stepped
<1>3. chan \in [Workers -> Seq(Msg)] /\ cap \in [Workers -> Options(Nat)]
  BY DEF StepInv, ThreadsInv
<1>4. \A v \in Workers : cap'[v] = IF v = w THEN view ELSE cap[v]
  BY <1>1, <1>3
<1>5. \A v \in Workers : v # w => chan'[v] = chan[v]
  BY <1>1, <1>3
<1>6. /\ chan'[w] \in Seq(Msg) /\ DOMAIN chan'[w] = 1 .. Len(chan[w]) - n
      /\ \A j \in 1 .. Len(chan[w]) - n : chan'[w][j] = chan[w][n + j]
      /\ DOMAIN chan[w] = 1 .. Len(chan[w]) /\ n \in Nat /\ Len(chan[w]) \in Nat
  BY <1>1, <1>3
<1>7. \A k \in Keys : IF WorkerOf[k] = w THEN KeptBy(KeyState(k), KeyState(k)', view)
                                        ELSE KeyState(k)' = KeyState(k)
  BY DEF Stepped, MyKeys
<1>8. \A k \in Keys : Good(KeyState(k)) /\ Good(KeyState(k)')
  BY <1>7 DEF StepInv, KeysInv, CacheInv, Good, KeptBy, AtEof, Keeps
<1>9. ThreadsInv'
  <2>1. chan' \in [Workers -> Seq(Msg)]
    BY <1>1, <1>3, <1>6
  <2>2. view \in Options(Nat)
    BY <1>2 DEF Options
  <2>3. cap' \in [Workers -> Options(Nat)]
    BY <1>1, <1>3, <2>2
  <2>4. QED
    BY <1>1, <2>1, <2>3 DEF StepInv, ThreadsInv
<1>10. KeysInv'
  <2>1. \A k \in Keys : KeyState(k)' \in KeyStates
    BY <1>8 DEF Good
  <2>2. QED
    BY <1>1, <2>1 DEF StepInv, KeysInv
<1>11. SourcesInv'
  BY <1>1 DEF StepInv, SourcesInv
<1>12. \A e \in StepIn' : e \in StepIn
  <2>1. SUFFICES ASSUME NEW e \in StepIn'
                 PROVE  e \in StepIn
    OBVIOUS
  <2>2. PICK v \in Workers : \/ e \in part'[v].cap
                             \/ \E j \in DOMAIN chan'[v] : chan'[v][j].epoch = e
    BY <2>1, StepInNext
  <2>3. CASE e \in part'[v].cap
    BY <1>1, <2>3, StepInIs
  <2>4. CASE \E j \in DOMAIN chan'[v] : chan'[v][j].epoch = e
    <3>1. PICK j \in DOMAIN chan'[v] : chan'[v][j].epoch = e
      BY <2>4
    <3>2. \E i \in DOMAIN chan[v] : chan[v][i] = chan'[v][j]
      <4>1. CASE v = w
        <5>1. n + j \in DOMAIN chan[w] /\ chan'[w][j] = chan[w][n + j]
          BY <1>6, <3>1, <4>1
        <5>2. QED
          BY <4>1, <5>1
      <4>2. CASE v # w
        BY <1>5, <3>1, <4>2
      <4>3. QED
        BY <4>1, <4>2
    <3>3. QED
      BY <3>1, <3>2, StepInIs
  <2>5. QED
    BY <2>2, <2>3, <2>4
<1>13. LinkInv'
  <2>1. inbuf' = [v \in Workers |-> <<>>]
    BY <1>1 DEF StepInv, LinkInv
  <2>2. \A v \in Workers : \A e \in StepIn' : e >= ResumeEpoch /\ \E c \in cap'[v] : c <= e
    <3>1. ASSUME NEW v \in Workers, NEW e \in StepIn'
          PROVE  e >= ResumeEpoch /\ \E c \in cap'[v] : c <= e
      <4>1. e \in StepIn /\ e >= ResumeEpoch /\ \E c \in cap[v] : c <= e
        BY <1>12, <3>1 DEF StepInv, LinkInv
      <4>2. CASE v = w
        BY <1>2, <1>4, <4>1, <4>2
      <4>3. CASE v # w
        BY <1>4, <4>1, <4>3
      <4>4. QED
        BY <4>1, <4>2, <4>3
    <3>2. QED
      BY <3>1
  <2>3. ASSUME NEW v \in Workers, NEW j \in DOMAIN chan'[v]
        PROVE  cap'[v] = {chan'[v][j].epoch} /\ WorkerOf[chan'[v][j].key] = v
    <3>1. CASE v = w
      <4>1. n + j \in DOMAIN chan[w] /\ chan'[w][j] = chan[w][n + j]
        <5>1. j \in 1 .. Len(chan[w]) - n
          BY <1>6, <2>3, <3>1
        <5>2. n + j \in 1 .. Len(chan[w])
          BY <1>6, <5>1
        <5>3. QED
          BY <1>6, <5>1, <5>2
      <4>2. cap[w] = {chan[w][n + j].epoch} /\ WorkerOf[chan[w][n + j].key] = w
        BY <4>1 DEF StepInv, LinkInv
      <4>3. PICK e : e = chan[w][n + j].epoch
        OBVIOUS
      <4>4. e \in StepIn /\ cap[w] = {e} /\ e \in Nat
        <5>1. e \in StepIn
          BY <4>1, <4>3, StepInIs
        <5>2. cap[w] \subseteq Nat
          BY <1>3, OptionIs
        <5>3. QED
          BY <4>2, <4>3, <5>1, <5>2
      <4>5. view = {e}
        <5>1. PICK f \in Nat : view = {f} /\ f <= e /\ e <= f
          BY <1>2, <4>4
        <5>2. f = e
          BY <4>4, <5>1
        <5>3. QED
          BY <5>1, <5>2
      <4>6. cap'[w] = {e} /\ chan'[w][j].epoch = e /\ WorkerOf[chan'[w][j].key] = w
        BY <1>4, <4>1, <4>2, <4>3, <4>5
      <4>7. QED
        BY <3>1, <4>6
    <3>2. CASE v # w
      <4>1. chan'[v] = chan[v] /\ cap'[v] = cap[v]
        BY <1>4, <1>5, <3>2
      <4>2. cap[v] = {chan[v][j].epoch} /\ WorkerOf[chan[v][j].key] = v
        BY <2>3, <4>1 DEF StepInv, LinkInv
      <4>3. QED
        BY <4>1, <4>2
    <3>3. QED
      BY <3>1, <3>2
  <2>4. QED
    BY <2>1, <2>2, <2>3 DEF LinkInv

<1>14. EofInv'
  <2>1. ASSUME NEW k \in Keys
        PROVE  late'[k] = 0 /\ eofs'[k] <= 1 /\ (eofs'[k] = 1 => cap'[WorkerOf[k]] = {})
    <3>1. /\ KeyState(k).eofs = eofs[k] /\ KeyState(k).late = late[k]
          /\ KeyState(k)'.eofs = eofs'[k] /\ KeyState(k)'.late = late'[k]
      BY DEF KeyState
    <3>2. /\ late[k] = 0 /\ eofs[k] <= 1 /\ (eofs[k] = 1 => cap[WorkerOf[k]] = {})
          /\ WorkerOf[k] \in Workers
      BY StepAssumption DEF StepInv, EofInv
    <3>3. eofs[k] \in Nat
      BY <1>8, <3>1 DEF Good, KeyStates
    <3>4. CASE WorkerOf[k] = w
      <4>1. eofs[k] = 0
        BY <1>1, <3>2, <3>3, <3>4
      <4>2. CASE view = {}
        <5>1. AtEof(KeyState(k), KeyState(k)')
          BY <1>7, <3>4, <4>2 DEF KeptBy
        <5>2. QED
          BY <1>4, <3>1, <3>2, <3>4, <4>1, <4>2, <5>1 DEF AtEof
      <4>3. CASE view # {}
        <5>1. Keeps(KeyState(k), KeyState(k)')
          BY <1>7, <3>4, <4>3 DEF KeptBy
        <5>2. QED
          BY <3>1, <3>2, <4>1, <5>1 DEF Keeps
      <4>4. QED
        BY <4>2, <4>3
    <3>5. CASE WorkerOf[k] # w
      <4>1. KeyState(k)' = KeyState(k)
        BY <1>7, <3>5
      <4>2. QED
        BY <1>4, <3>1, <3>2, <3>5, <4>1
    <3>6. QED
      BY <3>4, <3>5
  <2>2. QED
    BY <2>1 DEF EofInv
<1>15. CacheInv'
  BY <1>8 DEF CacheInv, Good
<1>16. FinalInv'
  <2>1. SUFFICES ASSUME conf.logic = "fold_final"
                 PROVE  FinalInv'
    BY <1>1 DEF FinalInv
  <2>2. ASSUME NEW k \in Keys, NEW v, Has(k, v)
        PROVE  Has(k, v)'
    <3>1. CASE WorkerOf[k] = w
      <4>1. KeyHas(KeyState(k), v) => KeyHas(KeyState(k)', v)
        BY <1>7, <2>1, <3>1 DEF KeptBy, AtEof, Keeps, FinalKeeps
      <4>2. ASSUME OnItsWay(k, v)
            PROVE  KeyHas(KeyState(k)', v) \/ OnItsWay(k, v)'
        <5>1. PICK j \in DOMAIN chan[w] : chan[w][j].key = k /\ chan[w][j].value = v
          BY <3>1, <4>2 DEF OnItsWay
        <5>2. CASE j \in 1 .. n
          <6>1. k \in MyKeys(w)
            BY <3>1 DEF MyKeys
          <6>2. KeyHas(KeyState(k)', chan[w][j].value)
            BY <2>1, <5>1, <5>2, <6>1 DEF Stepped
          <6>3. QED
            BY <5>1, <6>2
        <5>3. CASE j \notin 1 .. n
          <6>1. j - n \in DOMAIN chan'[w] /\ n + (j - n) = j
            BY <1>6, <5>1, <5>3
          <6>2. chan'[w][j - n] = chan[w][j]
            BY <1>6, <6>1
          <6>3. OnItsWay(k, v)'
            BY <3>1, <5>1, <6>1, <6>2 DEF OnItsWay
          <6>4. QED
            BY <6>3
        <5>4. QED
          BY <5>2, <5>3
      <4>3. Written(k, v) => Written(k, v)'
        BY <1>1 DEF Written
      <4>4. QED
        BY <2>2, <4>1, <4>2, <4>3 DEF Has
    <3>2. CASE WorkerOf[k] # w
      <4>1. KeyState(k)' = KeyState(k) /\ chan'[WorkerOf[k]] = chan[WorkerOf[k]] /\ written' = written
        <5>1. WorkerOf[k] \in Workers
          BY StepAssumption
        <5>2. QED
          BY <1>1, <1>5, <1>7, <3>2, <5>1
      <4>2. QED
        BY <2>2, <4>1 DEF Has, KeyHas, OnItsWay, Written
    <3>3. QED
      BY <3>1, <3>2
  <2>3. ASSUME NEW k \in Keys
        PROVE  /\ Len(written[k]) + Len(outs'[k]) <= 1
               /\ Len(written[k]) + Len(outs'[k]) = 1 => cap'[WorkerOf[k]] = {}
               /\ cap'[WorkerOf[k]] = {} => logics'[k] = {}
    <3>1. /\ Len(written[k]) + Len(outs[k]) <= 1
          /\ Len(written[k]) + Len(outs[k]) = 1 => cap[WorkerOf[k]] = {}
          /\ cap[WorkerOf[k]] = {} => logics[k] = {}
      BY <2>1 DEF StepInv, FinalInv
    <3>2. /\ KeyState(k).outs = outs[k] /\ KeyState(k)'.outs = outs'[k]
          /\ KeyState(k).logic = logics[k] /\ KeyState(k)'.logic = logics'[k]
      BY DEF KeyState
    <3>3. Len(written[k]) \in Nat /\ Len(outs[k]) \in Nat /\ Len(outs'[k]) \in Nat
      <4>1. KeyState(k).outs \in Seq(Out) /\ KeyState(k)'.outs \in Seq(Out)
        BY <1>8 DEF Good, KeyStates
      <4>2. written[k] \in Seq(Seq(Items))
        BY DEF StepInv, KeysInv
      <4>3. QED
        BY <3>2, <4>1, <4>2
    <3>4. WorkerOf[k] \in Workers
      BY StepAssumption
    <3>5. CASE WorkerOf[k] = w
      <4>1. Len(written[k]) = 0 /\ Len(outs[k]) = 0
        <5>1. Len(written[k]) + Len(outs[k]) # 1
          BY <1>1, <3>1, <3>5
        <5>2. Len(written[k]) + Len(outs[k]) <= 1
          BY <3>1
        <5>3. PICK a \in Nat, b \in Nat : a = Len(written[k]) /\ b = Len(outs[k])
          BY <3>3
        <5>4. a + b # 1 /\ a + b <= 1
          BY <5>1, <5>2, <5>3
        <5>5. a = 0 /\ b = 0
          BY <5>4
        <5>6. QED
          BY <5>3, <5>5
      <4>2. CASE view = {}
        <5>1. AtEof(KeyState(k), KeyState(k)')
          BY <1>7, <3>5, <4>2 DEF KeptBy
        <5>2. Len(outs'[k]) <= Len(outs[k]) + 1 /\ logics'[k] = {}
          BY <2>1, <3>2, <5>1 DEF AtEof
        <5>3. cap'[WorkerOf[k]] = {}
          BY <1>4, <3>4, <3>5, <4>2
        <5>4. QED
          BY <3>3, <4>1, <5>2, <5>3
      <4>3. CASE view # {}
        <5>1. Keeps(KeyState(k), KeyState(k)')
          BY <1>7, <3>5, <4>3 DEF KeptBy
        <5>2. Len(outs'[k]) = Len(outs[k])
          BY <2>1, <3>2, <5>1 DEF Keeps, FinalKeeps
        <5>3. cap'[WorkerOf[k]] # {}
          BY <1>4, <3>4, <3>5, <4>3
        <5>4. QED
          BY <3>3, <4>1, <5>2, <5>3
      <4>4. QED
        BY <4>2, <4>3
    <3>6. CASE WorkerOf[k] # w
      <4>1. outs'[k] = outs[k] /\ logics'[k] = logics[k] /\ cap'[WorkerOf[k]] = cap[WorkerOf[k]]
        BY <1>4, <1>7, <3>2, <3>4, <3>6
      <4>2. QED
        BY <3>1, <4>1
    <3>7. QED
      BY <3>5, <3>6
  <2>4. ASSUME NEW k \in Keys, NEW v \in Workers, NEW i \in 1 .. part[v].pos, conf.script[v][i] = k
        PROVE  Has(k, <<v, i>>)'
    <3>1. Has(k, <<v, i>>)
      BY <2>1, <2>4 DEF StepInv, FinalInv
    <3>2. PICK item : item = <<v, i>>
      OBVIOUS
    <3>3. Has(k, item)'
      BY <2>2, <3>1, <3>2
    <3>4. QED
      BY <3>2, <3>3
  <2>5. QED
    BY <1>1, <2>3, <2>4 DEF FinalInv
<1>17. QED
  BY <1>9, <1>10, <1>11, <1>13, <1>14, <1>15, <1>16 DEF StepInv

LEMMA NextEpochIs ==
  ASSUME conf \in Configs, now \in Nat, NEW q \in Part, q.started <= now
  PROVE  /\ NextEpoch(q) \in Part /\ NextEpoch(q).started <= now /\ NextEpoch(q).pos = q.pos
         /\ \A e \in NextEpoch(q).cap : \E d \in q.cap : d <= e
         /\ NextEpoch(q).cap = {} => q.cap = {}
<1>1. q.cap \in Options(Nat) /\ q.cap \subseteq Nat
  <2>1. q.cap \in Options(Nat)
    BY DEF Part
  <2>2. QED
    BY <2>1, OptionIs
<1>2. PICK up : up = {e + 1 : e \in q.cap}
  OBVIOUS
<1>3. /\ up \in Options(Nat) /\ (up = {} => q.cap = {})
      /\ \A e \in up : \E d \in q.cap : d <= e
  <2>1. CASE q.cap = {}
    BY <1>2, <2>1 DEF Options
  <2>2. CASE q.cap # {}
    <3>1. PICK d \in Nat : q.cap = {d}
      BY <1>1, <2>2 DEF Options
    <3>2. up = {d + 1}
      BY <1>2, <3>1
    <3>3. up \in Options(Nat)
      BY <3>2 DEF Options
    <3>4. QED
      BY <3>1, <3>2, <3>3
  <2>3. QED
    BY <2>1, <2>2
<1>4. CASE now - q.started >= conf.interval
  <2>1. NextEpoch(q) = [q EXCEPT !.cap = up, !.started = now]
    BY <1>2, <1>4 DEF NextEpoch
  <2>2. PICK r : r = [cap |-> up, pos |-> q.pos, awake |-> q.awake, started |-> now]
    OBVIOUS
  <2>3. NextEpoch(q) = r
    BY <2>1, <2>2 DEF Part
  <2>4. r \in Part /\ r.started = now /\ r.pos = q.pos /\ r.cap = up
    BY <1>3, <2>2 DEF Part
  <2>5. QED
    BY <1>3, <2>3, <2>4
<1>5. CASE ~ (now - q.started >= conf.interval)
  <2>1. NextEpoch(q) = q
    BY <1>5 DEF NextEpoch
  <2>2. \A e \in q.cap : e <= e
    BY <1>1
  <2>3. QED
    BY <2>1, <2>2
<1>6. QED
  BY <1>4, <1>5

(* The input's backpressure: who may poll finds every operator in its epoch. *)
LEMMA CaughtUpIs ==
  ASSUME StepInv, NEW w \in Workers, CaughtUp(w)
  PROVE  \E e \in Nat : part[w].cap = {e} /\ e \in StepIn /\ \A v \in Workers : cap[v] = {e}
<1>1. PICK e \in part[w].cap : ~ LessThan(Probe, e)
  BY DEF CaughtUp
<1>2. part[w].cap = {e} /\ e \in Nat
  <2>1. part[w] \in Part
    BY DEF StepInv, ThreadsInv
  <2>2. part[w].cap \in Options(Nat)
    BY <2>1 DEF Part
  <2>3. QED
    BY <1>1, <2>2 DEF Options
<1>3. e \in StepIn
  BY <1>1, StepInIs
<1>4. ASSUME NEW v \in Workers
      PROVE  cap[v] = {e}
  <2>1. PICK c \in cap[v] : c <= e
    BY <1>3 DEF StepInv, LinkInv
  <2>2. cap[v] \in Options(Nat)
    BY DEF StepInv, ThreadsInv
  <2>3. cap[v] = {c} /\ c \in Nat
    BY <2>1, <2>2 DEF Options
  <2>4. c \in Probe
    BY <2>1 DEF Probe, OutIn
  <2>5. ~ (c < e)
    BY <1>1, <2>4 DEF LessThan
  <2>6. c = e
    BY <1>2, <2>1, <2>3, <2>5
  <2>7. QED
    BY <2>3, <2>6
<1>5. QED
  BY <1>2, <1>3, <1>4

(* What a call of next_batch does: the source's state, and its item if any. *)
Sent1(w, p, k, e) ==
  /\ part[w].cap = {e} /\ e \in Nat /\ e \in StepIn /\ (\A v \in Workers : cap[v] = {e})
  /\ conf.script[w][p.pos] = k /\ p.pos = part[w].pos + 1
  /\ chan' = [chan EXCEPT ![WorkerOf[k]] =
                 Append(@, [epoch |-> e, key |-> k, value |-> <<w, p.pos>>])]
Sourced(w, p) ==
  /\ p \in Part /\ part' = [part EXCEPT ![w] = p] /\ p.started <= now
  /\ \A e \in p.cap : \E d \in part[w].cap : d <= e
  /\ p.pos <= Len(conf.script[w]) /\ (\A i \in 1 .. p.pos : conf.script[w][i] # Abort)
  /\ p.cap = {} => p.pos = Len(conf.script[w])
  /\ p.pos = part[w].pos \/ p.pos = part[w].pos + 1
  /\ \/ chan' = chan /\ \A i \in 1 .. p.pos : conf.script[w][i] \in Keys => i \in 1 .. part[w].pos
     \/ \E k \in Keys, e \in Nat : Sent1(w, p, k, e)
  /\ UNCHANGED <<conf, now, op, outs, running, interrupt, history>>
  /\ abort' \in [Workers -> BOOLEAN]

LEMMA SourceKeeps ==
  ASSUME StepInv, NEW w \in Workers, NEW p, Sourced(w, p)
  PROVE  StepInv'
<1>1. /\ p \in Part /\ part' = [part EXCEPT ![w] = p] /\ p.started <= now
      /\ \A e \in p.cap : \E d \in part[w].cap : d <= e
      /\ p.pos <= Len(conf.script[w]) /\ (\A i \in 1 .. p.pos : conf.script[w][i] # Abort)
      /\ p.cap = {} => p.pos = Len(conf.script[w])
      /\ p.pos = part[w].pos \/ p.pos = part[w].pos + 1
      /\ UNCHANGED <<conf, now, inbuf, cap, logics, sched, awoken, timers, outs, running, interrupt,
                     written, snaps, eofs, late, asked, wrong>>
      /\ abort' \in [Workers -> BOOLEAN]
  BY DEF Sourced, op, history
<1>2. \/ chan' = chan /\ \A i \in 1 .. p.pos : conf.script[w][i] \in Keys => i \in 1 .. part[w].pos
      \/ \E k \in Keys, e \in Nat : Sent1(w, p, k, e)
  BY DEF Sourced
<1>3. /\ part \in [Workers -> Part] /\ chan \in [Workers -> Seq(Msg)]
      /\ \A v \in Workers : part'[v] = IF v = w THEN p ELSE part[v]
  BY <1>1 DEF StepInv, ThreadsInv
<1>4. p.pos \in Nat /\ part[w].pos \in Nat
  BY <1>1, <1>3 DEF Part
(* What changes in the links. *)
<1>5. ASSUME NEW k \in Keys, NEW e \in Nat, Sent1(w, p, k, e)
      PROVE  /\ chan' \in [Workers -> Seq(Msg)] /\ WorkerOf[k] \in Workers
             /\ \A v \in Workers : \A j \in DOMAIN chan[v] :
                  j \in DOMAIN chan'[v] /\ chan'[v][j] = chan[v][j]
             /\ Len(chan[WorkerOf[k]]) + 1 \in DOMAIN chan'[WorkerOf[k]]
             /\ \A v \in Workers : \A j \in DOMAIN chan'[v] :
                  \/ j \in DOMAIN chan[v] /\ chan'[v][j] = chan[v][j]
                  \/ v = WorkerOf[k] /\ j = Len(chan[v]) + 1
             /\ chan'[WorkerOf[k]][Len(chan[WorkerOf[k]]) + 1]
                  = [epoch |-> e, key |-> k, value |-> <<w, p.pos>>]
  <2>1. PICK m : m = [epoch |-> e, key |-> k, value |-> <<w, p.pos>>]
    OBVIOUS
  <2>2. m \in Msg
    BY <1>4, <1>5, <2>1 DEF Msg, Items, Sent1
  <2>3. PICK u \in Workers : u = WorkerOf[k]
    BY StepAssumption
  <2>4. PICK s \in Seq(Msg) : s = chan[u]
    BY <1>3
  <2>5. PICK t : t = Append(s, m)
    OBVIOUS
  <2>6. /\ t \in Seq(Msg) /\ DOMAIN s = 1 .. Len(s) /\ Len(s) \in Nat
        /\ DOMAIN t = 1 .. Len(s) + 1 /\ (\A j \in DOMAIN s : t[j] = s[j])
        /\ t[Len(s) + 1] = m
    BY <2>2, <2>5, AppendIs
  <2>7. chan' = [chan EXCEPT ![u] = t]
    BY <1>5, <2>1, <2>3, <2>4, <2>5 DEF Sent1
  <2>8. chan'[u] = t /\ \A v \in Workers : v # u => chan'[v] = chan[v]
    BY <1>3, <2>7
  <2>9. chan' \in [Workers -> Seq(Msg)]
    BY <1>3, <2>6, <2>7
  <2>10. Len(s) + 1 \in DOMAIN t /\ \A j \in DOMAIN s : j \in DOMAIN t
    BY <2>6
  <2>11. \A j \in DOMAIN t : j \in DOMAIN s \/ j = Len(s) + 1
    BY <2>6
  <2>12. \A v \in Workers : \A j \in DOMAIN chan[v] :
           j \in DOMAIN chan'[v] /\ chan'[v][j] = chan[v][j]
    BY <2>4, <2>6, <2>8, <2>10
  <2>13. \A v \in Workers : \A j \in DOMAIN chan'[v] :
           \/ j \in DOMAIN chan[v] /\ chan'[v][j] = chan[v][j]
           \/ v = u /\ j = Len(chan[v]) + 1
    BY <2>4, <2>6, <2>8, <2>11
  <2>14. QED
    BY <2>1, <2>3, <2>4, <2>6, <2>8, <2>9, <2>10, <2>12, <2>13
<1>6. chan' \in [Workers -> Seq(Msg)]
  BY <1>2, <1>3, <1>5
<1>7. \A v \in Workers : \A j \in DOMAIN chan[v] : j \in DOMAIN chan'[v] /\ chan'[v][j] = chan[v][j]
  BY <1>2, <1>5
<1>8. \A v \in Workers : \A j \in DOMAIN chan'[v] :
        \/ j \in DOMAIN chan[v] /\ chan'[v][j] = chan[v][j]
        \/ /\ cap[v] = {chan'[v][j].epoch} /\ chan'[v][j].epoch \in StepIn
           /\ chan'[v][j].epoch \in Nat /\ WorkerOf[chan'[v][j].key] = v
  <2>1. CASE chan' = chan
    BY <2>1
  <2>2. ASSUME NEW k \in Keys, NEW e \in Nat, Sent1(w, p, k, e), NEW v \in Workers, NEW j \in DOMAIN chan'[v]
        PROVE  \/ j \in DOMAIN chan[v] /\ chan'[v][j] = chan[v][j]
               \/ /\ cap[v] = {chan'[v][j].epoch} /\ chan'[v][j].epoch \in StepIn
                  /\ chan'[v][j].epoch \in Nat /\ WorkerOf[chan'[v][j].key] = v
    <3>1. CASE j \in DOMAIN chan[v] /\ chan'[v][j] = chan[v][j]
      BY <3>1
    <3>2. CASE v = WorkerOf[k] /\ j = Len(chan[v]) + 1
      <4>1. chan'[v][j] = [epoch |-> e, key |-> k, value |-> <<w, p.pos>>]
        BY <1>5, <2>2, <3>2
      <4>2. chan'[v][j].epoch = e /\ chan'[v][j].key = k
        BY <4>1
      <4>3. cap[v] = {e} /\ e \in StepIn /\ e \in Nat
        BY <2>2 DEF Sent1
      <4>4. QED
        BY <3>2, <4>2, <4>3
    <3>3. QED
      BY <1>5, <2>2, <3>1, <3>2
  <2>3. QED
    BY <1>2, <2>1, <2>2
<1>9. \A v \in Workers : part[v].cap \subseteq Nat /\ part'[v].cap \subseteq Nat
  <2>1. \A v \in Workers : part[v] \in Part /\ part'[v] \in Part
    BY <1>1, <1>3
  <2>2. \A v \in Workers : part[v].cap \in Options(Nat) /\ part'[v].cap \in Options(Nat)
    BY <2>1 DEF Part
  <2>3. QED
    BY <2>2, OptionIs
<1>10. ASSUME NEW e \in StepIn'
       PROVE  e \in Nat /\ \E d \in StepIn : d \in Nat /\ d <= e
  <2>1. PICK v \in Workers : \/ e \in part'[v].cap
                             \/ \E j \in DOMAIN chan'[v] : chan'[v][j].epoch = e
    BY <1>10, StepInNext
  <2>2. CASE e \in part'[v].cap
    <3>1. \E d \in part[v].cap : d <= e
      <4>1. CASE v = w
        BY <1>1, <1>3, <2>2, <4>1
      <4>2. CASE v # w
        <5>1. e \in part[v].cap
          BY <1>3, <2>2, <4>2
        <5>2. e \in Nat
          BY <1>9, <5>1
        <5>3. QED
          BY <5>1, <5>2
      <4>3. QED
        BY <4>1, <4>2
    <3>2. PICK d \in part[v].cap : d <= e
      BY <3>1
    <3>3. d \in StepIn /\ d \in Nat /\ e \in Nat
      BY <1>9, <2>2, <3>2, StepInIs
    <3>4. QED
      BY <3>2, <3>3
  <2>3. CASE \E j \in DOMAIN chan'[v] : chan'[v][j].epoch = e
    <3>1. e \in StepIn /\ e \in Nat
      <4>1. PICK j \in DOMAIN chan'[v] : chan'[v][j].epoch = e
        BY <2>3
      <4>2. CASE j \in DOMAIN chan[v] /\ chan'[v][j] = chan[v][j]
        <5>1. chan[v][j] \in Msg /\ chan[v][j].epoch = e
          BY <1>3, <4>1, <4>2
        <5>2. QED
          BY <4>2, <5>1, StepInIs DEF Msg
      <4>3. CASE chan'[v][j].epoch \in StepIn /\ chan'[v][j].epoch \in Nat
        BY <4>1, <4>3
      <4>4. QED
        BY <1>8, <4>1, <4>2, <4>3
    <3>2. e <= e
      BY <3>1
    <3>3. QED
      BY <3>1, <3>2
  <2>4. QED
    BY <2>1, <2>2, <2>3
<1>11. ThreadsInv'
  <2>1. part' \in [Workers -> Part]
    BY <1>1, <1>3
  <2>2. \A v \in Workers : part'[v].started <= now
    BY <1>1, <1>3 DEF StepInv, ThreadsInv
  <2>3. QED
    BY <1>1, <1>6, <2>1, <2>2 DEF StepInv, ThreadsInv
<1>12. \A k \in Keys : KeyState(k)' = KeyState(k)
  BY <1>1 DEF KeyState
<1>13. KeysInv' /\ EofInv' /\ CacheInv'
  BY <1>1, <1>12 DEF StepInv, KeysInv, EofInv, CacheInv
<1>14. SourcesInv'
  BY <1>1, <1>3 DEF StepInv, SourcesInv
<1>15. LinkInv'
  <2>1. ASSUME NEW v \in Workers, NEW e \in StepIn'
        PROVE  e >= ResumeEpoch /\ \E c \in cap[v] : c <= e
    <3>1. PICK d \in StepIn : d \in Nat /\ d <= e /\ e \in Nat
      BY <1>10, <2>1
    <3>2. d >= ResumeEpoch
      BY <3>1 DEF StepInv, LinkInv
    <3>3. PICK c \in cap[v] : c <= d
      BY <3>1 DEF StepInv, LinkInv
    <3>4. cap[v] \subseteq Nat
      <4>1. cap[v] \in Options(Nat)
        BY DEF StepInv, ThreadsInv
      <4>2. QED
        BY <4>1, OptionIs
    <3>5. c <= e
      BY <3>1, <3>3, <3>4
    <3>6. e >= ResumeEpoch
      BY <3>1, <3>2 DEF ResumeEpoch
    <3>7. QED
      BY <3>3, <3>5, <3>6
  <2>2. ASSUME NEW v \in Workers, NEW j \in DOMAIN chan'[v]
        PROVE  cap[v] = {chan'[v][j].epoch} /\ WorkerOf[chan'[v][j].key] = v
    <3>1. CASE j \in DOMAIN chan[v] /\ chan'[v][j] = chan[v][j]
      BY <3>1 DEF StepInv, LinkInv
    <3>2. CASE cap[v] = {chan'[v][j].epoch} /\ WorkerOf[chan'[v][j].key] = v
      BY <3>2
    <3>3. QED
      BY <1>8, <2>2, <3>1, <3>2
  <2>3. inbuf' = [v \in Workers |-> <<>>]
    BY <1>1 DEF StepInv, LinkInv
  <2>4. QED
    BY <1>1, <2>1, <2>2, <2>3 DEF LinkInv
<1>16. FinalInv'
  <2>1. SUFFICES ASSUME conf.logic = "fold_final"
                 PROVE  FinalInv'
    BY <1>1 DEF FinalInv
  <2>2. ASSUME NEW k \in Keys, NEW v, Has(k, v)
        PROVE  Has(k, v)'
    <3>1. WorkerOf[k] \in Workers
      BY StepAssumption
    <3>2. OnItsWay(k, v) => OnItsWay(k, v)'
      BY <1>7, <3>1 DEF OnItsWay
    <3>3. KeyHas(KeyState(k), v) => KeyHas(KeyState(k), v)'
      BY <1>12 DEF KeyHas
    <3>4. Written(k, v) => Written(k, v)'
      BY <1>1 DEF Written
    <3>5. QED
      BY <2>2, <3>2, <3>3, <3>4 DEF Has
  <2>3. ASSUME NEW k \in Keys, NEW v \in Workers, NEW i \in 1 .. part[v].pos, conf.script[v][i] = k
        PROVE  Has(k, <<v, i>>)'
    <3>1. Has(k, <<v, i>>)
      BY <2>1, <2>3 DEF StepInv, FinalInv
    <3>2. PICK item : item = <<v, i>>
      OBVIOUS
    <3>3. Has(k, item)'
      BY <2>2, <3>1, <3>2
    <3>4. QED
      BY <3>2, <3>3
  <2>4. ASSUME NEW k \in Keys, NEW e \in Nat, Sent1(w, p, k, e)
        PROVE  Has(k, <<w, p.pos>>)'
    <3>1. PICK j : j = Len(chan[WorkerOf[k]]) + 1
      OBVIOUS
    <3>2. /\ j \in DOMAIN chan'[WorkerOf[k]]
          /\ chan'[WorkerOf[k]][j] = [epoch |-> e, key |-> k, value |-> <<w, p.pos>>]
      BY <1>5, <2>4, <3>1
    <3>3. PICK item : item = <<w, p.pos>>
      OBVIOUS
    <3>4. chan'[WorkerOf[k]][j].key = k /\ chan'[WorkerOf[k]][j].value = item
      BY <3>2, <3>3
    <3>5. OnItsWay(k, item)'
      BY <3>2, <3>4 DEF OnItsWay
    <3>6. Has(k, item)'
      BY <3>5 DEF Has
    <3>7. QED
      BY <3>3, <3>6
  <2>5. ASSUME NEW k \in Keys, NEW v \in Workers, NEW i \in 1 .. part'[v].pos, conf.script[v][i] = k
        PROVE  Has(k, <<v, i>>)'
    <3>1. CASE v # w
      <4>1. i \in 1 .. part[v].pos
        BY <1>3, <2>5, <3>1
      <4>2. QED
        BY <2>3, <2>5, <4>1
    <3>2. CASE v = w /\ i \in 1 .. part[w].pos
      BY <2>3, <2>5, <3>2
    <3>3. CASE v = w /\ i \notin 1 .. part[w].pos
      <4>1. i \in 1 .. p.pos
        BY <1>3, <2>5, <3>3
      <4>2. i = p.pos
        BY <1>1, <1>4, <3>3, <4>1
      <4>3. PICK k2 \in Keys, e \in Nat : Sent1(w, p, k2, e)
        BY <1>2, <2>5, <3>3, <4>1
      <4>4. k2 = k
        BY <2>5, <3>3, <4>2, <4>3 DEF Sent1
      <4>5. QED
        BY <2>4, <3>3, <4>2, <4>3, <4>4
    <3>4. QED
      BY <3>1, <3>2, <3>3
  <2>6. \A k \in Keys : /\ Len(written[k]) + Len(outs[k]) <= 1
                        /\ Len(written[k]) + Len(outs[k]) = 1 => cap[WorkerOf[k]] = {}
                        /\ cap[WorkerOf[k]] = {} => logics[k] = {}
    BY <2>1 DEF StepInv, FinalInv
  <2>7. QED
    BY <1>1, <2>5, <2>6 DEF FinalInv
<1>17. QED
  BY <1>11, <1>13, <1>14, <1>15, <1>16 DEF StepInv

LEMMA PollBatchIs ==
  ASSUME StepInv, NEW w \in Workers, PollBatch(w)
  PROVE  \E p : Sourced(w, p)
<1> DEFINE item == IF Ended(w) THEN Idle ELSE conf.script[w][part[w].pos + 1]
           read == IF Ended(w) THEN part[w] ELSE [part[w] EXCEPT !.pos = @ + 1]
           len == IF item = Idle THEN 0 ELSE 1
           at == DefaultNextAwake(len)
           p == NextEpoch([read EXCEPT !.awake = at])
           epoch == CHOOSE d \in part[w].cap : TRUE
<1>1. item = IF Ended(w) THEN Idle ELSE conf.script[w][part[w].pos + 1]
  OBVIOUS
<1>2. read = IF Ended(w) THEN part[w] ELSE [part[w] EXCEPT !.pos = @ + 1]
  OBVIOUS
<1>3. len = IF item = Idle THEN 0 ELSE 1
  OBVIOUS
<1>4. at = DefaultNextAwake(len)
  OBVIOUS
<1>5. p = NextEpoch([read EXCEPT !.awake = at])
  OBVIOUS
<1>6. PICK e \in Nat : part[w].cap = {e} /\ e \in StepIn /\ \A v \in Workers : cap[v] = {e}
  BY CaughtUpIs DEF PollBatch, Polls
<1>6a. /\ part' = [part EXCEPT ![w] = p]
       /\ chan' = IF len = 0 THEN chan
                  ELSE [chan EXCEPT ![WorkerOf[item]] =
                          Append(@, [epoch |-> epoch, key |-> item, value |-> <<w, read.pos>>])]
       /\ UNCHANGED <<conf, now, op, outs, threads, history>>
       /\ ~ Ended(w) => conf.script[w][part[w].pos + 1] # Abort
  BY Zenon DEF PollBatch
<1>6b. epoch = e
  BY <1>6
<1> HIDE DEF item, read, len, at, p, epoch
<1>7. /\ part' = [part EXCEPT ![w] = p]
      /\ chan' = IF len = 0 THEN chan
                 ELSE [chan EXCEPT ![WorkerOf[item]] =
                         Append(@, [epoch |-> e, key |-> item, value |-> <<w, read.pos>>])]
      /\ UNCHANGED <<conf, now, op, outs, threads, history>>
      /\ ~ Ended(w) => conf.script[w][part[w].pos + 1] # Abort
  BY <1>6a, <1>6b
<1>8. /\ part[w] \in Part /\ part[w].started <= now /\ now \in Nat /\ conf \in Configs
      /\ part[w].pos <= Len(conf.script[w]) /\ (\A i \in 1 .. part[w].pos : conf.script[w][i] # Abort)
      /\ abort \in [Workers -> BOOLEAN]
  BY StepAssumption DEF StepInv, ThreadsInv, SourcesInv
<1>9. conf.script[w] \in Seq(Keys \cup {Idle, Abort}) /\ Len(conf.script[w]) \in Nat
  <2>1. conf.script \in [Workers -> Seq(Keys \cup {Idle, Abort})]
    BY <1>8, ConfigIs
  <2>2. QED
    BY <2>1
<1>10. at \in Nat \cup {None}
  BY <1>4, <1>8, StepAssumption DEF DefaultNextAwake
<1>11. /\ read \in Part /\ read.cap = part[w].cap /\ read.started = part[w].started
       /\ read.pos = IF Ended(w) THEN part[w].pos ELSE part[w].pos + 1
  BY <1>2, <1>8 DEF Part
<1>12. PICK q : q = [read EXCEPT !.awake = at]
  OBVIOUS
<1>13. q \in Part /\ q.cap = {e} /\ q.started <= now /\ q.pos = read.pos
  BY <1>6, <1>8, <1>10, <1>11, <1>12 DEF Part
<1>14. /\ p \in Part /\ p.started <= now /\ p.pos = read.pos
       /\ (\A d \in p.cap : \E c \in {e} : c <= d) /\ p.cap # {}
  <2>1. /\ NextEpoch(q) \in Part /\ NextEpoch(q).started <= now /\ NextEpoch(q).pos = q.pos
        /\ \A d \in NextEpoch(q).cap : \E c \in q.cap : c <= d
        /\ NextEpoch(q).cap = {} => q.cap = {}
    BY <1>8, <1>13, NextEpochIs
  <2>2. p = NextEpoch(q)
    BY <1>5, <1>12
  <2>3. QED
    BY <1>13, <2>1, <2>2
<1>15. part[w].pos \in Nat
  BY <1>8 DEF Part
<1>16. CASE Ended(w)
  <2>1. p.pos = part[w].pos /\ chan' = chan
    BY <1>1, <1>3, <1>7, <1>11, <1>14, <1>16
  <2>2. QED
    BY <1>6, <1>7, <1>8, <1>14, <2>1 DEF Sourced, threads
<1>17. CASE ~ Ended(w)
  <2>1. p.pos = part[w].pos + 1 /\ p.pos <= Len(conf.script[w]) /\ p.pos \in 1 .. Len(conf.script[w])
    BY <1>8, <1>9, <1>11, <1>14, <1>15, <1>17 DEF Ended
  <2>2. item = conf.script[w][p.pos] /\ item # Abort /\ item \in Keys \cup {Idle, Abort}
    <3>1. item = conf.script[w][p.pos] /\ item # Abort
      BY <1>1, <1>7, <1>17, <2>1
    <3>2. conf.script[w][p.pos] \in Keys \cup {Idle, Abort}
      BY <1>9, <2>1
    <3>3. QED
      BY <3>1, <3>2
  <2>3. \A i \in 1 .. p.pos : i \in 1 .. part[w].pos \/ i = p.pos
    BY <1>15, <2>1
  <2>4. \A i \in 1 .. p.pos : conf.script[w][i] # Abort
    BY <1>8, <2>2, <2>3
  <2>5. \/ chan' = chan /\ \A i \in 1 .. p.pos : conf.script[w][i] \in Keys => i \in 1 .. part[w].pos
        \/ \E k \in Keys, d \in Nat : Sent1(w, p, k, d)
    <3>1. CASE item = Idle
      <4>1. chan' = chan
        BY <1>3, <1>7, <3>1
      <4>2. Idle \notin Keys
        BY StepAssumption
      <4>3. QED
        BY <2>2, <2>3, <3>1, <4>1, <4>2
    <3>2. CASE item # Idle
      <4>1. item \in Keys /\ len # 0
        BY <1>3, <2>2, <3>2
      <4>2. read.pos = p.pos
        BY <1>14
      <4>3. Sent1(w, p, item, e)
        BY <1>6, <1>7, <2>1, <2>2, <4>1, <4>2 DEF Sent1
      <4>4. QED
        BY <4>1, <4>3
    <3>3. QED
      BY <3>1, <3>2
  <2>6. QED
    BY <1>6, <1>7, <1>8, <1>14, <2>1, <2>4, <2>5 DEF Sourced, threads
<1>18. QED
  BY <1>16, <1>17

LEMMA PollEofIs ==
  ASSUME StepInv, NEW w \in Workers, PollEof(w)
  PROVE  \E p : Sourced(w, p)
<1>1. /\ part[w] \in Part /\ part[w].started <= now /\ part[w].pos = Len(conf.script[w])
      /\ (\A i \in 1 .. part[w].pos : conf.script[w][i] # Abort)
      /\ abort \in [Workers -> BOOLEAN]
  BY DEF StepInv, ThreadsInv, SourcesInv, PollEof, Ended
<1>2. PICK p : p = [part[w] EXCEPT !.cap = {}]
  OBVIOUS
<1>3. /\ p \in Part /\ p.cap = {} /\ p.pos = part[w].pos /\ p.started = part[w].started
  <2>1. {} \in Options(Nat)
    BY DEF Options
  <2>2. QED
    BY <1>1, <1>2, <2>1 DEF Part
<1>4. part' = [part EXCEPT ![w] = p] /\ UNCHANGED <<conf, now, chan, op, outs, threads, history>>
  <2>1. part \in [Workers -> Part]
    BY DEF StepInv, ThreadsInv
  <2>2. QED
    BY <1>2, <2>1 DEF PollEof
<1>5. Len(conf.script[w]) \in Nat
  BY <1>1 DEF Part
<1>6. Sourced(w, p)
  BY <1>1, <1>3, <1>4, <1>5 DEF Sourced, threads
<1>7. QED
  BY <1>6

LEMMA PollAbortIs ==
  ASSUME StepInv, NEW w \in Workers, PollAbort(w)
  PROVE  \E p : Sourced(w, p)
<1>1. PICK e \in Nat : part[w].cap = {e}
  BY CaughtUpIs DEF PollAbort, Polls
<1>2. /\ part[w] \in Part /\ part[w].started <= now /\ now \in Nat /\ conf \in Configs
      /\ part[w].pos <= Len(conf.script[w]) /\ (\A i \in 1 .. part[w].pos : conf.script[w][i] # Abort)
      /\ abort \in [Workers -> BOOLEAN] /\ part \in [Workers -> Part]
  BY StepAssumption DEF StepInv, ThreadsInv, SourcesInv
<1>3. PICK p : p = NextEpoch(part[w])
  OBVIOUS
<1>4. /\ p \in Part /\ p.started <= now /\ p.pos = part[w].pos
      /\ (\A d \in p.cap : \E c \in part[w].cap : c <= d) /\ p.cap # {}
  <2>1. PICK q \in Part : q = part[w]
    BY <1>2
  <2>2. p = NextEpoch(q) /\ q.started <= now /\ q.cap # {}
    BY <1>1, <1>2, <1>3, <2>1
  <2>3. /\ p \in Part /\ p.started <= now /\ p.pos = q.pos
        /\ (\A d \in p.cap : \E c \in q.cap : c <= d) /\ (p.cap = {} => q.cap = {})
    BY <1>2, <2>2, NextEpochIs
  <2>4. QED
    BY <2>1, <2>2, <2>3
<1>5. /\ part' = [part EXCEPT ![w] = p] /\ abort' = [abort EXCEPT ![w] = TRUE]
      /\ UNCHANGED <<conf, now, chan, op, outs, running, interrupt, history>>
  BY <1>2, <1>3 DEF PollAbort
<1>6. abort' \in [Workers -> BOOLEAN]
  BY <1>2, <1>5, Zenon
<1>7. Sourced(w, p)
  BY <1>2, <1>4, <1>5, <1>6 DEF Sourced
<1>8. QED
  BY <1>7

(* Writing moves what is emitted from the link to the sink. *)
LEMMA WriteKeeps ==
  ASSUME StepInv, NEW w \in Workers, Write(w)
  PROVE  StepInv'
<1>1. /\ UNCHANGED <<conf, now, part, chan, inbuf, cap, logics, sched, awoken, timers, running, abort,
                     interrupt, snaps, eofs, late, asked, wrong>>
      /\ written' = [k \in Keys |-> IF WorkerOf[k] = w THEN written[k] \o Values(outs[k])
                                                       ELSE written[k]]
      /\ outs' = [k \in Keys |-> IF WorkerOf[k] = w THEN <<>> ELSE outs[k]]
  BY DEF Write, source, op, threads
<1>2. ASSUME NEW k \in Keys
      PROVE  /\ KeyState(k) \in KeyStates /\ outs[k] \in Seq(Out) /\ written[k] \in Seq(Seq(Items))
             /\ KeyState(k).outs = outs[k] /\ KeyState(k).logic = logics[k]
             /\ KeyState(k).sched = sched[k] /\ KeyState(k).awoken = awoken[k]
             /\ KeyState(k).snap = snaps[k]
  <2>1. KeyState(k) \in KeyStates /\ written[k] \in Seq(Seq(Items))
    BY DEF StepInv, KeysInv
  <2>2. /\ KeyState(k).outs = outs[k] /\ KeyState(k).logic = logics[k]
        /\ KeyState(k).sched = sched[k] /\ KeyState(k).awoken = awoken[k]
        /\ KeyState(k).snap = snaps[k]
    BY DEF KeyState
  <2>3. outs[k] \in Seq(Out)
    BY <2>1, <2>2 DEF KeyStates
  <2>4. QED
    BY <2>1, <2>2, <2>3
<1>3. ASSUME NEW k \in Keys
      PROVE  /\ written'[k] \in Seq(Seq(Items)) /\ outs'[k] \in Seq(Out)
             /\ Len(written'[k]) + Len(outs'[k]) = Len(written[k]) + Len(outs[k])
             /\ \A j \in DOMAIN written[k] : j \in DOMAIN written'[k] /\ written'[k][j] = written[k][j]
             /\ \A j \in DOMAIN outs[k] :
                  \/ j \in DOMAIN outs'[k] /\ outs'[k][j] = outs[k][j]
                  \/ \E i \in DOMAIN written'[k] : written'[k][i] = outs[k][j].value
  <2>1. CASE WorkerOf[k] = w
    <3>1. PICK t : t = Values(outs[k])
      OBVIOUS
    <3>2. /\ t \in Seq(Seq(Items)) /\ Len(t) = Len(outs[k]) /\ Len(outs[k]) \in Nat
          /\ DOMAIN outs[k] = 1 .. Len(outs[k]) /\ \A j \in DOMAIN outs[k] : t[j] = outs[k][j].value
      <4>1. PICK s \in Seq(Out) : s = outs[k]
        BY <1>2
      <4>2. QED
        BY <3>1, <4>1, ValuesIs
    <3>3. PICK a \in Seq(Seq(Items)) : a = written[k]
      BY <1>2
    <3>4. PICK c : c = a \o t
      OBVIOUS
    <3>5. /\ c \in Seq(Seq(Items)) /\ DOMAIN a = 1 .. Len(a) /\ Len(a) \in Nat
          /\ DOMAIN c = 1 .. Len(a) + Len(t) /\ Len(c) = Len(a) + Len(t)
          /\ \A j \in DOMAIN a : c[j] = a[j]
          /\ \A j \in 1 .. Len(t) : c[Len(a) + j] = t[j]
      <4>1. PICK S : S = Seq(Items)
        OBVIOUS
      <4>2. a \in Seq(S) /\ t \in Seq(S)
        BY <3>2, <4>1
      <4>3. /\ c \in Seq(S) /\ DOMAIN a = 1 .. Len(a) /\ Len(a) \in Nat
            /\ DOMAIN c = 1 .. Len(a) + Len(t) /\ Len(c) = Len(a) + Len(t)
            /\ \A j \in DOMAIN a : c[j] = a[j]
            /\ \A j \in 1 .. Len(t) : c[Len(a) + j] = t[j]
        BY <3>4, <4>2, ConcatIs
      <4>4. QED
        BY <4>1, <4>3
    <3>6. written'[k] = c /\ outs'[k] = <<>>
      BY <1>1, <2>1, <3>1, <3>3, <3>4
    <3>7. \A j \in DOMAIN a : j \in DOMAIN c
      BY <3>2, <3>5
    <3>8. ASSUME NEW j \in DOMAIN outs[k]
          PROVE  \E i \in DOMAIN c : c[i] = outs[k][j].value
      <4>1. j \in 1 .. Len(t) /\ t[j] = outs[k][j].value
        BY <3>2, <3>8
      <4>2. Len(a) \in Nat /\ Len(t) \in Nat /\ j \in Nat /\ 1 <= j /\ j <= Len(t)
        BY <3>2, <3>5, <4>1
      <4>3. Len(a) + j \in 1 .. Len(a) + Len(t)
        BY <4>2
      <4>4. Len(a) + j \in DOMAIN c /\ c[Len(a) + j] = t[j]
        <5>1. DOMAIN c = 1 .. Len(a) + Len(t) /\ \A i \in 1 .. Len(t) : c[Len(a) + i] = t[i]
          BY <3>5
        <5>2. QED
          BY <4>1, <4>3, <5>1
      <4>5. QED
        BY <4>1, <4>4
    <3>9. Len(c) + Len(<<>>) = Len(written[k]) + Len(outs[k]) /\ <<>> \in Seq(Out)
      BY <3>2, <3>3, <3>5
    <3>10. QED
      BY <3>3, <3>5, <3>6, <3>7, <3>8, <3>9
  <2>2. CASE WorkerOf[k] # w
    <3>1. written'[k] = written[k] /\ outs'[k] = outs[k]
      BY <1>1, <2>2
    <3>2. QED
      BY <1>2, <3>1
  <2>3. QED
    BY <2>1, <2>2
<1>4. ASSUME NEW k \in Keys
      PROVE  /\ KeyState(k)' \in KeyStates /\ KeyState(k)'.outs = outs'[k]
             /\ KeyState(k)'.logic = logics[k] /\ KeyState(k)'.sched = sched[k]
             /\ KeyState(k)'.awoken = awoken[k] /\ KeyState(k)'.snap = snaps[k]
  <2>1. PICK o \in Seq(Out) : o = outs'[k]
    BY <1>3
  <2>2. PICK st \in KeyStates : st = KeyState(k)
    BY <1>2
  <2>3. PICK res : res = [st EXCEPT !.outs = o]
    OBVIOUS
  <2>4. /\ res \in KeyStates /\ res.outs = o /\ res.logic = st.logic /\ res.sched = st.sched
        /\ res.awoken = st.awoken /\ res.snap = st.snap
    BY <2>3 DEF KeyStates
  <2>5. KeyState(k)' = res
    <3>1. KeyState(k)' = [KeyState(k) EXCEPT !.outs = o]
      BY <1>1, <2>1 DEF KeyState
    <3>2. QED
      BY <2>2, <2>3, <3>1
  <2>6. QED
    BY <1>2, <2>1, <2>2, <2>4, <2>5
<1>5. ThreadsInv' /\ SourcesInv' /\ EofInv'
  BY <1>1 DEF StepInv, ThreadsInv, SourcesInv, EofInv
<1>6. KeysInv'
  <2>1. DOMAIN logics' = Keys
    BY <1>1 DEF StepInv, KeysInv
  <2>2. QED
    BY <1>3, <1>4, <2>1 DEF KeysInv
<1>7. LinkInv'
  <2>1. StepIn' = StepIn
    BY <1>1 DEF StepIn
  <2>2. QED
    BY <1>1, <2>1 DEF StepInv, LinkInv
<1>8. CacheInv'
  <2>1. ASSUME NEW k \in Keys
        PROVE  Scheduled(KeyState(k)') /\ Current(KeyState(k)')
    <3>1. Scheduled(KeyState(k)) /\ Current(KeyState(k))
      BY DEF StepInv, CacheInv
    <3>2. PICK a, b : a = KeyState(k) /\ b = KeyState(k)'
      OBVIOUS
    <3>3. b.logic = a.logic /\ b.sched = a.sched /\ b.awoken = a.awoken /\ b.snap = a.snap
      BY <1>2, <1>4, <3>2
    <3>4. Scheduled(b)
      BY <3>1, <3>2, <3>3 DEF Scheduled
    <3>5. Current(b)
      BY <3>1, <3>2, <3>3 DEF Current
    <3>6. QED
      BY <3>2, <3>4, <3>5
  <2>2. QED
    BY <2>1 DEF CacheInv
<1>9. FinalInv'
  <2>1. SUFFICES ASSUME conf.logic = "fold_final"
                 PROVE  FinalInv'
    BY <1>1 DEF FinalInv
  <2>2. ASSUME NEW k \in Keys, NEW v, Has(k, v)
        PROVE  Has(k, v)'
    <3>1. CASE OnItsWay(k, v)
      BY <1>1, <3>1 DEF Has, OnItsWay
    <3>2. CASE Written(k, v)
      <4>1. Written(k, v)'
        BY <1>3, <3>2 DEF Written
      <4>2. QED
        BY <4>1 DEF Has
    <3>3. CASE \E l \in logics[k] : \E i \in DOMAIN l.acc : l.acc[i] = v
      <4>1. KeyHas(KeyState(k)', v)
        BY <1>4, <3>3 DEF KeyHas
      <4>2. QED
        BY <4>1 DEF Has
    <3>4. CASE \E j \in DOMAIN outs[k] : \E i \in DOMAIN outs[k][j].value : outs[k][j].value[i] = v
      <4>1. PICK j \in DOMAIN outs[k] : \E i \in DOMAIN outs[k][j].value : outs[k][j].value[i] = v
        BY <3>4
      <4>2. CASE j \in DOMAIN outs'[k] /\ outs'[k][j] = outs[k][j]
        <5>1. KeyHas(KeyState(k)', v)
          BY <1>4, <4>1, <4>2 DEF KeyHas
        <5>2. QED
          BY <5>1 DEF Has
      <4>3. CASE \E i \in DOMAIN written'[k] : written'[k][i] = outs[k][j].value
        <5>1. Written(k, v)'
          BY <4>1, <4>3 DEF Written
        <5>2. QED
          BY <5>1 DEF Has
      <4>4. QED
        BY <1>3, <4>1, <4>2, <4>3
    <3>5. KeyHas(KeyState(k), v) =>
            \/ \E l \in logics[k] : \E i \in DOMAIN l.acc : l.acc[i] = v
            \/ \E j \in DOMAIN outs[k] : \E i \in DOMAIN outs[k][j].value : outs[k][j].value[i] = v
      BY <1>2 DEF KeyHas
    <3>6. QED
      BY <2>2, <3>1, <3>2, <3>3, <3>4, <3>5 DEF Has
  <2>3. ASSUME NEW k \in Keys, NEW v \in Workers, NEW i \in 1 .. part[v].pos, conf.script[v][i] = k
        PROVE  Has(k, <<v, i>>)'
    <3>1. Has(k, <<v, i>>)
      BY <2>1, <2>3 DEF StepInv, FinalInv
    <3>2. PICK item : item = <<v, i>>
      OBVIOUS
    <3>3. Has(k, item)'
      BY <2>2, <3>1, <3>2
    <3>4. QED
      BY <3>2, <3>3
  <2>4. \A k \in Keys : /\ Len(written'[k]) + Len(outs'[k]) <= 1
                        /\ Len(written'[k]) + Len(outs'[k]) = 1 => cap[WorkerOf[k]] = {}
                        /\ cap[WorkerOf[k]] = {} => logics[k] = {}
    BY <1>3, <2>1 DEF StepInv, FinalInv
  <2>5. QED
    BY <1>1, <2>3, <2>4 DEF FinalInv
<1>10. QED
  BY <1>5, <1>6, <1>7, <1>8, <1>9 DEF StepInv

-----------------------------------------------------------------------------
-----------------------------------------------------------------------------
(* The order of a key's items over a step of the program. *)

(* The first messages are taken from the link.                              *)
Cut(msgs, buf, rest) ==
  /\ msgs \in Seq(Msg) /\ buf \in Seq(Msg) /\ rest \in Seq(Msg)
  /\ Len(buf) <= Len(msgs) /\ \A j \in DOMAIN buf : buf[j] = msgs[j]
  /\ DOMAIN rest = 1 .. Len(msgs) - Len(buf)
  /\ \A j \in DOMAIN rest : rest[j] = msgs[Len(buf) + j]

LEMMA CutOrder ==
  ASSUME NEW k, NEW msgs, NEW buf, NEW rest, Cut(msgs, buf, rest), LinedUp(k, msgs)
  PROVE  /\ Coming(k, msgs) = Coming(k, buf) \cup Coming(k, rest)
         /\ LinedUp(k, buf) /\ LinedUp(k, rest) /\ Precede(Coming(k, buf), Coming(k, rest))
<1>1. PICK l \in Nat, n \in Nat :
        /\ n <= l /\ DOMAIN msgs = 1 .. l /\ DOMAIN buf = 1 .. n /\ DOMAIN rest = 1 .. l - n
        /\ \A j \in 1 .. l - n : rest[j] = msgs[n + j]
  <2>1. PICK l \in Nat : l = Len(msgs) /\ DOMAIN msgs = 1 .. l
    BY DEF Cut
  <2>2. PICK n \in Nat : n = Len(buf) /\ DOMAIN buf = 1 .. n
    BY DEF Cut
  <2>3. QED
    BY <2>1, <2>2 DEF Cut
<1>2. /\ DOMAIN msgs = 1 .. l /\ DOMAIN buf = 1 .. n /\ DOMAIN rest = 1 .. l - n /\ n <= l
      /\ \A j \in 1 .. l - n : rest[j] = msgs[n + j]
  BY <1>1
<1>3. \A j \in DOMAIN buf : j \in DOMAIN msgs /\ buf[j] = msgs[j]
  BY <1>2 DEF Cut
<1>4. \A j \in DOMAIN rest : n + j \in DOMAIN msgs /\ rest[j] = msgs[n + j]
  <2>1. \A j \in 1 .. l - n : n + j \in 1 .. l
    BY <1>2
  <2>2. QED
    BY <1>2, <2>1
<1>5. ASSUME NEW j \in DOMAIN msgs
      PROVE  \/ j \in DOMAIN buf /\ msgs[j] = buf[j]
             \/ j - n \in DOMAIN rest /\ msgs[j] = rest[j - n]
  <2>1. j \in 1 .. l
    BY <1>2
  <2>2. CASE j <= n
    BY <1>2, <1>3, <2>1, <2>2
  <2>3. CASE ~ (j <= n)
    <3>1. j - n \in 1 .. l - n /\ n + (j - n) = j
      BY <1>2, <2>1, <2>3
    <3>2. PICK i \in 1 .. l - n : i = j - n
      BY <3>1
    <3>3. rest[i] = msgs[n + i]
      BY <1>2
    <3>4. QED
      BY <1>2, <3>1, <3>2, <3>3
  <2>4. QED
    BY <2>2, <2>3
<1>6. Coming(k, msgs) = Coming(k, buf) \cup Coming(k, rest)
  <2>1. \A v : v \in Coming(k, msgs) => v \in Coming(k, buf) \cup Coming(k, rest)
    BY <1>5 DEF Coming
  <2>2. \A v : v \in Coming(k, buf) => v \in Coming(k, msgs)
    BY <1>3 DEF Coming
  <2>3. \A v : v \in Coming(k, rest) => v \in Coming(k, msgs)
    BY <1>4 DEF Coming
  <2>4. QED
    BY <2>1, <2>2, <2>3
<1>7. LinedUp(k, buf)
  BY <1>3 DEF LinedUp
<1>8. LinedUp(k, rest)
  <2>1. SUFFICES ASSUME NEW i \in DOMAIN rest, NEW j \in DOMAIN rest, i < j, rest[i].key = k,
                        rest[j].key = k, rest[i].value[1] = rest[j].value[1]
                 PROVE  rest[i].value[2] < rest[j].value[2]
    BY DEF LinedUp
  <2>2. n + i < n + j
    BY <1>2, <2>1
  <2>3. PICK x \in DOMAIN msgs : x = n + i /\ rest[i] = msgs[x]
    BY <1>4, <2>1
  <2>4. PICK y \in DOMAIN msgs : y = n + j /\ rest[j] = msgs[y]
    BY <1>4, <2>1
  <2>5. x < y
    BY <2>2, <2>3, <2>4
  <2>6. QED
    BY <2>1, <2>3, <2>4, <2>5 DEF LinedUp
<1>9. Precede(Coming(k, buf), Coming(k, rest))
  <2>1. SUFFICES ASSUME NEW i \in DOMAIN buf, NEW j \in DOMAIN rest, buf[i].key = k,
                        rest[j].key = k, buf[i].value[1] = rest[j].value[1]
                 PROVE  buf[i].value[2] < rest[j].value[2]
    BY DEF Precede, Coming
  <2>2. i < n + j /\ i \in DOMAIN msgs /\ msgs[i] = buf[i]
    BY <1>2, <1>3, <2>1
  <2>3. PICK y \in DOMAIN msgs : y = n + j /\ rest[j] = msgs[y]
    BY <1>4, <2>1
  <2>4. QED
    BY <2>1, <2>2, <2>3 DEF LinedUp
<1>10. QED
  BY <1>6, <1>7, <1>8, <1>9

LEMMA StepOrder ==
  ASSUME NEW k, NEW lists, NEW st, NEW res, NEW sent,
         NEW msgs, NEW buf, NEW rest, Cut(msgs, buf, rest),
         InOrder(k, lists, st, msgs, sent), Ordered(k, st, res, buf)
  PROVE  InOrder(k, lists, res, rest, sent)
<1>1. /\ Orderly(lists) /\ KeyOrder(st) /\ LinedUp(k, msgs)
      /\ Precede(AllOf(lists), Mine(st) \cup Coming(k, msgs)) /\ Precede(Mine(st), Coming(k, msgs))
      /\ AllOf(lists) \cup Mine(st) \cup Coming(k, msgs) = sent
  BY DEF InOrder
<1>2. /\ Coming(k, msgs) = Coming(k, buf) \cup Coming(k, rest)
      /\ LinedUp(k, buf) /\ LinedUp(k, rest) /\ Precede(Coming(k, buf), Coming(k, rest))
  <2>1. LinedUp(k, msgs)
    BY <1>1
  <2>2. QED
    BY <2>1, CutOrder
<1>3. KeyOrder(res) /\ Mine(res) = Mine(st) \cup Coming(k, buf)
  BY <1>1, <1>2 DEF Ordered, Precede
<1>4. Precede(Mine(res), Coming(k, rest))
  BY <1>1, <1>2, <1>3 DEF Precede
<1>5. Mine(res) \cup Coming(k, rest) = Mine(st) \cup Coming(k, msgs)
  BY <1>2, <1>3
<1>6. AllOf(lists) \cup Mine(res) \cup Coming(k, rest) = sent
  BY <1>1, <1>2, <1>3
<1>7. QED
  BY <1>1, <1>2, <1>3, <1>4, <1>5, <1>6 DEF InOrder

(* A message joins the others on the link.                                  *)
LEMMA SendOrder ==
  ASSUME NEW k, NEW lists, NEW st, NEW sent, NEW msgs \in Seq(Msg), NEW m \in Msg,
         InOrder(k, lists, st, msgs, sent)
  PROVE  /\ m.key # k => InOrder(k, lists, st, Append(msgs, m), sent)
         /\ m.key = k /\ Precede(sent, {m.value}) =>
              InOrder(k, lists, st, Append(msgs, m), sent \cup {m.value})
<1>1. /\ Orderly(lists) /\ KeyOrder(st) /\ LinedUp(k, msgs)
      /\ Precede(AllOf(lists), Mine(st) \cup Coming(k, msgs)) /\ Precede(Mine(st), Coming(k, msgs))
      /\ AllOf(lists) \cup Mine(st) \cup Coming(k, msgs) = sent
  BY DEF InOrder
<1>2. PICK q : q = Append(msgs, m)
  OBVIOUS
<1>3. PICK n \in Nat : n = Len(msgs)
  OBVIOUS
<1>4. /\ DOMAIN msgs = 1 .. n /\ DOMAIN q = 1 .. n + 1
      /\ (\A i \in DOMAIN msgs : q[i] = msgs[i]) /\ q[n + 1] = m
  BY <1>2, <1>3, AppendIs
<1>5. /\ \A i \in DOMAIN msgs : i \in DOMAIN q /\ i < n + 1
      /\ \A i \in DOMAIN q : i \in DOMAIN msgs \/ i = n + 1
      /\ n + 1 \in DOMAIN q
  BY <1>4
<1>6. CASE m.key # k
  <2>1. Coming(k, q) = Coming(k, msgs)
    BY <1>4, <1>5, <1>6 DEF Coming
  <2>2. LinedUp(k, q)
    BY <1>1, <1>4, <1>5, <1>6 DEF LinedUp
  <2>3. InOrder(k, lists, st, q, sent)
    BY <1>1, <2>1, <2>2 DEF InOrder
  <2>4. QED
    BY <1>2, <1>6, <2>3
<1>7. ASSUME m.key = k, Precede(sent, {m.value})
      PROVE  InOrder(k, lists, st, q, sent \cup {m.value})
  <2>1. Coming(k, q) = Coming(k, msgs) \cup {m.value}
    BY <1>4, <1>5, <1>7 DEF Coming
  <2>2. LinedUp(k, q)
    <3>1. SUFFICES ASSUME NEW i \in DOMAIN q, NEW j \in DOMAIN q, i < j, q[i].key = k, q[j].key = k,
                          q[i].value[1] = q[j].value[1]
                   PROVE  q[i].value[2] < q[j].value[2]
      BY DEF LinedUp
    <3>2. i \in DOMAIN msgs /\ q[i] = msgs[i]
      BY <1>4, <3>1
    <3>3. CASE j \in DOMAIN msgs
      BY <1>1, <1>4, <3>1, <3>2, <3>3 DEF LinedUp
    <3>4. CASE j = n + 1
      <4>1. q[i].value \in sent
        <5>1. q[i].value \in Coming(k, msgs)
          BY <3>1, <3>2 DEF Coming
        <5>2. QED
          BY <1>1, <5>1
      <4>2. q[j].value = m.value
        BY <1>4, <3>4
      <4>3. QED
        BY <1>7, <3>1, <4>1, <4>2 DEF Precede
    <3>5. QED
      BY <1>5, <3>3, <3>4
  <2>3. Precede(AllOf(lists) \cup Mine(st), {m.value})
    BY <1>1, <1>7 DEF Precede
  <2>4. Precede(AllOf(lists), Mine(st) \cup Coming(k, q)) /\ Precede(Mine(st), Coming(k, q))
    BY <1>1, <2>1, <2>3 DEF Precede
  <2>5. AllOf(lists) \cup Mine(st) \cup Coming(k, q) = sent \cup {m.value}
    BY <1>1, <2>1
  <2>6. QED
    BY <1>1, <2>2, <2>4, <2>5 DEF InOrder
<1>8. QED
  BY <1>2, <1>6, <1>7

(* What was emitted is written.                                             *)
LEMMA WriteOrder ==
  ASSUME NEW k, NEW lists \in Seq(Seq(Items)), NEW st \in KeyStates, NEW msgs, NEW sent,
         InOrder(k, lists, st, msgs, sent),
         NEW res, res.logic = st.logic, res.outs = <<>>
  PROVE  InOrder(k, lists \o Values(st.outs), res, msgs, sent)
<1>1. /\ Orderly(lists) /\ KeyOrder(st) /\ LinedUp(k, msgs)
      /\ Precede(AllOf(lists), Mine(st) \cup Coming(k, msgs)) /\ Precede(Mine(st), Coming(k, msgs))
      /\ AllOf(lists) \cup Mine(st) \cup Coming(k, msgs) = sent
  BY DEF InOrder
<1>2. PICK Y : Y = Values(st.outs)
  OBVIOUS
<1>3. Y \in Seq(Seq(Items))
  <2>1. PICK s \in Seq(Out) : s = st.outs
    BY DEF KeyStates
  <2>2. QED
    BY <1>2, <2>1, ValuesIs
<1>4. PICK Z : Z = lists \o Y
  OBVIOUS
<1>5. /\ Orderly(Y) /\ Precede(AllOf(Y), Held(st)) /\ (\A l \in st.logic : Increasing(l.acc))
      /\ Mine(st) = AllOf(Y) \cup Held(st)
  BY <1>1, <1>2 DEF KeyOrder, Mine
<1>6. Z \in Seq(Seq(Items)) /\ AllOf(Z) = AllOf(lists) \cup AllOf(Y) /\ Orderly(Z)
  <2>1. Precede(AllOf(lists), AllOf(Y))
    BY <1>1, <1>5 DEF Precede
  <2>2. QED
    BY <1>1, <1>3, <1>4, <1>5, <2>1, ConcatOrder
<1>7. KeyOrder(res) /\ Mine(res) = Held(st)
  <2>1. DOMAIN Values(res.outs) = {}
    BY DEF Values
  <2>2. AllOf(Values(res.outs)) = {} /\ Orderly(Values(res.outs))
    BY <2>1 DEF AllOf, Orderly
  <2>3. Held(res) = Held(st)
    BY DEF Held
  <2>4. QED
    BY <1>5, <2>2, <2>3 DEF KeyOrder, Mine, Precede
<1>8. /\ Precede(AllOf(Z), Mine(res) \cup Coming(k, msgs)) /\ Precede(Mine(res), Coming(k, msgs))
  BY <1>1, <1>5, <1>6, <1>7 DEF Precede
<1>9. AllOf(Z) \cup Mine(res) \cup Coming(k, msgs) = sent
  BY <1>1, <1>5, <1>6, <1>7
<1>10. InOrder(k, Z, res, msgs, sent)
  BY <1>1, <1>6, <1>7, <1>8, <1>9 DEF InOrder
<1>11. QED
  BY <1>2, <1>4, <1>10

LEMMA SentIs ==
  /\ \A k, v : v \in Sent(k) <=> \E w \in Workers : \E i \in 1 .. part[w].pos :
                                   conf.script[w][i] = k /\ v = <<w, i>>
  /\ \A k, v : v \in Sent(k)' <=> \E w \in Workers : \E i \in 1 .. part'[w].pos :
                                    conf'.script[w][i] = k /\ v = <<w, i>>
BY DEF Sent

LEMMA OrderInit == Init => OrderInv
<1> SUFFICES ASSUME Init, NEW k \in Keys
             PROVE  InOrder(k, written[k], KeyState(k), chan[WorkerOf[k]], Sent(k))
  BY DEF OrderInv
<1>1. written[k] = <<>> /\ KeyState(k).outs = <<>> /\ KeyState(k).logic = {} /\ chan[WorkerOf[k]] = <<>>
  BY StepAssumption DEF Init, KeyState
<1>2. Sent(k) = {}
  <2>1. \A w \in Workers : part[w].pos = 0
    BY DEF Init
  <2>2. \A w \in Workers : 1 .. part[w].pos = {}
    BY <2>1
  <2>3. QED
    BY <2>2, SentIs
<1>3. AllOf(<<>>) = {} /\ Orderly(<<>>) /\ Values(<<>>) = <<>>
  BY DEF AllOf, Orderly, Values
<1>4. KeyOrder(KeyState(k)) /\ Mine(KeyState(k)) = {}
  BY <1>1, <1>3 DEF KeyOrder, Mine, Held, Precede
<1>5. Coming(k, <<>>) = {} /\ LinedUp(k, <<>>)
  BY DEF Coming, LinedUp
<1>6. QED
  BY <1>1, <1>2, <1>3, <1>4, <1>5 DEF InOrder, Precede

LEMMA OrderStutter ==
  ASSUME OrderInv, UNCHANGED <<conf, part, chan, op, outs, history>>
  PROVE  OrderInv'
<1>1. SUFFICES ASSUME NEW k \in Keys
               PROVE  InOrder(k, written[k], KeyState(k), chan[WorkerOf[k]], Sent(k))'
  BY DEF OrderInv
<1>2. /\ written' = written /\ chan' = chan /\ part' = part /\ conf' = conf /\ logics' = logics
      /\ sched' = sched /\ awoken' = awoken /\ outs' = outs /\ snaps' = snaps /\ eofs' = eofs
      /\ late' = late /\ asked' = asked /\ wrong' = wrong
  BY DEF op, history
<1>3. KeyState(k)' = KeyState(k)
  BY <1>2 DEF KeyState
<1>4. Sent(k)' = Sent(k)
  BY <1>2 DEF Sent
<1>5. InOrder(k, written[k], KeyState(k), chan[WorkerOf[k]], Sent(k))
  BY DEF OrderInv
<1>6. QED
  BY <1>2, <1>3, <1>4, <1>5

LEMMA OrderStep ==
  ASSUME StepInv, OrderInv, NEW w \in Workers, NEW n, NEW view, Stepped(w, n, view)
  PROVE  OrderInv'
<1>1. /\ n \in 0 .. Len(chan[w]) /\ chan' = [chan EXCEPT ![w] = SubSeq(@, n + 1, Len(@))]
      /\ part' = part /\ conf' = conf /\ written' = written
      /\ \A k \in Keys : WorkerOf[k] # w => KeyState(k)' = KeyState(k)
  BY DEF Stepped
<1>2. PICK buf : Reads(w, n, buf)
  BY DEF Stepped
<1>3. chan \in [Workers -> Seq(Msg)] /\ WorkerOf \in [Keys -> Workers]
  BY StepAssumption DEF StepInv, ThreadsInv
<1>4. PICK msgs \in Seq(Msg) : msgs = chan[w]
  BY <1>3
<1>5. PICK rest : rest = SubSeq(msgs, n + 1, Len(msgs))
  OBVIOUS
<1>6. Cut(msgs, buf, rest)
  <2>1. PICK l \in Nat : l = Len(msgs)
    OBVIOUS
  <2>2. n \in Nat /\ n <= l
    BY <1>1, <1>4, <2>1
  <2>3. /\ rest \in Seq(Msg) /\ DOMAIN rest = 1 .. l - n
        /\ \A j \in 1 .. l - n : rest[j] = msgs[n + j]
    BY <1>5, <2>1, <2>2
  <2>4. buf \in Seq(Msg) /\ Len(buf) = n /\ DOMAIN buf = 1 .. n /\ \A j \in 1 .. n : buf[j] = msgs[j]
    BY <1>2, <1>4 DEF Reads
  <2>5. QED
    BY <2>1, <2>2, <2>3, <2>4 DEF Cut
<1>7. SUFFICES ASSUME NEW k \in Keys
               PROVE  InOrder(k, written[k], KeyState(k), chan[WorkerOf[k]], Sent(k))'
  BY DEF OrderInv
<1>8. PICK sent : sent = Sent(k)
  OBVIOUS
<1>9. Sent(k)' = sent
  BY <1>1, <1>8 DEF Sent
<1>10. InOrder(k, written[k], KeyState(k), chan[WorkerOf[k]], sent)
  BY <1>8 DEF OrderInv
<1>11. CASE WorkerOf[k] = w
  <2>1. chan'[WorkerOf[k]] = rest
    BY <1>1, <1>3, <1>4, <1>5, <1>11
  <2>2. Ordered(k, KeyState(k), KeyState(k)', buf)
    BY <1>2, <1>11 DEF Reads, MyKeys
  <2>3. PICK st : st = KeyState(k)
    OBVIOUS
  <2>4. PICK res : res = KeyState(k)'
    OBVIOUS
  <2>5. PICK lists : lists = written[k]
    OBVIOUS
  <2>6. InOrder(k, lists, st, msgs, sent) /\ Ordered(k, st, res, buf)
    BY <1>4, <1>10, <1>11, <2>2, <2>3, <2>4, <2>5
  <2>7. InOrder(k, lists, res, rest, sent)
    BY <1>6, <2>6, StepOrder
  <2>8. QED
    BY <1>1, <1>9, <2>1, <2>4, <2>5, <2>7
<1>12. CASE WorkerOf[k] # w
  <2>1. chan'[WorkerOf[k]] = chan[WorkerOf[k]]
    BY <1>1, <1>3, <1>12
  <2>2. KeyState(k)' = KeyState(k)
    BY <1>1, <1>12
  <2>3. QED
    BY <1>1, <1>9, <1>10, <2>1, <2>2
<1>13. QED
  BY <1>11, <1>12

LEMMA OrderWrite ==
  ASSUME StepInv, OrderInv, NEW w \in Workers, Write(w)
  PROVE  OrderInv'
<1>1. /\ chan' = chan /\ part' = part /\ conf' = conf /\ logics' = logics /\ sched' = sched
      /\ awoken' = awoken /\ snaps' = snaps /\ eofs' = eofs /\ late' = late /\ asked' = asked
      /\ wrong' = wrong
      /\ written' = [k \in Keys |-> IF WorkerOf[k] = w THEN written[k] \o Values(outs[k])
                                                       ELSE written[k]]
      /\ outs' = [k \in Keys |-> IF WorkerOf[k] = w THEN <<>> ELSE outs[k]]
  BY DEF Write, source, op, threads
<1>2. SUFFICES ASSUME NEW k \in Keys
               PROVE  InOrder(k, written[k], KeyState(k), chan[WorkerOf[k]], Sent(k))'
  BY DEF OrderInv
<1>3. PICK sent : sent = Sent(k)
  OBVIOUS
<1>4. Sent(k)' = sent
  BY <1>1, <1>3 DEF Sent
<1>5. PICK msgs : msgs = chan[WorkerOf[k]]
  OBVIOUS
<1>6. PICK st \in KeyStates : st = KeyState(k)
  BY DEF StepInv, KeysInv
<1>7. PICK lists \in Seq(Seq(Items)) : lists = written[k]
  BY DEF StepInv, KeysInv
<1>8. InOrder(k, lists, st, msgs, sent)
  BY <1>3, <1>5, <1>6, <1>7 DEF OrderInv
<1>9. CASE WorkerOf[k] = w
  <2>1. PICK res : res = KeyState(k)'
    OBVIOUS
  <2>2. res.logic = st.logic /\ res.outs = <<>>
    BY <1>1, <1>6, <1>9, <2>1 DEF KeyState
  <2>3. written'[k] = lists \o Values(st.outs)
    BY <1>1, <1>6, <1>7, <1>9 DEF KeyState
  <2>4. InOrder(k, lists \o Values(st.outs), res, msgs, sent)
    BY <1>8, <2>2, WriteOrder
  <2>5. QED
    BY <1>1, <1>4, <1>5, <2>1, <2>3, <2>4
<1>10. CASE WorkerOf[k] # w
  <2>1. written'[k] = lists /\ outs'[k] = outs[k]
    BY <1>1, <1>7, <1>10
  <2>2. KeyState(k)' = st
    BY <1>1, <1>6, <2>1 DEF KeyState
  <2>3. QED
    BY <1>1, <1>4, <1>5, <1>8, <2>1, <2>2
<1>11. QED
  BY <1>9, <1>10

LEMMA OrderSource ==
  ASSUME StepInv, OrderInv, NEW w \in Workers, NEW p, Sourced(w, p)
  PROVE  OrderInv'
<1>1. /\ p \in Part /\ part' = [part EXCEPT ![w] = p] /\ conf' = conf /\ written' = written
      /\ logics' = logics /\ sched' = sched /\ awoken' = awoken /\ outs' = outs /\ snaps' = snaps
      /\ eofs' = eofs /\ late' = late /\ asked' = asked /\ wrong' = wrong
      /\ p.pos = part[w].pos \/ p.pos = part[w].pos + 1
  BY DEF Sourced, op, history
<1>2. \/ chan' = chan /\ \A i \in 1 .. p.pos : conf.script[w][i] \in Keys => i \in 1 .. part[w].pos
      \/ \E k \in Keys, e \in Nat : Sent1(w, p, k, e)
  BY DEF Sourced
<1>3. /\ part \in [Workers -> Part] /\ chan \in [Workers -> Seq(Msg)]
      /\ \A v \in Workers : part'[v] = IF v = w THEN p ELSE part[v]
  BY <1>1 DEF StepInv, ThreadsInv
<1>4. p.pos \in Nat /\ part[w].pos \in Nat
  BY <1>1, <1>3 DEF Part
<1>5. \A i : /\ i \in 1 .. part[w].pos => i \in 1 .. p.pos /\ i < part[w].pos + 1
             /\ i \in 1 .. p.pos => i \in 1 .. part[w].pos \/ i = p.pos
  BY <1>1, <1>4
<1>6. \A k \in Keys : KeyState(k)' = KeyState(k)
  BY <1>1 DEF KeyState
<1>7. SUFFICES ASSUME NEW k \in Keys
               PROVE  InOrder(k, written[k], KeyState(k), chan[WorkerOf[k]], Sent(k))'
  BY DEF OrderInv
<1>8. PICK u \in Workers : u = WorkerOf[k]
  BY StepAssumption
<1>9. PICK msgs \in Seq(Msg) : msgs = chan[u]
  BY <1>3, <1>8
<1>10. PICK sent : sent = Sent(k)
  OBVIOUS
<1>11. PICK st : st = KeyState(k)
  OBVIOUS
<1>12. PICK lists : lists = written[k]
  OBVIOUS
<1>13. InOrder(k, lists, st, msgs, sent)
  BY <1>8, <1>9, <1>10, <1>11, <1>12 DEF OrderInv
<1>14. \A y \in Workers : \A i :
         /\ i \in 1 .. part[y].pos => i \in 1 .. part'[y].pos
         /\ i \in 1 .. part'[y].pos => i \in 1 .. part[y].pos \/ (y = w /\ i = p.pos)
  BY <1>3, <1>5
<1>15. \A v : v \in sent <=> \E y \in Workers : \E i \in 1 .. part[y].pos :
                               conf.script[y][i] = k /\ v = <<y, i>>
  BY <1>10, SentIs
<1>16. \A v : v \in Sent(k)' <=> \E y \in Workers : \E i \in 1 .. part'[y].pos :
                                   conf.script[y][i] = k /\ v = <<y, i>>
  <2>1. \A v : v \in Sent(k)' <=> \E y \in Workers : \E i \in 1 .. part'[y].pos :
                                    conf'.script[y][i] = k /\ v = <<y, i>>
    BY SentIs
  <2>2. conf' = conf
    BY <1>1
  <2>3. QED
    BY <2>1, <2>2
<1>17. \A v : v \in sent => v \in Sent(k)'
  <2>1. SUFFICES ASSUME NEW v, v \in sent
                 PROVE  v \in Sent(k)'
    OBVIOUS
  <2>2. PICK y \in Workers : \E i \in 1 .. part[y].pos : conf.script[y][i] = k /\ v = <<y, i>>
    BY <1>15, <2>1
  <2>3. \E i \in 1 .. part'[y].pos : conf.script[y][i] = k /\ v = <<y, i>>
    BY <1>14, <2>2
  <2>4. QED
    BY <1>16, <2>3
<1>18. ASSUME NEW v, v \in Sent(k)', v \notin sent
       PROVE  v = <<w, p.pos>> /\ p.pos \in 1 .. p.pos /\ conf.script[w][p.pos] = k
  <2>1. PICK y \in Workers : \E i \in 1 .. part'[y].pos : conf.script[y][i] = k /\ v = <<y, i>>
    BY <1>16, <1>18
  <2>2. PICK i \in 1 .. part'[y].pos : conf.script[y][i] = k /\ v = <<y, i>>
    BY <2>1
  <2>3. CASE i \in 1 .. part[y].pos
    BY <1>15, <1>18, <2>2, <2>3
  <2>4. CASE y = w /\ i = p.pos
    BY <1>3, <2>2, <2>4
  <2>5. QED
    BY <1>14, <2>3, <2>4
<1>19. ASSUME \A i \in 1 .. p.pos : conf.script[w][i] = k => i \in 1 .. part[w].pos
       PROVE  Sent(k)' = sent
  <2>1. ASSUME NEW v, v \in Sent(k)', v \notin sent
        PROVE  FALSE
    <3>1. v = <<w, p.pos>> /\ p.pos \in 1 .. part[w].pos /\ conf.script[w][p.pos] = k
      BY <1>19, <1>18, <2>1
    <3>2. QED
      BY <1>15, <2>1, <3>1
  <2>2. QED
    BY <1>17, <2>1
<1>20. CASE chan' = chan /\ \A i \in 1 .. p.pos : conf.script[w][i] \in Keys => i \in 1 .. part[w].pos
  <2>1. Sent(k)' = sent
    BY <1>19, <1>20
  <2>2. QED
    BY <1>1, <1>6, <1>8, <1>9, <1>11, <1>12, <1>13, <1>20, <2>1
<1>21. ASSUME NEW x \in Keys, NEW e \in Nat, Sent1(w, p, x, e)
       PROVE  InOrder(k, written[k], KeyState(k), chan[WorkerOf[k]], Sent(k))'
  <2>1. PICK m : m = [epoch |-> e, key |-> x, value |-> <<w, p.pos>>]
    OBVIOUS
  <2>2. m \in Msg /\ m.key = x /\ m.value = <<w, p.pos>>
    BY <1>4, <2>1 DEF Msg, Items
  <2>3. conf.script[w][p.pos] = x /\ chan' = [chan EXCEPT ![WorkerOf[x]] = Append(@, m)]
    BY <1>21, <2>1 DEF Sent1
  <2>4. CASE x # k
    <3>1. Sent(k)' = sent
      BY <1>5, <1>19, <2>3, <2>4
    <3>2. InOrder(k, lists, st, Append(msgs, m), sent)
      BY <1>13, <2>2, <2>4, SendOrder
    <3>3. chan'[u] = msgs \/ chan'[u] = Append(msgs, m)
      BY <1>3, <1>9, <2>3, StepAssumption
    <3>4. InOrder(k, lists, st, chan'[u], sent)
      BY <1>13, <3>2, <3>3
    <3>5. QED
      BY <1>1, <1>6, <1>8, <1>11, <1>12, <3>1, <3>4
  <2>5. CASE x = k
    <3>1. chan'[u] = Append(msgs, m)
      BY <1>3, <1>8, <1>9, <2>3, <2>5
    <3>2. p.pos = part[w].pos + 1
      BY <1>21 DEF Sent1
    <3>3. Sent(k)' = sent \cup {m.value}
      <4>1. p.pos \in 1 .. p.pos
        BY <1>4, <3>2
      <4>2. m.value \in Sent(k)'
        BY <1>3, <1>16, <2>2, <2>3, <2>5, <4>1
      <4>3. \A v : v \in Sent(k)' => v \in sent \/ v = m.value
        BY <1>18, <2>2
      <4>4. QED
        BY <1>17, <4>2, <4>3
    <3>4. Precede(sent, {m.value})
      <4>1. SUFFICES ASSUME NEW v \in sent, v[1] = w
                     PROVE  v[2] < p.pos
        BY <2>2 DEF Precede
      <4>2. PICK y \in Workers : \E i \in 1 .. part[y].pos : v = <<y, i>>
        BY <1>10, <4>1, SentIs
      <4>3. PICK i \in 1 .. part[w].pos : v[2] = i
        BY <4>1, <4>2
      <4>4. QED
        BY <1>5, <3>2, <4>3
    <3>5. InOrder(k, lists, st, Append(msgs, m), sent \cup {m.value})
      BY <1>13, <2>2, <2>5, <3>4, SendOrder
    <3>6. QED
      BY <1>1, <1>6, <1>8, <1>11, <1>12, <3>1, <3>3, <3>5
  <2>6. QED
    BY <2>4, <2>5
<1>22. QED
  BY <1>2, <1>20, <1>21

(* The messages on a link, each as a list.                                  *)
LEMMA OfKeyOrder ==
  ASSUME NEW k, NEW msgs \in Seq(Msg), LinedUp(k, msgs), NEW lists, lists = OfKey(k, msgs)
  PROVE  lists \in Seq(Seq(Items)) /\ AllOf(lists) = Coming(k, msgs) /\ Orderly(lists)
<1>1. PICK n \in Nat : n = Len(msgs)
  OBVIOUS
<1>2. DOMAIN msgs = 1 .. n /\ \A j \in DOMAIN msgs : msgs[j] \in Msg
  BY <1>1
<1>3. \A j \in DOMAIN msgs : msgs[j].value \in Items
  BY <1>2 DEF Msg
<1>4. DOMAIN lists = DOMAIN msgs
  BY DEF OfKey
<1>5. \A j \in DOMAIN msgs : lists[j] = IF msgs[j].key = k THEN <<msgs[j].value>> ELSE <<>>
  BY DEF OfKey
<1>6. \A j \in DOMAIN msgs :
        Range(lists[j]) = IF msgs[j].key = k THEN {msgs[j].value} ELSE {}
  <2>1. \A v : Range(<<v>>) = {v}
    BY DEF Range
  <2>2. Range(<<>>) = {}
    BY DEF Range
  <2>3. QED
    BY <1>5, <2>1, <2>2
<1>7. \A j \in DOMAIN msgs : lists[j] \in Seq(Items) /\ Increasing(lists[j])
  <2>1. ASSUME NEW v \in Items
        PROVE  <<v>> \in Seq(Items) /\ Increasing(<<v>>)
    BY DEF Increasing
  <2>2. <<>> \in Seq(Items) /\ Increasing(<<>>)
    BY DEF Increasing
  <2>3. QED
    BY <1>3, <1>5, <2>1, <2>2
<1>8. lists \in Seq(Seq(Items))
  <2>1. lists = [j \in 1 .. n |-> lists[j]]
    BY <1>2 DEF OfKey
  <2>2. \A j \in 1 .. n : lists[j] \in Seq(Items)
    BY <1>2, <1>7
  <2>3. lists \in [1 .. n -> Seq(Items)]
    BY <2>1, <2>2
  <2>4. QED
    BY <2>3
<1>9. AllOf(lists) = Coming(k, msgs)
  <2>1. \A v : v \in AllOf(lists) <=> \E j \in DOMAIN msgs : v \in Range(lists[j])
    BY <1>4 DEF AllOf
  <2>2. \A v : v \in Coming(k, msgs) <=> \E j \in DOMAIN msgs : msgs[j].key = k /\ v = msgs[j].value
    BY DEF Coming
  <2>3. ASSUME NEW v, NEW j \in DOMAIN msgs
        PROVE  v \in Range(lists[j]) <=> (msgs[j].key = k /\ v = msgs[j].value)
    <3>1. CASE msgs[j].key = k
      BY <1>6, <3>1
    <3>2. CASE msgs[j].key # k
      BY <1>6, <3>2
    <3>3. QED
      BY <3>1, <3>2
  <2>4. \A v : v \in AllOf(lists) <=> v \in Coming(k, msgs)
    BY <2>1, <2>2, <2>3
  <2>5. QED
    BY <2>4
<1>10. Orderly(lists)
  <2>1. ASSUME NEW i \in DOMAIN msgs, NEW j \in DOMAIN msgs, i < j
        PROVE  Precede(Range(lists[i]), Range(lists[j]))
    BY <1>6, <2>1 DEF Precede, LinedUp
  <2>2. QED
    BY <1>4, <1>7, <2>1 DEF Orderly
<1>11. QED
  BY <1>8, <1>9, <1>10

LEMMA TrailOrder ==
  ASSUME StepInv, OrderInv, NEW k \in Keys
  PROVE  /\ Trail(k) \in Seq(Seq(Items)) /\ AllOf(Trail(k)) = Sent(k) /\ Orderly(Trail(k))
<1>1. PICK u \in Workers : u = WorkerOf[k]
  BY StepAssumption
<1>2. PICK msgs \in Seq(Msg) : msgs = chan[u]
  BY <1>1 DEF StepInv, ThreadsInv
<1>3. PICK st \in KeyStates : st = KeyState(k)
  BY DEF StepInv, KeysInv
<1>4. PICK W \in Seq(Seq(Items)) : W = written[k]
  BY DEF StepInv, KeysInv
<1>5. InOrder(k, W, st, msgs, Sent(k))
  BY <1>1, <1>2, <1>3, <1>4 DEF OrderInv
<1>6. /\ Orderly(W) /\ KeyOrder(st) /\ LinedUp(k, msgs)
      /\ Precede(AllOf(W), Mine(st) \cup Coming(k, msgs)) /\ Precede(Mine(st), Coming(k, msgs))
      /\ AllOf(W) \cup Mine(st) \cup Coming(k, msgs) = Sent(k)
  BY <1>5 DEF InOrder
<1>7. PICK X \in Seq(Seq(Items)) : X = Values(st.outs)
  <2>1. PICK s \in Seq(Out) : s = st.outs
    BY DEF KeyStates
  <2>2. PICK t : t = Values(s)
    OBVIOUS
  <2>3. t \in Seq(Seq(Items))
    BY <2>2, ValuesIs
  <2>4. QED
    BY <2>1, <2>2, <2>3
<1>8. /\ Orderly(X) /\ Precede(AllOf(X), Held(st)) /\ Mine(st) = AllOf(X) \cup Held(st)
  BY <1>6, <1>7 DEF KeyOrder, Mine
<1>9. PICK acc : acc = IF logics[k] = {} THEN <<>> ELSE The(logics[k]).acc
  OBVIOUS
<1>10. acc \in Seq(Items) /\ Increasing(acc) /\ Range(acc) = Held(st)
  <2>1. PICK l : l = IF st.logic = {} THEN New ELSE The(st.logic)
    OBVIOUS
  <2>2. l.acc \in Seq(Items) /\ Increasing(l.acc) /\ Range(l.acc) = Held(st)
    <3>1. Good(st)
      BY <1>3 DEF StepInv, CacheInv, Good
    <3>2. QED
      BY <1>6, <2>1, <3>1, LogicOrder
  <2>3. st.logic = logics[k]
    BY <1>3 DEF KeyState
  <2>4. acc = l.acc
    BY <1>9, <2>1, <2>3 DEF New
  <2>5. QED
    BY <2>2, <2>4
<1>11. PICK A \in Seq(Seq(Items)) : A = <<acc>>
  <2>1. PICK S : S = Seq(Items)
    OBVIOUS
  <2>2. acc \in S
    BY <1>10, <2>1
  <2>3. <<acc>> \in Seq(S)
    BY <2>2
  <2>4. QED
    BY <2>1, <2>3
<1>12. AllOf(A) = Held(st) /\ Orderly(A)
  <2>1. DOMAIN A = {1} /\ A[1] = acc
    BY <1>11
  <2>2. QED
    BY <1>10, <2>1 DEF AllOf, Orderly
<1>13. PICK B : B = OfKey(k, inbuf[u])
  OBVIOUS
<1>14. B \in Seq(Seq(Items)) /\ AllOf(B) = {} /\ Orderly(B)
  <2>1. inbuf[u] = <<>>
    BY <1>1 DEF StepInv, LinkInv
  <2>2. B = <<>>
    BY <1>13, <2>1 DEF OfKey
  <2>3. QED
    BY <2>2 DEF AllOf, Orderly
<1>15. PICK C : C = OfKey(k, msgs)
  OBVIOUS
<1>16. C \in Seq(Seq(Items)) /\ AllOf(C) = Coming(k, msgs) /\ Orderly(C)
  BY <1>6, <1>15, OfKeyOrder
<1>17. PICK WX : WX = W \o X
  OBVIOUS
<1>18. WX \in Seq(Seq(Items)) /\ AllOf(WX) = AllOf(W) \cup AllOf(X) /\ Orderly(WX)
  <2>1. Precede(AllOf(W), AllOf(X))
    BY <1>6, <1>8 DEF Precede
  <2>2. QED
    BY <1>6, <1>8, <1>17, <2>1, ConcatOrder
<1>19. PICK WXA : WXA = WX \o A
  OBVIOUS
<1>20. WXA \in Seq(Seq(Items)) /\ AllOf(WXA) = AllOf(W) \cup Mine(st) /\ Orderly(WXA)
  <2>1. Precede(AllOf(WX), AllOf(A))
    BY <1>6, <1>8, <1>12, <1>18 DEF Precede
  <2>2. /\ WXA \in Seq(Seq(Items)) /\ AllOf(WXA) = AllOf(WX) \cup AllOf(A) /\ Orderly(WXA)
    BY <1>12, <1>18, <1>19, <2>1, ConcatOrder
  <2>3. QED
    BY <1>8, <1>12, <1>18, <2>2
<1>21. PICK WXAB : WXAB = WXA \o B
  OBVIOUS
<1>22. WXAB \in Seq(Seq(Items)) /\ AllOf(WXAB) = AllOf(W) \cup Mine(st) /\ Orderly(WXAB)
  <2>1. Precede(AllOf(WXA), AllOf(B))
    BY <1>14 DEF Precede
  <2>2. /\ WXAB \in Seq(Seq(Items)) /\ AllOf(WXAB) = AllOf(WXA) \cup AllOf(B) /\ Orderly(WXAB)
    BY <1>14, <1>20, <1>21, <2>1, ConcatOrder
  <2>3. QED
    BY <1>14, <1>20, <2>2
<1>23. PICK trail : trail = WXAB \o C
  OBVIOUS
<1>24. trail \in Seq(Seq(Items)) /\ AllOf(trail) = Sent(k) /\ Orderly(trail)
  <2>1. Precede(AllOf(WXAB), AllOf(C))
    BY <1>6, <1>16, <1>22 DEF Precede
  <2>2. /\ trail \in Seq(Seq(Items)) /\ AllOf(trail) = AllOf(WXAB) \cup AllOf(C) /\ Orderly(trail)
    BY <1>16, <1>22, <1>23, <2>1, ConcatOrder
  <2>3. QED
    BY <1>6, <1>16, <1>22, <2>2
<1>25. Trail(k) = trail
  <2>1. Emitted(k) = WX
    BY <1>3, <1>4, <1>7, <1>17 DEF Emitted, KeyState
  <2>2. QED
    BY <1>1, <1>2, <1>9, <1>11, <1>13, <1>15, <1>19, <1>21, <1>23, <2>1 DEF Trail
<1>26. QED
  BY <1>24, <1>25

(* The theorems. *)

(* The strengthening of the properties below holds of every execution.      *)
THEOREM StepInvHolds == Spec => []StepInv
<1>1. StepInv /\ [Next]_vars => StepInv'
  <2> SUFFICES ASSUME StepInv, [Next]_vars
               PROVE  StepInv'
    OBVIOUS
  <2>1. now \in 0 .. MaxNow /\ now >= now /\ running \in [Workers -> BOOLEAN]
        /\ abort \in [Workers -> BOOLEAN] /\ interrupt \in BOOLEAN
    <3>1. /\ now \in 0 .. MaxNow /\ running \in [Workers -> BOOLEAN]
          /\ abort \in [Workers -> BOOLEAN] /\ interrupt \in BOOLEAN
      BY DEF StepInv, ThreadsInv
    <3>2. now >= now
      BY <3>1, StepAssumption
    <3>3. QED
      BY <3>1, <3>2
  <2>2. ASSUME NEW w \in Workers, PollBatch(w)
        PROVE  StepInv'
    BY <2>2, PollBatchIs, SourceKeeps
  <2>3. ASSUME NEW w \in Workers, PollEof(w)
        PROVE  StepInv'
    BY <2>3, PollEofIs, SourceKeeps
  <2>4. ASSUME NEW w \in Workers, PollAbort(w)
        PROVE  StepInv'
    BY <2>4, PollAbortIs, SourceKeeps
  <2>5. ASSUME NEW w \in Workers, Step(w)
        PROVE  StepInv'
    <3>1. ThreadsInv /\ LinkInv /\ KeysInv /\ CacheInv
      BY DEF StepInv
    <3>2. PICK n, view : Stepped(w, n, view)
      BY <2>5, <3>1, StepIs
    <3>3. QED
      BY <3>2, StepKeeps
  <2>6. ASSUME NEW w \in Workers, Write(w)
        PROVE  StepInv'
    BY <2>6, WriteKeeps
  <2>7. ASSUME NEW w \in Workers, Stop(w)
        PROVE  StepInv'
    <3>1. /\ running' = [running EXCEPT ![w] = FALSE]
          /\ UNCHANGED <<conf, now, source, op, outs, abort, interrupt, history>>
      BY <2>7 DEF Stop
    <3>2. running' \in [Workers -> BOOLEAN]
      BY <2>1, <3>1, Zenon
    <3>3. /\ UNCHANGED <<conf, source, op, outs, history>> /\ now' \in 0 .. MaxNow /\ now' >= now
          /\ abort' \in [Workers -> BOOLEAN] /\ interrupt' \in BOOLEAN
      BY <2>1, <3>1
    <3>4. QED
      BY <3>2, <3>3, StutterKeeps
  <2>8. CASE Interrupt
    <3>1. /\ UNCHANGED <<conf, now, source, op, outs, running, abort, history>> /\ interrupt' = TRUE
      BY <2>8 DEF Interrupt
    <3>2. interrupt' \in BOOLEAN
      BY <3>1, Zenon
    <3>3. /\ UNCHANGED <<conf, source, op, outs, history>> /\ now' \in 0 .. MaxNow /\ now' >= now
          /\ running' \in [Workers -> BOOLEAN] /\ abort' \in [Workers -> BOOLEAN]
      BY <2>1, <3>1
    <3>4. QED
      BY <3>2, <3>3, StutterKeeps
  <2>9. CASE Tick
    <3>1. /\ UNCHANGED <<conf, source, op, outs, history, running, abort, interrupt>>
          /\ now < MaxNow /\ now' = now + 1
      BY <2>9 DEF Tick, threads
    <3>2. now' \in 0 .. MaxNow /\ now' >= now
      BY <2>1, <3>1, StepAssumption
    <3>3. running' \in [Workers -> BOOLEAN] /\ abort' \in [Workers -> BOOLEAN] /\ interrupt' \in BOOLEAN
      BY <2>1, <3>1
    <3>4. QED
      BY <3>1, <3>2, <3>3, StutterKeeps
  <2>10. CASE UNCHANGED vars
    <3>1. UNCHANGED <<conf, now, source, op, outs, history, running, abort, interrupt>>
      BY <2>10 DEF vars, threads
    <3>2. QED
      BY <2>1, <3>1, StutterKeeps
  <2>11. QED
    BY <2>2, <2>3, <2>4, <2>5, <2>6, <2>7, <2>8, <2>9, <2>10 DEF Next, Turn
<1>2. QED
  BY InitInv, <1>1, PTL DEF Spec

(* on_eof is called once per key, after its last on_item: the operator      *)
(* works on one epoch alone at EOF, and drops its capability then.          *)
THEOREM EofOnceHolds == Spec => []EofOnce
<1>1. StepInv => EofOnce
  BY DEF StepInv, EofInv, EofOnce
<1>2. QED
  BY StepInvHolds, <1>1, PTL

(* The unwrap before on_notify never panics: whenever a logic is discarded, *)
(* its time leaves sched_cache with it.                                     *)
THEOREM SchedHasLogicHolds == Spec => []SchedHasLogic
<1>1. StepInv => SchedHasLogic
  <2> SUFFICES ASSUME StepInv, NEW k \in Keys, logics[k] = {}
               PROVE  sched[k] = {}
    BY DEF SchedHasLogic
  <2>1. Scheduled(KeyState(k))
    BY DEF StepInv, CacheInv
  <2>2. KeyState(k).logic = logics[k] /\ KeyState(k).sched = sched[k]
    BY DEF KeyState
  <2>3. QED
    BY <2>1, <2>2 DEF Scheduled
<1>2. QED
  BY StepInvHolds, <1>1, PTL

(* Every change of a logic, a discard included, marks the key as awoken,    *)
(* until the snapshot at the end of an epoch has the change.                *)
THEOREM SnapshotsCurrentHolds == Spec => []SnapshotsCurrent
<1>1. StepInv => SnapshotsCurrent
  <2> SUFFICES ASSUME StepInv, NEW k \in Keys
               PROVE  awoken[k] \/ snaps[k] = logics[k]
    BY DEF SnapshotsCurrent
  <2>1. Current(KeyState(k))
    BY DEF StepInv, CacheInv
  <2>2. /\ KeyState(k).logic = logics[k] /\ KeyState(k).snap = snaps[k]
        /\ KeyState(k).awoken = awoken[k]
    BY DEF KeyState
  <2>3. QED
    BY <2>1, <2>2 DEF Current
<1>2. QED
  BY StepInvHolds, <1>1, PTL

(* fold_final emits a key's accumulator when the step on the key's worker   *)
(* has seen EOF: then no source holds an epoch, so that each is at the end  *)
(* of its script without having aborted, and nothing is in flight.          *)
THEOREM FinalIsCompleteHolds == Spec => []FinalIsComplete
<1>1. StepInv => FinalIsComplete
  <2> SUFFICES ASSUME StepInv, conf.logic = "fold_final", NEW k \in Keys, Emitted(k) # <<>>
               PROVE  /\ Len(Emitted(k)) = 1
                      /\ \A w \in Workers :
                           /\ Abort \notin Range(conf.script[w])
                           /\ \A i \in DOMAIN conf.script[w] :
                                conf.script[w][i] = k => <<w, i>> \in Range(Emitted(k)[1])
    BY DEF FinalIsComplete
  <2>1. WorkerOf[k] \in Workers
    BY StepAssumption
  <2>2. PICK S : S = Seq(Items)
    OBVIOUS
  <2>3. PICK a \in Seq(S) : a = written[k]
    BY <2>2 DEF StepInv, KeysInv
  <2>4. PICK t \in Seq(S) : /\ t = Values(outs[k]) /\ Len(t) = Len(outs[k]) /\ Len(outs[k]) \in Nat
                            /\ DOMAIN outs[k] = 1 .. Len(outs[k])
                            /\ \A j \in DOMAIN outs[k] : t[j] = outs[k][j].value
    <3>1. KeyState(k) \in KeyStates /\ KeyState(k).outs = outs[k]
      BY DEF StepInv, KeysInv, KeyState
    <3>2. PICK s \in Seq(Out) : s = outs[k]
      BY <3>1 DEF KeyStates
    <3>3. QED
      BY <2>2, <3>2, ValuesIs
  <2>5. PICK em : em = a \o t
    OBVIOUS
  <2>6. /\ em \in Seq(S) /\ DOMAIN a = 1 .. Len(a) /\ Len(a) \in Nat /\ Len(t) \in Nat
        /\ DOMAIN em = 1 .. Len(a) + Len(t) /\ Len(em) = Len(a) + Len(t)
        /\ \A j \in DOMAIN a : em[j] = a[j]
        /\ \A j \in 1 .. Len(t) : em[Len(a) + j] = t[j]
    BY <2>5, ConcatIs
  <2>7. Emitted(k) = em
    BY <2>3, <2>4, <2>5 DEF Emitted
  <2>8. Len(em) = 1 /\ Len(written[k]) + Len(outs[k]) = 1
    <3>1. Len(em) # 0
      BY <2>6, <2>7
    <3>2. Len(written[k]) + Len(outs[k]) <= 1
      BY DEF StepInv, FinalInv
    <3>3. Len(a) + Len(t) <= 1
      BY <2>3, <2>4, <3>2
    <3>4. Len(a) + Len(t) = 1
      BY <2>6, <3>1, <3>3
    <3>5. QED
      BY <2>3, <2>4, <2>6, <3>4
  <2>9. cap[WorkerOf[k]] = {} /\ logics[k] = {} /\ StepIn = {}
    <3>1. cap[WorkerOf[k]] = {} /\ logics[k] = {}
      BY <2>8 DEF StepInv, FinalInv
    <3>2. StepIn = {}
      BY <2>1, <3>1 DEF StepInv, LinkInv
    <3>3. QED
      BY <3>1, <3>2
  <2>10. ASSUME NEW w \in Workers
         PROVE  /\ part[w].pos = Len(conf.script[w])
                /\ \A i \in 1 .. part[w].pos : conf.script[w][i] # Abort
                /\ DOMAIN conf.script[w] = 1 .. part[w].pos
    <3>1. part[w].cap = {}
      BY <2>9, StepInIs
    <3>2. part[w].pos = Len(conf.script[w]) /\ \A i \in 1 .. part[w].pos : conf.script[w][i] # Abort
      BY <3>1 DEF StepInv, SourcesInv
    <3>3. conf.script[w] \in Seq(Keys \cup {Idle, Abort})
      <4>1. conf.script \in [Workers -> Seq(Keys \cup {Idle, Abort})]
        BY ConfigIs DEF StepInv, ThreadsInv
      <4>2. QED
        BY <4>1
    <3>4. DOMAIN conf.script[w] = 1 .. Len(conf.script[w])
      BY <3>3
    <3>5. QED
      BY <3>2, <3>4
  <2>11. ASSUME NEW w \in Workers
         PROVE  Abort \notin Range(conf.script[w])
    BY <2>10, <2>11 DEF Range
  <2>12. ASSUME NEW w \in Workers, NEW i \in DOMAIN conf.script[w], conf.script[w][i] = k
         PROVE  <<w, i>> \in Range(em[1])
    <3>1. PICK item : item = <<w, i>>
      OBVIOUS
    <3>2. Has(k, item)
      <4>1. i \in 1 .. part[w].pos
        BY <2>10, <2>12
      <4>2. Has(k, <<w, i>>)
        BY <2>12, <4>1 DEF StepInv, FinalInv
      <4>3. QED
        BY <3>1, <4>2
    <3>3. ~ OnItsWay(k, item)
      <4>1. \A j \in DOMAIN chan[WorkerOf[k]] : chan[WorkerOf[k]][j].epoch \in StepIn
        BY <2>1, StepInIs
      <4>2. QED
        BY <2>9, <4>1 DEF OnItsWay
    <3>4. \E j \in DOMAIN em : \E h \in DOMAIN em[j] : em[j][h] = item
      <4>1. CASE Written(k, item)
        <5>1. PICK j \in DOMAIN a : \E h \in DOMAIN a[j] : a[j][h] = item
          BY <2>3, <4>1 DEF Written
        <5>2. j \in DOMAIN em /\ em[j] = a[j]
          BY <2>6
        <5>3. QED
          BY <5>1, <5>2
      <4>2. CASE KeyHas(KeyState(k), item)
        <5>1. KeyState(k).logic = {} /\ KeyState(k).outs = outs[k]
          BY <2>9 DEF KeyState
        <5>2. PICK j \in DOMAIN outs[k] : \E h \in DOMAIN outs[k][j].value : outs[k][j].value[h] = item
          BY <4>2, <5>1 DEF KeyHas
        <5>3. j \in 1 .. Len(t) /\ t[j] = outs[k][j].value
          BY <2>4
        <5>4. Len(a) + j \in DOMAIN em /\ em[Len(a) + j] = t[j]
          BY <2>6, <5>3
        <5>5. QED
          BY <5>2, <5>3, <5>4
      <4>3. QED
        BY <3>2, <3>3, <4>1, <4>2 DEF Has
    <3>5. \A j \in DOMAIN em : j = 1
      <4>1. DOMAIN em = 1 .. Len(em)
        BY <2>6
      <4>2. QED
        BY <2>8, <4>1
    <3>6. \E h \in DOMAIN em[1] : em[1][h] = item
      BY <3>4, <3>5
    <3>7. QED
      BY <3>1, <3>6 DEF Range
  <2>13. QED
    BY <2>7, <2>8, <2>11, <2>12
<1>2. QED
  BY StepInvHolds, <1>1, PTL

(* Written, emitted and held: the items of a key are in order there, each   *)
(* before what is still to come, and no item is in two of these or in none. *)
THEOREM OrderInvHolds == Spec => []OrderInv
<1>1. StepInv /\ OrderInv /\ [Next]_vars => OrderInv'
  <2> SUFFICES ASSUME StepInv, OrderInv, [Next]_vars
               PROVE  OrderInv'
    OBVIOUS
  <2>1. ASSUME NEW w \in Workers, PollBatch(w) \/ PollEof(w) \/ PollAbort(w)
        PROVE  OrderInv'
    <3>1. PICK p : Sourced(w, p)
      BY <2>1, PollBatchIs, PollEofIs, PollAbortIs
    <3>2. QED
      BY <3>1, OrderSource
  <2>2. ASSUME NEW w \in Workers, Step(w)
        PROVE  OrderInv'
    <3>1. ThreadsInv /\ LinkInv /\ KeysInv /\ CacheInv
      BY DEF StepInv
    <3>2. PICK n, view : Stepped(w, n, view)
      BY <2>2, <3>1, StepIs
    <3>3. QED
      BY <3>2, OrderStep
  <2>3. ASSUME NEW w \in Workers, Write(w)
        PROVE  OrderInv'
    BY <2>3, OrderWrite
  <2>4. CASE (\E w \in Workers : Stop(w)) \/ Interrupt \/ Tick \/ UNCHANGED vars
    <3>1. UNCHANGED <<conf, part, chan, op, outs, history>>
      BY <2>4 DEF Stop, Interrupt, Tick, vars, source
    <3>2. QED
      BY <3>1, OrderStutter
  <2>5. QED
    BY <2>1, <2>2, <2>3, <2>4 DEF Next, Turn
<1>2. Spec => []StepInv
  BY StepInvHolds
<1>3. QED
  BY OrderInit, <1>1, <1>2, PTL DEF Spec

(* From the source to the sink a key's items are those that were sent, none *)
(* lost and none added, and of two from one worker the earlier is ahead.    *)
THEOREM ItemsInOrderHolds == Spec => []ItemsInOrder
<1>1. StepInv /\ OrderInv => ItemsInOrder
  <2> SUFFICES ASSUME StepInv, OrderInv
               PROVE  ItemsInOrder
    OBVIOUS
  <2>1. ASSUME NEW k \in Keys, NEW trail, trail = Trail(k)
        PROVE  /\ {trail[p[1]][p[2]] : p \in Places(trail)} = Sent(k)
               /\ \A p, q \in Places(trail) :
                    Before(p, q) /\ trail[p[1]][p[2]][1] = trail[q[1]][q[2]][1] =>
                      trail[p[1]][p[2]][2] < trail[q[1]][q[2]][2]
    <3>1. trail \in Seq(Seq(Items)) /\ AllOf(trail) = Sent(k) /\ Orderly(trail)
      BY <2>1, TrailOrder
    <3>2. \A p : p \in Places(trail) <=>
                   \E j \in DOMAIN trail : \E i \in DOMAIN trail[j] : p = <<j, i>>
      BY DEF Places
    <3>3. {trail[p[1]][p[2]] : p \in Places(trail)} = AllOf(trail)
      <4>1. \A v : v \in AllOf(trail) <=> \E j \in DOMAIN trail : \E i \in DOMAIN trail[j] : v = trail[j][i]
        BY DEF AllOf, Range
      <4>2. \A v : v \in {trail[p[1]][p[2]] : p \in Places(trail)} => v \in AllOf(trail)
        BY <3>2, <4>1
      <4>3. ASSUME NEW j \in DOMAIN trail, NEW i \in DOMAIN trail[j]
            PROVE  trail[j][i] \in {trail[p[1]][p[2]] : p \in Places(trail)}
        <5>1. PICK p : p = <<j, i>>
          OBVIOUS
        <5>2. p \in Places(trail) /\ p[1] = j /\ p[2] = i
          BY <3>2, <4>3, <5>1
        <5>3. QED
          BY <5>2
      <4>4. QED
        BY <4>1, <4>2, <4>3
    <3>4. ASSUME NEW p \in Places(trail), NEW q \in Places(trail), Before(p, q),
                 trail[p[1]][p[2]][1] = trail[q[1]][q[2]][1]
          PROVE  trail[p[1]][p[2]][2] < trail[q[1]][q[2]][2]
      <4>1. /\ p[1] \in DOMAIN trail /\ p[2] \in DOMAIN trail[p[1]]
            /\ q[1] \in DOMAIN trail /\ q[2] \in DOMAIN trail[q[1]]
        BY <3>2
      <4>2. CASE p[1] < q[1]
        <5>1. Precede(Range(trail[p[1]]), Range(trail[q[1]]))
          BY <3>1, <4>1, <4>2 DEF Orderly
        <5>2. trail[p[1]][p[2]] \in Range(trail[p[1]]) /\ trail[q[1]][q[2]] \in Range(trail[q[1]])
          BY <4>1 DEF Range
        <5>3. QED
          BY <3>4, <5>1, <5>2 DEF Precede
      <4>3. CASE p[1] = q[1] /\ p[2] < q[2]
        <5>1. Increasing(trail[p[1]])
          BY <3>1, <4>1 DEF Orderly
        <5>2. QED
          BY <3>4, <4>1, <4>3, <5>1 DEF Increasing
      <4>4. QED
        BY <3>4, <4>2, <4>3 DEF Before
    <3>5. QED
      BY <3>1, <3>3, <3>4
  <2>2. QED
    BY <2>1 DEF ItemsInOrder
<1>2. QED
  BY StepInvHolds, OrderInvHolds, <1>1, PTL

(* Type correctness. *)
THEOREM TypeOKHolds == Spec => []TypeOK
<1>1. ASSUME NEW T, NEW o \in Options(T)
      PROVE  o \subseteq T /\ Cardinality(o) <= 1
  <2>1. CASE o = {}
    BY <2>1, FS_EmptySet
  <2>2. CASE o # {}
    <3>1. PICK x \in T : o = {x}
      BY <2>2 DEF Options
    <3>2. Cardinality(o) = 1
      BY <3>1, FS_Singleton
    <3>3. QED
      BY <3>1, <3>2
  <2>3. QED
    BY <2>1, <2>2
<1>2. ASSUME StepInv, NEW w \in Workers
      PROVE  /\ part[w].cap \subseteq Nat /\ Cardinality(part[w].cap) <= 1
             /\ part[w].pos \in 0 .. Len(conf.script[w])
             /\ part[w].awake \in Nat \cup {None} /\ part[w].started \in 0 .. now
             /\ chan[w] \in Seq(Msg) /\ inbuf[w] \in Seq(Msg)
             /\ cap[w] \subseteq Nat /\ Cardinality(cap[w]) <= 1 /\ timers[w] \subseteq Nat
  <2>1. /\ part[w] \in Part /\ chan[w] \in Seq(Msg) /\ cap[w] \in Options(Nat)
        /\ timers[w] \in SUBSET Nat /\ part[w].started <= now /\ now \in Nat
    BY <1>2, StepAssumption DEF StepInv, ThreadsInv
  <2>2. /\ part[w].cap \in Options(Nat) /\ part[w].pos \in Nat
        /\ part[w].awake \in Nat \cup {None} /\ part[w].started \in Nat
    BY <2>1 DEF Part
  <2>3. Len(conf.script[w]) \in Nat
    <3>1. conf.script \in [Workers -> Seq(Keys \cup {Idle, Abort})]
      BY <1>2, ConfigIs DEF StepInv, ThreadsInv
    <3>2. QED
      BY <3>1
  <2>4. part[w].pos <= Len(conf.script[w]) /\ inbuf[w] = <<>>
    BY <1>2 DEF StepInv, SourcesInv, LinkInv
  <2>5. QED
    BY <1>1, <2>1, <2>2, <2>3, <2>4
<1>3. ASSUME StepInv, NEW k \in Keys
      PROVE  /\ logics[k] \subseteq Logics /\ Cardinality(logics[k]) <= 1
             /\ snaps[k] \subseteq Logics /\ Cardinality(snaps[k]) <= 1
             /\ sched[k] \subseteq Nat /\ Cardinality(sched[k]) <= 1
             /\ asked[k] \subseteq Nat /\ Cardinality(asked[k]) <= 1 /\ awoken[k] \in BOOLEAN
             /\ outs[k] \in Seq(Out) /\ written[k] \in Seq(Seq(Items))
             /\ eofs[k] \in Nat /\ late[k] \in Nat /\ wrong[k] \in Nat
  <2>1. PICK st \in KeyStates : st = KeyState(k)
    BY <1>3 DEF StepInv, KeysInv
  <2>2. /\ st.logic \in Options(Logics) /\ st.sched \in Options(Nat) /\ st.snap \in Options(Logics)
        /\ st.asked \in Options(Nat) /\ st.outs \in Seq(Out)
        /\ st.eofs \in Nat /\ st.late \in Nat /\ st.wrong \in Nat
    BY <2>1 DEF KeyStates
  <2>3. st.awoken \in BOOLEAN
    BY <2>1 DEF KeyStates
  <2>4. /\ st.logic = logics[k] /\ st.sched = sched[k] /\ st.snap = snaps[k] /\ st.asked = asked[k]
        /\ st.outs = outs[k] /\ st.eofs = eofs[k] /\ st.late = late[k] /\ st.wrong = wrong[k]
    BY <2>1 DEF KeyState
  <2>5. st.awoken = awoken[k]
    BY <2>1 DEF KeyState
  <2>6. written[k] \in Seq(Seq(Items))
    BY <1>3 DEF StepInv, KeysInv
  <2>7. awoken[k] \in BOOLEAN
    BY <2>3, <2>5, Zenon
  <2>8. QED
    BY <1>1, <2>2, <2>4, <2>6, <2>7
<1>4. ASSUME StepInv
      PROVE  TypeOK
  <2>1. /\ conf \in Configs /\ now \in 0 .. MaxNow
        /\ running \in [Workers -> BOOLEAN] /\ abort \in [Workers -> BOOLEAN] /\ interrupt \in BOOLEAN
    BY <1>4 DEF StepInv, ThreadsInv
  <2>2. QED
    BY <1>2, <1>3, <1>4, <2>1, Zenon DEF TypeOK, Items, Logics, Msg, Out
<1>5. QED
  BY StepInvHolds, <1>4, PTL
=============================================================================
