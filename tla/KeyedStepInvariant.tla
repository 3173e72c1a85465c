------------------------- MODULE KeyedStepInvariant -------------------------
(***************************************************************************)
(* Why the properties of KeyedStep hold.  A source sends items of an epoch *)
(* only when every operator has reached it, so that an activation meets    *)
(* items of one epoch at most, the one its capability is at; at EOF there  *)
(* is nothing else to work on, and the capability is dropped.  A key's     *)
(* items stay in line, and the step takes them from the front.             *)
(***************************************************************************)
EXTENDS KeyedStep

Options(T) == {{}} \cup {{x} : x \in T}
Items == Workers \X Nat
Logics == [acc : Seq(Items), at : Nat \cup {None}]
Msg == [epoch : Nat, key : Keys, value : Items]
Out == [epoch : Nat, value : Seq(Items)]
Part == [cap : Options(Nat), pos : Nat, awake : Nat \cup {None}, started : Nat]
KeyStates ==
  [logic : Options(Logics), sched : Options(Nat), awoken : BOOLEAN, outs : Seq(Out),
   snap : Options(Logics), eofs : Nat, late : Nat, asked : Options(Nat), wrong : Nat]

(* What a worker's thread and its operators have. *)
ThreadsInv ==
  /\ conf \in Configs /\ now \in 0 .. MaxNow
  /\ running \in [Workers -> BOOLEAN] /\ abort \in [Workers -> BOOLEAN] /\ interrupt \in BOOLEAN
  /\ part \in [Workers -> Part] /\ chan \in [Workers -> Seq(Msg)]
  /\ cap \in [Workers -> Options(Nat)] /\ timers \in [Workers -> SUBSET Nat]
  /\ \A w \in Workers : part[w].started <= now

(* What it has of each key. *)
KeysInv ==
  /\ DOMAIN logics = Keys
  /\ \A k \in Keys : KeyState(k) \in KeyStates /\ written[k] \in Seq(Seq(Items))

(* A source has not aborted in what it has sent, and only EOF drops its     *)
(* capability.                                                              *)
SourcesInv ==
  \A w \in Workers :
    /\ part[w].pos <= Len(conf.script[w])
    /\ \A i \in 1 .. part[w].pos : conf.script[w][i] # Abort
    /\ part[w].cap = {} => part[w].pos = Len(conf.script[w])

(* The step on w holds an epoch as long as there is input for it, no later  *)
(* than any that is upstream; what is on its way to it is of that epoch.    *)
LinkInv ==
  /\ inbuf = [w \in Workers |-> <<>>]
  /\ \A w \in Workers : \A e \in StepIn : e >= ResumeEpoch /\ \E c \in cap[w] : c <= e
  /\ \A w \in Workers : \A j \in DOMAIN chan[w] :
       cap[w] = {chan[w][j].epoch} /\ WorkerOf[chan[w][j].key] = w

(* on_eof comes last. *)
EofInv ==
  \A k \in Keys : /\ late[k] = 0 /\ eofs[k] <= 1
                  /\ eofs[k] = 1 => cap[WorkerOf[k]] = {}

(* A time in sched_cache has a logic; a key that was not awoken has been    *)
(* snapshotted as it is.                                                    *)
Scheduled(st) == st.logic = {} => st.sched = {}
Current(st) == st.awoken \/ st.snap = st.logic
CacheInv == \A k \in Keys : Scheduled(KeyState(k)) /\ Current(KeyState(k))

(* An item of key k is in the state of its logic, has been emitted, or is   *)
(* on its way; fold_final emits at EOF alone.                               *)
KeyHas(st, v) ==
  \/ \E l \in st.logic : \E i \in DOMAIN l.acc : l.acc[i] = v
  \/ \E j \in DOMAIN st.outs : \E i \in DOMAIN st.outs[j].value : st.outs[j].value[i] = v
OnItsWay(k, v) ==
  \E j \in DOMAIN chan[WorkerOf[k]] :
    chan[WorkerOf[k]][j].key = k /\ chan[WorkerOf[k]][j].value = v
Written(k, v) == \E j \in DOMAIN written[k] : \E i \in DOMAIN written[k][j] : written[k][j][i] = v
Has(k, v) == KeyHas(KeyState(k), v) \/ OnItsWay(k, v) \/ Written(k, v)
FinalInv ==
  conf.logic = "fold_final" => \A k \in Keys :
    /\ \A w \in Workers : \A i \in 1 .. part[w].pos :
         conf.script[w][i] = k => Has(k, <<w, i>>)
    /\ Len(written[k]) + Len(outs[k]) <= 1
    /\ Len(written[k]) + Len(outs[k]) = 1 => cap[WorkerOf[k]] = {}
    /\ cap[WorkerOf[k]] = {} => logics[k] = {}

(* Of each source, the items of one set come before those of the other; the *)
(* items of a list do, and the lists of a list of lists.                    *)
Precede(A, B) == \A x \in A, y \in B : x[1] = y[1] => x[2] < y[2]
Increasing(list) ==
  \A i, j \in DOMAIN list : i < j /\ list[i][1] = list[j][1] => list[i][2] < list[j][2]
AllOf(lists) == UNION {Range(lists[j]) : j \in DOMAIN lists}
Orderly(lists) ==
  /\ \A j \in DOMAIN lists : Increasing(lists[j])
  /\ \A i, j \in DOMAIN lists : i < j => Precede(Range(lists[i]), Range(lists[j]))

(* What has been emitted for a key came before what its logic holds.        *)
Held(st) == UNION {Range(l.acc) : l \in st.logic}
Mine(st) == AllOf(Values(st.outs)) \cup Held(st)
KeyOrder(st) ==
  /\ Orderly(Values(st.outs)) /\ \A l \in st.logic : Increasing(l.acc)
  /\ Precede(AllOf(Values(st.outs)), Held(st))

(* What has been written came before, what is on its way comes after.       *)
Coming(k, msgs) == {msgs[j].value : j \in {i \in DOMAIN msgs : msgs[i].key = k}}
LinedUp(k, msgs) ==
  \A i, j \in DOMAIN msgs :
    i < j /\ msgs[i].key = k /\ msgs[j].key = k /\ msgs[i].value[1] = msgs[j].value[1] =>
      msgs[i].value[2] < msgs[j].value[2]
InOrder(k, lists, st, msgs, sent) ==
  /\ Orderly(lists) /\ KeyOrder(st) /\ LinedUp(k, msgs)
  /\ Precede(AllOf(lists), Mine(st) \cup Coming(k, msgs))
  /\ Precede(Mine(st), Coming(k, msgs))
  /\ AllOf(lists) \cup Mine(st) \cup Coming(k, msgs) = sent
OrderInv ==
  \A k \in Keys : InOrder(k, written[k], KeyState(k), chan[WorkerOf[k]], Sent(k))
=============================================================================
