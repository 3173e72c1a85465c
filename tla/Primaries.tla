----------------------------- MODULE Primaries ------------------------------
(***************************************************************************)
(* calc_primaries: which worker is the primary of each partition.  known   *)
(* maps a partition to the workers that listed it.                         *)
(***************************************************************************)
EXTENDS Integers, FiniteSets

(* The partitions "from fewest workers have this part to most": the sort is *)
(* unstable, so ties come in any order.                                     *)
ByCount(known) ==
  LET parts == DOMAIN known
  IN  {order \in [1 .. Cardinality(parts) -> parts] :
         \A i, j \in DOMAIN order : i < j =>
           /\ order[i] # order[j]
           /\ Cardinality(known[order[i]]) <= Cardinality(known[order[j]])}

(* How many of the first n partitions of the order worker w has. *)
Assigned(primaries, order, n, w) == Cardinality({i \in 1 .. n : primaries[order[i]] = w})

(* Each partition in turn goes to a candidate with the fewest so far. *)
CalcPrimaries_First(known) ==
  {[p \in DOMAIN known |-> CHOOSE w \in known[p] : \A v \in known[p] : w <= v]}
CalcPrimaries(known) ==
  {primaries \in [DOMAIN known -> UNION {known[p] : p \in DOMAIN known}] :
     \E order \in ByCount(known) :
       \A i \in DOMAIN order :
         /\ primaries[order[i]] \in known[order[i]]
         /\ \A w \in known[order[i]] :
              Assigned(primaries, order, i - 1, primaries[order[i]])
                <= Assigned(primaries, order, i - 1, w)}
=============================================================================
