--------------------- MODULE PartitionedOutputInvariant ---------------------
(***************************************************************************)
(* Why a file has one writer.  Everything that reaches the output of a     *)
(* worker for a file was sent there by a routing map, and the maps of all  *)
(* the routers are the one that worker 0 broadcast in this execution.      *)
(***************************************************************************)
EXTENDS PartitionedOutput

Epoch == 0 .. LastEpoch + 1
Options(T) == {{}} \cup {{x} : x \in T}
AtPart == {m \in [epoch : Epoch, source : Sources] : m.epoch \in 1 .. Len(Script[m.source])}
AtRoute == [epoch : Epoch, source : Sources, part : SinkParts]
RowsOf(S) == \A m \in S : m.part \in SinkParts /\ m.epoch \in Epoch

(* The lists that the workers ws have broadcast. *)
Listed == [p \in UNION {Listing[w] : w \in ws} |-> {w \in ws : p \in Listing[w]}]

(* The primaries are assigned once, when all the lists are there; the       *)
(* routers of all workers have them or nothing.                             *)
RoutesInv ==
  /\ ex \in 0 .. MaxExecutions /\ ws \subseteq AllWorkers /\ finished \in BOOLEAN
  /\ announced \subseteq ws
  /\ primaries # <<>> => announced = ws /\ ws # {} /\ primaries \in CalcPrimaries(Listed)
  /\ known \in [AllWorkers -> SUBSET SinkParts]
  /\ routes \in [Routers -> [AllWorkers -> {<<>>, primaries}]]

(* The types of what is under way.  (Those of the files, and so of the      *)
(* offsets in the rows, depend on what a resume cuts off.)                  *)
QueuesInv ==
  /\ loader \in [RecParts -> AllWorkers]
  /\ cursor \in [RecParts -> [done : BOOLEAN, at : SUBSET SinkParts]]
  /\ point \in FirstEpoch .. LastEpoch + 1
  /\ src \in [Sources -> Options(FirstEpoch .. LastEpoch + 1)]
  /\ toPart \in [AllWorkers -> Seq(AtPart)]
  /\ toRoute \in [AllWorkers -> Seq(AtRoute)] /\ toOut \in [AllWorkers -> Seq(AtRoute)]
  /\ inbuf \in [AllWorkers -> Seq(AtRoute)]
  /\ queue \in [AllWorkers -> SUBSET Epoch] /\ cap \in [AllWorkers -> Options(Epoch)]
  /\ open \in [AllWorkers -> SUBSET SinkParts] /\ awoken \in [AllWorkers -> SUBSET SinkParts]
  /\ RowsOf(snapq) /\ RowsOf(rows)
  /\ \A w \in AllWorkers : RowsOf(loads[w]) /\ RowsOf(loadsOut[w]) /\ RowsOf(loadsBuf[w])
  /\ DOMAIN loads = AllWorkers /\ DOMAIN loadsOut = AllWorkers /\ DOMAIN loadsBuf = AllWorkers

(* A file that is written is open, and to be snapshotted in an epoch that   *)
(* is yet to close.                                                         *)
AwokenInv ==
  \A w \in AllWorkers : /\ awoken[w] \subseteq open[w]
                        /\ awoken[w] # {} => queue[w] # {}

(* What the output on w has, or is about to get, belongs to w. *)
Owns(w, p) == primaries # <<>> /\ primaries[p] = w
OwnersInv ==
  \A w \in AllWorkers :
    /\ \A i \in DOMAIN toOut[w] : Owns(w, toOut[w][i].part)
    /\ \A i \in DOMAIN inbuf[w] : Owns(w, inbuf[w][i].part)
    /\ \A m \in loadsOut[w] \cup loadsBuf[w] : Owns(w, m.part)
    /\ \A p \in open[w] : Owns(w, p)

OutputInv == RoutesInv /\ QueuesInv /\ AwokenInv /\ OwnersInv
=============================================================================
