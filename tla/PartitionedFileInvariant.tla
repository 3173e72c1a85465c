---------------------- MODULE PartitionedFileInvariant ----------------------
(***************************************************************************)
(* Why the files of PartitionedOutput are right.  The sources read an item *)
(* when everything before it has been written and is recoverable, so all   *)
(* that is under way is of the resume epoch, and nothing of it before the  *)
(* files with older items have been cut to their length then.              *)
(***************************************************************************)
EXTENDS PartitionedOutputInvariant

(* How long the file of p is that has its items of the epochs before e. *)
Count(p, e) == Cardinality(Belongs(p, e))

(* The first n items of a file, and that they are in order and different. *)
Among(f, n) == {f[i] : i \in 1 .. n}
InOrder(f, n) == \A i, j \in 1 .. n : i < j => f[i] # f[j] /\ f[i][2] <= f[j][2]

(* A file begins with its items before e, whatever follows them. *)
CutAt(f, p, e) ==
  /\ f \in Seq(Sources \X Nat) /\ Count(p, e) <= Len(f)
  /\ InOrder(f, Count(p, e)) /\ Among(f, Count(p, e)) = Belongs(p, e)

(* It has all of these, some of those of e, and no other. *)
UpTo(f, p, e) ==
  /\ InOrder(f, Len(f))
  /\ Belongs(p, e) \subseteq Among(f, Len(f)) /\ Among(f, Len(f)) \subseteq Belongs(p, e + 1)

Row == [part : SinkParts, epoch : Epoch, offset : Nat]

(* A row has the length of its file at the end of its epoch, of whichever   *)
(* execution it is; for each item before the resume epoch there is one.     *)
RowsInv ==
  /\ rows \subseteq Row /\ snapq \subseteq Row
  /\ \A m \in rows \cup snapq : m.offset = Count(m.part, m.epoch + 1)
  /\ \A p \in SinkParts : \A i \in Belongs(p, point) : \E m \in rows : m.part = p /\ m.epoch = i[2]
  /\ file \in [SinkParts -> Seq(Sources \X Nat)]
  /\ \A p \in SinkParts : CutAt(file[p], p, point)

(* The workers of an execution are numbered from 0, so all of them know all *)
(* the files; where no worker is there is nothing.                          *)
PlacesInv ==
  /\ ws \in {{}} \cup {0 .. n - 1 : n \in 1 .. MaxWorkers}
  /\ \A w \in AllWorkers : known[w] \in {{}, SinkParts} /\ inbuf[w] = <<>>
  /\ \A w \in AllWorkers \ ws :
       /\ toPart[w] = <<>> /\ toRoute[w] = <<>> /\ toOut[w] = <<>>
       /\ loads[w] = {} /\ loadsOut[w] = {} /\ loadsBuf[w] = {}
       /\ queue[w] = {} /\ cap[w] = {} /\ open[w] = {}
  /\ ws # {} => \A r \in RecParts : loader[r] \in ws
  /\ ws = {} => cursor = [r \in RecParts |-> Uninit] /\ snapq = {}

(* The items under way, by the queue they are in. *)
Queues == {"part", "route", "out"}
Under(q) == CASE q = "part" -> toPart [] q = "route" -> toRoute [] q = "out" -> toOut
Places == {x \in Queues \X AllWorkers \X Nat : x[3] \in DOMAIN Under(x[1])[x[2]]}
At(x) == Under(x[1])[x[2]][x[3]]

(* Something is still of an epoch before the resume epoch; then no item of  *)
(* this execution has been read.                                            *)
Behindhand ==
  \/ \E r \in RecParts : ~ cursor[r].done
  \/ \E w \in AllWorkers : \/ loads[w] # {} \/ loadsOut[w] # {} \/ loadsBuf[w] # {}
                           \/ \E c \in cap[w] : c < point
Quiet ==
  /\ \A s \in Sources : src[s] = {point}
  /\ \A w \in AllWorkers : awoken[w] = {}
  /\ snapq = {}

FrontInv ==
  /\ \A s \in Sources : \/ src[s] \in {{point}, {point + 1}}
                        \/ src[s] = {} /\ Len(Script[s]) < point
  /\ \A m \in snapq : m.epoch = point
  /\ \A w \in AllWorkers :
       /\ \A e \in queue[w] : e <= point /\ \E c \in cap[w] : c <= e
       /\ \A m \in loadsBuf[w] : m.epoch \in queue[w]
       /\ awoken[w] # {} => point \in queue[w]
       /\ w \in ws /\ cap[w] = {} => \A s \in Sources : src[s] = {}
  /\ Behindhand => Quiet

(* Each item of the resume epoch that has been read is in one queue once,   *)
(* or in its file, which is open.                                           *)
ReadIn(s) == src[s] # {point} /\ point <= Len(Script[s])
Wrote(p, s) == (\E w \in AllWorkers : p \in open[w]) /\ <<s, point>> \in Among(file[p], Len(file[p]))
UnderwayInv ==
  /\ \A x \in Places : /\ At(x).epoch = point /\ ReadIn(At(x).source)
                       /\ x[1] # "part" => At(x).part = FileOf(SinkParts, At(x).source, point)
  /\ \A x, y \in Places : At(x).source = At(y).source => x = y
  /\ \A s \in Sources : ReadIn(s) =>
       (\E x \in Places : At(x).source = s) \/ (\E p \in SinkParts : Wrote(p, s))
  /\ \A s \in Sources : \A p \in SinkParts : Wrote(p, s) =>
       ReadIn(s) /\ \A x \in Places : At(x).source # s

(* A file with older items has been opened, or its last row is being loaded.*)
Loading(p) ==
  \E m \in LastRows(RecOf[p], point) :
    /\ m.part = p
    /\ \/ ~ cursor[RecOf[p]].done /\ Behind(cursor[RecOf[p]], p)
       \/ \E w \in AllWorkers : m \in loads[w] \cup loadsOut[w] \cup loadsBuf[w]
LoadsInv ==
  /\ \A w \in AllWorkers : \A m \in loads[w] \cup loadsOut[w] \cup loadsBuf[w] :
       m \in Row /\ m.epoch < point /\ m.offset = Count(m.part, point)
  /\ \/ \A s \in Sources : src[s] = {}
     \/ \A p \in SinkParts : Belongs(p, point) # {} =>
          (\E w \in AllWorkers : p \in open[w]) \/ Loading(p)

(* An open file is right, and is to be snapshotted if it was written.       *)
WrittenInv ==
  \A w \in AllWorkers : \A p \in open[w] :
    /\ UpTo(file[p], p, point)
    /\ (\E s \in Sources : Wrote(p, s)) =>
         p \in awoken[w] \/ \E m \in snapq \cup rows : m.part = p /\ m.epoch = point

FilesInv ==
  RowsInv /\ PlacesInv /\ (ws # {} => FrontInv /\ UnderwayInv /\ LoadsInv /\ WrittenInv)
=============================================================================
