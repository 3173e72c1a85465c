------------------------- MODULE PartitionedOutput --------------------------
(***************************************************************************)
(* A dataflow that writes to the files of a DirSink, with recovery:        *)
(*                                                                         *)
(*   sources --> partition --> route --> partitioned output --> files      *)
(*                               ^              ^      |                   *)
(*             primaries --------+--> route     |      v                   *)
(*                                      ^-- loads    snapshots             *)
(*                                                                         *)
(* over executions that crash and resume with another number of workers.   *)
(* Files, snapshot rows and the resume epoch survive a crash.              *)
(*                                                                         *)
(* The recovery store is reduced to what RecoveryCluster shows of it: rows *)
(* are written, and the resume epoch follows the frontier of the written   *)
(* rows.  The sources read one item in each epoch (an epoch interval of    *)
(* zero) and resume at the item of the resume epoch.  Timely is external,  *)
(* capabilities and frontiers are sets of epochs.                          *)
(***************************************************************************)
EXTENDS Integers, FiniteSets, SequencesExt, Primaries

CONSTANTS
  MaxWorkers,    \* bound: workers of an execution
  MaxExecutions, \* bound: executions, all but the last may crash
  SinkParts,     \* the files, in the order of their names
  Listing,       \* Listing[w]: the files that list_parts gives on worker w
  Sources,       \* the input partitions
  Script,        \* Script[s][i]: what assign_file gives for the key of item i
  RecParts,      \* the recovery partitions
  RecOf,         \* RecOf[p]: the one that has the rows of file p
  PageSize       \* the batch size of the snapshot loader

AllWorkers == 0 .. MaxWorkers - 1

ASSUME OutputAssumption ==
  /\ MaxWorkers \in Nat \ {0} /\ MaxExecutions \in Nat \ {0} /\ PageSize \in Nat \ {0}
  /\ IsFiniteSet(SinkParts) /\ SinkParts \subseteq Nat
  /\ Listing \in [AllWorkers -> SUBSET SinkParts]
  \* "The directory must exist and contain identical data on all workers":
  \* any number of workers lists the same files.
  /\ Listing[0] = SinkParts
  /\ IsFiniteSet(Sources) /\ Sources \subseteq Nat /\ Sources # {}
  /\ Script \in [Sources -> Seq(Nat)]
  /\ RecOf \in [SinkParts -> RecParts]

(* A worker may see fewer files than another, not other files. *)
ASSUME NestedListing ==
  \A v, w \in AllWorkers : Listing[v] \subseteq Listing[w] \/ Listing[w] \subseteq Listing[v]

VARIABLES
  ex,        \* executions started
  ws,        \* workers of the execution, {} between two
  finished,  \* an execution has ended at EOF
  \* Routing.
  announced, \* workers that have broadcast their list
  primaries, \* what worker 0 has assigned and broadcast, <<>> before
  known,     \* known[w]: of the partition operator on w
  routes,    \* routes[r][w]: routing_map of the route operator r on w
  \* Loading of snapshots.
  loader,    \* loader[r]: the primary of recovery partition r
  cursor,    \* cursor[r]: of its SerializedSnapshotLoader; at is the last key read
  loads,     \* loads[w]: rows read on w and not routed yet
  \* Items.
  src,       \* src[s]: capability of the source
  toPart, toRoute, toOut, \* items on their way to the operator on w
  loadsOut,  \* loads on their way to the output on w
  \* The partitioned output on w.
  inbuf, loadsBuf, \* read and not processed
  queue,     \* epochs of the EagerNotificator
  cap,       \* capability of its outputs
  open,      \* open[w]: the files it has built
  awoken,    \* files written in this epoch
  snapq,     \* snapshots on their way to the recovery store
  \* Persistent.
  file,      \* file[p]: the items in the file
  rows,      \* the snaps table: [part, epoch, offset]
  point      \* the resume epoch

routing == <<announced, primaries, known, routes>>
loading == <<loader, cursor, loads>>
items == <<src, toPart, toRoute, toOut>>
output == <<loadsOut, inbuf, loadsBuf, queue, cap, open, awoken>>
store == <<file, rows, point>>
vars == <<ex, ws, finished, routing, loading, items, output, snapq, store>>

-----------------------------------------------------------------------------
(* Frontiers. *)
Simplify(frontier) == {f \in frontier : \A g \in frontier : f <= g}
IsClosed(frontier, e) == \A f \in frontier : e < f
LessThan(frontier, e) == \E f \in frontier : f < e

Unless(done) == IF done THEN {} ELSE {0}
Epochs(msgs) == {m.epoch : m \in msgs}
Routers == {"self", "loads"}

LoadsFront ==
  (UNION {Unless(cursor[r].done) : r \in RecParts}) \cup (UNION {Epochs(loads[w]) : w \in ws})
ItemsFront ==
  (UNION {src[s] : s \in Sources})
    \cup (UNION {Epochs(Range(toPart[w] \o toRoute[w])) : w \in ws})
(* No operator gets past epoch 0 before it has its known parts or routes. *)
OutIn ==
  LoadsFront \cup ItemsFront
    \cup (UNION {Unless(known[w] # {} /\ \A r \in Routers : routes[r][w] # <<>>)
                   \cup Epochs(Range(toOut[w]) \cup loadsOut[w]) : w \in ws})
SnapsFront == OutIn \cup (UNION {cap[w] : w \in ws}) \cup Epochs(snapq)

-----------------------------------------------------------------------------
FirstEpoch == 1
LastEpoch == CHOOSE n \in {Len(Script[s]) : s \in Sources} :
               \A s \in Sources : Len(Script[s]) <= n

Uninit == [done |-> FALSE, at |-> {}]
OnAll(x) == [w \in AllWorkers |-> x]

(* Every variable that an execution loses. *)
Fresh ==
  /\ announced = {} /\ primaries = <<>>
  /\ known = OnAll({}) /\ routes = [r \in Routers |-> OnAll(<<>>)]
  /\ loader = [r \in RecParts |-> 0] /\ cursor = [r \in RecParts |-> Uninit]
  /\ loads = OnAll({})
  /\ src = [s \in Sources |-> {}]
  /\ toPart = OnAll(<<>>) /\ toRoute = OnAll(<<>>) /\ toOut = OnAll(<<>>)
  /\ loadsOut = OnAll({}) /\ inbuf = OnAll(<<>>) /\ loadsBuf = OnAll({})
  /\ queue = OnAll({}) /\ cap = OnAll({}) /\ open = OnAll({}) /\ awoken = OnAll({})
  /\ snapq = {}

Lose ==
  /\ announced' = {} /\ primaries' = <<>>
  /\ known' = OnAll({}) /\ routes' = [r \in Routers |-> OnAll(<<>>)]
  /\ loader' = [r \in RecParts |-> 0] /\ cursor' = [r \in RecParts |-> Uninit]
  /\ loads' = OnAll({})
  /\ src' = [s \in Sources |-> {}]
  /\ toPart' = OnAll(<<>>) /\ toRoute' = OnAll(<<>>) /\ toOut' = OnAll(<<>>)
  /\ loadsOut' = OnAll({}) /\ inbuf' = OnAll(<<>>) /\ loadsBuf' = OnAll({})
  /\ queue' = OnAll({}) /\ cap' = OnAll({}) /\ open' = OnAll({}) /\ awoken' = OnAll({})
  /\ snapq' = {}

Init ==
  /\ ex = 0 /\ ws = {} /\ finished = FALSE
  /\ Fresh
  /\ file = [p \in SinkParts |-> <<>>] /\ rows = {} /\ point = FirstEpoch

(* An execution starts, with any number of workers. *)
Start ==
  /\ ws = {} /\ ~finished /\ ex < MaxExecutions
  /\ ex' = ex + 1
  /\ \E n \in 1 .. MaxWorkers :
       /\ ws' = 0 .. n - 1
       /\ loader' \in CalcPrimaries([r \in RecParts |-> 0 .. n - 1])
       /\ cap' = [w \in AllWorkers |-> IF w < n THEN {0} ELSE {}]
  /\ src' = [s \in Sources |-> {point}]
  /\ UNCHANGED <<finished, routing, cursor, loads, toPart, toRoute, toOut, loadsOut, inbuf,
                 loadsBuf, queue, open, awoken, snapq, store>>

Crash ==
  /\ ws # {} /\ ex < MaxExecutions
  /\ ws' = {}
  /\ Lose
  /\ UNCHANGED <<ex, finished, store>>

(* All workers' probes are done: the frontier of the snapshots is empty. *)
Finish ==
  /\ ws # {} /\ SnapsFront = {} /\ point > LastEpoch
  /\ ws' = {} /\ finished' = TRUE
  /\ Lose
  /\ UNCHANGED <<ex, store>>

-----------------------------------------------------------------------------
(* list_parts and into_broadcast. *)
Announce(w) ==
  /\ w \in ws \ announced
  /\ announced' = announced \cup {w}
  /\ UNCHANGED <<ex, ws, finished, primaries, known, routes, loading, items, output, snapq, store>>

(* The announcements of epoch 0 are complete. *)
AllAnnounced == announced = ws

(* assign_primaries on worker 0 closes epoch 0 and broadcasts. *)
Assign ==
  /\ AllAnnounced /\ ws # {} /\ primaries = <<>>
  /\ primaries' \in CalcPrimaries([p \in UNION {Listing[w] : w \in announced} |->
                                     {w \in announced : p \in Listing[w]}])
  /\ UNCHANGED <<ex, ws, finished, announced, known, routes, loading, items, output, snapq, store>>

(* The partition operator closes epoch 0. *)
LearnParts(w) ==
  /\ w \in ws /\ AllAnnounced /\ known[w] = {}
  /\ known' = [known EXCEPT ![w] = UNION {Listing[v] : v \in announced}]
  /\ UNCHANGED <<ex, ws, finished, announced, primaries, routes, loading, items, output, snapq, store>>

(* A route operator closes epoch 0. *)
RoutingMap_Local(w) == [p \in DOMAIN primaries |-> IF p \in Listing[w] THEN w ELSE primaries[p]]
RoutingMap(w) == primaries
LearnRoutes(r, w) ==
  /\ w \in ws /\ primaries # <<>> /\ routes[r][w] = <<>>
  /\ routes' = [routes EXCEPT ![r][w] = RoutingMap(w)]
  /\ UNCHANGED <<ex, ws, finished, announced, primaries, known, loading, items, output, snapq, store>>

-----------------------------------------------------------------------------
(* The rows of recovery partition r that a resume at epoch before uses: for *)
(* each key the last one of an earlier epoch.                               *)
LastRows(r, before) ==
  {m \in rows : /\ RecOf[m.part] = r /\ m.epoch < before
                /\ \A n \in rows : n.part = m.part /\ n.epoch < before => n.epoch <= m.epoch}

(* The rows behind the cursor. *)
Behind_OrAt(cur, part) == \A p \in cur.at : part >= p
Behind(cur, part) == \A p \in cur.at : part > p

(* SerializedSnapshotLoader::select: a page, in key order. *)
Select(r, cur) ==
  LET left == {m \in LastRows(r, point) : Behind(cur, m.part)}
  IN  {m \in left : Cardinality({n \in left : n.part < m.part}) < PageSize}

(* One activation of partd_load reads one page; an empty one is the last. *)
(* The rows are delayed to their epoch.                                   *)
LoadPage(r) ==
  /\ ws # {} /\ ~cursor[r].done
  /\ LET page == Select(r, cursor[r])
         read == {m.part : m \in page}
     IN  /\ cursor' = [cursor EXCEPT ![r] = [done |-> page = {},
                                            at |-> {p \in read : \A q \in read : q <= p}]]
         /\ loads' = [loads EXCEPT ![loader[r]] = @ \cup page]
  /\ UNCHANGED <<ex, ws, finished, routing, loader, items, output, snapq, store>>

(* loads_route: delay lets no row through before all pages are read. *)
RouteLoads(w) ==
  /\ w \in ws /\ routes["loads"][w] # <<>>
  /\ \E m \in loads[w] :
       /\ m.epoch \in Simplify(LoadsFront)
       /\ loads' = [loads EXCEPT ![w] = @ \ {m}]
       /\ loadsOut' = [loadsOut EXCEPT ![routes["loads"][w][m.part]] = @ \cup {m}]
  /\ UNCHANGED <<ex, ws, finished, routing, loader, cursor, items, inbuf, loadsBuf, queue, cap,
                 open, awoken, snapq, store>>

-----------------------------------------------------------------------------
(* A source reads the item of its epoch once everything before it has been  *)
(* written and is recoverable.  Its worker changes with their number.       *)
Emit(s) ==
  /\ ws # {}
  /\ \E e \in src[s] :
       /\ e <= point /\ ~LessThan(SnapsFront, e)
       /\ IF e > Len(Script[s])
            THEN src' = [src EXCEPT ![s] = {}] /\ UNCHANGED toPart
            ELSE /\ src' = [src EXCEPT ![s] = {e + 1}]
                 /\ toPart' = [toPart EXCEPT ![s % Cardinality(ws)] =
                                 Append(@, [epoch |-> e, source |-> s])]
  /\ UNCHANGED <<ex, ws, finished, routing, loading, toRoute, toOut, output, snapq, store>>

(* The file of an item: its index is wrapped to the number of known files,  *)
(* and counts from the first name.                                          *)
FileOf(parts, s, e) ==
  CHOOSE p \in parts :
    Cardinality({q \in parts : q < p}) = Script[s][e] % Cardinality(parts)

Partition(w) ==
  /\ w \in ws /\ toPart[w] # <<>> /\ known[w] # {}
  /\ toRoute' = [toRoute EXCEPT ![w] = @ \o [i \in DOMAIN toPart[w] |->
       LET m == toPart[w][i]
       IN  [epoch |-> m.epoch, source |-> m.source, part |-> FileOf(known[w], m.source, m.epoch)]]]
  /\ toPart' = [toPart EXCEPT ![w] = <<>>]
  /\ UNCHANGED <<ex, ws, finished, routing, loading, src, toOut, output, snapq, store>>

(* The messages at some of the places, in order. *)
Only(msgs, places) ==
  LET upTo[i \in 0 .. Len(msgs)] ==
        IF i = 0 THEN <<>>
        ELSE IF i \in places THEN Append(upTo[i - 1], msgs[i]) ELSE upTo[i - 1]
  IN  upTo[Len(msgs)]

Route(w) ==
  /\ w \in ws /\ toRoute[w] # <<>> /\ routes["self"][w] # <<>>
  /\ toOut' = [v \in AllWorkers |->
       toOut[v] \o Only(toRoute[w], {i \in DOMAIN toRoute[w] :
                                       routes["self"][w][toRoute[w][i].part] = v})]
  /\ toRoute' = [toRoute EXCEPT ![w] = <<>>]
  /\ UNCHANGED <<ex, ws, finished, routing, loading, src, toPart, output, snapq, store>>

-----------------------------------------------------------------------------
(* The partitioned output works on a record of what it keeps and the files. *)

(* _FileSinkPartition: open, seek and truncate. *)
BuildPart_Appends(st, p, offset) == [st EXCEPT !.open = @ \cup {p}]
BuildPart(st, p, offset) ==
  [st EXCEPT !.open = @ \cup {p}, !.file[p] = SubSeq(@, 1, offset)]

(* write_batch of one item; a file without resume data is built lazily. *)
WriteItem_WakesNew(st, m) ==
  LET built == IF m.part \in st.open THEN st ELSE BuildPart(st, m.part, 0)
  IN  [built EXCEPT !.file[m.part] = Append(@, <<m.source, m.epoch>>),
                    !.awoken = @ \cup ({m.part} \ st.open)]
WriteItem(st, m) ==
  LET built == IF m.part \in st.open THEN st ELSE BuildPart(st, m.part, 0)
  IN  [built EXCEPT !.file[m.part] = Append(@, <<m.source, m.epoch>>),
                    !.awoken = @ \cup {m.part}]

(* The eager logic: write the items of the epoch. *)
Eager(st, e) ==
  LET now == {i \in DOMAIN st.inbuf : st.inbuf[i].epoch = e}
      after[i \in 0 .. Len(st.inbuf)] ==
        IF i = 0 THEN [st EXCEPT !.inbuf = Only(@, DOMAIN @ \ now)]
        ELSE IF i \in now THEN WriteItem(after[i - 1], st.inbuf[i]) ELSE after[i - 1]
  IN  after[Len(st.inbuf)]

(* The close logic: snapshot the written files, then build the loaded ones. *)
Snaps(st, e) == {[part |-> p, epoch |-> e, offset |-> Len(st.file[p])] : p \in st.awoken}
Snapshot_KeepsAwoken(st, e) == [st EXCEPT !.snaps = @ \cup Snaps(st, e)]
Snapshot(st, e) == [st EXCEPT !.snaps = @ \cup Snaps(st, e), !.awoken = {}]
Close(st, e) ==
  LET now == {m \in st.loads : m.epoch = e}
      after[p \in 0 .. Max({0} \cup SinkParts)] ==
        LET before == IF p = 0 THEN [Snapshot(st, e) EXCEPT !.loads = @ \ now] ELSE after[p - 1]
        IN  IF \E m \in now : m.part = p
              THEN BuildPart(before, p, (CHOOSE m \in now : m.part = p).offset)
              ELSE before
  IN  after[Max({0} \cup SinkParts)]

(* EagerNotificator::for_each with frontier view. *)
ForEach(st, view) ==
  LET closed == {e \in st.queue : IsClosed(view, e)}
      last == Max({0} \cup closed)
      after[e \in 0 .. last] ==
        LET before == IF e = 0 THEN st ELSE after[e - 1]
        IN  IF e \in closed THEN Close(Eager(before, e), e) ELSE before
      at == [after[last] EXCEPT !.queue = @ \ closed]
  IN  IF view = {} THEN [at EXCEPT !.open = {}]
      ELSE IF view \subseteq at.queue THEN Eager(at, CHOOSE f \in view : TRUE)
      ELSE at

(* The frontiers the operator may see: its own capability is the last one. *)
Views(w) ==
  IF OutIn = {} THEN {cap[w], {}}
  ELSE {{f} : f \in {g \in 0 .. CHOOSE e \in Simplify(OutIn) : TRUE : ~IsClosed(cap[w], g)}}

Output(w) ==
  /\ w \in ws /\ cap[w] # {}
  /\ \E view \in Views(w) :
       /\ toOut[w] # <<>> \/ loadsOut[w] # {} \/ view # cap[w]
       /\ \E st \in {ForEach([inbuf |-> inbuf[w] \o toOut[w], loads |-> loadsBuf[w] \cup loadsOut[w],
                              queue |-> queue[w] \cup Epochs(Range(toOut[w]) \cup loadsOut[w]),
                              open |-> open[w], awoken |-> awoken[w], file |-> file,
                              snaps |-> snapq], view)} :
            /\ inbuf' = [inbuf EXCEPT ![w] = st.inbuf]
            /\ loadsBuf' = [loadsBuf EXCEPT ![w] = st.loads]
            /\ queue' = [queue EXCEPT ![w] = st.queue]
            /\ open' = [open EXCEPT ![w] = st.open]
            /\ awoken' = [awoken EXCEPT ![w] = st.awoken]
            /\ file' = st.file
            /\ snapq' = st.snaps
       /\ cap' = [cap EXCEPT ![w] = view]
  /\ toOut' = [toOut EXCEPT ![w] = <<>>]
  /\ loadsOut' = [loadsOut EXCEPT ![w] = {}]
  /\ UNCHANGED <<ex, ws, finished, routing, loading, src, toPart, toRoute, rows, point>>

-----------------------------------------------------------------------------
(* The recovery store: a snapshot replaces the row of its key and epoch. *)
WriteSnap ==
  /\ \E m \in snapq :
       /\ rows' = {n \in rows : <<n.part, n.epoch>> # <<m.part, m.epoch>>} \cup {m}
       /\ snapq' = snapq \ {m}
  /\ UNCHANGED <<ex, ws, finished, routing, loading, items, output, file, point>>

(* All workers have written that they are at the frontier of the snapshots. *)
Advance ==
  /\ ws # {}
  /\ \E f \in IF SnapsFront = {} THEN {LastEpoch + 1} ELSE Simplify(SnapsFront) :
       f > point /\ point' = f
  /\ UNCHANGED <<ex, ws, finished, routing, loading, items, output, snapq, file, rows>>

Steps ==
  \/ Start \/ Finish \/ Assign \/ WriteSnap \/ Advance
  \/ \E w \in AllWorkers :
       \/ Announce(w) \/ LearnParts(w) \/ \E r \in Routers : LearnRoutes(r, w)
       \/ RouteLoads(w) \/ Partition(w) \/ Route(w) \/ Output(w)
  \/ \E r \in RecParts : LoadPage(r)
  \/ \E s \in Sources : Emit(s)
Next == Steps \/ Crash

Spec == Init /\ [][Next]_vars
(* The workers keep stepping and an interrupted dataflow is run again. *)
FairSpec == Spec /\ WF_vars(Steps)

-----------------------------------------------------------------------------
TypeOK ==
  LET Rows == [part : SinkParts, epoch : Nat, offset : Nat]
      AtPart == [epoch : Nat, source : Sources]
      AtRoute == [epoch : Nat, source : Sources, part : SinkParts]
  IN  /\ ex \in 0 .. MaxExecutions /\ ws \subseteq AllWorkers /\ finished \in BOOLEAN
      /\ announced \subseteq ws /\ DOMAIN primaries \subseteq SinkParts
      /\ loader \in [RecParts -> AllWorkers]
      /\ \A r \in RecParts : cursor[r].done \in BOOLEAN /\ cursor[r].at \subseteq SinkParts
      /\ \A s \in Sources : src[s] \subseteq Nat /\ Cardinality(src[s]) <= 1
      /\ \A w \in AllWorkers :
           /\ known[w] \subseteq SinkParts
           /\ \A r \in Routers : Range(routes[r][w]) \subseteq ws
           /\ loads[w] \cup loadsOut[w] \cup loadsBuf[w] \subseteq Rows
           /\ toPart[w] \in Seq(AtPart)
           /\ toRoute[w] \o toOut[w] \o inbuf[w] \in Seq(AtRoute)
           /\ queue[w] \subseteq Nat /\ cap[w] \subseteq Nat /\ Cardinality(cap[w]) <= 1
           /\ awoken[w] \subseteq open[w] /\ open[w] \subseteq SinkParts
      /\ snapq \cup rows \subseteq Rows
      /\ \A p \in SinkParts : file[p] \in Seq(Sources \X Nat)
      /\ point \in FirstEpoch .. LastEpoch + 1

(* The items whose key belongs to a file, of the epochs before one. *)
Belongs(p, before) ==
  {i \in Sources \X (FirstEpoch .. before - 1) :
     i[2] <= Len(Script[i[1]]) /\ FileOf(SinkParts, i[1], i[2]) = p}

(* Exactly these items once, those of an epoch before those of a later one. *)
Holds(seq, wanted) ==
  /\ Range(seq) = wanted /\ Len(seq) = Cardinality(wanted)
  /\ \A i, j \in DOMAIN seq : i < j => seq[i][2] <= seq[j][2]

(* A file is open for writing on at most one worker. *)
OneWriter == \A v, w \in ws : v # w => open[v] \cap open[w] = {}

(* The snapshot that a resume would load cuts the file to exactly the items *)
(* of the epochs before the resume epoch; without one, none of the file's   *)
(* items is older.                                                          *)
ResumeCutsFiles ==
  \A p \in SinkParts :
    LET last == {m \in LastRows(RecOf[p], point) : m.part = p}
        offset == IF last = {} THEN 0 ELSE (CHOOSE m \in last : TRUE).offset
    IN  offset <= Len(file[p]) /\ Holds(SubSeq(file[p], 1, offset), Belongs(p, point))

(* DirSink: "Each file will be truncated during resume so duplicates are    *)
(* prevented": a file that is open has every item of its keys that is older *)
(* than the resume epoch, and no item twice or of another file's keys.      *)
OpenFilesExact ==
  \A w \in ws : \A p \in open[w] :
    /\ Belongs(p, point) \subseteq Range(file[p])
    /\ Holds(file[p], Range(file[p]) \cap Belongs(p, LastEpoch + 1))

(* assign_primaries: "If multiple workers have the same partition,          *)
(* distribute which worker is the primary for that partition".  A primary   *)
(* can reach its file, and no worker could take a file from one that has    *)
(* two more.  This needs NestedListing: workers that list different files   *)
(* can leave the greedy choice of calc_primaries unbalanced.                *)
PrimariesBalanced ==
  LET Has(w) == {p \in DOMAIN primaries : primaries[p] = w}
  IN  \A p \in DOMAIN primaries :
        /\ p \in Listing[primaries[p]]
        /\ \A w \in ws :
             p \in Listing[w] => Cardinality(Has(primaries[p])) <= Cardinality(Has(w)) + 1

(* "Can support exactly-once processing in a batch context": run until EOF, *)
(* whatever crashed on the way, the files hold each item once.              *)
FilesExactlyOnce ==
  <>(finished /\ \A p \in SinkParts : Holds(file[p], Belongs(p, LastEpoch + 1)))
=============================================================================
