------------------------------ MODULE KeyedStep ------------------------------
(***************************************************************************)
(* A dataflow without recovery on the worker threads of one process:       *)
(*                                                                         *)
(*   dynamic input --> keyed stateful step (unary) --> dynamic output      *)
(*                                                                         *)
(* with the Python logics that bytewax.operators puts in the step, their   *)
(* notifications, the clock they are scheduled on, and every way the       *)
(* workers' main loops end: EOF, AbortExecution, a signal or a panic.      *)
(*                                                                         *)
(* Timely is external.  A capability is a set with at most one epoch, the  *)
(* empty set once dropped; a frontier is the set of the epochs of all      *)
(* capabilities and unread messages upstream.  A worker may see an older   *)
(* frontier than the current one.  An Option is a set with at most one     *)
(* member.  What one activation does to a key depends on no other key.     *)
(***************************************************************************)
EXTENDS Integers, FiniteSets, SequencesExt

CONSTANTS
  Workers, Keys,
  WorkerOf,   \* WorkerOf[k]: the worker that the key's hash selects
  Configs,    \* the dataflows to run, see StepAssumption
  Cooldown,   \* DEFAULT_COOLDOWN
  MaxNow,     \* bound: the clock stops here
  Signals     \* TRUE: a signal or a panic may interrupt the process

Idle == "idle"        \* next_batch returns no items
Abort == "abort"      \* next_batch raises AbortExecution
None == 0 - 1         \* Option::None of a time

ASSUME StepAssumption ==
  /\ WorkerOf \in [Keys -> Workers] /\ {Idle, Abort} \cap Keys = {}
  /\ Cooldown \in Nat \ {0} /\ MaxNow \in Nat
  /\ Signals \in BOOLEAN
  /\ \A c \in Configs :
       /\ c.logic \in {"collect", "fold_final", "alarm"}
       /\ c.timeout \in Nat \ {0} /\ c.max_size \in Nat \ {0}
       /\ c.interval \in Nat                 \* epoch_interval
       \* What each worker's next_batch does, call by call.
       /\ c.script \in [Workers -> Seq(Keys \cup {Idle, Abort})]
       \* After its script a source idles forever (TRUE) or is EOF (FALSE).
       /\ c.endless \in BOOLEAN

VARIABLES
  conf,       \* the dataflow; never changes
  now,        \* Utc::now()
  part,       \* part[w]: part_state of worker w's dynamic input
  chan,       \* chan[w]: items on their way to the step on w, in order
  \* The unary operator.  Each key has its place on one worker.
  inbuf,      \* inbuf[w]: items read and not yet processed
  cap,        \* cap[w]: kv_downstream_cap, equal to snap_cap
  logics,     \* logics[k]: the logic of the key, if any
  sched,      \* sched[k]: the time in sched_cache, if any
  awoken,     \* awoken[k]: the key is in awoken_keys_buffer
  timers,     \* timers[w]: times the operator asked to be activated at
  outs,       \* outs[k]: values emitted for the key, on their way to the output
  \* The worker threads.
  running,    \* running[w]: w is in Worker::run
  abort,      \* abort[w]: the flag of w
  interrupt,  \* should_shutdown of the process
  \* What has happened: not part of the program's state.
  written,    \* written[k]: values of the key given to the sinks, in order
  snaps,      \* snaps[k]: the last snapshot, {} if none or a discard
  eofs,       \* eofs[k]: epochs worked on at EOF; each calls on_eof
  late,       \* late[k]: items the key got after that
  asked,      \* asked[k]: the last answer of notify_at, {} if None
  wrong       \* wrong[k]: on_notify calls although that answer was None

source == <<part, chan>>
op == <<inbuf, cap, logics, sched, awoken, timers>>
threads == <<running, abort, interrupt>>
history == <<written, snaps, eofs, late, asked, wrong>>
vars == <<conf, now, source, op, outs, threads, history>>

-----------------------------------------------------------------------------
(* FrontierEx, and the frontiers of this dataflow. *)

Simplify(frontier) == {f \in frontier : \A g \in frontier : f <= g}
IsClosed(frontier, e) == \A f \in frontier : e < f
LessThan(frontier, e) == \E f \in frontier : f < e

Epochs(msgs) == {m.epoch : m \in Range(msgs)}
StepIn == UNION {part[w].cap \cup Epochs(chan[w]) : w \in Workers}
OutIn == StepIn \cup (UNION {cap[w] : w \in Workers}) \cup (UNION {Epochs(outs[k]) : k \in Keys})
(* The probe is on the clock of the outputs. *)
Probe == OutIn

-----------------------------------------------------------------------------
(* The logics.  Every on_* method returns the logic, the values to emit and *)
(* whether the logic is complete.                                           *)

New == [acc |-> <<>>, at |-> None]
Returns(l, emit, discard) == [logic |-> l, emit |-> emit, discard |-> discard]

(* _CollectLogic, _FoldFinalLogic (the accumulator is the list of the       *)
(* values) and a logic of a user: each item sets an alarm, the next one     *)
(* calls it off.                                                            *)
OnItem(l, v) ==
  LET added == Append(l.acc, v)
  IN  CASE conf.logic = "collect" ->
             IF Len(added) >= conf.max_size
               THEN Returns(New, <<added>>, TRUE)
               ELSE Returns([acc |-> added, at |-> now + conf.timeout], <<>>, FALSE)
        [] conf.logic = "fold_final" -> Returns([l EXCEPT !.acc = added], <<>>, FALSE)
        [] conf.logic = "alarm" ->
             Returns([acc |-> added, at |-> IF l.at = None THEN now + conf.timeout ELSE None],
                     <<>>, FALSE)

OnNotify(l) ==
  CASE conf.logic = "collect" -> Returns(New, <<l.acc>>, TRUE)
    [] conf.logic = "fold_final" -> Returns(l, <<>>, FALSE)
    [] conf.logic = "alarm" -> Returns([l EXCEPT !.at = None], <<>>, FALSE)

OnEof(l) ==
  IF conf.logic = "alarm" THEN Returns(l, <<>>, FALSE) ELSE Returns(New, <<l.acc>>, TRUE)

NotifyAt(l) == l.at

-----------------------------------------------------------------------------
(* An activation works on a record of what the operator keeps of a key.     *)

The(option) == CHOOSE x \in option : TRUE

KeyState(k) ==
  [logic |-> logics[k], sched |-> sched[k], awoken |-> awoken[k], outs |-> outs[k],
   snap |-> snaps[k], eofs |-> eofs[k], late |-> late[k], asked |-> asked[k],
   wrong |-> wrong[k]]

(* What the operator does with the result of any on_* method. *)
Apply_KeepsSched(st, epoch, res) ==
  [st EXCEPT !.outs = @ \o [i \in DOMAIN res.emit |-> [epoch |-> epoch, value |-> res.emit[i]]],
             !.logic = IF res.discard THEN {} ELSE {res.logic},
             !.awoken = TRUE]
Apply_KeepsLogic(st, epoch, res) ==
  [st EXCEPT !.outs = @ \o [i \in DOMAIN res.emit |-> [epoch |-> epoch, value |-> res.emit[i]]],
             !.sched = IF res.discard THEN {} ELSE @,
             !.awoken = TRUE]
Apply(st, epoch, res) ==
  [st EXCEPT !.outs = @ \o [i \in DOMAIN res.emit |-> [epoch |-> epoch, value |-> res.emit[i]]],
             !.logic = IF res.discard THEN {} ELSE {res.logic},
             !.sched = IF res.discard THEN {} ELSE @,
             !.awoken = TRUE]

(* on_item; the logic is built if the key has none. *)
ItemStep(st, msg) ==
  LET l == IF st.logic = {} THEN New ELSE The(st.logic)
  IN  Apply([st EXCEPT !.late = @ + (IF st.eofs > 0 THEN 1 ELSE 0)],
            msg.epoch, OnItem(l, msg.value))

(* on_notify; the notification fires only once. *)
NotifyStep(st, epoch) ==
  IF \A t \in st.sched : t > now THEN st
  ELSE Apply([st EXCEPT !.sched = {}, !.wrong = @ + (IF st.asked = {} THEN 1 ELSE 0)],
             epoch, OnNotify(The(st.logic)))

EofStep(st, epoch) ==
  LET told == [st EXCEPT !.eofs = @ + 1]
  IN  IF st.logic = {} THEN told ELSE Apply(told, epoch, OnEof(The(st.logic)))

(* Ask an awoken logic for its next notification; a None is not stored, and *)
(* the time that sched_cache holds stays.                                   *)
Reschedule(st) ==
  LET at == {t \in {NotifyAt(l) : l \in st.logic} : t # None}
  IN  IF ~st.awoken THEN st
      ELSE [st EXCEPT !.asked = at, !.sched = IF at = {} THEN @ ELSE at]

(* The snapshot of an awoken key at the end of an epoch. *)
SnapshotStep_NoDiscard(st) ==
  [st EXCEPT !.snap = IF st.awoken /\ st.logic # {} THEN st.logic ELSE @, !.awoken = FALSE]
SnapshotStep(st) ==
  [st EXCEPT !.snap = IF st.awoken THEN st.logic ELSE @, !.awoken = FALSE]

(* What the items of an epoch do to the key, one after the other. *)
TakeItems(st0, k, epoch, buf) ==
  LET after[i \in 0 .. Len(buf)] ==
        IF i = 0 THEN st0
        ELSE IF buf[i].key = k /\ buf[i].epoch = epoch THEN ItemStep(after[i - 1], buf[i])
        ELSE after[i - 1]
  IN  after[Len(buf)]

(* The body of the loop over process_epochs. *)
EpochStep(st0, k, epoch, buf, view) ==
  LET st1 == TakeItems(st0, k, epoch, buf)
      st2 == NotifyStep(st1, epoch)
      st3 == IF view = {} THEN EofStep(st2, epoch) ELSE st2
      st4 == Reschedule(st3)
  IN  IF IsClosed(view, epoch) THEN SnapshotStep(st4) ELSE st4

ResumeEpoch == 1

(* The epochs an activation at capability e with frontier view works on. *)
ProcessEpochs(buf, e, view) ==
  {x \in {e} \cup Epochs(buf) : IsClosed(view, x)}
    \cup {x \in (IF view = {} THEN {e} ELSE view) : x >= ResumeEpoch}

-----------------------------------------------------------------------------
Init ==
  /\ conf \in Configs
  /\ now = 0
  /\ part = [w \in Workers |-> [cap |-> {ResumeEpoch}, pos |-> 0, awake |-> None, started |-> 0]]
  /\ chan = [w \in Workers |-> <<>>] /\ inbuf = chan
  /\ cap = [w \in Workers |-> {0}]
  /\ logics = [k \in Keys |-> {}] /\ sched = logics /\ snaps = logics
  /\ asked = logics
  /\ awoken = [k \in Keys |-> FALSE]
  /\ outs = [k \in Keys |-> <<>>] /\ written = outs
  /\ timers = [w \in Workers |-> {}]
  /\ running = [w \in Workers |-> TRUE]
  /\ abort = [w \in Workers |-> FALSE]
  /\ interrupt = FALSE
  /\ eofs = [k \in Keys |-> 0] /\ late = eofs /\ wrong = eofs

AwakeDue(p) == p.awake = None \/ now >= p.awake

(* Only poll the source in an epoch that all outputs have reached. *)
CaughtUp(w) == \E e \in part[w].cap : ~LessThan(Probe, e)

DefaultNextAwake(batch_len) == IF batch_len > 0 THEN None ELSE now + Cooldown

(* An epoch lasts at least epoch_interval. *)
NextEpoch_Ahead(p) ==
  IF now - p.started >= conf.interval
    THEN [p EXCEPT !.cap = {e + 1 : e \in @}, !.started = now + conf.interval]
    ELSE p
NextEpoch(p) ==
  IF now - p.started >= conf.interval
    THEN [p EXCEPT !.cap = {e + 1 : e \in @}, !.started = now]
    ELSE p

(* The dynamic input operator: next_batch, and what follows from it.  The   *)
(* loop in Worker::run ends before it could poll an aborted source again.   *)
Polls(w) == running[w] /\ ~abort[w] /\ CaughtUp(w) /\ AwakeDue(part[w])
Ended(w) == part[w].pos = Len(conf.script[w])

PollBatch(w) ==
  /\ Polls(w)
  /\ IF Ended(w) THEN conf.endless ELSE conf.script[w][part[w].pos + 1] # Abort
  /\ LET item == IF Ended(w) THEN Idle ELSE conf.script[w][part[w].pos + 1]
         read == IF Ended(w) THEN part[w] ELSE [part[w] EXCEPT !.pos = @ + 1]
         len == IF item = Idle THEN 0 ELSE 1
         epoch == CHOOSE e \in part[w].cap : TRUE
     IN  /\ part' = [part EXCEPT ![w] = NextEpoch([read EXCEPT !.awake = DefaultNextAwake(len)])]
         /\ chan' = IF len = 0 THEN chan
                    ELSE [chan EXCEPT ![WorkerOf[item]] =
                            Append(@, [epoch |-> epoch, key |-> item, value |-> <<w, read.pos>>])]
  /\ UNCHANGED <<conf, now, op, outs, threads, history>>

PollEof(w) ==
  /\ Polls(w) /\ Ended(w) /\ ~conf.endless
  /\ part' = [part EXCEPT ![w].cap = {}]
  /\ UNCHANGED <<conf, now, chan, op, outs, threads, history>>

PollAbort_Ends(w) ==
  /\ Polls(w) /\ ~Ended(w) /\ conf.script[w][part[w].pos + 1] = Abort
  /\ abort' = [abort EXCEPT ![w] = TRUE]
  /\ part' = [part EXCEPT ![w].cap = {}]
  /\ UNCHANGED <<conf, now, chan, op, outs, running, interrupt, history>>
PollAbort(w) ==
  /\ Polls(w) /\ ~Ended(w) /\ conf.script[w][part[w].pos + 1] = Abort
  /\ abort' = [abort EXCEPT ![w] = TRUE]
  /\ part' = [part EXCEPT ![w] = NextEpoch(@)]
  /\ UNCHANGED <<conf, now, chan, op, outs, running, interrupt, history>>

(* The frontiers that the operator on w may see; its capability was moved   *)
(* to the last one that it saw.                                             *)
Views(w) ==
  IF StepIn = {} THEN {cap[w], {}}
  ELSE {{f} : f \in {g \in 0 .. CHOOSE e \in Simplify(StepIn) : TRUE : ~IsClosed(cap[w], g)}}

MyKeys(w) == {k \in Keys : WorkerOf[k] = w}

(* The key after worker w has worked on the epochs, in order. *)
KeyStep(w, k, buf, epochs, view) ==
  LET last == Max(epochs \cup {0})
      after[epoch \in 0 .. last] ==
        LET before == IF epoch = 0 THEN KeyState(k) ELSE after[epoch - 1]
        IN  IF epoch \in epochs THEN EpochStep(before, k, epoch, buf, view) ELSE before
  IN  IF k \in MyKeys(w) THEN after[last] ELSE KeyState(k)

(* What stays in the InBuffer. *)
Unread(buf, epochs) ==
  LET left[i \in 0 .. Len(buf)] ==
        IF i = 0 THEN <<>>
        ELSE IF buf[i].epoch \in epochs THEN left[i - 1]
        ELSE Append(left[i - 1], buf[i])
  IN  left[Len(buf)]

(* The capabilities after working on the epochs. *)
CapAfter_Held(w, epochs, view) ==
  IF epochs = {} THEN cap[w] ELSE {x \in epochs : \A y \in epochs : y <= x}
CapAfter(w, epochs, view) ==
  IF view = {} THEN {}
  ELSE IF epochs = {} THEN cap[w]
  ELSE {x \in epochs : \A y \in epochs : y <= x}

(* The timers after an activation: one for the first scheduled time. *)
Timers_None(w, times) == {t \in timers[w] : t > now}
Timers(w, times) ==
  {t \in timers[w] : t > now} \cup {t \in times : \A u \in times : t <= u}

(* One activation of the unary operator on w: it reads the first n messages *)
(* of its input and sees the frontier view.                                 *)
Step(w) ==
  /\ running[w] /\ cap[w] # {}
  /\ \E n \in 0 .. Len(chan[w]), view \in Views(w) :
       /\ n > 0 \/ view # cap[w] \/ \E t \in timers[w] : t <= now
       /\ \E buf \in {inbuf[w] \o SubSeq(chan[w], 1, n)} :
          \E epochs \in {ProcessEpochs(buf, The(cap[w]), view)} :
          \E after \in {[k \in Keys |-> KeyStep(w, k, buf, epochs, view)]} :
            /\ inbuf' = [inbuf EXCEPT ![w] = Unread(buf, epochs)]
            /\ cap' = [cap EXCEPT ![w] = CapAfter(w, epochs, view)]
            /\ logics' = [k \in Keys |-> after[k].logic]
            /\ sched' = [k \in Keys |-> after[k].sched]
            /\ awoken' = [k \in Keys |-> after[k].awoken]
            /\ outs' = [k \in Keys |-> after[k].outs]
            /\ timers' = [timers EXCEPT ![w] = Timers(w, UNION {after[k].sched : k \in MyKeys(w)})]
            /\ snaps' = [k \in Keys |-> after[k].snap]
            /\ eofs' = [k \in Keys |-> after[k].eofs]
            /\ late' = [k \in Keys |-> after[k].late]
            /\ asked' = [k \in Keys |-> after[k].asked]
            /\ wrong' = [k \in Keys |-> after[k].wrong]
       /\ chan' = [chan EXCEPT ![w] = SubSeq(@, n + 1, Len(@))]
  /\ UNCHANGED <<conf, now, part, threads, written>>

(* The dynamic output writes what has arrived, whatever its epoch. *)
Values(msgs) == [i \in DOMAIN msgs |-> msgs[i].value]
Write(w) ==
  /\ running[w] /\ \E k \in Keys : WorkerOf[k] = w /\ outs[k] # <<>>
  /\ written' = [k \in Keys |-> IF WorkerOf[k] = w THEN written[k] \o Values(outs[k])
                                                   ELSE written[k]]
  /\ outs' = [k \in Keys |-> IF WorkerOf[k] = w THEN <<>> ELSE outs[k]]
  /\ UNCHANGED <<conf, now, source, op, threads, snaps, eofs, late, asked, wrong>>

(* Worker::run returns and the dataflow is dropped.  What the worker held   *)
(* is never released to its peers: it sends no more progress.               *)
Stop_Deaf(w) ==
  /\ running[w]
  /\ abort[w] \/ Probe = {}
  /\ running' = [running EXCEPT ![w] = FALSE]
  /\ UNCHANGED <<conf, now, source, op, outs, abort, interrupt, history>>
Stop(w) ==
  /\ running[w]
  /\ abort[w] \/ interrupt \/ Probe = {}
  /\ running' = [running EXCEPT ![w] = FALSE]
  /\ UNCHANGED <<conf, now, source, op, outs, abort, interrupt, history>>

(* The main thread sees a signal, or the panic hook of a worker runs. *)
Interrupt ==
  /\ Signals /\ ~interrupt /\ \E w \in Workers : running[w]
  /\ interrupt' = TRUE
  /\ UNCHANGED <<conf, now, source, op, outs, running, abort, history>>

Tick ==
  /\ now < MaxNow
  /\ now' = now + 1
  /\ UNCHANGED <<conf, source, op, outs, threads, history>>

(* What the thread of worker w does in its loop. *)
Turn(w) == PollBatch(w) \/ PollEof(w) \/ PollAbort(w) \/ Step(w) \/ Write(w) \/ Stop(w)

Next == (\E w \in Workers : Turn(w)) \/ Interrupt \/ Tick

Spec == Init /\ [][Next]_vars

(* A worker thread with something to do does something, and the clock runs. *)
(* Nothing makes a signal arrive.                                           *)
Fairness == (\A w \in Workers : WF_vars(Turn(w))) /\ WF_vars(Tick)
FairSpec == Spec /\ Fairness

-----------------------------------------------------------------------------
TypeOK ==
  LET Option(S, T) == S \subseteq T /\ Cardinality(S) <= 1
      Items == Workers \X Nat
      Logics == [acc : Seq(Items), at : Nat \cup {None}]
      Msgs == Seq([epoch : Nat, key : Keys, value : Items])
  IN  /\ conf \in Configs /\ now \in 0 .. MaxNow
      /\ running \in [Workers -> BOOLEAN] /\ abort \in [Workers -> BOOLEAN]
      /\ interrupt \in BOOLEAN
      /\ \A w \in Workers :
           /\ Option(part[w].cap, Nat) /\ part[w].pos \in 0 .. Len(conf.script[w])
           /\ part[w].awake \in Nat \cup {None} /\ part[w].started \in 0 .. now
           /\ chan[w] \in Msgs /\ inbuf[w] \in Msgs
           /\ Option(cap[w], Nat) /\ timers[w] \subseteq Nat
      /\ \A k \in Keys :
           /\ Option(logics[k], Logics) /\ Option(snaps[k], Logics)
           /\ Option(sched[k], Nat) /\ Option(asked[k], Nat) /\ awoken[k] \in BOOLEAN
           /\ outs[k] \in Seq([epoch : Nat, value : Seq(Items)])
           /\ written[k] \in Seq(Seq(Items))
           /\ eofs[k] \in Nat /\ late[k] \in Nat /\ wrong[k] \in Nat

Emitted(k) == written[k] \o Values(outs[k])
OfKey(k, msgs) == [j \in DOMAIN msgs |-> IF msgs[j].key = k THEN <<msgs[j].value>> ELSE <<>>]
(* Where the items of a key are, list by list, from the sink back to the    *)
(* source, and in the lists from the first item to the last.                *)
Trail(k) ==
  Emitted(k) \o <<IF logics[k] = {} THEN <<>> ELSE The(logics[k]).acc>>
    \o OfKey(k, inbuf[WorkerOf[k]]) \o OfKey(k, chan[WorkerOf[k]])
Places(trail) == UNION {{j} \X DOMAIN trail[j] : j \in DOMAIN trail}
Before(p, q) == p[1] < q[1] \/ (p[1] = q[1] /\ p[2] < q[2])
Sent(k) == UNION {{w} \X {i \in 1 .. part[w].pos : conf.script[w][i] = k} : w \in Workers}

(* Items are neither lost, repeated nor overtaken: what the sources have    *)
(* sent to a key is, each source's items in the order sent, written,        *)
(* emitted, in the state of the key's only logic, buffered or in flight,    *)
(* across every flush, discard and rebuild of the logic.                    *)
ItemsInOrder ==
  \A k \in Keys :
    LET trail == Trail(k)
        Item(p) == trail[p[1]][p[2]]
    IN  /\ {Item(p) : p \in Places(trail)} = Sent(k)
        /\ \A p, q \in Places(trail) :
             Before(p, q) /\ Item(p)[1] = Item(q)[1] => Item(p)[2] < Item(q)[2]

(* UnaryLogic.on_eof: "This will only be called once per execution after    *)
(* `on_item` is done being called."  The operator calls it once for every   *)
(* epoch it works on at EOF, so this rests on the input's backpressure.     *)
EofOnce == \A k \in Keys : eofs[k] <= 1 /\ late[k] = 0

(* fold_final emits a key's accumulator "Only once the upstream is EOF": it *)
(* has the items of all the sources of all the workers, and none is emitted *)
(* in an execution that one of the sources aborts.                          *)
FinalIsComplete ==
  conf.logic = "fold_final" =>
    \A k \in Keys :
      Emitted(k) # <<>> =>
        /\ Len(Emitted(k)) = 1
        /\ \A w \in Workers :
             /\ Abort \notin Range(conf.script[w])
             /\ \A i \in DOMAIN conf.script[w] :
                  conf.script[w][i] = k => <<w, i>> \in Range(Emitted(k)[1])

(* "We should always have a logic for anything in `sched_cache`": or the    *)
(* unwrap before on_notify panics.                                          *)
SchedHasLogic == \A k \in Keys : logics[k] = {} => sched[k] = {}

(* The last snapshot of a key that was not awoken since is the state of its *)
(* logic, or says that there is none.                                       *)
SnapshotsCurrent == \A k \in Keys : awoken[k] \/ snaps[k] = logics[k]

(* Every worker's loop ends when all sources are at EOF or the process is   *)
(* interrupted, unless a source of another worker aborted.  (A source that  *)
(* asked to be woken after the bound on the clock is never polled again.)   *)
WorkersStop ==
  (interrupt \/ ~(conf.endless \/ \E w \in Workers : Abort \in Range(conf.script[w])))
    ~> \/ \A w \in Workers : ~running[w]
       \/ \E w \in Workers : part[w].awake > MaxNow

(* A logic that asks to be notified is notified, however idle its input is: *)
(* the operator has a timer for the first scheduled time at all times.  (Up *)
(* to the bound on the clock, and while its worker runs.)                   *)
Notified ==
  []<>(\A k \in Keys :
         \/ ~running[WorkerOf[k]]
         \/ \A l \in logics[k] : l.at = None \/ l.at > MaxNow)

(* UnaryLogic.notify_at: "If `None`, no `on_notify` callback will occur." *)
NoneIsNotNotified == \A k \in Keys : wrong[k] = 0
=============================================================================
