----------------------------- MODULE WindowLogic -----------------------------
(***************************************************************************)
(* One key of a windowing operator: WindowStatefulLogic (clock, windower   *)
(* and one fold per window) as stateful_unary drives it.  The logic is     *)
(* woken by items, by its own timer and at EOF; it is dropped whenever no  *)
(* window is open and built anew for the next item; it is snapshotted at   *)
(* the end of an epoch, and rebuilt from the snapshot after a crash.       *)
(*                                                                         *)
(* The accumulator of a window is the set of the items folded into it.     *)
(***************************************************************************)
EXTENDS Sequences, Functions, SlidingWindower, SessionWindower

CONSTANTS
  Configs,       \* clock_config and window_config of the operator
  MinUtc, MaxUtc,
  Times,         \* event times items may have
  MaxItems,      \* bound: items that arrive
  MaxNow,        \* bound: no new item after this time
  MaxCrashes     \* bound: how often the worker is killed

ASSUME WindowAssumption ==
  /\ Configs \subseteq [clock : {"event", "system"},
                         wait : Nat,                   \* wait_for_system_duration
                         kind : {"sliding", "session"},
                         length : Nat \ {0}, offset : Nat \ {0}, align : Int,
                         gap : Nat \ {0}]
  /\ MaxItems \in Nat /\ MaxNow \in Nat /\ MaxCrashes \in Nat
  /\ Times \subseteq Int /\ MinUtc \in Int /\ MaxUtc \in Nat \ {0}
  \* SlidingWindower divides by the milliseconds of the offset.
  /\ \A c \in Configs : Milli <= c.offset
  /\ \A c \in Configs : \A t \in Times :
       MinUtc < t - c.wait /\ t + c.gap + c.length + c.wait + MaxNow < MaxUtc

VARIABLES
  conf,       \* the configuration; never changes
  now,        \* Utc::now()
  \* The logic; when no window is open there is none.
  clock,      \* max_event_time_system_time: at most one [event, system]
  windows,    \* windower: close_times or sessions
  maxKey,     \* session windower: max_key
  logics,     \* current_state: key -> items folded so far
  \* What stateful_unary keeps for the key.
  nextAwake,  \* current_next_awake: at most one time
  due,        \* the key is on the list of awakenings of this activation
  saved,      \* its last snapshot, and what had happened until then
  \* The input, and what has become of it.
  arrived,    \* times of the items, in order of arrival
  done,       \* how many of them have been given to the logic
  seen,       \* when each of these was (history)
  late,       \* <<item, window key>>: WindowError::Late
  closed,     \* windows emitted downstream, in order
  ended,      \* EOF has been reached
  crashes

logic == <<clock, windows, maxKey, logics>>
input == <<arrived, done, seen>>
outcome == <<late, closed>>
vars == <<conf, now, logic, nextAwake, due, saved, input, outcome, ended, crashes>>

-----------------------------------------------------------------------------
(* EventClock and SystemClock.  `next` is the set of the times of the next  *)
(* value: {t} for an item, {MaxUtc} at EOF, {} for Poll::Pending.           *)

WatermarkOf(c) == IF c.event = MaxUtc THEN MaxUtc ELSE c.event - conf.wait + (now - c.system)
SeenTimes(next) == clock \cup {[event |-> t, system |-> now] : t \in next}

(* The item that makes for the largest watermark now; the newer one of two. *)
NewClock_LargestTime(next) ==
  {c \in SeenTimes(next) : \A d \in SeenTimes(next) :
     d.event < c.event \/ (d.event = c.event /\ d.system <= c.system)}
(* The largest event time, with the system time of the first item. *)
NewClock_FirstSystem(next) ==
  {[event |-> Max({c.event : c \in SeenTimes(next)}),
    system |-> Min({c.system : c \in SeenTimes(next)})] : d \in SeenTimes(next)}
NewClock(next) ==
  {c \in SeenTimes(next) : \A d \in SeenTimes(next) :
     \/ WatermarkOf(d) < WatermarkOf(c)
     \/ WatermarkOf(d) = WatermarkOf(c) /\ d.system <= c.system}

EventWatermark(next) ==
  IF SeenTimes(next) = {} THEN MinUtc ELSE Max({WatermarkOf(c) : c \in NewClock(next)})

Watermark(next) ==
  CASE conf.clock = "event" -> EventWatermark(next)
    [] conf.clock = "system" -> IF next = {MaxUtc} THEN MaxUtc ELSE now

-----------------------------------------------------------------------------
(* The windower, whichever it is. *)

IsClosed(w, watermark) ==
  CASE conf.kind = "sliding" -> SlidingClosed(w, watermark)
    [] conf.kind = "session" -> SessionClosed(w, watermark, conf.gap)
NextClose(ws) ==
  CASE conf.kind = "sliding" -> SlidingNextClose(ws)
    [] conf.kind = "session" -> SessionNextClose(ws, conf.gap)

(* next_awake() *)
NextAwake_None(ws) == {}
NextAwake(ws) == {NextClose(ws)}

(* insert(): the windows afterwards, the keys of those that take the item   *)
(* and of those it is late for.                                             *)
Insert(watermark, t) ==
  CASE conf.kind = "sliding" ->
         LET ok == SlidingAccepts(conf, watermark, t)
         IN  [windows |-> windows \cup ok, maxKey |-> maxKey,
              ok |-> {w.key : w \in ok},
              late |-> {w.key : w \in SlidingLate(conf, watermark, t)}]
    [] conf.kind = "session" /\ SessionLate(watermark, t) ->
         [windows |-> windows, maxKey |-> maxKey, ok |-> {}, late |-> {maxKey}]
    [] OTHER ->
         LET ss == AddSession(windows, maxKey, t, conf.gap)
             s == SessionFor(ss, t, conf.gap)
         IN  [windows |-> (ss \ {s}) \cup {TryInsert(s, t)}, maxKey |-> maxKey + 1,
              ok |-> {s.key}, late |-> {}]

Fold_Known(keys, i) ==
  [k \in DOMAIN logics |-> IF k \in keys THEN logics[k] \cup {i} ELSE logics[k]]
Fold(keys, i) ==
  [k \in (DOMAIN logics) \cup keys |->
     (IF k \in DOMAIN logics THEN logics[k] ELSE {}) \cup (IF k \in keys THEN {i} ELSE {})]

NoLogics == [k \in {} |-> {}]

(* Closed windows in the order of their start, in which both windowers keep *)
(* the open ones.                                                           *)
ByStart(ws) ==
  {order \in [1 .. Cardinality(ws) -> ws] :
     \A i, j \in DOMAIN order : i < j => order[i] # order[j] /\ order[i].open <= order[j].open}

(***************************************************************************)
(* The end of on_awake, and what stateful_unary does after it: windows     *)
(* that the watermark has passed are emitted with what their logic holds;  *)
(* a logic without windows is dropped with its awake time.                 *)
(***************************************************************************)
DrainClosed(watermark, ws, ls, mk, cl) ==
  LET out == {w \in ws : IsClosed(w, watermark)}
      left == ws \ out
      emit(w) == [key |-> w.key, open |-> w.open, close |-> w.close, items |-> ls[w.key]]
  IN  /\ \E order \in ByStart(out) :
           closed' = closed \o [j \in DOMAIN order |-> emit(order[j])]
      /\ windows' = left
      /\ IF left = {}
           THEN /\ clock' = {} /\ maxKey' = 0 /\ logics' = NoLogics /\ nextAwake' = {}
           ELSE /\ clock' = cl /\ maxKey' = mk
                /\ logics' = Restrict(ls, DOMAIN ls \ {w.key : w \in out})
                /\ nextAwake' = NextAwake(left)

(* The system clock reads the time of the item after the watermark.  Its    *)
(* windows end before DateTime::MAX_UTC (bound).                            *)
ItemTimes ==
  IF conf.clock = "event" THEN Times ELSE {t \in {now, now + 1} : t + conf.length < MaxUtc}

OnItem(t) ==
  LET wm == Watermark({t})
      ins == Insert(wm, t)
      i == done + 1
  IN  /\ ~ ended
      /\ done = Len(arrived) => Len(arrived) < MaxItems /\ now <= MaxNow
      /\ (done < Len(arrived) /\ conf.clock = "event") => t = arrived[i]
      /\ now' = IF conf.clock = "event" THEN now ELSE t
      /\ arrived' = IF done = Len(arrived) THEN Append(arrived, t) ELSE [arrived EXCEPT ![i] = t]
      /\ done' = i /\ seen' = Append(seen, now)
      /\ late' = late \cup {<<i, k>> : k \in ins.late}
      /\ DrainClosed(wm, ins.windows, Fold(ins.ok, i), ins.maxKey,
                     IF conf.clock = "event" THEN NewClock({t}) ELSE {})
      /\ UNCHANGED <<conf, due, saved, ended, crashes>>

(* An activation lists the keys that are due before it applies any items,   *)
(* and wakes them after the items, whatever these have changed.             *)
FindDue ==
  /\ ~ ended /\ ~ due
  /\ \E a \in nextAwake : a <= now
  /\ due' = TRUE
  /\ UNCHANGED <<conf, now, logic, nextAwake, saved, input, outcome, ended, crashes>>

OnAwake ==
  /\ due /\ ~ ended
  /\ due' = FALSE
  /\ DrainClosed(Watermark({}), windows, logics, maxKey, IF conf.clock = "event" THEN NewClock({}) ELSE {})
  /\ UNCHANGED <<conf, now, saved, input, late, ended, crashes>>

(* The key is on the awake list, so it hears of EOF; a resume may have to   *)
(* read everything again first.                                             *)
OnEof ==
  /\ ~ ended /\ ~ due /\ done = Len(arrived)
  /\ ended' = TRUE
  /\ DrainClosed(Watermark({MaxUtc}), windows, logics, maxKey, NewClock({MaxUtc}))
  /\ UNCHANGED <<conf, now, due, saved, input, late, crashes>>

(* WindowStatefulLogic::snapshot, the part of the windows' folds. *)
SnapshotLogics_NoItems == [k \in DOMAIN logics |-> {}]
SnapshotLogics == logics

(* The end of an epoch, its awakenings done: the whole logic with its awake *)
(* time is saved.  A snapshot that no crash will load is left out (bound).  *)
Snapshot ==
  /\ ~ ended /\ ~ due /\ crashes < MaxCrashes
  /\ saved' = [clock |-> clock, windows |-> windows, maxKey |-> maxKey,
               logics |-> SnapshotLogics,
               nextAwake |-> nextAwake, done |-> done, late |-> late, closed |-> closed]
  /\ UNCHANGED <<conf, now, logic, nextAwake, due, input, outcome, ended, crashes>>

(* The worker is killed and resumes: the logic is rebuilt, and everything   *)
(* up- and downstream is set back to the same point as well.                *)
Crash ==
  /\ ~ ended /\ crashes < MaxCrashes
  /\ crashes' = crashes + 1
  /\ clock' = saved.clock /\ windows' = saved.windows /\ maxKey' = saved.maxKey
  /\ logics' = saved.logics /\ nextAwake' = saved.nextAwake /\ due' = FALSE
  /\ done' = saved.done /\ seen' = [j \in 1 .. saved.done |-> seen[j]]
  /\ late' = saved.late /\ closed' = saved.closed
  /\ UNCHANGED <<conf, now, saved, arrived, ended>>

(* Time passes; after MaxNow only until the watermark is past all windows   *)
(* and the key is due (bound).                                              *)
Tick ==
  /\ ~ ended
  /\ \/ now < MaxNow
     \/ \E w \in windows : ~ IsClosed(w, Watermark({}))
     \/ \E a \in nextAwake : now < a
  /\ now' = now + 1
  /\ UNCHANGED <<conf, logic, nextAwake, due, saved, input, outcome, ended, crashes>>

Stopped == ended /\ UNCHANGED vars

Init ==
  /\ conf \in Configs
  /\ now = 0
  /\ clock = {} /\ windows = {} /\ maxKey = 0 /\ logics = NoLogics
  /\ nextAwake = {} /\ due = FALSE
  /\ saved = [clock |-> {}, windows |-> {}, maxKey |-> 0, logics |-> NoLogics,
              nextAwake |-> {}, done |-> 0, late |-> {}, closed |-> <<>>]
  /\ arrived = <<>> /\ done = 0 /\ seen = <<>> /\ late = {} /\ closed = <<>>
  /\ ended = FALSE /\ crashes = 0

Next ==
  \/ \E t \in ItemTimes : OnItem(t)
  \/ FindDue
  \/ OnAwake
  \/ OnEof
  \/ Snapshot
  \/ Crash
  \/ Tick
  \/ Stopped

Spec == Init /\ [][Next]_vars

(* Time goes on, and stateful_unary schedules an activation for the soonest *)
(* awake time it knows of.                                                  *)
FairSpec == Spec /\ WF_vars(Tick) /\ WF_vars(FindDue) /\ WF_vars(OnAwake)

-----------------------------------------------------------------------------
WindowRecords == [key : Int, open : Int, close : Int]

(* The variables have their types, and every map has the keys it needs: the *)
(* logic of a window that closes is found ("No logic for closed window").   *)
TypeOK ==
  /\ now \in Nat /\ crashes \in 0 .. MaxCrashes /\ {due, ended} \subseteq BOOLEAN
  /\ clock \subseteq [event : Int, system : Nat] /\ Cardinality(clock) <= 1
  /\ windows \subseteq WindowRecords /\ maxKey \in Nat
  /\ {w.key : w \in windows} \subseteq DOMAIN logics
  /\ \A k \in DOMAIN logics : logics[k] \subseteq 1 .. done
  /\ nextAwake \subseteq Int /\ Cardinality(nextAwake) <= 1
  /\ arrived \in Seq(Int) /\ done \in 0 .. Len(arrived) /\ seen \in [1 .. done -> Nat]
  /\ late \subseteq (1 .. done) \X Int

Held(i) == {k \in DOMAIN logics : i \in logics[k] /\ \E w \in windows : w.key = k}
Emissions(i) == {j \in DOMAIN closed : i \in closed[j].items}
LateFor(i) == {k \in {p[2] : p \in late} : <<i, k>> \in late}

(* SlidingWindower::intersects gives an item the windows whose interval,    *)
(* exclusive at the end, holds its time: all of them and no other, for      *)
(* windows that overlap, tumble or leave gaps, before and after align_to.   *)
(* (True or false of all states alike: evaluated before the first item.)    *)
MaxLength == 5
MaxDistance == 14   \* bound: of a time from 0
SlidingAssignment ==
  arrived = <<>> =>
    \A length \in 1 .. MaxLength, offset \in 1 .. MaxLength - 1, align \in -2 .. 2,
       time \in (0 - MaxDistance) .. MaxDistance :
    LET cfg == [length |-> length * Milli, offset |-> offset * Milli, align |-> align]
    IN  Intersects(cfg, time)
          = CoveringWindows(cfg, time, (0 - 2 * MaxDistance) .. 2 * MaxDistance)

(* Every item that reached the logic is, for each window that covers its    *)
(* time, either late, or held in the window, or has been emitted with it,   *)
(* once; across snapshots and crashes, and with nothing held back at EOF.   *)
SlidingItemsAccounted ==
  conf.kind = "sliding" => \A i \in 1 .. done :
    LET emitted == {closed[j].key : j \in Emissions(i)}
    IN  /\ Held(i) \cup emitted \cup LateFor(i)
             = Covering(conf, arrived[i], I32)
        /\ Held(i) \cap LateFor(i) = {} /\ (Held(i) \cup LateFor(i)) \cap emitted = {}
        /\ Cardinality(emitted) = Cardinality(Emissions(i))
        /\ ended => Held(i) = {}

(* An item belongs to one session: it is late, or held in one open session, *)
(* or was emitted with one, "Emit the accumulator when the window closes".  *)
SessionItemsAccounted ==
  conf.kind = "session" => \A i \in 1 .. done :
    Cardinality(Held(i)) + Cardinality(Emissions(i)) + Cardinality(LateFor(i)) = 1

(* Open sessions are a gap apart, whatever the order of their items, and    *)
(* what a session holds lies between its start and its latest event.        *)
SessionsApart ==
  conf.kind = "session" =>
    /\ \A v, w \in windows :
         v = w \/ v.open >= CloseTime(w, conf.gap) \/ w.open >= CloseTime(v, conf.gap)
    /\ \A w \in windows : \A i \in logics[w.key] : w.open <= arrived[i] /\ arrived[i] <= w.close

(* "After a window is closed, late arriving items for that window will be   *)
(* discarded": a window is emitted once.                                    *)
ClosedOnce ==
  conf.kind = "sliding" =>
    \A j, k \in DOMAIN closed : closed[j].key = closed[k].key => j = k

(* The system clock outlives the logic that is dropped with a key's last    *)
(* window, so here a window is emitted once, crashes included.              *)
SystemClosedOnce == conf.clock = "system" => ClosedOnce

(* "Items will be correctly processed as long as they are not out of order *)
(* more than the waiting duration in system time": an item is late for a   *)
(* window, or for all sessions, only if of the items the key had so far one *)
(* is ahead of it by more than that, counting the time since it was seen;   *)
(* whether it was kept by the clock, saved, or read again after a crash.    *)
LateTime(i, k) == IF conf.kind = "sliding" THEN Window(conf, k).close ELSE arrived[i]
Overtaken(i, time) == \E j \in 1 .. i : time + conf.wait < arrived[j] + (seen[i] - seen[j])
OnTimeItemsTaken ==
  conf.clock = "event" => \A p \in late : Overtaken(p[1], LateTime(p[1], p[2]))

(* While a logic lives its watermark does not go back, "watermark should    *)
(* not go backwards due to slow item".                                      *)
WatermarkAdvances ==
  [][windows # {} /\ windows' # {} /\ crashes' = crashes
       => Watermark({}) <= Watermark({})']_vars

(* Every window is closed in the end, by the timer alone if no item or EOF  *)
(* does it.                                                                 *)
WindowsClose == windows # {} ~> windows = {}
=============================================================================
