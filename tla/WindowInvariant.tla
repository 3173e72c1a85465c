--------------------------- MODULE WindowInvariant ---------------------------
(***************************************************************************)
(* Why the properties of WindowLogic hold: what is true of the logic of a  *)
(* key is true of its snapshot too, so that a crash sets it back to a state*)
(* that was as good.                                                       *)
(***************************************************************************)
EXTENDS WindowLogic

(* What the code needs to place an item: times and durations are whole      *)
(* milliseconds, and the indices of the windows around it are i32.          *)
Fits(cfg, time) ==
  \A i \in Int :
    /\ cfg.align + cfg.offset * (i - 1) <= time
    /\ time < cfg.align + cfg.offset * i + cfg.length
    => i \in I32
WholeMillis ==
  Milli = 1 /\ \A c \in Configs : \A t \in Times \cup (0 .. MaxUtc - 1) : Fits(c, t)

(* The part of the state that a snapshot has, as it is now. *)
Live ==
  [clock |-> clock, windows |-> windows, maxKey |-> maxKey, logics |-> logics,
   nextAwake |-> nextAwake, done |-> done, late |-> late, closed |-> closed]

Keys(ws) == {w.key : w \in ws}
Emission == [key : Int, open : Int, close : Int, items : SUBSET Nat]

(* The scalars, and the input: an item keeps its time unless it is read     *)
(* again, and the system clock gives it a later one.                        *)
ScalarsInv ==
  /\ conf \in Configs
  /\ now \in Nat /\ crashes \in 0 .. MaxCrashes
  /\ due \in BOOLEAN /\ ended \in BOOLEAN
  /\ arrived \in Seq(Int) /\ done \in 0 .. Len(arrived) /\ saved.done \in 0 .. done
  /\ \A i \in 1 .. Len(arrived) : arrived[i] \in Times \cup (0 .. MaxUtc - 1)

(* At most one item makes the watermark; there is one while a window is     *)
(* open, and EOF is the last.                                               *)
ClockInv(s) ==
  /\ s.clock \subseteq [event : Int, system : Nat]
  /\ \A c, d \in s.clock : c = d
  /\ \A c \in s.clock : c.system <= now /\ (~ ended => c.event < MaxUtc)
  /\ conf.clock = "event" /\ s.windows # {} => s.clock # {}

(* What makes the watermark is an item that was given to the logic, with    *)
(* the time at which it was, and so is what made any item late.             *)
SeenInv(s) ==
  /\ seen \in [1 .. done -> Nat]
  /\ conf.clock = "event" =>
       /\ ~ ended => \A c \in s.clock :
            \E j \in 1 .. s.done : c.event = arrived[j] /\ c.system = seen[j]
       /\ \A p \in s.late : p[1] \in 1 .. s.done /\ Overtaken(p[1], LateTime(p[1], p[2]))

(* The open windows are windows of the configuration, each with its logic,  *)
(* and the timer is set for one of them.                                    *)
WindowsInv(s) ==
  /\ IsFiniteSet(s.windows) /\ s.maxKey \in Nat
  /\ \A w \in s.windows : w.key \in Int /\ w = Window(conf, w.key) /\ w.close < MaxUtc
  /\ s.logics \in [Keys(s.windows) -> SUBSET (1 .. s.done)]
  /\ s.nextAwake = IF s.windows = {} THEN {} ELSE {SlidingNextClose(s.windows)}

(* What has come out: windows of the configuration and late items. *)
OutcomeInv(s) ==
  /\ s.closed \in Seq(Emission)
  /\ \A j \in DOMAIN s.closed :
       /\ s.closed[j].close = Window(conf, s.closed[j].key).close
       /\ s.closed[j].items \subseteq 1 .. s.done
  /\ s.late \subseteq (1 .. s.done) \X Int

(* Item i is held in window k, has been emitted with it, or was late.       *)
HeldIn(s, i, k) == k \in DOMAIN s.logics /\ i \in s.logics[k]
EmittedAt(s, i, k) == {j \in DOMAIN s.closed : i \in s.closed[j].items /\ s.closed[j].key = k}
IsLateFor(s, i, k) == <<i, k>> \in s.late

(* For each window that covers an item exactly one of them is so, and for   *)
(* no other window any.                                                     *)
Accounted(held, emitted, isLate, covers) ==
  /\ held \/ emitted # {} \/ isLate <=> covers
  /\ ~ (held /\ isLate)
  /\ emitted # {} => ~ held /\ ~ isLate
  /\ \A j, l \in emitted : j = l
AccountInv(s) ==
  \A i \in 1 .. s.done : \A k \in Int :
    Accounted(HeldIn(s, i, k), EmittedAt(s, i, k), IsLateFor(s, i, k),
              k \in Covering(conf, arrived[i], I32))

(* Under the system clock a window that was emitted has ended, and no item  *)
(* of a later time falls in it.                                             *)
OnceInv(s) ==
  conf.clock = "system" =>
    /\ \A j, l \in DOMAIN s.closed : s.closed[j].key = s.closed[l].key => j = l
    /\ \A j \in DOMAIN s.closed : /\ s.closed[j].key \notin Keys(s.windows)
                                  /\ ~ ended => s.closed[j].close < now

SlidingInv(s) == WindowsInv(s) /\ OutcomeInv(s) /\ OnceInv(s)

(* A list of sessions: each starts before it ends and has a key of its own,  *)
(* one that has been given out; and they are a gap apart.                   *)
Listed(ss, maxk) ==
  /\ IsFiniteSet(ss) /\ ss \subseteq WindowRecords
  /\ \A w \in ss : w.open <= w.close /\ w.key \in 1 .. maxk
  /\ \A v, w \in ss : v.key = w.key => v = w
Apart(ss, gap) ==
  \A v, w \in ss : v = w \/ v.open >= CloseTime(w, gap) \/ w.open >= CloseTime(v, gap)

(* Every session has a logic, which holds items from within it.  A session  *)
(* that was merged into another leaves its logic behind, so keys that have  *)
(* been given out, and no others, may have one.                             *)
SessionInv(s) ==
  /\ s.maxKey \in Nat /\ Listed(s.windows, s.maxKey) /\ Apart(s.windows, conf.gap)
  /\ Keys(s.windows) \subseteq DOMAIN s.logics /\ DOMAIN s.logics \subseteq 1 .. s.maxKey
  /\ \A k \in DOMAIN s.logics : s.logics[k] \subseteq 1 .. s.done
  /\ \A w \in s.windows : \A i \in s.logics[w.key] : w.open <= arrived[i] /\ arrived[i] <= w.close
  /\ s.nextAwake = IF s.windows = {} THEN {} ELSE {SessionNextClose(s.windows, conf.gap)}
  /\ s.late \subseteq (1 .. s.done) \X Int

(* The invariant of the clocks, and those of the windows. *)
WClockInv == ScalarsInv /\ ClockInv(Live) /\ ClockInv(saved)
WSlidingInv ==
  conf.kind = "sliding" =>
    /\ SlidingInv(Live) /\ SlidingInv(saved)
    /\ ended => windows = {}
WSeenInv == SeenInv(Live) /\ SeenInv(saved)
WAccountInv == conf.kind = "sliding" => AccountInv(Live) /\ AccountInv(saved)
WSessionInv == conf.kind = "session" => SessionInv(Live) /\ SessionInv(saved)
=============================================================================
