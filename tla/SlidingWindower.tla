--------------------------- MODULE SlidingWindower ---------------------------
(***************************************************************************)
(* The windower behind SlidingWindow and TumblingWindow: which windows a   *)
(* time falls in, and the windows of one key that are open.                *)
(*                                                                         *)
(* Times and durations are integers, in ticks; Milli ticks make a          *)
(* millisecond.  A configuration is a record [length, offset, align].  A   *)
(* window is a record [key, open, close], the key being its index.         *)
(***************************************************************************)
EXTENDS Integers, FiniteSets, FiniteSetsExt

CONSTANTS
  Milli,     \* ticks in a millisecond
  I32Half    \* i32 holds -I32Half .. I32Half - 1 (2^31 in the code)

ASSUME SlidingAssumption == Milli \in Nat \ {0} /\ I32Half \in Nat \ {0}

(* Duration::num_milliseconds rounds towards zero. *)
NumMillis(d) == IF d < 0 THEN - ((- d) \div Milli) ELSE d \div Milli

(* num::integer::Integer. *)
DivFloor(a, b) == a \div b
DivCeil(a, b) == - ((- a) \div b)

(* `window_idx as i32` keeps the low bits. *)
I32 == (0 - I32Half) .. (I32Half - 1)
AsI32(i) == ((i + I32Half) % (2 * I32Half)) - I32Half

Window(cfg, i) ==
  LET open == cfg.align + cfg.offset * AsI32(i)
  IN  [key |-> i, open |-> open, close |-> open + cfg.length]

FirstWindow_NoNext(cfg, time) ==
  DivFloor(NumMillis(time - (cfg.align + cfg.length)), NumMillis(cfg.offset))
FirstWindow(cfg, time) ==
  DivFloor(NumMillis(time - (cfg.align + cfg.length)), NumMillis(cfg.offset)) + 1

Intersects(cfg, time) ==
  LET num == DivCeil(NumMillis(cfg.length), NumMillis(cfg.offset))
  IN  {w \in {Window(cfg, FirstWindow(cfg, time) + i) : i \in 0 .. (num - 1)} : w.open <= time}

-----------------------------------------------------------------------------
(* An item is late for a window, and the window is closed, once the         *)
(* watermark has passed its close time.                                     *)
SlidingIsLate(w, watermark) == w.close < watermark
SlidingClosed_AtOpen(w, watermark) == w.open < watermark
SlidingClosed(w, watermark) == w.close < watermark

(* insert(): the windows an item goes into, and those it is late for. *)
SlidingAccepts(cfg, watermark, time) ==
  {w \in Intersects(cfg, time) : ~ SlidingIsLate(w, watermark)}
SlidingLate(cfg, watermark, time) ==
  {w \in Intersects(cfg, time) : SlidingIsLate(w, watermark)}

SlidingNextClose(windows) == Min({w.close : w \in windows})

-----------------------------------------------------------------------------
(* Reference: window i covers [align + i offset, align + i offset + length). *)
Covering(cfg, time, indices) ==
  {i \in indices : /\ cfg.align + cfg.offset * i <= time
                   /\ time < cfg.align + cfg.offset * i + cfg.length}
CoveringWindows(cfg, time, indices) ==
  {[key |-> i, open |-> cfg.align + cfg.offset * i,
    close |-> cfg.align + cfg.offset * i + cfg.length] : i \in Covering(cfg, time, indices)}
=============================================================================
