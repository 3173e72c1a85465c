--------------------------- MODULE WindowAssignment ---------------------------
(***************************************************************************)
(* Items of any time meet a sliding windower of any configuration: which   *)
(* windows does SlidingWindower::intersects give them?                     *)
(***************************************************************************)
EXTENDS SlidingWindower

CONSTANTS
  Lengths, Offsets, Aligns,  \* configurations
  MaxTime                    \* bound: times are -MaxTime .. MaxTime

VARIABLES cfg, time

ItemTimes == (0 - MaxTime) .. MaxTime

(* Durations are whole milliseconds. *)
Init ==
  /\ cfg \in [length : {l * Milli : l \in Lengths}, offset : {o * Milli : o \in Offsets},
              align : Aligns]
  /\ time \in ItemTimes

NextItem == time' \in ItemTimes /\ UNCHANGED cfg

Spec == Init /\ [][NextItem]_<<cfg, time>>

(* An item gets the windows whose interval, with its start and without its  *)
(* end, holds its time: all of them and no other, for windows that overlap, *)
(* tumble or leave gaps, before and after align_to.                         *)
AssignedExactly ==
  Intersects(cfg, time) = CoveringWindows(cfg, time, (0 - 2 * MaxTime) .. (2 * MaxTime))
=============================================================================
