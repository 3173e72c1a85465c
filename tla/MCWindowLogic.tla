---------------------------- MODULE MCWindowLogic ----------------------------
(* Small instances of WindowLogic for TLC. *)
EXTENDS WindowLogic

Overlapping ==
  [clock |-> "event", wait |-> 1, kind |-> "sliding", length |-> 2, offset |-> 1, align |-> 1,
   gap |-> 1]
Sessions == [Overlapping EXCEPT !.kind = "session", !.wait = 2, !.gap = 3]
Tumbling == [Overlapping EXCEPT !.offset = 2, !.wait = 0]
SystemTumbling == [Tumbling EXCEPT !.clock = "system"]

AllConfigs == {Overlapping, Sessions, SystemTumbling}
SessionConfigs == {Sessions}
TumblingConfigs == {Tumbling}

MCMinUtc == - 30
=============================================================================
