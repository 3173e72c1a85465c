---------------------------- MODULE RecoveryPoint ----------------------------
(***************************************************************************)
(* What the recovery store promises, seen from outside: a single recovery  *)
(* point, made of an epoch, the items that the inputs will not read again, *)
(* and how often each item is reflected in the state of the stateful step. *)
(* It changes in one indivisible step per epoch, never gives back an item, *)
(* and counts every item it holds exactly once.                            *)
(***************************************************************************)
EXTENDS Naturals

CONSTANT Items

VARIABLES epoch, read, effect

Init == epoch = 1 /\ read = {} /\ effect = {<<i, 0>> : i \in Items}

Advance ==
  /\ epoch' = epoch + 1
  /\ read \subseteq read' /\ read' \subseteq Items
  /\ effect' = {<<i, IF i \in read' THEN 1 ELSE 0>> : i \in Items}

Spec == Init /\ [][Advance]_<<epoch, read, effect>>
=============================================================================
