----------------------------- MODULE MCSeedDance -----------------------------
(***************************************************************************)
(* Two requests of two families on two slots: enough for one family to be  *)
(* danced for twice at once, or seeded and restored, and for two families  *)
(* to follow each other on one slot.                                       *)
(***************************************************************************)
EXTENDS SeedDance, TLC

CONSTANTS r1, r2, k1, k2

Requests == {r1, r2}
Families == {k1, k2}
TwoSlots == {0, 1}
=============================================================================
