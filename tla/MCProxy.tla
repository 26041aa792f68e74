------------------------------- MODULE MCProxy -------------------------------
(***************************************************************************)
(* Instances of Proxy for TLC: model values for turns and sessions, small  *)
(* integers for slots (their order matters), and the symmetry of turns and *)
(* sessions for the runs that check no liveness.                           *)
(***************************************************************************)
EXTENDS Proxy, TLC

CONSTANTS r1, r2, r3, s1, s2

TwoTurns   == {r1, r2}
ThreeTurns == {r1, r2, r3}
OneSession == {s1}
TwoSessions == {s1, s2}
OneSlot  == {0}
TwoSlots == {0, 1}

Symmetry == Permutations(Reqs) \cup Permutations(Sessions)
=============================================================================
