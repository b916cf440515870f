-------------------------- MODULE MCPendingRoutes --------------------------
(* An instance of PendingRoutes for TLC. *)
EXTENDS PendingRoutes, TLC

CONSTANTS d1, d2, d3, m1, m2

TwoDests == {d1, d2}
ThreeDests == {d1, d2, d3}
TwoMsgs == {m1, m2}

Symmetry == Permutations(Dest) \cup Permutations(Msg)
==========================================================================
