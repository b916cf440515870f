--------------------------- MODULE MCMessageQueue ---------------------------
(* An instance of MessageQueue for TLC. *)
EXTENDS MessageQueue

CONSTANTS r1, r2

TwoReceivers == {r1, r2}
==========================================================================
