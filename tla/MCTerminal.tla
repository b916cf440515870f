----------------------------- MODULE MCTerminal -----------------------------
(* The instance of Terminal for TLC: its bounds are in the cfg. *)
EXTENDS Terminal
==========================================================================
