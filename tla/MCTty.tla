------------------------------- MODULE MCTty -------------------------------
(***************************************************************************)
(* A ring of four characters: every placement of the three indices, lines  *)
(* that wrap around, lines that fill the ring exactly.                     *)
(***************************************************************************)
EXTENDS Tty
=============================================================================
