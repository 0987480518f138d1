------------------------------ MODULE MCTrap ------------------------------
(***************************************************************************)
(* Two processes of two instructions, two register values, and a UART that *)
(* holds one character.                                                    *)
(***************************************************************************)
EXTENDS Trap
=============================================================================
