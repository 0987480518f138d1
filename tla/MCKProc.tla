------------------------------ MODULE MCKProc ------------------------------
(***************************************************************************)
(* A small machine for TLC: see README.md for the choice of the bounds.    *)
(***************************************************************************)
EXTENDS KProc, TLC

CONSTANTS shell, echo

MCFiles    == {shell, echo}
MCElfPages == (shell :> 2) @@ (echo :> 1)
=============================================================================
