---------------------------- MODULE MCOpenFiles ----------------------------
(***************************************************************************)
(* Two processes, two descriptors each, two files and a system-wide table  *)
(* of three entries: every table can fill up before the others.            *)
(***************************************************************************)
EXTENDS OpenFiles, TLC

CONSTANTS hello, bye

MCFiles == {hello, bye}
MCSize  == (hello :> 2) @@ (bye :> 0)
=============================================================================
