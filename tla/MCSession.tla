----------------------------- MODULE MCSession ------------------------------
(***************************************************************************)
(* A disk with four-byte sectors, files that end inside, at the end of and *)
(* behind a sector, one file more than there are entries; another with a   *)
(* file that is too big; a third that is read to its end.  Taken for a     *)
(* header, file data names a small file or one that is too big.  Two       *)
(* letters are enough to name the shell, echo and a text file, and to      *)
(* mistype.                                                                *)
(***************************************************************************)
EXTENDS Session

TarFile(n, s) == [name |-> n, size |-> s]

MCShellName == <<"e", "e">>
MCEchoName == <<"e">>

MCArchives ==
  {<<TarFile(<<"e", "e", "e">>, 3), TarFile(<<"t">>, 8), TarFile(MCShellName, 9),
     TarFile(MCEchoName, 4), TarFile(<<"t", "t">>, 0)>>,
   <<TarFile(<<"t">>, 0), TarFile(MCEchoName, 13)>>,
   <<TarFile(<<"t">>, 4)>>}

MCBodies == {[name |-> <<"t">>, digits |-> d] : d \in {<<0, 5>>, <<7, 5>>}}
=============================================================================
