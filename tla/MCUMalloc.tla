----------------------------- MODULE MCUMalloc ------------------------------
(***************************************************************************)
(* The user heap with pages of twelve bytes: a small request that splits a *)
(* page several times, and one that is larger than a page.                 *)
(***************************************************************************)
EXTENDS UMalloc

MCRequests == {1, PAGE + 1}
=============================================================================
