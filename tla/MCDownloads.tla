------------------------------- MODULE MCDownloads -------------------------------
(***************************************************************************)
(* Small instances of Downloads.                                           *)
(***************************************************************************)
EXTENDS Downloads, TLC

Symmetry == Permutations(Keys) \cup Permutations(Requests)
              \cup Permutations(Products) \cup Permutations(Tokens)
=============================================================================
