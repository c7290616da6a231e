---------------------------- MODULE MCOperations ----------------------------
(***************************************************************************)
(* Instances of Operations for TLC.  All identifiers are interchangeable.  *)
(***************************************************************************)
EXTENDS Operations, TLC

Symmetry ==
    Permutations(Clients) \cup Permutations(Tables) \cup Permutations(Sessions)
        \cup Permutations(Assists)
=============================================================================
