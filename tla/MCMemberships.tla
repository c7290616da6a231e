---------------------------- MODULE MCMemberships ----------------------------
(***************************************************************************)
(* Instance of Memberships for TLC.                                        *)
(***************************************************************************)
EXTENDS Memberships, TLC

\* Members and requests are interchangeable.
Interchangeable == Permutations(Users) \cup Permutations(Requests)
=============================================================================
