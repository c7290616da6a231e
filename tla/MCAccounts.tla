----------------------------- MODULE MCAccounts -----------------------------
(***************************************************************************)
(* Instance of Accounts for TLC.                                           *)
(***************************************************************************)
EXTENDS Accounts, TLC

\* The people other than the first administrator, and the requests, are
\* interchangeable.
Interchangeable == Permutations(People \ {Founder}) \cup Permutations(Requests)
=============================================================================
