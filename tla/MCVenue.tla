------------------------------- MODULE MCVenue -------------------------------
(***************************************************************************)
(* Instance of Venue for TLC.                                              *)
(***************************************************************************)
EXTENDS Venue, TLC

\* Clients and devices are interchangeable.
Interchangeable == Permutations(Requests) \cup Permutations(Devices)
=============================================================================
