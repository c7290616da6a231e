-------------------------------- MODULE MCHub -------------------------------
(***************************************************************************)
(* Instance of Hub for TLC: one event is of another location.              *)
(***************************************************************************)
EXTENDS Hub

CONSTANTS c1, c2, e1, e2, e3

TwoLocations == [x \in Connections \cup Events |-> IF x = e3 THEN "there" ELSE "here"]
=============================================================================
