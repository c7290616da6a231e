---------------------------- MODULE MCIntegrations ----------------------------
(***************************************************************************)
(* Instance of Integrations for TLC.                                       *)
(***************************************************************************)
EXTENDS Integrations, TLC

OneArrival == {<<"occupied", 1>>}

Interchangeable == Permutations(Workers) \cup Permutations(Tables)
=============================================================================
