----------------------------- MODULE MCAnalytics -----------------------------
(***************************************************************************)
(* Instances of Analytics for TLC.                                         *)
(***************************************************************************)
EXTENDS Analytics, TLC

\* An overnight period of every day.
Overnight == {[days |-> 0..6, start |-> 1, end |-> 1]}

West == -1

\* Everything happens at one table.
OneTable == [i \in Sessions \cup Assists |-> CHOOSE t \in Tables : TRUE]

Interchangeable == Permutations(Workers)
=============================================================================
