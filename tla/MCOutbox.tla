------------------------------ MODULE MCOutbox ------------------------------
(***************************************************************************)
(* Instance of Outbox for TLC.                                             *)
(***************************************************************************)
EXTENDS Outbox

\* The consumers of a destination, in a list longer than today's.
TwoConsumers == <<"analytics-projector", "audit-reporter">>
=============================================================================
