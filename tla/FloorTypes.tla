----------------------------- MODULE FloorTypes -----------------------------
(***************************************************************************)
(* The rows the operations service keeps for a location, and the rule of   *)
(* the assist lifecycle.  Shared by the abstract specification Floor and   *)
(* by the detailed one, Operations.                                        *)
(***************************************************************************)
EXTENDS Naturals

CONSTANTS
    Tables,     \* tables of one location
    Sessions,   \* identifiers table sessions are given
    Assists,    \* identifiers assist requests are given
    Actions,    \* guest action keys enabled at the location
    None        \* SQL NULL

\* The identifiers are UUIDs: no identifier is one of another kind, or NULL.
ASSUME IdentifiersDistinct ==
    /\ Tables \cap Assists = {}
    /\ None \notin Tables \cup Sessions \cup Assists \cup Actions

\* A table_occupancy row.
OccupancyRow ==
    [status : {"available", "occupied"}, session : Sessions \cup {None}, version : Nat]

\* A table_sessions row; "unused" is an identifier no row has yet.
SessionRow == [table : Tables \cup {None}, state : {"unused", "active", "ended"}]

\* An assist_requests row; "unused" is an identifier no row has yet.
AssistRow ==
    [table : Tables \cup {None}, session : Sessions \cup {None},
     source : {"staff", "guest_qr"}, action : Actions \cup {None},
     status : {"unused", "pending", "acknowledged", "resolved", "cancelled"},
     version : Nat]

NewOccupancy == [status |-> "available", session |-> None, version |-> 1]
UnusedSession == [table |-> None, state |-> "unused"]
UnusedAssist ==
    [table |-> None, session |-> None, source |-> "staff", action |-> None,
     status |-> "unused", version |-> 0]

\* Mutant: the status is named after the event.
MutantClearedStatus(o) == [status |-> "cleared", session |-> None, version |-> o.version + 1]

Occupied(o, s) == [status |-> "occupied", session |-> s, version |-> o.version + 1]
Cleared(o) == [status |-> "available", session |-> None, version |-> o.version + 1]

NewAssist(t, s, source, action) ==
    [table |-> t, session |-> s, source |-> source, action |-> action,
     status |-> "pending", version |-> 1]
Changed(row, next) == [row EXCEPT !.status = next, !.version = @ + 1]

\* The pending guest requests of one party for one action.
PendingGuest(rows, t, s, action) ==
    {a \in Assists : /\ rows[a].table = t
                     /\ rows[a].session = s
                     /\ rows[a].source = "guest_qr"
                     /\ rows[a].action = action
                     /\ rows[a].status = "pending"}

\* Which status an assist may go to from its current one.
validAssistTransition(current, next) ==
    \/ next = "acknowledged" /\ current = "pending"
    \/ next \in {"resolved", "cancelled"} /\ current \in {"pending", "acknowledged"}
=============================================================================
