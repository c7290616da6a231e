-------------------------------- MODULE Floor -------------------------------
(***************************************************************************)
(* What the operations service promises of a restaurant floor, with no     *)
(* transactions, locks, retries or crashes: every accepted command is one  *)
(* atomic step on the rows, taken only where the domain rules allow it.    *)
(***************************************************************************)
EXTENDS FloorTypes

VARIABLES
    occupancy,  \* table_occupancy: the row of each table
    sessions,   \* table_sessions
    assists     \* assist_requests

vars == <<occupancy, sessions, assists>>

Init ==
    /\ occupancy = [t \in Tables |-> NewOccupancy]
    /\ sessions = [s \in Sessions |-> UnusedSession]
    /\ assists = [a \in Assists |-> UnusedAssist]

\* Seat a party: the table was available and gets a session of its own.
Occupy(t, s) ==
    /\ occupancy[t].status = "available"
    /\ sessions[s].state = "unused"
    /\ occupancy' = [occupancy EXCEPT ![t] = Occupied(@, s)]
    /\ sessions' = [sessions EXCEPT ![s] = [table |-> t, state |-> "active"]]
    /\ UNCHANGED assists

\* Clear a table: its session ends with it.
Clear(t) ==
    /\ occupancy[t].status = "occupied"
    /\ occupancy' = [occupancy EXCEPT ![t] = Cleared(@)]
    /\ sessions' = [sessions EXCEPT ![occupancy[t].session] = [table |-> t, state |-> "ended"]]
    /\ UNCHANGED assists

\* Staff ask for assistance at a table, occupied or not.
RequestAssist(t, a) ==
    /\ assists[a].status = "unused"
    /\ assists' = [assists EXCEPT ![a] = NewAssist(t, occupancy[t].session, "staff", None)]
    /\ UNCHANGED <<occupancy, sessions>>

\* A seated party asks for an action it has no pending request for.
GuestRequest(t, a, action) ==
    /\ occupancy[t].status = "occupied"
    /\ PendingGuest(assists, t, occupancy[t].session, action) = {}
    /\ assists[a].status = "unused"
    /\ assists' = [assists EXCEPT ![a] = NewAssist(t, occupancy[t].session, "guest_qr", action)]
    /\ UNCHANGED <<occupancy, sessions>>

\* An assist moves along its lifecycle.
ChangeAssist(a, next) ==
    /\ validAssistTransition(assists[a].status, next)
    /\ assists' = [assists EXCEPT ![a] = Changed(@, next)]
    /\ UNCHANGED <<occupancy, sessions>>

Next ==
    \/ \E t \in Tables, s \in Sessions : Occupy(t, s)
    \/ \E t \in Tables : Clear(t)
    \/ \E t \in Tables, a \in Assists : RequestAssist(t, a)
    \/ \E t \in Tables, a \in Assists, action \in Actions : GuestRequest(t, a, action)
    \/ \E a \in Assists, next \in {"acknowledged", "resolved", "cancelled"} : ChangeAssist(a, next)

Spec == Init /\ [][Next]_vars
=============================================================================
