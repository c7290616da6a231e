-------------------------------- MODULE Sync --------------------------------
(***************************************************************************)
(* Snapshots, cursors and event pages of one location, read while commands *)
(* commit.  An event is stamped before its transaction commits, a cursor   *)
(* is the stamp of an event, and a snapshot is three statements that each  *)
(* see the database as it is when they start.  One reader puts together    *)
(* what it shows from snapshots and from the pages after its cursor.       *)
(***************************************************************************)
EXTENDS Integers, FiniteSets, FiniteSetsExt

CONSTANTS
    Tables, Assists,
    Limit,          \* events in a page
    MaxStamp,       \* bound: events written, committed or not
    MaxLate         \* bound: commits behind an event that was stamped later

ASSUME SyncConfiguration ==
    /\ Tables \cap Assists = {}
    /\ Limit \in Nat \ {0} /\ MaxStamp \in Nat /\ MaxLate \in Nat

VARIABLES
    rows,       \* table_occupancy and assist_requests: status and version
    log,        \* operational_events: stamp, entity, status and version
    open,       \* stamp of the event a transaction has written, 0 if none
    clock,      \* latest stamp given out; stands for (occurred_at, id)
    late,
    request,    \* the reader's request: stage, cursor, rows and events read so far
    view,       \* what the reader shows
    cursor      \* the reader's cursor, 0 if empty

server == <<rows, log, open, clock, late>>
vars == <<server, request, view, cursor>>

Entities == Tables \cup Assists
Active == {"seen", "pending", "acknowledged"}
Absent == [status |-> "none", version |-> 0]
Idle == [stage |-> "idle", cursor |-> 0, rows |-> [e \in Entities |-> Absent], page |-> {}]

Init ==
    /\ rows = [e \in Entities |-> IF e \in Tables THEN [status |-> "seen", version |-> 1] ELSE Absent]
    /\ log = {}
    /\ open = [e \in Entities |-> 0]
    /\ clock = 0
    /\ late = 0
    /\ request = Idle
    /\ view = [e \in Entities |-> Absent]
    /\ cursor = 0

Stamps(events) == {ev.at : ev \in events}
Latest(events) == Max(Stamps(events) \cup {0})

-----------------------------------------------------------------------------
(* Commands: the row is locked from the event to the end of the transaction *)

\* The statuses the commands take a row to.
NextStatus(e) ==
    CASE rows[e].status = "seen" -> {"seen"}
      [] rows[e].status = "none" -> {"pending"}
      [] rows[e].status = "pending" -> {"acknowledged", "closed"}
      [] rows[e].status = "acknowledged" -> {"closed"}
      [] rows[e].status = "closed" -> {}

writeOperationalEvent(e) ==
    /\ open[e] = 0
    /\ NextStatus(e) # {}
    /\ clock < MaxStamp
    /\ clock' = clock + 1
    /\ open' = [open EXCEPT ![e] = clock + 1]
    /\ UNCHANGED <<rows, log, late, request, view, cursor>>

commit(e) ==
    /\ open[e] # 0
    /\ \/ open[e] > Latest(log) /\ UNCHANGED late
       \/ open[e] < Latest(log) /\ late < MaxLate /\ late' = late + 1
    /\ \E status \in NextStatus(e) :
         /\ rows' = [rows EXCEPT ![e] = [status |-> status, version |-> @.version + 1]]
         /\ log' = log \cup {[at |-> open[e], entity |-> e, status |-> status,
                              version |-> rows[e].version + 1]}
    /\ open' = [open EXCEPT ![e] = 0]
    /\ UNCHANGED <<clock, request, view, cursor>>

rollback(e) ==
    /\ open[e] # 0
    /\ open' = [open EXCEPT ![e] = 0]
    /\ UNCHANGED <<rows, log, clock, late, request, view, cursor>>

-----------------------------------------------------------------------------
(* getLocationSnapshot: three statements                                   *)

loadCurrentCursor ==
    /\ request.stage = "idle"
    /\ request' = [request EXCEPT !.stage = "tables", !.cursor = Latest(log)]
    /\ UNCHANGED <<server, view, cursor>>

loadTableStates ==
    /\ request.stage = "tables"
    /\ request' = [request EXCEPT !.stage = "assists",
                      !.rows = [e \in Entities |-> IF e \in Tables THEN rows[e] ELSE Absent]]
    /\ UNCHANGED <<server, view, cursor>>

\* Mutant: the cursor is read after the rows.
MutantCursorLast ==
    /\ request.stage = "assists"
    /\ request' = [request EXCEPT !.stage = "snapshot", !.cursor = Latest(log),
                      !.rows = [e \in Entities |->
                                  IF e \in Assists /\ rows[e].status \in Active THEN rows[e] ELSE @[e]]]
    /\ UNCHANGED <<server, view, cursor>>

loadActiveAssists ==
    /\ request.stage = "assists"
    /\ request' = [request EXCEPT !.stage = "snapshot",
                      !.rows = [e \in Entities |->
                                  IF e \in Assists /\ rows[e].status \in Active THEN rows[e] ELSE @[e]]]
    /\ UNCHANGED <<server, view, cursor>>

mergeSnapshot ==
    /\ request.stage = "snapshot"
    /\ view' = request.rows
    /\ cursor' = request.cursor
    /\ request' = Idle
    /\ UNCHANGED server

-----------------------------------------------------------------------------
(* listEvents, for a reader that has a cursor                              *)

After(c) == {ev \in log : ev.at > c}

\* Mutant: the event of the cursor is listed again.
MutantAtCursor(c) ==
    {ev \in log : ev.at >= c /\ Cardinality({d \in log : d.at >= c /\ d.at < ev.at}) < Limit}

\* The first events after the cursor, up to the limit.
loadEventsAfter(c) ==
    {ev \in After(c) : Cardinality({d \in After(c) : d.at < ev.at}) < Limit}

\* Mutant: a page without events has no cursor.
MutantEmptyCursor ==
    /\ request.stage = "idle" /\ cursor # 0
    /\ request' = [Idle EXCEPT !.stage = "events", !.page = loadEventsAfter(cursor),
                               !.cursor = Latest(loadEventsAfter(cursor))]
    /\ UNCHANGED <<server, view, cursor>>

listEvents ==
    /\ request.stage = "idle"
    /\ cursor # 0
    /\ LET page == loadEventsAfter(cursor)
       IN  request' = [Idle EXCEPT !.stage = "events", !.page = page,
                                   !.cursor = IF page = {} THEN cursor ELSE Latest(page)]
    /\ UNCHANGED <<server, view, cursor>>

\* The last event of each entity in the page; earlier ones are overtaken.
LastOf(e, page) ==
    LET of == {ev \in page : ev.entity = e}
    IN  CHOOSE ev \in of : ev.at = Latest(of)

\* Mutant: the versions are not compared.
MutantApplyAll(e, page) ==
    IF \E ev \in page : ev.entity = e
      THEN [status |-> LastOf(e, page).status, version |-> LastOf(e, page).version]
      ELSE view[e]

\* _applyTableRealtime and _mergeAssist: what is not newer is ignored, and a
\* closed assist is removed.
applyEvents(e, page) ==
    LET ev == LastOf(e, page)
    IN  IF (\A d \in page : d.entity # e) \/ ev.version <= view[e].version THEN view[e]
        ELSE IF ev.status = "closed" THEN Absent
        ELSE [status |-> ev.status, version |-> ev.version]

mergeSyncEvents ==
    /\ request.stage = "events"
    /\ view' = [e \in Entities |-> applyEvents(e, request.page)]
    /\ cursor' = request.cursor
    /\ request' = Idle
    /\ UNCHANGED server

\* A statement fails or the answer is lost.
requestFails ==
    /\ request.stage # "idle"
    /\ request' = Idle
    /\ UNCHANGED <<server, view, cursor>>

-----------------------------------------------------------------------------
getLocationSnapshot == loadCurrentCursor \/ loadTableStates \/ loadActiveAssists \/ mergeSnapshot

Next ==
    \/ \E e \in Entities : writeOperationalEvent(e) \/ commit(e) \/ rollback(e)
    \/ getLocationSnapshot \/ listEvents \/ mergeSyncEvents \/ requestFails

Spec == Init /\ [][Next]_vars

\* Transactions end, and the reader keeps asking for events once it has a
\* cursor, and gets an answer again and again.
FairSpec ==
    /\ Spec
    /\ \A e \in Entities : WF_vars(commit(e) \/ rollback(e))
    /\ WF_vars(getLocationSnapshot) /\ SF_vars(listEvents) /\ SF_vars(mergeSyncEvents)

-----------------------------------------------------------------------------
(* Properties                                                              *)

Shows(ev) ==
    \/ view[ev.entity].version >= ev.version
    \/ ev.entity \in Assists /\ view[ev.entity] = Absent /\ rows[ev.entity].status = "closed"

\* A cursor is a promise: whatever the events up to it say is in what the
\* reader shows, whether it came with a snapshot or with a page.  Holds while
\* events commit in the order of their stamps.
CursorIsComplete == \A ev \in log : ev.at <= cursor => Shows(ev)

\* The cursor of one reader never goes back, across snapshots, pages and
\* failed requests.
CursorNeverGoesBack == [][cursor' >= cursor]_vars

\* Nor does a table, although a snapshot is ahead of its cursor and the pages
\* after it repeat what the reader has.
TablesNeverGoBack == [][\A t \in Tables : view'[t].version >= view[t].version]_vars

\* A reader that keeps asking has seen everything in the end, page by page.
CatchesUp == <>[](cursor # 0) => <>[](\A ev \in log : Shows(ev))
=============================================================================
