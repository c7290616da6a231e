----------------------------- MODULE Sync_proofs -----------------------------
(***************************************************************************)
(* Proofs about snapshots, cursors and pages, for any tables, assists,     *)
(* page limit and number of late commits.  The invariant relates the log   *)
(* to the rows it was written with, what a request has read so far to the  *)
(* log and to what the reader shows, and, while events commit in the order *)
(* of their stamps, says that nothing up to a cursor is missing.           *)
(***************************************************************************)
EXTENDS Sync, FiniteSetTheorems, WellFoundedInduction, TLAPS

-----------------------------------------------------------------------------
(* The invariant                                                           *)

Statuses == Active \cup {"none", "closed"}
Rows == [status : Statuses, version : Nat]
Events == [at : Nat, entity : Entities, status : Statuses, version : Nat]
Stages == {"idle", "tables", "assists", "snapshot", "events"}
RequestType == [stage : Stages, cursor : Nat, rows : [Entities -> Rows], page : SUBSET Events]

\* The types of the variables; the log is finite.
TypeInv ==
    /\ rows \in [Entities -> Rows]
    /\ log \subseteq Events /\ IsFiniteSet(log)
    /\ open \in [Entities -> Nat]
    /\ clock \in Nat /\ late \in Nat
    /\ request \in RequestType
    /\ view \in [Entities -> Rows]
    /\ cursor \in Nat

\* Tables are never closed; an assist that is not there has no version.
RowInv(e) ==
    /\ e \in Tables => rows[e].status = "seen"
    /\ rows[e].status = "none" => rows[e].version = 0

\* An event is behind the clock and behind the row it tells about.
EventInv(ev) ==
    /\ ev.at <= clock
    /\ 1 <= ev.version /\ ev.version <= rows[ev.entity].version
    /\ ev.status = "closed" => rows[ev.entity].status = "closed"
    /\ ev.entity \in Tables => ev.status = "seen"

\* The stamps and the versions of the events of one entity agree.
InOrder(ev, d) == ev.entity = d.entity /\ ev.at <= d.at => ev.version <= d.version

\* The row lock: an open event is later than what is committed of its entity.
OpenInv(e) ==
    /\ open[e] <= clock
    /\ open[e] # 0 => \A ev \in log : ev.entity = e => ev.at < open[e]

ServerInv ==
    /\ \A e \in Entities : RowInv(e) /\ OpenInv(e)
    /\ \A ev \in log : EventInv(ev)
    /\ \A ev, d \in log : InOrder(ev, d)

\* The cursors are stamps of the log, and a request never reads behind what
\* the reader has.
ReaderInv ==
    /\ cursor <= Latest(log)
    /\ request.stage # "idle" => cursor <= request.cursor /\ request.cursor <= Latest(log)
    /\ \A t \in Tables : view[t].version <= rows[t].version
    /\ request.stage \in {"assists", "snapshot"} =>
         \A t \in Tables : /\ view[t].version <= request.rows[t].version
                           /\ request.rows[t].version <= rows[t].version
    /\ request.stage = "assists" => \A a \in Assists : request.rows[a] = Absent
    /\ request.stage = "events" => request.page \subseteq After(cursor)

\* What the snapshot's rows say of an event.
RowsShow(ev) ==
    \/ request.rows[ev.entity].version >= ev.version
    \/ ev.entity \in Assists /\ request.rows[ev.entity] = Absent /\ rows[ev.entity].status = "closed"

\* Nothing up to a cursor is missing, in what is shown or has been read.
Complete ==
    /\ CursorIsComplete
    /\ request.stage = "assists" =>
         \A ev \in log : ev.at <= request.cursor /\ ev.entity \in Tables => RowsShow(ev)
    /\ request.stage = "snapshot" => \A ev \in log : ev.at <= request.cursor => RowsShow(ev)
    /\ request.stage = "events" =>
         \A ev \in log : ev.at > cursor /\ ev.at <= request.cursor => ev \in request.page

Inv == TypeInv /\ ServerInv /\ ReaderInv /\ (late = 0 => Complete)

-----------------------------------------------------------------------------
(* Stamps and pages                                                        *)

\* A nonempty set of naturals with an upper bound has a greatest element.
LEMMA BoundedMax ==
    ASSUME NEW S, S \subseteq Nat, S # {}, NEW n \in Nat, \A s \in S : s <= n
    PROVE  Max(S) \in S /\ \A s \in S : s <= Max(S)
<1> DEFINE R == OpToRel(<, Nat)
<1> DEFINE T == {n - s : s \in S}
<1>1. T \subseteq Nat /\ T # {}
  <2>1. \A s \in S : n - s \in Nat
    OBVIOUS
  <2> QED
    BY <2>1
<1>2. PICK x \in T : \A y \in T : ~(<<y, x>> \in R)
  BY <1>1, NatLessThanWellFounded, WFMin
<1>3. \A a, b \in Nat : a < b => <<a, b>> \in R
  BY DEF OpToRel
<1>4. \A y \in T : x <= y
  <2> SUFFICES ASSUME NEW y \in T PROVE x <= y
    OBVIOUS
  <2>1. x \in Nat /\ y \in Nat
    BY <1>1
  <2>2. ~(<<y, x>> \in R)
    BY <1>2
  <2>3. ~(y < x)
    BY <1>3, <2>1, <2>2
  <2> QED
    BY <2>1, <2>3
<1>5. PICK m \in S : x = n - m
  BY <1>2
<1>6. \A s \in S : m >= s
  BY <1>4, <1>5
<1>7. QED
  BY <1>5, <1>6 DEF Max

\* A finite set of events has a latest stamp, or none and 0.
LEMMA LatestOf ==
    ASSUME NEW S, S \subseteq Events, NEW n \in Nat, \A ev \in S : ev.at <= n
    PROVE  /\ Latest(S) \in Nat
           /\ \A ev \in S : ev.at <= Latest(S)
           /\ S # {} => \E ev \in S : ev.at = Latest(S)
           /\ S = {} => Latest(S) = 0
<1> DEFINE T == Stamps(S) \cup {0}
<1>1. T \subseteq Nat /\ T # {} /\ \A s \in T : s <= n
  BY DEF Stamps, Events
<1>2. Max(T) \in T /\ \A s \in T : s <= Max(T)
  <2> HIDE DEF T
  <2> QED
    BY <1>1, BoundedMax
<1>3. Latest(S) = Max(T)
  BY DEF Latest
<1>4. \A ev \in S : ev.at \in T
  BY DEF Stamps
<1>5. S = {} => T = {0}
  BY DEF Stamps
<1>6. ASSUME S # {} PROVE \E ev \in S : ev.at = Max(T)
  <2>1. CASE Max(T) = 0
    <3>1. PICK ev \in S : TRUE
      BY <1>6
    <3>2. ev.at <= 0 /\ ev.at \in Nat
      BY <1>2, <1>4, <2>1 DEF Events
    <3> QED
      BY <3>2, <2>1
  <2>2. CASE Max(T) # 0
    <3> QED
      BY <1>2, <2>2 DEF Stamps
  <2> QED
    BY <2>1, <2>2
<1> HIDE DEF T
<1> QED
  BY <1>1, <1>2, <1>3, <1>4, <1>5, <1>6

\* What loadEventsAfter selects is downward closed: a page has no gap.
LEMMA PageHasNoGap ==
    ASSUME log \subseteq Events, IsFiniteSet(log), NEW c \in Nat,
           NEW ev \in After(c), NEW d \in loadEventsAfter(c), ev.at <= d.at
    PROVE  ev \in loadEventsAfter(c)
<1> DEFINE Before(x) == {y \in After(c) : y.at < x.at}
<1>1. After(c) \subseteq log
  BY DEF After
<1>2. IsFiniteSet(Before(d)) /\ Cardinality(Before(d)) \in Nat
  <2>1. Before(d) \in SUBSET log
    BY <1>1
  <2>2. IsFiniteSet(Before(d))
    BY <2>1, FS_Subset
  <2> HIDE DEF Before
  <2> QED
    BY <2>2, FS_CardinalityType
<1>3. Before(ev) \in SUBSET Before(d)
  BY <1>1 DEF loadEventsAfter, Events
<1>4. IsFiniteSet(Before(ev)) /\ Cardinality(Before(ev)) <= Cardinality(Before(d))
  <2> HIDE DEF Before
  <2> QED
    BY <1>2, <1>3, FS_Subset
<1>5. Cardinality(Before(ev)) \in Nat
  <2> HIDE DEF Before
  <2> QED
    BY <1>4, FS_CardinalityType
<1>6. Cardinality(Before(d)) < Limit
  BY DEF loadEventsAfter
<1>7. Cardinality(Before(ev)) < Limit
  <2> HIDE DEF Before
  <2> QED
    BY <1>2, <1>4, <1>5, <1>6, SyncConfiguration
<1> QED
  BY <1>7 DEF loadEventsAfter

\* The events after a cursor that a page holds.
LEMMA PageOf ==
    ASSUME NEW c \in Nat
    PROVE  loadEventsAfter(c) \subseteq After(c) /\ After(c) \subseteq log
BY DEF loadEventsAfter, After

-----------------------------------------------------------------------------
(* Initial states                                                          *)

\* Empty tables and an empty log satisfy the invariant.
LEMMA InitInv == Init => Inv
<1> SUFFICES ASSUME Init PROVE Inv
  OBVIOUS
<1>1. Absent \in Rows /\ [status |-> "seen", version |-> 1] \in Rows
  BY DEF Absent, Rows, Statuses, Active
<1>2. Idle \in RequestType /\ Idle.stage = "idle"
  BY <1>1 DEF Idle, RequestType, Stages
<1>3. TypeInv
  BY <1>1, <1>2, FS_EmptySet DEF Init, TypeInv
<1>4. ServerInv
  BY DEF Init, ServerInv, RowInv, OpenInv, Absent
<1>5. Latest(log) \in Nat
  BY LatestOf, <1>3 DEF Init, TypeInv
<1>6. ReaderInv
  BY <1>2, <1>5 DEF Init, ReaderInv, Absent, Entities
<1>7. Complete
  BY <1>2 DEF Init, Complete, CursorIsComplete
<1> QED
  BY <1>3, <1>4, <1>6, <1>7 DEF Inv

-----------------------------------------------------------------------------
(* Commands                                                                *)

\* The latest stamp of the log, from the invariant.
LEMMA LatestLog ==
    ASSUME TypeInv, ServerInv
    PROVE  /\ Latest(log) \in Nat
           /\ \A ev \in log : ev.at <= Latest(log)
<1>1. \A ev \in log : ev.at <= clock
  BY DEF ServerInv, EventInv
<1> QED
  BY <1>1, LatestOf DEF TypeInv

\* A transaction takes a number of the log and is not committed yet.
LEMMA WriteInv ==
    ASSUME Inv, NEW e \in Entities, writeOperationalEvent(e)
    PROVE  Inv'
<1> USE DEF Inv, writeOperationalEvent
<1>1. TypeInv'
  BY DEF TypeInv
<1>2. \A ev \in log : ev.at \in Nat /\ ev.at <= clock
  BY DEF TypeInv, Events, ServerInv, EventInv
<1>3. \A x \in Entities : RowInv(x)' /\ OpenInv(x)'
  BY <1>2 DEF TypeInv, ServerInv, RowInv, OpenInv
<1>4. \A ev \in log : EventInv(ev)'
  BY <1>2 DEF TypeInv, ServerInv, EventInv
<1>5. ServerInv'
  BY <1>3, <1>4 DEF ServerInv, InOrder
<1>6. ReaderInv'
  BY DEF ReaderInv, Latest, Stamps, After
<1>7. (late = 0 => Complete)'
  BY DEF Complete, CursorIsComplete, Shows, RowsShow
<1> QED
  BY <1>1, <1>5, <1>6, <1>7

\* A transaction gives its number up: no event will ever have it.
LEMMA RollbackInv ==
    ASSUME Inv, NEW e \in Entities, rollback(e)
    PROVE  Inv'
<1> USE DEF Inv, rollback
<1>1. TypeInv'
  BY DEF TypeInv
<1>2. ServerInv'
  BY DEF TypeInv, ServerInv, RowInv, OpenInv, EventInv, InOrder
<1>3. ReaderInv'
  BY DEF ReaderInv, Latest, Stamps, After
<1>4. (late = 0 => Complete)'
  BY DEF Complete, CursorIsComplete, Shows, RowsShow
<1> QED
  BY <1>1, <1>2, <1>3, <1>4

\* The statuses a command may take a row to.
LEMMA NextStatusType ==
    ASSUME NEW e, NEW status \in NextStatus(e), rows[e].status \in Statuses
    PROVE  /\ status \in Statuses \ {"none"}
           /\ rows[e].status # "closed"
           /\ rows[e].status = "seen" => status = "seen"
BY DEF NextStatus, Statuses, Active

\* A row and its event appear together; unless a transaction was let through late, the event is the newest.
LEMMA CommitInv ==
    ASSUME Inv, NEW e \in Entities, commit(e)
    PROVE  Inv'
<1> USE DEF Inv
<1>1. PICK status \in NextStatus(e) :
         /\ rows' = [rows EXCEPT ![e] = [status |-> status, version |-> @.version + 1]]
         /\ log' = log \cup {[at |-> open[e], entity |-> e, status |-> status,
                              version |-> rows[e].version + 1]}
  BY DEF commit
<1>2. /\ open[e] # 0
      /\ open' = [open EXCEPT ![e] = 0]
      /\ UNCHANGED <<clock, request, view, cursor>>
      /\ \/ open[e] > Latest(log) /\ late' = late
         \/ late' = late + 1
  BY DEF commit
<1>3. /\ status \in Statuses \ {"none"}
      /\ rows[e].status # "closed"
      /\ rows[e].status = "seen" => status = "seen"
  BY NextStatusType DEF TypeInv, Rows
<1>3a. PICK new : new = [at |-> open[e], entity |-> e, status |-> status, version |-> rows[e].version + 1]
  OBVIOUS
<1>4. /\ new \in Events
      /\ new.at = open[e] /\ new.entity = e /\ new.status = status
      /\ new.version = rows[e].version + 1
      /\ log' = log \cup {new}
  BY <1>1, <1>3, <1>3a DEF TypeInv, Events, Rows
<1>5. /\ rows'[e].status = status /\ rows'[e].version = rows[e].version + 1
      /\ \A x \in Entities \ {e} : rows'[x] = rows[x]
      /\ rows' \in [Entities -> Rows]
  BY <1>1, <1>3 DEF TypeInv, Rows
<1>6. TypeInv'
  <2>1. IsFiniteSet(log')
    BY <1>4, FS_AddElement DEF TypeInv
  <2>2. log' \subseteq Events
    BY <1>4 DEF TypeInv
  <2>3. open' \in [Entities -> Nat] /\ late' \in Nat
    BY <1>2 DEF TypeInv
  <2> QED
    BY <2>1, <2>2, <2>3, <1>2, <1>5 DEF TypeInv
<1>7. \A ev \in log : /\ ev \in Events /\ ev.at \in Nat /\ ev.version \in Nat /\ ev.entity \in Entities
                       /\ EventInv(ev)
  BY DEF TypeInv, Events, ServerInv
<1>8. /\ \A x \in Entities : rows[x].version \in Nat
      /\ \A x \in Entities : rows'[x].version \in Nat
      /\ \A x \in Entities : rows[x].version <= rows'[x].version
      /\ \A x \in Entities : rows[x].status = "closed" => rows'[x] = rows[x]
  BY <1>3, <1>5 DEF TypeInv, Rows
<1>9. \A x \in Entities : RowInv(x)'
  BY <1>3, <1>5, <1>8 DEF ServerInv, RowInv
<1>10. \A ev \in log : ev.entity = e => ev.at < new.at /\ ev.version < new.version
  <2>1. \A ev \in log : ev.entity = e => ev.at < new.at
    BY <1>2, <1>4 DEF ServerInv, OpenInv
  <2>2. \A ev \in log : ev.entity = e => ev.version <= rows[e].version
    BY <1>7 DEF EventInv
  <2> QED
    BY <2>1, <2>2, <1>4, <1>7, <1>8
<1>11. \A x \in Entities : OpenInv(x)'
  <2> SUFFICES ASSUME NEW x \in Entities PROVE OpenInv(x)'
    OBVIOUS
  <2>1. CASE x = e
    BY <1>2, <2>1 DEF TypeInv, OpenInv
  <2>2. CASE x # e
    BY <1>2, <1>4, <2>2 DEF TypeInv, OpenInv, ServerInv
  <2> QED
    BY <2>1, <2>2
<1>12. \A ev \in log' : EventInv(ev)'
  <2>1. ASSUME NEW ev \in log PROVE EventInv(ev)'
    <3>1. EventInv(ev) /\ ev.entity \in Entities /\ ev.version \in Nat
      BY <1>7
    <3>2. rows[ev.entity].version <= rows'[ev.entity].version
      BY <1>8, <3>1
    <3>3. rows[ev.entity].version \in Nat /\ rows'[ev.entity].version \in Nat
      BY <1>8, <3>1
    <3>4. rows[ev.entity].status = "closed" => rows'[ev.entity].status = "closed"
      BY <1>8, <3>1
    <3> QED
      BY <1>2, <3>1, <3>2, <3>3, <3>4 DEF EventInv
  <2>2. EventInv(new)'
    <3>1. open[e] <= clock /\ (e \in Tables => rows[e].status = "seen")
      BY DEF ServerInv, OpenInv, RowInv
    <3>2. new.version \in Nat /\ 1 <= new.version /\ new.version <= rows'[e].version
      BY <1>4, <1>5, <1>8
    <3> QED
      BY <1>2, <1>3, <1>4, <1>5, <3>1, <3>2 DEF EventInv
  <2> QED
    BY <2>1, <2>2, <1>4
<1>13. \A ev, d \in log' : InOrder(ev, d)
  <2>1. \A ev, d \in log : InOrder(ev, d)
    BY DEF ServerInv
  <2>2. \A ev \in log : InOrder(ev, new) /\ InOrder(new, ev)
    <3>1. new.at \in Nat /\ new.version \in Nat
      BY <1>4 DEF Events
    <3> QED
      BY <3>1, <1>4, <1>7, <1>10 DEF InOrder
  <2>3. InOrder(new, new)
    BY <1>4, <1>8 DEF InOrder, Events
  <2> QED
    BY <2>1, <2>2, <2>3, <1>4
<1>14. ServerInv'
  BY <1>9, <1>11, <1>12, <1>13 DEF ServerInv, InOrder
<1>15. Latest(log) \in Nat /\ Latest(log') \in Nat /\ Latest(log) <= Latest(log')
  <2>1. Latest(log) \in Nat /\ (log # {} => \E ev \in log : ev.at = Latest(log)) /\ (log = {} => Latest(log) = 0)
    BY <1>7, LatestOf DEF EventInv, TypeInv
  <2>2. \A ev \in log' : ev.at <= clock
    BY <1>2, <1>12 DEF EventInv
  <2>3. log' \subseteq Events
    BY <1>6 DEF TypeInv
  <2>4. Latest(log') \in Nat /\ \A ev \in log' : ev.at <= Latest(log')
    BY <2>2, <2>3, LatestOf DEF TypeInv
  <2> QED
    <3>1. CASE log = {}
      BY <3>1, <2>1, <2>4
    <3>2. CASE log # {}
      <4>1. PICK ev \in log : ev.at = Latest(log)
        BY <3>2, <2>1
      <4>2. ev \in log'
        BY <1>4
      <4> QED
        BY <4>1, <4>2, <2>1, <2>4
    <3> QED
      BY <3>1, <3>2
<1>16. ReaderInv'
  <2>1. cursor' <= Latest(log)'
    BY <1>2, <1>15 DEF ReaderInv, TypeInv
  <2>2. request'.stage # "idle" => cursor' <= request'.cursor /\ request'.cursor <= Latest(log)'
    BY <1>2, <1>15 DEF ReaderInv, TypeInv, RequestType
  <2>3. \A t \in Tables : view'[t].version <= rows'[t].version
    <3>1. \A t \in Tables : t \in Entities /\ view[t].version \in Nat
      BY DEF TypeInv, Rows, Entities
    <3>2. \A t \in Tables : view[t].version <= rows[t].version
      BY DEF ReaderInv
    <3> QED
      BY <3>1, <3>2, <1>2, <1>8
  <2>4. request'.stage \in {"assists", "snapshot"} =>
          \A t \in Tables : /\ view'[t].version <= request'.rows[t].version
                            /\ request'.rows[t].version <= rows'[t].version
    <3>1. \A t \in Tables : t \in Entities /\ request.rows[t].version \in Nat
      BY DEF TypeInv, RequestType, Rows, Entities
    <3>2. request.stage \in {"assists", "snapshot"} =>
            \A t \in Tables : /\ view[t].version <= request.rows[t].version
                              /\ request.rows[t].version <= rows[t].version
      BY DEF ReaderInv
    <3> QED
      BY <3>1, <3>2, <1>2, <1>8
  <2>5. request'.stage = "events" => request'.page \subseteq After(cursor)'
    BY <1>2, <1>4 DEF ReaderInv, After
  <2> QED
    BY <2>1, <2>2, <2>3, <2>4, <2>5, <1>2 DEF ReaderInv
<1>17. (late = 0 => Complete)'
  <2> SUFFICES ASSUME late' = 0 PROVE Complete'
    OBVIOUS
  <2>1. late = 0 /\ open[e] > Latest(log)
    BY <1>2 DEF TypeInv
  <2>2. open[e] \in Nat /\ cursor \in Nat /\ request.cursor \in Nat
    BY DEF TypeInv, RequestType
  <2>3. ~(new.at <= cursor) /\ (request.stage # "idle" => ~(new.at <= request.cursor))
    BY <1>4, <1>15, <2>1, <2>2 DEF ReaderInv
  <2>4. /\ \A ev \in log : Shows(ev) => Shows(ev)'
        /\ \A ev \in log : RowsShow(ev) => RowsShow(ev)'
    <3>1. \A ev \in log : rows[ev.entity].status = "closed" => rows'[ev.entity].status = "closed"
      BY <1>7, <1>8
    <3> QED
      BY <3>1, <1>2 DEF Shows, RowsShow
  <2>5. CursorIsComplete'
    BY <1>2, <1>4, <2>1, <2>3, <2>4 DEF Complete, CursorIsComplete
  <2> QED
    BY <1>2, <1>4, <2>1, <2>3, <2>4, <2>5 DEF Complete
<1> QED
  BY <1>6, <1>14, <1>16, <1>17

-----------------------------------------------------------------------------
(* The reader                                                              *)

\* No step of the reader touches the database.
LEMMA ServerKept ==
    ASSUME ServerInv, UNCHANGED server
    PROVE  ServerInv' /\ Latest(log)' = Latest(log)
BY DEF server, ServerInv, RowInv, OpenInv, EventInv, InOrder, Latest, Stamps

\* The first statement of a snapshot: everything committed by now is at or before the cursor.
LEMMA CursorStatementInv ==
    ASSUME Inv, loadCurrentCursor
    PROVE  Inv'
<1> USE DEF Inv
<1>1. /\ request'.stage = "tables" /\ request'.cursor = Latest(log)
      /\ UNCHANGED <<server, view, cursor>>
  BY DEF loadCurrentCursor, TypeInv, RequestType
<1>2. Latest(log) \in Nat
  BY LatestLog
<1>3. request' \in RequestType
  BY <1>2 DEF loadCurrentCursor, TypeInv, RequestType, Stages
<1>4. TypeInv'
  BY <1>1, <1>3 DEF TypeInv, server
<1>5. ServerInv' /\ Latest(log)' = Latest(log)
  BY <1>1, ServerKept
<1>6. ReaderInv'
  BY <1>1, <1>2, <1>5 DEF ReaderInv, server
<1>7. (late = 0 => Complete)'
  BY <1>1 DEF Complete, CursorIsComplete, Shows, server
<1> QED
  BY <1>4, <1>5, <1>6, <1>7

\* The second statement reads the tables, no older than the cursor.
LEMMA TablesStatementInv ==
    ASSUME Inv, loadTableStates
    PROVE  Inv'
<1> USE DEF Inv
<1> DEFINE read == [e \in Entities |-> IF e \in Tables THEN rows[e] ELSE Absent]
<1>1. /\ request.stage = "tables"
      /\ request'.stage = "assists" /\ request'.cursor = request.cursor /\ request'.rows = read
      /\ UNCHANGED <<server, view, cursor>>
  BY DEF loadTableStates, TypeInv, RequestType
<1>2. read \in [Entities -> Rows]
  BY DEF TypeInv, Absent, Rows, Statuses
<1>3. request' \in RequestType
  <2> HIDE DEF read
  <2>1. request' = [request EXCEPT !.stage = "assists", !.rows = read]
    BY DEF loadTableStates, read
  <2> QED
    BY <1>2, <2>1 DEF TypeInv, RequestType, Stages
<1>4. TypeInv'
  BY <1>1, <1>3 DEF TypeInv, server
<1>5. ServerInv' /\ Latest(log)' = Latest(log)
  BY <1>1, ServerKept
<1>6. /\ \A t \in Tables : read[t] = rows[t]
      /\ \A a \in Assists : read[a] = Absent
      /\ \A t \in Tables : rows[t].version \in Nat
  BY SyncConfiguration DEF Entities, TypeInv, Rows
<1> HIDE DEF read
<1>7. ReaderInv'
  <2>1. /\ \A t \in Tables : view'[t].version <= request'.rows[t].version
        /\ \A t \in Tables : request'.rows[t].version <= rows'[t].version
    BY <1>1, <1>6 DEF ReaderInv, server
  <2> QED
    BY <1>1, <1>5, <1>6, <2>1 DEF ReaderInv, server
<1>8. (late = 0 => Complete)'
  <2>1. \A ev \in log : ev.entity \in Tables => RowsShow(ev)'
    <3> SUFFICES ASSUME NEW ev \in log, ev.entity \in Tables PROVE RowsShow(ev)'
      OBVIOUS
    <3>1. ev.version <= rows[ev.entity].version /\ ev.version \in Nat
      BY DEF ServerInv, EventInv, TypeInv, Events
    <3>2. request'.rows[ev.entity].version = rows[ev.entity].version /\ rows[ev.entity].version \in Nat
      BY <1>1, <1>6
    <3> QED
      BY <3>1, <3>2 DEF RowsShow
  <2> QED
    BY <1>1, <2>1 DEF Complete, CursorIsComplete, Shows, server
<1> QED
  BY <1>4, <1>5, <1>7, <1>8

\* The third statement reads the open assists, no older than the cursor.
LEMMA AssistsStatementInv ==
    ASSUME Inv, loadActiveAssists
    PROVE  Inv'
<1> USE DEF Inv
<1> DEFINE read == [e \in Entities |->
                      IF e \in Assists /\ rows[e].status \in Active THEN rows[e] ELSE request.rows[e]]
<1>1. /\ request.stage = "assists"
      /\ request'.stage = "snapshot" /\ request'.cursor = request.cursor /\ request'.rows = read
      /\ UNCHANGED <<server, view, cursor>>
  BY DEF loadActiveAssists, TypeInv, RequestType
<1>2. read \in [Entities -> Rows]
  BY DEF TypeInv, RequestType
<1>3. request' \in RequestType
  <2>1. request' = [request EXCEPT !.stage = "snapshot", !.rows = read]
    BY DEF loadActiveAssists, TypeInv, RequestType
  <2> HIDE DEF read
  <2> QED
    BY <1>2, <2>1 DEF TypeInv, RequestType, Stages
<1>4. TypeInv'
  BY <1>1, <1>3 DEF TypeInv, server
<1>5. ServerInv' /\ Latest(log)' = Latest(log)
  BY <1>1, ServerKept
<1>6. /\ \A t \in Tables : read[t] = request.rows[t]
      /\ \A a \in Assists : rows[a].status \in Active => read[a] = rows[a]
      /\ \A a \in Assists : rows[a].status \notin Active => read[a] = Absent
  BY <1>1, SyncConfiguration DEF Entities, ReaderInv
<1> HIDE DEF read
<1>7. ReaderInv'
  BY <1>1, <1>5, <1>6 DEF ReaderInv, server
<1>8. (late = 0 => Complete)'
  <2> SUFFICES ASSUME late = 0 PROVE Complete'
    BY <1>1 DEF server
  <2>1. ASSUME NEW ev \in log, ev.at <= request.cursor PROVE RowsShow(ev)'
    <3>1. /\ ev.entity \in Entities /\ ev.version \in Nat /\ rows[ev.entity].version \in Nat
          /\ 1 <= ev.version /\ ev.version <= rows[ev.entity].version
          /\ rows[ev.entity].status \in Statuses
      BY DEF ServerInv, EventInv, TypeInv, Events, Rows
    <3>2. CASE ev.entity \in Tables
      <4>1. request.rows[ev.entity].version >= ev.version
        BY <1>1, <2>1, <3>2, SyncConfiguration DEF Complete, RowsShow
      <4> QED
        BY <1>1, <1>6, <3>2, <4>1 DEF RowsShow
    <3>3. CASE ev.entity \in Assists /\ rows[ev.entity].status \in Active
      BY <1>1, <1>6, <3>1, <3>3 DEF RowsShow
    <3>4. CASE ev.entity \in Assists /\ rows[ev.entity].status \notin Active
      <4>1. rows[ev.entity].status # "none"
        BY <3>1 DEF ServerInv, RowInv
      <4>2. rows[ev.entity].status = "closed"
        BY <3>1, <3>4, <4>1 DEF Statuses
      <4> QED
        BY <1>1, <1>6, <3>4, <4>2 DEF RowsShow, server
    <3> QED
      BY <3>1, <3>2, <3>3, <3>4 DEF Entities
  <2> QED
    BY <1>1, <2>1 DEF Complete, CursorIsComplete, Shows, server
<1> QED
  BY <1>4, <1>5, <1>7, <1>8

\* Idle, the request after an answer or a failure.
LEMMA IdleType == Idle \in RequestType /\ Idle.stage = "idle"
<1>1. Absent \in Rows
  BY DEF Absent, Rows, Statuses
<1> QED
  BY <1>1 DEF Idle, RequestType, Stages

\* The app takes the rows and the cursor of a snapshot.
LEMMA MergeSnapshotInv ==
    ASSUME Inv, mergeSnapshot
    PROVE  Inv'
<1> USE DEF Inv
<1>1. /\ request.stage = "snapshot" /\ request'.stage = "idle" /\ request' \in RequestType
      /\ view' = request.rows /\ cursor' = request.cursor /\ UNCHANGED server
  BY IdleType DEF mergeSnapshot
<1>2. TypeInv'
  BY <1>1 DEF TypeInv, RequestType, server
<1>3. ServerInv' /\ Latest(log)' = Latest(log)
  BY <1>1, ServerKept
<1>4. ReaderInv'
  BY <1>1, <1>3 DEF ReaderInv, server
<1>5. (late = 0 => Complete)'
  <2> SUFFICES ASSUME late = 0 PROVE Complete'
    BY <1>1 DEF server
  <2>1. \A ev \in log : ev.at <= cursor' => Shows(ev)'
    BY <1>1 DEF Complete, RowsShow, Shows, server
  <2> QED
    BY <1>1, <2>1 DEF Complete, CursorIsComplete, server
<1> QED
  BY <1>2, <1>3, <1>4, <1>5

\* A request without an answer leaves the app as it was.
LEMMA RequestFailsInv ==
    ASSUME Inv, requestFails
    PROVE  Inv'
<1> USE DEF Inv
<1>1. request'.stage = "idle" /\ request' \in RequestType /\ UNCHANGED <<server, view, cursor>>
  BY IdleType DEF requestFails
<1>2. TypeInv'
  BY <1>1 DEF TypeInv, server
<1>3. ServerInv' /\ Latest(log)' = Latest(log)
  BY <1>1, ServerKept
<1>4. ReaderInv'
  BY <1>1, <1>3 DEF ReaderInv, server
<1>5. (late = 0 => Complete)'
  BY <1>1 DEF Complete, CursorIsComplete, Shows, server
<1> QED
  BY <1>2, <1>3, <1>4, <1>5

\* The page and its cursor: no later than the log, not before the reader's
\* cursor, and without a gap between the two.
LEMMA PageFacts ==
    ASSUME Inv, NEW page, page = loadEventsAfter(cursor),
           NEW next, next = IF page = {} THEN cursor ELSE Latest(page)
    PROVE  /\ page \subseteq After(cursor) /\ page \subseteq Events
           /\ next \in Nat /\ cursor <= next /\ next <= Latest(log)
           /\ \A ev \in log : ev.at > cursor /\ ev.at <= next => ev \in page
<1> USE DEF Inv
<1>1. page \subseteq After(cursor) /\ After(cursor) \subseteq log /\ page \subseteq Events
  BY PageOf DEF TypeInv
<1>2. Latest(log) \in Nat /\ \A ev \in log : ev.at <= Latest(log)
  BY LatestLog
<1>3. CASE page = {}
  BY <1>1, <1>2, <1>3 DEF TypeInv, ReaderInv, Events
<1>4. CASE page # {}
  <2>1. next = Latest(page)
    BY <1>4
  <2>2. \A ev \in page : ev.at <= clock
    BY <1>1 DEF ServerInv, EventInv
  <2>3. PICK last \in page : last.at = next
    BY <1>1, <1>4, <2>1, <2>2, LatestOf DEF TypeInv
  <2>4. next \in Nat /\ cursor <= next /\ next <= Latest(log)
    BY <1>1, <1>2, <2>3 DEF After, Events, TypeInv
  <2>5. ASSUME NEW ev \in log, ev.at > cursor, ev.at <= next PROVE ev \in page
    <3>1. ev \in After(cursor)
      BY <2>5 DEF After
    <3>2. last \in loadEventsAfter(cursor) /\ ev.at <= last.at
      BY <2>3, <2>5
    <3> QED
      BY <3>1, <3>2, PageHasNoGap DEF TypeInv
  <2> QED
    BY <1>1, <2>4, <2>5
<1> QED
  BY <1>3, <1>4

\* A page of events: all those after the cursor up to the last of the page.
LEMMA ListEventsInv ==
    ASSUME Inv, listEvents
    PROVE  Inv'
<1> USE DEF Inv
<1>1. PICK page : page = loadEventsAfter(cursor)
  OBVIOUS
<1>2. PICK next : next = IF page = {} THEN cursor ELSE Latest(page)
  OBVIOUS
<1>3. request' = [[[Idle EXCEPT !.stage = "events"] EXCEPT !.page = page] EXCEPT !.cursor = next]
  BY <1>1, <1>2 DEF listEvents, Idle
<1>4. /\ request.stage = "idle" /\ UNCHANGED <<server, view, cursor>>
  BY DEF listEvents
<1>5. /\ page \subseteq After(cursor) /\ page \subseteq Events
      /\ next \in Nat /\ cursor <= next /\ next <= Latest(log)
      /\ \A ev \in log : ev.at > cursor /\ ev.at <= next => ev \in page
  BY <1>1, <1>2, PageFacts
<1>6. /\ request' \in RequestType
      /\ request'.stage = "events" /\ request'.page = page /\ request'.cursor = next
  BY <1>3, <1>5, IdleType DEF RequestType, Stages
<1>7. TypeInv'
  BY <1>4, <1>6 DEF TypeInv, server
<1>8. ServerInv' /\ Latest(log)' = Latest(log)
  BY <1>4, ServerKept
<1>9. ReaderInv'
  BY <1>4, <1>5, <1>6, <1>8 DEF ReaderInv, After, server
<1>10. (late = 0 => Complete)'
  BY <1>4, <1>5, <1>6 DEF Complete, CursorIsComplete, Shows, server
<1> QED
  BY <1>7, <1>8, <1>9, <1>10

\* The last event of an entity in a page of the log.
LEMMA LastOfPage ==
    ASSUME Inv, NEW page, page \subseteq log, NEW e, NEW d \in page, d.entity = e
    PROVE  /\ LastOf(e, page) \in page /\ LastOf(e, page).entity = e
           /\ \A ev \in page : ev.entity = e => ev.at <= LastOf(e, page).at
<1> DEFINE of == {ev \in page : ev.entity = e}
<1>1. of \subseteq Events /\ of # {} /\ \A ev \in of : ev.at <= clock
  BY DEF Inv, TypeInv, ServerInv, EventInv
<1>2. (\E ev \in of : ev.at = Latest(of)) /\ \A ev \in of : ev.at <= Latest(of)
  <2> HIDE DEF of
  <2> QED
    BY <1>1, LatestOf DEF Inv, TypeInv
<1>3. LastOf(e, page) = CHOOSE ev \in of : ev.at = Latest(of)
  BY DEF LastOf
<1>4. LastOf(e, page) \in of /\ LastOf(e, page).at = Latest(of)
  <2> HIDE DEF of
  <2> QED
    BY <1>2, <1>3
<1> QED
  BY <1>2, <1>4

\* What applyEvents makes of a page: what it had, or the last event of the
\* page, which is newer; a closed assist is removed.
LEMMA Applied ==
    ASSUME Inv, NEW page, page \subseteq log, NEW e \in Entities
    PROVE  /\ applyEvents(e, page) \in Rows
           /\ e \in Tables => /\ applyEvents(e, page).version >= view[e].version
                              /\ applyEvents(e, page).version <= rows[e].version
           /\ \/ applyEvents(e, page).version >= view[e].version
              \/ e \in Assists /\ applyEvents(e, page) = Absent /\ rows[e].status = "closed"
           /\ applyEvents(e, page) = view[e] \/ applyEvents(e, page) = Absent
                \/ \E last \in page : last.entity = e /\ applyEvents(e, page).version = last.version
           /\ \A ev \in page : ev.entity = e =>
                \/ applyEvents(e, page).version >= ev.version
                \/ e \in Assists /\ applyEvents(e, page) = Absent /\ rows[e].status = "closed"
<1> USE DEF Inv
<1>1. view[e] \in Rows /\ view[e].version \in Nat /\ rows[e].version \in Nat
      /\ (e \in Tables => view[e].version <= rows[e].version)
  BY DEF TypeInv, Rows, ReaderInv
<1>2. CASE \A d \in page : d.entity # e
  <2>1. applyEvents(e, page) = view[e]
    BY <1>2 DEF applyEvents
  <2> QED
    BY <1>1, <1>2, <2>1
<1>3. CASE ~(\A d \in page : d.entity # e)
  <2>1. PICK last : last = LastOf(e, page)
    OBVIOUS
  <2>2. /\ last \in page /\ last.entity = e
        /\ \A ev \in page : ev.entity = e => ev.at <= last.at
    BY <1>3, <2>1, LastOfPage
  <2>3. /\ last.version \in Nat /\ last.status \in Statuses
        /\ last.version <= rows[e].version
        /\ last.status = "closed" => rows[e].status = "closed" /\ e \in Assists
    BY <2>2 DEF TypeInv, Events, ServerInv, EventInv, Entities
  <2>4. \A ev \in page : ev.entity = e => ev.version <= last.version
    BY <2>2 DEF ServerInv, InOrder
  <2>5. \A ev \in page : ev.version \in Nat
    BY DEF TypeInv, Events
  <2>6. CASE last.version <= view[e].version
    <3>1. applyEvents(e, page) = view[e]
      BY <2>1, <2>6 DEF applyEvents
    <3> QED
      BY <1>1, <2>3, <2>4, <2>5, <2>6, <3>1
  <2>7. CASE ~(last.version <= view[e].version) /\ last.status = "closed"
    <3>1. applyEvents(e, page) = Absent
      BY <1>3, <2>1, <2>7 DEF applyEvents
    <3>2. Absent \in Rows
      BY DEF Absent, Rows, Statuses
    <3>3. e \in Assists /\ e \notin Tables /\ rows[e].status = "closed"
      BY <2>3, <2>7, SyncConfiguration
    <3> QED
      BY <3>1, <3>2, <3>3
  <2>8. CASE ~(last.version <= view[e].version) /\ last.status # "closed"
    <3>1. applyEvents(e, page) = [status |-> last.status, version |-> last.version]
      BY <1>3, <2>1, <2>8 DEF applyEvents
    <3>2. applyEvents(e, page) \in Rows /\ applyEvents(e, page).version = last.version
      BY <2>3, <3>1 DEF Rows
    <3> QED
      BY <1>1, <2>2, <2>3, <2>4, <2>5, <2>8, <3>2
  <2> QED
    BY <2>6, <2>7, <2>8
<1> QED
  BY <1>2, <1>3

\* The app applies a page, and moves its cursor to the end of it.
LEMMA MergeEventsInv ==
    ASSUME Inv, mergeSyncEvents
    PROVE  Inv'
<1> USE DEF Inv
<1>1. /\ request.stage = "events" /\ request'.stage = "idle" /\ request' \in RequestType
      /\ cursor' = request.cursor /\ UNCHANGED server
  BY IdleType DEF mergeSyncEvents
<1>2. PICK page : page = request.page
  OBVIOUS
<1>3. page \subseteq After(cursor) /\ page \subseteq log
  BY <1>1, <1>2 DEF ReaderInv, After
<1>4. view' = [e \in Entities |-> applyEvents(e, page)]
  BY <1>2 DEF mergeSyncEvents
<1>5. TypeInv'
  <2>1. \A e \in Entities : applyEvents(e, page) \in Rows
    BY <1>3, Applied
  <2>2. view' \in [Entities -> Rows]
    BY <2>1, <1>4
  <2> QED
    BY <1>1, <2>2 DEF TypeInv, RequestType, server
<1>6. ServerInv' /\ Latest(log)' = Latest(log)
  BY <1>1, ServerKept
<1>7. ReaderInv'
  <2>1. \A t \in Tables : view'[t].version <= rows[t].version
    BY <1>3, <1>4, Applied DEF Entities
  <2> QED
    BY <1>1, <1>6, <2>1 DEF ReaderInv, server
<1>8. (late = 0 => Complete)'
  <2> SUFFICES ASSUME late = 0 PROVE Complete'
    BY <1>1 DEF server
  <2>1. ASSUME NEW ev \in log, ev.at <= request.cursor PROVE Shows(ev)'
    <3>1. PICK e \in Entities : e = ev.entity
      BY DEF TypeInv, Events
    <3>2. PICK now : now = applyEvents(e, page)
      OBVIOUS
    <3>3. /\ view'[e] = now /\ now.version \in Nat /\ view[e].version \in Nat
          /\ ev.version \in Nat /\ ev.at \in Nat /\ cursor \in Nat
      BY <1>3, <1>4, <3>2, Applied DEF TypeInv, Rows, Events
    <3>4. CASE ev.at > cursor
      <4>1. ev \in page
        BY <1>1, <1>2, <2>1, <3>4 DEF Complete
      <4>2. \/ now.version >= ev.version
            \/ e \in Assists /\ now = Absent /\ rows[e].status = "closed"
        BY <1>3, <3>1, <3>2, <4>1, Applied
      <4> QED
        BY <1>1, <3>1, <3>3, <4>2 DEF Shows, server
    <3>5. CASE ev.at <= cursor
      <4>1. \/ view[e].version >= ev.version
            \/ e \in Assists /\ view[e] = Absent /\ rows[e].status = "closed"
        BY <3>1, <3>5 DEF Complete, CursorIsComplete, Shows
      <4>2. CASE view[e].version >= ev.version
        <5>1. \/ now.version >= view[e].version
              \/ e \in Assists /\ now = Absent /\ rows[e].status = "closed"
          BY <1>3, <3>2, Applied
        <5> QED
          BY <1>1, <3>1, <3>3, <4>2, <5>1 DEF Shows, server
      <4>3. CASE e \in Assists /\ view[e] = Absent /\ rows[e].status = "closed"
        <5>1. \/ now = Absent
              \/ \E last \in page : last.entity = e /\ now.version = last.version
          BY <1>3, <3>2, <4>3, Applied
        <5>2. CASE now = Absent
          BY <1>1, <3>1, <3>3, <4>3, <5>2 DEF Shows, server
        <5>3. CASE \E last \in page : last.entity = e /\ now.version = last.version
          <6>1. PICK last \in page : last.entity = e /\ now.version = last.version
            BY <5>3
          <6>2. last \in log /\ last.at > cursor /\ last.at \in Nat
            BY <1>3 DEF After, TypeInv, Events
          <6>3. ev.at <= last.at
            BY <3>3, <3>5, <6>2
          <6>4. ev.version <= last.version
            BY <3>1, <6>1, <6>2, <6>3 DEF ServerInv, InOrder
          <6> QED
            BY <1>1, <3>1, <3>3, <6>1, <6>4 DEF Shows, server
        <5> QED
          BY <5>1, <5>2, <5>3
      <4> QED
        BY <4>1, <4>2, <4>3
    <3> QED
      BY <3>3, <3>4, <3>5
  <2> QED
    BY <1>1, <2>1 DEF Complete, CursorIsComplete, server
<1> QED
  BY <1>5, <1>6, <1>7, <1>8

-----------------------------------------------------------------------------
(* Theorems                                                                *)

\* Every step keeps the invariant.
LEMMA NextInv == Inv /\ [Next]_vars => Inv'
<1> SUFFICES ASSUME Inv, [Next]_vars PROVE Inv'
  OBVIOUS
<1>1. ASSUME NEW e \in Entities, writeOperationalEvent(e) \/ commit(e) \/ rollback(e) PROVE Inv'
  BY <1>1, WriteInv, CommitInv, RollbackInv
<1>2. CASE getLocationSnapshot
  BY <1>2, CursorStatementInv, TablesStatementInv, AssistsStatementInv, MergeSnapshotInv DEF getLocationSnapshot
<1>3. CASE listEvents
  BY <1>3, ListEventsInv
<1>4. CASE mergeSyncEvents
  BY <1>4, MergeEventsInv
<1>5. CASE requestFails
  BY <1>5, RequestFailsInv
<1>6. CASE UNCHANGED vars
  BY <1>6 DEF vars, server, Inv, TypeInv, ServerInv, RowInv, OpenInv, EventInv, InOrder, ReaderInv,
              Latest, Stamps, After, Complete, CursorIsComplete, Shows, RowsShow
<1> QED
  BY <1>1, <1>2, <1>3, <1>4, <1>5, <1>6 DEF Next

\* The invariant holds in every reachable state.
THEOREM Invariance == Spec => []Inv
BY InitInv, NextInv, PTL DEF Spec

\* CursorIsComplete: as long as no event has committed behind one that was
\* stamped later, whatever the events up to the reader's cursor say is in what
\* the reader shows, for every page limit and number of rows.
THEOREM CursorComplete == Spec => [](late = 0 => CursorIsComplete)
<1>1. Inv => (late = 0 => CursorIsComplete)
  BY DEF Inv, Complete
<1> QED
  BY <1>1, Invariance, PTL

\* CursorNeverGoesBack: neither a snapshot nor a page moves the cursor back,
\* late commits or not.
THEOREM CursorAdvances == Spec => CursorNeverGoesBack
<1>1. Inv /\ [Next]_vars => [cursor' >= cursor]_vars
  <2> SUFFICES ASSUME Inv, Next PROVE cursor' >= cursor
    OBVIOUS
  <2>1. cursor \in Nat /\ request.cursor \in Nat /\ (request.stage # "idle" => cursor <= request.cursor)
    BY DEF Inv, TypeInv, RequestType, ReaderInv
  <2>2. CASE mergeSnapshot \/ mergeSyncEvents
    BY <2>1, <2>2 DEF mergeSnapshot, mergeSyncEvents
  <2>3. CASE ~(mergeSnapshot \/ mergeSyncEvents)
    <3>1. cursor' = cursor
      BY <2>3 DEF Next, writeOperationalEvent, commit, rollback, getLocationSnapshot, loadCurrentCursor,
                  loadTableStates, loadActiveAssists, listEvents, requestFails
    <3> QED
      BY <2>1, <3>1
  <2> QED
    BY <2>2, <2>3
<1> QED
  BY <1>1, Invariance, PTL DEF Spec, CursorNeverGoesBack

\* TablesNeverGoBack: no snapshot and no page shows an older state of a table
\* than the reader had, late commits or not.
THEOREM TablesAdvance == Spec => TablesNeverGoBack
<1>1. Inv /\ [Next]_vars => [\A t \in Tables : view'[t].version >= view[t].version]_vars
  <2> SUFFICES ASSUME Inv, Next, NEW t \in Tables PROVE view'[t].version >= view[t].version
    OBVIOUS
  <2>1. t \in Entities /\ view[t].version \in Nat /\ request.rows[t].version \in Nat
    BY DEF Entities, Inv, TypeInv, RequestType, Rows
  <2>2. CASE mergeSnapshot
    BY <2>1, <2>2 DEF mergeSnapshot, Inv, ReaderInv
  <2>3. CASE mergeSyncEvents
    <3>1. request.page \subseteq log
      BY <2>3 DEF mergeSyncEvents, Inv, ReaderInv, After
    <3>2. PICK page : page = request.page
      OBVIOUS
    <3>3. view'[t] = applyEvents(t, page)
      BY <2>1, <2>3, <3>2 DEF mergeSyncEvents
    <3> QED
      BY <2>1, <3>1, <3>2, <3>3, Applied
  <2>4. CASE ~(mergeSnapshot \/ mergeSyncEvents)
    <3>1. view' = view
      BY <2>4 DEF Next, writeOperationalEvent, commit, rollback, getLocationSnapshot, loadCurrentCursor,
                  loadTableStates, loadActiveAssists, listEvents, requestFails
    <3> QED
      BY <2>1, <3>1
  <2> QED
    BY <2>2, <2>3, <2>4
<1> QED
  BY <1>1, Invariance, PTL DEF Spec, TablesNeverGoBack
=============================================================================
