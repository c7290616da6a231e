-------------------------- MODULE Operations_proofs -------------------------
(***************************************************************************)
(* Proofs about Operations for any number of tables, clients, sessions,    *)
(* assists and command ids.                                                *)
(*                                                                         *)
(* The properties are not inductive: what a transaction is about to commit *)
(* was computed from rows it read some steps earlier.  The strengthening   *)
(* says that those rows are still what they were (ClientInv), because no   *)
(* other transaction can hold their locks or identifiers (Exclusive).      *)
(***************************************************************************)
EXTENDS Operations, TLAPS

\* What is known of a transaction by how far it is.
RequestInv(p) ==
    /\ pc[p] = "idle" => req[p] = None
    /\ pc[p] # "idle" =>
         /\ req[p] \in Request
         /\ req[p].kind \in TableCommands => req[p].table \in Tables
         /\ req[p].kind \in AssistCommands \cup {"guest.cancel"} => req[p].assist \in Assists
         /\ req[p].kind = "guest.request" => req[p].action \in Actions
    /\ pc[p] \in {"pending", "create"} => req[p].kind = "guest.request"
    /\ pc[p] = "update" => req[p].kind = "guest.cancel"
    /\ pc[p] # "commit" => work[p] = NoWork

\* The party the guest request was admitted for is still seated, and has no
\* pending request once none was found.
GuestInv(p) ==
    /\ pc[p] \in {"pending", "create"} => occupancy[req[p].table].status = "occupied"
    /\ pc[p] = "create" =>
         PendingGuest(assists, req[p].table, occupancy[req[p].table].session, req[p].action) = {}

\* The rows about to be committed follow from the rows as they are now.
OccupyInv(p) ==
    pc[p] = "commit" /\ req[p].kind = "table.occupy" =>
        /\ work[p].session \in Sessions
        /\ sessions[work[p].session].state = "unused"
        /\ occupancy[req[p].table].status = "available"
        /\ occupancy[req[p].table].version = req[p].version
        /\ work[p] = TableWork(work[p].session, Occupied(occupancy[req[p].table], work[p].session))
ClearInv(p) ==
    pc[p] = "commit" /\ req[p].kind = "table.clear" =>
        /\ occupancy[req[p].table].status = "occupied"
        /\ occupancy[req[p].table].version = req[p].version
        /\ work[p] = TableWork(occupancy[req[p].table].session, Cleared(occupancy[req[p].table]))

Writes(p, row, op) ==
    /\ work[p].assist \in Assists
    /\ work[p] = AssistWork(work[p].assist, row, op)

StaffAssistInv(p) ==
    pc[p] = "commit" /\ req[p].kind = "assist.request" =>
        /\ Writes(p, NewAssist(req[p].table, occupancy[req[p].table].session, "staff", None), "insert")
        /\ assists[work[p].assist].status = "unused"
ChangeInv(p) ==
    pc[p] = "commit" /\ req[p].kind \in AssistCommands \cup {"guest.cancel"} =>
        /\ Writes(p, Changed(assists[req[p].assist], NextStatus(req[p].kind)), "update")
        /\ work[p].assist = req[p].assist
        /\ validAssistTransition(assists[req[p].assist].status, NextStatus(req[p].kind))
GuestCommitInv(p) ==
    pc[p] = "commit" /\ req[p].kind = "guest.request" =>
        \/ /\ occupancy[req[p].table].status = "occupied"
           /\ PendingGuest(assists, req[p].table, occupancy[req[p].table].session, req[p].action) = {}
           /\ Writes(p, NewAssist(req[p].table, occupancy[req[p].table].session,
                                      "guest_qr", req[p].action), "insert")
           /\ assists[work[p].assist].status = "unused"
        \/ /\ Writes(p, assists[work[p].assist], "none")
           /\ assists[work[p].assist].status = "pending"

ClientInv(p) ==
    /\ RequestInv(p) /\ GuestInv(p) /\ OccupyInv(p) /\ ClearInv(p)
    /\ StaffAssistInv(p) /\ ChangeInv(p) /\ GuestCommitInv(p)

\* No two transactions hold the same row or the same new identifier.
Exclusive(p, q) ==
    /\ \A t \in Tables : ~(HoldsOccupancy(p, t) /\ HoldsOccupancy(q, t))
    /\ work[p].assist # None => work[p].assist # work[q].assist
    /\ work[p].session # None => work[p].session # work[q].session

\* The occupancy and session rows point at each other.
SessionInv ==
    /\ \A t \in Tables :
         /\ occupancy[t].status = "occupied" =>
              /\ occupancy[t].session \in Sessions
              /\ sessions[occupancy[t].session].table = t
              /\ sessions[occupancy[t].session].state = "active"
         /\ occupancy[t].status = "available" => occupancy[t].session = None
         /\ occupancy[t].version >= 1
    /\ \A s \in Sessions :
         sessions[s].state = "active" =>
              /\ sessions[s].table \in Tables
              /\ occupancy[sessions[s].table].status = "occupied"
              /\ occupancy[sessions[s].table].session = s

\* An assist row exists at version 1 or later, at a table.
AssistInv ==
    \A a \in Assists :
        /\ assists[a].status = "unused" => assists[a] = UnusedAssist
        /\ assists[a].status # "unused" => assists[a].table \in Tables /\ assists[a].version >= 1

Inv ==
    /\ TypeOK
    /\ SessionInv
    /\ AssistInv
    /\ OnePendingPerAction
    /\ GuestAssistHasSession
    /\ \A p \in Clients : ClientInv(p)
    /\ \A p, q \in Clients : p # q => Exclusive(p, q)

LogInv == EventPerVersion /\ AppliedOnce /\ AnswersAgree

-----------------------------------------------------------------------------
\* Initially no row exists and no transaction runs.
LEMMA InitInv == Init => Inv
  <1> SUFFICES ASSUME Init PROVE Inv
    OBVIOUS
  <1> USE IdentifiersDistinct, NoneIsNoCommand DEF Init
  <1>1. TypeOK
    BY DEF TypeOK, NewOccupancy, UnusedSession, UnusedAssist, NoWork, OccupancyRow, SessionRow,
           AssistRow, Work, Event, PC
  <1>2. SessionInv
    BY DEF SessionInv, NewOccupancy, UnusedSession
  <1>3. AssistInv /\ OnePendingPerAction /\ GuestAssistHasSession
    BY DEF AssistInv, OnePendingPerAction, GuestAssistHasSession, UnusedAssist
  <1>4. ASSUME NEW p \in Clients PROVE ClientInv(p)
    BY DEF ClientInv, RequestInv, GuestInv, OccupyInv, ClearInv, StaffAssistInv, ChangeInv, GuestCommitInv
  <1>5. ASSUME NEW p \in Clients, NEW q \in Clients PROVE Exclusive(p, q)
    BY DEF Exclusive, HoldsOccupancy, NoWork
  <1> QED BY <1>1, <1>2, <1>3, <1>4, <1>5 DEF Inv

\* A step that leaves the rows and a client's transaction alone keeps what is
\* known of the client.
LEMMA ClientInvKept ==
    ASSUME NEW q \in Clients, ClientInv(q), UNCHANGED rows,
           pc'[q] = pc[q], req'[q] = req[q], work'[q] = work[q]
    PROVE  ClientInv(q)'
  BY DEF ClientInv, RequestInv, GuestInv, OccupyInv, ClearInv, StaffAssistInv, ChangeInv,
         GuestCommitInv, Writes, AssistWork, rows

\* The step of a transaction that commits nothing.
LEMMA LocalStep ==
    ASSUME Inv, TypeOK', UNCHANGED rows, NEW p \in Clients,
           \A q \in Clients \ {p} : pc'[q] = pc[q] /\ req'[q] = req[q] /\ work'[q] = work[q],
           ClientInv(p)',
           \A q \in Clients \ {p} : Exclusive(p, q)' /\ Exclusive(q, p)'
    PROVE  Inv'
  <1>1. SessionInv' /\ AssistInv' /\ OnePendingPerAction' /\ GuestAssistHasSession'
    BY DEF Inv, SessionInv, AssistInv, OnePendingPerAction, GuestAssistHasSession, rows
  <1>2. ASSUME NEW q \in Clients PROVE ClientInv(q)'
    BY ClientInvKept DEF Inv
  <1>3. ASSUME NEW q \in Clients, NEW r \in Clients, q # r PROVE Exclusive(q, r)'
    <2>1. CASE q # p /\ r # p
      BY <1>3, <2>1 DEF Inv, Exclusive, HoldsOccupancy
    <2> QED BY <1>3, <2>1
  <1> QED BY <1>1, <1>2, <1>3 DEF Inv

\* A transaction that ends without a commit gives its locks back.
LEMMA RejectInv ==
    ASSUME Inv, NEW p \in Clients, Finish(p), UNCHANGED rows, TypeOK'
    PROVE  Inv'
  <1>1. pc'[p] = "idle" /\ req'[p] = None /\ work'[p] = NoWork
    BY DEF Inv, TypeOK, Finish
  <1>2. ClientInv(p)'
    BY <1>1 DEF ClientInv, RequestInv, GuestInv, OccupyInv, ClearInv, StaffAssistInv, ChangeInv, GuestCommitInv
  <1>3. ASSUME NEW q \in Clients \ {p} PROVE Exclusive(p, q)' /\ Exclusive(q, p)'
    BY <1>1, <1>3 DEF Exclusive, HoldsOccupancy, NoWork
  <1> QED BY <1>2, <1>3, LocalStep DEF Finish, Inv, TypeOK

-----------------------------------------------------------------------------
(* One lemma per group of actions                                          *)

\* A request that arrives holds nothing.
LEMMA ArriveInv ==
    ASSUME Inv, NEW p \in Clients, NEW r \in Request, Arrive(p, r),
           r.kind \in TableCommands => r.table \in Tables,
           r.kind \in AssistCommands \cup {"guest.cancel"} => r.assist \in Assists,
           r.kind = "guest.request" => r.action \in Actions
    PROVE  Inv'
  <1>1. TypeOK'
    BY DEF Inv, TypeOK, Arrive, rows, log, PC
  <1>2. pc'[p] = "begin" /\ req'[p] = r /\ work'[p] = NoWork
    BY DEF Inv, TypeOK, Arrive, ClientInv, RequestInv
  <1>3. ClientInv(p)'
    BY <1>2 DEF ClientInv, RequestInv, GuestInv, OccupyInv, ClearInv, StaffAssistInv, ChangeInv, GuestCommitInv
  <1>4. ASSUME NEW q \in Clients \ {p} PROVE Exclusive(p, q)' /\ Exclusive(q, p)'
    BY <1>2, <1>4 DEF Exclusive, HoldsOccupancy, NoWork
  <1> QED BY <1>1, <1>3, <1>4, LocalStep DEF Arrive, Inv, TypeOK

LEMMA SendInv ==
    ASSUME Inv, NEW p \in Clients, Send(p)
    PROVE  Inv'
  <1> USE IdentifiersDistinct DEF Request, Kinds, TableCommands, AssistCommands, CommandIds
  <1>1. CASE SendTableCommand(p)
    BY <1>1, ArriveInv DEF SendTableCommand, Seen
  <1>2. CASE SendRequestAssist(p)
    BY <1>2, ArriveInv DEF SendRequestAssist
  <1>3. CASE SendAssistCommand(p)
    BY <1>3, ArriveInv DEF SendAssistCommand, Seen
  <1>4. CASE SendGuestRequest(p)
    BY <1>4, ArriveInv DEF SendGuestRequest
  <1>5. CASE SendGuestCancel(p)
    BY <1>5, ArriveInv DEF SendGuestCancel
  <1> QED BY <1>1, <1>2, <1>3, <1>4, <1>5 DEF Send

\* Rejecting a command, or failing anywhere, commits nothing.
LEMMA RejectKeepsInv ==
    ASSUME Inv, NEW p \in Clients, Reject(p)
    PROVE  Inv'
  <1>1. TypeOK'
    BY IdentifiersDistinct DEF Inv, TypeOK, Reject, Finish, rows, log, PC, NoWork, Work
  <1> QED BY <1>1, RejectInv DEF Reject

LEMMA ReplayInv ==
    ASSUME Inv, NEW p \in Clients, getIdempotencyReplay(p)
    PROVE  Inv'
  <1>1. CASE Goto(p, "execute")
    <2>1. TypeOK'
      BY <1>1 DEF Inv, TypeOK, Goto, rows, log, PC
    <2>2. pc[p] = "begin" /\ pc'[p] = "execute" /\ req'[p] = req[p] /\ work'[p] = NoWork
      BY <1>1 DEF getIdempotencyReplay, Inv, TypeOK, Goto, ClientInv, RequestInv
    <2>3. ClientInv(p)'
      BY <1>1, <2>2 DEF Inv, ClientInv, RequestInv, GuestInv, OccupyInv, ClearInv, StaffAssistInv,
                        ChangeInv, GuestCommitInv
    <2>4. ASSUME NEW q \in Clients \ {p} PROVE Exclusive(p, q)' /\ Exclusive(q, p)'
      BY <2>2, <2>4 DEF Exclusive, HoldsOccupancy, NoWork
    <2> QED BY <1>1, <2>1, <2>3, <2>4, LocalStep DEF Goto, Inv, TypeOK
  <1>2. CASE Finish(p) /\ UNCHANGED <<rows, cooling, idem, events>> /\ replies' \subseteq replies \cup idem
    <2>1. TypeOK'
      BY <1>2, IdentifiersDistinct DEF Inv, TypeOK, Finish, rows, PC, NoWork, Work
    <2> QED BY <1>2, <2>1, RejectInv
  <1> QED BY <1>1, <1>2 DEF getIdempotencyReplay

\* A transaction that writes: it has the locks it needs, and the identifiers
\* it uses are nobody else's.
LEMMA WriteInv ==
    ASSUME Inv, NEW p \in Clients, NEW w \in Work, Write(p, w), ClientInv(p)',
           req[p].kind \in TableCommands => OccupancyFree(p, req[p].table),
           \A q \in Clients \ {p} : w.assist # None => work[q].assist # w.assist,
           \A q \in Clients \ {p} : w.session # None => work[q].session # w.session
    PROVE  Inv'
  <1>1. TypeOK'
    BY DEF Inv, TypeOK, Write, rows, log, PC
  <1>2. pc'[p] = "commit" /\ req'[p] = req[p] /\ work'[p] = w
    BY DEF Inv, TypeOK, Write
  <1>3. ASSUME NEW q \in Clients \ {p} PROVE Exclusive(p, q)' /\ Exclusive(q, p)'
    <2>1. pc'[q] = pc[q] /\ req'[q] = req[q] /\ work'[q] = work[q]
      BY <1>3 DEF Inv, TypeOK, Write
    <2>2. ASSUME NEW t \in Tables PROVE ~(HoldsOccupancy(p, t)' /\ HoldsOccupancy(q, t)')
      BY <1>2, <1>3, <2>1 DEF HoldsOccupancy, OccupancyFree
    <2> QED BY <1>2, <1>3, <2>1, <2>2 DEF Exclusive
  <1> QED BY <1>1, <1>3, LocalStep DEF Write, Inv, TypeOK

\* Nobody else's work names an assist whose row lock is free.
LEMMA FreeAssist ==
    ASSUME Inv, NEW p \in Clients, NEW a \in Assists, AssistFree(p, a)
    PROVE  \A q \in Clients \ {p} : work[q].assist # a
  BY IdentifiersDistinct DEF Inv, ClientInv, RequestInv, AssistFree, HoldsAssist, NoWork

\* The fields of what a transaction writes.
LEMMA TableWorkFields ==
    ASSUME NEW s, NEW o
    PROVE  TableWork(s, o).session = s /\ TableWork(s, o).occ = o /\ TableWork(s, o).assist = None
  BY DEF TableWork

LEMMA AssistWorkFields ==
    ASSUME NEW a, NEW row, NEW op
    PROVE  /\ AssistWork(a, row, op).assist = a /\ AssistWork(a, row, op).row = row
           /\ AssistWork(a, row, op).op = op /\ AssistWork(a, row, op).session = None
  BY DEF AssistWork

\* A transaction on an assist writes no session, and one on a table no assist.
LEMMA WhatIsWritten ==
    ASSUME Inv, NEW q \in Clients, pc[q] = "commit"
    PROVE  /\ req[q] \in Request
           /\ req[q].kind \in {"table.occupy", "table.clear"} => work[q].assist = None
           /\ req[q].kind \notin {"table.occupy", "table.clear"} =>
                work[q].session = None /\ work[q].assist \in Assists
  <1>1. ClientInv(q)
    BY DEF Inv
  <1> USE TableWorkFields, AssistWorkFields DEF ClientInv
  <1>2. req[q] \in Request
    BY <1>1 DEF RequestInv
  <1>3. CASE req[q].kind = "table.occupy"
    BY <1>1, <1>2, <1>3 DEF OccupyInv
  <1>4. CASE req[q].kind = "table.clear"
    BY <1>1, <1>2, <1>4 DEF ClearInv
  <1>5. CASE req[q].kind = "assist.request"
    BY <1>1, <1>2, <1>5 DEF StaffAssistInv, Writes
  <1>6. CASE req[q].kind \in AssistCommands \cup {"guest.cancel"}
    BY <1>1, <1>2, <1>6 DEF ChangeInv, Writes, AssistCommands
  <1>7. CASE req[q].kind = "guest.request"
    BY <1>1, <1>2, <1>7 DEF GuestCommitInv, Writes
  <1> QED BY <1>2, <1>3, <1>4, <1>5, <1>6, <1>7 DEF Request, Kinds, TableCommands, AssistCommands

LEMMA OccupyStep ==
    ASSUME Inv, NEW p \in Clients, occupyTableInTx(p)
    PROVE  Inv'
  <1> DEFINE t == req[p].table
  <1>1. CASE Reject(p)
    BY <1>1, RejectKeepsInv
  <1>2. ASSUME NEW s \in Sessions, occupancy[t].status = "available", occupancy[t].version = req[p].version,
               FreshSession(s), Write(p, TableWork(s, Occupied(occupancy[t], s)))
        PROVE  Inv'
    <2> DEFINE w == TableWork(s, Occupied(occupancy[t], s))
    <2>1. Write(p, w)
      BY <1>2
    <2>2. pc[p] = "execute" /\ req[p].kind = "table.occupy" /\ t \in Tables /\ OccupancyFree(p, t)
      BY DEF occupyTableInTx, Inv, ClientInv, RequestInv, TableCommands
    <2>3. w \in Work
      BY <2>2 DEF Work, TableWork, Occupied, OccupancyRow, Inv, TypeOK
    <2>4. pc'[p] = "commit" /\ req'[p] = req[p] /\ work'[p] = w /\ UNCHANGED rows
      BY <2>1 DEF Write, Inv, TypeOK
    <2>5. ClientInv(p)'
      <3>1. RequestInv(p)' /\ GuestInv(p)'
        BY <2>2, <2>4 DEF Inv, ClientInv, RequestInv, GuestInv
      <3>2. OccupyInv(p)'
        BY <1>2, <2>2, <2>4 DEF OccupyInv, FreshSession, TableWork, rows
      <3> QED BY <2>2, <2>4, <3>1, <3>2
              DEF ClientInv, ClearInv, StaffAssistInv, ChangeInv, GuestCommitInv, AssistCommands
    <2>6. w.assist = None /\ w.session = s /\ \A q \in Clients : work[q].session # s
      BY <1>2 DEF FreshSession, TableWork
    <2> HIDE DEF w
    <2> QED BY <2>1, <2>2, <2>3, <2>5, <2>6, WriteInv DEF TableCommands
  <1> QED BY <1>1, <1>2 DEF occupyTableInTx

LEMMA ClearStep ==
    ASSUME Inv, NEW p \in Clients, clearTableInTx(p)
    PROVE  Inv'
  <1> DEFINE t == req[p].table
             w == TableWork(occupancy[t].session, Cleared(occupancy[t]))
  <1>1. CASE Reject(p)
    BY <1>1, RejectKeepsInv
  <1>2. ASSUME occupancy[t].status = "occupied", occupancy[t].version = req[p].version, Write(p, w)
        PROVE  Inv'
    <2>1. pc[p] = "execute" /\ req[p].kind = "table.clear" /\ t \in Tables /\ OccupancyFree(p, t)
      BY DEF clearTableInTx, Inv, ClientInv, RequestInv, TableCommands
    <2>2. w \in Work
      BY <2>1 DEF Work, TableWork, Cleared, OccupancyRow, Inv, TypeOK
    <2>3. pc'[p] = "commit" /\ req'[p] = req[p] /\ work'[p] = w /\ UNCHANGED rows
      BY <1>2 DEF Write, Inv, TypeOK
    <2>4. ClientInv(p)'
      <3>1. RequestInv(p)' /\ GuestInv(p)'
        BY <2>1, <2>3 DEF Inv, ClientInv, RequestInv, GuestInv
      <3>2. ClearInv(p)'
        BY <1>2, <2>1, <2>3 DEF ClearInv, rows
      <3> QED BY <2>1, <2>3, <3>1, <3>2
              DEF ClientInv, OccupyInv, StaffAssistInv, ChangeInv, GuestCommitInv, AssistCommands
    <2>5. ASSUME NEW q \in Clients \ {p} PROVE work[q].session # occupancy[t].session
      <3>1. /\ occupancy[t].session \in Sessions /\ sessions[occupancy[t].session].table = t
            /\ sessions[occupancy[t].session].state = "active"
        BY <1>2, <2>1 DEF Inv, SessionInv
      <3>2. CASE pc[q] # "commit"
        BY <3>1, <3>2, IdentifiersDistinct DEF Inv, ClientInv, RequestInv, NoWork
      <3>3. CASE pc[q] = "commit" /\ req[q].kind = "table.occupy"
        BY <3>1, <3>3 DEF Inv, ClientInv, OccupyInv
      <3>4. CASE pc[q] = "commit" /\ req[q].kind = "table.clear"
        <4>1. req[q].table \in Tables /\ req[q].table # t
          BY <2>1, <3>4 DEF Inv, ClientInv, RequestInv, OccupancyFree, HoldsOccupancy, TableCommands
        <4>2. work[q].session = occupancy[req[q].table].session /\ occupancy[req[q].table].status = "occupied"
          BY <3>4, TableWorkFields DEF Inv, ClientInv, ClearInv
        <4>3. sessions[occupancy[req[q].table].session].table = req[q].table
          BY <4>1, <4>2 DEF Inv, SessionInv
        <4> QED BY <3>1, <4>1, <4>2, <4>3
      <3>5. CASE pc[q] = "commit" /\ req[q].kind \notin {"table.occupy", "table.clear"}
        BY <3>1, <3>5, WhatIsWritten, IdentifiersDistinct
      <3> QED BY <3>2, <3>3, <3>4, <3>5
    <2>6. w.assist = None /\ w.session = occupancy[t].session
      BY DEF TableWork
    <2> HIDE DEF w
    <2> QED BY <1>2, <2>1, <2>2, <2>4, <2>5, <2>6, WriteInv DEF TableCommands
  <1> QED BY <1>1, <1>2 DEF clearTableInTx

-----------------------------------------------------------------------------
\* Who holds a table's row lock is its only holder.
LEMMA HolderIsAlone ==
    ASSUME Inv, NEW p \in Clients, NEW t \in Tables, HoldsOccupancy(p, t)
    PROVE  OccupancyFree(p, t)
  BY DEF Inv, Exclusive, OccupancyFree

\* A statement that only reads moves its transaction on.
LEMMA GotoInv ==
    ASSUME Inv, NEW p \in Clients, NEW label \in PC \ {"commit", "idle"}, Goto(p, label),
           pc[p] # "commit", ClientInv(p)',
           label \in {"pending", "create"} => OccupancyFree(p, req[p].table)
    PROVE  Inv'
  <1>1. TypeOK'
    BY DEF Inv, TypeOK, Goto, rows, log
  <1>2. pc'[p] = label /\ req'[p] = req[p] /\ work'[p] = NoWork
    BY DEF Inv, TypeOK, Goto, ClientInv, RequestInv
  <1>3. ASSUME NEW q \in Clients \ {p} PROVE Exclusive(p, q)' /\ Exclusive(q, p)'
    <2>1. pc'[q] = pc[q] /\ req'[q] = req[q] /\ work'[q] = work[q]
      BY <1>3 DEF Inv, TypeOK, Goto
    <2>2. ASSUME NEW t \in Tables PROVE ~(HoldsOccupancy(p, t)' /\ HoldsOccupancy(q, t)')
      BY <1>2, <1>3, <2>1 DEF HoldsOccupancy, OccupancyFree
    <2> QED BY <1>2, <1>3, <2>1, <2>2 DEF Exclusive, NoWork
  <1> QED BY <1>1, <1>3, LocalStep DEF Goto, Inv, TypeOK

LEMMA NewAssistType ==
    ASSUME NEW t \in Tables, NEW s \in Sessions \cup {None}, NEW source \in {"staff", "guest_qr"},
           NEW action \in Actions \cup {None}
    PROVE  NewAssist(t, s, source, action) \in AssistRow
  BY DEF NewAssist, AssistRow

LEMMA ChangedType ==
    ASSUME NEW row \in AssistRow, NEW next \in {"acknowledged", "resolved", "cancelled"}
    PROVE  /\ Changed(row, next) \in AssistRow
           /\ Changed(row, next).version = row.version + 1
           /\ Changed(row, next).status = next
           /\ Changed(row, next).source = row.source
           /\ Changed(row, next).table = row.table
           /\ Changed(row, next).session = row.session
           /\ Changed(row, next).action = row.action
  <1> USE DEF Changed, AssistRow
  <1>1. row.version + 1 \in Nat
    OBVIOUS
  <1>2. /\ Changed(row, next).version = row.version + 1
        /\ Changed(row, next).status = next
    OBVIOUS
  <1>3. /\ Changed(row, next).source = row.source
        /\ Changed(row, next).table = row.table
        /\ Changed(row, next).session = row.session
        /\ Changed(row, next).action = row.action
    OBVIOUS
  <1>4. Changed(row, next) \in AssistRow
    BY <1>1
  <1> QED BY <1>2, <1>3, <1>4

\* A transaction that writes an assist it has to itself.
LEMMA WriteAssistInv ==
    ASSUME Inv, NEW p \in Clients, NEW a \in Assists, NEW row \in AssistRow,
           NEW op \in {"none", "insert", "update"}, Write(p, AssistWork(a, row, op)), ClientInv(p)',
           req[p].kind \in TableCommands => OccupancyFree(p, req[p].table),
           \A q \in Clients \ {p} : work[q].assist # a
    PROVE  Inv'
  <1> DEFINE w == AssistWork(a, row, op)
  <1>1. w \in Work
    BY DEF AssistWork, Work
  <1>2. w.assist = a /\ w.session = None
    BY AssistWorkFields
  <1>3. Write(p, w)
    OBVIOUS
  <1> HIDE DEF w
  <1> QED BY <1>1, <1>2, <1>3, WriteInv

\* What Write leaves behind.
LEMMA WriteEffect ==
    ASSUME Inv, NEW p \in Clients, NEW w, Write(p, w)
    PROVE  pc'[p] = "commit" /\ req'[p] = req[p] /\ work'[p] = w /\ UNCHANGED rows
  BY DEF Inv, TypeOK, Write

LEMMA RequestAssistStep ==
    ASSUME Inv, NEW p \in Clients, RequestAssist(p)
    PROVE  Inv'
  <1> DEFINE t == req[p].table
             row == NewAssist(t, occupancy[t].session, "staff", None)
  <1>1. pc[p] = "execute" /\ req[p].kind = "assist.request" /\ t \in Tables /\ OccupancyFree(p, t)
    BY DEF RequestAssist, Inv, ClientInv, RequestInv, TableCommands
  <1>2. PICK a \in Assists : FreshAssist(a) /\ Write(p, AssistWork(a, row, "insert"))
    BY DEF RequestAssist
  <1>3. row \in AssistRow
    <2>1. occupancy[t].session \in Sessions \cup {None}
      BY <1>1 DEF Inv, TypeOK, OccupancyRow
    <2> QED BY <1>1, <2>1, NewAssistType
  <1>4. pc'[p] = "commit" /\ req'[p] = req[p] /\ work'[p] = AssistWork(a, row, "insert") /\ UNCHANGED rows
    BY <1>2, WriteEffect
  <1>5. ClientInv(p)'
    <2>1. RequestInv(p)' /\ GuestInv(p)'
      BY <1>1, <1>4 DEF Inv, ClientInv, RequestInv, GuestInv
    <2>2. StaffAssistInv(p)'
      BY <1>1, <1>2, <1>4, AssistWorkFields DEF StaffAssistInv, Writes, FreshAssist, rows
    <2> QED BY <1>1, <1>4, <2>1, <2>2
            DEF ClientInv, OccupyInv, ClearInv, ChangeInv, GuestCommitInv, AssistCommands
  <1>6. \A q \in Clients \ {p} : work[q].assist # a
    BY <1>2 DEF FreshAssist
  <1> HIDE DEF row
  <1> QED BY <1>1, <1>2, <1>3, <1>5, <1>6, WriteAssistInv

LEMMA NextStatusType ==
    \A kind : NextStatus(kind) \in {"acknowledged", "resolved", "cancelled"}
  BY DEF NextStatus

\* Staff commands and the guest's UPDATE both write the changed row.
LEMMA ChangeStep ==
    ASSUME Inv, NEW p \in Clients, pc[p] \in {"execute", "update"},
           req[p].kind \in AssistCommands \cup {"guest.cancel"},
           AssistFree(p, req[p].assist),
           validAssistTransition(assists[req[p].assist].status, NextStatus(req[p].kind)),
           Write(p, AssistWork(req[p].assist,
                               Changed(assists[req[p].assist], NextStatus(req[p].kind)), "update"))
    PROVE  Inv'
  <1> DEFINE a == req[p].assist
             row == Changed(assists[a], NextStatus(req[p].kind))
  <1>1. a \in Assists /\ req[p].kind \notin TableCommands
    BY DEF Inv, ClientInv, RequestInv, AssistCommands, TableCommands
  <1>2. row \in AssistRow
    BY <1>1, NextStatusType, ChangedType DEF Inv, TypeOK
  <1>3. pc'[p] = "commit" /\ req'[p] = req[p] /\ work'[p] = AssistWork(a, row, "update") /\ UNCHANGED rows
    BY WriteEffect
  <1>4. ClientInv(p)'
    <2>1. RequestInv(p)' /\ GuestInv(p)'
      BY <1>1, <1>3 DEF Inv, ClientInv, RequestInv, GuestInv
    <2>2. ChangeInv(p)'
      BY <1>1, <1>3, AssistWorkFields DEF ChangeInv, Writes, rows
    <2> QED BY <1>1, <1>3, <2>1, <2>2
            DEF ClientInv, OccupyInv, ClearInv, StaffAssistInv, GuestCommitInv, TableCommands
  <1>5. \A q \in Clients \ {p} : work[q].assist # a
    BY <1>1, FreeAssist
  <1> HIDE DEF row
  <1> QED BY <1>1, <1>2, <1>4, <1>5, WriteAssistInv DEF row

LEMMA ChangeAssistStep ==
    ASSUME Inv, NEW p \in Clients, changeAssistInTx(p)
    PROVE  Inv'
  BY ChangeStep, RejectKeepsInv DEF changeAssistInTx

LEMMA GuestCancelStep ==
    ASSUME Inv, NEW p \in Clients, CancelPendingGuestAssistRequest(p)
    PROVE  Inv'
  <1>1. req[p].kind = "guest.cancel" /\ NextStatus(req[p].kind) = "cancelled"
    BY DEF CancelPendingGuestAssistRequest, Inv, ClientInv, RequestInv, NextStatus
  <1> QED BY <1>1, ChangeStep, RejectKeepsInv DEF CancelPendingGuestAssistRequest, validAssistTransition

\* A transaction that goes on reading holds no row to commit.
LEMMA ReadingClient ==
    ASSUME NEW p \in Clients, pc'[p] \notin {"idle", "commit"}, req'[p] = req[p], RequestInv(p)', GuestInv(p)'
    PROVE  ClientInv(p)'
  BY DEF ClientInv, OccupyInv, ClearInv, StaffAssistInv, ChangeInv, GuestCommitInv

LEMMA GuestLockStep ==
    ASSUME Inv, NEW p \in Clients, lockGuestTable(p)
    PROVE  Inv'
  <1>1. CASE Reject(p)
    BY <1>1, RejectKeepsInv
  <1>2. CASE Goto(p, "pending") /\ occupancy[req[p].table].status = "occupied"
    <2>1. pc[p] = "execute" /\ req[p].kind = "guest.request" /\ OccupancyFree(p, req[p].table)
      BY DEF lockGuestTable
    <2>2. pc'[p] = "pending" /\ req'[p] = req[p] /\ work'[p] = work[p] /\ UNCHANGED rows
      BY <1>2 DEF Goto, Inv, TypeOK
    <2>3. RequestInv(p)'
      BY <2>1, <2>2 DEF Inv, ClientInv, RequestInv
    <2>4. GuestInv(p)'
      BY <1>2, <2>2 DEF GuestInv, rows
    <2> QED BY <1>2, <2>1, <2>2, <2>3, <2>4, ReadingClient, GotoInv DEF PC
  <1> QED BY <1>1, <1>2 DEF lockGuestTable

LEMMA GuestReadStep ==
    ASSUME Inv, NEW p \in Clients, readGuestAssist(p)
    PROVE  Inv'
  <1>1. CASE Reject(p)
    BY <1>1, RejectKeepsInv
  <1>2. CASE Goto(p, "update")
    <2>1. pc[p] = "execute" /\ req[p].kind = "guest.cancel"
      BY DEF readGuestAssist
    <2>2. pc'[p] = "update" /\ req'[p] = req[p] /\ work'[p] = work[p]
      BY <1>2 DEF Goto, Inv, TypeOK
    <2>3. RequestInv(p)' /\ GuestInv(p)'
      BY <2>1, <2>2 DEF Inv, ClientInv, RequestInv, GuestInv
    <2> QED BY <1>2, <2>1, <2>2, <2>3, ReadingClient, GotoInv DEF PC
  <1> QED BY <1>1, <1>2 DEF readGuestAssist

\* A guest request between its statements has the table's lock.
LEMMA GuestHolds ==
    ASSUME Inv, NEW p \in Clients, pc[p] \in {"pending", "create"}
    PROVE  /\ req[p].kind = "guest.request" /\ req[p].table \in Tables /\ req[p].action \in Actions
           /\ OccupancyFree(p, req[p].table)
           /\ occupancy[req[p].table].status = "occupied"
           /\ occupancy[req[p].table].session \in Sessions
  <1>1. req[p].kind = "guest.request" /\ req[p].table \in Tables /\ req[p].action \in Actions
    BY DEF Inv, ClientInv, RequestInv, TableCommands
  <1>2. HoldsOccupancy(p, req[p].table)
    BY <1>1 DEF HoldsOccupancy, TableCommands
  <1>3. OccupancyFree(p, req[p].table)
    BY <1>1, <1>2, HolderIsAlone
  <1>4. occupancy[req[p].table].status = "occupied"
    BY DEF Inv, ClientInv, GuestInv
  <1>5. occupancy[req[p].table].session \in Sessions
    BY <1>1, <1>4 DEF Inv, SessionInv
  <1> QED BY <1>1, <1>3, <1>4, <1>5

\* A guest request at its last statement keeps what it decided.
LEMMA GuestWriteStep ==
    ASSUME Inv, NEW p \in Clients, pc[p] \in {"pending", "create"}, NEW a \in Assists, NEW row \in AssistRow,
           NEW op \in {"none", "insert", "update"}, Write(p, AssistWork(a, row, op)), GuestCommitInv(p)',
           \A q \in Clients \ {p} : work[q].assist # a
    PROVE  Inv'
  <1>1. pc'[p] = "commit" /\ req'[p] = req[p] /\ UNCHANGED rows
    BY WriteEffect
  <1>2. req[p].kind = "guest.request" /\ OccupancyFree(p, req[p].table)
    BY GuestHolds
  <1>3. RequestInv(p)' /\ GuestInv(p)'
    BY <1>1, <1>2 DEF Inv, ClientInv, RequestInv, GuestInv
  <1>4. ClientInv(p)'
    BY <1>1, <1>2, <1>3 DEF ClientInv, OccupyInv, ClearInv, StaffAssistInv, ChangeInv, AssistCommands
  <1> QED BY <1>2, <1>4, WriteAssistInv

LEMMA GuestPendingStep ==
    ASSUME Inv, NEW p \in Clients, GetPendingGuestAssistByAction(p)
    PROVE  Inv'
  <1> DEFINE t == req[p].table
             pending == PendingGuest(assists, t, occupancy[t].session, req[p].action)
  <1>1. pc[p] = "pending"
    BY DEF GetPendingGuestAssistByAction
  <1>2. ASSUME NEW a \in pending, AssistFree(p, a), Write(p, AssistWork(a, assists[a], "none")) PROVE Inv'
    <2>1. a \in Assists /\ assists[a].status = "pending"
      BY <1>2 DEF PendingGuest
    <2>2. assists[a] \in AssistRow
      BY <2>1 DEF Inv, TypeOK
    <2>3. pc'[p] = "commit" /\ req'[p] = req[p] /\ work'[p] = AssistWork(a, assists[a], "none") /\ UNCHANGED rows
      BY <1>2, WriteEffect
    <2>4. GuestCommitInv(p)'
      BY <2>1, <2>3, AssistWorkFields DEF GuestCommitInv, Writes, rows
    <2> QED BY <1>1, <1>2, <2>1, <2>2, <2>4, FreeAssist, GuestWriteStep
  <1>3. CASE pending = {} /\ Goto(p, "create")
    <2>1. pc'[p] = "create" /\ req'[p] = req[p] /\ work'[p] = work[p] /\ UNCHANGED rows
      BY <1>3 DEF Goto, Inv, TypeOK
    <2>2. RequestInv(p)'
      BY <1>1, <2>1 DEF Inv, ClientInv, RequestInv
    <2>3. GuestInv(p)'
      BY <1>1, <1>3, <2>1, GuestHolds DEF GuestInv, PendingGuest, rows
    <2> QED BY <1>1, <1>3, <2>1, <2>2, <2>3, GuestHolds, ReadingClient, GotoInv DEF PC
  <1> QED BY <1>2, <1>3 DEF GetPendingGuestAssistByAction

LEMMA GuestCreateStep ==
    ASSUME Inv, NEW p \in Clients, createGuestAssist(p)
    PROVE  Inv'
  <1> DEFINE t == req[p].table
             row == NewAssist(t, occupancy[t].session, "guest_qr", req[p].action)
  <1>1. pc[p] = "create"
    BY DEF createGuestAssist
  <1>2. CASE Reject(p)
    BY <1>2, RejectKeepsInv
  <1>3. ASSUME NEW a \in Assists, FreshAssist(a), Write(p, AssistWork(a, row, "insert")) PROVE Inv'
    <2>1. row \in AssistRow
      BY <1>1, GuestHolds, NewAssistType
    <2>2. pc'[p] = "commit" /\ req'[p] = req[p] /\ work'[p] = AssistWork(a, row, "insert") /\ UNCHANGED rows
      BY <1>3, WriteEffect
    <2>3. PendingGuest(assists, t, occupancy[t].session, req[p].action) = {}
      BY <1>1 DEF Inv, ClientInv, GuestInv
    <2>4. GuestCommitInv(p)'
      BY <1>1, <1>3, <2>2, <2>3, GuestHolds, AssistWorkFields
         DEF GuestCommitInv, Writes, FreshAssist, PendingGuest, rows
    <2>5. \A q \in Clients \ {p} : work[q].assist # a
      BY <1>3 DEF FreshAssist
    <2> HIDE DEF row
    <2> QED BY <1>1, <1>3, <2>1, <2>4, <2>5, GuestWriteStep
  <1> QED BY <1>2, <1>3 DEF createGuestAssist

-----------------------------------------------------------------------------
(* The commits                                                             *)

\* A finished transaction has given back its locks and identifiers.
LEMMA FinishEffect ==
    ASSUME Inv, NEW p \in Clients, Finish(p)
    PROVE  /\ pc' \in [Clients -> PC] /\ req' \in [Clients -> Request \cup {None}] /\ work' \in [Clients -> Work]
           /\ pc'[p] = "idle" /\ req'[p] = None /\ work'[p] = NoWork
           /\ \A q \in Clients \ {p} : pc'[q] = pc[q] /\ req'[q] = req[q] /\ work'[q] = work[q]
           /\ ClientInv(p)'
           /\ \A q, r \in Clients : q # r => Exclusive(q, r)'
  <1>1. /\ pc' \in [Clients -> PC] /\ req' \in [Clients -> Request \cup {None}] /\ work' \in [Clients -> Work]
        /\ pc'[p] = "idle" /\ req'[p] = None /\ work'[p] = NoWork
        /\ \A q \in Clients \ {p} : pc'[q] = pc[q] /\ req'[q] = req[q] /\ work'[q] = work[q]
    BY IdentifiersDistinct DEF Finish, Inv, TypeOK, PC, NoWork, Work
  <1>2. ClientInv(p)'
    BY <1>1 DEF ClientInv, RequestInv, GuestInv, OccupyInv, ClearInv, StaffAssistInv, ChangeInv, GuestCommitInv
  <1>3. ASSUME NEW q \in Clients, NEW r \in Clients, q # r PROVE Exclusive(q, r)'
    <2>1. CASE q # p /\ r # p
      BY <1>1, <1>3, <2>1 DEF Inv, Exclusive, HoldsOccupancy
    <2>2. CASE q = p \/ r = p
      BY <1>1, <1>3, <2>2 DEF Exclusive, HoldsOccupancy, NoWork
    <2> QED BY <2>1, <2>2
  <1> QED BY <1>1, <1>2, <1>3

LEMMA ReplyType ==
    ASSUME Inv, NEW p \in Clients, pc[p] = "commit", NEW e \in Entities, NEW v \in Nat, req[p].cmd # None
    PROVE  Reply(p, e, v) \in Answer
  <1>1. req[p] \in Request
    BY DEF Inv, ClientInv, RequestInv
  <1>2. /\ req[p].cmd \in Commands /\ req[p].kind \in Kinds
        /\ req[p].version \in Nat /\ req[p].action \in Actions \cup {None}
    BY <1>1 DEF Request, CommandIds
  <1> QED BY <1>2 DEF Reply, Answer, PayloadHash

\* What a commit appends to the logs has its type.
LEMMA LogType ==
    ASSUME Inv, NEW p \in Clients, pc[p] = "commit", NEW e \in Entities, NEW v \in Nat,
           writeOperationalEvent(p, e, v) \/ UNCHANGED events,
           insertIdempotencyRecord(p, e, v), Respond(p, e, v)
    PROVE  idem' \subseteq Answer /\ replies' \subseteq Answer /\ events' \in [Entities -> Seq(Event)]
  <1>1. idem' \subseteq Answer
    BY ReplyType DEF insertIdempotencyRecord, Inv, TypeOK
  <1>2. replies' \subseteq Answer
    BY ReplyType DEF Respond, Inv, TypeOK
  <1>3. req[p].cmd \in CommandIds
    BY DEF Inv, ClientInv, RequestInv, Request
  <1> DEFINE ev == [version |-> v, cmd |-> req[p].cmd]
  <1>4. ev \in Event
    BY <1>3 DEF Event
  <1>5. writeOperationalEvent(p, e, v) => events' = [events EXCEPT ![e] = Append(@, ev)]
    BY DEF writeOperationalEvent
  <1> HIDE DEF ev
  <1>6. events \in [Entities -> Seq(Event)]
    BY DEF Inv, TypeOK
  <1>7. Append(events[e], ev) \in Seq(Event)
    BY <1>4, <1>6
  <1>8. events' \in [Entities -> Seq(Event)]
    BY <1>5, <1>6, <1>7
  <1> QED BY <1>1, <1>2, <1>8

\* What a transaction on a table commits.
LEMMA TableCommit ==
    ASSUME Inv, NEW p \in Clients, commitTable(p)
    PROVE  LET t == req[p].table
               s == work[p].session
           IN  /\ t \in Tables /\ s \in Sessions /\ HoldsOccupancy(p, t)
               /\ occupancy[t].version = req[p].version
               /\ work[p].occ \in OccupancyRow
               /\ work[p].occ.version = occupancy[t].version + 1
               /\ occupancy' = [occupancy EXCEPT ![t] = work[p].occ]
               /\ \/ /\ req[p].kind = "table.occupy"
                     /\ occupancy[t].status = "available" /\ sessions[s].state = "unused"
                     /\ work[p].occ = Occupied(occupancy[t], s)
                     /\ sessions' = [sessions EXCEPT ![s] = [table |-> t, state |-> "active"]]
                  \/ /\ req[p].kind = "table.clear"
                     /\ occupancy[t].status = "occupied" /\ s = occupancy[t].session
                     /\ work[p].occ = Cleared(occupancy[t])
                     /\ sessions' = [sessions EXCEPT ![s] = [table |-> t, state |-> "ended"]]
  <1> DEFINE t == req[p].table
             s == work[p].session
  <1>1. pc[p] = "commit" /\ req[p].kind \in {"table.occupy", "table.clear"} /\ ClientInv(p)
    BY DEF commitTable, Inv
  <1>2. t \in Tables /\ HoldsOccupancy(p, t)
    BY <1>1 DEF ClientInv, RequestInv, HoldsOccupancy, TableCommands
  <1>3. occupancy[t] \in OccupancyRow
    BY <1>2 DEF Inv, TypeOK
  <1>4. CASE req[p].kind = "table.occupy"
    <2>1. /\ s \in Sessions /\ sessions[s].state = "unused" /\ occupancy[t].status = "available"
          /\ occupancy[t].version = req[p].version /\ work[p].occ = Occupied(occupancy[t], s)
      BY <1>1, <1>4, TableWorkFields DEF ClientInv, OccupyInv
    <2>2. work[p].occ \in OccupancyRow /\ work[p].occ.status = "occupied"
          /\ work[p].occ.version = occupancy[t].version + 1
      BY <1>3, <2>1 DEF Occupied, OccupancyRow
    <2> QED BY <1>2, <1>4, <2>1, <2>2, IdentifiersDistinct DEF commitTable
  <1>5. CASE req[p].kind = "table.clear"
    <2>1. /\ occupancy[t].status = "occupied" /\ s = occupancy[t].session
          /\ occupancy[t].version = req[p].version /\ work[p].occ = Cleared(occupancy[t])
      BY <1>1, <1>5, TableWorkFields DEF ClientInv, ClearInv
    <2>2. work[p].occ \in OccupancyRow /\ work[p].occ.status = "available"
          /\ work[p].occ.version = occupancy[t].version + 1
      BY <1>3, <2>1 DEF Cleared, OccupancyRow
    <2>3. s \in Sessions
      BY <1>2, <2>1 DEF Inv, SessionInv
    <2> QED BY <1>2, <1>5, <2>1, <2>2, <2>3, IdentifiersDistinct DEF commitTable
  <1> QED BY <1>1, <1>4, <1>5

LEMMA CommitTableStep ==
    ASSUME Inv, NEW p \in Clients, commitTable(p)
    PROVE  Inv'
  <1> DEFINE t == req[p].table
             s == work[p].session
             o == work[p].occ
  <1>1. Finish(p) /\ UNCHANGED <<assists, cooling>> /\ pc[p] = "commit"
    BY DEF commitTable
  <1>2. /\ t \in Tables /\ s \in Sessions /\ HoldsOccupancy(p, t)
        /\ o \in OccupancyRow /\ o.version \in Nat
        /\ occupancy' = [occupancy EXCEPT ![t] = o]
    BY TableCommit DEF OccupancyRow
  <1>3. PICK state \in {"active", "ended"} : sessions' = [sessions EXCEPT ![s] = [table |-> t, state |-> state]]
    BY TableCommit
  <1>4. TypeOK'
    <2>1. occupancy' \in [Tables -> OccupancyRow]
      BY <1>2 DEF Inv, TypeOK
    <2>2. sessions' \in [Sessions -> SessionRow]
      BY <1>2, <1>3 DEF Inv, TypeOK, SessionRow
    <2>3. idem' \subseteq Answer /\ replies' \subseteq Answer /\ events' \in [Entities -> Seq(Event)]
      BY <1>1, <1>2, LogType DEF commitTable, Entities
    <2> QED BY <1>1, <2>1, <2>2, <2>3, FinishEffect DEF Inv, TypeOK
  <1>5. SessionInv'
    <2>1. /\ \A u \in Tables \ {t} : occupancy'[u] = occupancy[u]
          /\ \A r \in Sessions \ {s} : sessions'[r] = sessions[r]
          /\ occupancy'[t] = o
          /\ sessions'[s].table = t /\ sessions'[s].state = state
      BY <1>2, <1>3 DEF Inv, TypeOK
    <2>2. CASE /\ occupancy[t].status = "available" /\ sessions[s].state = "unused"
               /\ o = Occupied(occupancy[t], s)
               /\ sessions' = [sessions EXCEPT ![s] = [table |-> t, state |-> "active"]]
      <3>1. o.status = "occupied" /\ o.session = s /\ o.version = occupancy[t].version + 1
            /\ sessions'[s].state = "active"
        BY <1>2, <2>2 DEF Occupied, Inv, TypeOK
      <3>2. \A u \in Tables \ {t} : occupancy[u].status = "occupied" => occupancy[u].session # s
        BY <2>2 DEF Inv, SessionInv
      <3>3. \A u \in Tables : occupancy[u].version >= 1 /\ occupancy[u].version \in Nat
        BY DEF Inv, SessionInv, TypeOK, OccupancyRow
      <3>4. ASSUME NEW u \in Tables
            PROVE  /\ occupancy'[u].status = "occupied" =>
                        /\ occupancy'[u].session \in Sessions
                        /\ sessions'[occupancy'[u].session].table = u
                        /\ sessions'[occupancy'[u].session].state = "active"
                   /\ occupancy'[u].status = "available" => occupancy'[u].session = None
                   /\ occupancy'[u].version >= 1
        <4>1. CASE u = t
          BY <1>2, <2>1, <2>2, <4>1, <3>1, <3>2, <3>3
        <4>2. CASE u # t
          BY <1>2, <2>1, <2>2, <4>2, <3>1, <3>2, <3>3 DEF Inv, SessionInv
        <4> QED BY <4>1, <4>2
      <3>5. ASSUME NEW r \in Sessions, sessions'[r].state = "active"
            PROVE  /\ sessions'[r].table \in Tables
                   /\ occupancy'[sessions'[r].table].status = "occupied"
                   /\ occupancy'[sessions'[r].table].session = r
        <4>1. CASE r = s
          BY <1>2, <2>1, <3>1, <3>5, <4>1
        <4>2. CASE r # s
          <5>1. sessions'[r] = sessions[r]
            BY <2>1, <4>2
          <5>2. /\ sessions[r].table \in Tables /\ occupancy[sessions[r].table].status = "occupied"
                /\ occupancy[sessions[r].table].session = r
            BY <3>5, <5>1 DEF Inv, SessionInv
          <5>3. sessions[r].table # t
            BY <2>2, <4>2, <5>2
          <5> QED BY <2>1, <5>1, <5>2, <5>3
        <4> QED BY <4>1, <4>2
      <3> QED BY <3>4, <3>5 DEF SessionInv
    <2>3. CASE /\ occupancy[t].status = "occupied" /\ s = occupancy[t].session
               /\ o = Cleared(occupancy[t])
               /\ sessions' = [sessions EXCEPT ![s] = [table |-> t, state |-> "ended"]]
      <3>1. o.status = "available" /\ o.session = None /\ o.version = occupancy[t].version + 1
            /\ sessions'[s].state = "ended"
        BY <1>2, <2>3 DEF Cleared, Inv, TypeOK
      <3>2. sessions[s].table = t /\ sessions[s].state = "active"
        BY <1>2, <2>3 DEF Inv, SessionInv
      <3>3. \A u \in Tables \ {t} : occupancy[u].status = "occupied" => occupancy[u].session # s
        BY <3>2 DEF Inv, SessionInv
      <3>4. \A u \in Tables : occupancy[u].version >= 1 /\ occupancy[u].version \in Nat
        BY DEF Inv, SessionInv, TypeOK, OccupancyRow
      <3>5. ASSUME NEW u \in Tables
            PROVE  /\ occupancy'[u].status = "occupied" =>
                        /\ occupancy'[u].session \in Sessions
                        /\ sessions'[occupancy'[u].session].table = u
                        /\ sessions'[occupancy'[u].session].state = "active"
                   /\ occupancy'[u].status = "available" => occupancy'[u].session = None
                   /\ occupancy'[u].version >= 1
        <4>1. CASE u = t
          BY <1>2, <2>1, <2>3, <4>1, <3>1, <3>2, <3>3, <3>4
        <4>2. CASE u # t
          BY <1>2, <2>1, <2>3, <4>2, <3>1, <3>2, <3>3, <3>4 DEF Inv, SessionInv
        <4> QED BY <4>1, <4>2
      <3>6. ASSUME NEW r \in Sessions, sessions'[r].state = "active"
            PROVE  /\ sessions'[r].table \in Tables
                   /\ occupancy'[sessions'[r].table].status = "occupied"
                   /\ occupancy'[sessions'[r].table].session = r
        <4>1. CASE r = s
          BY <1>2, <2>1, <3>1, <3>6, <4>1
        <4>2. CASE r # s
          <5>1. sessions'[r] = sessions[r]
            BY <2>1, <4>2
          <5>2. /\ sessions[r].table \in Tables /\ occupancy[sessions[r].table].status = "occupied"
                /\ occupancy[sessions[r].table].session = r
            BY <3>6, <5>1 DEF Inv, SessionInv
          <5>3. sessions[r].table # t
            BY <2>3, <4>2, <5>2
          <5> QED BY <2>1, <5>1, <5>2, <5>3
        <4> QED BY <4>1, <4>2
      <3> QED BY <3>5, <3>6 DEF SessionInv
    <2> QED BY <2>2, <2>3, TableCommit
  <1>6. AssistInv' /\ OnePendingPerAction'
    BY <1>1 DEF Inv, AssistInv, OnePendingPerAction
  <1>7. GuestAssistHasSession'
    <2>1. sessions[s].state = "unused" \/ sessions[s].table = t
      <3>1. CASE s = occupancy[t].session /\ occupancy[t].status = "occupied"
        BY <1>2, <3>1 DEF Inv, SessionInv
      <3> QED BY <3>1, TableCommit
    <2>2. \A r \in Sessions : sessions[r].state # "unused" =>
             sessions'[r].state # "unused" /\ sessions'[r].table = sessions[r].table
      BY <1>2, <1>3, <2>1 DEF Inv, TypeOK
    <2> QED BY <1>1, <2>2 DEF Inv, GuestAssistHasSession
  <1>8. ASSUME NEW q \in Clients \ {p} PROVE ClientInv(q)'
    <2>1. pc'[q] = pc[q] /\ req'[q] = req[q] /\ work'[q] = work[q] /\ UNCHANGED assists
      BY <1>1, <1>8, FinishEffect
    <2>2. ClientInv(q) /\ Exclusive(p, q)
      BY <1>8 DEF Inv
    <2>3. ASSUME pc[q] \in {"pending", "create", "commit"}, req[q].kind \in TableCommands
          PROVE  req[q].table \in Tables /\ occupancy'[req[q].table] = occupancy[req[q].table]
      <3>1. req[q].table \in Tables /\ HoldsOccupancy(q, req[q].table)
        BY <2>2, <2>3 DEF ClientInv, RequestInv, HoldsOccupancy
      <3>2. req[q].table # t
        BY <1>2, <2>2, <3>1 DEF Exclusive
      <3> QED BY <1>2, <3>1, <3>2 DEF Inv, TypeOK
    <2>4. work[q].session \in Sessions => sessions'[work[q].session] = sessions[work[q].session]
      BY <1>2, <1>3, <2>2, IdentifiersDistinct DEF Exclusive, Inv, TypeOK
    <2>5. RequestInv(q)' /\ ChangeInv(q)'
      BY <2>1, <2>2 DEF ClientInv, RequestInv, ChangeInv, Writes
    <2>6. GuestInv(q)'
      BY <2>1, <2>2, <2>3 DEF ClientInv, RequestInv, GuestInv, TableCommands
    <2>7. OccupyInv(q)' /\ ClearInv(q)'
      BY <2>1, <2>2, <2>3, <2>4 DEF ClientInv, OccupyInv, ClearInv, TableCommands
    <2>8. StaffAssistInv(q)' /\ GuestCommitInv(q)'
      BY <2>1, <2>2, <2>3 DEF ClientInv, StaffAssistInv, GuestCommitInv, Writes, TableCommands
    <2> QED BY <2>5, <2>6, <2>7, <2>8 DEF ClientInv
  <1> QED BY <1>1, <1>4, <1>5, <1>6, <1>7, <1>8, FinishEffect DEF Inv

\* A new assist: not in use yet, at its table's party; if guests ask for it,
\* the party is seated and has no pending request for the action.
Inserts(p) ==
    \E source \in {"staff", "guest_qr"} :
        LET t == req[p].table
            s == occupancy[t].session
        IN  /\ t \in Tables /\ HoldsOccupancy(p, t) /\ req[p].action \in Actions \cup {None}
            /\ assists[work[p].assist].status = "unused"
            /\ \/ /\ source = "staff"
                  /\ work[p] = AssistWork(work[p].assist, NewAssist(t, s, source, None), "insert")
               \/ /\ source = "guest_qr" /\ req[p].action \in Actions
                  /\ work[p] = AssistWork(work[p].assist, NewAssist(t, s, source, req[p].action), "insert")
                  /\ occupancy[t].status = "occupied"
                  /\ PendingGuest(assists, t, s, req[p].action) = {}

\* An existing assist moves along its lifecycle.
Updates(p) ==
    \E next \in {"acknowledged", "resolved", "cancelled"} :
        /\ validAssistTransition(assists[work[p].assist].status, next)
        /\ work[p] = AssistWork(work[p].assist, Changed(assists[work[p].assist], next), "update")

\* A pending assist is only returned.
Returns(p) ==
    /\ assists[work[p].assist].status = "pending"
    /\ work[p] = AssistWork(work[p].assist, assists[work[p].assist], "none")

\* What a transaction on an assist commits.
LEMMA AssistCommit ==
    ASSUME Inv, NEW p \in Clients, commitAssist(p)
    PROVE  /\ work[p].assist \in Assists
           /\ Inserts(p) \/ Updates(p) \/ Returns(p)
  <1>1. pc[p] = "commit" /\ req[p].kind \notin {"table.occupy", "table.clear"} /\ ClientInv(p)
    BY DEF commitAssist, Inv
  <1>2. req[p] \in Request /\ work[p].assist \in Assists
    BY <1>1, WhatIsWritten
  <1>3. req[p].kind \in TableCommands => req[p].table \in Tables /\ HoldsOccupancy(p, req[p].table)
    BY <1>1 DEF ClientInv, RequestInv, HoldsOccupancy
  <1>4. req[p].action \in Actions \cup {None}
    BY <1>2 DEF Request
  <1>5. CASE req[p].kind = "assist.request"
    BY <1>1, <1>2, <1>3, <1>4, <1>5 DEF ClientInv, StaffAssistInv, Writes, Inserts, TableCommands
  <1>6. CASE req[p].kind \in AssistCommands \cup {"guest.cancel"}
    <2>1. /\ work[p].assist = req[p].assist
          /\ work[p] = AssistWork(work[p].assist, Changed(assists[work[p].assist], NextStatus(req[p].kind)), "update")
          /\ validAssistTransition(assists[work[p].assist].status, NextStatus(req[p].kind))
      BY <1>1, <1>6 DEF ClientInv, ChangeInv, Writes
    <2> QED BY <1>2, <2>1, NextStatusType DEF Updates
  <1>7. CASE req[p].kind = "guest.request"
    <2>1. req[p].action \in Actions
      BY <1>1, <1>7 DEF ClientInv, RequestInv
    <2> QED BY <1>1, <1>2, <1>3, <1>4, <1>7, <2>1 DEF ClientInv, GuestCommitInv, Writes, Inserts, Returns, TableCommands
  <1> QED BY <1>1, <1>2, <1>5, <1>6, <1>7 DEF Request, Kinds, TableCommands, AssistCommands

\* The row itself: its type, and what it says about the rest.
LEMMA AssistCommitRow ==
    ASSUME Inv, NEW p \in Clients, commitAssist(p)
    PROVE  LET a == work[p].assist
               row == work[p].row
           IN  /\ row \in AssistRow
               /\ assists' \in [Assists -> AssistRow]
               /\ assists'[a] = row
               /\ \A b \in Assists \ {a} : assists'[b] = assists[b]
               /\ row.status # "unused" /\ row.table \in Tables /\ row.version >= 1
               /\ work[p].op # "none" => row.version = assists[a].version + 1
               /\ work[p].op = "none" => row = assists[a]
  <1> DEFINE a == work[p].assist
             row == work[p].row
  <1>1. a \in Assists /\ assists[a] \in AssistRow
    BY AssistCommit DEF Inv, TypeOK
  <1>2. CASE Inserts(p)
    <2>1. PICK source \in {"staff", "guest_qr"}, action \in Actions \cup {None} :
            /\ req[p].table \in Tables /\ assists[a].status = "unused"
            /\ work[p] = AssistWork(a, NewAssist(req[p].table, occupancy[req[p].table].session, source, action), "insert")
      BY <1>2 DEF Inserts
    <2>2. row = NewAssist(req[p].table, occupancy[req[p].table].session, source, action) /\ work[p].op = "insert"
      BY <2>1, AssistWorkFields
    <2>3. occupancy[req[p].table].session \in Sessions \cup {None}
      BY <2>1 DEF Inv, TypeOK, OccupancyRow
    <2>4. row \in AssistRow
      BY <2>1, <2>2, <2>3, NewAssistType
    <2>5. row.status = "pending" /\ row.table = req[p].table /\ row.version = 1
      BY <2>2 DEF NewAssist
    <2>6. assists[a].version = 0
      BY <1>1, <2>1 DEF Inv, AssistInv, UnusedAssist
    <2>7. assists' = [assists EXCEPT ![a] = row]
      BY <2>2 DEF commitAssist, writesAssist
    <2>8. assists' \in [Assists -> AssistRow] /\ assists'[a] = row /\ \A b \in Assists \ {a} : assists'[b] = assists[b]
      BY <1>1, <2>4, <2>7 DEF Inv, TypeOK
    <2> QED BY <2>1, <2>2, <2>4, <2>5, <2>6, <2>8
  <1>3. CASE Updates(p)
    <2>1. PICK next \in {"acknowledged", "resolved", "cancelled"} :
            /\ validAssistTransition(assists[a].status, next)
            /\ work[p] = AssistWork(a, Changed(assists[a], next), "update")
      BY <1>3 DEF Updates
    <2>2. row = Changed(assists[a], next) /\ work[p].op = "update"
      BY <2>1, AssistWorkFields
    <2>3. assists[a].table \in Tables /\ assists[a].version >= 1 /\ assists[a].version \in Nat
      BY <1>1, <2>1 DEF validAssistTransition, Inv, AssistInv, AssistRow
    <2>4. row \in AssistRow /\ row.status = next /\ row.table \in Tables /\ row.version = assists[a].version + 1
      BY <1>1, <2>2, <2>3, ChangedType
    <2>5. assists' = [assists EXCEPT ![a] = row]
      BY <2>2 DEF commitAssist, writesAssist
    <2>6. row.version >= 1 /\ row.status # "unused"
      BY <2>3, <2>4
    <2>7. assists' \in [Assists -> AssistRow] /\ assists'[a] = row /\ \A b \in Assists \ {a} : assists'[b] = assists[b]
      BY <1>1, <2>4, <2>5 DEF Inv, TypeOK
    <2> QED BY <2>2, <2>4, <2>6, <2>7
  <1>4. CASE Returns(p)
    <2>1. row = assists[a] /\ work[p].op = "none"
      BY <1>4, AssistWorkFields DEF Returns
    <2>2. assists' = assists
      BY <2>1 DEF commitAssist, writesAssist
    <2>3. row.status # "unused" /\ row.table \in Tables /\ row.version >= 1
      BY <1>1, <1>4, <2>1 DEF Returns, Inv, AssistInv
    <2>4. assists' \in [Assists -> AssistRow] /\ assists'[a] = row /\ \A b \in Assists \ {a} : assists'[b] = assists[b]
      BY <1>1, <2>1, <2>2 DEF Inv, TypeOK
    <2> QED BY <1>1, <2>1, <2>3, <2>4
  <1> QED BY <1>2, <1>3, <1>4, AssistCommit

\* A guest request that becomes pending is the only one of its party.
LEMMA AssistCommitGuest ==
    ASSUME Inv, NEW p \in Clients, commitAssist(p), work[p].row.source = "guest_qr"
    PROVE  LET row == work[p].row
           IN  /\ row.session \in Sessions /\ sessions[row.session].table = row.table
               /\ sessions[row.session].state # "unused"
               /\ work[p].op # "none" /\ row.status = "pending" =>
                    /\ HoldsOccupancy(p, row.table)
                    /\ PendingGuest(assists, row.table, row.session, row.action) = {}
  <1> DEFINE a == work[p].assist
             row == work[p].row
             t == req[p].table
  <1>1. a \in Assists /\ assists[a] \in AssistRow
    BY AssistCommit DEF Inv, TypeOK
  <1>2. CASE Inserts(p)
    <2>1. PICK source \in {"staff", "guest_qr"} :
            /\ t \in Tables /\ HoldsOccupancy(p, t)
            /\ \/ source = "staff" /\ work[p] = AssistWork(a, NewAssist(t, occupancy[t].session, source, None), "insert")
               \/ /\ work[p] = AssistWork(a, NewAssist(t, occupancy[t].session, source, req[p].action), "insert")
                  /\ occupancy[t].status = "occupied"
                  /\ PendingGuest(assists, t, occupancy[t].session, req[p].action) = {}
      BY <1>2 DEF Inserts
    <2>2. \/ row = NewAssist(t, occupancy[t].session, "staff", None)
          \/ /\ row = NewAssist(t, occupancy[t].session, source, req[p].action)
             /\ occupancy[t].status = "occupied"
             /\ PendingGuest(assists, t, occupancy[t].session, req[p].action) = {}
      BY <2>1, AssistWorkFields
    <2>3. row = NewAssist(t, occupancy[t].session, source, req[p].action) /\ occupancy[t].status = "occupied"
          /\ PendingGuest(assists, t, occupancy[t].session, req[p].action) = {}
      BY <2>2 DEF NewAssist
    <2>4. row.table = t /\ row.session = occupancy[t].session /\ row.action = req[p].action
      BY <2>3 DEF NewAssist
    <2>5. occupancy[t].session \in Sessions /\ sessions[occupancy[t].session].table = t
          /\ sessions[occupancy[t].session].state = "active"
      BY <2>1, <2>3 DEF Inv, SessionInv
    <2> QED BY <2>1, <2>3, <2>4, <2>5
  <1>3. CASE Updates(p)
    <2>1. PICK next \in {"acknowledged", "resolved", "cancelled"} :
            work[p] = AssistWork(a, Changed(assists[a], next), "update")
      BY <1>3 DEF Updates
    <2>2. row = Changed(assists[a], next)
      BY <2>1, AssistWorkFields
    <2>3. row.status = next /\ row.source = assists[a].source /\ row.table = assists[a].table
          /\ row.session = assists[a].session
      BY <1>1, <2>2, ChangedType
    <2> QED BY <1>1, <2>3 DEF Inv, GuestAssistHasSession
  <1>4. CASE Returns(p)
    <2>1. row = assists[a] /\ work[p].op = "none"
      BY <1>4, AssistWorkFields DEF Returns
    <2> QED BY <1>1, <2>1 DEF Inv, GuestAssistHasSession
  <1> QED BY <1>2, <1>3, <1>4, AssistCommit

LEMMA CommitAssistStep ==
    ASSUME Inv, NEW p \in Clients, commitAssist(p)
    PROVE  Inv'
  <1> DEFINE a == work[p].assist
             row == work[p].row
  <1>1. Finish(p) /\ UNCHANGED <<occupancy, sessions>> /\ pc[p] = "commit"
    BY DEF commitAssist
  <1>2. a \in Assists
    BY AssistCommit
  <1>3. /\ row \in AssistRow /\ assists' \in [Assists -> AssistRow] /\ assists'[a] = row
        /\ \A b \in Assists \ {a} : assists'[b] = assists[b]
        /\ row.status # "unused" /\ row.table \in Tables /\ row.version >= 1
        /\ work[p].op = "none" => row = assists[a]
    BY AssistCommitRow
  <1>4. row.source = "guest_qr" =>
          /\ row.session \in Sessions /\ sessions[row.session].table = row.table
          /\ sessions[row.session].state # "unused"
          /\ work[p].op # "none" /\ row.status = "pending" =>
               /\ HoldsOccupancy(p, row.table)
               /\ PendingGuest(assists, row.table, row.session, row.action) = {}
    BY AssistCommitGuest
  <1>5. TypeOK'
    <2>1. idem' \subseteq Answer /\ replies' \subseteq Answer /\ events' \in [Entities -> Seq(Event)]
      BY <1>1, <1>2, <1>3, LogType DEF commitAssist, Entities, AssistRow
    <2>2. cooling' \subseteq Assists
      BY <1>2 DEF commitAssist, Inv, TypeOK
    <2> QED BY <1>1, <1>3, <2>1, <2>2, FinishEffect DEF Inv, TypeOK
  <1>6. SessionInv'
    BY <1>1 DEF Inv, SessionInv
  <1>7. AssistInv'
    BY <1>3 DEF Inv, AssistInv
  <1>8. GuestAssistHasSession'
    BY <1>1, <1>3, <1>4 DEF Inv, GuestAssistHasSession
  <1>9. OnePendingPerAction'
    <2>1. ASSUME NEW b \in Assists \ {a}, assists[b].status = "pending", assists[b].source = "guest_qr",
                 row.status = "pending", row.source = "guest_qr",
                 row.session = assists[b].session, row.action = assists[b].action
          PROVE  FALSE
      <3>1. CASE work[p].op = "none"
        BY <1>2, <1>3, <2>1, <3>1 DEF Inv, OnePendingPerAction
      <3>2. CASE work[p].op # "none"
        <4>1. assists[b].table = row.table
          BY <1>4, <2>1 DEF Inv, GuestAssistHasSession
        <4> QED BY <1>4, <2>1, <3>2, <4>1 DEF PendingGuest
      <3> QED BY <3>1, <3>2
    <2> SUFFICES ASSUME NEW b \in Assists, NEW c \in Assists,
                        assists'[b].status = "pending", assists'[b].source = "guest_qr",
                        assists'[c].status = "pending", assists'[c].source = "guest_qr",
                        assists'[b].session = assists'[c].session,
                        assists'[b].action = assists'[c].action
                 PROVE  b = c
      BY DEF OnePendingPerAction
    <2>2. CASE b # a /\ c # a
      BY <1>3, <2>2 DEF Inv, OnePendingPerAction
    <2>3. CASE b # a /\ c = a
      BY <1>3, <2>1, <2>3
    <2>4. CASE b = a /\ c # a
      BY <1>3, <2>1, <2>4
    <2> QED BY <2>2, <2>3, <2>4
  <1>10. ASSUME NEW q \in Clients \ {p} PROVE ClientInv(q)'
    <2>1. pc'[q] = pc[q] /\ req'[q] = req[q] /\ work'[q] = work[q] /\ UNCHANGED <<occupancy, sessions>>
      BY <1>1, <1>10, FinishEffect
    <2>2. ClientInv(q) /\ Exclusive(p, q)
      BY <1>10 DEF Inv
    <2>3. work[q].assist \in Assists => assists'[work[q].assist] = assists[work[q].assist]
      BY <1>2, <1>3, <2>2, IdentifiersDistinct DEF Exclusive
    <2>4. ASSUME pc[q] \in {"pending", "create", "commit"}, req[q].kind = "guest.request"
          PROVE  LET u == req[q].table
                     pending == PendingGuest(assists, u, occupancy[u].session, req[q].action)
                 IN  pending = {} => PendingGuest(assists', u, occupancy[u].session, req[q].action) = {}
      <3> DEFINE u == req[q].table
      <3>1. u \in Tables /\ HoldsOccupancy(q, u)
        BY <2>2, <2>4 DEF ClientInv, RequestInv, HoldsOccupancy, TableCommands
      <3>2. ~HoldsOccupancy(p, u)
        BY <2>2, <3>1 DEF Exclusive
      <3>3. row.table = u /\ row.source = "guest_qr" /\ row.status = "pending" => assists[a] = row
        BY <1>3, <1>4, <3>2
      <3> QED BY <1>2, <1>3, <3>3 DEF PendingGuest
    <2>5. RequestInv(q)'
      BY <2>1, <2>2 DEF ClientInv, RequestInv
    <2>6. GuestInv(q)'
      BY <2>1, <2>2, <2>4 DEF ClientInv, RequestInv, GuestInv
    <2>7. OccupyInv(q)' /\ ClearInv(q)'
      BY <2>1, <2>2 DEF ClientInv, OccupyInv, ClearInv
    <2>8. StaffAssistInv(q)'
      BY <2>1, <2>2, <2>3 DEF ClientInv, StaffAssistInv, Writes
    <2>9. ChangeInv(q)'
      BY <2>1, <2>2, <2>3 DEF ClientInv, ChangeInv, Writes
    <2>10. GuestCommitInv(q)'
      BY <2>1, <2>2, <2>3, <2>4 DEF ClientInv, GuestCommitInv, Writes
    <2> QED BY <2>5, <2>6, <2>7, <2>8, <2>9, <2>10 DEF ClientInv
  <1> QED BY <1>1, <1>5, <1>6, <1>7, <1>8, <1>9, <1>10, FinishEffect DEF Inv

-----------------------------------------------------------------------------
\* Inv is inductive.
LEMMA NextInv == Inv /\ [Next]_vars => Inv'
  <1> SUFFICES ASSUME Inv, [Next]_vars PROVE Inv'
    OBVIOUS
  <1>1. ASSUME NEW p \in Clients, Step(p) PROVE Inv'
    <2>1. CASE duplicateCommand(p)
      BY <2>1, RejectKeepsInv DEF duplicateCommand
    <2> QED BY <1>1, <2>1, ReplayInv, OccupyStep, ClearStep, RequestAssistStep, ChangeAssistStep, GuestLockStep,
               GuestPendingStep, GuestCreateStep, GuestReadStep, GuestCancelStep, CommitTableStep,
               CommitAssistStep DEF Step
  <1>2. ASSUME NEW p \in Clients, rollback(p) PROVE Inv'
    BY <1>2, RejectKeepsInv DEF rollback
  <1>3. CASE UNCHANGED <<rows, log, pc, req, work>> /\ cooling' \subseteq cooling
    <2>1. TypeOK' /\ SessionInv' /\ AssistInv' /\ OnePendingPerAction' /\ GuestAssistHasSession'
      BY <1>3 DEF Inv, TypeOK, SessionInv, AssistInv, OnePendingPerAction, GuestAssistHasSession, rows, log
    <2>2. ASSUME NEW q \in Clients PROVE ClientInv(q)'
      BY <1>3, ClientInvKept DEF Inv
    <2>3. ASSUME NEW q \in Clients, NEW r \in Clients, q # r PROVE Exclusive(q, r)'
      BY <1>3, <2>3 DEF Inv, Exclusive, HoldsOccupancy
    <2> QED BY <2>1, <2>2, <2>3 DEF Inv
  <1>4. CASE \E a \in Assists : CooldownElapses(a)
    BY <1>3, <1>4 DEF CooldownElapses
  <1>5. CASE UNCHANGED vars
    BY <1>3, <1>5 DEF vars
  <1> QED BY <1>1, <1>2, <1>4, <1>5, SendInv DEF Next

\* The strengthened invariant holds in every reachable state.
THEOREM Invariance == Spec => []Inv
  BY InitInv, NextInv, PTL DEF Spec

\* Rows, records and transactions keep their shapes for any number of tables,
\* clients and identifiers.
THEOREM TypeCorrect == Spec => []TypeOK
  <1>1. Inv => TypeOK
    BY DEF Inv
  <1> QED BY <1>1, Invariance, PTL

\* A table has exactly one active session while it is occupied and none while
\* it is available, whatever commands run at the same time.
THEOREM SessionsInStep == Spec => []OneActiveSession
  <1>1. Inv => OneActiveSession
    <2> SUFFICES ASSUME Inv, NEW t \in Tables
                 PROVE  {s \in Sessions : sessions[s].table = t /\ sessions[s].state = "active"}
                            = IF occupancy[t].status = "occupied" THEN {occupancy[t].session} ELSE {}
      BY DEF OneActiveSession
    <2>1. CASE occupancy[t].status = "occupied"
      BY <2>1 DEF Inv, SessionInv
    <2>2. CASE occupancy[t].status # "occupied"
      BY <2>2 DEF Inv, SessionInv
    <2> QED BY <2>1, <2>2
  <1> QED BY <1>1, Invariance, PTL

\* A party never has two pending requests for one guest action: the occupancy
\* lock orders the look for one and the insert.
THEOREM OnePending == Spec => []OnePendingPerAction
  <1>1. Inv => OnePendingPerAction
    BY DEF Inv
  <1> QED BY <1>1, Invariance, PTL

\* A guest request is always tied to a session of its own table.
THEOREM GuestSession == Spec => []GuestAssistHasSession
  <1>1. Inv => GuestAssistHasSession
    BY DEF Inv
  <1> QED BY <1>1, Invariance, PTL

\* What a step does to the rows: nothing, or one commit.
LEMMA RowsChangeAtCommit ==
    ASSUME [Next]_vars
    PROVE  UNCHANGED rows \/ \E p \in Clients : commitTable(p) \/ commitAssist(p)
  <1>1. ASSUME NEW p \in Clients, Send(p) PROVE UNCHANGED rows
    BY <1>1 DEF Send, SendTableCommand, SendRequestAssist, SendAssistCommand, SendGuestRequest, SendGuestCancel,
                Arrive
  <1>2. ASSUME NEW p \in Clients, Step(p) PROVE UNCHANGED rows \/ commitTable(p) \/ commitAssist(p)
    BY <1>2 DEF Step, getIdempotencyReplay, occupyTableInTx, clearTableInTx, RequestAssist, changeAssistInTx,
                lockGuestTable, GetPendingGuestAssistByAction, createGuestAssist, readGuestAssist,
                CancelPendingGuestAssistRequest, duplicateCommand, Goto, Reject, Write
  <1>3. ASSUME NEW p \in Clients, rollback(p) PROVE UNCHANGED rows
    BY <1>3 DEF rollback, Reject
  <1>4. ASSUME NEW a \in Assists, CooldownElapses(a) PROVE UNCHANGED rows
    BY <1>4 DEF CooldownElapses
  <1>5. CASE UNCHANGED vars
    BY <1>5 DEF vars
  <1> QED BY <1>1, <1>2, <1>3, <1>4, <1>5 DEF Next

\* An occupancy row only ever changes in the transaction of a command that
\* named the version it replaces: no update is lost.
THEOREM NoLostUpdate == Spec => ExpectedVersionHonoured
  <1> DEFINE Honoured ==
        \A t \in Tables : occupancy'[t] # occupancy[t] =>
          /\ occupancy'[t].version = occupancy[t].version + 1
          /\ \E p \in Clients : /\ pc[p] = "commit" /\ req[p].table = t
                                /\ req[p].kind \in {"table.occupy", "table.clear"}
                                /\ req[p].version = occupancy[t].version
  <1>1. Inv /\ [Next]_vars => [Honoured]_vars
    <2> SUFFICES ASSUME Inv, [Next]_vars, NEW t \in Tables, occupancy'[t] # occupancy[t]
                 PROVE  /\ occupancy'[t].version = occupancy[t].version + 1
                        /\ \E p \in Clients : /\ pc[p] = "commit" /\ req[p].table = t
                                              /\ req[p].kind \in {"table.occupy", "table.clear"}
                                              /\ req[p].version = occupancy[t].version
      OBVIOUS
    <2>1. PICK p \in Clients : commitTable(p) \/ commitAssist(p)
      BY RowsChangeAtCommit DEF rows
    <2>2. commitTable(p)
      BY <2>1 DEF commitAssist
    <2>3. /\ req[p].table \in Tables /\ occupancy[req[p].table].version = req[p].version
          /\ work[p].occ.version = occupancy[req[p].table].version + 1
          /\ occupancy' = [occupancy EXCEPT ![req[p].table] = work[p].occ]
      BY <2>2, TableCommit
    <2>4. req[p].table = t /\ occupancy'[t] = work[p].occ
      BY <2>3 DEF Inv, TypeOK
    <2> QED BY <2>2, <2>3, <2>4 DEF commitTable
  <1> QED BY <1>1, Invariance, PTL DEF Spec, ExpectedVersionHonoured

-----------------------------------------------------------------------------
(* The refinement                                                          *)

LEMMA TableCommitRefines ==
    ASSUME Inv, NEW p \in Clients, commitTable(p)
    PROVE  Abstract!Next
  <1> DEFINE t == req[p].table
             s == work[p].session
  <1>1. t \in Tables /\ s \in Sessions /\ occupancy' = [occupancy EXCEPT ![t] = work[p].occ] /\ UNCHANGED assists
    BY TableCommit DEF commitTable
  <1>2. CASE /\ occupancy[t].status = "available" /\ sessions[s].state = "unused"
             /\ work[p].occ = Occupied(occupancy[t], s)
             /\ sessions' = [sessions EXCEPT ![s] = [table |-> t, state |-> "active"]]
    <2>1. Abstract!Occupy(t, s)
      BY <1>1, <1>2 DEF Abstract!Occupy, Abstract!Occupied, Occupied
    <2> QED BY <1>1, <2>1 DEF Abstract!Next
  <1>3. CASE /\ occupancy[t].status = "occupied" /\ s = occupancy[t].session
             /\ work[p].occ = Cleared(occupancy[t])
             /\ sessions' = [sessions EXCEPT ![s] = [table |-> t, state |-> "ended"]]
    <2>1. Abstract!Clear(t)
      BY <1>1, <1>3 DEF Abstract!Clear, Abstract!Cleared, Cleared
    <2> QED BY <1>1, <2>1 DEF Abstract!Next
  <1> QED BY <1>2, <1>3, TableCommit

LEMMA AssistCommitRefines ==
    ASSUME Inv, NEW p \in Clients, commitAssist(p)
    PROVE  Abstract!Next \/ UNCHANGED rows
  <1> DEFINE a == work[p].assist
             t == req[p].table
             s == occupancy[t].session
  <1>1. a \in Assists /\ UNCHANGED <<occupancy, sessions>>
    BY AssistCommit DEF commitAssist
  <1>2. work[p].op # "none" => assists' = [assists EXCEPT ![a] = work[p].row]
    BY DEF commitAssist, writesAssist
  <1>3. ASSUME NEW row, NEW op, work[p] = AssistWork(a, row, op)
        PROVE  work[p].row = row /\ work[p].op = op
    BY <1>3, AssistWorkFields
  <1>4. CASE Inserts(p)
    <2>1. CASE work[p] = AssistWork(a, NewAssist(t, s, "staff", None), "insert")
      <3>1. Abstract!RequestAssist(t, a)
        BY <1>1, <1>2, <1>3, <1>4, <2>1 DEF Inserts, Abstract!RequestAssist, Abstract!NewAssist, NewAssist
      <3> QED BY <1>1, <1>4, <3>1 DEF Inserts, Abstract!Next
    <2>2. CASE /\ work[p] = AssistWork(a, NewAssist(t, s, "guest_qr", req[p].action), "insert")
               /\ req[p].action \in Actions /\ occupancy[t].status = "occupied"
               /\ PendingGuest(assists, t, s, req[p].action) = {}
      <3>1. Abstract!GuestRequest(t, a, req[p].action)
        BY <1>1, <1>2, <1>3, <1>4, <2>2
           DEF Inserts, Abstract!GuestRequest, Abstract!NewAssist, NewAssist, Abstract!PendingGuest, PendingGuest
      <3> QED BY <1>1, <1>4, <2>2, <3>1 DEF Inserts, Abstract!Next
    <2> QED BY <1>4, <2>1, <2>2 DEF Inserts
  <1>5. CASE Updates(p)
    <2>1. PICK next \in {"acknowledged", "resolved", "cancelled"} :
            /\ validAssistTransition(assists[a].status, next)
            /\ work[p] = AssistWork(a, Changed(assists[a], next), "update")
      BY <1>5 DEF Updates
    <2>2. assists' = [assists EXCEPT ![a] = Changed(assists[a], next)]
      BY <1>2, <1>3, <2>1
    <2>3. Abstract!ChangeAssist(a, next)
      BY <1>1, <2>1, <2>2 DEF Abstract!ChangeAssist, Abstract!Changed, Changed,
                              Abstract!validAssistTransition, validAssistTransition
    <2> QED BY <1>1, <2>3 DEF Abstract!Next
  <1>6. CASE Returns(p)
    BY <1>1, <1>6, AssistWorkFields DEF Returns, commitAssist, writesAssist, rows
  <1> QED BY <1>4, <1>5, <1>6, AssistCommit

\* Transactions, locks, retries and rollbacks are invisible: every step of the
\* service is one atomic step of the floor, or changes no row.
THEOREM Refinement == Spec => ImplementsFloor
  <1>1. Init => Abstract!Init
    BY DEF Init, Abstract!Init, Abstract!NewOccupancy, NewOccupancy, Abstract!UnusedSession, UnusedSession,
           Abstract!UnusedAssist, UnusedAssist
  <1>2. Inv /\ [Next]_vars => [Abstract!Next]_(Abstract!vars)
    BY RowsChangeAtCommit, TableCommitRefines, AssistCommitRefines DEF rows, Abstract!vars
  <1> QED BY <1>1, <1>2, Invariance, PTL DEF Spec, ImplementsFloor, Abstract!Spec

-----------------------------------------------------------------------------
(* The logs                                                                *)

LEMMA LogInit == Init => LogInv
  BY IdentifiersDistinct
     DEF Init, LogInv, EventPerVersion, AppliedOnce, AnswersAgree, Entities, VersionOf, FirstVersion,
         NewOccupancy, UnusedAssist

\* A step that neither commits nor records keeps the logs right.
LEMMA LogKept ==
    ASSUME LogInv, UNCHANGED <<rows, idem, events>>, replies' \subseteq replies \cup idem
    PROVE  LogInv'
  BY DEF LogInv, EventPerVersion, AppliedOnce, AnswersAgree, VersionOf, rows

\* The record a commit inserts is the only one of its command, and the answer
\* the client gets is that record.
LEMMA RecordOnce ==
    ASSUME Inv, LogInv, NEW p \in Clients, NEW e, NEW v, insertIdempotencyRecord(p, e, v), Respond(p, e, v)
    PROVE  /\ replies' \subseteq idem'
           /\ \A r, u \in idem' : r.cmd = u.cmd => r = u
           /\ idem \subseteq idem'
           /\ \A r \in idem' : r \in idem \/ r = Reply(p, e, v)
           /\ req[p].cmd # None => Reply(p, e, v) \in idem'
  BY DEF LogInv, AnswersAgree, insertIdempotencyRecord, Respond, Recorded, Reply

\* The commit of a new version of a row.
LEMMA LogCommit ==
    ASSUME Inv, LogInv, NEW p \in Clients, pc[p] = "commit", NEW e \in Entities, NEW v \in Nat,
           v = VersionOf(e) + 1, v >= FirstVersion(e), VersionOf(e) \in Nat, VersionOf(e)' = v,
           \A f \in Entities \ {e} : VersionOf(f)' = VersionOf(f),
           writeOperationalEvent(p, e, v), insertIdempotencyRecord(p, e, v), Respond(p, e, v)
    PROVE  LogInv'
  <1> DEFINE ev == [version |-> v, cmd |-> req[p].cmd]
             n == Len(events[e])
  <1>1. events \in [Entities -> Seq(Event)] /\ events[e] \in Seq(Event) /\ n \in Nat
    BY DEF Inv, TypeOK
  <1>2. events' = [events EXCEPT ![e] = Append(@, ev)]
    BY DEF writeOperationalEvent
  <1>3. ev.version = v /\ ev.cmd = req[p].cmd
    OBVIOUS
  <1>4. ev \in Event
    BY DEF Event, Inv, ClientInv, RequestInv, Request
  <1> HIDE DEF ev
  <1>5. /\ \A f \in Entities \ {e} : events'[f] = events[f]
        /\ events'[e] = Append(events[e], ev)
    BY <1>1, <1>2
  <1>6. /\ Len(events'[e]) = n + 1 /\ DOMAIN events'[e] = 1..(n + 1) /\ DOMAIN events[e] = 1..n
        /\ events'[e][n + 1] = ev /\ \A i \in 1..n : events'[e][i] = events[e][i]
    BY <1>1, <1>4, <1>5
  <1>7. n = VersionOf(e) + 1 - FirstVersion(e) /\ FirstVersion(e) \in Nat
    BY DEF LogInv, EventPerVersion, FirstVersion
  <1>8. EventPerVersion'
    <2>1. ASSUME NEW f \in Entities \ {e}
          PROVE  /\ Len(events'[f]) = VersionOf(f)' + 1 - FirstVersion(f)
                 /\ \A i \in DOMAIN events'[f] : events'[f][i].version = FirstVersion(f) + i - 1
      BY <1>5 DEF LogInv, EventPerVersion
    <2>2. Len(events'[e]) = VersionOf(e)' + 1 - FirstVersion(e)
      BY <1>6, <1>7
    <2>3. ASSUME NEW i \in DOMAIN events'[e] PROVE events'[e][i].version = FirstVersion(e) + i - 1
      <3>1. CASE i = n + 1
        BY <1>1, <1>3, <1>6, <1>7, <3>1
      <3>2. CASE i \in 1..n
        BY <1>6, <3>2 DEF LogInv, EventPerVersion
      <3> QED BY <1>1, <1>6, <3>1, <3>2
    <2> QED BY <2>1, <2>2, <2>3 DEF EventPerVersion, FirstVersion
  <1>9. ASSUME NEW f \in Entities, NEW j \in DOMAIN events'[f]
        PROVE  \/ f = e /\ j = n + 1 /\ events'[f][j] = ev
               \/ j \in DOMAIN events[f] /\ events'[f][j] = events[f][j]
    <2>1. CASE f = e
      BY <1>1, <1>6, <2>1
    <2>2. CASE f # e
      BY <1>5, <2>2
    <2> QED BY <2>1, <2>2
  <1>10. \A f \in Entities : \A j \in DOMAIN events[f] : events[f][j].cmd # None => events[f][j].cmd # req[p].cmd
    BY DEF LogInv, AppliedOnce, insertIdempotencyRecord, Recorded
  <1>11. AppliedOnce'
    <2> SUFFICES ASSUME NEW f \in Entities, NEW j \in DOMAIN events'[f], events'[f][j].cmd # None
                 PROVE  /\ \A g \in Entities : \A k \in DOMAIN events'[g] :
                             events'[g][k].cmd = events'[f][j].cmd => g = f /\ k = j
                        /\ \E r \in idem' : /\ r.cmd = events'[f][j].cmd
                                            /\ r.entity = f
                                            /\ r.version = events'[f][j].version
      BY DEF AppliedOnce
    <2>1. CASE f = e /\ j = n + 1 /\ events'[f][j] = ev
      <3>1. Reply(p, e, v) \in idem'
        BY <1>3, <2>1, RecordOnce
      <3>2. Reply(p, e, v).cmd = req[p].cmd /\ Reply(p, e, v).entity = e /\ Reply(p, e, v).version = v
        BY DEF Reply
      <3> QED BY <1>3, <1>9, <1>10, <2>1, <3>1, <3>2
    <2>2. CASE j \in DOMAIN events[f] /\ events'[f][j] = events[f][j]
      <3>1. \E r \in idem' : r.cmd = events'[f][j].cmd /\ r.entity = f /\ r.version = events'[f][j].version
        BY <2>2, RecordOnce DEF LogInv, AppliedOnce
      <3>2. ASSUME NEW g \in Entities, NEW k \in DOMAIN events'[g], events'[g][k].cmd = events'[f][j].cmd
            PROVE  g = f /\ k = j
        <4>1. events'[g][k] # ev
          BY <1>3, <1>10, <2>2, <3>2
        <4>2. k \in DOMAIN events[g] /\ events'[g][k] = events[g][k]
          BY <1>9, <4>1
        <4> QED BY <2>2, <3>2, <4>2 DEF LogInv, AppliedOnce
      <3> QED BY <3>1, <3>2
    <2> QED BY <1>9, <2>1, <2>2
  <1>12. AnswersAgree'
    <2>1. ASSUME NEW r \in idem' PROVE \E i \in DOMAIN events'[r.entity] : events'[r.entity][i].version = r.version
      <3>1. CASE r \in idem
        <4>1. r.entity \in Entities
          BY <3>1 DEF Inv, TypeOK, Answer
        <4>2. PICK i \in DOMAIN events[r.entity] : events[r.entity][i].version = r.version
          BY <3>1 DEF LogInv, AnswersAgree
        <4>3. i \in DOMAIN events'[r.entity] /\ events'[r.entity][i] = events[r.entity][i]
          <5>1. CASE r.entity = e
            BY <1>1, <1>6, <4>2, <5>1
          <5>2. CASE r.entity # e
            BY <1>5, <4>1, <4>2, <5>2
          <5> QED BY <5>1, <5>2
        <4> QED BY <4>2, <4>3
      <3>2. CASE r = Reply(p, e, v)
        <4>1. r.entity = e /\ r.version = v
          BY <3>2 DEF Reply
        <4> QED BY <1>1, <1>3, <1>6, <4>1
      <3> QED BY <3>1, <3>2, RecordOnce
    <2> QED BY <2>1, RecordOnce DEF AnswersAgree
  <1> QED BY <1>8, <1>11, <1>12 DEF LogInv

\* A pending request that is only returned has its version in the log.
LEMMA LogReturn ==
    ASSUME Inv, LogInv, NEW p \in Clients, NEW a \in Assists, assists[a].version >= 1,
           UNCHANGED <<rows, events>>,
           insertIdempotencyRecord(p, a, assists[a].version), Respond(p, a, assists[a].version)
    PROVE  LogInv'
  <1> DEFINE v == assists[a].version
  <1>1. EventPerVersion' /\ a \in Entities /\ v \in Nat
    BY DEF LogInv, EventPerVersion, VersionOf, rows, Entities, Inv, TypeOK, AssistRow
  <1>2. AppliedOnce'
    BY RecordOnce DEF LogInv, AppliedOnce
  <1>3. v \in DOMAIN events[a] /\ events[a][v].version = v
    <2>1. VersionOf(a) = v /\ FirstVersion(a) = 1 /\ events[a] \in Seq(Event)
      BY <1>1, IdentifiersDistinct DEF VersionOf, FirstVersion, Inv, TypeOK
    <2>2. Len(events[a]) = v /\ \A i \in DOMAIN events[a] : events[a][i].version = FirstVersion(a) + i - 1
      BY <1>1, <2>1 DEF LogInv, EventPerVersion
    <2>3. DOMAIN events[a] = 1..v
      BY <2>1, <2>2
    <2> QED BY <1>1, <2>1, <2>2, <2>3
  <1>4. AnswersAgree'
    <2>1. ASSUME NEW r \in idem' PROVE \E i \in DOMAIN events'[r.entity] : events'[r.entity][i].version = r.version
      <3>1. CASE r \in idem
        BY <3>1 DEF LogInv, AnswersAgree
      <3>2. CASE r = Reply(p, a, v)
        <4>1. r.entity = a /\ r.version = v
          BY <3>2 DEF Reply
        <4> QED BY <1>3, <4>1
      <3> QED BY <3>1, <3>2, RecordOnce
    <2> QED BY <2>1, RecordOnce DEF AnswersAgree
  <1> QED BY <1>1, <1>2, <1>4 DEF LogInv

LEMMA LogNext == Inv /\ LogInv /\ [Next]_vars => LogInv'
  <1> SUFFICES ASSUME Inv, LogInv, [Next]_vars PROVE LogInv'
    OBVIOUS
  <1>1. ASSUME NEW p \in Clients, commitTable(p) PROVE LogInv'
    <2>1. PICK t \in Tables : t = req[p].table
      BY <1>1, TableCommit
    <2>2. PICK o \in OccupancyRow : o = work[p].occ
      BY <1>1, TableCommit
    <2>3. o.version = occupancy[t].version + 1 /\ occupancy' = [occupancy EXCEPT ![t] = o] /\ UNCHANGED assists
      BY <1>1, <2>1, <2>2, TableCommit DEF commitTable
    <2>4. occupancy[t].version \in Nat /\ occupancy[t].version >= 1 /\ o.version \in Nat
      BY <2>1, <2>2 DEF Inv, TypeOK, OccupancyRow, SessionInv
    <2>5. occupancy'[t] = o /\ \A u \in Tables \ {t} : occupancy'[u] = occupancy[u]
      BY <2>1, <2>3 DEF Inv, TypeOK
    <2>6. VersionOf(t) = occupancy[t].version /\ FirstVersion(t) = 2 /\ VersionOf(t)' = o.version
      BY <2>1, <2>5 DEF VersionOf, FirstVersion
    <2>7. \A f \in Entities \ {t} : VersionOf(f)' = VersionOf(f)
      BY <2>3, <2>5 DEF VersionOf, Entities
    <2>8. /\ pc[p] = "commit" /\ writeOperationalEvent(p, t, o.version)
          /\ insertIdempotencyRecord(p, t, o.version) /\ Respond(p, t, o.version)
      BY <1>1, <2>1, <2>2 DEF commitTable
    <2> QED BY <2>1, <2>3, <2>4, <2>6, <2>7, <2>8, LogCommit DEF Entities
  <1>2. ASSUME NEW p \in Clients, commitAssist(p) PROVE LogInv'
    <2>1. PICK a \in Assists : a = work[p].assist
      BY <1>2, AssistCommit
    <2>2. PICK row \in AssistRow : row = work[p].row
      BY <1>2, AssistCommitRow
    <2>3. /\ pc[p] = "commit" /\ insertIdempotencyRecord(p, a, row.version) /\ Respond(p, a, row.version)
          /\ UNCHANGED <<occupancy, sessions>>
      BY <1>2, <2>1, <2>2 DEF commitAssist
    <2>4. /\ assists'[a] = row /\ \A b \in Assists \ {a} : assists'[b] = assists[b]
          /\ row.version >= 1
          /\ work[p].op # "none" => row.version = assists[a].version + 1
          /\ work[p].op = "none" => row = assists[a]
      BY <1>2, <2>1, <2>2, AssistCommitRow
    <2>5. row.version \in Nat /\ assists[a].version \in Nat
      BY <2>1, <2>2 DEF AssistRow, Inv, TypeOK
    <2>6. CASE work[p].op # "none"
      <3>1. VersionOf(a) = assists[a].version /\ FirstVersion(a) = 1 /\ VersionOf(a)' = row.version
        BY <2>1, <2>4, IdentifiersDistinct DEF VersionOf, FirstVersion
      <3>2. \A f \in Entities \ {a} : VersionOf(f)' = VersionOf(f)
        BY <2>3, <2>4 DEF VersionOf, Entities
      <3>3. writeOperationalEvent(p, a, row.version)
        BY <1>2, <2>1, <2>2, <2>6 DEF commitAssist, writesAssist
      <3> QED BY <2>1, <2>3, <2>4, <2>5, <2>6, <3>1, <3>2, <3>3, LogCommit DEF Entities
    <2>7. CASE work[p].op = "none"
      <3>1. UNCHANGED <<rows, events>>
        BY <1>2, <2>7 DEF commitAssist, writesAssist, rows
      <3> QED BY <2>1, <2>3, <2>4, <2>7, <3>1, LogReturn
    <2> QED BY <2>6, <2>7
  <1>3. CASE UNCHANGED <<rows, idem, events>> /\ replies' \subseteq replies \cup idem
    BY <1>3, LogKept
  <1>4. ASSUME NEW p \in Clients, Send(p) PROVE LogInv'
    BY <1>3, <1>4 DEF Send, SendTableCommand, SendRequestAssist, SendAssistCommand, SendGuestRequest, SendGuestCancel,
                      Arrive, log
  <1>5. ASSUME NEW p \in Clients, Step(p) PROVE LogInv'
    <2>1. CASE getIdempotencyReplay(p)
      BY <1>3, <2>1 DEF getIdempotencyReplay, Goto, log
    <2> QED BY <1>1, <1>2, <1>3, <1>5, <2>1
            DEF Step, occupyTableInTx, clearTableInTx, RequestAssist, changeAssistInTx, lockGuestTable,
                GetPendingGuestAssistByAction, createGuestAssist, readGuestAssist,
                CancelPendingGuestAssistRequest, duplicateCommand, Goto, Reject, Write, log
  <1>6. ASSUME NEW p \in Clients, rollback(p) PROVE LogInv'
    BY <1>3, <1>6 DEF rollback, Reject, log
  <1>7. ASSUME NEW a \in Assists, CooldownElapses(a) PROVE LogInv'
    BY <1>3, <1>7 DEF CooldownElapses, log
  <1>8. CASE UNCHANGED vars
    BY <1>3, <1>8 DEF vars, log
  <1> QED BY <1>4, <1>5, <1>6, <1>7, <1>8 DEF Next

LEMMA LogInvariance == Spec => []LogInv
  BY LogInit, LogNext, Invariance, PTL DEF Spec

\* The events of a row are exactly its versions, in commit order, none
\* missing and none twice.
THEOREM EventsComplete == Spec => []EventPerVersion
  <1>1. LogInv => EventPerVersion
    BY DEF LogInv
  <1> QED BY <1>1, LogInvariance, PTL

\* However often a command id is sent, and at the same time, it takes effect
\* once.
THEOREM ExactlyOnce == Spec => []AppliedOnce
  <1>1. LogInv => AppliedOnce
    BY DEF LogInv
  <1> QED BY <1>1, LogInvariance, PTL

\* Every successful answer to a command id is the recorded one.
THEOREM SameAnswer == Spec => []AnswersAgree
  <1>1. LogInv => AnswersAgree
    BY DEF LogInv
  <1> QED BY <1>1, LogInvariance, PTL
=============================================================================
