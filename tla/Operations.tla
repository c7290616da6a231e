----------------------------- MODULE Operations -----------------------------
(***************************************************************************)
(* The operations service: staff and guest commands on tables and assist   *)
(* requests, run as READ COMMITTED transactions by concurrent API          *)
(* requests.  A command looks up its idempotency record, takes the row     *)
(* lock of the table or the assist it works on, checks, writes rows that   *)
(* stay private to the transaction, and commits them together with the     *)
(* operational event and the idempotency record.  It may roll back at any  *)
(* point, and an answer may be lost after the commit; the client then      *)
(* sends the same command again.                                           *)
(***************************************************************************)
EXTENDS FloorTypes, FiniteSets, Sequences

CONSTANTS
    Clients,    \* API requests that can be in flight at the same time
    Commands,   \* command ids clients may send more than once
    MaxLag      \* bound: how many versions behind a client may be when it sends

ASSUME NoneIsNoCommand == None \notin Commands
ASSUME LagIsNat == MaxLag \in Nat

VARIABLES
    occupancy, sessions, assists,   \* committed rows
    cooling,    \* guest assists requested less than defaultGuestCooldown ago
    idem,       \* api_idempotency_records
    events,     \* operational_events of each entity in commit order (history)
    replies,    \* successful answers clients have received (history)
    pc,         \* where each request is in its transaction
    req,        \* the command each request carries
    work        \* rows written by the transaction, not committed yet

rows == <<occupancy, sessions, assists>>
log == <<idem, events, replies>>
vars == <<rows, cooling, log, pc, req, work>>

\* The committed rows are the floor.
Abstract == INSTANCE Floor WITH occupancy <- occupancy, sessions <- sessions, assists <- assists

-----------------------------------------------------------------------------
(* Commands and what a transaction holds                                   *)

TableCommands == {"table.occupy", "table.clear", "assist.request", "guest.request"}
AssistCommands == {"assist.acknowledge", "assist.resolve", "assist.cancel"}
Kinds == TableCommands \cup AssistCommands \cup {"guest.cancel"}

NextStatus(kind) ==
    CASE kind = "assist.acknowledge" -> "acknowledged"
      [] kind = "assist.resolve" -> "resolved"
      [] OTHER -> "cancelled"

\* None: no command id (uuid.Nil), or one that is never sent again.
CommandIds == Commands \cup {None}

Request ==
    [kind : Kinds, cmd : CommandIds, table : Tables \cup {None},
     assist : Assists \cup {None}, version : Nat, action : Actions \cup {None}]

\* The hash covers the request's body; table and assist are in the URL.
PayloadHash(r) == <<r.version, r.action>>

Entities == Tables \cup Assists
Event == [version : Nat, cmd : CommandIds]
Answer ==
    [cmd : Commands, type : Kinds, hash : Nat \X (Actions \cup {None}),
     entity : Entities, version : Nat]

\* Rows a transaction has written: the occupancy and session row of the
\* command's table, or an assist row it inserts, updates or only returns.
Work ==
    [session : Sessions \cup {None}, occ : OccupancyRow \cup {None},
     assist : Assists \cup {None}, row : AssistRow \cup {None},
     op : {"none", "insert", "update"}]
NoWork == [session |-> None, occ |-> None, assist |-> None, row |-> None, op |-> "none"]
TableWork(s, o) == [session |-> s, occ |-> o, assist |-> None, row |-> None, op |-> "none"]
AssistWork(a, row, op) == [session |-> None, occ |-> None, assist |-> a, row |-> row, op |-> op]

\* FOR UPDATE locks last from the statement that takes them to the end of
\* the transaction.
HoldsOccupancy(p, t) ==
    /\ pc[p] \in {"pending", "create", "commit"}
    /\ req[p].kind \in TableCommands
    /\ req[p].table = t
HoldsAssist(p, a) == pc[p] = "commit" /\ work[p].assist = a

\* Mutant: the row is read without FOR UPDATE.
MutantNoOccupancyLock(p, t) == TRUE

OccupancyFree(p, t) == \A q \in Clients \ {p} : ~HoldsOccupancy(q, t)

AssistFree(p, a) == \A q \in Clients \ {p} : ~HoldsAssist(q, a)

\* gen_random_uuid: an identifier no row and no transaction has.
FreshSession(s) == sessions[s].state = "unused" /\ \A q \in Clients : work[q].session # s
FreshAssist(a) == assists[a].status = "unused" /\ \A q \in Clients : work[q].assist # a

Recorded(p) == \E r \in idem : r.cmd = req[p].cmd

\* The transaction is over, committed or rolled back.
Finish(p) ==
    /\ pc' = [pc EXCEPT ![p] = "idle"]
    /\ req' = [req EXCEPT ![p] = None]
    /\ work' = [work EXCEPT ![p] = NoWork]
\* Mutant: the function returns and leaves the transaction open.
MutantNoRollback(p) ==
    /\ pc' = [pc EXCEPT ![p] = "open"]
    /\ UNCHANGED <<rows, cooling, log, req, work>>

Reject(p) == Finish(p) /\ UNCHANGED <<rows, cooling, log>>
Goto(p, label) == pc' = [pc EXCEPT ![p] = label] /\ UNCHANGED <<rows, cooling, log, req, work>>
Write(p, w) ==
    /\ pc' = [pc EXCEPT ![p] = "commit"]
    /\ work' = [work EXCEPT ![p] = w]
    /\ UNCHANGED <<rows, cooling, log, req>>

-----------------------------------------------------------------------------
Init ==
    /\ occupancy = [t \in Tables |-> NewOccupancy]
    /\ sessions = [s \in Sessions |-> UnusedSession]
    /\ assists = [a \in Assists |-> UnusedAssist]
    /\ cooling = {}
    /\ idem = {}
    /\ events = [e \in Entities |-> <<>>]
    /\ replies = {}
    /\ pc = [p \in Clients |-> "idle"]
    /\ req = [p \in Clients |-> None]
    /\ work = [p \in Clients |-> NoWork]

InFlight(kinds) == {q \in Clients : pc[q] # "idle" /\ req[q].kind \in kinds}

\* Bounds of the model: identifiers are left for every command in flight
\* that may need one.
SessionBound ==
    Cardinality({s \in Sessions : sessions[s].state = "unused"})
        > Cardinality(InFlight({"table.occupy"}))
AssistBound ==
    Cardinality({a \in Assists : assists[a].status = "unused"})
        > Cardinality(InFlight({"assist.request", "guest.request"}))

\* Versions a client may have been shown of a row now at version v.
Seen(v) == {w \in 1..v : w + MaxLag >= v}

\* A request arrives at the API.
Arrive(p, r) ==
    /\ pc[p] = "idle"
    /\ pc' = [pc EXCEPT ![p] = "begin"]
    /\ req' = [req EXCEPT ![p] = r]
    /\ UNCHANGED <<rows, cooling, log, work>>

\* Commands a client can send: versions and assists it may have been shown,
\* however stale, under a command id it may have used before.
SendTableCommand(p) ==
    \E t \in Tables, c \in CommandIds, kind \in {"table.occupy", "table.clear"} :
        \E v \in Seen(occupancy[t].version) :
            /\ kind = "table.occupy" => SessionBound
            /\ Arrive(p, [kind |-> kind, cmd |-> c, table |-> t, assist |-> None,
                          version |-> v, action |-> None])

SendRequestAssist(p) ==
    \E t \in Tables :
        /\ AssistBound
        /\ Arrive(p, [kind |-> "assist.request", cmd |-> None, table |-> t, assist |-> None,
                      version |-> 0, action |-> None])

SendAssistCommand(p) ==
    \E a \in Assists, c \in CommandIds, kind \in AssistCommands :
        \E v \in Seen(assists[a].version) :
            Arrive(p, [kind |-> kind, cmd |-> c, table |-> None, assist |-> a,
                       version |-> v, action |-> None])

\* The QR capability was resolved to its table in an earlier transaction.
SendGuestRequest(p) ==
    \E t \in Tables, c \in CommandIds, action \in Actions :
        /\ AssistBound
        /\ Arrive(p, [kind |-> "guest.request", cmd |-> c, table |-> t, assist |-> None,
                      version |-> 0, action |-> action])

SendGuestCancel(p) ==
    \E t \in Tables, c \in CommandIds, a \in Assists :
        /\ assists[a].status # "unused"
        /\ Arrive(p, [kind |-> "guest.cancel", cmd |-> c, table |-> t, assist |-> a,
                      version |-> 0, action |-> None])

-----------------------------------------------------------------------------
(* The idempotency record, read before any row is locked                   *)

Reply(p, entity, version) ==
    [cmd |-> req[p].cmd, type |-> req[p].kind, hash |-> PayloadHash(req[p]),
     entity |-> entity, version |-> version]

\* Mutant: the record's type and payload hash are not compared.
MutantReplayAnything(p) ==
    /\ pc[p] = "begin"
    /\ \/ ~Recorded(p) /\ Goto(p, "execute")
       \/ \E r \in idem :
            /\ r.cmd = req[p].cmd
            /\ replies' = replies \cup {Reply(p, r.entity, r.version)}
            /\ Finish(p)
            /\ UNCHANGED <<rows, cooling, idem, events>>

\* A known command id ends the transaction: the stored answer is sent again,
\* or the id was used for another command and the request is refused.
getIdempotencyReplay(p) ==
    /\ pc[p] = "begin"
    /\ \/ ~Recorded(p) /\ Goto(p, "execute")
       \/ \E r \in idem :
            /\ r.cmd = req[p].cmd
            /\ replies' = IF r.type = req[p].kind /\ r.hash = PayloadHash(req[p])
                            THEN replies \cup {r}
                            ELSE replies
            /\ Finish(p)
            /\ UNCHANGED <<rows, cooling, idem, events>>

-----------------------------------------------------------------------------
(* Staff commands                                                          *)

\* Mutant: expectedVersion is not compared with the locked row.
MutantOccupyAnyVersion(p) ==
    LET t == req[p].table IN
    /\ pc[p] = "execute" /\ req[p].kind = "table.occupy" /\ OccupancyFree(p, t)
    /\ IF occupancy[t].status = "available"
         THEN \E s \in Sessions :
                /\ FreshSession(s)
                /\ Write(p, TableWork(s, Occupied(occupancy[t], s)))
         ELSE Reject(p)

occupyTableInTx(p) ==
    LET t == req[p].table
        o == occupancy[t]
    IN  /\ pc[p] = "execute"
        /\ req[p].kind = "table.occupy"
        /\ OccupancyFree(p, t)
        /\ \/ /\ o.status = "available"
              /\ o.version = req[p].version
              /\ \E s \in Sessions :
                   /\ FreshSession(s)
                   /\ Write(p, TableWork(s, Occupied(o, s)))
           \/ /\ o.status = "occupied" \/ o.version # req[p].version
              /\ Reject(p)

\* Mutant: the session is left open.
MutantClearKeepsSession(p) ==
    LET t == req[p].table IN
    /\ pc[p] = "execute" /\ req[p].kind = "table.clear" /\ OccupancyFree(p, t)
    /\ IF occupancy[t].status = "occupied" /\ occupancy[t].version = req[p].version
         THEN Write(p, TableWork(None, Cleared(occupancy[t])))
         ELSE Reject(p)

clearTableInTx(p) ==
    LET t == req[p].table
        o == occupancy[t]
    IN  /\ pc[p] = "execute"
        /\ req[p].kind = "table.clear"
        /\ OccupancyFree(p, t)
        /\ \/ /\ o.status = "occupied"
              /\ o.version = req[p].version
              /\ o.session # None
              /\ Write(p, TableWork(o.session, Cleared(o)))
           \/ /\ o.status = "available" \/ o.version # req[p].version \/ o.session = None
              /\ Reject(p)

RequestAssist(p) ==
    LET t == req[p].table
    IN  /\ pc[p] = "execute"
        /\ req[p].kind = "assist.request"
        /\ OccupancyFree(p, t)
        /\ \E a \in Assists :
             /\ FreshAssist(a)
             /\ Write(p, AssistWork(a, NewAssist(t, occupancy[t].session, "staff", None), "insert"))

changeAssistInTx(p) ==
    LET a == req[p].assist
        next == NextStatus(req[p].kind)
        allowed == /\ assists[a].version = req[p].version
                   /\ validAssistTransition(assists[a].status, next)
    IN  /\ pc[p] = "execute"
        /\ req[p].kind \in AssistCommands
        /\ AssistFree(p, a)
        /\ \/ allowed /\ Write(p, AssistWork(a, Changed(assists[a], next), "update"))
           \/ ~allowed /\ Reject(p)

-----------------------------------------------------------------------------
(* Guest commands: several statements, each with its own snapshot          *)

\* Mutant: the table need not be occupied.
MutantGuestNoSession(p) ==
    /\ pc[p] = "execute" /\ req[p].kind = "guest.request" /\ OccupancyFree(p, req[p].table)
    /\ Goto(p, "pending")

\* CreateGuestRequest locks the occupancy row and wants a seated party.
lockGuestTable(p) ==
    LET o == occupancy[req[p].table]
    IN  /\ pc[p] = "execute"
        /\ req[p].kind = "guest.request"
        /\ OccupancyFree(p, req[p].table)
        /\ \/ o.status = "occupied" /\ o.session # None /\ Goto(p, "pending")
           \/ (o.status # "occupied" \/ o.session = None) /\ Reject(p)

\* A pending request of the party for the action is returned as it is, once
\* its row lock is free.
GetPendingGuestAssistByAction(p) ==
    LET t == req[p].table
        pending == PendingGuest(assists, t, occupancy[t].session, req[p].action)
    IN  /\ pc[p] = "pending"
        /\ \/ \E a \in pending :
                /\ AssistFree(p, a)
                /\ Write(p, AssistWork(a, assists[a], "none"))
           \/ pending = {} /\ Goto(p, "create")

\* The cooldown of the latest finished request, then the insert.
createGuestAssist(p) ==
    LET t == req[p].table
        s == occupancy[t].session
        limited == \E a \in cooling :
                     /\ assists[a].table = t /\ assists[a].session = s
                     /\ assists[a].source = "guest_qr" /\ assists[a].action = req[p].action
                     /\ assists[a].status \in {"resolved", "cancelled"}
    IN  /\ pc[p] = "create"
        /\ \/ limited /\ Reject(p)
           \/ /\ ~limited
              /\ \E a \in Assists :
                   /\ FreshAssist(a)
                   /\ Write(p, AssistWork(a, NewAssist(t, s, "guest_qr", req[p].action), "insert"))

\* CancelGuestRequest reads the assist without a lock ...
readGuestAssist(p) ==
    LET row == assists[req[p].assist]
        pending == /\ row.table = req[p].table
                   /\ row.source = "guest_qr"
                   /\ row.status = "pending"
    IN  /\ pc[p] = "execute"
        /\ req[p].kind = "guest.cancel"
        /\ \/ pending /\ Goto(p, "update")
           \/ ~pending /\ Reject(p)

\* Mutant: the UPDATE does not repeat the status it was decided on.
MutantCancelWhatWasRead(p) ==
    /\ pc[p] = "update"
    /\ AssistFree(p, req[p].assist)
    /\ Write(p, AssistWork(req[p].assist, Changed(assists[req[p].assist], "cancelled"), "update"))

\* ... and its UPDATE waits for the row and looks at the status again.
CancelPendingGuestAssistRequest(p) ==
    LET a == req[p].assist
    IN  /\ pc[p] = "update"
        /\ AssistFree(p, a)
        /\ \/ /\ assists[a].status = "pending"
              /\ Write(p, AssistWork(a, Changed(assists[a], "cancelled"), "update"))
           \/ assists[a].status # "pending" /\ Reject(p)

-----------------------------------------------------------------------------
(* The end of the transaction                                              *)

\* Mutant: a second record replaces the first.
MutantUpsertRecord(p, entity, version) ==
    idem' = IF req[p].cmd = None THEN idem
            ELSE {r \in idem : r.cmd # req[p].cmd} \cup {Reply(p, entity, version)}

\* The record's key is unique: the transaction that comes second fails here.
insertIdempotencyRecord(p, entity, version) ==
    /\ ~Recorded(p)
    /\ idem' = IF req[p].cmd = None THEN idem ELSE idem \cup {Reply(p, entity, version)}

\* Mutant: the event is written after the commit, and may not be.
MutantEventAfterCommit(p, entity, version) ==
    \/ events' = [events EXCEPT ![entity] = Append(@, [version |-> version, cmd |-> req[p].cmd])]
    \/ UNCHANGED events

\* The event row; one outbox record per destination goes in with it.
writeOperationalEvent(p, entity, version) ==
    events' = [events EXCEPT ![entity] = Append(@, [version |-> version, cmd |-> req[p].cmd])]

\* The answer reaches the client, or is lost with the connection.
Respond(p, entity, version) ==
    \/ req[p].cmd # None /\ replies' = replies \cup {Reply(p, entity, version)}
    \/ UNCHANGED replies

commitTable(p) ==
    LET t == req[p].table
        w == work[p]
    IN  /\ pc[p] = "commit"
        /\ req[p].kind \in {"table.occupy", "table.clear"}
        /\ occupancy' = [occupancy EXCEPT ![t] = w.occ]
        /\ sessions' = IF w.session = None THEN sessions
                       ELSE [sessions EXCEPT ![w.session] =
                               [table |-> t,
                                state |-> IF w.occ.status = "occupied" THEN "active" ELSE "ended"]]
        /\ writeOperationalEvent(p, t, w.occ.version)
        /\ insertIdempotencyRecord(p, t, w.occ.version)
        /\ Respond(p, t, w.occ.version)
        /\ Finish(p)
        /\ UNCHANGED <<assists, cooling>>

\* A guest request that found a pending one writes no row and no event.
writesAssist(p) == work[p].op # "none"

commitAssist(p) ==
    LET w == work[p]
    IN  /\ pc[p] = "commit"
        /\ req[p].kind \notin {"table.occupy", "table.clear"}
        /\ IF writesAssist(p)
             THEN /\ assists' = [assists EXCEPT ![w.assist] = w.row]
                  /\ writeOperationalEvent(p, w.assist, w.row.version)
             ELSE UNCHANGED <<assists, events>>
        /\ cooling' = IF w.op = "insert" /\ w.row.source = "guest_qr" THEN cooling \cup {w.assist} ELSE cooling
        /\ insertIdempotencyRecord(p, w.assist, w.row.version)
        /\ Respond(p, w.assist, w.row.version)
        /\ Finish(p)
        /\ UNCHANGED <<occupancy, sessions>>

\* The insert of the idempotency record met another transaction's.
duplicateCommand(p) == pc[p] = "commit" /\ Recorded(p) /\ Reject(p)

\* Any statement may fail: the server or the database goes away, or the
\* client's context is cancelled.
rollback(p) == pc[p] # "idle" /\ Reject(p)

\* defaultGuestCooldown passes; nobody can tell before the request has ended.
CooldownElapses(a) ==
    /\ a \in cooling
    /\ assists[a].status \in {"resolved", "cancelled"}
    /\ cooling' = cooling \ {a}
    /\ UNCHANGED <<rows, log, pc, req, work>>

-----------------------------------------------------------------------------
\* The steps of one request once it has arrived.
Step(p) ==
    \/ getIdempotencyReplay(p)
    \/ occupyTableInTx(p) \/ clearTableInTx(p) \/ RequestAssist(p) \/ changeAssistInTx(p)
    \/ lockGuestTable(p) \/ GetPendingGuestAssistByAction(p) \/ createGuestAssist(p)
    \/ readGuestAssist(p) \/ CancelPendingGuestAssistRequest(p)
    \/ commitTable(p) \/ commitAssist(p) \/ duplicateCommand(p)

Send(p) ==
    \/ SendTableCommand(p) \/ SendRequestAssist(p) \/ SendAssistCommand(p)
    \/ SendGuestRequest(p) \/ SendGuestCancel(p)

Next ==
    \/ \E p \in Clients : Send(p) \/ Step(p) \/ rollback(p)
    \/ \E a \in Assists : CooldownElapses(a)

Spec == Init /\ [][Next]_vars

\* PostgreSQL queues the waiters of a row lock, so a transaction that waits
\* for a lock that is freed again and again gets it: strong fairness.  No
\* request has to arrive, fail or cool down.
FairSpec == Spec /\ \A p \in Clients : SF_vars(Step(p))

-----------------------------------------------------------------------------
(* Properties                                                              *)

PC == {"idle", "begin", "execute", "pending", "create", "update", "commit"}

\* Every variable holds rows, records and labels of the declared shapes.
TypeOK ==
    /\ occupancy \in [Tables -> OccupancyRow]
    /\ sessions \in [Sessions -> SessionRow]
    /\ assists \in [Assists -> AssistRow]
    /\ cooling \subseteq Assists
    /\ idem \subseteq Answer
    /\ events \in [Entities -> Seq(Event)]
    /\ replies \subseteq Answer
    /\ pc \in [Clients -> PC]
    /\ req \in [Clients -> Request \cup {None}]
    /\ work \in [Clients -> Work]

\* Occupying and clearing keep the two tables in step: an occupied row points
\* to an active session of that table, and no other session of the table is
\* active; an available row has none.
OneActiveSession ==
    \A t \in Tables :
        {s \in Sessions : sessions[s].table = t /\ sessions[s].state = "active"}
            = IF occupancy[t].status = "occupied" THEN {occupancy[t].session} ELSE {}

\* Commands on the same row never overwrite each other: an occupancy row only
\* changes in the transaction of a command that named the version it replaces.
ExpectedVersionHonoured ==
    [][\A t \in Tables : occupancy'[t] # occupancy[t] =>
          /\ occupancy'[t].version = occupancy[t].version + 1
          /\ \E p \in Clients : /\ pc[p] = "commit" /\ req[p].table = t
                                /\ req[p].kind \in {"table.occupy", "table.clear"}
                                /\ req[p].version = occupancy[t].version]_vars

VersionOf(e) == IF e \in Tables THEN occupancy[e].version ELSE assists[e].version
\* A table is created at version 1 without an event; an assist with one.
FirstVersion(e) == IF e \in Tables THEN 2 ELSE 1

\* The event stream tells the whole history of every row: the events of an
\* entity carry, in commit order, each version it went through, exactly once.
EventPerVersion ==
    \A e \in Entities :
        /\ Len(events[e]) = VersionOf(e) + 1 - FirstVersion(e)
        /\ \A i \in DOMAIN events[e] : events[e][i].version = FirstVersion(e) + i - 1

\* A command id takes effect once, however often and concurrently it is sent,
\* and the record says what it did.
AppliedOnce ==
    \A e \in Entities : \A i \in DOMAIN events[e] : events[e][i].cmd # None =>
        /\ \A f \in Entities : \A j \in DOMAIN events[f] :
             events[f][j].cmd = events[e][i].cmd => f = e /\ j = i
        /\ \E r \in idem : /\ r.cmd = events[e][i].cmd
                           /\ r.entity = e
                           /\ r.version = events[e][i].version

\* All successful answers to one command id are the same, first answer and
\* replays, to the same command, and they speak of a version that was
\* committed.
AnswersAgree ==
    /\ replies \subseteq idem
    /\ \A r, u \in idem : r.cmd = u.cmd => r = u
    /\ \A r \in idem : \E i \in DOMAIN events[r.entity] :
         events[r.entity][i].version = r.version

\* A party has at most one pending request per guest action, although no
\* unique index says so: only the occupancy lock does.
OnePendingPerAction ==
    \A a, b \in Assists :
        /\ assists[a].status = "pending" /\ assists[a].source = "guest_qr"
        /\ assists[b].status = "pending" /\ assists[b].source = "guest_qr"
        /\ assists[a].session = assists[b].session
        /\ assists[a].action = assists[b].action
        => a = b

\* A guest request belongs to a session its own table had.
GuestAssistHasSession ==
    \A a \in Assists : assists[a].source = "guest_qr" =>
        /\ assists[a].session \in Sessions
        /\ sessions[assists[a].session].table = assists[a].table
        /\ sessions[assists[a].session].state # "unused"

\* Transactions, locks and retries are invisible: the rows change as the
\* abstract floor lets them.
ImplementsFloor == Abstract!Spec

\* Row locks are always given back: every command that arrives ends.
CommandsEnd == \A p \in Clients : pc[p] # "idle" ~> pc[p] = "idle"
=============================================================================
