----------------------------- MODULE Integrations -----------------------------
(***************************************************************************)
(* A connection to a vendor's point of sale.  The vendor delivers webhooks,*)
(* as often as it likes; each is recorded in the inbox and then applied.   *)
(* Managers replay them, change the mapping of the vendor's table and have *)
(* the connection reconciled, which the worker also does by itself.  Every *)
(* call of the service below is a transaction of its own: what it has read *)
(* may be out of date in the next.  Staff and guests go on meanwhile.      *)
(***************************************************************************)
EXTENDS Naturals, FiniteSets

CONSTANTS
    Tables,
    None,
    Hooks,          \* external events: <<status the vendor reports, number>>
    Workers,        \* requests and runs in progress at the same time
    MaxVersion      \* bound: version of a table_occupancy row

ASSUME IntegrationsBounds ==
    /\ MaxVersion \in Nat \ {0} /\ None \notin Tables
    /\ \A h \in Hooks : h[1] \in {"occupied", "available"}

VARIABLES
    tables,     \* table_occupancy: status and version
    assists,    \* tables with a pending or acknowledged assist
    mapping,    \* the table the vendor's table is mapped to, or None
    inbox,      \* integration_webhook_inbox
    applied,    \* how often deliveries of an event changed a table (history)
    connection, \* status of the connection
    slot        \* what each worker is doing

venue == <<tables, assists>>
vars == <<venue, mapping, inbox, applied, connection, slot>>

-----------------------------------------------------------------------------
Statuses == {"occupied", "available"}
NoHook == [state |-> "none", valid |-> FALSE]
NoEvent == <<"none", 0>>

\* overtaken: the table was changed after it was looked at (history).
At(stage, kind, hook, status, outcome) ==
    [stage |-> stage, kind |-> kind, hook |-> hook, table |-> None, status |-> status,
     version |-> 0, outcome |-> outcome, overtaken |-> FALSE]
Idle == At("idle", "none", NoEvent, "none", "none")

Init ==
    /\ tables = [t \in Tables |-> [status |-> "available", version |-> 1]]
    /\ assists = {} /\ mapping = None
    /\ inbox = [h \in Hooks |-> NoHook]
    /\ applied = [h \in Hooks |-> 0]
    /\ connection = "connected"
    /\ slot = [w \in Workers |-> Idle]

Step(w, change) == slot' = [slot EXCEPT ![w] = change]
Ends(w, outcome) ==
    At(IF slot[w].kind = "run" THEN "finish" ELSE "mark", slot[w].kind, slot[w].hook, "none", outcome)
Rest == UNCHANGED <<venue, mapping, inbox, applied, connection>>

-----------------------------------------------------------------------------
(* What goes on at the tables                                              *)

Others == UNCHANGED <<mapping, inbox, applied, connection>>

\* Whoever has looked at table t and means to write it is overtaken.
Overtakes(t) ==
    [w \in Workers |-> IF slot[w].table = t /\ slot[w].version # 0
                         THEN [slot[w] EXCEPT !.overtaken = TRUE] ELSE slot[w]]

Changed(t, status) == [tables EXCEPT ![t] = [status |-> status, version |-> @.version + 1]]

StaffChange(t) ==
    /\ tables[t].version < MaxVersion
    /\ \E status \in Statuses \ {tables[t].status} : tables' = Changed(t, status)
    /\ slot' = Overtakes(t)
    /\ UNCHANGED assists /\ Others

RequestAssist(t) ==
    /\ t \notin assists
    /\ assists' = assists \cup {t}
    /\ UNCHANGED <<tables, slot>> /\ Others

CloseAssist(t) ==
    /\ t \in assists
    /\ assists' = assists \ {t}
    /\ UNCHANGED <<tables, slot>> /\ Others

UpdateMapping(t) ==
    /\ mapping # t
    /\ mapping' = t
    /\ UNCHANGED <<venue, inbox, applied, connection, slot>>

-----------------------------------------------------------------------------
(* Webhooks                                                                *)

Applying(kind, h) == At("mapping", kind, h, h[1], "none")
Skipping(kind, h) == At("mark", kind, h, "none", "skipped")

\* Mutant: a delivery goes on unless the event has been processed.
MutantUnlessProcessed(h) == inbox[h].state # "processed"
\* INSERT ... ON CONFLICT DO NOTHING: the first delivery of an event.
insertWebhook(h) == inbox[h] = NoHook

\* Later deliveries are answered with what is recorded.
ReceiveWebhook(w, h, valid) ==
    /\ slot[w] = Idle
    /\ IF insertWebhook(h)
         THEN /\ inbox' = [inbox EXCEPT ![h] = [state |-> "received", valid |-> valid]]
              /\ Step(w, IF valid THEN Applying("delivery", h) ELSE Skipping("delivery", h))
         ELSE UNCHANGED <<inbox, slot>>
    /\ UNCHANGED <<venue, mapping, applied, connection>>

\* Whatever has become of it, if its signature was good when it came.
ReplayWebhook(w, h) ==
    /\ slot[w] = Idle /\ inbox[h] # NoHook
    /\ Step(w, IF inbox[h].valid THEN Applying("replay", h) ELSE Skipping("replay", h))
    /\ Rest

markWebhook(w) ==
    LET s == slot[w]
    IN  /\ s.stage = "mark"
        /\ inbox' = [inbox EXCEPT ![s.hook].state = s.outcome]
        /\ connection' = IF s.outcome = "processed" THEN "connected" ELSE connection
        /\ Step(w, Idle)
        /\ UNCHANGED <<venue, mapping, applied>>

-----------------------------------------------------------------------------
(* Reconciliation of the vendor's table                                    *)

\* What the vendor says of its table when it is asked.
FetchExternalStatus == Statuses

\* The run is recorded and the vendor asked.  With no answer the run has
\* failed.
reconcileConnection(w) ==
    /\ slot[w] = Idle
    /\ \/ \E status \in FetchExternalStatus : Step(w, At("mapping", "run", NoEvent, status, "none"))
       \/ Step(w, At("finish", "run", NoEvent, "none", "failed"))
    /\ Rest

hasActiveAssists(t) == t \in assists

\* With an assist the discrepancy is left for review.  Otherwise it is
\* recorded as corrected before the correction is tried.
reconcileTableState(w) ==
    /\ slot[w].stage = "assists"
    /\ Step(w, IF hasActiveAssists(slot[w].table) THEN Ends(w, "completed")
               ELSE [slot[w] EXCEPT !.stage = "apply"])
    /\ Rest

finishRun(w) ==
    /\ slot[w].stage = "finish"
    /\ connection' = IF slot[w].outcome = "completed" THEN "connected" ELSE "degraded"
    /\ Step(w, Idle)
    /\ UNCHANGED <<venue, mapping, inbox, applied>>

-----------------------------------------------------------------------------
(* Shared by both                                                          *)

\* A webhook for an unmapped table fails; a run records it for review.
mappingByExternalID(w) ==
    /\ slot[w].stage = "mapping"
    /\ Step(w, IF mapping # None THEN [slot[w] EXCEPT !.stage = "look", !.table = mapping]
               ELSE Ends(w, IF slot[w].kind = "run" THEN "completed" ELSE "failed"))
    /\ Rest

Done(w) == Ends(w, IF slot[w].kind = "run" THEN "completed" ELSE "processed")

currentTableState(w) ==
    LET s == slot[w]
    IN  /\ s.stage = "look"
        /\ Step(w, IF tables[s.table].status = s.status THEN Done(w)
                   ELSE [s EXCEPT !.stage = IF s.kind = "run" THEN "assists" ELSE "apply",
                                  !.version = tables[s.table].version])
        /\ Rest

\* Mutant: the command is sent without the version that was seen.
MutantAnyVersion(w) == TRUE
ExpectedVersion(w) == tables[slot[w].table].version = slot[w].version

\* The command of the operations service.  A table that already is in that
\* status is no error.
applyTableState(w) ==
    LET s == slot[w]
        t == s.table
        write == tables[t].status # s.status /\ ExpectedVersion(w)
    IN  /\ s.stage = "apply" /\ (write => tables[t].version < MaxVersion)
        /\ tables' = IF write THEN Changed(t, s.status) ELSE tables
        /\ applied' = IF write /\ s.kind = "delivery" THEN [applied EXCEPT ![s.hook] = @ + 1] ELSE applied
        /\ slot' = [(IF write THEN Overtakes(t) ELSE slot) EXCEPT
                      ![w] = IF write \/ tables[t].status = s.status THEN Done(w) ELSE Ends(w, "failed")]
        /\ UNCHANGED <<assists, mapping, inbox, connection>>

\* A lookup or the command fails and nothing is written: the webhook is marked
\* failed, the run finished as failed.
fails(w) ==
    /\ slot[w].stage \in {"mapping", "look", "assists", "apply"}
    /\ Step(w, Ends(w, "failed"))
    /\ Rest

\* The process dies, or the last statement of all fails: nothing is marked or
\* finished.
crash(w) ==
    /\ slot[w] # Idle
    /\ Step(w, Idle)
    /\ Rest

-----------------------------------------------------------------------------
Next ==
    \/ \E t \in Tables : StaffChange(t) \/ RequestAssist(t) \/ CloseAssist(t)
    \/ \E t \in Tables \cup {None} : UpdateMapping(t)
    \/ \E w \in Workers :
        \/ \E h \in Hooks : ReplayWebhook(w, h) \/ \E valid \in BOOLEAN : ReceiveWebhook(w, h, valid)
        \/ reconcileConnection(w) \/ mappingByExternalID(w) \/ currentTableState(w)
        \/ reconcileTableState(w) \/ applyTableState(w) \/ markWebhook(w) \/ finishRun(w)
        \/ fails(w) \/ crash(w)

Spec == Init /\ [][Next]_vars

-----------------------------------------------------------------------------
(* Properties                                                              *)

Applies(w) == slot[w].stage = "apply" /\ slot'[w].stage # "apply" /\ tables' # tables

\* An event changes a table once at most, however often the vendor delivers
\* it, at the same time or after a crash (a manager's replay is another matter).
DeliveredOnce == \A h \in Hooks : applied[h] <= 1

\* Neither a webhook nor a correction is written over a change made at the
\* table since it was looked at.
NoOverwrite == [][\A w \in Workers : Applies(w) => ~slot[w].overtaken]_vars
=============================================================================
