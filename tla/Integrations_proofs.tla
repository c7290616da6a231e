------------------------- MODULE Integrations_proofs -------------------------
(***************************************************************************)
(* Two properties of Integrations, for any number of tables, events and    *)
(* workers.  A worker that means to write a table holds the version it has *)
(* seen, which lies behind the row as soon as anybody else has changed it; *)
(* the delivery that has inserted an event's row is the only one that may  *)
(* still apply it.                                                         *)
(***************************************************************************)
EXTENDS Integrations, TLAPS

Stages == {"idle", "mapping", "look", "assists", "apply", "mark", "finish"}
Slot ==
    [stage : Stages, kind : {"none", "delivery", "replay", "run"}, hook : Hooks \cup {NoEvent},
     table : Tables \cup {None}, status : Statuses \cup {"none"}, version : Nat,
     outcome : {"none", "processed", "failed", "skipped", "completed"}, overtaken : BOOLEAN]

Entry == [state : {"none", "received", "processed", "failed", "skipped"}, valid : BOOLEAN]

TypeInv ==
    /\ tables \in [Tables -> [status : Statuses, version : Nat]]
    /\ assists \subseteq Tables
    /\ mapping \in Tables \cup {None}
    /\ inbox \in [Hooks -> Entry]
    /\ applied \in [Hooks -> Nat]
    /\ slot \in [Workers -> Slot]

Looked == {"assists", "apply"}
Under == {"mapping", "look", "assists", "apply"}

\* A worker that has looked at its table is behind it, or level with it.
LookInv(s) ==
    /\ s.stage \in Looked =>
         /\ s.table \in Tables
         /\ s.version <= tables[s.table].version
         /\ s.overtaken => s.version < tables[s.table].version
    /\ s.stage \notin Looked => s.version = 0 /\ ~s.overtaken
    /\ s.stage = "look" => s.table \in Tables

\* A delivery that has not been applied yet is about an event in the inbox.
HookInv(s) ==
    /\ s.stage \in Under => s.status \in Statuses /\ s.kind # "none"
    /\ s.kind \in {"delivery", "replay"} /\ s.stage # "idle" => s.hook \in Hooks /\ s.stage # "finish"
    /\ s.kind = "run" => s.stage # "mark"
    /\ s.stage = "assists" => s.kind = "run"
    /\ s.stage = "mark" => s.outcome \in {"processed", "failed", "skipped"} /\ s.hook \in Hooks
    /\ s.kind = "delivery" /\ s.stage \in Under => applied[s.hook] = 0 /\ inbox[s.hook] # NoHook

Delivering(s, h) == s.kind = "delivery" /\ s.stage \in Under /\ s.hook = h

Inv ==
    /\ TypeInv
    /\ \A w \in Workers : LookInv(slot[w]) /\ HookInv(slot[w])
    /\ \A h \in Hooks : applied[h] <= 1 /\ (applied[h] # 0 => inbox[h] # NoHook)
    /\ \A w, v \in Workers, h \in Hooks : Delivering(slot[w], h) /\ Delivering(slot[v], h) => w = v

-----------------------------------------------------------------------------
\* An idle worker satisfies all of it.
LEMMA IdleFacts ==
    /\ Idle \in Slot
    /\ LookInv(Idle) /\ HookInv(Idle)
    /\ \A h : ~Delivering(Idle, h)
  BY DEF Idle, At, Slot, Stages, LookInv, HookInv, Delivering, Looked, Under

\* The invariant holds before anything has come in.
LEMMA InitInv == Init => Inv
  <1> SUFFICES ASSUME Init PROVE Inv OBVIOUS
  <1>1. TypeInv BY IdleFacts DEF Init, TypeInv, Entry, Statuses, NoHook
  <1>2. \A w \in Workers : slot[w] = Idle BY DEF Init
  <1>3. \A h \in Hooks : applied[h] = 0 BY DEF Init
  <1> QED BY <1>1, <1>2, <1>3, IdleFacts DEF Inv

\* A worker that takes a step of its own: the tables, assists and mapping stay,
\* what is in the inbox stays there.
LEMMA LocalStep ==
    ASSUME Inv, NEW w \in Workers, NEW s \in Slot, slot' = [slot EXCEPT ![w] = s],
           UNCHANGED <<tables, assists, mapping, applied>>,
           inbox' \in [Hooks -> Entry],
           \A h \in Hooks : inbox[h] # NoHook => inbox'[h] # NoHook,
           LookInv(s), HookInv(s)',
           \A h \in Hooks, v \in Workers \ {w} : Delivering(s, h) => ~Delivering(slot[v], h)
    PROVE  Inv'
  <1>1. \A v \in Workers : slot'[v] = IF v = w THEN s ELSE slot[v] BY DEF Inv, TypeInv
  <1>2. TypeInv' BY DEF Inv, TypeInv
  <1>3. ASSUME NEW v \in Workers PROVE LookInv(slot[v])' /\ HookInv(slot[v])'
    <2>1. CASE v = w
      <3>1. slot'[v] = s BY <1>1, <2>1
      <3>2. LookInv(slot[v])' BY <3>1 DEF LookInv
      <3>4. HookInv(slot[v])' BY <3>1 DEF HookInv
      <3> QED BY <3>2, <3>4
    <2>2. CASE v # w
      <3>1. slot'[v] = slot[v] BY <1>1, <2>2
      <3>2. LookInv(slot[v]) /\ HookInv(slot[v]) BY DEF Inv
      <3>3. LookInv(slot[v])' BY <3>1, <3>2 DEF LookInv
      <3>4. HookInv(slot[v])' BY <3>1, <3>2 DEF HookInv, Under
      <3> QED BY <3>3, <3>4
    <2> QED BY <2>1, <2>2
  <1>4. ASSUME NEW v \in Workers, NEW u \in Workers, NEW h \in Hooks,
               Delivering(slot[v], h)', Delivering(slot[u], h)'
        PROVE  v = u
    BY <1>1, <1>4 DEF Inv, Delivering
  <1>5. \A h \in Hooks : applied'[h] <= 1 /\ (applied'[h] # 0 => inbox'[h] # NoHook) BY DEF Inv
  <1> QED BY <1>2, <1>3, <1>4, <1>5 DEF Inv

\* The same when the inbox stays too and no new delivery begins.
LEMMA QuietStep ==
    ASSUME Inv, NEW w \in Workers, NEW s \in Slot, slot' = [slot EXCEPT ![w] = s],
           UNCHANGED <<tables, assists, mapping, applied, inbox>>,
           LookInv(s), HookInv(s),
           \A h \in Hooks : Delivering(s, h) => Delivering(slot[w], h)
    PROVE  Inv'
  <1>1. HookInv(s)' BY DEF HookInv
  <1>2. inbox' \in [Hooks -> Entry]
    BY DEF Inv, TypeInv
  <1>3. \A h \in Hooks, v \in Workers \ {w} : Delivering(s, h) => ~Delivering(slot[v], h) BY DEF Inv
  <1> QED BY <1>1, <1>2, <1>3, LocalStep

\* What a worker holds when it has come to its end is in order.
LEMMA EndsFacts ==
    ASSUME Inv, NEW w \in Workers, slot[w].stage \in Under,
           NEW outcome \in {"processed", "failed", "completed"},
           outcome = "completed" => slot[w].kind = "run"
    PROVE  /\ Ends(w, outcome) \in Slot
           /\ LookInv(Ends(w, outcome)) /\ HookInv(Ends(w, outcome))
           /\ \A h \in Hooks : ~Delivering(Ends(w, outcome), h)
  <1>1. slot[w] \in Slot /\ HookInv(slot[w]) BY DEF Inv, TypeInv
  <1>2. slot[w].kind \in {"delivery", "replay", "run"} BY <1>1 DEF HookInv, Slot
  <1>8. slot[w].hook \in Hooks \cup {NoEvent} BY <1>1 DEF Slot
  <1> DEFINE e == Ends(w, outcome)
  <1>0. /\ e \in Slot
        /\ e.stage = (IF slot[w].kind = "run" THEN "finish" ELSE "mark")
        /\ e.kind = slot[w].kind /\ e.hook = slot[w].hook /\ e.outcome = outcome
        /\ e.table = None /\ e.status = "none" /\ e.version = 0 /\ e.overtaken = FALSE
    BY <1>2, <1>8 DEF Ends, At, Slot, Stages
  <1> HIDE DEF e
  <1>4. LookInv(e) BY <1>0 DEF LookInv, Looked
  <1>5. HookInv(e)
    <2>1. slot[w].kind # "run" => slot[w].hook \in Hooks BY <1>1, <1>2 DEF HookInv, Under
    <2> QED BY <1>0, <1>2, <2>1 DEF HookInv, Under
  <1>6. \A h \in Hooks : ~Delivering(e, h) BY <1>0 DEF Delivering, Under
  <1> QED BY <1>0, <1>4, <1>5, <1>6 DEF e

-----------------------------------------------------------------------------
(* The steps that only mark the workers they cross                         *)

Same(r, s) ==
    /\ r.stage = s.stage /\ r.kind = s.kind /\ r.hook = s.hook /\ r.table = s.table
    /\ r.status = s.status /\ r.version = s.version /\ r.outcome = s.outcome

\* What the deliveries rely on does not depend on the marks.
LEMMA MarkStep ==
    ASSUME Inv, slot' \in [Workers -> Slot], \A v \in Workers : Same(slot'[v], slot[v]),
           UNCHANGED <<inbox, applied>>,
           tables' \in [Tables -> [status : Statuses, version : Nat]],
           assists' \subseteq Tables, mapping' \in Tables \cup {None},
           \A v \in Workers : LookInv(slot[v])'
    PROVE  Inv'
  <1>1. TypeInv' BY DEF Inv, TypeInv
  <1>2. ASSUME NEW v \in Workers PROVE HookInv(slot[v])'
    <2>1. HookInv(slot[v]) /\ Same(slot'[v], slot[v]) BY DEF Inv
    <2> QED BY <2>1 DEF HookInv, Same, Under
  <1>3. ASSUME NEW v \in Workers, NEW u \in Workers, NEW h \in Hooks,
               Delivering(slot[v], h)', Delivering(slot[u], h)'
        PROVE  v = u
    BY <1>3 DEF Inv, Delivering, Same
  <1>4. \A h \in Hooks : applied'[h] <= 1 /\ (applied'[h] # 0 => inbox'[h] # NoHook) BY DEF Inv
  <1> QED BY <1>1, <1>2, <1>3, <1>4 DEF Inv

\* Whoever has seen the row before a change is behind it afterwards.
LEMMA OvertakesFacts ==
    ASSUME Inv, NEW t \in Tables, NEW status \in Statuses, tables' = Changed(t, status)
    PROVE  /\ tables' \in [Tables -> [status : Statuses, version : Nat]]
           /\ tables'[t].version = tables[t].version + 1
           /\ \A q \in Tables \ {t} : tables'[q] = tables[q]
           /\ Overtakes(t) \in [Workers -> Slot]
           /\ \A v \in Workers : /\ Same(Overtakes(t)[v], slot[v])
                                 /\ Overtakes(t)[v].overtaken =>
                                      slot[v].overtaken \/ (slot[v].table = t /\ slot[v].version # 0)
  <1>1. tables \in [Tables -> [status : Statuses, version : Nat]] BY DEF Inv, TypeInv
  <1>2. /\ tables' \in [Tables -> [status : Statuses, version : Nat]]
        /\ tables'[t].version = tables[t].version + 1
        /\ \A q \in Tables \ {t} : tables'[q] = tables[q]
    BY <1>1 DEF Changed
  <1>3. ASSUME NEW v \in Workers
        PROVE  /\ Overtakes(t)[v] \in Slot /\ Same(Overtakes(t)[v], slot[v])
               /\ Overtakes(t)[v].overtaken =>
                    slot[v].overtaken \/ (slot[v].table = t /\ slot[v].version # 0)
    <2>1. slot[v] \in Slot BY DEF Inv, TypeInv
    <2>2. Overtakes(t)[v] = IF slot[v].table = t /\ slot[v].version # 0
                              THEN [slot[v] EXCEPT !.overtaken = TRUE] ELSE slot[v]
      BY DEF Overtakes
    <2> QED BY <2>1, <2>2 DEF Slot, Same
  <1>4. Overtakes(t) \in [Workers -> Slot] BY <1>3 DEF Overtakes
  <1> QED BY <1>2, <1>3, <1>4

\* So the others still know where they stand.
LEMMA OvertakesLook ==
    ASSUME Inv, NEW t \in Tables, NEW status \in Statuses, tables' = Changed(t, status),
           NEW v \in Workers, slot'[v] = Overtakes(t)[v], UNCHANGED <<assists, mapping>>
    PROVE  LookInv(slot[v])'
  <1>1. LookInv(slot[v]) /\ slot[v] \in Slot BY DEF Inv, TypeInv
  <1>2. /\ Same(slot'[v], slot[v])
        /\ slot'[v].overtaken => slot[v].overtaken \/ (slot[v].table = t /\ slot[v].version # 0)
    BY OvertakesFacts
  <1>3. /\ tables'[t].version = tables[t].version + 1
        /\ \A q \in Tables \ {t} : tables'[q] = tables[q]
    BY OvertakesFacts
  <1>4. tables[t].version \in Nat /\ slot[v].version \in Nat BY <1>1 DEF Inv, TypeInv, Slot
  <1>5. LookInv(slot[v])'
    <2>1. CASE slot[v].stage \in Looked
      <3>1. /\ slot[v].table \in Tables /\ slot[v].version <= tables[slot[v].table].version
            /\ slot[v].overtaken => slot[v].version < tables[slot[v].table].version
        BY <1>1, <2>1 DEF LookInv
      <3>2. CASE slot[v].table = t
        BY <1>2, <1>3, <1>4, <2>1, <3>1, <3>2 DEF LookInv, Same, Looked
      <3>3. CASE slot[v].table # t
        BY <1>2, <1>3, <2>1, <3>1, <3>3 DEF LookInv, Same, Looked
      <3> QED BY <3>2, <3>3
    <2>2. CASE slot[v].stage \notin Looked
      BY <1>1, <1>2, <2>2 DEF LookInv, Same
    <2> QED BY <2>1, <2>2
  <1> QED BY <1>5

\* Staff changes a table.
LEMMA StaffChangeStep ==
    ASSUME Inv, NEW t \in Tables, StaffChange(t) PROVE Inv'
  <1>1. PICK status \in Statuses : tables' = Changed(t, status) BY DEF StaffChange
  <1>2. slot' = Overtakes(t) /\ UNCHANGED <<assists, mapping, inbox, applied>> BY DEF StaffChange, Others
  <1>3. /\ slot' \in [Workers -> Slot] /\ \A v \in Workers : Same(slot'[v], slot[v])
        /\ tables' \in [Tables -> [status : Statuses, version : Nat]]
    BY <1>1, <1>2, OvertakesFacts
  <1>4. \A v \in Workers : LookInv(slot[v])' BY <1>1, <1>2, OvertakesLook
  <1>5. assists' \subseteq Tables /\ mapping' \in Tables \cup {None} BY <1>2 DEF Inv, TypeInv
  <1> QED BY <1>2, <1>3, <1>4, <1>5, MarkStep

\* Assists and the mapping change: no worker is told.
LEMMA AroundStep ==
    ASSUME Inv, (\E t \in Tables : RequestAssist(t) \/ CloseAssist(t))
                \/ (\E t \in Tables \cup {None} : UpdateMapping(t))
    PROVE  Inv'
  <1>1. /\ UNCHANGED <<tables, inbox, applied, slot>>
        /\ assists' \subseteq Tables /\ mapping' \in Tables \cup {None}
    BY DEF RequestAssist, CloseAssist, UpdateMapping, Others, venue, Inv, TypeInv
  <1>2. ASSUME NEW v \in Workers PROVE Same(slot'[v], slot[v]) /\ LookInv(slot[v])'
    <2>1. LookInv(slot[v]) BY DEF Inv
    <2> QED BY <1>1, <2>1 DEF LookInv, Same
  <1>3. slot' \in [Workers -> Slot] /\ tables' \in [Tables -> [status : Statuses, version : Nat]]
    BY <1>1 DEF Inv, TypeInv
  <1> QED BY <1>1, <1>2, <1>3, MarkStep

-----------------------------------------------------------------------------
(* The steps of a worker                                                   *)

\* A worker that begins knows nothing of the table yet.
LEMMA BeginFacts ==
    ASSUME NEW stage \in {"mapping", "mark"}, NEW kind \in {"delivery", "replay", "run"},
           NEW hook \in Hooks \cup {NoEvent}, NEW status \in Statuses \cup {"none"},
           NEW outcome \in {"none", "skipped"},
           kind # "run" => hook \in Hooks,
           stage = "mapping" => status \in Statuses,
           stage = "mark" => outcome = "skipped" /\ kind # "run"
    PROVE  LET s == At(stage, kind, hook, status, outcome)
           IN  /\ s \in Slot /\ LookInv(s)
               /\ (kind = "delivery" => applied'[hook] = 0 /\ inbox'[hook] # NoHook) => HookInv(s)'
               /\ kind # "delivery" => \A h \in Hooks : ~Delivering(s, h)
               /\ \A h \in Hooks : Delivering(s, h) => h = hook
  <1> DEFINE s == At(stage, kind, hook, status, outcome)
  <1>1. /\ s \in Slot /\ s.stage = stage /\ s.kind = kind /\ s.hook = hook /\ s.table = None
        /\ s.status = status /\ s.version = 0 /\ s.outcome = outcome /\ s.overtaken = FALSE
    BY DEF At, Slot, Stages
  <1> HIDE DEF s
  <1>2. LookInv(s) BY <1>1 DEF LookInv, Looked
  <1>3. (kind = "delivery" => applied'[hook] = 0 /\ inbox'[hook] # NoHook) => HookInv(s)'
    BY <1>1 DEF HookInv, Under
  <1>4. /\ kind # "delivery" => \A h \in Hooks : ~Delivering(s, h)
        /\ \A h \in Hooks : Delivering(s, h) => h = hook
    BY <1>1 DEF Delivering
  <1> QED BY <1>1, <1>2, <1>3, <1>4 DEF s

\* Events report a status.
LEMMA HookStatus == \A h \in Hooks : h[1] \in Statuses
  BY IntegrationsBounds DEF Statuses

\* A delivery: the first one records the event, so nobody else is applying it.
LEMMA ReceiveWebhookStep ==
    ASSUME Inv, NEW w \in Workers, NEW h \in Hooks, NEW valid \in BOOLEAN, ReceiveWebhook(w, h, valid)
    PROVE  Inv'
  <1>1. UNCHANGED <<tables, assists, mapping, applied>> BY DEF ReceiveWebhook, venue
  <1>2. CASE inbox[h] # NoHook
    <2>1. UNCHANGED <<inbox, slot>> BY <1>2 DEF ReceiveWebhook, insertWebhook
    <2> QED BY <1>1, <2>1 DEF Inv, TypeInv, LookInv, HookInv, Delivering
  <1>3. CASE inbox[h] = NoHook
    <2>0. PICK s : s = IF valid THEN Applying("delivery", h) ELSE Skipping("delivery", h) OBVIOUS
    <2>1. /\ inbox' = [inbox EXCEPT ![h] = [state |-> "received", valid |-> valid]]
          /\ slot' = [slot EXCEPT ![w] = s]
      BY <1>3, <2>0 DEF ReceiveWebhook, insertWebhook, Step
    <2>2. inbox \in [Hooks -> Entry] BY DEF Inv, TypeInv
    <2>3. inbox' \in [Hooks -> Entry] BY <2>1, <2>2 DEF Entry
    <2>4. inbox'[h] # NoHook BY <2>1, <2>2 DEF NoHook
    <2>5. \A k \in Hooks : inbox[k] # NoHook => inbox'[k] # NoHook BY <2>1, <2>2, <2>4
    <2>6. applied'[h] = 0 BY <1>1, <1>3 DEF Inv
    <2>7. /\ s \in Slot /\ LookInv(s) /\ HookInv(s)'
          /\ \A k \in Hooks : Delivering(s, k) => k = h
      <3>1. CASE valid BY <2>0, <3>1, <2>4, <2>6, HookStatus, BeginFacts DEF Applying
      <3>2. CASE ~valid BY <2>0, <3>2, <2>4, <2>6, BeginFacts DEF Skipping
      <3> QED BY <3>1, <3>2
    <2>8. \A v \in Workers : ~Delivering(slot[v], h) BY <1>3 DEF Inv, HookInv, Delivering
    <2>9. \A k \in Hooks, v \in Workers \ {w} : Delivering(s, k) => ~Delivering(slot[v], k) BY <2>7, <2>8
    <2> QED BY <1>1, <2>1, <2>3, <2>5, <2>7, <2>9, LocalStep
  <1> QED BY <1>2, <1>3

\* A manager's replay begins; it is no delivery.
LEMMA ReplayWebhookStep ==
    ASSUME Inv, NEW w \in Workers, NEW h \in Hooks, ReplayWebhook(w, h) PROVE Inv'
  <1>0. PICK s : s = IF inbox[h].valid THEN Applying("replay", h) ELSE Skipping("replay", h) OBVIOUS
  <1>1. slot' = [slot EXCEPT ![w] = s] /\ UNCHANGED <<tables, assists, mapping, applied, inbox>>
    BY <1>0 DEF ReplayWebhook, Step, Rest, venue
  <1>2. /\ s \in Slot /\ LookInv(s) /\ HookInv(s)'
        /\ \A k \in Hooks : ~Delivering(s, k)
    <2>1. CASE inbox[h].valid BY <1>0, <2>1, HookStatus, BeginFacts DEF Applying
    <2>2. CASE ~inbox[h].valid BY <1>0, <2>2, BeginFacts DEF Skipping
    <2> QED BY <2>1, <2>2
  <1>3. inbox' \in [Hooks -> Entry] BY <1>1 DEF Inv, TypeInv
  <1> QED BY <1>1, <1>2, <1>3, LocalStep

\* A run begins, or has failed already.
LEMMA ReconcileConnectionStep ==
    ASSUME Inv, NEW w \in Workers, reconcileConnection(w) PROVE Inv'
  <1>1. UNCHANGED <<tables, assists, mapping, applied, inbox>> BY DEF reconcileConnection, Rest, venue
  <1>2. inbox' \in [Hooks -> Entry] BY <1>1 DEF Inv, TypeInv
  <1>3. PICK s : /\ slot' = [slot EXCEPT ![w] = s]
                 /\ \/ \E status \in Statuses : s = At("mapping", "run", NoEvent, status, "none")
                    \/ s = At("finish", "run", NoEvent, "none", "failed")
    BY DEF reconcileConnection, Step, FetchExternalStatus
  <1>4. /\ s \in Slot /\ LookInv(s) /\ HookInv(s)' /\ \A k \in Hooks : ~Delivering(s, k)
    <2>1. ASSUME NEW status \in Statuses, s = At("mapping", "run", NoEvent, status, "none")
          PROVE  s \in Slot /\ LookInv(s) /\ HookInv(s)' /\ \A k \in Hooks : ~Delivering(s, k)
      BY <2>1, BeginFacts
    <2>2. CASE s = At("finish", "run", NoEvent, "none", "failed")
      BY <2>2 DEF At, Slot, Stages, LookInv, Looked, HookInv, Under, Delivering
    <2> QED BY <1>3, <2>1, <2>2
  <1> QED BY <1>1, <1>2, <1>3, <1>4, LocalStep

\* The worker is done, or gone.
LEMMA IdleStep ==
    ASSUME Inv, NEW w \in Workers, slot' = [slot EXCEPT ![w] = Idle],
           UNCHANGED <<tables, assists, mapping, applied>>, inbox' \in [Hooks -> Entry],
           \A h \in Hooks : inbox[h] # NoHook => inbox'[h] # NoHook
    PROVE  Inv'
  <1>1. HookInv(Idle)' BY DEF HookInv, Idle, At, Under
  <1>2. Idle \in Slot /\ LookInv(Idle) /\ \A h \in Hooks : ~Delivering(Idle, h) BY IdleFacts
  <1> QED BY <1>1, <1>2, LocalStep

\* The outcome is recorded with the event.
LEMMA MarkWebhookStep ==
    ASSUME Inv, NEW w \in Workers, markWebhook(w) PROVE Inv'
  <1>1. /\ slot[w].stage = "mark" /\ inbox' = [inbox EXCEPT ![slot[w].hook].state = slot[w].outcome]
        /\ slot' = [slot EXCEPT ![w] = Idle] /\ UNCHANGED <<tables, assists, mapping, applied>>
    BY DEF markWebhook, Step, venue
  <1>2. slot[w].hook \in Hooks /\ slot[w].outcome \in {"processed", "failed", "skipped"}
    BY <1>1 DEF Inv, HookInv
  <1>3. inbox \in [Hooks -> Entry] BY DEF Inv, TypeInv
  <1>4. /\ inbox' \in [Hooks -> Entry]
        /\ inbox'[slot[w].hook].state \in {"processed", "failed", "skipped"}
        /\ \A h \in Hooks \ {slot[w].hook} : inbox'[h] = inbox[h]
    BY <1>1, <1>2, <1>3 DEF Entry
  <1>5. ASSUME NEW h \in Hooks, inbox[h] # NoHook PROVE inbox'[h] # NoHook
    <2>1. CASE h = slot[w].hook
      <3>1. inbox'[h].state # "none" BY <1>4, <2>1
      <3> QED BY <3>1 DEF NoHook
    <2>2. CASE h # slot[w].hook BY <1>4, <1>5, <2>2
    <2> QED BY <2>1, <2>2
  <1> QED BY <1>1, <1>4, <1>5, IdleStep

\* The run is closed, or the worker dies.
LEMMA FinishOrCrashStep ==
    ASSUME Inv, NEW w \in Workers, finishRun(w) \/ crash(w) PROVE Inv'
  <1>1. slot' = [slot EXCEPT ![w] = Idle] /\ UNCHANGED <<tables, assists, mapping, applied, inbox>>
    BY DEF finishRun, crash, Step, Rest, venue
  <1>2. inbox' \in [Hooks -> Entry] BY <1>1 DEF Inv, TypeInv
  <1> QED BY <1>1, <1>2, IdleStep

\* A lookup or the command fails.
LEMMA FailsStep ==
    ASSUME Inv, NEW w \in Workers, fails(w) PROVE Inv'
  <1>1. /\ slot' = [slot EXCEPT ![w] = Ends(w, "failed")] /\ slot[w].stage \in Under
        /\ UNCHANGED <<tables, assists, mapping, applied, inbox>>
    BY DEF fails, Step, Rest, venue, Under
  <1> QED BY <1>1, EndsFacts, QuietStep

\* The mapping is looked up.
LEMMA MappingStep ==
    ASSUME Inv, NEW w \in Workers, mappingByExternalID(w) PROVE Inv'
  <1>1. slot[w].stage = "mapping" /\ UNCHANGED <<tables, assists, mapping, applied, inbox>>
    BY DEF mappingByExternalID, Rest, venue
  <1>2. slot[w] \in Slot /\ LookInv(slot[w]) /\ HookInv(slot[w]) BY DEF Inv, TypeInv
  <1>3. CASE mapping = None
    <2> DEFINE outcome == IF slot[w].kind = "run" THEN "completed" ELSE "failed"
    <2>1. slot' = [slot EXCEPT ![w] = Ends(w, outcome)] BY <1>3 DEF mappingByExternalID, Step
    <2>2. slot[w].stage \in Under BY <1>1 DEF Under
    <2> QED BY <1>1, <2>1, <2>2, EndsFacts, QuietStep
  <1>4. CASE mapping # None
    <2> DEFINE s == [slot[w] EXCEPT !.stage = "look", !.table = mapping]
    <2>1. slot' = [slot EXCEPT ![w] = s] BY <1>4 DEF mappingByExternalID, Step
    <2>2. mapping \in Tables BY <1>4 DEF Inv, TypeInv
    <2>3. /\ s \in Slot /\ s.stage = "look" /\ s.table = mapping /\ s.kind = slot[w].kind /\ s.hook = slot[w].hook
          /\ s.status = slot[w].status /\ s.version = slot[w].version /\ s.outcome = slot[w].outcome
          /\ s.overtaken = slot[w].overtaken
      BY <1>2, <2>2 DEF Slot, Stages
    <2> HIDE DEF s
    <2>4. LookInv(s) BY <1>1, <1>2, <2>2, <2>3 DEF LookInv, Looked
    <2>6. HookInv(s) BY <1>1, <1>2, <2>3 DEF HookInv, Under
    <2>7. \A h \in Hooks : Delivering(s, h) => Delivering(slot[w], h) BY <1>1, <2>3 DEF Delivering, Under
    <2> QED BY <1>1, <2>1, <2>3, <2>4, <2>6, <2>7, QuietStep
  <1> QED BY <1>3, <1>4

\* The table is looked at: its version is the one the worker now expects.
LEMMA CurrentStep ==
    ASSUME Inv, NEW w \in Workers, currentTableState(w) PROVE Inv'
  <1>1. slot[w].stage = "look" /\ UNCHANGED <<tables, assists, mapping, applied, inbox>>
    BY DEF currentTableState, Rest, venue
  <1>2. slot[w] \in Slot /\ LookInv(slot[w]) /\ HookInv(slot[w]) BY DEF Inv, TypeInv
  <1>3. CASE tables[slot[w].table].status = slot[w].status
    <2>1. slot' = [slot EXCEPT ![w] = Ends(w, IF slot[w].kind = "run" THEN "completed" ELSE "processed")]
      BY <1>3 DEF currentTableState, Step, Done
    <2>2. slot[w].stage \in Under BY <1>1 DEF Under
    <2> QED BY <1>1, <2>1, <2>2, EndsFacts, QuietStep
  <1>4. CASE tables[slot[w].table].status # slot[w].status
    <2> DEFINE s == [slot[w] EXCEPT !.stage = IF slot[w].kind = "run" THEN "assists" ELSE "apply",
                                    !.version = tables[slot[w].table].version]
    <2>1. slot' = [slot EXCEPT ![w] = s] BY <1>4 DEF currentTableState, Step
    <2>2. slot[w].table \in Tables BY <1>1, <1>2 DEF LookInv
    <2>3. tables[slot[w].table].version \in Nat BY <2>2 DEF Inv, TypeInv
    <2>4. /\ s \in Slot /\ s.stage = (IF slot[w].kind = "run" THEN "assists" ELSE "apply")
          /\ s.version = tables[slot[w].table].version
          /\ s.table = slot[w].table /\ s.kind = slot[w].kind /\ s.hook = slot[w].hook
          /\ s.status = slot[w].status /\ s.outcome = slot[w].outcome
          /\ s.overtaken = slot[w].overtaken
      BY <1>2, <2>3 DEF Slot, Stages
    <2> HIDE DEF s
    <2>5. LookInv(s) BY <1>1, <1>2, <2>2, <2>3, <2>4 DEF LookInv, Looked
    <2>7. HookInv(s) BY <1>1, <1>2, <2>4 DEF HookInv, Under
    <2>8. \A h \in Hooks : Delivering(s, h) => Delivering(slot[w], h) BY <1>1, <2>4 DEF Delivering, Under
    <2> QED BY <1>1, <2>1, <2>4, <2>5, <2>7, <2>8, QuietStep
  <1> QED BY <1>3, <1>4

\* A run looks for assists.
LEMMA ReconcileTableStep ==
    ASSUME Inv, NEW w \in Workers, reconcileTableState(w) PROVE Inv'
  <1>1. slot[w].stage = "assists" /\ UNCHANGED <<tables, assists, mapping, applied, inbox>>
    BY DEF reconcileTableState, Rest, venue
  <1>2. slot[w] \in Slot /\ LookInv(slot[w]) /\ HookInv(slot[w]) BY DEF Inv, TypeInv
  <1>3. CASE slot[w].table \in assists
    <2>1. slot' = [slot EXCEPT ![w] = Ends(w, "completed")]
      BY <1>3 DEF reconcileTableState, Step, hasActiveAssists
    <2>2. slot[w].stage \in Under /\ slot[w].kind = "run" BY <1>1, <1>2 DEF Under, HookInv
    <2> QED BY <1>1, <2>1, <2>2, EndsFacts, QuietStep
  <1>4. CASE slot[w].table \notin assists
    <2> DEFINE s == [slot[w] EXCEPT !.stage = "apply"]
    <2>1. slot' = [slot EXCEPT ![w] = s] BY <1>4 DEF reconcileTableState, Step, hasActiveAssists
    <2>2. /\ s \in Slot /\ s.stage = "apply" /\ s.version = slot[w].version
          /\ s.table = slot[w].table /\ s.kind = slot[w].kind /\ s.hook = slot[w].hook
          /\ s.status = slot[w].status /\ s.outcome = slot[w].outcome
          /\ s.overtaken = slot[w].overtaken
      BY <1>2 DEF Slot, Stages
    <2> HIDE DEF s
    <2>5. LookInv(s) BY <1>1, <1>2, <2>2 DEF LookInv, Looked
    <2>7. HookInv(s) BY <1>1, <1>2, <2>2 DEF HookInv, Under
    <2>8. \A h \in Hooks : Delivering(s, h) => Delivering(slot[w], h) BY <1>1, <2>2 DEF Delivering, Under
    <2> QED BY <1>1, <2>1, <2>2, <2>5, <2>7, <2>8, QuietStep
  <1> QED BY <1>3, <1>4

\* The worker of a command comes to its end; if it writes, then at the version
\* it has seen, and the others are overtaken.
LEMMA ApplyFacts ==
    ASSUME Inv, NEW w \in Workers, applyTableState(w)
    PROVE  /\ slot[w].stage = "apply" /\ slot[w].table \in Tables /\ slot[w].status \in Statuses
           /\ UNCHANGED <<assists, mapping, inbox>>
           /\ \E outcome \in {"processed", "failed", "completed"} :
                /\ outcome = "completed" => slot[w].kind = "run"
                /\ \/ UNCHANGED <<tables, applied>> /\ slot' = [slot EXCEPT ![w] = Ends(w, outcome)]
                   \/ /\ ExpectedVersion(w) /\ tables' = Changed(slot[w].table, slot[w].status)
                      /\ slot' = [Overtakes(slot[w].table) EXCEPT ![w] = Ends(w, outcome)]
                      /\ applied' = IF slot[w].kind = "delivery"
                                      THEN [applied EXCEPT ![slot[w].hook] = @ + 1] ELSE applied
  <1> DEFINE t == slot[w].table
             status == slot[w].status
             write == tables[t].status # status /\ ExpectedVersion(w)
             done == IF slot[w].kind = "run" THEN "completed" ELSE "processed"
             outcome == IF write \/ tables[t].status = status THEN done ELSE "failed"
  <1>1. slot[w].stage = "apply" /\ UNCHANGED <<assists, mapping, inbox>> BY DEF applyTableState
  <1>2. slot[w] \in Slot /\ LookInv(slot[w]) /\ HookInv(slot[w]) BY DEF Inv, TypeInv
  <1>3. t \in Tables BY <1>1, <1>2 DEF LookInv, Looked
  <1>4. status \in Statuses BY <1>1, <1>2 DEF HookInv, Under
  <1>5. /\ tables' = IF write THEN Changed(t, status) ELSE tables
        /\ applied' = IF write /\ slot[w].kind = "delivery"
                        THEN [applied EXCEPT ![slot[w].hook] = @ + 1] ELSE applied
        /\ slot' = [(IF write THEN Overtakes(t) ELSE slot) EXCEPT ![w] = Ends(w, outcome)]
    <2>1. Ends(w, outcome) = IF write \/ tables[t].status = status THEN Done(w) ELSE Ends(w, "failed")
      BY DEF Done
    <2> HIDE DEF outcome
    <2> QED BY <2>1 DEF applyTableState
  <1>6. outcome \in {"processed", "failed", "completed"} /\ (outcome = "completed" => slot[w].kind = "run")
    OBVIOUS
  <1> HIDE DEF outcome
  <1>7. CASE write
    <2>1. /\ ExpectedVersion(w) /\ tables' = Changed(t, status)
          /\ slot' = [Overtakes(t) EXCEPT ![w] = Ends(w, outcome)]
          /\ applied' = IF slot[w].kind = "delivery" THEN [applied EXCEPT ![slot[w].hook] = @ + 1] ELSE applied
      BY <1>5, <1>7
    <2> QED BY <1>1, <1>3, <1>4, <1>6, <2>1
  <1>8. CASE ~write
    <2>1. UNCHANGED <<tables, applied>> /\ slot' = [slot EXCEPT ![w] = Ends(w, outcome)] BY <1>5, <1>8
    <2> QED BY <1>1, <1>3, <1>4, <1>6, <2>1
  <1> QED BY <1>7, <1>8

\* The command of the operations service.
LEMMA ApplyStep ==
    ASSUME Inv, NEW w \in Workers, applyTableState(w) PROVE Inv'
  <1>1. /\ slot[w].stage = "apply" /\ slot[w].table \in Tables /\ slot[w].status \in Statuses
        /\ UNCHANGED <<assists, mapping, inbox>>
    BY ApplyFacts
  <1> DEFINE t == slot[w].table
  <1>2. PICK outcome \in {"processed", "failed", "completed"} :
          /\ outcome = "completed" => slot[w].kind = "run"
          /\ \/ UNCHANGED <<tables, applied>> /\ slot' = [slot EXCEPT ![w] = Ends(w, outcome)]
             \/ /\ ExpectedVersion(w) /\ tables' = Changed(slot[w].table, slot[w].status)
                /\ slot' = [Overtakes(slot[w].table) EXCEPT ![w] = Ends(w, outcome)]
                /\ applied' = IF slot[w].kind = "delivery"
                                THEN [applied EXCEPT ![slot[w].hook] = @ + 1] ELSE applied
    BY ApplyFacts
  <1>3. PICK e : e = Ends(w, outcome) OBVIOUS
  <1>4. /\ e \in Slot /\ LookInv(e) /\ HookInv(e) /\ \A h \in Hooks : ~Delivering(e, h)
    <2>1. slot[w].stage \in Under BY <1>1 DEF Under
    <2> QED BY <1>2, <1>3, <2>1, EndsFacts
  <1>5. CASE UNCHANGED <<tables, applied>> /\ slot' = [slot EXCEPT ![w] = Ends(w, outcome)]
    BY <1>1, <1>3, <1>4, <1>5, QuietStep
  <1>6. CASE /\ ExpectedVersion(w) /\ tables' = Changed(slot[w].table, slot[w].status)
             /\ slot' = [Overtakes(slot[w].table) EXCEPT ![w] = Ends(w, outcome)]
             /\ applied' = IF slot[w].kind = "delivery"
                             THEN [applied EXCEPT ![slot[w].hook] = @ + 1] ELSE applied
    <2>1. /\ tables' \in [Tables -> [status : Statuses, version : Nat]]
          /\ Overtakes(t) \in [Workers -> Slot]
          /\ \A v \in Workers : Same(Overtakes(t)[v], slot[v])
      BY <1>1, <1>6, OvertakesFacts
    <2>2. slot' \in [Workers -> Slot] /\ \A v \in Workers : slot'[v] = IF v = w THEN e ELSE Overtakes(t)[v]
      BY <1>3, <1>4, <1>6, <2>1
    <2>3. slot[w] \in Slot /\ HookInv(slot[w]) BY DEF Inv, TypeInv
    <2>4. slot[w].kind = "delivery" => /\ slot[w].hook \in Hooks /\ Delivering(slot[w], slot[w].hook)
                                       /\ applied[slot[w].hook] = 0 /\ inbox[slot[w].hook] # NoHook
      BY <1>1, <2>3 DEF HookInv, Delivering, Under
    <2>5. /\ applied' \in [Hooks -> Nat]
          /\ \A h \in Hooks : applied'[h] = IF slot[w].kind = "delivery" /\ h = slot[w].hook THEN 1 ELSE applied[h]
      BY <1>6, <2>4 DEF Inv, TypeInv
    <2>6. TypeInv' BY <1>1, <2>1, <2>2, <2>5 DEF Inv, TypeInv
    <2>7. ASSUME NEW v \in Workers PROVE LookInv(slot[v])' /\ HookInv(slot[v])'
      <3>1. CASE v = w
        <4>1. slot'[v] = e /\ e.stage \notin Under /\ e.stage # "look" /\ e.stage \notin Looked
          BY <1>1, <1>2, <1>3, <2>2, <3>1 DEF Ends, At, Under, Looked
        <4>2. LookInv(slot[v])' BY <1>4, <4>1 DEF LookInv
        <4>4. HookInv(slot[v])' BY <1>4, <4>1 DEF HookInv
        <4> QED BY <4>2, <4>4
      <3>2. CASE v # w
        <4>1. slot'[v] = Overtakes(t)[v] /\ Same(slot'[v], slot[v]) BY <2>1, <2>2, <3>2
        <4>2. LookInv(slot[v])' BY <1>1, <1>6, <4>1, OvertakesLook
        <4>3. HookInv(slot[v]) BY DEF Inv
        <4>4. slot[v].kind = "delivery" /\ slot[v].stage \in Under =>
                slot[v].hook \in Hooks /\ applied'[slot[v].hook] = 0
          <5>1. SUFFICES ASSUME slot[v].kind = "delivery", slot[v].stage \in Under
                         PROVE  slot[v].hook \in Hooks /\ applied'[slot[v].hook] = 0
            OBVIOUS
          <5>2. slot[v].hook \in Hooks /\ applied[slot[v].hook] = 0 /\ Delivering(slot[v], slot[v].hook)
            BY <4>3, <5>1 DEF HookInv, Delivering, Under
          <5>3. ~(slot[w].kind = "delivery" /\ slot[v].hook = slot[w].hook)
            BY <2>4, <3>2, <5>2 DEF Inv
          <5> QED BY <2>5, <5>2, <5>3
        <4>5. HookInv(slot[v])' BY <1>1, <4>1, <4>3, <4>4 DEF HookInv, Same
        <4> QED BY <4>2, <4>5
      <3> QED BY <3>1, <3>2
    <2>8. \A h \in Hooks : applied'[h] <= 1 /\ (applied'[h] # 0 => inbox'[h] # NoHook)
      BY <1>1, <2>4, <2>5 DEF Inv
    <2>9. ASSUME NEW v \in Workers, NEW u \in Workers, NEW h \in Hooks,
                 Delivering(slot[v], h)', Delivering(slot[u], h)'
          PROVE  v = u
      <3>1. \A q \in Workers : Delivering(slot'[q], h) => q # w /\ Delivering(slot[q], h)
        BY <1>4, <2>1, <2>2 DEF Delivering, Same
      <3>2. Delivering(slot'[v], h) /\ Delivering(slot'[u], h) BY <2>9 DEF Delivering
      <3> QED BY <3>1, <3>2 DEF Inv
    <2> QED BY <2>6, <2>7, <2>8, <2>9 DEF Inv
  <1> QED BY <1>2, <1>5, <1>6

-----------------------------------------------------------------------------
\* Every step preserves the invariant.
LEMMA NextInv == Inv /\ [Next]_vars => Inv'
  <1> SUFFICES ASSUME Inv, [Next]_vars PROVE Inv' OBVIOUS
  <1>1. CASE UNCHANGED vars
    <2>1. UNCHANGED <<tables, assists, mapping, inbox, applied, slot>> BY <1>1 DEF vars, venue
    <2> QED BY <2>1 DEF Inv, TypeInv, LookInv, HookInv, Delivering
  <1>2. ASSUME NEW t \in Tables, StaffChange(t) \/ RequestAssist(t) \/ CloseAssist(t) PROVE Inv'
    BY <1>2, StaffChangeStep, AroundStep
  <1>3. ASSUME NEW t \in Tables \cup {None}, UpdateMapping(t) PROVE Inv' BY <1>3, AroundStep
  <1>4. ASSUME NEW w \in Workers, NEW h \in Hooks,
               ReplayWebhook(w, h) \/ \E valid \in BOOLEAN : ReceiveWebhook(w, h, valid)
        PROVE  Inv'
    BY <1>4, ReplayWebhookStep, ReceiveWebhookStep
  <1>5. ASSUME NEW w \in Workers,
               \/ reconcileConnection(w) \/ mappingByExternalID(w) \/ currentTableState(w)
               \/ reconcileTableState(w) \/ applyTableState(w) \/ markWebhook(w) \/ finishRun(w)
               \/ fails(w) \/ crash(w)
        PROVE  Inv'
    BY <1>5, ReconcileConnectionStep, MappingStep, CurrentStep, ReconcileTableStep, ApplyStep,
       MarkWebhookStep, FinishOrCrashStep, FailsStep
  <1> QED BY <1>1, <1>2, <1>3, <1>4, <1>5 DEF Next

\* The invariant holds for any tables, events and workers.
THEOREM Invariance == Spec => []Inv
  <1> QED BY InitInv, NextInv, PTL DEF Spec

\* An event changes a table once at most, whatever the vendor, the managers
\* and crashes do: only the delivery that has inserted its row applies it.
THEOREM OnceAtMost == Spec => []DeliveredOnce
  <1>1. Inv => DeliveredOnce BY DEF Inv, DeliveredOnce
  <1> QED BY <1>1, Invariance, PTL

\* A worker that goes on from its command with a row changed has written it
\* itself, at the version it had seen.
LEMMA Writer ==
    ASSUME Inv, Next, NEW w \in Workers, Applies(w) PROVE ExpectedVersion(w)
  <1>1. slot[w].stage = "apply" /\ slot'[w].stage # "apply" /\ tables' # tables BY DEF Applies
  <1>2. ASSUME NEW t \in Tables, StaffChange(t) PROVE FALSE
    <2>1. PICK status \in Statuses : tables' = Changed(t, status) BY <1>2 DEF StaffChange
    <2>2. slot' = Overtakes(t) BY <1>2 DEF StaffChange
    <2>3. slot'[w].stage = slot[w].stage BY <2>1, <2>2, OvertakesFacts DEF Same
    <2> QED BY <1>1, <2>3
  <1>3. ASSUME NEW u \in Workers, applyTableState(u) PROVE ExpectedVersion(w)
    <2>1. slot[u].table \in Tables /\ slot[u].status \in Statuses BY <1>3, ApplyFacts
    <2>2. PICK outcome : /\ ExpectedVersion(u) /\ tables' = Changed(slot[u].table, slot[u].status)
                         /\ slot' = [Overtakes(slot[u].table) EXCEPT ![u] = Ends(u, outcome)]
      BY <1>1, <1>3, ApplyFacts
    <2>3. /\ Overtakes(slot[u].table) \in [Workers -> Slot]
          /\ Same(Overtakes(slot[u].table)[w], slot[w])
      BY <2>1, <2>2, OvertakesFacts
    <2>4. CASE u # w
      <3>1. slot'[w] = Overtakes(slot[u].table)[w] BY <2>2, <2>3, <2>4
      <3> QED BY <1>1, <2>3, <3>1 DEF Same
    <2> QED BY <2>2, <2>4
  <1>4. UNCHANGED tables \/ (\E t \in Tables : StaffChange(t)) \/ (\E u \in Workers : applyTableState(u))
    BY DEF Next, RequestAssist, CloseAssist, UpdateMapping, ReplayWebhook, ReceiveWebhook,
           reconcileConnection, mappingByExternalID, currentTableState, reconcileTableState,
           markWebhook, finishRun, fails, crash, Rest, venue
  <1> QED BY <1>1, <1>2, <1>3, <1>4

\* Neither a webhook nor a correction overwrites what has happened at the table
\* since it was looked at: the command carries the version that was seen.
THEOREM NothingOverwritten == Spec => NoOverwrite
  <1>1. ASSUME Inv, [Next]_vars
        PROVE  [\A w \in Workers : Applies(w) => ~slot[w].overtaken]_vars
    <2>1. SUFFICES ASSUME Next, NEW w \in Workers, Applies(w) PROVE ~slot[w].overtaken
      BY <1>1
    <2>2. ExpectedVersion(w) BY <1>1, <2>1, Writer
    <2>3. slot[w].stage = "apply" BY <2>1 DEF Applies
    <2>4. LookInv(slot[w]) /\ slot[w] \in Slot BY <1>1 DEF Inv, TypeInv
    <2>5. slot[w].overtaken => slot[w].version < tables[slot[w].table].version
      BY <2>3, <2>4 DEF LookInv, Looked
    <2>6. slot[w].version \in Nat BY <2>4 DEF Slot
    <2> QED BY <2>2, <2>5, <2>6 DEF ExpectedVersion
  <1> QED BY <1>1, Invariance, PTL DEF Spec, NoOverwrite
=============================================================================
