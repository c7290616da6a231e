-------------------------- MODULE Consumers_proofs --------------------------
(***************************************************************************)
(* The safety properties of the two consumers of the outbox: the realtime  *)
(* hub (Hub), in the first part, and the analytics projection (Analytics), *)
(* in the second.  They share no state.                                    *)
(*                                                                         *)
(* The hub, for any number of connections and events, any buffer and any   *)
(* limit.  A client that was subscribed stays in h.clients until somebody  *)
(* is inside its closeOnce, and whoever is inside is still at that call;   *)
(* so it is deleted and closed by the same caller and by nobody else.      *)
(***************************************************************************)
EXTENDS Hub, Analytics, FiniteSetTheorems, TLAPS

\* A handler after Subscribe and before its own Unsubscribe has returned.
Live == {"subscribed", "serving", "closing"}

\* The client was subscribed: it is in the map, or being or been closed.
Subscribed(c) == c \in clients \/ once[c] # "open"
Offered(e, c) == c \in publish[e].todo \/ publish[e].at = c

ClientInv(c) ==
    /\ c \in clients => once[c] = "open" /\ conn[c] \in Live
    /\ conn[c] \in Live => Subscribed(c)
    /\ conn[c] \in {"new", "admitted"} => once[c] = "open" /\ owed[c] = {}
    /\ c \in closed => once[c] # "open"
    /\ once[c] = "done" => c \in closed
    /\ once[c] \notin {"open", "done"} => Calls(once[c], c)

PublishInv(e) ==
    /\ publish[e].stage = "new" => publish[e].at = None
    /\ \A c \in Connections :
         /\ Offered(e, c) => Subscribed(c)
         /\ e \in owed[c] => publish[e].stage # "new"

Inv ==
    /\ TypeOK
    /\ \A c \in Connections : ClientInv(c)
    /\ \A e \in Events : PublishInv(e)

-----------------------------------------------------------------------------
(* The invariant                                                           *)

\* No caller is taken for a state of closeOnce.
LEMMA Callers ==
    /\ \A x \in Connections \cup Events : x # "open" /\ x # "done"
    /\ \A c \in Connections, e \in Events : c # e
    /\ \A c \in Connections : c # None
  BY HubConfiguration

\* The gateway starts in the invariant.
LEMMA InitInv == Init => Inv
  <1> SUFFICES ASSUME Init PROVE Inv OBVIOUS
  <1>1. TypeOK BY HubConfiguration DEF Init, TypeOK, Publisher, Metrics
  <1>2. \A c \in Connections : ClientInv(c) BY DEF Init, ClientInv, Subscribed, Live
  <1>3. \A e \in Events : PublishInv(e) BY Callers DEF Init, PublishInv, Offered
  <1> QED BY <1>1, <1>2, <1>3 DEF Inv

\* The steps of a handler outside Unsubscribe.
LEMMA ServeInv ==
    ASSUME Inv, NEW c \in Connections,
           \/ checkConnectionLimit(c) \/ upgradeFails(c) \/ Subscribe(c) \/ countAccepted(c)
           \/ WriteLoop(c) \/ clientDone(c) \/ loopEnds(c)
    PROVE  Inv'
  <1>1. TypeOK BY DEF Inv
  <1>2. ClientInv(c) BY DEF Inv
  <1>3. UNCHANGED <<once, closed, publish, owed>>
    BY DEF checkConnectionLimit, upgradeFails, Subscribe, countAccepted, WriteLoop, clientDone, loopEnds
  <1>4. /\ conn' \in [Connections -> {"new", "admitted", "subscribed", "serving", "closing", "gone"}]
        /\ \A d \in Connections \ {c} : conn'[d] = conn[d]
    BY <1>1 DEF TypeOK, Goto, checkConnectionLimit, upgradeFails, Subscribe, countAccepted,
           WriteLoop, clientDone, loopEnds
  <1>5. /\ clients \subseteq clients' /\ clients' \subseteq clients \cup {c}
        /\ c \in clients' => once[c] = "open" /\ conn'[c] \in Live
        /\ conn'[c] \in Live => c \in clients' \/ once[c] # "open"
        /\ conn'[c] \in {"new", "admitted"} => conn[c] \in {"new", "admitted"}
        /\ once[c] = c => conn[c] = "closing" /\ conn'[c] = "closing"
    BY <1>1, <1>2, Callers
       DEF TypeOK, Goto, ClientInv, Live, Subscribed, Calls, checkConnectionLimit, upgradeFails, Subscribe,
           countAccepted, WriteLoop,
           clientDone, loopEnds
  <1>6. /\ queue' \in [Connections -> Seq(Events)] /\ received' \in [Connections -> Seq(Events)]
        /\ \A d \in Connections : Len(queue'[d]) <= Len(queue[d])
    <2>1. CASE WriteLoop(c) BY <1>1, <2>1 DEF TypeOK, WriteLoop
    <2>2. CASE ~WriteLoop(c)
      BY <1>1, <2>2 DEF TypeOK, checkConnectionLimit, upgradeFails, Subscribe, countAccepted, clientDone, loopEnds
    <2> QED BY <2>1, <2>2
  <1>7. metrics' \in Metrics
    BY <1>1 DEF TypeOK, Metrics, checkConnectionLimit, upgradeFails, Subscribe, countAccepted,
           WriteLoop, clientDone, loopEnds
  <1>8. TypeOK'
    <2>1. \A d \in Connections : Len(queue'[d]) <= Buffer
      BY <1>1, <1>6, HubConfiguration DEF TypeOK
    <2> QED BY <1>1, <1>3, <1>4, <1>5, <1>6, <1>7, <2>1 DEF TypeOK
  <1>9. ASSUME NEW d \in Connections PROVE ClientInv(d)'
    <2>1. ClientInv(d) BY DEF Inv
    <2>2. CASE d = c BY <1>2, <1>3, <1>5, <2>2 DEF ClientInv, Subscribed, Calls
    <2>3. CASE d # c BY <1>3, <1>4, <1>5, <2>1, <2>3 DEF ClientInv, Subscribed, Calls
    <2> QED BY <2>2, <2>3
  <1>10. ASSUME NEW e \in Events PROVE PublishInv(e)'
    <2>1. PublishInv(e) BY DEF Inv
    <2> QED BY <1>3, <1>5, <2>1 DEF PublishInv, Offered, Subscribed
  <1> QED BY <1>8, <1>9, <1>10 DEF Inv

\* The return from Unsubscribe takes the caller, and nobody else, out of it.
LEMMA ReturnFacts ==
    ASSUME Inv, NEW c \in Connections, NEW x \in Events \cup {c}, Calls(x, c), ReturnTo(x, c)
    PROVE  /\ conn' \in [Connections -> {"new", "admitted", "subscribed", "serving", "closing", "gone"}]
           /\ publish' \in [Events -> Publisher]
           /\ \A d \in Connections : conn'[d] = IF x = c /\ d = c THEN "gone" ELSE conn[d]
           /\ \A e \in Events : /\ publish'[e].stage = publish[e].stage /\ publish'[e].todo = publish[e].todo
                                /\ publish'[e].at = IF e = x THEN None ELSE publish[e].at
  <1>1. conn \in [Connections -> {"new", "admitted", "subscribed", "serving", "closing", "gone"}]
    BY DEF Inv, TypeOK
  <1>2. publish \in [Events -> Publisher] BY DEF Inv, TypeOK
  <1>3. CASE x = c
    <2>1. conn' = [conn EXCEPT ![c] = "gone"] /\ publish' = publish BY <1>3 DEF ReturnTo, Goto
    <2>2. x \notin Events BY <1>3, Callers
    <2> QED BY <1>1, <1>2, <1>3, <2>1, <2>2
  <1>4. CASE x # c
    <2>1. publish' = [publish EXCEPT ![x].at = None] /\ conn' = conn BY <1>4 DEF ReturnTo
    <2>2. x \in Events BY <1>4
    <2> QED BY <1>1, <1>2, <1>4, <2>1, <2>2 DEF Publisher
  <1> QED BY <1>3, <1>4

\* Whoever finds closeOnce open deletes the client.
LEMMA DeleteInv ==
    ASSUME Inv, NEW c \in Connections, NEW x \in Events \cup {c}, deleteClient(x, c) PROVE Inv'
  <1>1. /\ Calls(x, c) /\ once[c] = "open" /\ once' = [once EXCEPT ![c] = x] /\ clients' = clients \ {c}
        /\ UNCHANGED <<conn, closed, queue, received, publish, owed, metrics>>
    BY DEF deleteClient
  <1>2. TypeOK BY DEF Inv
  <1>3. TypeOK' BY <1>1, <1>2 DEF TypeOK
  <1>4. \A d \in Connections : once'[d] = IF d = c THEN x ELSE once[d] BY <1>1, <1>2 DEF TypeOK
  <1>5. x # "open" /\ x # "done" BY Callers
  <1>6. conn[c] \notin {"new", "admitted"}
    <2>1. ClientInv(c) BY DEF Inv
    <2>2. CASE x = c BY <1>1, <2>2 DEF Calls
    <2>3. CASE x # c
      <3>1. x \in Events /\ Offered(x, c) BY <1>1, <2>3 DEF Calls, Offered
      <3>2. Subscribed(c) BY <3>1 DEF Inv, PublishInv
      <3> QED BY <1>1, <2>1, <3>2 DEF ClientInv, Live, Subscribed
    <2> QED BY <2>2, <2>3
  <1>7. ASSUME NEW d \in Connections PROVE ClientInv(d)'
    <2>1. ClientInv(d) BY DEF Inv
    <2>2. CASE d = c BY <1>1, <1>4, <1>5, <1>6, <2>1, <2>2 DEF ClientInv, Live, Subscribed, Calls
    <2>3. CASE d # c BY <1>1, <1>4, <2>1, <2>3 DEF ClientInv, Subscribed, Calls
    <2> QED BY <2>2, <2>3
  <1>8. ASSUME NEW e \in Events PROVE PublishInv(e)'
    <2>1. PublishInv(e) BY DEF Inv
    <2> QED BY <1>1, <1>4, <1>5, <2>1 DEF PublishInv, Offered, Subscribed
  <1> QED BY <1>3, <1>7, <1>8 DEF Inv

\* The caller inside closes it ...
LEMMA CloseInv ==
    ASSUME Inv, NEW c \in Connections, NEW x \in Events \cup {c}, close(x, c) PROVE Inv'
  <1>1. /\ once[c] = x /\ closed' = closed \cup {c}
        /\ UNCHANGED <<clients, conn, once, queue, received, publish, owed, metrics>>
    BY DEF close
  <1>2. TypeOK' BY <1>1 DEF Inv, TypeOK
  <1>3. x # "open" BY Callers
  <1>4. ASSUME NEW d \in Connections PROVE ClientInv(d)'
    <2>1. ClientInv(d) BY DEF Inv
    <2> QED BY <1>1, <1>3, <2>1 DEF ClientInv, Subscribed, Calls
  <1>5. ASSUME NEW e \in Events PROVE PublishInv(e)'
    <2>1. PublishInv(e) BY DEF Inv
    <2> QED BY <1>1, <2>1 DEF PublishInv, Offered, Subscribed
  <1> QED BY <1>2, <1>4, <1>5 DEF Inv

\* ... counts it, and goes on.
LEMMA CountClosedInv ==
    ASSUME Inv, NEW c \in Connections, NEW x \in Events \cup {c}, countClosed(x, c) PROVE Inv'
  <1>1. /\ Calls(x, c) /\ once[c] = x /\ c \in closed /\ once' = [once EXCEPT ![c] = "done"]
        /\ metrics' = [metrics EXCEPT !.closed = @ + 1] /\ ReturnTo(x, c)
        /\ UNCHANGED <<clients, closed, queue, received, owed>>
    BY DEF countClosed
  <1>2. TypeOK BY DEF Inv
  <1>3. /\ conn' \in [Connections -> {"new", "admitted", "subscribed", "serving", "closing", "gone"}]
        /\ publish' \in [Events -> Publisher]
        /\ \A d \in Connections : conn'[d] = IF x = c /\ d = c THEN "gone" ELSE conn[d]
        /\ \A e \in Events : /\ publish'[e].stage = publish[e].stage /\ publish'[e].todo = publish[e].todo
                             /\ publish'[e].at = IF e = x THEN None ELSE publish[e].at
    BY <1>1, ReturnFacts
  <1>4. metrics' \in Metrics
    <2>1. metrics \in Metrics /\ metrics' = [metrics EXCEPT !.closed = @ + 1] BY <1>1, <1>2 DEF TypeOK
    <2> QED BY <2>1 DEF Metrics
  <1>5. TypeOK' BY <1>1, <1>2, <1>3, <1>4 DEF TypeOK
  <1>6. \A d \in Connections : once'[d] = IF d = c THEN "done" ELSE once[d] BY <1>1, <1>2 DEF TypeOK
  <1>7. x # "open" /\ x # "done" BY Callers
  <1>8. ASSUME NEW d \in Connections PROVE ClientInv(d)'
    <2>1. ClientInv(d) BY DEF Inv
    <2>2. CASE d = c BY <1>1, <1>3, <1>6, <1>7, <2>1, <2>2 DEF ClientInv, Subscribed
    <2>3. CASE d # c
      <3>1. once'[d] = once[d] /\ conn'[d] = conn[d] BY <1>3, <1>6, <2>3
      <3>2. once'[d] \notin {"open", "done"} => Calls(once[d], d)'
        <4>1. SUFFICES ASSUME once[d] \notin {"open", "done"} PROVE Calls(once[d], d)' BY <3>1
        <4>2. Calls(once[d], d) BY <2>1, <4>1 DEF ClientInv
        <4>3. CASE once[d] = d BY <3>1, <4>2, <4>3 DEF Calls
        <4>4. CASE once[d] # d
          <5>1. once[d] \in Events /\ publish[once[d]].at = d BY <4>2, <4>4 DEF Calls
          <5>2. once[d] # x BY <1>1, <2>3, <5>1, Callers DEF Calls
          <5> QED BY <1>3, <3>1, <4>4, <5>1, <5>2 DEF Calls
        <4> QED BY <4>3, <4>4
      <3> QED BY <1>1, <2>1, <2>3, <3>1, <3>2 DEF ClientInv, Subscribed
    <2> QED BY <2>2, <2>3
  <1>9. ASSUME NEW e \in Events PROVE PublishInv(e)'
    <2>1. PublishInv(e) BY DEF Inv
    <2> QED BY <1>1, <1>3, <1>6, <1>7, <2>1, Callers DEF PublishInv, Offered, Subscribed
  <1> QED BY <1>5, <1>8, <1>9 DEF Inv

\* A caller that comes later goes on at once.
LEMMA AlreadyClosedInv ==
    ASSUME Inv, NEW c \in Connections, NEW x \in Events \cup {c}, alreadyClosed(x, c) PROVE Inv'
  <1>1. /\ Calls(x, c) /\ once[c] = "done" /\ ReturnTo(x, c)
        /\ UNCHANGED <<clients, once, closed, queue, received, owed, metrics>>
    BY DEF alreadyClosed
  <1>2. TypeOK BY DEF Inv
  <1>3. /\ conn' \in [Connections -> {"new", "admitted", "subscribed", "serving", "closing", "gone"}]
        /\ publish' \in [Events -> Publisher]
        /\ \A d \in Connections : conn'[d] = IF x = c /\ d = c THEN "gone" ELSE conn[d]
        /\ \A e \in Events : /\ publish'[e].stage = publish[e].stage /\ publish'[e].todo = publish[e].todo
                             /\ publish'[e].at = IF e = x THEN None ELSE publish[e].at
    BY <1>1, ReturnFacts
  <1>4. TypeOK' BY <1>1, <1>2, <1>3 DEF TypeOK
  <1>5. ASSUME NEW d \in Connections PROVE ClientInv(d)'
    <2>1. ClientInv(d) BY DEF Inv
    <2>2. CASE d = c BY <1>1, <1>3, <2>1, <2>2 DEF ClientInv, Subscribed
    <2>3. CASE d # c
      <3>1. conn'[d] = conn[d] BY <1>3, <2>3
      <3>2. once[d] \notin {"open", "done"} => Calls(once[d], d)'
        <4>1. SUFFICES ASSUME once[d] \notin {"open", "done"} PROVE Calls(once[d], d)' OBVIOUS
        <4>2. Calls(once[d], d) BY <2>1, <4>1 DEF ClientInv
        <4>3. CASE once[d] = d BY <1>1, <3>1, <4>2, <4>3 DEF Calls
        <4>4. CASE once[d] # d
          <5>1. once[d] \in Events /\ publish[once[d]].at = d BY <4>2, <4>4 DEF Calls
          <5>2. once[d] # x BY <1>1, <2>3, <5>1, Callers DEF Calls
          <5> QED BY <1>1, <1>3, <4>4, <5>1, <5>2 DEF Calls
        <4> QED BY <4>3, <4>4
      <3> QED BY <1>1, <2>1, <3>1, <3>2 DEF ClientInv, Subscribed
    <2> QED BY <2>2, <2>3
  <1>6. ASSUME NEW e \in Events PROVE PublishInv(e)'
    <2>1. PublishInv(e) BY DEF Inv
    <2> QED BY <1>1, <1>3, <2>1, Callers DEF PublishInv, Offered, Subscribed
  <1> QED BY <1>4, <1>5, <1>6 DEF Inv

\* The subscribers of a new event are in the map.
LEMMA PublishStepInv ==
    ASSUME Inv, NEW e \in Events, Publish(e) PROVE Inv'
  <1> DEFINE subscribers == Subscribers(Scope[e])
  <1>1. /\ publish[e].stage = "new"
        /\ publish' = [publish EXCEPT ![e] = [stage |-> "sending", todo |-> subscribers, at |-> None]]
        /\ owed' = [c \in Connections |-> IF c \in subscribers THEN owed[c] \cup {e} ELSE owed[c]]
        /\ UNCHANGED <<clients, conn, once, closed, queue, received, metrics>>
    BY DEF Publish
  <1>2. TypeOK BY DEF Inv
  <1>3. subscribers \subseteq clients BY DEF Subscribers
  <1> HIDE DEF subscribers
  <1>4. /\ publish' \in [Events -> Publisher]
        /\ \A f \in Events \ {e} : publish'[f] = publish[f]
        /\ publish'[e].stage = "sending" /\ publish'[e].todo = subscribers /\ publish'[e].at = None
    BY <1>1, <1>2, <1>3 DEF TypeOK, Publisher
  <1>5. /\ owed' \in [Connections -> SUBSET Events]
        /\ \A c \in Connections : owed'[c] = IF c \in subscribers THEN owed[c] \cup {e} ELSE owed[c]
    BY <1>1, <1>2 DEF TypeOK
  <1>6. TypeOK' BY <1>1, <1>2, <1>4, <1>5 DEF TypeOK
  <1>7. ASSUME NEW d \in Connections PROVE ClientInv(d)'
    <2>1. ClientInv(d) BY DEF Inv
    <2>2. publish[e].at = None BY <1>1 DEF Inv, PublishInv
    <2>3. Calls(once[d], d) => Calls(once[d], d)' BY <1>1, <1>4, <2>2, Callers DEF Calls
    <2> QED BY <1>1, <1>3, <1>5, <2>1, <2>3 DEF ClientInv, Live, Subscribed
  <1>8. ASSUME NEW f \in Events PROVE PublishInv(f)'
    <2>1. PublishInv(f) BY DEF Inv
    <2> QED BY <1>1, <1>3, <1>4, <1>5, <2>1, Callers DEF PublishInv, Offered, Subscribed
  <1> QED BY <1>6, <1>7, <1>8 DEF Inv

\* What an offer does: the message is queued, or the client is to be closed.
LEMMA SendFacts ==
    ASSUME Inv, NEW e \in Events, NEW c \in Connections, trySend(e, c)
    PROVE  /\ publish[e].stage = "sending" /\ publish[e].at = None /\ c \in publish[e].todo
           /\ UNCHANGED <<clients, conn, once, closed, received, owed>>
           /\ publish' \in [Events -> Publisher]
           /\ \A f \in Events \ {e} : publish'[f] = publish[f]
           /\ publish'[e].stage = "sending" /\ publish'[e].todo = publish[e].todo \ {c}
           /\ metrics' \in Metrics
           /\ metrics'.accepted = metrics.accepted /\ metrics'.closed = metrics.closed
           /\ \/ /\ c \notin closed /\ Len(queue[c]) < Buffer /\ queue' = [queue EXCEPT ![c] = Append(@, e)]
                 /\ publish'[e].at = None
              \/ UNCHANGED queue /\ publish'[e].at = c
  <1>1. publish \in [Events -> Publisher] /\ metrics \in Metrics BY DEF Inv, TypeOK
  <1>2. /\ publish[e].stage = "sending" /\ publish[e].at = None /\ c \in publish[e].todo
        /\ UNCHANGED <<clients, conn, once, closed, received, owed>>
    BY DEF trySend
  <1>3. CASE /\ c \notin closed /\ Len(queue[c]) < Buffer /\ queue' = [queue EXCEPT ![c] = Append(@, e)]
             /\ publish' = [publish EXCEPT ![e].todo = @ \ {c}] /\ UNCHANGED metrics
    <2>1. /\ publish' \in [Events -> Publisher]
          /\ \A f \in Events \ {e} : publish'[f] = publish[f]
          /\ publish'[e].stage = "sending" /\ publish'[e].todo = publish[e].todo \ {c} /\ publish'[e].at = None
      BY <1>1, <1>2, <1>3 DEF Publisher
    <2> QED BY <1>1, <1>2, <1>3, <2>1
  <1>4. CASE /\ publish' = [publish EXCEPT ![e].todo = @ \ {c}, ![e].at = c]
             /\ metrics' = [metrics EXCEPT !.dropped = @ + 1] /\ UNCHANGED queue
    <2> DEFINE p == [publish EXCEPT ![e].todo = @ \ {c}]
    <2>1. /\ p \in [Events -> Publisher] /\ \A f \in Events \ {e} : p[f] = publish[f]
          /\ p[e].stage = "sending" /\ p[e].todo = publish[e].todo \ {c}
      BY <1>1, <1>2 DEF Publisher
    <2>2. publish' = [p EXCEPT ![e].at = c] BY <1>1, <1>4
    <2> HIDE DEF p
    <2>3. /\ publish' \in [Events -> Publisher]
          /\ \A f \in Events \ {e} : publish'[f] = publish[f]
          /\ publish'[e].stage = "sending" /\ publish'[e].todo = publish[e].todo \ {c} /\ publish'[e].at = c
      BY <2>1, <2>2 DEF Publisher
    <2>4. /\ metrics' \in Metrics /\ metrics'.accepted = metrics.accepted /\ metrics'.closed = metrics.closed
      BY <1>1, <1>4 DEF Metrics
    <2> QED BY <1>2, <1>4, <2>3, <2>4
  <1> QED BY <1>3, <1>4 DEF trySend

\* The hub offers an event to one client.
LEMMA SendInv ==
    ASSUME Inv, NEW e \in Events, NEW c \in Connections, trySend(e, c) PROVE Inv'
  <1>1. TypeOK BY DEF Inv
  <1>2. /\ publish[e].stage = "sending" /\ publish[e].at = None /\ c \in publish[e].todo
        /\ UNCHANGED <<clients, conn, once, closed, received, owed>>
        /\ publish' \in [Events -> Publisher]
        /\ \A f \in Events \ {e} : publish'[f] = publish[f]
        /\ publish'[e].stage = "sending" /\ publish'[e].todo = publish[e].todo \ {c}
        /\ publish'[e].at \in {None, c}
        /\ metrics' \in Metrics
    BY SendFacts
  <1>3. queue' \in [Connections -> Seq(Events)] /\ \A d \in Connections : Len(queue'[d]) <= Buffer
    <2>1. /\ queue \in [Connections -> Seq(Events)] /\ \A d \in Connections : Len(queue[d]) <= Buffer
          /\ Buffer \in Nat
      BY <1>1, HubConfiguration DEF TypeOK
    <2>2. CASE Len(queue[c]) < Buffer /\ queue' = [queue EXCEPT ![c] = Append(@, e)]
      <3>1. Append(queue[c], e) \in Seq(Events) /\ Len(Append(queue[c], e)) = Len(queue[c]) + 1
        BY <2>1
      <3> QED BY <2>1, <2>2, <3>1
    <2>3. CASE UNCHANGED queue BY <2>1, <2>3
    <2> QED BY <2>2, <2>3, SendFacts
  <1>4. TypeOK' BY <1>1, <1>2, <1>3 DEF TypeOK
  <1>5. ASSUME NEW d \in Connections PROVE ClientInv(d)'
    <2>1. ClientInv(d) BY DEF Inv
    <2>2. Calls(once[d], d) => Calls(once[d], d)' BY <1>2, Callers DEF Calls
    <2> QED BY <1>2, <2>1, <2>2 DEF ClientInv, Subscribed
  <1>6. ASSUME NEW f \in Events PROVE PublishInv(f)'
    <2>1. PublishInv(f) BY DEF Inv
    <2> QED BY <1>2, <2>1, Callers DEF PublishInv, Offered, Subscribed
  <1> QED BY <1>4, <1>5, <1>6 DEF Inv

\* Publish returns.
LEMMA PublishReturnsInv ==
    ASSUME Inv, NEW e \in Events, publishReturns(e) PROVE Inv'
  <1>1. TypeOK BY DEF Inv
  <1>2. /\ publish[e].stage = "sending" /\ publish[e].at = None /\ publish' = [publish EXCEPT ![e].stage = "done"]
        /\ UNCHANGED <<clients, conn, once, closed, queue, received, owed, metrics>>
    BY DEF publishReturns
  <1>3. /\ publish' \in [Events -> Publisher]
        /\ \A f \in Events : publish'[f].todo = publish[f].todo /\ publish'[f].at = publish[f].at
        /\ \A f \in Events : publish'[f].stage = IF f = e THEN "done" ELSE publish[f].stage
    BY <1>1, <1>2 DEF TypeOK, Publisher
  <1>4. TypeOK' BY <1>1, <1>2, <1>3 DEF TypeOK
  <1>5. ASSUME NEW d \in Connections PROVE ClientInv(d)'
    <2>1. ClientInv(d) BY DEF Inv
    <2>2. Calls(once[d], d) => Calls(once[d], d)' BY <1>2, <1>3 DEF Calls
    <2> QED BY <1>2, <2>1, <2>2 DEF ClientInv, Subscribed
  <1>6. ASSUME NEW f \in Events PROVE PublishInv(f)'
    <2>1. PublishInv(f) BY DEF Inv
    <2> QED BY <1>2, <1>3, <2>1 DEF PublishInv, Offered, Subscribed
  <1> QED BY <1>4, <1>5, <1>6 DEF Inv

\* The steps of the gateway, one by one.
LEMMA NextCases ==
    ASSUME Next
    PROVE  \/ \E c \in Connections :
                \/ checkConnectionLimit(c) \/ upgradeFails(c) \/ Subscribe(c) \/ countAccepted(c)
                \/ WriteLoop(c) \/ clientDone(c) \/ loopEnds(c)
           \/ \E c \in Connections : \E x \in Events \cup {c} :
                deleteClient(x, c) \/ close(x, c) \/ countClosed(x, c) \/ alreadyClosed(x, c)
           \/ \E e \in Events : Publish(e) \/ publishReturns(e)
           \/ \E e \in Events, c \in Connections : trySend(e, c)
  BY DEF Next, serveWebSocket, Publishing, Unsubscribe

\* Every step keeps the invariant.
LEMMA NextInv == Inv /\ [Next]_vars => Inv'
  <1> SUFFICES ASSUME Inv, [Next]_vars PROVE Inv' OBVIOUS
  <1>1. CASE UNCHANGED vars
    BY <1>1 DEF vars, Inv, TypeOK, ClientInv, PublishInv, Subscribed, Offered, Calls
  <1>2. CASE Next
    BY <1>2, NextCases, ServeInv, DeleteInv, CloseInv, CountClosedInv, AlreadyClosedInv, 
       PublishStepInv, SendInv, PublishReturnsInv
  <1> QED BY <1>1, <1>2

\* The invariant holds for any number of connections and events.
THEOREM Invariance == Spec => []Inv
  <1> QED BY InitInv, NextInv, PTL DEF Spec

-----------------------------------------------------------------------------
(* The properties                                                          *)

\* Every part of the gateway keeps its shape, and no queue ever holds more
\* than its buffer (trySend).
THEOREM TypeCorrect == Spec => []TypeOK
  <1>1. Inv => TypeOK BY DEF Inv
  <1> QED BY <1>1, Invariance, PTL

\* Nothing is sent on a closed channel: trySend looks under the mutex that
\* Unsubscribe closes under.
THEOREM ClosedIsSilent == Spec => NoSendOnClosed
  <1>1. ASSUME Inv, [Next]_vars PROVE [\A c \in closed : Len(queue'[c]) <= Len(queue[c])]_vars
    <2> SUFFICES ASSUME Next, NEW c \in closed PROVE Len(queue'[c]) <= Len(queue[c]) BY <1>1
    <2>1. c \in Connections /\ queue \in [Connections -> Seq(Events)] BY <1>1 DEF Inv, TypeOK
    <2>2. Len(queue[c]) \in Nat BY <2>1
    <2>3. CASE UNCHANGED queue BY <2>2, <2>3
    <2>4. ASSUME NEW d \in Connections, WriteLoop(d) PROVE Len(queue'[c]) <= Len(queue[c])
      <3>1. queue[d] # <<>> /\ queue' = [queue EXCEPT ![d] = Tail(@)] BY <2>4 DEF WriteLoop
      <3>2. queue[d] \in Seq(Events) /\ Len(Tail(queue[d])) = Len(queue[d]) - 1 BY <2>1, <3>1
      <3> QED BY <2>1, <2>2, <3>1, <3>2
    <2>5. ASSUME NEW e \in Events, NEW d \in Connections, trySend(e, d) PROVE queue'[c] = queue[c]
      BY <1>1, <2>1, <2>5, SendFacts
    <2> QED BY <2>2, <2>3, <2>4, <2>5, NextCases
         DEF checkConnectionLimit, upgradeFails, Subscribe, countAccepted, clientDone, loopEnds, deleteClient, close,
             countClosed, alreadyClosed, Publish, publishReturns
  <1> QED BY <1>1, Invariance, PTL DEF Spec, NoSendOnClosed

\* The messages of a sequence after an Append, and across Head and Tail.
LEMMA ElementsAppend ==
    ASSUME NEW s \in Seq(Events), NEW e \in Events
    PROVE  Elements(s) \cup {e} \subseteq Elements(Append(s, e))
  <1>1. Append(s, e) \in Seq(Events) /\ Len(Append(s, e)) = Len(s) + 1 OBVIOUS
  <1>2. DOMAIN s = 1..Len(s) /\ DOMAIN Append(s, e) = 1..(Len(s) + 1) BY <1>1
  <1>3. Append(s, e)[Len(s) + 1] = e /\ Len(s) + 1 \in 1..(Len(s) + 1) OBVIOUS
  <1>4. \A i \in 1..Len(s) : Append(s, e)[i] = s[i] /\ i \in 1..(Len(s) + 1) OBVIOUS
  <1> QED BY <1>2, <1>3, <1>4 DEF Elements

\* What is in a queue is its head or in its tail.
LEMMA ElementsTail ==
    ASSUME NEW s \in Seq(Events), s # <<>>
    PROVE  Elements(s) \subseteq {Head(s)} \cup Elements(Tail(s))
  <1>1. Tail(s) \in Seq(Events) /\ Len(Tail(s)) = Len(s) - 1 OBVIOUS
  <1>2. DOMAIN s = 1..Len(s) /\ DOMAIN Tail(s) = 1..(Len(s) - 1) BY <1>1
  <1>3. ASSUME NEW i \in 1..Len(s) PROVE s[i] \in {Head(s)} \cup Elements(Tail(s))
    <2>1. CASE i = 1 BY <2>1
    <2>2. CASE i # 1
      <3>1. i - 1 \in 1..(Len(s) - 1) /\ Tail(s)[i - 1] = s[i] BY <2>2
      <3> QED BY <1>2, <3>1 DEF Elements
    <2> QED BY <2>1, <2>2
  <1> QED BY <1>2, <1>3 DEF Elements

\* Sent or queued: what a peer has got or is going to get.
Held(c) == Elements(received[c]) \cup Elements(queue[c])

\* A message that is held stays held until it has been received.
LEMMA HeldStays ==
    ASSUME Inv, Next, NEW c \in Connections PROVE Held(c) \subseteq Held(c)'
  <1>1. queue \in [Connections -> Seq(Events)] /\ received \in [Connections -> Seq(Events)]
    BY DEF Inv, TypeOK
  <1>2. CASE UNCHANGED <<queue, received>> BY <1>2 DEF Held
  <1>3. ASSUME NEW d \in Connections, WriteLoop(d) PROVE Held(c) \subseteq Held(c)'
    <2>1. /\ queue[d] # <<>> /\ queue' = [queue EXCEPT ![d] = Tail(@)]
          /\ received' = [received EXCEPT ![d] = Append(@, Head(queue[d]))]
      BY <1>3 DEF WriteLoop
    <2>2. CASE c = d
      <3>1. queue'[c] = Tail(queue[c]) /\ received'[c] = Append(received[c], Head(queue[c]))
        BY <1>1, <2>1, <2>2
      <3>2. queue[c] \in Seq(Events) /\ queue[c] # <<>> /\ received[c] \in Seq(Events) BY <1>1, <2>1, <2>2
      <3>3. Head(queue[c]) \in Events BY <3>2
      <3>4. Elements(queue[c]) \subseteq {Head(queue[c])} \cup Elements(Tail(queue[c])) BY <3>2, ElementsTail
      <3>5. Elements(received[c]) \cup {Head(queue[c])} \subseteq Elements(Append(received[c], Head(queue[c])))
        BY <3>2, <3>3, ElementsAppend
      <3>6. Held(c)' = Elements(received'[c]) \cup Elements(queue'[c]) BY DEF Held, Elements
      <3> QED BY <3>1, <3>4, <3>5, <3>6 DEF Held
    <2>3. CASE c # d
      <3>1. queue'[c] = queue[c] /\ received'[c] = received[c] BY <1>1, <2>1, <2>3
      <3> QED BY <3>1 DEF Held, Elements
    <2> QED BY <2>2, <2>3
  <1>4. ASSUME NEW e \in Events, NEW d \in Connections, trySend(e, d) PROVE Held(c) \subseteq Held(c)'
    <2>1. received' = received BY <1>4, SendFacts
    <2>2. CASE queue'[c] = queue[c] BY <2>1, <2>2 DEF Held, Elements
    <2>3. CASE queue'[c] = Append(queue[c], e)
      <3>1. Elements(queue[c]) \cup {e} \subseteq Elements(Append(queue[c], e)) BY <1>1, ElementsAppend
      <3>2. Held(c)' = Elements(received'[c]) \cup Elements(queue'[c]) BY DEF Held, Elements
      <3> QED BY <2>1, <2>3, <3>1, <3>2 DEF Held
    <2>4. queue' = queue \/ queue' = [queue EXCEPT ![d] = Append(@, e)] BY <1>4, SendFacts
    <2>5. queue'[c] = queue[c] \/ queue'[c] = Append(queue[c], e) BY <1>1, <2>4
    <2> QED BY <2>2, <2>3, <2>5
  <1> QED BY <1>2, <1>3, <1>4, NextCases
       DEF checkConnectionLimit, upgradeFails, Subscribe, countAccepted, clientDone, loopEnds, deleteClient, close,
           countClosed, alreadyClosed, Publish, publishReturns

\* closeOnce is never opened again.
LEMMA OnceStays ==
    ASSUME Inv, Next, NEW c \in Connections, once[c] # "open" PROVE once'[c] # "open"
  <1>1. once \in [Connections -> {"open", "done"} \cup Connections \cup Events] BY DEF Inv, TypeOK
  <1>2. ASSUME NEW d \in Connections, NEW x \in Events \cup {d}, deleteClient(x, d) PROVE once'[c] # "open"
    BY <1>1, <1>2, Callers DEF deleteClient
  <1>3. ASSUME NEW d \in Connections, NEW x \in Events \cup {d}, countClosed(x, d) PROVE once'[c] # "open"
    BY <1>1, <1>3 DEF countClosed
  <1> QED BY <1>2, <1>3, NextCases
       DEF checkConnectionLimit, upgradeFails, Subscribe, countAccepted, WriteLoop, clientDone, loopEnds,
           close, alreadyClosed, Publish, publishReturns, trySend

\* What is owed to a client is held, on offer, or the reason to close it.
Accounted(c, e) == e \in Held(c) \/ Offered(e, c) \/ once[c] # "open"

\* An offer ends with the message in the queue or the client closed.
LEMMA OfferStays ==
    ASSUME Inv, Next, NEW c \in Connections, NEW e \in Events, Offered(e, c), publish[e].stage # "new"
    PROVE  Accounted(c, e)'
  <1>1. once[c] # "open" => once'[c] # "open" BY OnceStays
  <1>2. CASE UNCHANGED publish BY <1>2 DEF Accounted, Offered
  <1>3. ASSUME NEW d \in Connections, NEW x \in Events \cup {d}, countClosed(x, d) \/ alreadyClosed(x, d)
        PROVE  Accounted(c, e)'
    <2>1. Calls(x, d) /\ ReturnTo(x, d) BY <1>3 DEF countClosed, alreadyClosed
    <2>2. /\ publish'[e].todo = publish[e].todo
          /\ publish'[e].at = IF e = x THEN None ELSE publish[e].at
      BY <2>1, ReturnFacts
    <2>3. CASE e # x \/ c \in publish[e].todo BY <2>2, <2>3 DEF Accounted, Offered
    <2>4. CASE e = x /\ c \notin publish[e].todo
      <3>1. publish[e].at = c BY <2>4 DEF Offered
      <3>2. d = c BY <2>1, <2>4, <3>1, Callers DEF Calls
      <3>3. once[c] # "open" BY <1>3, <2>4, <3>2, Callers DEF countClosed, alreadyClosed
      <3> QED BY <1>1, <3>3 DEF Accounted
    <2> QED BY <2>3, <2>4
  <1>4. ASSUME NEW f \in Events, Publish(f) PROVE Accounted(c, e)'
    <2>1. f # e BY <1>4 DEF Publish
    <2>2. publish'[e] = publish[e] BY <1>4, <2>1 DEF Publish, Inv, TypeOK
    <2> QED BY <2>2 DEF Accounted, Offered
  <1>5. ASSUME NEW f \in Events, publishReturns(f) PROVE Accounted(c, e)'
    <2>1. publish'[e].todo = publish[e].todo /\ publish'[e].at = publish[e].at
      BY <1>5 DEF publishReturns, Inv, TypeOK, Publisher
    <2> QED BY <2>1 DEF Accounted, Offered
  <1>6. ASSUME NEW f \in Events, NEW d \in Connections, trySend(f, d) PROVE Accounted(c, e)'
    <2>1. CASE f # e
      <3>1. publish'[e] = publish[e] BY <1>6, <2>1, SendFacts
      <3> QED BY <3>1 DEF Accounted, Offered
    <2>2. CASE f = e
      <3>1. /\ publish[e].at = None /\ publish'[e].todo = publish[e].todo \ {d}
            /\ \/ queue' = [queue EXCEPT ![d] = Append(@, e)]
               \/ publish'[e].at = d
        BY <1>6, <2>2, SendFacts
      <3>2. CASE c # d BY <3>1, <3>2, Callers DEF Accounted, Offered
      <3>3. CASE c = d /\ publish'[e].at = d BY <3>3 DEF Accounted, Offered
      <3>4. CASE c = d /\ queue' = [queue EXCEPT ![d] = Append(@, e)]
        <4>1. queue[c] \in Seq(Events) /\ queue'[c] = Append(queue[c], e) BY <3>4 DEF Inv, TypeOK
        <4>2. e \in Elements(queue'[c]) BY <4>1, ElementsAppend
        <4>3. Held(c)' = Elements(received'[c]) \cup Elements(queue'[c]) BY DEF Held, Elements
        <4> QED BY <4>2, <4>3 DEF Accounted
      <3> QED BY <3>1, <3>2, <3>3, <3>4
    <2> QED BY <2>1, <2>2
  <1> QED BY <1>2, <1>3, <1>4, <1>5, <1>6, NextCases
       DEF checkConnectionLimit, upgradeFails, Subscribe, countAccepted, WriteLoop, clientDone,
           loopEnds, deleteClient,
           close

\* While a client stays connected everything it is owed is accounted for.
AllAccounted == \A c \in Connections : \A e \in owed[c] : Accounted(c, e)

\* One step: only Publish makes a debt, and offers the event at once.
LEMMA AccountStays ==
    ASSUME Inv, Next, AllAccounted PROVE AllAccounted'
  <1>1. SUFFICES ASSUME NEW c \in Connections, NEW e \in owed'[c] PROVE Accounted(c, e)'
    BY DEF AllAccounted
  <1>2. owed \in [Connections -> SUBSET Events] BY DEF Inv, TypeOK
  <1>3. CASE e \in owed[c]
    <2>1. e \in Events /\ publish[e].stage # "new" /\ Accounted(c, e)
      BY <1>2, <1>3 DEF Inv, PublishInv, AllAccounted
    <2>2. CASE e \in Held(c) BY <2>2, HeldStays DEF Accounted
    <2>3. CASE Offered(e, c) BY <2>1, <2>3, OfferStays
    <2>4. CASE once[c] # "open" BY <2>4, OnceStays DEF Accounted
    <2> QED BY <2>1, <2>2, <2>3, <2>4 DEF Accounted
  <1>4. CASE e \notin owed[c]
    <2>1. owed' # owed BY <1>1, <1>4
    <2>2. PICK f \in Events : Publish(f)
      BY <2>1, NextCases
      DEF checkConnectionLimit, upgradeFails, Subscribe, countAccepted, WriteLoop, clientDone,
           loopEnds, deleteClient, close,
          countClosed, alreadyClosed, publishReturns, trySend
    <2>3. c \in Subscribers(Scope[f]) /\ e = f BY <1>1, <1>4, <2>2 DEF Publish
    <2>4. publish'[e].todo = Subscribers(Scope[f]) BY <2>2, <2>3 DEF Publish, Inv, TypeOK
    <2> QED BY <2>3, <2>4 DEF Accounted, Offered
  <1> QED BY <1>3, <1>4

\* A connection that is still open has lost nothing: what was published since
\* it subscribed has been sent, is queued, or is about to be offered or to
\* close it (Publish, trySend, Unsubscribe).
THEOREM NothingLostSilently == Spec => []NoSilentLoss
  <1>1. Init => AllAccounted BY DEF Init, AllAccounted
  <1>2. ASSUME Inv, [Next]_vars, AllAccounted PROVE AllAccounted'
    <2>1. CASE Next BY <1>2, <2>1, AccountStays
    <2>2. CASE UNCHANGED vars
      BY <1>2, <2>2 DEF vars, AllAccounted, Accounted, Held, Offered, Elements
    <2> QED BY <1>2, <2>1, <2>2
  <1>3. Inv /\ AllAccounted => NoSilentLoss
    BY DEF AllAccounted, Accounted, Held, Offered, NoSilentLoss
  <1> QED BY <1>1, <1>2, <1>3, Invariance, PTL DEF Spec

-----------------------------------------------------------------------------
(* The counters                                                            *)

\* The clients, and those on their way in or out, can be counted.
LEMMA FiniteClients ==
    ASSUME Inv PROVE IsFiniteSet(clients) /\ IsFiniteSet(Closing) /\ IsFiniteSet(Uncounted)
  <1>1. clients \subseteq Connections /\ Closing \subseteq Connections /\ Uncounted \subseteq Connections
    BY DEF Inv, TypeOK, Closing, Uncounted
  <1> QED BY <1>1, HubConfiguration, FS_Subset

\* Clients come by Subscribe, are counted, move from the map to their closer,
\* and are counted again when they go.
LEMMA BalanceStays ==
    ASSUME Inv, Next, MetricsBalance PROVE MetricsBalance'
  <1>1. TypeOK BY DEF Inv
  <1>2. IsFiniteSet(clients) /\ IsFiniteSet(Closing) /\ IsFiniteSet(Uncounted) BY FiniteClients
  <1>3. Cardinality(clients) \in Nat /\ Cardinality(Closing) \in Nat /\ Cardinality(Uncounted) \in Nat
    BY <1>2, FS_CardinalityType
  <1>4. metrics \in Metrics /\ metrics.accepted \in Nat /\ metrics.closed \in Nat BY <1>1 DEF TypeOK, Metrics
  <1>5. ASSUME UNCHANGED <<clients, once>>, Uncounted' = Uncounted,
               metrics'.accepted = metrics.accepted, metrics'.closed = metrics.closed
        PROVE  MetricsBalance'
    BY <1>5 DEF MetricsBalance, Closing
  <1>6. ASSUME NEW c \in Connections, Subscribe(c) PROVE MetricsBalance'
    <2>1. /\ conn[c] = "admitted" /\ clients' = clients \cup {c} /\ once' = once /\ metrics' = metrics
          /\ conn' = [conn EXCEPT ![c] = "subscribed"]
      BY <1>6 DEF Subscribe, Goto
    <2>2. c \notin clients BY <2>1 DEF Inv, ClientInv, Live
    <2>3. Uncounted' = Uncounted \cup {c} /\ c \notin Uncounted BY <1>1, <2>1 DEF Uncounted, TypeOK
    <2>4. Cardinality(clients') = Cardinality(clients) + 1 BY <1>2, <2>1, <2>2, FS_AddElement
    <2>5. Cardinality(Uncounted') = Cardinality(Uncounted) + 1 BY <1>2, <2>3, FS_AddElement
    <2>6. Closing' = Closing BY <2>1 DEF Closing
    <2> QED BY <1>3, <1>4, <2>1, <2>4, <2>5, <2>6 DEF MetricsBalance
  <1>7. ASSUME NEW c \in Connections, countAccepted(c) PROVE MetricsBalance'
    <2>1. /\ conn[c] = "subscribed" /\ clients' = clients /\ once' = once
          /\ metrics' = [metrics EXCEPT !.accepted = @ + 1] /\ conn' = [conn EXCEPT ![c] = "serving"]
      BY <1>7 DEF countAccepted, Goto
    <2>2. Uncounted' = Uncounted \ {c} /\ c \in Uncounted BY <1>1, <2>1 DEF Uncounted, TypeOK
    <2>3. Cardinality(Uncounted') = Cardinality(Uncounted) - 1 BY <1>2, <2>2, FS_RemoveElement
    <2>4. Closing' = Closing BY <2>1 DEF Closing
    <2>5. metrics'.accepted = metrics.accepted + 1 /\ metrics'.closed = metrics.closed
      BY <1>4, <2>1 DEF Metrics
    <2> QED BY <1>3, <1>4, <2>1, <2>3, <2>4, <2>5 DEF MetricsBalance
  <1>8. ASSUME NEW c \in Connections, NEW x \in Events \cup {c}, deleteClient(x, c) PROVE MetricsBalance'
    <2>1. /\ Calls(x, c) /\ once[c] = "open" /\ clients' = clients \ {c} /\ metrics' = metrics /\ conn' = conn
          /\ once' = [once EXCEPT ![c] = x]
      BY <1>8 DEF deleteClient
    <2>2. c \in clients
      <3>1. CASE x = c
        <4>1. conn[c] = "closing" BY <2>1, <3>1 DEF Calls
        <4> QED BY <2>1, <4>1 DEF Inv, ClientInv, Live, Subscribed
      <3>2. CASE x # c
        <4>1. x \in Events /\ Offered(x, c) BY <2>1, <3>2 DEF Calls, Offered
        <4> QED BY <2>1, <4>1 DEF Inv, PublishInv, Subscribed
      <3> QED BY <3>1, <3>2
    <2>3. Closing' = Closing \cup {c} /\ c \notin Closing
      BY <1>1, <2>1, Callers DEF Closing, TypeOK
    <2>4. Cardinality(clients') = Cardinality(clients) - 1 BY <1>2, <2>1, <2>2, FS_RemoveElement
    <2>5. Cardinality(Closing') = Cardinality(Closing) + 1 BY <1>2, <2>3, FS_AddElement
    <2>6. Uncounted' = Uncounted BY <2>1 DEF Uncounted
    <2> QED BY <1>3, <1>4, <2>1, <2>4, <2>5, <2>6 DEF MetricsBalance
  <1>9. ASSUME NEW c \in Connections, NEW x \in Events \cup {c}, countClosed(x, c) PROVE MetricsBalance'
    <2>1. /\ Calls(x, c) /\ once[c] = x /\ once' = [once EXCEPT ![c] = "done"] /\ clients' = clients
          /\ metrics' = [metrics EXCEPT !.closed = @ + 1] /\ ReturnTo(x, c)
      BY <1>9 DEF countClosed
    <2>2. Closing' = Closing \ {c} /\ c \in Closing BY <1>1, <2>1, Callers DEF Closing, TypeOK
    <2>3. Cardinality(Closing') = Cardinality(Closing) - 1 BY <1>2, <2>2, FS_RemoveElement
    <2>4. metrics'.accepted = metrics.accepted /\ metrics'.closed = metrics.closed + 1
      BY <1>4, <2>1 DEF Metrics
    <2>5. \A d \in Connections : conn'[d] = IF x = c /\ d = c THEN "gone" ELSE conn[d] BY <2>1, ReturnFacts
    <2>6. x = c => conn[c] = "closing" BY <2>1 DEF Calls
    <2>7. Uncounted' = Uncounted BY <2>5, <2>6 DEF Uncounted
    <2> QED BY <1>3, <1>4, <2>1, <2>3, <2>4, <2>7 DEF MetricsBalance
  <1>10. ASSUME NEW c \in Connections, NEW x \in Events \cup {c}, alreadyClosed(x, c) PROVE MetricsBalance'
    <2>1. Calls(x, c) /\ ReturnTo(x, c) /\ UNCHANGED <<clients, once, metrics>> BY <1>10 DEF alreadyClosed
    <2>2. \A d \in Connections : conn'[d] = IF x = c /\ d = c THEN "gone" ELSE conn[d] BY <2>1, ReturnFacts
    <2>3. x = c => conn[c] = "closing" BY <2>1 DEF Calls
    <2>4. Uncounted' = Uncounted BY <2>2, <2>3 DEF Uncounted
    <2> QED BY <1>5, <2>1, <2>4
  <1>11. ASSUME NEW c \in Connections, checkConnectionLimit(c) \/ upgradeFails(c) \/ clientDone(c) \/ loopEnds(c)
         PROVE  MetricsBalance'
    <2>1. UNCHANGED <<clients, once, metrics>>
      BY <1>11 DEF checkConnectionLimit, upgradeFails, clientDone, loopEnds
    <2>2. Uncounted' = Uncounted
      BY <1>1, <1>11 DEF Uncounted, TypeOK, Goto, checkConnectionLimit, upgradeFails, clientDone, loopEnds
    <2> QED BY <1>5, <2>1, <2>2
  <1>12. ASSUME NEW e \in Events, NEW c \in Connections, trySend(e, c) PROVE MetricsBalance'
    <2>1. Uncounted' = Uncounted BY <1>12, SendFacts DEF Uncounted
    <2> QED BY <1>5, <1>12, <2>1, SendFacts
  <1>13. ASSUME UNCHANGED <<clients, once, metrics, conn>> PROVE MetricsBalance'
    BY <1>5, <1>13 DEF Uncounted
  <1> QED BY <1>6, <1>7, <1>8, <1>9, <1>10, <1>11, <1>12, <1>13, NextCases
       DEF WriteLoop, close, Publish, publishReturns

\* The counters agree with the subscriptions up to the clients on their way in
\* or out: each client is counted once when it comes and once when it goes,
\* whoever closes it (closeOnce) and however early (Subscribe counts last).
THEOREM CountersBalance == Spec => []MetricsBalance
  <1>1. Init => MetricsBalance
    <2> SUFFICES ASSUME Init PROVE MetricsBalance OBVIOUS
    <2>1. clients = {} /\ Closing = {} /\ Uncounted = {} BY DEF Init, Closing, Uncounted
    <2> QED BY <2>1, FS_EmptySet DEF Init, MetricsBalance
  <1>2. ASSUME Inv, [Next]_vars, MetricsBalance PROVE MetricsBalance'
    <2>1. CASE Next BY <1>2, <2>1, BalanceStays
    <2>2. CASE UNCHANGED vars BY <1>2, <2>2 DEF vars, MetricsBalance, Closing, Uncounted
    <2> QED BY <1>2, <2>1, <2>2
  <1> QED BY <1>1, <1>2, Invariance, PTL DEF Spec

-----------------------------------------------------------------------------
(***************************************************************************)
(* The analytics projection, for any tables, sessions, assists, service    *)
(* periods, workers and number of days, any distance between the stamps of *)
(* rows and events, in any timezone that is not ahead of UTC.  A day on    *)
(* which an event occurred is shown by its row or still has an event to be *)
(* handled; the same is true of what a job has computed, but for the event *)
(* the job is about to strike out.  What is committed during a job leaves  *)
(* an event of its own.                                                    *)
(***************************************************************************)

\* A timezone that is not ahead of UTC.
West == Offset <= 0

HasEvent(d) == \E e \in FactEvents : On(e, d)

FactType == [start : Ticks \cup {Unset}, end : Ticks \cup {Unset}]

\* The stamp of the row that goes with an event.
RowStamp(e) ==
    CASE e[1] = "started" -> sessions[e[2]].start
      [] e[1] = "ended" -> sessions[e[2]].end
      [] e[1] = "requested" -> assists[e[2]].start
      [] e[1] = "acknowledged" -> assists[e[2]].end

\* Rows, events and the log tell of the same commits, and only what has
\* occurred is pending.
TimeInv ==
    /\ sessions \in [Sessions -> FactType] /\ assists \in [Assists -> FactType]
    /\ occurred \in [FactEvents -> Ticks \cup {Unset}]
    /\ log \in Seq(FactEvents)
    /\ \A e \in FactEvents : Occurred(e) <=> RowStamp(e) # Unset
    /\ \A e \in FactEvents : Occurred(e) <=> \E i \in 1..Len(log) : log[i] = e
    /\ pending \subseteq {e \in FactEvents : Occurred(e)}

\* The row of a day shows what was committed until the last event of the day.
Current(row, d) ==
    /\ row.there
    /\ Shows(row.day, d, localCalendarDateWindow(d))
    /\ (d % 7) \in row.of.days => Shows(row.period, d, ServicePeriodWindowForDate(row.of, d))

\* So it does, unless some of these events, which are to be handled, is on the day.
CurrentOrPending(row, d, events) == HasEvent(d) => (\E e \in events : On(e, d)) \/ Current(row, d)

ProjectionInv == \A d \in Days : CurrentOrPending(projection[d], d, pending)

RowShape(row) == row = [day |-> row.day, period |-> row.period, of |-> row.of, there |-> row.there]
JobShape(j) ==
    /\ j = [stage |-> j.stage, event |-> j.event, day |-> j.day, to |-> j.to, rows |-> j.rows]
    /\ j.rows = [d \in Days |-> j.rows[d]] /\ \A d \in Days : RowShape(j.rows[d])

\* The event a job handles is on its only day; what it has computed is current,
\* but for events among P that it is not about to strike out.
JobOk(j, P) ==
    /\ j.stage \in {"tables", "period"}
    /\ j.day \in Days /\ j.to \in 1..(LastDay + 1)
    /\ j.event # <<"none">> => /\ j.event \in FactEvents
                               /\ On(j.event, j.day) /\ j.to = j.day + 1
    /\ j.stage = "period" => j.rows[j.day].there
    /\ \A d \in Days : j.rows[d].there => CurrentOrPending(j.rows[d], d, P \ {j.event})

\* A job is the only one.
JobInv(w) ==
    /\ JobShape(job[w])
    /\ job[w] # Idle => JobOk(job[w], pending) /\ \A v \in Workers \ {w} : job[v] = Idle

JobsInv == job = [w \in Workers |-> job[w]] /\ \A w \in Workers : JobInv(w)

DaysInv == TimeInv /\ ProjectionInv /\ JobsInv

-----------------------------------------------------------------------------
(* Days                                                                    *)

\* The quotient is the number of whole days.
LEMMA DayBounds ==
    ASSUME NEW t \in Int
    PROVE  /\ t \div DayTicks \in Int
           /\ DayTicks * (t \div DayTicks) <= t /\ t < DayTicks * ((t \div DayTicks) + 1)
  BY AnalyticsBounds

\* Only one day has an instant between its midnights.
LEMMA DayUnique ==
    ASSUME NEW t \in Int, NEW d \in Int, DayTicks * d <= t, t < DayTicks * (d + 1)
    PROVE  t \div DayTicks = d
<1>1. PICK q \in Int : q = t \div DayTicks /\ DayTicks * q <= t /\ t < DayTicks * (q + 1)
  BY DayBounds
<1>2. DayTicks \in Int /\ DayTicks > 0
  BY AnalyticsBounds
<1>3. CASE q >= d + 1
  <2>1. DayTicks * q >= DayTicks * (d + 1)
    BY <1>2, <1>3
  <2> QED
    BY <1>1, <1>2, <2>1
<1>4. CASE q + 1 <= d
  <2>1. DayTicks * d >= DayTicks * (q + 1)
    BY <1>2, <1>4
  <2> QED
    BY <1>1, <1>2, <2>1
<1> QED
  BY <1>1, <1>3, <1>4

\* The day of an event is a day of the table.
LEMMA EventDay ==
    ASSUME NEW t \in Ticks
    PROVE  t \in Int /\ DayOf(t) \in Days
<1>1. t \in Int /\ DayTicks \in Nat \ {0} /\ t >= 0 /\ LastTick \in Int /\ t <= LastTick
  BY AnalyticsBounds DEF Ticks
<1>2. PICK q \in Int : q = DayOf(t) /\ DayTicks * q <= t /\ t < DayTicks * (q + 1)
  BY <1>1, DayBounds DEF DayOf
<1>3. PICK l \in Int : l = LastDay /\ DayTicks * l <= LastTick /\ LastTick < DayTicks * (l + 1)
  BY <1>1, DayBounds DEF DayOf, LastDay
<1>4. q >= 0
  <2> SUFFICES ASSUME q + 1 <= 0 PROVE FALSE
    OBVIOUS
  <2>1. DayTicks * (q + 1) <= 0
    BY <1>1
  <2> QED
    BY <1>1, <1>2, <2>1
<1>5. q <= l
  <2> SUFFICES ASSUME l + 1 <= q PROVE FALSE
    OBVIOUS
  <2>1. DayTicks * (l + 1) <= DayTicks * q
    BY <1>1
  <2> QED
    BY <1>1, <1>2, <1>3, <2>1
<1> QED
  BY <1>1, <1>2, <1>3, <1>4, <1>5 DEF Days

\* West of UTC a local midnight has the date of its day in UTC.
LEMMA Midnights ==
    ASSUME West, NEW d \in Int
    PROVE  calendarDate(DayTicks * d) = d /\ calendarDate(DayEnd(d)) = d + 1
<1>1. ASSUME NEW n \in Int PROVE calendarDate(DayTicks * n) = n
  <2>1. DayTicks * n - Offset \in Int /\ DayTicks * n <= DayTicks * n - Offset
        /\ DayTicks * n - Offset < DayTicks * n + DayTicks /\ DayTicks * n + DayTicks = DayTicks * (n + 1)
    BY AnalyticsBounds DEF West
  <2> QED
    BY <2>1, DayUnique DEF calendarDate
<1> QED
  BY <1>1 DEF DayEnd

\* East of UTC, whatever the offset, a local midnight still has the date of
\* the day before: the range computed for an event is that day, and never the
\* day on which the event occurred.
THEOREM EastRangeIsTheDayBefore ==
    ASSUME Offset > 0, NEW t \in Ticks
    PROVE  /\ calendarDate(localDateWindow(t).start) = DayOf(t) - 1
           /\ calendarDate(localDateWindow(t).end) = DayOf(t)
<1>1. ASSUME NEW n \in Int PROVE calendarDate(DayTicks * n) = n - 1
  <2>1. DayTicks * n - Offset \in Int /\ DayTicks * (n - 1) = DayTicks * n - DayTicks
        /\ DayTicks * n - DayTicks <= DayTicks * n - Offset /\ DayTicks * n - Offset < DayTicks * n
    BY AnalyticsBounds
  <2>2. n - 1 \in Int /\ (n - 1) + 1 = n
    OBVIOUS
  <2> QED
    BY <2>1, <2>2, DayUnique DEF calendarDate
<1>2. PICK d \in Int : d = DayOf(t)
  BY EventDay, DayBounds DEF DayOf
<1>3. calendarDate(DayTicks * d) = d - 1 /\ calendarDate(DayTicks * (d + 1)) = d
  BY <1>1
<1> QED
  BY <1>2, <1>3 DEF localDateWindow, DayEnd

-----------------------------------------------------------------------------
(* What a metric shows                                                     *)

\* The row of each event.
LEMMA EventOf ==
    /\ \A s \in Sessions : /\ <<"started", s>> \in FactEvents /\ RowStamp(<<"started", s>>) = sessions[s].start
                           /\ <<"ended", s>> \in FactEvents /\ RowStamp(<<"ended", s>>) = sessions[s].end
    /\ \A a \in Assists : /\ <<"requested", a>> \in FactEvents /\ RowStamp(<<"requested", a>>) = assists[a].start
                          /\ <<"acknowledged", a>> \in FactEvents /\ RowStamp(<<"acknowledged", a>>) = assists[a].end
  BY DEF FactEvents, RowStamp

\* An event is a pair, and its kind is not that of no event.
LEMMA EventKind == ASSUME NEW e \in FactEvents PROVE e # <<"none">>
  BY DEF FactEvents

\* Who knows of every event knows the facts.
LEMMA AllKnown ==
    ASSUME TimeInv, NEW K, K = {e \in FactEvents : Occurred(e)}
    PROVE  Known(sessions, "started", "ended", K) = sessions
           /\ Known(assists, "requested", "acknowledged", K) = assists
<1>1. \A s \in Sessions : /\ <<"started", s>> \in K <=> sessions[s].start # Unset
                          /\ <<"ended", s>> \in K <=> sessions[s].end # Unset
  BY EventOf DEF TimeInv
<1>2. \A a \in Assists : /\ <<"requested", a>> \in K <=> assists[a].start # Unset
                         /\ <<"acknowledged", a>> \in K <=> assists[a].end # Unset
  BY EventOf DEF TimeInv
<1>3. sessions \in [Sessions -> FactType] /\ assists \in [Assists -> FactType]
  BY DEF TimeInv
<1>4. Known(sessions, "started", "ended", K) = sessions
  BY <1>1, <1>3 DEF Known, FactType
<1>5. Known(assists, "requested", "acknowledged", K) = assists
  BY <1>2, <1>3 DEF Known, FactType
<1> QED
  BY <1>4, <1>5

\* What is computed now shows everything.
LEMMA ShowsAll ==
    ASSUME TimeInv, NEW d, NEW w
    PROVE  Shows(Metric(w), d, w)
<1>1. PICK K : K = {log[i] : i \in 1..Len(log)}
  OBVIOUS
<1>2. Len(log) \in 0..Len(log)
  BY DEF TimeInv
<1>3. K = {e \in FactEvents : Occurred(e)}
  <2>1. \A i \in 1..Len(log) : log[i] \in FactEvents
    BY DEF TimeInv
  <2> QED
    BY <1>1, <2>1 DEF TimeInv
<1>4. \A e \in FactEvents : On(e, d) => e \in K
  BY <1>3 DEF On
<1>5. /\ Known(sessions, "started", "ended", K) = sessions
      /\ Known(assists, "requested", "acknowledged", K) = assists
  BY <1>3, AllKnown
<1>6. Metric(w).tables = active
  BY DEF Metric, calculateWindowMetric
<1>7. Metric(w) = calculateWindowMetric(Metric(w).tables, Known(sessions, "started", "ended", K),
                                        Known(assists, "requested", "acknowledged", K), w)
  BY <1>5, <1>6 DEF Metric
<1> QED
  BY <1>1, <1>2, <1>4, <1>7 DEF Shows

-----------------------------------------------------------------------------
(* An event occurs                                                         *)

\* What the four commands have in common.
Occurs(e) ==
    /\ e \in FactEvents /\ ~Occurred(e)
    /\ RowStamp(e)' # Unset
    /\ \A f \in FactEvents \ {e} : RowStamp(f)' = RowStamp(f)
    /\ sessions' \in [Sessions -> FactType] /\ assists' \in [Assists -> FactType]
    /\ \E t \in Ticks : occurred' = [occurred EXCEPT ![e] = t]
    /\ log' = Append(log, e)
    /\ pending' = pending \cup {e}
    /\ UNCHANGED <<projection, job>>

\* Only the times of sessions and assists change.
LEMMA CommandOccurs ==
    ASSUME TimeInv,
           \/ \E s \in Sessions : OccupyTable(s) \/ ClearTable(s)
           \/ \E a \in Assists : RequestAssist(a) \/ AcknowledgeAssist(a)
    PROVE  \E e \in FactEvents : Occurs(e)
<1>1. /\ Stamps \subseteq Ticks /\ Unset \notin Ticks
      /\ sessions \in [Sessions -> FactType] /\ assists \in [Assists -> FactType]
      /\ \A e \in FactEvents : Occurred(e) <=> RowStamp(e) # Unset
  BY AnalyticsBounds DEF TimeInv, Stamps, Ticks, Unset
<1>2. ASSUME NEW e \in FactEvents, writeOperationalEvent(e)
      PROVE  /\ \E t \in Ticks : occurred' = [occurred EXCEPT ![e] = t]
             /\ log' = Append(log, e) /\ pending' = pending \cup {e} /\ UNCHANGED <<projection, job>>
  BY <1>1, <1>2 DEF writeOperationalEvent
<1>3. ASSUME NEW s \in Sessions, OccupyTable(s) PROVE Occurs(<<"started", s>>)
  <2>1. sessions[s].start = Unset
    BY <1>3 DEF OccupyTable, NoFact
  <2>2. PICK now \in Ticks : sessions' = [sessions EXCEPT ![s].start = now]
    BY <1>1, <1>3 DEF OccupyTable
  <2>3. assists' = assists /\ writeOperationalEvent(<<"started", s>>)
    BY <1>3 DEF OccupyTable
  <2>4. sessions' \in [Sessions -> FactType]
    BY <1>1, <2>2 DEF FactType
  <2>5. \A x \in FactEvents \ {<<"started", s>>} : RowStamp(x)' = RowStamp(x)
    BY <1>1, <2>2, <2>3 DEF FactEvents, RowStamp, FactType
  <2>6. RowStamp(<<"started", s>>)' # Unset
    BY <1>1, <2>2 DEF RowStamp
  <2>7. <<"started", s>> \in FactEvents /\ ~Occurred(<<"started", s>>)
    BY <1>1, <2>1, EventOf
  <2> QED
    BY <1>1, <1>2, <2>3, <2>4, <2>5, <2>6, <2>7 DEF Occurs
<1>4. ASSUME NEW s \in Sessions, ClearTable(s) PROVE Occurs(<<"ended", s>>)
  <2>1. sessions[s].end = Unset
    BY <1>4 DEF ClearTable
  <2>2. PICK now \in Ticks : sessions' = [sessions EXCEPT ![s].end = now]
    BY <1>1, <1>4 DEF ClearTable
  <2>3. assists' = assists /\ writeOperationalEvent(<<"ended", s>>)
    BY <1>4 DEF ClearTable
  <2>4. sessions' \in [Sessions -> FactType]
    BY <1>1, <2>2 DEF FactType
  <2>5. \A x \in FactEvents \ {<<"ended", s>>} : RowStamp(x)' = RowStamp(x)
    BY <1>1, <2>2, <2>3 DEF FactEvents, RowStamp, FactType
  <2>6. RowStamp(<<"ended", s>>)' # Unset
    BY <1>1, <2>2 DEF RowStamp
  <2>7. <<"ended", s>> \in FactEvents /\ ~Occurred(<<"ended", s>>)
    BY <1>1, <2>1, EventOf
  <2> QED
    BY <1>1, <1>2, <2>3, <2>4, <2>5, <2>6, <2>7 DEF Occurs
<1>5. ASSUME NEW a \in Assists, RequestAssist(a) PROVE Occurs(<<"requested", a>>)
  <2>1. assists[a].start = Unset
    BY <1>5 DEF RequestAssist, NoFact
  <2>2. PICK now \in Ticks : assists' = [assists EXCEPT ![a].start = now]
    BY <1>1, <1>5 DEF RequestAssist
  <2>3. sessions' = sessions /\ writeOperationalEvent(<<"requested", a>>)
    BY <1>5 DEF RequestAssist
  <2>4. assists' \in [Assists -> FactType]
    BY <1>1, <2>2 DEF FactType
  <2>5. \A x \in FactEvents \ {<<"requested", a>>} : RowStamp(x)' = RowStamp(x)
    BY <1>1, <2>2, <2>3 DEF FactEvents, RowStamp, FactType
  <2>6. RowStamp(<<"requested", a>>)' # Unset
    BY <1>1, <2>2 DEF RowStamp
  <2>7. <<"requested", a>> \in FactEvents /\ ~Occurred(<<"requested", a>>)
    BY <1>1, <2>1, EventOf
  <2> QED
    BY <1>1, <1>2, <2>3, <2>4, <2>5, <2>6, <2>7 DEF Occurs
<1>6. ASSUME NEW a \in Assists, AcknowledgeAssist(a) PROVE Occurs(<<"acknowledged", a>>)
  <2>1. assists[a].end = Unset
    BY <1>6 DEF AcknowledgeAssist
  <2>2. PICK now \in Ticks : assists' = [assists EXCEPT ![a].end = now]
    BY <1>1, <1>6 DEF AcknowledgeAssist
  <2>3. sessions' = sessions /\ writeOperationalEvent(<<"acknowledged", a>>)
    BY <1>6 DEF AcknowledgeAssist
  <2>4. assists' \in [Assists -> FactType]
    BY <1>1, <2>2 DEF FactType
  <2>5. \A x \in FactEvents \ {<<"acknowledged", a>>} : RowStamp(x)' = RowStamp(x)
    BY <1>1, <2>2, <2>3 DEF FactEvents, RowStamp, FactType
  <2>6. RowStamp(<<"acknowledged", a>>)' # Unset
    BY <1>1, <2>2 DEF RowStamp
  <2>7. <<"acknowledged", a>> \in FactEvents /\ ~Occurred(<<"acknowledged", a>>)
    BY <1>1, <2>1, EventOf
  <2> QED
    BY <1>1, <1>2, <2>3, <2>4, <2>5, <2>6, <2>7 DEF Occurs
<1> QED
  BY <1>3, <1>4, <1>5, <1>6, EventOf

\* Who does not know of the new event knows the same as before.
LEMMA KnownKept ==
    ASSUME TimeInv, NEW e \in FactEvents, Occurs(e), NEW K, e \notin K
    PROVE  /\ Known(sessions, "started", "ended", K)' = Known(sessions, "started", "ended", K)
           /\ Known(assists, "requested", "acknowledged", K)' = Known(assists, "requested", "acknowledged", K)
<1>1. /\ sessions \in [Sessions -> FactType] /\ assists \in [Assists -> FactType]
      /\ sessions' \in [Sessions -> FactType] /\ assists' \in [Assists -> FactType]
  BY DEF TimeInv, Occurs
<1>2. /\ \A s \in Sessions : /\ RowStamp(<<"started", s>>)' = sessions'[s].start
                             /\ RowStamp(<<"ended", s>>)' = sessions'[s].end
      /\ \A a \in Assists : /\ RowStamp(<<"requested", a>>)' = assists'[a].start
                            /\ RowStamp(<<"acknowledged", a>>)' = assists'[a].end
  BY DEF RowStamp
<1>3. \A f \in FactEvents : f \in K => RowStamp(f)' = RowStamp(f)
  BY DEF Occurs
<1>4. \A s \in Sessions : /\ <<"started", s>> \in K => sessions'[s].start = sessions[s].start
                          /\ <<"ended", s>> \in K => sessions'[s].end = sessions[s].end
  BY <1>2, <1>3, EventOf
<1>5. \A a \in Assists : /\ <<"requested", a>> \in K => assists'[a].start = assists[a].start
                         /\ <<"acknowledged", a>> \in K => assists'[a].end = assists[a].end
  BY <1>2, <1>3, EventOf
<1>6. Known(sessions, "started", "ended", K)' = Known(sessions, "started", "ended", K)
  BY <1>1, <1>4 DEF Known
<1>7. Known(assists, "requested", "acknowledged", K)' = Known(assists, "requested", "acknowledged", K)
  BY <1>1, <1>5 DEF Known
<1> QED
  BY <1>6, <1>7

\* The days of events, when another has occurred.
LEMMA OnKept ==
    ASSUME TimeInv, NEW e \in FactEvents, Occurs(e), NEW d
    PROVE  /\ \A f \in FactEvents \ {e} : occurred'[f] = occurred[f]
           /\ \A f \in FactEvents \ {e} : On(f, d)' <=> On(f, d)
           /\ occurred'[e] \in Ticks /\ Occurred(e)' /\ ~On(e, d)
<1>1. PICK t \in Ticks : occurred' = [occurred EXCEPT ![e] = t]
  BY DEF Occurs
<1>2. occurred'[e] = t /\ \A f \in FactEvents \ {e} : occurred'[f] = occurred[f]
  BY <1>1 DEF TimeInv
<1>3. t # Unset
  BY AnalyticsBounds DEF Ticks, Unset
<1> QED
  BY <1>2, <1>3 DEF On, Occurred, Occurs, DayOf

\* What occurs on another day may be missing.
LEMMA ShowsKept ==
    ASSUME TimeInv, NEW e \in FactEvents, Occurs(e), NEW d, ~On(e, d)', NEW m, NEW w, Shows(m, d, w)
    PROVE  Shows(m, d, w)'
<1>1. PICK n \in 0..Len(log) :
         /\ \A f \in FactEvents : On(f, d) => f \in {log[i] : i \in 1..n}
         /\ m = calculateWindowMetric(m.tables, Known(sessions, "started", "ended", {log[i] : i \in 1..n}),
                                      Known(assists, "requested", "acknowledged", {log[i] : i \in 1..n}), w)
  BY DEF Shows
<1>2. PICK K : K = {log[i] : i \in 1..n}
  OBVIOUS
<1>3. log \in Seq(FactEvents) /\ log' = Append(log, e)
  BY DEF TimeInv, Occurs
<1>4. n \in 0..Len(log') /\ \A i \in 1..n : log'[i] = log[i]
  BY <1>3
<1>5. K = {log'[i] : i \in 1..n}
  BY <1>2, <1>4
<1>6. e \notin K
  <2>1. \A i \in 1..Len(log) : log[i] # e
    BY DEF TimeInv, Occurs
  <2> QED
    BY <1>2, <1>3, <2>1
<1>7. \A f \in FactEvents : On(f, d)' => f \in K
  BY <1>1, <1>2, OnKept
<1>8. m = calculateWindowMetric(m.tables, Known(sessions, "started", "ended", K)',
                                Known(assists, "requested", "acknowledged", K)', w)
  BY <1>1, <1>2, <1>6, KnownKept
<1> QED
  BY <1>4, <1>5, <1>7, <1>8 DEF Shows

\* A row stays current, or the new event is to be handled.
LEMMA RowKept ==
    ASSUME TimeInv, NEW e \in FactEvents, Occurs(e), NEW d \in Days, NEW row, NEW P \in SUBSET FactEvents, NEW Q,
           P \cup {e} \subseteq Q, CurrentOrPending(row, d, P)
    PROVE  CurrentOrPending(row, d, Q)'
<1>1. /\ \A f \in FactEvents \ {e} : On(f, d)' <=> On(f, d)
      /\ ~On(e, d)
  BY OnKept
<1>2. CASE On(e, d)'
  BY <1>2 DEF CurrentOrPending
<1>3. CASE ~On(e, d)'
  <2>1. \A f \in FactEvents : On(f, d)' <=> On(f, d)
    BY <1>1, <1>3
  <2>2. HasEvent(d)' <=> HasEvent(d)
    BY <2>1 DEF HasEvent
  <2>3. SUFFICES ASSUME HasEvent(d), ~\E f \in Q : On(f, d)' PROVE Current(row, d)'
    BY <2>2 DEF CurrentOrPending
  <2>4. \A f \in P : ~On(f, d)
    BY <2>1, <2>3
  <2>5. Current(row, d)
    BY <2>3, <2>4 DEF CurrentOrPending
  <2>6. PICK m, v : m = row.day /\ v = localCalendarDateWindow(d) /\ Shows(m, d, v)
    BY <2>5 DEF Current
  <2>7. Shows(m, d, v)'
    BY <1>3, <2>6, ShowsKept
  <2>8. ASSUME (d % 7) \in row.of.days PROVE Shows(row.period, d, ServicePeriodWindowForDate(row.of, d))'
    <3>1. PICK n, u : n = row.period /\ u = ServicePeriodWindowForDate(row.of, d) /\ Shows(n, d, u)
      BY <2>5, <2>8 DEF Current
    <3>2. Shows(n, d, u)'
      BY <1>3, <3>1, ShowsKept
    <3> QED
      BY <3>1, <3>2 DEF ServicePeriodWindowForDate
  <2>9. Shows(row.day, d, localCalendarDateWindow(d))'
    BY <2>6, <2>7 DEF localCalendarDateWindow
  <2> QED
    BY <2>5, <2>8, <2>9 DEF Current
<1> QED
  BY <1>2, <1>3

\* A command keeps the invariant: whatever is no longer current has an event to handle.
LEMMA OccursInv ==
    ASSUME DaysInv, NEW e \in FactEvents, Occurs(e)
    PROVE  DaysInv'
<1>1. TimeInv
  BY DEF DaysInv
<1>2. pending' = pending \cup {e} /\ projection' = projection /\ job' = job
  BY DEF Occurs
<1>3. TimeInv'
  <2>1. /\ \A f \in FactEvents \ {e} : occurred'[f] = occurred[f]
        /\ occurred'[e] \in Ticks /\ Occurred(e)'
    BY <1>1, OnKept
  <2>2. \A f \in FactEvents : Occurred(f)' <=> Occurred(f) \/ f = e
    BY <2>1 DEF Occurred
  <2>3. occurred' \in [FactEvents -> Ticks \cup {Unset}]
    BY <1>1 DEF TimeInv, Occurs
  <2>4. \A f \in FactEvents : Occurred(f)' <=> RowStamp(f)' # Unset
    BY <1>1, <2>2 DEF TimeInv, Occurs
  <2>5. log \in Seq(FactEvents) /\ log' = Append(log, e) /\ log' \in Seq(FactEvents)
    BY <1>1 DEF TimeInv, Occurs
  <2>6. \A f \in FactEvents : (\E i \in 1..Len(log') : log'[i] = f) <=> (\E i \in 1..Len(log) : log[i] = f) \/ f = e
    <3>1. Len(log') = Len(log) + 1 /\ log'[Len(log) + 1] = e /\ \A i \in 1..Len(log) : log'[i] = log[i]
      BY <2>5
    <3>2. Len(log) \in Nat
      BY <2>5
    <3> QED
      BY <3>1, <3>2
  <2>7. \A f \in FactEvents : Occurred(f)' <=> \E i \in 1..Len(log') : log'[i] = f
    BY <1>1, <2>2, <2>6 DEF TimeInv
  <2>8. pending' \subseteq {f \in FactEvents : Occurred(f)'}
    BY <1>1, <1>2, <2>2 DEF TimeInv
  <2>9. sessions' \in [Sessions -> FactType] /\ assists' \in [Assists -> FactType]
    BY DEF Occurs
  <2> QED
    BY <2>3, <2>4, <2>5, <2>7, <2>8, <2>9 DEF TimeInv
<1>4. ProjectionInv'
  <2> SUFFICES ASSUME NEW d \in Days PROVE CurrentOrPending(projection[d], d, pending)'
    BY DEF ProjectionInv, Days, LastDay, DayOf
  <2>1. PICK row, P, Q : row = projection[d] /\ P = pending /\ Q = pending' /\ P \subseteq FactEvents
    BY <1>1 DEF TimeInv
  <2>2. CurrentOrPending(row, d, P)
    BY <2>1 DEF DaysInv, ProjectionInv
  <2>3. CurrentOrPending(row, d, Q)'
    BY <1>1, <1>2, <2>1, <2>2, RowKept
  <2> QED
    BY <1>2, <2>1, <2>3 DEF CurrentOrPending
<1>5. JobsInv'
  <2> SUFFICES ASSUME NEW w \in Workers PROVE JobInv(w)'
    BY <1>2 DEF DaysInv, JobsInv
  <2>1. JobInv(w)
    BY DEF DaysInv, JobsInv
  <2>2. PICK j : j = job[w] /\ j = job'[w]
    BY <1>2
  <2>3. JobShape(j)' <=> JobShape(j)
    BY DEF JobShape, RowShape, Days, LastDay, DayOf
  <2>4. ASSUME j # Idle, j.event # <<"none">> PROVE On(j.event, j.day)' /\ j.event # e
    <3>1. j.event \in FactEvents /\ On(j.event, j.day)
      BY <2>1, <2>2, <2>4 DEF JobInv, JobOk
    <3> QED
      BY <1>1, <3>1, OnKept
  <2>5. j # Idle => j.event # e
    BY <2>4, EventKind
  <2>6. ASSUME j # Idle, NEW d \in Days, j.rows[d].there
        PROVE  CurrentOrPending(j.rows[d], d, pending \ {j.event})'
    <3> pending \subseteq FactEvents
      BY <1>1 DEF TimeInv
    <3>1. PICK row, P, Q : row = j.rows[d] /\ P = pending \ {j.event} /\ Q = pending' \ {j.event}
                       /\ P \subseteq FactEvents
      OBVIOUS
    <3>2. CurrentOrPending(row, d, P)
      BY <2>1, <2>2, <2>6, <3>1 DEF JobInv, JobOk
    <3>3. CurrentOrPending(row, d, Q)'
      BY <1>1, <1>2, <2>5, <2>6, <3>1, <3>2, RowKept
    <3> QED
      BY <3>1, <3>3 DEF CurrentOrPending
  <2> QED
    BY <1>2, <2>1, <2>2, <2>3, <2>4, <2>6 DEF JobInv, JobOk, Days, LastDay, DayOf
<1> QED
  BY <1>3, <1>4, <1>5 DEF DaysInv

-----------------------------------------------------------------------------
(* No event occurs                                                         *)

\* What is said of the facts holds while they are the same.
LEMMA FactsKept ==
    ASSUME UNCHANGED facts
    PROVE  /\ \A e, d : On(e, d)' <=> On(e, d)
           /\ \A row, d, P : CurrentOrPending(row, d, P)' <=> CurrentOrPending(row, d, P)
<1>1. sessions' = sessions /\ assists' = assists /\ occurred' = occurred /\ log' = log
  BY DEF facts
<1>2. ASSUME NEW e, NEW d PROVE On(e, d)' <=> On(e, d)
  BY <1>1 DEF On, Occurred, DayOf
<1>3. ASSUME NEW d PROVE HasEvent(d)' <=> HasEvent(d)
  BY <1>2 DEF HasEvent, FactEvents
<1>4. ASSUME NEW m, NEW d, NEW w PROVE Shows(m, d, w)' <=> Shows(m, d, w)
  BY <1>1 DEF Shows, On, Occurred, DayOf, Known, calculateWindowMetric, OverlapSeconds, Scoped, During, FactEvents
<1>5. ASSUME NEW row, NEW d PROVE Current(row, d)' <=> Current(row, d)
  BY <1>4 DEF Current, localCalendarDateWindow, ServicePeriodWindowForDate, DayEnd
<1>6. ASSUME NEW row, NEW d, NEW P PROVE CurrentOrPending(row, d, P)' <=> CurrentOrPending(row, d, P)
  BY <1>2, <1>3, <1>5 DEF CurrentOrPending
<1> QED
  BY <1>2, <1>6

\* Events may be done with.
LEMMA TimeKept ==
    ASSUME TimeInv, UNCHANGED facts, pending' \subseteq pending
    PROVE  TimeInv'
<1>1. sessions' = sessions /\ assists' = assists /\ occurred' = occurred /\ log' = log
  BY DEF facts
<1>2. \A e \in FactEvents : (Occurred(e)' <=> Occurred(e)) /\ RowStamp(e)' = RowStamp(e)
  BY <1>1 DEF Occurred, RowStamp
<1> QED
  BY <1>1, <1>2 DEF TimeInv, FactType, Ticks, Unset, FactEvents

\* Time, archived tables and the service period are of no account to what has been computed.
LEMMA AsideInv ==
    ASSUME DaysInv, UNCHANGED <<facts, pending, projection, job>>
    PROVE  DaysInv'
<1>1. TimeInv'
  BY TimeKept DEF DaysInv
<1>2. /\ \A e, d : On(e, d)' <=> On(e, d)
      /\ \A row, d, P : CurrentOrPending(row, d, P)' <=> CurrentOrPending(row, d, P)
  BY FactsKept
<1>3. ProjectionInv'
  <2> SUFFICES ASSUME NEW d \in Days PROVE CurrentOrPending(projection[d], d, pending)'
    BY DEF ProjectionInv, Days, LastDay, DayOf
  <2>1. PICK row, P : row = projection[d] /\ P = pending
    OBVIOUS
  <2>2. CurrentOrPending(row, d, P)'
    BY <1>2, <2>1 DEF DaysInv, ProjectionInv
  <2> QED
    BY <2>1, <2>2 DEF CurrentOrPending
<1>4. JobsInv'
  <2> SUFFICES ASSUME NEW w \in Workers PROVE JobInv(w)'
    BY DEF DaysInv, JobsInv
  <2>1. JobInv(w)
    BY DEF DaysInv, JobsInv
  <2>2. PICK j, P : j = job[w] /\ P = pending
    OBVIOUS
  <2>3. JobShape(j)' <=> JobShape(j)
    BY DEF JobShape, RowShape, Days, LastDay, DayOf
  <2>4. JobOk(j, P)' <=> JobOk(j, P)
    BY <1>2 DEF JobOk, Days, LastDay, DayOf, FactEvents
  <2> QED
    BY <2>1, <2>2, <2>3, <2>4 DEF JobInv, JobOk, Idle, NoRows, NoMetric, NoPeriod, Days, LastDay, DayOf
<1> QED
  BY <1>1, <1>3, <1>4 DEF DaysInv

\* A worker takes up a job in which all is well, or none.
LEMMA StepInv ==
    ASSUME DaysInv, NEW w \in Workers, NEW j, Step(w, j), UNCHANGED <<pending, projection>>,
           JobShape(j), j # Idle => JobOk(j, pending) /\ CheckpointFree(w)
    PROVE  DaysInv'
<1>1. UNCHANGED facts /\ job' = [job EXCEPT ![w] = j]
  BY DEF Step
<1>2. job = [v \in Workers |-> job[v]] /\ \A v \in Workers : JobInv(v)
  BY DEF DaysInv, JobsInv
<1>3. job'[w] = j /\ \A v \in Workers \ {w} : job'[v] = job[v]
  BY <1>1, <1>2
<1>4. TimeInv'
  BY <1>1, TimeKept DEF DaysInv
<1>5. /\ \A e, d : On(e, d)' <=> On(e, d)
      /\ \A row, d, P : CurrentOrPending(row, d, P)' <=> CurrentOrPending(row, d, P)
  BY <1>1, FactsKept
<1>6. ProjectionInv'
  <2> SUFFICES ASSUME NEW d \in Days PROVE CurrentOrPending(projection[d], d, pending)'
    BY DEF ProjectionInv, Days, LastDay, DayOf
  <2>1. PICK row, P : row = projection[d] /\ P = pending
    OBVIOUS
  <2>2. CurrentOrPending(row, d, P)'
    BY <1>5, <2>1 DEF DaysInv, ProjectionInv
  <2> QED
    BY <2>1, <2>2 DEF CurrentOrPending
<1>7. Idle' = Idle
  BY DEF Idle, NoRows, NoMetric, NoPeriod, Days, LastDay, DayOf
<1>8. ASSUME NEW v \in Workers PROVE JobInv(v)'
  <2>1. PICK i, P : i = job'[v] /\ P = pending
    OBVIOUS
  <2>2. JobShape(i) /\ (i # Idle => JobOk(i, P))
    BY <1>2, <1>3, <2>1 DEF JobInv
  <2>3. i # Idle => \A u \in Workers \ {v} : job'[u] = Idle
    BY <1>2, <1>3, <2>1 DEF JobInv, CheckpointFree
  <2>4. JobShape(i)' <=> JobShape(i)
    BY DEF JobShape, RowShape, Days, LastDay, DayOf
  <2>5. JobOk(i, P)' <=> JobOk(i, P)
    BY <1>5 DEF JobOk, Days, LastDay, DayOf, FactEvents
  <2> QED
    BY <1>7, <2>1, <2>2, <2>3, <2>4, <2>5 DEF JobInv, JobOk
<1>9. JobsInv'
  BY <1>1, <1>2, <1>8 DEF JobsInv
<1> QED
  BY <1>4, <1>6, <1>9 DEF DaysInv

-----------------------------------------------------------------------------
(* Jobs                                                                    *)

\* No job has rows.
LEMMA IdleShape == JobShape(Idle)
  BY DEF JobShape, RowShape, Idle, NoRows

\* A job that begins.
LEMMA BeginInv ==
    ASSUME DaysInv, NEW w \in Workers, CheckpointFree(w), NEW j,
           j.stage = "tables", j.day \in Days, j.to \in 1..(LastDay + 1), j.rows = [d \in Days |-> NoRows],
           j = [stage |-> j.stage, event |-> j.event, day |-> j.day, to |-> j.to, rows |-> j.rows],
           j.event # <<"none">> => j.event \in FactEvents /\ On(j.event, j.day) /\ j.to = j.day + 1,
           Step(w, j), UNCHANGED <<pending, projection>>
    PROVE  DaysInv'
<1>1. JobShape(j)
  <2>1. RowShape(NoRows)
    BY DEF RowShape, NoRows
  <2>2. j.rows = [d \in Days |-> j.rows[d]] /\ \A d \in Days : RowShape(j.rows[d])
    BY <2>1
  <2> QED
    BY <2>2 DEF JobShape
<1>2. JobOk(j, pending)
  BY DEF JobOk, NoRows
<1> QED
  BY <1>1, <1>2, StepInv

\* West of UTC the range of an event is its local day.
LEMMA HandleInv ==
    ASSUME West, DaysInv, NEW w \in Workers, NEW e \in FactEvents, Handle(w, e)
    PROVE  DaysInv'
<1>1. e \in pending /\ CheckpointFree(w) /\ UNCHANGED <<pending, projection>>
  BY DEF Handle
<1>2. Occurred(e) /\ occurred[e] \in Ticks
  BY <1>1 DEF DaysInv, TimeInv, Occurred
<1>3. PICK d : d = DayOf(occurred[e]) /\ d \in Days
  BY <1>2, EventDay
<1>4. LastDay \in Int /\ d \in Int /\ d + 1 \in 1..(LastDay + 1)
  <2>1. LastTick \in Int
    BY AnalyticsBounds
  <2>2. LastDay \in Int
    BY <2>1, DayBounds DEF LastDay, DayOf
  <2> QED
    BY <1>3, <2>2 DEF Days
<1>5. calendarDate(localDateWindow(occurred[e]).start) = d
      /\ calendarDate(localDateWindow(occurred[e]).end) = d + 1
  BY <1>3, <1>4, Midnights DEF localDateWindow
<1>6. Step(w, [Idle EXCEPT !.stage = "tables", !.event = e, !.day = d, !.to = d + 1])
  BY <1>5 DEF Handle
<1>7. On(e, d)
  BY <1>2, <1>3 DEF On
<1>8. PICK j : j = [Idle EXCEPT !.stage = "tables", !.event = e, !.day = d, !.to = d + 1]
  OBVIOUS
<1>9. j.stage = "tables" /\ j.event = e /\ j.day = d /\ j.to = d + 1 /\ j.rows = [n \in Days |-> NoRows]
  BY <1>8 DEF Idle
<1>10. j = [stage |-> j.stage, event |-> j.event, day |-> j.day, to |-> j.to, rows |-> j.rows]
  BY <1>8 DEF Idle
<1> QED
  BY <1>1, <1>3, <1>4, <1>6, <1>7, <1>8, <1>9, <1>10, BeginInv

\* A rebuild handles no event.
LEMMA RebuildInv ==
    ASSUME DaysInv, NEW w \in Workers, NEW from \in 1..(LastDay + 1), NEW to \in 1..(LastDay + 1),
           Rebuild(w, from, to)
    PROVE  DaysInv'
<1>1. LastDay \in Int
  <2>1. LastTick \in Int
    BY AnalyticsBounds
  <2> QED
    BY <2>1, DayBounds DEF LastDay, DayOf
<1>2. from \in Days
  BY <1>1 DEF Rebuild, Days
<1>3. PICK j : j = [Idle EXCEPT !.stage = "tables", !.day = from, !.to = to]
  OBVIOUS
<1>4. j.stage = "tables" /\ j.event = <<"none">> /\ j.day = from /\ j.to = to /\ j.rows = [n \in Days |-> NoRows]
  BY <1>3 DEF Idle
<1>5. j = [stage |-> j.stage, event |-> j.event, day |-> j.day, to |-> j.to, rows |-> j.rows]
  BY <1>3 DEF Idle
<1>6. Step(w, j) /\ CheckpointFree(w) /\ UNCHANGED <<pending, projection>>
  BY <1>3 DEF Rebuild
<1> QED
  BY <1>2, <1>4, <1>5, <1>6, BeginInv

\* A job at work.
LEMMA AtWork ==
    ASSUME DaysInv, NEW w \in Workers, job[w].stage \in {"tables", "period"}
    PROVE  job[w] # Idle /\ JobShape(job[w]) /\ JobOk(job[w], pending) /\ CheckpointFree(w)
<1>1. job[w] # Idle
  BY DEF Idle
<1> QED
  BY <1>1 DEF DaysInv, JobsInv, JobInv, CheckpointFree

\* The first part of a day is computed from the facts of now.
LEMMA TablesInv ==
    ASSUME DaysInv, NEW w \in Workers, projectTables(w)
    PROVE  DaysInv'
<1>1. PICK i, d : i = job[w] /\ d = job[w].day
  OBVIOUS
<1>2. i.stage = "tables" /\ i.day = d /\ JobShape(i) /\ JobOk(i, pending) /\ CheckpointFree(w)
  BY <1>1, AtWork DEF projectTables
<1>3. d \in Days
  BY <1>2 DEF JobOk
<1>4. PICK row : row = [NoRows EXCEPT !.there = TRUE, !.day = Metric(localCalendarDateWindow(d))]
  OBVIOUS
<1>5. /\ row.there /\ row.of.days = {} /\ RowShape(row)
      /\ row.day = Metric(localCalendarDateWindow(d))
  BY <1>4 DEF NoRows, NoPeriod, RowShape
<1>6. Current(row, d)
  <2>1. TimeInv
    BY DEF DaysInv
  <2>2. Shows(row.day, d, localCalendarDateWindow(d))
    BY <1>5, <2>1, ShowsAll
  <2> QED
    BY <1>5, <2>2 DEF Current
<1>7. PICK j : j = [i EXCEPT !.stage = "period", !.rows[d] = row]
  OBVIOUS
<1>8. Step(w, j) /\ UNCHANGED <<pending, projection>>
  BY <1>1, <1>4, <1>7 DEF projectTables
<1>9. /\ j.stage = "period" /\ j.event = i.event /\ j.day = d /\ j.to = i.to
      /\ j.rows = [i.rows EXCEPT ![d] = row]
      /\ j = [stage |-> j.stage, event |-> j.event, day |-> j.day, to |-> j.to, rows |-> j.rows]
  BY <1>2, <1>7 DEF JobShape
<1>10. j.rows[d] = row /\ \A n \in Days \ {d} : j.rows[n] = i.rows[n]
  BY <1>2, <1>3, <1>9 DEF JobShape
<1>11. JobShape(j)
  BY <1>2, <1>3, <1>5, <1>9, <1>10 DEF JobShape
<1>12. ASSUME NEW n \in Days, j.rows[n].there PROVE CurrentOrPending(j.rows[n], n, pending \ {j.event})
  BY <1>2, <1>6, <1>9, <1>10, <1>12 DEF CurrentOrPending, JobOk
<1>13. JobOk(j, pending)
  BY <1>2, <1>5, <1>9, <1>10, <1>12 DEF JobOk
<1> QED
  BY <1>2, <1>8, <1>11, <1>13, StepInv

\* So is the second, for the period of now.
LEMMA PeriodRows ==
    ASSUME DaysInv, NEW w \in Workers, job[w].stage = "period", NEW r, r = projectPeriods(w)
    PROVE  /\ r = [n \in Days |-> r[n]] /\ r[job[w].day].there
           /\ \A n \in Days : RowShape(r[n])
           /\ \A n \in Days : r[n].there => CurrentOrPending(r[n], n, pending \ {job[w].event})
<1>1. PICK i, d : i = job[w] /\ d = job[w].day
  OBVIOUS
<1>2. i.stage = "period" /\ i.day = d /\ JobShape(i) /\ JobOk(i, pending)
  BY <1>1, AtWork
<1>3. d \in Days /\ i.rows[d].there
  BY <1>2 DEF JobOk
<1>4. PICK m : m = IF (d % 7) \in period.days THEN Metric(ServicePeriodWindowForDate(period, d)) ELSE NoMetric
  OBVIOUS
<1>5. r = [i.rows EXCEPT ![d].period = m, ![d].of = period]
  BY <1>1, <1>4 DEF projectPeriods
<1>6. i.rows = [n \in Days |-> i.rows[n]] /\ \A n \in Days : RowShape(i.rows[n])
  BY <1>2 DEF JobShape
<1>7. r = [n \in Days |-> r[n]] /\ \A n \in Days \ {d} : r[n] = i.rows[n]
  BY <1>3, <1>5, <1>6
<1>8. r[d] = [[i.rows[d] EXCEPT !.period = m] EXCEPT !.of = period]
  BY <1>3, <1>5, <1>6
<1>9. /\ r[d].day = i.rows[d].day /\ r[d].period = m /\ r[d].of = period /\ r[d].there = i.rows[d].there
      /\ RowShape(r[d])
  <2>1. PICK row : row = i.rows[d]
    OBVIOUS
  <2>2. row = [day |-> row.day, period |-> row.period, of |-> row.of, there |-> row.there]
    BY <1>3, <1>6, <2>1 DEF RowShape
  <2>3. r[d] = [day |-> row.day, period |-> m, of |-> period, there |-> row.there]
    BY <1>8, <2>1, <2>2
  <2> QED
    BY <2>1, <2>3 DEF RowShape
<1>10. (d % 7) \in period.days => Shows(m, d, ServicePeriodWindowForDate(period, d))
  <2>1. TimeInv
    BY DEF DaysInv
  <2> QED
    BY <1>4, <2>1, ShowsAll
<1>11. CurrentOrPending(i.rows[d], d, pending \ {i.event})
  BY <1>2, <1>3 DEF JobOk
<1>12. CurrentOrPending(r[d], d, pending \ {i.event})
  BY <1>3, <1>9, <1>10, <1>11 DEF CurrentOrPending, Current
<1>13. \A n \in Days : r[n].there => CurrentOrPending(r[n], n, pending \ {i.event})
  BY <1>2, <1>7, <1>12 DEF JobOk
<1>14. \A n \in Days : RowShape(r[n])
  BY <1>6, <1>7, <1>9
<1> QED
  BY <1>1, <1>3, <1>7, <1>9, <1>13, <1>14

\* Only a rebuild goes on to another day.
LEMMA RangeInv ==
    ASSUME DaysInv, NEW w \in Workers, rebuildRange(w)
    PROVE  DaysInv'
<1>1. PICK i, d, r : i = job[w] /\ d = job[w].day /\ r = projectPeriods(w)
  OBVIOUS
<1>2. i.stage = "period" /\ i.day = d /\ JobShape(i) /\ JobOk(i, pending) /\ CheckpointFree(w)
  BY <1>1, AtWork DEF rebuildRange
<1>3. /\ r = [n \in Days |-> r[n]]
      /\ \A n \in Days : RowShape(r[n])
      /\ \A n \in Days : r[n].there => CurrentOrPending(r[n], n, pending \ {i.event})
  BY <1>1, <1>2, PeriodRows
<1>4. LastDay \in Int
  <2>1. LastTick \in Int
    BY AnalyticsBounds
  <2> QED
    BY <2>1, DayBounds DEF LastDay, DayOf
<1>5. ~(d + 1 >= i.to)
  BY <1>1 DEF rebuildRange, LastOfRange
<1>6. d + 1 \in Days /\ i.event = <<"none">>
  BY <1>2, <1>4, <1>5 DEF JobOk, Days
<1>7. PICK j : j = [i EXCEPT !.rows = r, !.day = d + 1, !.stage = "tables"]
  OBVIOUS
<1>8. Step(w, j) /\ UNCHANGED <<pending, projection>>
  BY <1>1, <1>7 DEF rebuildRange
<1>9. /\ j.stage = "tables" /\ j.event = i.event /\ j.day = d + 1 /\ j.to = i.to /\ j.rows = r
      /\ j = [stage |-> j.stage, event |-> j.event, day |-> j.day, to |-> j.to, rows |-> j.rows]
  BY <1>2, <1>7 DEF JobShape
<1>10. JobShape(j)
  BY <1>3, <1>9 DEF JobShape
<1>11. JobOk(j, pending)
  BY <1>2, <1>3, <1>6, <1>9 DEF JobOk
<1> QED
  BY <1>2, <1>8, <1>10, <1>11, StepInv

\* The days of the job are replaced by what shows all but the events still to
\* be handled; the event it strikes out is on one of them.
LEMMA CommitInv ==
    ASSUME DaysInv, NEW w \in Workers, Commit(w)
    PROVE  DaysInv'
<1>1. PICK i, r, P, Q : i = job[w] /\ r = projectPeriods(w) /\ P = pending /\ Q = pending'
  OBVIOUS
<1>2. i.stage = "period" /\ JobOk(i, P) /\ CheckpointFree(w)
  BY <1>1, AtWork DEF Commit
<1>3. /\ r[i.day].there
      /\ \A n \in Days : r[n].there => CurrentOrPending(r[n], n, P \ {i.event})
  BY <1>1, <1>2, PeriodRows
<1>4. UNCHANGED facts /\ job' = [job EXCEPT ![w] = Idle] /\ Q \in {P, P \ {i.event}}
  BY <1>1 DEF Commit, Step
<1>5. TimeInv /\ TimeInv'
  BY <1>1, <1>4, TimeKept DEF DaysInv
<1>6. \A row, d, E : CurrentOrPending(row, d, E)' <=> CurrentOrPending(row, d, E)
  BY <1>4, FactsKept
<1>7. \A d \in Days : projection'[d] = IF r[d].there THEN r[d] ELSE projection[d]
  BY <1>1 DEF Commit
<1>8. ASSUME NEW d \in Days PROVE CurrentOrPending(projection'[d], d, Q)
  <2>1. CASE r[d].there
    BY <1>3, <1>4, <1>7, <2>1 DEF CurrentOrPending
  <2>2. CASE ~r[d].there
    <3>1. CurrentOrPending(projection[d], d, P)
      BY <1>1 DEF DaysInv, ProjectionInv
    <3>2. ASSUME NEW e \in P, On(e, d) PROVE e \in Q
      <4>1. e \in FactEvents /\ e # <<"none">>
        BY <1>1, <1>5, EventKind DEF TimeInv
      <4>2. e = i.event => d = i.day
        BY <1>2, <3>2, <4>1 DEF JobOk, On
      <4> QED
        BY <1>3, <1>4, <2>2, <4>2
    <3> QED
      BY <1>7, <2>2, <3>1, <3>2 DEF CurrentOrPending
  <2> QED
    BY <2>1, <2>2
<1>9. ProjectionInv'
  <2> SUFFICES ASSUME NEW d \in Days PROVE CurrentOrPending(projection[d], d, pending)'
    BY DEF ProjectionInv, Days, LastDay, DayOf
  <2>1. PICK row : row = projection'[d]
    OBVIOUS
  <2>2. CurrentOrPending(row, d, Q)'
    BY <1>6, <1>8, <2>1
  <2> QED
    BY <1>1, <2>1, <2>2 DEF CurrentOrPending
<1>10. job' = [v \in Workers |-> Idle]
  BY <1>2, <1>4 DEF DaysInv, JobsInv, CheckpointFree
<1>11. Idle' = Idle
  BY DEF Idle, NoRows, NoMetric, NoPeriod, Days, LastDay, DayOf
<1>12. \A v \in Workers : JobInv(v)'
  BY <1>10, <1>11, IdleShape DEF JobInv, JobShape, RowShape, Days, LastDay, DayOf
<1>13. JobsInv'
  BY <1>10, <1>12 DEF JobsInv
<1> QED
  BY <1>5, <1>9, <1>13 DEF DaysInv

\* Nothing that was computed is left.
LEMMA RollbackInv ==
    ASSUME DaysInv, NEW w \in Workers, rollback(w)
    PROVE  DaysInv'
<1>1. PICK j : j = Idle
  OBVIOUS
<1>2. Step(w, j) /\ JobShape(j) /\ UNCHANGED <<pending, projection>>
  BY <1>1, IdleShape DEF rollback
<1> QED
  BY <1>1, <1>2, StepInv

-----------------------------------------------------------------------------
(* The projection                                                          *)

\* No event has occurred, and nobody is at work.
LEMMA DaysInit == ASSUME AnalyticsInit PROVE DaysInv
<1>1. \A e \in FactEvents : ~Occurred(e)
  BY DEF AnalyticsInit, Occurred
<1>2. \A e \in FactEvents : RowStamp(e) = Unset
  BY DEF AnalyticsInit, FactEvents, RowStamp, NoFact
<1>3. TimeInv
  BY <1>1, <1>2 DEF AnalyticsInit, TimeInv, FactType, NoFact
<1>4. ProjectionInv
  BY <1>1 DEF ProjectionInv, CurrentOrPending, HasEvent, On
<1>5. JobsInv
  BY IdleShape DEF AnalyticsInit, JobsInv, JobInv
<1> QED
  BY <1>3, <1>4, <1>5 DEF DaysInv

\* Every step keeps the invariant.
LEMMA DaysNext == ASSUME West, DaysInv, [AnalyticsNext]_analyticsVars PROVE DaysInv'
<1>1. CASE UNCHANGED analyticsVars
  BY <1>1, AsideInv DEF analyticsVars
<1>2. CASE Tick
  BY <1>2, AsideInv DEF Tick
<1>3. CASE \/ \E s \in Sessions : OccupyTable(s) \/ ClearTable(s)
           \/ \E a \in Assists : RequestAssist(a) \/ AcknowledgeAssist(a)
  <2>1. \E e \in FactEvents : Occurs(e)
    BY <1>3, CommandOccurs DEF DaysInv
  <2> QED
    BY <2>1, OccursInv
<1>4. CASE \/ \E t \in Tables : changeTableActive(t)
           \/ \E p \in Periods : CreateServicePeriod(p) \/ UpdateServicePeriod(p)
           \/ ArchiveServicePeriod
  BY <1>4, AsideInv DEF changeTableActive, CreateServicePeriod, UpdateServicePeriod, ArchiveServicePeriod, SetPeriod
<1>5. ASSUME NEW w \in Workers, NEW e \in FactEvents, Handle(w, e) PROVE DaysInv'
  BY <1>5, HandleInv
<1>6. ASSUME NEW w \in Workers, NEW from \in 1..(LastDay + 1), NEW to \in 1..(LastDay + 1), Rebuild(w, from, to)
      PROVE  DaysInv'
  BY <1>6, RebuildInv
<1>7. ASSUME NEW w \in Workers, projectTables(w) \/ rebuildRange(w) \/ Commit(w) \/ rollback(w) PROVE DaysInv'
  BY <1>7, TablesInv, RangeInv, CommitInv, RollbackInv
<1> QED
  BY <1>1, <1>2, <1>3, <1>4, <1>5, <1>6, <1>7 DEF AnalyticsNext

\* In a timezone that is not ahead of UTC, once every event has been handled
\* the metrics of each day show the location as it stood at a commit no
\* earlier than the last event that occurred on the day.
THEOREM ProjectionIsCurrent ==
    ASSUME West
    PROVE  AnalyticsSpec => []ProjectionCurrent
<1>1. AnalyticsInit => DaysInv
  BY DaysInit
<1>2. DaysInv /\ [AnalyticsNext]_analyticsVars => DaysInv'
  BY DaysNext
<1>3. DaysInv => ProjectionCurrent
  <2> SUFFICES ASSUME DaysInv, Quiet, NEW e \in FactEvents, Occurred(e), NEW d, d = DayOf(occurred[e])
               PROVE  Current(projection[d], d)
    BY DEF ProjectionCurrent, Current
  <2>1. d \in Days /\ HasEvent(d)
    BY EventDay DEF DaysInv, TimeInv, HasEvent, On, Occurred
  <2> QED
    BY <2>1 DEF DaysInv, ProjectionInv, CurrentOrPending, Quiet
<1> QED
  BY <1>1, <1>2, <1>3, PTL DEF AnalyticsSpec
=============================================================================
