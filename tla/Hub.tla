--------------------------------- MODULE Hub --------------------------------
(***************************************************************************)
(* The realtime hub of one gateway process.  Each websocket has a handler  *)
(* that subscribes a client with a bounded queue and a goroutine that      *)
(* writes the queue to the socket; each event is published by a goroutine  *)
(* of the outbox worker, which offers it to a copy of the subscribers and  *)
(* closes the ones that have no room.  A handler that ends and publishers  *)
(* that met a full queue may close the same client at the same time.       *)
(***************************************************************************)
EXTENDS Integers, Sequences, FiniteSets

CONSTANTS
    Connections,        \* websocket requests, each with the client it makes
    Events,             \* calls of Publish
    Scope,              \* location of each connection and event
    None,
    Buffer,             \* SendBuffer
    ConnectionLimit     \* ConnectionLimit

ASSUME HubConfiguration ==
    /\ Buffer \in Nat \ {0} /\ ConnectionLimit \in Nat \ {0}
    /\ Connections \cap Events = {} /\ None \notin Connections
    /\ {"open", "done"} \cap (Connections \cup Events) = {}
    /\ DOMAIN Scope = Connections \cup Events
    /\ IsFiniteSet(Connections) /\ IsFiniteSet(Events)

VARIABLES
    clients,    \* h.clients
    conn,       \* how far serveWebSocket is for each connection
    once,       \* closeOnce: "open", the caller inside Do, or "done"
    closed,     \* clients whose channels are closed
    queue,      \* the send channel
    received,   \* what the peer was sent (history)
    publish,    \* each Publish: subscribers still to offer to, and the one being closed
    owed,       \* events published while a client was subscribed (history)
    metrics

vars == <<clients, conn, once, closed, queue, received, publish, owed, metrics>>

Publisher ==
    [stage : {"new", "sending", "done"}, todo : SUBSET Connections, at : Connections \cup {None}]
Metrics == [accepted : Nat, closed : Nat, dropped : Nat]

Init ==
    /\ clients = {}
    /\ conn = [c \in Connections |-> "new"]
    /\ once = [c \in Connections |-> "open"]
    /\ closed = {}
    /\ queue = [c \in Connections |-> <<>>]
    /\ received = [c \in Connections |-> <<>>]
    /\ publish = [e \in Events |-> [stage |-> "new", todo |-> {}, at |-> None]]
    /\ owed = [c \in Connections |-> {}]
    /\ metrics = [accepted |-> 0, closed |-> 0, dropped |-> 0]

Goto(c, label) == conn' = [conn EXCEPT ![c] = label]
Subscribers(scope) == {c \in clients : Scope[c] = scope}

-----------------------------------------------------------------------------
(* serveWebSocket                                                          *)

\* The connections are counted first; they are not counted again.
checkConnectionLimit(c) ==
    /\ conn[c] = "new"
    /\ Goto(c, IF Cardinality(clients) < ConnectionLimit THEN "admitted" ELSE "gone")
    /\ UNCHANGED <<clients, once, closed, queue, received, publish, owed, metrics>>

upgradeFails(c) ==
    /\ conn[c] = "admitted"
    /\ Goto(c, "gone")
    /\ UNCHANGED <<clients, once, closed, queue, received, publish, owed, metrics>>

\* From here publishers find the client, and may close it ...
Subscribe(c) ==
    /\ conn[c] = "admitted"
    /\ clients' = clients \cup {c}
    /\ Goto(c, "subscribed")
    /\ UNCHANGED <<once, closed, queue, received, publish, owed, metrics>>

\* ... before it is counted, which is after the lock is released.
countAccepted(c) ==
    /\ conn[c] = "subscribed"
    /\ metrics' = [metrics EXCEPT !.accepted = @ + 1]
    /\ Goto(c, "serving")
    /\ UNCHANGED <<clients, once, closed, queue, received, publish, owed>>

\* WriteLoop takes a message and the peer reads it.
WriteLoop(c) ==
    /\ conn[c] = "serving"
    /\ queue[c] # <<>>
    /\ received' = [received EXCEPT ![c] = Append(@, Head(queue[c]))]
    /\ queue' = [queue EXCEPT ![c] = Tail(@)]
    /\ UNCHANGED <<clients, conn, once, closed, publish, owed, metrics>>

\* The select returns and the socket is closed: the client was closed, or ...
clientDone(c) ==
    /\ conn[c] = "serving"
    /\ c \in closed
    /\ Goto(c, "closing")
    /\ UNCHANGED <<clients, once, closed, queue, received, publish, owed, metrics>>

\* ... the peer went away, a loop failed, or the server stops.
loopEnds(c) ==
    /\ conn[c] = "serving"
    /\ Goto(c, "closing")
    /\ UNCHANGED <<clients, once, closed, queue, received, publish, owed, metrics>>

-----------------------------------------------------------------------------
(* Unsubscribe, called by the connection's own handler or by a publisher   *)

Calls(x, c) == IF x = c THEN conn[c] = "closing" ELSE x \in Events /\ publish[x].at = c
ReturnTo(x, c) ==
    IF x = c THEN Goto(c, "gone") /\ UNCHANGED publish
             ELSE publish' = [publish EXCEPT ![x].at = None] /\ UNCHANGED conn

deleteClient(x, c) ==
    /\ Calls(x, c)
    /\ once[c] = "open"
    /\ once' = [once EXCEPT ![c] = x]
    /\ clients' = clients \ {c}
    /\ UNCHANGED <<conn, closed, queue, received, publish, owed, metrics>>

close(x, c) ==
    /\ Calls(x, c)
    /\ once[c] = x /\ c \notin closed
    /\ closed' = closed \cup {c}
    /\ UNCHANGED <<clients, conn, once, queue, received, publish, owed, metrics>>

\* The client is counted as closed, and closeOnce lets the others go on.
countClosed(x, c) ==
    /\ Calls(x, c)
    /\ once[c] = x /\ c \in closed
    /\ once' = [once EXCEPT ![c] = "done"]
    /\ metrics' = [metrics EXCEPT !.closed = @ + 1]
    /\ ReturnTo(x, c)
    /\ UNCHANGED <<clients, closed, queue, received, owed>>

\* Mutant: there is no closeOnce; the one that comes later does it all again.
MutantCloseAgain(x, c) ==
    /\ Calls(x, c) /\ once[c] = "done"
    /\ metrics' = [metrics EXCEPT !.closed = @ + 1]
    /\ ReturnTo(x, c)
    /\ UNCHANGED <<clients, once, closed, queue, received, owed>>

\* closeOnce.Do waits for the caller inside and does nothing.
alreadyClosed(x, c) ==
    /\ Calls(x, c)
    /\ once[c] = "done"
    /\ ReturnTo(x, c)
    /\ UNCHANGED <<clients, once, closed, queue, received, owed, metrics>>

-----------------------------------------------------------------------------
(* Publish                                                                 *)

\* The subscribers of the event's location are copied under the read lock.
Publish(e) ==
    /\ publish[e].stage = "new"
    /\ publish' = [publish EXCEPT ![e] = [stage |-> "sending", todo |-> Subscribers(Scope[e]), at |-> None]]
    /\ owed' = [c \in Connections |-> IF c \in Subscribers(Scope[e]) THEN owed[c] \cup {e} ELSE owed[c]]
    /\ UNCHANGED <<clients, conn, once, closed, queue, received, metrics>>

\* Mutant: a message that finds no room is dropped.
MutantDropMessage(e, c) ==
    /\ publish[e].stage = "sending" /\ publish[e].at = None /\ c \in publish[e].todo
    /\ publish' = [publish EXCEPT ![e].todo = @ \ {c}]
    /\ IF c \notin closed /\ Len(queue[c]) < Buffer
         THEN queue' = [queue EXCEPT ![c] = Append(@, e)] /\ UNCHANGED metrics
         ELSE metrics' = [metrics EXCEPT !.dropped = @ + 1] /\ UNCHANGED queue
    /\ UNCHANGED <<clients, conn, once, closed, received, owed>>

\* Mutant: the sender does not look whether the channel is closed.
MutantSendToClosed(e, c) ==
    /\ publish[e].stage = "sending" /\ publish[e].at = None /\ c \in publish[e].todo
    /\ IF Len(queue[c]) < Buffer
         THEN /\ queue' = [queue EXCEPT ![c] = Append(@, e)]
              /\ publish' = [publish EXCEPT ![e].todo = @ \ {c}] /\ UNCHANGED metrics
         ELSE /\ publish' = [publish EXCEPT ![e].todo = @ \ {c}, ![e].at = c]
              /\ metrics' = [metrics EXCEPT !.dropped = @ + 1] /\ UNCHANGED queue
    /\ UNCHANGED <<clients, conn, once, closed, received, owed>>

\* Mutant: the send waits until there is room.
MutantBlockingSend(e, c) ==
    /\ publish[e].stage = "sending" /\ publish[e].at = None /\ c \in publish[e].todo
    /\ c \in closed \/ Len(queue[c]) < Buffer
    /\ publish' = [publish EXCEPT ![e].todo = @ \ {c}]
    /\ queue' = IF c \in closed THEN queue ELSE [queue EXCEPT ![c] = Append(@, e)]
    /\ UNCHANGED <<clients, conn, once, closed, received, owed, metrics>>

\* Mutant: a full queue takes one more.
MutantOneTooMany(e, c) ==
    /\ publish[e].stage = "sending" /\ publish[e].at = None /\ c \in publish[e].todo
    /\ c \notin closed /\ Len(queue[c]) <= Buffer
    /\ queue' = [queue EXCEPT ![c] = Append(@, e)]
    /\ publish' = [publish EXCEPT ![e].todo = @ \ {c}]
    /\ UNCHANGED <<clients, conn, once, closed, received, owed, metrics>>

\* Under the client's mutex; a client without room, or closed already, is
\* counted as dropped and unsubscribed.
trySend(e, c) ==
    /\ publish[e].stage = "sending"
    /\ publish[e].at = None
    /\ c \in publish[e].todo
    /\ \/ /\ c \notin closed /\ Len(queue[c]) < Buffer
          /\ queue' = [queue EXCEPT ![c] = Append(@, e)]
          /\ publish' = [publish EXCEPT ![e].todo = @ \ {c}]
          /\ UNCHANGED metrics
       \/ /\ c \in closed \/ Len(queue[c]) >= Buffer
          /\ publish' = [publish EXCEPT ![e].todo = @ \ {c}, ![e].at = c]
          /\ metrics' = [metrics EXCEPT !.dropped = @ + 1]
          /\ UNCHANGED queue
    /\ UNCHANGED <<clients, conn, once, closed, received, owed>>

publishReturns(e) ==
    /\ publish[e].stage = "sending"
    /\ publish[e].todo = {} /\ publish[e].at = None
    /\ publish' = [publish EXCEPT ![e].stage = "done"]
    /\ UNCHANGED <<clients, conn, once, closed, queue, received, owed, metrics>>

-----------------------------------------------------------------------------
Unsubscribe(x, c) == deleteClient(x, c) \/ close(x, c) \/ countClosed(x, c) \/ alreadyClosed(x, c)
serveWebSocket(c) ==
    \/ checkConnectionLimit(c) \/ upgradeFails(c) \/ Subscribe(c) \/ countAccepted(c)
    \/ WriteLoop(c) \/ clientDone(c) \/ loopEnds(c) \/ Unsubscribe(c, c)
Publishing(e) ==
    \/ publishReturns(e)
    \/ \E c \in Connections : trySend(e, c) \/ Unsubscribe(e, c)

Next ==
    \/ \E c \in Connections : serveWebSocket(c)
    \/ \E e \in Events : Publish(e) \/ Publishing(e)

Spec == Init /\ [][Next]_vars

\* Goroutines run.  No peer has to connect, to read or to go away.
FairSpec ==
    /\ Spec
    /\ \A c \in Connections : WF_vars(countAccepted(c) \/ clientDone(c)) /\ WF_vars(Unsubscribe(c, c))
    /\ \A e \in Events : WF_vars(Publishing(e))

-----------------------------------------------------------------------------
(* Properties                                                              *)

\* Shapes, and no queue ever holds more than its buffer.
TypeOK ==
    /\ clients \subseteq Connections
    /\ conn \in [Connections -> {"new", "admitted", "subscribed", "serving", "closing", "gone"}]
    /\ once \in [Connections -> {"open", "done"} \cup Connections \cup Events]
    /\ closed \subseteq Connections
    /\ queue \in [Connections -> Seq(Events)]
    /\ \A c \in Connections : Len(queue[c]) <= Buffer
    /\ received \in [Connections -> Seq(Events)]
    /\ publish \in [Events -> Publisher]
    /\ owed \in [Connections -> SUBSET Events]
    /\ metrics \in Metrics

Elements(s) == {s[i] : i \in DOMAIN s}

\* A connection that is still open has lost nothing: every event published
\* since it subscribed has been sent, is in its queue, or is about to be
\* offered or to close it.  A client that misses an event is disconnected.
NoSilentLoss ==
    \A c \in Connections : conn[c] \in {"subscribed", "serving"} /\ c \notin closed =>
        \A e \in owed[c] :
            \/ e \in Elements(received[c]) \cup Elements(queue[c])
            \/ c \in publish[e].todo \/ publish[e].at = c
            \/ once[c] # "open"

\* Nothing is sent on a closed channel, which would panic the process, however
\* publishers and handlers race to close it.
NoSendOnClosed ==
    [][\A c \in closed : Len(queue'[c]) <= Len(queue[c])]_vars

\* The clients subscribed and not counted yet, and the ones being closed.
Uncounted == {c \in Connections : conn[c] = "subscribed"}
Closing == {c \in Connections : once[c] \notin {"open", "done"}}

\* The counters agree with the subscriptions, up to the clients that are on
\* their way in or out: each client is counted once when it comes and once when
\* it goes, whoever closes it and whether or not it was counted by then.
MetricsBalance ==
    metrics.accepted + Cardinality(Uncounted) - metrics.closed = Cardinality(clients) + Cardinality(Closing)

\* A peer that does not read holds up neither the publisher nor its own end:
\* Publish always returns, and a client closed for it is disconnected.
SlowPeerIsCut ==
    /\ \A e \in Events : publish[e].stage = "sending" ~> publish[e].stage = "done"
    /\ \A c \in Connections : c \in closed ~> conn[c] = "gone"
=============================================================================
