----------------------------- MODULE SSEBroker ------------------------------
(***************************************************************************)
(* sse.Broker and the requests it serves (transport/sse/handler.go).  One  *)
(* loop owns the map of clients; handlers reach it through two unbuffered  *)
(* channels and publishers through a bounded one.  Messages are counted,   *)
(* not named: nothing here depends on what they say.                       *)
(*                                                                         *)
(* Buffers have the capacities 256 (broadcast) and 100 (Events) in the     *)
(* code; they are parameters here.                                         *)
(***************************************************************************)
EXTENDS Naturals

CONSTANTS
    SSEClients,     \* requests to GET /events
    BroadcastCap,   \* capacity of Broker.broadcast
    EventsCap       \* capacity of Client.Events

ASSUME SSEAssumption == /\ BroadcastCap \in Nat \ {0}
                        /\ EventsCap \in Nat \ {0}

VARIABLES
    broker,       \* where the loop is: in its select, sending a heartbeat, gone
    broadcast,    \* messages in Broker.broadcast
    listeners,    \* Broker.clients
    stream,       \* where each handler is
    events,       \* messages in Client.Events
    closedEvents  \* clients whose Events was closed

sseVars == <<broker, broadcast, listeners, stream, events, closedEvents>>

StreamSteps == {"none", "register", "serve", "unregister", "done", "refused"}

SSETypeOK ==
    /\ broker \in {"select", "heartbeat", "gone"}
    /\ broadcast \in 0..BroadcastCap
    /\ listeners \subseteq SSEClients
    /\ stream \in [SSEClients -> StreamSteps]
    /\ events \in [SSEClients -> 0..EventsCap]
    /\ closedEvents \subseteq SSEClients

SSEInit ==
    /\ broker = "select" /\ broadcast = 0
    /\ listeners = {}
    /\ stream = [c \in SSEClients |-> "none"]
    /\ events = [c \in SSEClients |-> 0]
    /\ closedEvents = {}

StreamTo(c, step) == stream' = [stream EXCEPT ![c] = step]

-----------------------------------------------------------------------------
(* Handler.ServeHTTP *)

\* A request asks for the stream; a writer that is no http.Flusher is refused.
SSEConnect(c, flusher) ==
    /\ stream[c] = "none"
    /\ StreamTo(c, IF flusher THEN "register" ELSE "refused")
    /\ UNCHANGED <<broker, broadcast, listeners, events, closedEvents>>

\* The loop takes the client from the register channel.
SSERegister(c) ==
    /\ broker = "select" /\ stream[c] = "register"
    /\ listeners' = listeners \cup {c}
    /\ StreamTo(c, "serve")
    /\ UNCHANGED <<broker, broadcast, events, closedEvents>>

\* The handler writes the next message; at the end of a closed channel it
\* returns, as it does when the request's context ends.
SSEReceive(c) ==
    /\ stream[c] = "serve" /\ events[c] > 0
    /\ events' = [events EXCEPT ![c] = @ - 1]
    /\ UNCHANGED <<broker, broadcast, listeners, stream, closedEvents>>

SSELeave(c) ==
    /\ stream[c] = "serve"
    /\ StreamTo(c, "unregister")
    /\ UNCHANGED <<broker, broadcast, listeners, events, closedEvents>>

\* The deferred send: the loop drops the client and closes its channel.
SSEUnregister(c) ==
    /\ broker = "select" /\ stream[c] = "unregister"
    /\ listeners' = listeners \ {c}
    /\ closedEvents' = closedEvents \cup (listeners \cap {c})
    /\ StreamTo(c, "done")
    /\ UNCHANGED <<broker, broadcast, events>>

-----------------------------------------------------------------------------
(* Broker.Run and Broker.Publish *)

MutSSEPublish == broadcast' = broadcast + 1

\* A send to the broadcast channel waits for room, whoever sends.
SSEPublish ==
    /\ broadcast < BroadcastCap
    /\ broadcast' = broadcast + 1

\* A message goes to every client that has room for it.
SSEDispatch ==
    /\ broker = "select" /\ broadcast > 0
    /\ broadcast' = broadcast - 1
    /\ events' = [c \in SSEClients |->
                    IF c \in listeners /\ events[c] < EventsCap
                    THEN events[c] + 1 ELSE events[c]]
    /\ UNCHANGED <<broker, listeners, stream, closedEvents>>

\* The ticker fires, and the loop sends to the channel only it drains.
SSETick ==
    /\ broker = "select"
    /\ broker' = "heartbeat"
    /\ UNCHANGED <<broadcast, listeners, stream, events, closedEvents>>

SSEHeartbeat ==
    /\ broker = "heartbeat"
    /\ SSEPublish
    /\ broker' = "select"
    /\ UNCHANGED <<listeners, stream, events, closedEvents>>

\* The context was cancelled: close every client's channel and return.
SSEQuit ==
    /\ broker = "select"
    /\ broker' = "gone"
    /\ closedEvents' = closedEvents \cup listeners
    /\ listeners' = {}
    /\ UNCHANGED <<broadcast, stream, events>>

\* The loop waits for itself: nothing will drain the channel it sends to.
SelfBlocked == broker = "heartbeat" /\ broadcast = BroadcastCap

\* The loop knows the clients whose handler is between its two channel sends,
\* and closes the channel of none but those.
SSEInv ==
    /\ listeners \cap closedEvents = {}
    /\ \A c \in listeners : stream[c] \in {"serve", "unregister"}
    /\ \A c \in closedEvents : stream[c] \in {"serve", "unregister", "done"}
=============================================================================
