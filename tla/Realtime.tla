------------------------------ MODULE Realtime ------------------------------
(***************************************************************************)
(* How a task event reaches the realtime transports, and how the process   *)
(* ends (cmd/server/main.go, messaging/fanout, messaging/memory,           *)
(* worker.EventConsumer, graphql.SubscriptionBroker).  A request publishes *)
(* to Kafka and to the local bus; one goroutine takes the events from the  *)
(* bus and passes each to the WebSocket hub, the SSE broker, Socket.IO and *)
(* GraphQL in turn.  At the end main waits for its requests and runs its   *)
(* deferred calls, last in first out.                                      *)
(*                                                                         *)
(* Socket.IO is a library: its broadcast is assumed to return.  A channel  *)
(* of the bus holds 100 events in the code, a GraphQL subscription 32.     *)
(***************************************************************************)
EXTENDS SSEBroker, WebSocketHub, Sequences

CONSTANTS
    GraphQLClients,  \* subscriptions
    BusCap,          \* capacity of a channel of EventBus
    InboxCap,        \* capacity of a GraphQL subscription
    Routed           \* are the handlers reached through rest.Router, as main
                     \* mounts them, or does the server call them directly?

ASSUME RealtimeAssumption ==
    /\ BusCap \in Nat \ {0} /\ InboxCap \in Nat \ {0}
    /\ Routed \in BOOLEAN

VARIABLES
    kafka,         \* Kafka clients that could be built at start-up
    busOpen, bus,  \* EventBus: is it open, and the events in the task channel
    consumer,      \* the realtime consumer's goroutine for the task topic
    worker,        \* the background consumer's goroutine
    stopping,      \* consumers whose stopCh was closed
    subscription,  \* GraphQL subscriptions
    inbox,         \* and their waiting events
    main,          \* the main goroutine
    deferred,      \* its deferred calls, the next one first
    stores,        \* are the cache and the database open?
    cancelled      \* was the process's context cancelled?

gqlVars == <<subscription, inbox>>
procVars == <<kafka, busOpen, worker, stopping, main, deferred, stores, cancelled>>
vars == <<sseVars, hubVars, gqlVars, procVars, bus, consumer>>

-----------------------------------------------------------------------------
Consumers == {"realtimeConsumer.Stop", "eventConsumer.Stop"}
Deferred == Consumers \cup {"eventPublisher.Close", "stores.Close", "cancel"}

\* Bugs of Defers: cancel called as soon as Shutdown returns; the background
\* consumer forgotten until the stores are closed.
CancelFirst == <<"cancel", "realtimeConsumer.Stop", "eventConsumer.Stop",
                 "eventPublisher.Close", "stores.Close">>
StopLate == <<"realtimeConsumer.Stop", "eventPublisher.Close", "stores.Close",
              "eventConsumer.Stop", "cancel">>

\* cancel was deferred first, so it runs last.
Defers == <<"realtimeConsumer.Stop", "eventConsumer.Stop",
            "eventPublisher.Close", "stores.Close", "cancel">>

TypeOK ==
    /\ SSETypeOK /\ HubTypeOK
    /\ kafka \subseteq {"publisher", "subscriber"}
    /\ busOpen \in BOOLEAN /\ bus \in 0..BusCap
    /\ consumer \in {"idle", "websocket", "sse", "graphql", "stopped"}
    /\ worker \in {"running", "stopped"}
    /\ stopping \subseteq Consumers
    /\ subscription \in [GraphQLClients -> {"none", "open", "closed"}]
    /\ inbox \in [GraphQLClients -> 0..InboxCap]
    /\ main \in {"serve", "drain", "return", "exited", "killed"}
    /\ deferred \in Seq(Deferred)
    /\ stores \in BOOLEAN /\ cancelled \in BOOLEAN

Init ==
    /\ SSEInit /\ HubInit
    /\ kafka \in SUBSET {"publisher", "subscriber"}
    /\ busOpen = TRUE /\ bus = 0
    /\ consumer = "idle"
    /\ worker = IF "subscriber" \in kafka THEN "running" ELSE "stopped"
    /\ stopping = {}
    /\ subscription = [g \in GraphQLClients |-> "none"]
    /\ inbox = [g \in GraphQLClients |-> 0]
    /\ main = "serve" /\ deferred = Defers
    /\ stores = TRUE /\ cancelled = FALSE

-----------------------------------------------------------------------------
(* The way of an event *)

\* fanout.Publisher.Publish by a request.  A Kafka publisher that could not be
\* built is a typed nil whose call panics before the bus is reached; an event
\* that finds the channel full, or the bus closed, is dropped.
Publish ==
    /\ main \in {"serve", "drain"}
    /\ "publisher" \in kafka
    /\ bus' = IF busOpen /\ bus < BusCap THEN bus + 1 ELSE bus
    /\ UNCHANGED <<sseVars, hubVars, gqlVars, procVars, consumer>>

\* consume takes an event, which may be of a type without a handler.
Take ==
    /\ consumer = "idle" /\ bus > 0
    /\ bus' = bus - 1
    /\ consumer' \in {"idle", "websocket"}
    /\ UNCHANGED <<sseVars, hubVars, gqlVars, procVars>>

ToWebSocket ==
    /\ consumer = "websocket"
    /\ HubPublish
    /\ consumer' = "sse"
    /\ UNCHANGED <<hub, members, reader, writer, send, closedSend, slow, panicked>>
    /\ UNCHANGED <<sseVars, gqlVars, procVars, bus>>

ToSSE ==
    /\ consumer = "sse"
    /\ SSEPublish
    /\ consumer' = "graphql"
    /\ UNCHANGED <<broker, listeners, stream, events, closedEvents>>
    /\ UNCHANGED <<hubVars, gqlVars, procVars, bus>>

\* SubscriptionBroker.Publish: whoever has no room misses the event.
ToGraphQL ==
    /\ consumer = "graphql"
    /\ inbox' = [g \in GraphQLClients |->
                   IF subscription[g] = "open" /\ inbox[g] < InboxCap
                   THEN inbox[g] + 1 ELSE inbox[g]]
    /\ consumer' = "idle"
    /\ UNCHANGED <<sseVars, hubVars, procVars, subscription, bus>>

\* The goroutine returns between two events: it was stopped, its context was
\* cancelled, or its channel is closed and empty.
ConsumerStops ==
    /\ consumer = "idle"
    /\ \/ "realtimeConsumer.Stop" \in stopping
       \/ cancelled
       \/ ~busOpen /\ bus = 0
    /\ consumer' = "stopped"
    /\ UNCHANGED <<sseVars, hubVars, gqlVars, procVars, bus>>

\* The background consumer, whatever it is doing, finishes its event first.
WorkerStops ==
    /\ worker = "running"
    /\ "eventConsumer.Stop" \in stopping \/ cancelled
    /\ worker' = "stopped"
    /\ UNCHANGED <<kafka, busOpen, stopping, main, deferred, stores, cancelled>>
    /\ UNCHANGED <<sseVars, hubVars, gqlVars, bus, consumer>>

-----------------------------------------------------------------------------
(* Clients come and go while the server listens *)

\* The methods of the writer the HTTP server hands out, and of the one that
\* middleware.ResponseWriter makes of it by embedding the interface.
ServerWriter == {"Header", "Write", "WriteHeader", "Flush", "Hijack"}
NewResponseWriter(writerMethods) == writerMethods \cap {"Header", "Write", "WriteHeader"}

\* What the handlers of /events, /ws and /graphql are given.
Writer == IF Routed THEN NewResponseWriter(ServerWriter) ELSE ServerWriter

Requests ==
    \/ \E c \in SSEClients :
          \/ main = "serve" /\ SSEConnect(c, "Flush" \in Writer)
          \/ SSERegister(c) \/ SSEReceive(c) \/ SSELeave(c) \/ SSEUnregister(c)
    \/ SSEDispatch \/ SSETick \/ SSEHeartbeat
    \/ cancelled /\ SSEQuit

Connections ==
    \/ \E c \in WSClients :
          \/ main = "serve" /\ WSConnect(c, "Hijack" \in Writer)
          \/ WSRegister(c) \/ WSPing(c) \/ WSPong(c)
          \/ WSReadFails(c) \/ WSUnregister(c) \/ WSWrite(c) \/ WSWriteFails(c)
    \/ HubBroadcast
    \/ cancelled /\ HubQuit

\* SubscriptionBroker.Subscribe, the resolver's goroutine, and the end of the
\* subscription's context; all under the broker's lock.
Subscribe(g) ==
    /\ main = "serve" /\ "Hijack" \in Writer
    /\ subscription[g] = "none"
    /\ subscription' = [subscription EXCEPT ![g] = "open"]
    /\ UNCHANGED inbox

Forward(g) ==
    /\ inbox[g] > 0
    /\ inbox' = [inbox EXCEPT ![g] = @ - 1]
    /\ UNCHANGED subscription

Unsubscribe(g) ==
    /\ subscription[g] = "open"
    /\ subscription' = [subscription EXCEPT ![g] = "closed"]
    /\ inbox' = [inbox EXCEPT ![g] = 0]

-----------------------------------------------------------------------------
(* The end of the process *)

\* Requests that keep Shutdown waiting; it forgets hijacked connections.
Streams == {c \in SSEClients : stream[c] \in {"register", "serve", "unregister"}}

Signal ==
    /\ main = "serve"
    /\ main' = "drain"
    /\ UNCHANGED <<deferred, busOpen, stopping, stores, cancelled>>

ShutdownReturns ==
    /\ main = "drain" /\ Streams = {}
    /\ main' = "return"
    /\ UNCHANGED <<deferred, busOpen, stopping, stores, cancelled>>

\* After 30 seconds os.Exit, and no deferred call runs.
ShutdownTimesOut ==
    /\ main = "drain"
    /\ main' = "killed"
    /\ UNCHANGED <<deferred, busOpen, stopping, stores, cancelled>>

Finished(call) ==
    /\ main = "return" /\ deferred # <<>> /\ Head(deferred) = call
    /\ deferred' = Tail(deferred)
    /\ UNCHANGED main

\* EventConsumer.Stop closes stopCh once and waits for the goroutines.
StopSignal ==
    /\ main = "return" /\ deferred # <<>>
    /\ Head(deferred) \in Consumers \ stopping
    /\ stopping' = stopping \cup {Head(deferred)}
    /\ UNCHANGED <<main, deferred, busOpen, stores, cancelled>>

StopReturns ==
    /\ \/ Finished("realtimeConsumer.Stop") /\ consumer = "stopped"
       \/ Finished("eventConsumer.Stop") /\ worker = "stopped"
    /\ Head(deferred) \in stopping
    /\ UNCHANGED <<busOpen, stopping, stores, cancelled>>

\* fanout.Publisher.Close; a typed-nil Kafka publisher panics first, and the
\* deferred calls that are left still run.
ClosePublisher ==
    /\ Finished("eventPublisher.Close")
    /\ busOpen' = (busOpen /\ "publisher" \notin kafka)
    /\ UNCHANGED <<stopping, stores, cancelled>>

CloseStores ==
    /\ Finished("stores.Close")
    /\ stores' = FALSE
    /\ UNCHANGED <<busOpen, stopping, cancelled>>

Cancel ==
    /\ Finished("cancel")
    /\ cancelled' = TRUE
    /\ UNCHANGED <<busOpen, stopping, stores>>

Exit ==
    /\ main = "return" /\ deferred = <<>>
    /\ main' = "exited"
    /\ UNCHANGED <<deferred, busOpen, stopping, stores, cancelled>>

Ending ==
    \/ ShutdownReturns \/ ShutdownTimesOut
    \/ StopSignal \/ StopReturns \/ ClosePublisher \/ CloseStores \/ Cancel \/ Exit

-----------------------------------------------------------------------------
\* Nothing runs once the process is gone.
Alive == main \notin {"exited", "killed"} /\ panicked = "no"

Next ==
    /\ Alive
    /\ \/ Publish \/ Take \/ ToWebSocket \/ ToSSE \/ ToGraphQL
       \/ ConsumerStops \/ WorkerStops
       \/ Requests /\ UNCHANGED <<hubVars, gqlVars, procVars, bus, consumer>>
       \/ Connections /\ UNCHANGED <<sseVars, gqlVars, procVars, bus, consumer>>
       \/ /\ \E g \in GraphQLClients : Subscribe(g) \/ Forward(g) \/ Unsubscribe(g)
          /\ UNCHANGED <<sseVars, hubVars, procVars, bus, consumer>>
       \/ /\ Signal \/ Ending
          /\ UNCHANGED <<sseVars, hubVars, gqlVars, kafka, worker, bus, consumer>>

\* A loop whose select has a ready case takes it in the end.  Go chooses among
\* ready cases at random and serves the senders of a channel in order, so what
\* is possible again and again happens even if others come first: strong
\* fairness where a tick or another event can get ahead.
Fairness ==
    /\ WF_vars(Alive /\ Take)
    /\ WF_vars(Alive /\ ToWebSocket)
    /\ SF_vars(Alive /\ ToSSE)
    /\ WF_vars(Alive /\ ToGraphQL)
    /\ SF_vars(Alive /\ ConsumerStops)
    /\ WF_vars(Alive /\ WorkerStops)
    /\ WF_vars(Alive /\ HubBroadcast /\ UNCHANGED <<sseVars, gqlVars, procVars, bus, consumer>>)
    /\ SF_vars(Alive /\ SSEDispatch /\ UNCHANGED <<hubVars, gqlVars, procVars, bus, consumer>>)
    /\ WF_vars(Alive /\ SSEHeartbeat /\ UNCHANGED <<hubVars, gqlVars, procVars, bus, consumer>>)
    /\ WF_vars(Alive /\ Ending /\ UNCHANGED <<sseVars, hubVars, gqlVars, kafka, worker, bus, consumer>>)

Spec == Init /\ [][Next]_vars /\ Fairness

-----------------------------------------------------------------------------
(* Properties *)

\* No channel is used after it was closed, except by a pong: a client whose
\* channel was closed is known to its loop no more, so neither loop sends to
\* it or closes it again, whatever the order of leaving, dropping and quitting.
NoSendOnClosed ==
    /\ listeners \cap closedEvents = {}
    /\ members \cap closedSend = {}
    /\ panicked # "close"

\* A reader that still answers pings meets a closed Send, and panics the
\* process, only if the hub dropped its client for being slow.
OnlySlowClientsPanic ==
    /\ \A c \in closedSend : reader[c] \in {"read", "pong"} => c \in slow
    /\ panicked = "pong" => slow # {}

\* When the database and the cache are closed, the consumers have stopped and
\* the requests Shutdown waits for have ended.  The goroutine of a GraphQL
\* subscription is neither: see SubscriptionsEndFirst.
StoresOutliveConsumers ==
    ~stores => consumer = "stopped" /\ worker = "stopped" /\ Streams = {}

\* "Graceful shutdown" (cmd/server/main.go:330): no subscription is left with an
\* event whose task its goroutine would look up in the closed cache and database
\* (streamTasks).  Its connection is hijacked, so Shutdown does not wait for it.
SubscriptionsEndFirst == ~stores => \A g \in GraphQLClients : inbox[g] = 0

\* When the hub or the broker has returned, neither the consumer nor a stream
\* will send to it, and main has no call left to wait in.  A WebSocket reader may
\* still wait to register or unregister, for the end of the process and with no
\* one waiting for it.  With the context cancelled any earlier, the consumer
\* could wait for room in a channel that nobody drains, and its Stop, and main
\* with it, for the consumer (the order of the defers in main.go).
LoopsOutlivePublishers ==
    hub = "gone" \/ broker = "gone" =>
      consumer = "stopped" /\ Streams = {} /\ deferred = <<>>

\* An event the consumer took reaches all the transports, however slow their
\* clients are, unless the SSE broker waits for itself.
Stalled == SelfBlocked \/ ~Alive
EventsFlow ==
    (consumer \in {"websocket", "sse", "graphql"}) ~> (consumer = "idle" \/ Stalled)

\* After a signal the process ends, unless the SSE broker waits for itself.
ShutdownEnds == (main = "drain") ~> Stalled

\* README.md:20: "Realtime transports available through WebSocket, SSE, and
\* Socket.IO."  No request for a stream is turned away.
RealtimeAvailable ==
    /\ \A c \in SSEClients : stream[c] # "refused"
    /\ \A c \in WSClients : reader[c] # "refused"

-----------------------------------------------------------------------------
(* The inductive invariant of the proofs *)

\* The rest of the deferred calls tells what was stopped: a call is gone from
\* it only when what it waits for is.
EndInv ==
    /\ \E n \in 1..6 : deferred = SubSeq(Defers, n, 5)
    /\ main \in {"return", "exited"} => Streams = {}
    /\ Len(deferred) < 5 => main \in {"return", "exited"} /\ consumer = "stopped"
    /\ Len(deferred) < 4 => worker = "stopped"
    /\ ~stores => Len(deferred) < 2

\* The loops return when the last deferred call told them to.
LoopInv ==
    /\ hub = "gone" \/ broker = "gone" => cancelled
    /\ cancelled => deferred = <<>>

IInv == TypeOK /\ SSEInv /\ HubInv /\ EndInv
=============================================================================
