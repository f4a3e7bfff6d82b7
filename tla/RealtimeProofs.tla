--------------------------- MODULE RealtimeProofs ---------------------------
(***************************************************************************)
(* Proofs about Realtime for every number of clients and every capacity,   *)
(* with or without the router in between.  Each component's invariant is   *)
(* proved from the component's own actions; the composition adds the order *)
(* in which the process ends.                                              *)
(***************************************************************************)
EXTENDS Realtime, SequenceTheorems, TLAPS

-----------------------------------------------------------------------------
(* The SSE broker *)

\* The steps of the broker, its handlers and its publishers.
SSEStep ==
    \/ \E c \in SSEClients :
          \/ \E flusher \in BOOLEAN : SSEConnect(c, flusher)
          \/ SSERegister(c) \/ SSEReceive(c) \/ SSELeave(c) \/ SSEUnregister(c)
    \/ SSEDispatch \/ SSETick \/ SSEHeartbeat \/ SSEQuit
    \/ SSEPublish /\ UNCHANGED <<broker, listeners, stream, events, closedEvents>>

LEMMA SSEKeeps ==
  ASSUME SSETypeOK, SSEInv, SSEStep \/ UNCHANGED sseVars
  PROVE  SSETypeOK' /\ SSEInv'
<1> USE DEF SSETypeOK, SSEInv, StreamSteps, StreamTo
<1> USE SSEAssumption
<1>1. CASE UNCHANGED sseVars
  BY <1>1 DEF sseVars
<1>2. ASSUME NEW c \in SSEClients, NEW flusher \in BOOLEAN, SSEConnect(c, flusher)
      PROVE  SSETypeOK' /\ SSEInv'
  BY <1>2 DEF SSEConnect
<1>3. ASSUME NEW c \in SSEClients, SSERegister(c)
      PROVE  SSETypeOK' /\ SSEInv'
  BY <1>3 DEF SSERegister
<1>4. ASSUME NEW c \in SSEClients, SSEReceive(c)
      PROVE  SSETypeOK' /\ SSEInv'
  BY <1>4 DEF SSEReceive
<1>5. ASSUME NEW c \in SSEClients, SSELeave(c)
      PROVE  SSETypeOK' /\ SSEInv'
  BY <1>5 DEF SSELeave
<1>6. ASSUME NEW c \in SSEClients, SSEUnregister(c)
      PROVE  SSETypeOK' /\ SSEInv'
  BY <1>6 DEF SSEUnregister
<1>7. CASE SSEDispatch
  BY <1>7 DEF SSEDispatch
<1>8. CASE SSETick
  BY <1>8 DEF SSETick
<1>9. CASE SSEHeartbeat
  BY <1>9 DEF SSEHeartbeat, SSEPublish
<1>10. CASE SSEQuit
  BY <1>10 DEF SSEQuit
<1>11. CASE SSEPublish /\ UNCHANGED <<broker, listeners, stream, events, closedEvents>>
  BY <1>11 DEF SSEPublish
<1>12. QED
  BY <1>1, <1>2, <1>3, <1>4, <1>5, <1>6, <1>7, <1>8, <1>9, <1>10, <1>11 DEF SSEStep

-----------------------------------------------------------------------------
(* The WebSocket hub *)

\* The steps of the hub, the pumps and the publishers.
HubStep ==
    \/ \E c \in WSClients :
          \/ \E hijacker \in BOOLEAN : WSConnect(c, hijacker)
          \/ WSRegister(c) \/ WSPing(c) \/ WSPong(c) \/ WSReadFails(c)
          \/ WSUnregister(c) \/ WSWrite(c) \/ WSWriteFails(c)
    \/ HubBroadcast \/ HubQuit
    \/ HubPublish /\ UNCHANGED <<hub, members, reader, writer, send, closedSend, slow, panicked>>

LEMMA HubKeeps ==
  ASSUME HubTypeOK, HubInv, panicked = "no", HubStep \/ UNCHANGED hubVars
  PROVE  HubTypeOK' /\ HubInv'
<1> USE DEF HubTypeOK, HubInv, ReaderSteps, WriterSteps, ReaderTo, WriterTo
<1> USE HubAssumption
<1>1. CASE UNCHANGED hubVars
  BY <1>1 DEF hubVars
<1>2. ASSUME NEW c \in WSClients, NEW hijacker \in BOOLEAN, WSConnect(c, hijacker)
      PROVE  HubTypeOK' /\ HubInv'
  BY <1>2 DEF WSConnect
<1>3. ASSUME NEW c \in WSClients, WSRegister(c)
      PROVE  HubTypeOK' /\ HubInv'
  BY <1>3 DEF WSRegister
<1>4. ASSUME NEW c \in WSClients, WSPing(c)
      PROVE  HubTypeOK' /\ HubInv'
  BY <1>4 DEF WSPing
<1>5. ASSUME NEW c \in WSClients, WSPong(c)
      PROVE  HubTypeOK' /\ HubInv'
  <2>1. CASE c \in closedSend /\ panicked' = "pong" /\ UNCHANGED <<reader, send>>
    BY <1>5, <2>1 DEF WSPong
  <2>2. CASE /\ send[c] < SendCap
             /\ send' = [send EXCEPT ![c] = @ + 1]
             /\ ReaderTo(c, "read") /\ UNCHANGED panicked
             /\ c \notin closedSend
    BY <1>5, <2>2 DEF WSPong
  <2>3. QED
    BY <1>5, <2>1, <2>2 DEF WSPong
<1>6. ASSUME NEW c \in WSClients, WSReadFails(c)
      PROVE  HubTypeOK' /\ HubInv'
  BY <1>6 DEF WSReadFails
<1>7. ASSUME NEW c \in WSClients, WSUnregister(c)
      PROVE  HubTypeOK' /\ HubInv'
  BY <1>7 DEF WSUnregister
<1>8. ASSUME NEW c \in WSClients, WSWrite(c)
      PROVE  HubTypeOK' /\ HubInv'
  BY <1>8 DEF WSWrite
<1>9. ASSUME NEW c \in WSClients, WSWriteFails(c)
      PROVE  HubTypeOK' /\ HubInv'
  BY <1>9 DEF WSWriteFails
<1>10. CASE HubBroadcast
  <2>1. members \cap closedSend = {}
    OBVIOUS
  <2>2. HubTypeOK'
    BY <1>10, <2>1 DEF HubBroadcast
  <2>3. HubInv'
    BY <1>10, <2>1 DEF HubBroadcast
  <2>4. QED
    BY <2>2, <2>3
<1>11. CASE HubQuit
  BY <1>11 DEF HubQuit
<1>12. CASE HubPublish /\ UNCHANGED <<hub, members, reader, writer, send, closedSend, slow, panicked>>
  BY <1>12 DEF HubPublish
<1>13. QED
  BY <1>1, <1>2, <1>3, <1>4, <1>5, <1>6, <1>7, <1>8, <1>9, <1>10, <1>11, <1>12 DEF HubStep

-----------------------------------------------------------------------------
(* The deferred calls *)

\* What is left of them after n - 1 calls.
LEMMA DefersType ==
  /\ Defers \in Seq(Deferred) /\ Len(Defers) = 5
  /\ \A i \in 1..5 : Defers[i] \in Deferred
  BY DEF Defers, Deferred, Consumers

LEMMA Rest ==
  ASSUME NEW n \in 1..6
  PROVE  LET d == SubSeq(Defers, n, 5) IN
         /\ d \in Seq(Deferred) /\ Len(d) = 6 - n
         /\ n < 6 => Head(d) = Defers[n] /\ Tail(d) = SubSeq(Defers, n + 1, 5)
<1> DEFINE d == SubSeq(Defers, n, 5)
<1>1. d \in Seq(Deferred) /\ Len(d) = 6 - n
  <2>1. \A i \in n..5 : Defers[i] \in Deferred
    BY DefersType
  <2>2. d \in Seq(Deferred) /\ Len(d) = IF n <= 5 THEN 5 - n + 1 ELSE 0
    BY <2>1, SubSeqProperties
  <2>3. QED
    BY <2>2
<1>2. ASSUME n < 6
      PROVE  Head(d) = Defers[n] /\ Tail(d) = SubSeq(Defers, n + 1, 5)
  BY <1>2, DefersType, HeadTailOfSubSeq
<1>3. QED
  BY <1>1, <1>2

\* A call that is over is the one whose turn it was.
LEMMA Turn ==
  ASSUME NEW n \in 1..6, deferred = SubSeq(Defers, n, 5), NEW call, Finished(call)
  PROVE  /\ n < 6 /\ call = Defers[n]
         /\ deferred' = SubSeq(Defers, n + 1, 5)
         /\ Len(deferred) = 6 - n /\ Len(deferred') = 5 - n
<1>1. deferred # <<>> /\ Head(deferred) = call /\ deferred' = Tail(deferred)
  BY DEF Finished
<1>2. n < 6
  BY <1>1, SubSeqEmpty, DefersType
<1>3. QED
  BY <1>1, <1>2, Rest

-----------------------------------------------------------------------------
(* The composition *)

\* In every step the broker does one of its own, and so does the hub.
LEMMA Projections ==
  ASSUME [Next]_vars
  PROVE  /\ SSEStep \/ UNCHANGED sseVars
         /\ (HubStep /\ panicked = "no") \/ UNCHANGED hubVars
<1>1. CASE UNCHANGED vars
  BY <1>1 DEF vars, sseVars, hubVars
<1>2. CASE Next
  <2>1. panicked = "no"
    BY <1>2 DEF Next, Alive
  <2>2. CASE Publish \/ Take \/ ToGraphQL \/ ConsumerStops \/ WorkerStops
    BY <2>2 DEF Publish, Take, ToGraphQL, ConsumerStops, WorkerStops
  <2>3. CASE ToWebSocket
    BY <2>1, <2>3 DEF ToWebSocket, HubStep
  <2>4. CASE ToSSE
    BY <2>4 DEF ToSSE, SSEStep
  <2>5. CASE Requests /\ UNCHANGED hubVars
    <3>1. ("Flush" \in Writer) \in BOOLEAN
      OBVIOUS
    <3>2. QED
      BY <2>5, <3>1 DEF Requests, SSEStep
  <2>6. CASE Connections /\ UNCHANGED sseVars
    <3>1. ("Hijack" \in Writer) \in BOOLEAN
      OBVIOUS
    <3>2. QED
      BY <2>1, <2>6, <3>1 DEF Connections, HubStep
  <2>7. CASE UNCHANGED <<sseVars, hubVars>>
    BY <2>7
  <2>8. QED
    BY <1>2, <2>2, <2>3, <2>4, <2>5, <2>6, <2>7 DEF Next
<1>3. QED
  BY <1>1, <1>2

\* The variables of main and of the consumers keep their types.
LEMMA TypeStep ==
  ASSUME IInv, [Next]_vars
  PROVE  TypeOK'
<1> USE DEF IInv, TypeOK
<1>1. SSETypeOK' /\ HubTypeOK'
  BY Projections, SSEKeeps, HubKeeps DEF hubVars, HubTypeOK
<1>2. CASE UNCHANGED vars
  BY <1>1, <1>2 DEF vars, procVars, gqlVars
<1>3. CASE Publish \/ Take
  <2>1. bus' \in 0..BusCap
    <3>1. bus \in Nat /\ bus <= BusCap /\ BusCap \in Nat
      BY RealtimeAssumption
    <3>2. CASE Publish
      BY <3>1, <3>2 DEF Publish
    <3>3. CASE Take
      BY <3>1, <3>3 DEF Take
    <3>4. QED
      BY <1>3, <3>2, <3>3
  <2>2. CASE Publish
    BY <1>1, <2>1, <2>2 DEF Publish, procVars, gqlVars
  <2>3. CASE Take
    BY <1>1, <2>1, <2>3 DEF Take, procVars, gqlVars
  <2>4. QED
    BY <1>3, <2>2, <2>3
<1>10. CASE ToWebSocket \/ ToSSE
  BY <1>1, <1>10 DEF ToWebSocket, ToSSE, procVars, gqlVars
<1>4. CASE ToGraphQL
  BY <1>1, <1>4, RealtimeAssumption DEF ToGraphQL, procVars
<1>5. CASE ConsumerStops \/ WorkerStops
  BY <1>1, <1>5 DEF ConsumerStops, WorkerStops, procVars, gqlVars
<1>6. CASE UNCHANGED <<gqlVars, procVars, bus, consumer>>
  BY <1>1, <1>6 DEF procVars, gqlVars
<1>7. ASSUME NEW g \in GraphQLClients, Subscribe(g) \/ Forward(g) \/ Unsubscribe(g),
             UNCHANGED <<procVars, bus, consumer>>
      PROVE  TypeOK'
  BY <1>1, <1>7, RealtimeAssumption DEF Subscribe, Forward, Unsubscribe, procVars
<1>8. ASSUME Signal \/ Ending, UNCHANGED <<gqlVars, kafka, worker, bus, consumer>>
      PROVE  TypeOK'
  <2>1. CASE Signal \/ ShutdownReturns \/ ShutdownTimesOut \/ Exit
    BY <1>1, <1>8, <2>1 DEF Signal, ShutdownReturns, ShutdownTimesOut, Exit, gqlVars
  <2>2. CASE StopSignal
    BY <1>1, <1>8, <2>2 DEF StopSignal, gqlVars
  <2>3. CASE StopReturns \/ ClosePublisher \/ CloseStores \/ Cancel
    <3>1. PICK call : Finished(call)
      BY <2>3 DEF StopReturns, ClosePublisher, CloseStores, Cancel
    <3>2. deferred' \in Seq(Deferred) /\ main' = main
      BY <3>1, HeadTailProperties DEF Finished
    <3>3. busOpen' \in BOOLEAN /\ stopping' \subseteq Consumers
          /\ stores' \in BOOLEAN /\ cancelled' \in BOOLEAN
      BY <2>3 DEF StopReturns, ClosePublisher, CloseStores, Cancel
    <3>4. QED
      BY <1>1, <1>8, <3>2, <3>3 DEF gqlVars
  <2>4. QED
    BY <1>8, <2>1, <2>2, <2>3 DEF Ending
<1>9. QED
  BY <1>2, <1>3, <1>10, <1>4, <1>5, <1>6, <1>7, <1>8 DEF Next

\* A call ends only when what it waits for is stopped, and nothing starts again.
LEMMA EndStep ==
  ASSUME IInv, [Next]_vars
  PROVE  EndInv'
<1> USE DEF EndInv
<1>0. EndInv
  BY DEF IInv
<1>1. ASSUME UNCHANGED <<main, deferred, stores, stream>>,
             consumer = "stopped" => consumer' = "stopped",
             worker = "stopped" => worker' = "stopped"
      PROVE  EndInv'
  BY <1>0, <1>1 DEF Streams
<1>2. CASE UNCHANGED vars
  BY <1>1, <1>2 DEF vars, procVars, sseVars
<1>3. CASE Publish \/ Take \/ ToWebSocket \/ ToSSE \/ ToGraphQL
  BY <1>1, <1>3 DEF Publish, Take, ToWebSocket, ToSSE, ToGraphQL, procVars, sseVars
<1>4. CASE ConsumerStops \/ WorkerStops
  BY <1>1, <1>4 DEF ConsumerStops, WorkerStops, procVars, sseVars
<1>5. CASE Requests /\ UNCHANGED <<procVars, consumer>>
  <2>1. main # "serve" /\ Streams = {} => Streams' = {}
    <3> USE DEF Streams, StreamTo
    <3>1. ASSUME NEW c \in SSEClients, main # "serve",
                 SSERegister(c) \/ SSEReceive(c) \/ SSELeave(c) \/ SSEUnregister(c)
          PROVE  Streams = {} => Streams' = {}
      BY <3>1 DEF SSERegister, SSEReceive, SSELeave, SSEUnregister
    <3>2. CASE SSEDispatch \/ SSETick \/ SSEHeartbeat \/ SSEQuit
      BY <3>2 DEF SSEDispatch, SSETick, SSEHeartbeat, SSEPublish, SSEQuit
    <3>3. QED
      BY <1>5, <3>1, <3>2 DEF Requests
  <2>2. QED
    BY <1>0, <1>5, <2>1 DEF procVars
<1>6. CASE UNCHANGED <<sseVars, procVars, consumer>>
  BY <1>1, <1>6 DEF procVars, sseVars
<1>7. ASSUME Signal \/ Ending, UNCHANGED <<sseVars, worker, consumer>>
      PROVE  EndInv'
  <2>1. Streams' = Streams
    BY <1>7 DEF Streams, sseVars
  <2>2. CASE Signal \/ ShutdownReturns \/ ShutdownTimesOut \/ StopSignal \/ Exit
    BY <1>0, <1>7, <2>1, <2>2 DEF Signal, ShutdownReturns, ShutdownTimesOut, StopSignal, Exit
  <2>3. ASSUME NEW call, Finished(call),
               call = "realtimeConsumer.Stop" => consumer = "stopped",
               call = "eventConsumer.Stop" => worker = "stopped",
               call # "stores.Close" => stores' = stores
        PROVE  EndInv'
    <3>1. PICK n \in 1..6 : deferred = SubSeq(Defers, n, 5)
      BY <1>0
    <3>2. /\ n < 6 /\ call = Defers[n]
          /\ deferred' = SubSeq(Defers, n + 1, 5)
          /\ Len(deferred) = 6 - n /\ Len(deferred') = 5 - n
      BY <2>3, <3>1, Turn
    <3>3. main = "return" /\ main' = main
      BY <2>3 DEF Finished
    <3>4. \E m \in 1..6 : deferred' = SubSeq(Defers, m, 5)
      BY <3>2
    <3>5. n = 1 => call = "realtimeConsumer.Stop"
      BY <3>2 DEF Defers
    <3>6. n = 2 => call = "eventConsumer.Stop"
      BY <3>2 DEF Defers
    <3>7. n \in 1..3 => call # "stores.Close"
      BY <3>2 DEF Defers
    <3>8. /\ Len(deferred') < 5 => consumer = "stopped"
          /\ Len(deferred') < 4 => worker = "stopped"
      <4>1. n = 1 \/ Len(deferred) < 5
        BY <3>2
      <4>2. Len(deferred') < 4 => n = 2 \/ Len(deferred) < 4
        BY <3>2
      <4>3. QED
        BY <1>0, <2>3, <3>5, <3>6, <4>1, <4>2
    <3>9. ~stores' => Len(deferred') < 2
      BY <1>0, <2>3, <3>2, <3>7
    <3>10. main' \in {"return", "exited"} => Streams' = {}
      BY <1>0, <2>1, <3>3
    <3>11. QED
      BY <1>7, <3>3, <3>4, <3>8, <3>9, <3>10
  <2>4. CASE StopReturns
    BY <2>3, <2>4 DEF StopReturns, Finished
  <2>5. CASE ClosePublisher \/ CloseStores \/ Cancel
    BY <2>3, <2>5 DEF ClosePublisher, CloseStores, Cancel
  <2>6. QED
    BY <1>7, <2>2, <2>4, <2>5 DEF Ending
<1>8. QED
  BY <1>2, <1>3, <1>4, <1>5, <1>6, <1>7 DEF Next

LEMMA InitInv ==
  ASSUME Init
  PROVE  IInv
<1> USE DEF Init, SSEInit, HubInit
<1>1. SSETypeOK /\ SSEInv
  BY SSEAssumption DEF SSETypeOK, SSEInv, StreamSteps
<1>2. HubTypeOK /\ HubInv
  BY HubAssumption DEF HubTypeOK, HubInv, ReaderSteps, WriterSteps
<1>3. TypeOK
  <2>1. bus \in 0..BusCap /\ inbox \in [GraphQLClients -> 0..InboxCap]
    BY RealtimeAssumption
  <2>2. deferred \in Seq(Deferred) /\ stopping \subseteq Consumers
    BY DefersType
  <2>3. kafka \subseteq {"publisher", "subscriber"} /\ worker \in {"running", "stopped"}
    OBVIOUS
  <2>4. QED
    BY <1>1, <1>2, <2>1, <2>2, <2>3 DEF TypeOK
<1>4. EndInv
  <2>1. Len(deferred) = 5
    BY DefersType
  <2>2. deferred = SubSeq(Defers, 1, 5)
    BY DEF Defers
  <2>3. QED
    BY <2>1, <2>2 DEF EndInv
<1>5. QED
  BY <1>1, <1>2, <1>3, <1>4 DEF IInv

LEMMA StepInv ==
  ASSUME IInv, [Next]_vars
  PROVE  IInv'
<1>1. SSETypeOK /\ HubTypeOK /\ SSEInv /\ HubInv
  BY DEF IInv, TypeOK
<1>2. SSEInv'
  BY <1>1, Projections, SSEKeeps
<1>3. HubInv'
  <2>1. CASE HubStep /\ panicked = "no"
    BY <1>1, <2>1, HubKeeps
  <2>2. CASE UNCHANGED hubVars
    BY <1>1, <2>2 DEF HubInv, hubVars
  <2>3. QED
    BY <2>1, <2>2, Projections
<1>4. QED
  BY <1>2, <1>3, TypeStep, EndStep DEF IInv

\* The invariants of the components and of the end of the process hold in
\* every reachable state, however many clients and however small the channels.
THEOREM InvariantIInv == Spec => []IInv
<1>1. Init => IInv
  BY InitInv
<1>2. IInv /\ [Next]_vars => IInv'
  BY StepInv
<1>3. QED
  BY <1>1, <1>2, PTL DEF Spec

\* Type correctness of the broker, the hub, the consumer and main.
THEOREM TypeCorrect == Spec => []TypeOK
<1>1. IInv => TypeOK
  BY DEF IInv
<1>2. QED
  BY <1>1, InvariantIInv, PTL

\* Neither loop sends to a channel it closed or closes it a second time,
\* whatever the order in which clients leave, are dropped and the loops quit.
THEOREM ClosedChannelsAreForgotten == Spec => []NoSendOnClosed
<1>1. IInv => NoSendOnClosed
  BY DEF IInv, SSEInv, HubInv, NoSendOnClosed
<1>2. QED
  BY <1>1, InvariantIInv, PTL

\* The panic of a pong on a closed channel needs a client the hub dropped for
\* being slow: no other way of leaving leads there.
THEOREM PanicNeedsASlowClient == Spec => []OnlySlowClientsPanic
<1>1. IInv => OnlySlowClientsPanic
  BY DEF IInv, HubInv, OnlySlowClientsPanic
<1>2. QED
  BY <1>1, InvariantIInv, PTL

\* The order of main's deferred calls keeps the database and the cache open
\* until both consumers have stopped and every request that Shutdown waits for
\* has ended.  Goroutines of GraphQL subscriptions are not covered.
THEOREM StoresCloseLast == Spec => []StoresOutliveConsumers
<1>1. IInv => StoresOutliveConsumers
  <2>1. SUFFICES ASSUME IInv, ~stores
                 PROVE  consumer = "stopped" /\ worker = "stopped" /\ Streams = {}
    BY DEF StoresOutliveConsumers
  <2>2. PICK n \in 1..6 : deferred = SubSeq(Defers, n, 5)
    BY <2>1 DEF IInv, EndInv
  <2>3. Len(deferred) < 2 /\ Len(deferred) \in Int
    BY <2>1, <2>2, Rest DEF IInv, EndInv
  <2>4. QED
    BY <2>1, <2>3 DEF IInv, EndInv
<1>2. QED
  BY <1>1, InvariantIInv, PTL

-----------------------------------------------------------------------------
(* The loops and those who publish to them *)

LEMMA LoopStep ==
  ASSUME IInv, LoopInv, [Next]_vars
  PROVE  LoopInv'
<1> USE DEF LoopInv
<1>1. ASSUME UNCHANGED <<hub, broker, cancelled, deferred>> PROVE LoopInv'
  BY <1>1
<1>2. CASE UNCHANGED vars
  BY <1>1, <1>2 DEF vars, procVars, sseVars, hubVars
<1>3. CASE Publish \/ Take \/ ToWebSocket \/ ToSSE \/ ToGraphQL
  BY <1>1, <1>3 DEF Publish, Take, ToWebSocket, ToSSE, ToGraphQL, procVars, sseVars, hubVars
<1>4. CASE ConsumerStops \/ WorkerStops
  BY <1>1, <1>4 DEF ConsumerStops, WorkerStops, procVars, sseVars, hubVars
<1>5. CASE Requests /\ UNCHANGED <<hubVars, procVars>>
  <2>1. broker' = "gone" => broker = "gone" \/ cancelled
    <3>1. ASSUME NEW c \in SSEClients,
                 \/ SSEConnect(c, "Flush" \in Writer)
                 \/ SSERegister(c) \/ SSEReceive(c) \/ SSELeave(c) \/ SSEUnregister(c)
          PROVE  broker' = broker
      BY <3>1 DEF SSEConnect, SSERegister, SSEReceive, SSELeave, SSEUnregister
    <3>2. CASE SSEDispatch \/ SSETick \/ SSEHeartbeat
      BY <3>2 DEF SSEDispatch, SSETick, SSEHeartbeat
    <3>3. QED
      BY <1>5, <3>1, <3>2 DEF Requests
  <2>2. QED
    BY <1>5, <2>1 DEF hubVars, procVars
<1>6. CASE Connections /\ UNCHANGED <<sseVars, procVars>>
  <2>1. hub' = "gone" => hub = "gone" \/ cancelled
    <3>1. ASSUME NEW c \in WSClients,
                 \/ WSConnect(c, "Hijack" \in Writer)
                 \/ WSRegister(c) \/ WSPing(c) \/ WSPong(c)
                 \/ WSReadFails(c) \/ WSUnregister(c) \/ WSWrite(c) \/ WSWriteFails(c)
          PROVE  hub' = hub
      BY <3>1 DEF WSConnect, WSRegister, WSPing, WSPong, WSReadFails, WSUnregister,
         WSWrite, WSWriteFails
    <3>2. CASE HubBroadcast
      BY <3>2 DEF HubBroadcast
    <3>3. QED
      BY <1>6, <3>1, <3>2 DEF Connections
  <2>2. QED
    BY <1>6, <2>1 DEF sseVars, procVars
<1>7. CASE UNCHANGED <<sseVars, hubVars, procVars>>
  BY <1>1, <1>7 DEF procVars, sseVars, hubVars
<1>8. ASSUME Signal \/ Ending, UNCHANGED <<sseVars, hubVars>>
      PROVE  LoopInv'
  <2>1. UNCHANGED <<hub, broker>>
    BY <1>8 DEF sseVars, hubVars
  <2>2. CASE Signal \/ ShutdownReturns \/ ShutdownTimesOut \/ StopSignal \/ Exit
    BY <2>1, <2>2 DEF Signal, ShutdownReturns, ShutdownTimesOut, StopSignal, Exit
  <2>3. CASE StopReturns \/ ClosePublisher \/ CloseStores
    BY <2>1, <2>3 DEF StopReturns, ClosePublisher, CloseStores, Finished
  <2>4. CASE Cancel
    <3>1. PICK n \in 1..6 : deferred = SubSeq(Defers, n, 5)
      BY DEF IInv, EndInv
    <3>2. Finished("cancel")
      BY <2>4 DEF Cancel
    <3>3. n < 6 /\ "cancel" = Defers[n] /\ Len(deferred') = 5 - n /\ deferred' \in Seq(Deferred)
      <4>1. deferred' = SubSeq(Defers, n + 1, 5) /\ n < 6
        BY <3>1, <3>2, Turn
      <4>2. n + 1 \in 1..6
        BY <4>1
      <4>3. deferred' \in Seq(Deferred)
        BY <4>1, <4>2, Rest
      <4>4. QED
        BY <3>1, <3>2, <4>3, Turn
    <3>4. n = 5
      BY <3>3 DEF Defers
    <3>5. deferred' = <<>>
      BY <3>3, <3>4
    <3>6. QED
      BY <2>4, <3>5 DEF Cancel
  <2>5. QED
    BY <1>8, <2>2, <2>3, <2>4 DEF Ending
<1>9. QED
  BY <1>2, <1>3, <1>4, <1>5, <1>6, <1>7, <1>8 DEF Next

\* When the loop of the hub or of the broker returns, the consumer that feeds
\* both has stopped, no handler of an SSE stream is left and main has run all its
\* deferred calls.  A WebSocket reader that still waits for the hub delays no one.
THEOREM LoopsReturnLast == Spec => []LoopsOutlivePublishers
<1>1. Init => LoopInv
  BY DEF Init, SSEInit, HubInit, LoopInv
<1>2. IInv /\ LoopInv /\ [Next]_vars => LoopInv'
  BY LoopStep
<1>3. IInv /\ LoopInv => LoopsOutlivePublishers
  <2>1. ASSUME IInv, deferred = <<>>
        PROVE  consumer = "stopped" /\ Streams = {}
    <3>1. Len(deferred) = 0
      BY <2>1
    <3>2. QED
      BY <2>1, <3>1 DEF IInv, EndInv
  <2>2. QED
    BY <2>1 DEF LoopInv, LoopsOutlivePublishers
<1>4. QED
  BY <1>1, <1>2, <1>3, InvariantIInv, PTL DEF Spec
=============================================================================
