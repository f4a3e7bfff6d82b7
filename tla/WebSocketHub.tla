---------------------------- MODULE WebSocketHub ----------------------------
(***************************************************************************)
(* websocket.Hub and the two goroutines of each connection                 *)
(* (transport/websocket/handler.go).  The hub's loop owns the map of       *)
(* clients and is the only one that closes a Send channel; the read pump   *)
(* answers pings on that same channel.  Messages are counted, not named.   *)
(*                                                                         *)
(* Both capacities are 256 in the code.  Subscribe messages are left out:  *)
(* no one reads Client.Subscriptions.                                      *)
(***************************************************************************)
EXTENDS Naturals

CONSTANTS
    WSClients,   \* requests to GET /ws
    HubCap,      \* capacity of Hub.broadcast
    SendCap      \* capacity of Client.Send

ASSUME HubAssumption == HubCap \in Nat \ {0} /\ SendCap \in Nat \ {0}

VARIABLES
    hub,         \* is the loop running?
    queue,       \* messages in Hub.broadcast
    members,     \* Hub.clients
    reader,      \* where each readPump is, or the request before it
    writer,      \* where each writePump is
    send,        \* messages in Client.Send
    closedSend,  \* clients whose Send was closed
    slow,        \* history: clients the hub dropped because Send was full
    panicked     \* what killed the process: a pong or a second close

hubVars == <<hub, queue, members, reader, writer, send, closedSend, slow, panicked>>

ReaderSteps == {"none", "register", "read", "pong", "unregister", "done", "refused"}
WriterSteps == {"none", "write", "done"}

HubTypeOK ==
    /\ hub \in {"select", "gone"}
    /\ queue \in 0..HubCap
    /\ members \subseteq WSClients
    /\ reader \in [WSClients -> ReaderSteps]
    /\ writer \in [WSClients -> WriterSteps]
    /\ send \in [WSClients -> 0..SendCap]
    /\ closedSend \subseteq WSClients /\ slow \subseteq WSClients
    /\ panicked \in {"no", "pong", "close"}

HubInit ==
    /\ hub = "select" /\ queue = 0
    /\ members = {}
    /\ reader = [c \in WSClients |-> "none"]
    /\ writer = [c \in WSClients |-> "none"]
    /\ send = [c \in WSClients |-> 0]
    /\ closedSend = {} /\ slow = {}
    /\ panicked = "no"

ReaderTo(c, step) == reader' = [reader EXCEPT ![c] = step]
WriterTo(c, step) == writer' = [writer EXCEPT ![c] = step]

-----------------------------------------------------------------------------
(* Handler.ServeHTTP and readPump *)

\* The upgrade needs a writer that is an http.Hijacker.
WSConnect(c, hijacker) ==
    /\ reader[c] = "none"
    /\ ReaderTo(c, IF hijacker THEN "register" ELSE "refused")
    /\ UNCHANGED <<hub, queue, members, writer, send, closedSend, slow, panicked>>

WSRegister(c) ==
    /\ hub = "select" /\ reader[c] = "register"
    /\ members' = members \cup {c}
    /\ ReaderTo(c, "read") /\ WriterTo(c, "write")
    /\ UNCHANGED <<hub, queue, send, closedSend, slow, panicked>>

WSPing(c) ==
    /\ reader[c] = "read"
    /\ ReaderTo(c, "pong")
    /\ UNCHANGED <<hub, queue, members, writer, send, closedSend, slow, panicked>>

\* The pong is a blocking send; on a closed channel it panics, and so does a
\* send that is waiting when the channel is closed.
WSPong(c) ==
    /\ reader[c] = "pong"
    /\ \/ /\ c \in closedSend
          /\ panicked' = "pong"
          /\ UNCHANGED <<reader, send>>
       \/ /\ c \notin closedSend /\ send[c] < SendCap
          /\ send' = [send EXCEPT ![c] = @ + 1]
          /\ ReaderTo(c, "read")
          /\ UNCHANGED panicked
    /\ UNCHANGED <<hub, queue, members, writer, closedSend, slow>>

\* The read fails: the peer left, was silent for 60 s, or the write pump
\* closed the connection.
WSReadFails(c) ==
    /\ reader[c] = "read"
    /\ ReaderTo(c, "unregister")
    /\ UNCHANGED <<hub, queue, members, writer, send, closedSend, slow, panicked>>

\* Closes Send without asking whether the hub still knows the client.
MutWSUnregister(c) ==
    /\ hub = "select" /\ reader[c] = "unregister"
    /\ panicked' = IF c \in closedSend THEN "close" ELSE panicked
    /\ closedSend' = closedSend \cup {c}
    /\ members' = members \ {c}
    /\ ReaderTo(c, "done")
    /\ UNCHANGED <<hub, queue, writer, send, slow>>

\* The deferred send: the loop drops a client it still knows.
WSUnregister(c) ==
    /\ hub = "select" /\ reader[c] = "unregister"
    /\ IF c \in members
       THEN /\ panicked' = IF c \in closedSend THEN "close" ELSE panicked
            /\ closedSend' = closedSend \cup {c}
       ELSE UNCHANGED <<panicked, closedSend>>
    /\ members' = members \ {c}
    /\ ReaderTo(c, "done")
    /\ UNCHANGED <<hub, queue, writer, send, slow>>

-----------------------------------------------------------------------------
(* writePump *)

\* One frame takes everything that is waiting.
WSWrite(c) ==
    /\ writer[c] = "write" /\ send[c] > 0
    /\ send' = [send EXCEPT ![c] = 0]
    /\ UNCHANGED <<hub, queue, members, reader, writer, closedSend, slow, panicked>>

\* A write pump that unregisters its client itself.
MutWSWriteFails(c) ==
    /\ hub = "select" /\ writer[c] = "write"
    /\ WriterTo(c, "done")
    /\ members' = members \ {c}
    /\ closedSend' = closedSend \cup (members \cap {c})
    /\ UNCHANGED <<hub, queue, reader, send, slow, panicked>>

\* A write or a ping fails, after none, one or all of the messages were taken;
\* or Send is closed and empty.  Either way the connection is closed.
WSWriteFails(c) ==
    /\ writer[c] = "write"
    /\ \E left \in {send[c], 0} \cup {n \in 0..SendCap : n + 1 = send[c]} :
          send' = [send EXCEPT ![c] = left]
    /\ WriterTo(c, "done")
    /\ UNCHANGED <<hub, queue, members, reader, closedSend, slow, panicked>>

-----------------------------------------------------------------------------
(* Hub.Run and Hub.BroadcastEvent *)

HubPublish ==
    /\ queue < HubCap
    /\ queue' = queue + 1

\* Waits for a slow client instead of dropping it.
MutHubBroadcast ==
    /\ hub = "select" /\ queue > 0
    /\ \A c \in members : send[c] < SendCap
    /\ queue' = queue - 1
    /\ send' = [c \in WSClients |-> IF c \in members THEN send[c] + 1 ELSE send[c]]
    /\ UNCHANGED <<hub, members, reader, writer, closedSend, slow, panicked>>

\* A message goes to every client; one whose Send is full is dropped.
HubBroadcast ==
    /\ hub = "select" /\ queue > 0
    /\ queue' = queue - 1
    /\ LET full == {c \in members : send[c] = SendCap} IN
       /\ send' = [c \in WSClients |->
                     IF c \in members \ full THEN send[c] + 1 ELSE send[c]]
       /\ panicked' = IF members \cap closedSend = {} THEN panicked ELSE "close"
       /\ closedSend' = closedSend \cup full
       /\ members' = members \ full
       /\ slow' = slow \cup full
    /\ UNCHANGED <<hub, reader, writer>>

\* The loop returns and leaves its clients as they are.
HubQuit ==
    /\ hub = "select"
    /\ hub' = "gone"
    /\ UNCHANGED <<queue, members, reader, writer, send, closedSend, slow, panicked>>

\* The hub knows the clients whose reader is between register and unregister; a
\* closed Send belongs to one that left, or is about to, or was slow.
HubInv ==
    /\ members \cap closedSend = {}
    /\ \A c \in members : reader[c] \in {"read", "pong", "unregister"}
    /\ \A c \in closedSend :
          \/ reader[c] \in {"unregister", "done"}
          \/ reader[c] \in {"read", "pong"} /\ c \in slow
    /\ panicked # "close"
    /\ panicked = "pong" => slow # {}
=============================================================================
