----------------------------- MODULE MCRealtime -----------------------------
(* The instances of Realtime for TLC.  No symmetry, because liveness is      *)
(* checked.  To keep the state space small, Kafka is there or not as a       *)
(* whole, and no behaviour has both a WebSocket client and a subscription:   *)
(* GraphQL never makes the consumer wait.                                    *)
EXTENDS Realtime, TLC

MCInit == Init /\ kafka \in {{}, {"publisher", "subscriber"}}

OneProtocol ==
    \/ \A c \in WSClients : reader[c] = "none"
    \/ \A g \in GraphQLClients : subscription[g] = "none"

MCSpec == MCInit /\ [][Next /\ OneProtocol']_vars /\ Fairness
=============================================================================
