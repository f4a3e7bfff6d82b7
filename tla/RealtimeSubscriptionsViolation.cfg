SPECIFICATION MCSpec
CONSTANTS
    SSEClients = {s1}
    WSClients = {w1}
    GraphQLClients = {g1}
    BroadcastCap = 1
    EventsCap = 1
    HubCap = 1
    SendCap = 1
    BusCap = 1
    InboxCap = 1
    Routed = FALSE
INVARIANT
    SubscriptionsEndFirst
CHECK_DEADLOCK FALSE
