\* Three clients, two of which fit into a registry; more is ongoing than a channel holds; calls, stops.
SPECIFICATION MCSpec
CONSTANTS
    c1 = c1
    c2 = c2
    c3 = c3
    Managers <- MCManagers
    Clients = {c1, c2, c3}
    Cancellable = {}
    Capacity = 2
    Channel = 1
    Telling <- MCTelling
    Ongoing <- MCOngoing
    MaxEvents = 1
    MaxCalls = 1
    MayStop = TRUE
INVARIANTS
    EmittersAreOwned
    UnregistersAreMatched
PROPERTIES
    EmittersKeepTheirNumbers
    ConnectionsComplete
\* The clients connect once, and managers may wait for each other.
CHECK_DEADLOCK FALSE
