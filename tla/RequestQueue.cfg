CONSTANTS
    w1 = w1
    w2 = w2
    c1 = c1
    c2 = c2
    c3 = c3
    None = None
    Destroyed = Destroyed
    Torn = Torn
    Main = Main
    Workers <- MCWorkers
    Clients <- MCClients3
    Fds <- MCFds
    Capacity = 2
    MallocFails = TRUE
    SendFails = FALSE
SPECIFICATION Spec
CHECK_DEADLOCK FALSE
INVARIANTS
    TypeOK
    SemAccounting
    OneOwner
PROPERTIES
    ServesInOrder
    QueuedIsServed
    SignalEndsServer
