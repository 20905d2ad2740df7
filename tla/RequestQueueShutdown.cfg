CONSTANTS
    w1 = w1
    w2 = w2
    c1 = c1
    c2 = c2
    c3 = c3
    None = None
    Destroyed = Destroyed
    Torn = Torn
    Main = Main
    Workers <- MCWorkers
    Clients <- MCClients3
    Fds <- MCFds
    Capacity = 1
    MallocFails = FALSE
    SendFails = FALSE
SPECIFICATION Spec
CHECK_DEADLOCK FALSE
PROPERTY EverySignalEndsServer
