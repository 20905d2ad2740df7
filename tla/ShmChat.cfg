CONSTANTS
    c1 = c1
    c2 = c2
    c3 = c3
    Torn = Torn
    Clients <- MCClients
    Stayers <- MCStayers
    ServiceMax = 2
    UsersMax = 2
    HistorySize = 5
    MaxSays = 1
SPECIFICATION Spec
CHECK_DEADLOCK FALSE
INVARIANTS
    ReadsPublished
    CaughtUpSeesAll
    ListsAligned
    UsersAgree
PROPERTIES
    EveryoneReads
    ExitStops
