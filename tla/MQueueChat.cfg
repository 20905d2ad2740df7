CONSTANTS
    c1 = c1
    c2 = c2
    c3 = c3
    Clients <- MCClients3
    Name <- MCName3
    ServiceMax = 2
    UserMax = 2
    UsersMax = 2
    HistorySize = 5
    ChatMax = 5
    MaxSays = 1
SPECIFICATION Spec
CHECK_DEADLOCK FALSE
INVARIANTS
    SameTranscript
    UserListsAgree
PROPERTY ExitStopsUnlessStuck
