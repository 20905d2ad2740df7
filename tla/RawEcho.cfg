CONSTANTS
    Hosts = {h1, h2, h3}
    NoIp = NoIp
    MaxClients = 2
    BufCap = 1
    MaxSends = 3
    Lines = {"msg", "quit"}
    Signals = TRUE
    Floods = TRUE
SYMMETRY Symmetry
SPECIFICATION Spec
CHECK_DEADLOCK FALSE
INVARIANTS
    OneEntry
    RepliesInOrder
    EntriesReturned
