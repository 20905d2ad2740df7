CONSTANTS
    MaxThreads = 2
    Clients = {c1, c2, c3, c4}
    CreateFails = TRUE
    SendFails = TRUE
    None = None
SPECIFICATION Spec
CHECK_DEADLOCK FALSE
INVARIANTS
    SlotKept
PROPERTY ClientsServed
