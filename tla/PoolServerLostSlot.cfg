CONSTANTS
    MaxThreads = 2
    Clients = {c1, c2, c3}
    CreateFails = FALSE
    SendFails = FALSE
    None = None
SPECIFICATION SafeSpec
CHECK_DEADLOCK FALSE
INVARIANT TakenSlotHasThread
