SPECIFICATION ExercisesSpec
CONSTANTS
    Clients = {c1, c2}
    Nobody = Nobody
    Threads = {t1, t2, t3}
    Increments = 2
    NoThread = NoThread
    Rooms = {1, 2}
    Need = 5
    Goods = {1, 2}
    MaxStock = 4
    Users = {u1, u2}
    NoUser = NoUser
    Size = 2
    Chars = {a, b}
    Nul = Nul
    Behind = Behind
    MaxCalls = 2
INVARIANTS
    HeardRight
    Counted
    BooksBalance
    WholeReads
PROPERTIES
    Answered
    BothFinish
CHECK_DEADLOCK FALSE
