CONSTANTS
    Data = 3
    Expirable = {3}
    Modulus = 16
    First = 15
    Limit = 2
    Urgent = 2
    Tolerance = 2
    EarlyLimit = 1
    Room = 2
    AckRoom = 1
    NetBound = 2
    BackBound = 1
    Orders = {FALSE, TRUE}
SPECIFICATION Safety
INVARIANTS
    TypeOK
    OnceAndInOrder
    ConfirmedHasArrived
    ReceivedIsKept
CHECK_DEADLOCK FALSE
