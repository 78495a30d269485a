CONSTANTS
    Attempt = {a1, a2}
    Blank = {b1, b2, b3, b4, b5}
    Quest = {q1}
    Waiter = {w1}
SPECIFICATION Safety
INVARIANTS
    TypeOK
    EventsTold
    StatusFits
    CacheHasOwner
CHECK_DEADLOCK FALSE
