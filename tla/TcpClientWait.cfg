CONSTANTS
    Attempt = {a1, a2}
    Blank = {b1, b2, b3, b4, b5}
    Quest = {}
    Waiter = {w1}
SPECIFICATION Safety
INVARIANTS
    WaiterHasReason
CHECK_DEADLOCK FALSE
