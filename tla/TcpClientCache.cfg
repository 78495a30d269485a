CONSTANTS
    Attempt = {a1, a2, a3}
    Blank = {b1, b2, b3, b4, b5, b6}
    Quest = {q1}
    Waiter = {}
SPECIFICATION Safety
INVARIANTS
    AcceptedIsCompleted
SYMMETRY Symmetry
CHECK_DEADLOCK FALSE
