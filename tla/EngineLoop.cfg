CONSTANTS
    Conn = {c1, c2}
    Fd = {f1, f2}
    NoFd = NoFd
SYMMETRY Renamings
SPECIFICATION Safety
INVARIANTS
    TypeOK
    ReadSetKept
    InUseAlive
    NoLostWakeup
    MappedWatched
CHECK_DEADLOCK FALSE
