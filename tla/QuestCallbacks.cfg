CONSTANTS
    Quest = {q1}
    SyncQuest = {q1}
    Conn = {t1, u1}
    UdpConn = {u1}
SPECIFICATION Spec
INVARIANTS
    TypeOK
    SingleOwner
    NoLostQuest
    SignedAlive
PROPERTIES
    ImplementsContract
    ReferencesReturned
CHECK_DEADLOCK FALSE
