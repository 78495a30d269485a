CONSTANTS
    Msg = {m1, m2, m3}
    Key = Key
    None = None
SPECIFICATION Spec
INVARIANTS
    TypeOK
    KeyFirst
    NothingStuck
PROPERTIES
    ImplementsStream
CHECK_DEADLOCK FALSE
