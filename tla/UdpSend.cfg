SPECIFICATION Spec
CONSTANTS
  Package = {key, p1, p2}
  Key = key
  Message = {m1, m2}
  Discardable = {m1}
  Limit = 2
  None = None
  Sync = Sync
  Heartbeat = Heartbeat
INVARIANTS TypeOK PackagesOwned
PROPERTIES CloseCompletes
CHECK_DEADLOCK FALSE
