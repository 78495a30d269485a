SPECIFICATION ClientSpec
CONSTANTS
  Caller = {t1, t2}
  Fd = {f1, f2}
  MaxInfo = 3
INVARIANTS ClientTypeOK StatusFits
PROPERTIES AlwaysWoken NoOrphan
CHECK_DEADLOCK FALSE
