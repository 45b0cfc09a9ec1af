SPECIFICATION Spec
CONSTANTS
  Threads = {t1, t2, t3, t4}
  Initial = 1
  MaxCount = 3
INVARIANTS TypeOK NoLostWakeup
PROPERTY Promise
