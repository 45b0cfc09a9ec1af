SPECIFICATION SafeSpec
CONSTANTS
  Tids = {T1, T2}
  MaxOs = 2
  StartTwice = FALSE
  None = None
INVARIANTS TypeOK MainPassExclusive StartOnce
PROPERTIES NoInterruptLost MainJoinIsTrue InterruptIsDelivered
