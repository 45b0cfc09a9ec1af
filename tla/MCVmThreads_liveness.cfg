SPECIFICATION WorkersSpec
CONSTANTS
  Tids = {T1, T2}
  MaxOs = 2
  StartTwice = FALSE
  None = None
PROPERTIES WaitEnds JoinSeesFinish
