SPECIFICATION Spec
CONSTANTS
  MaxObjects = 2
  Width = 1
  Locals = 1
  CallBound = 2
  Threshold = 2
  Programs <- SeveringPrograms
INVARIANT NoGarbageForgotten
