SPECIFICATION Spec
CONSTANTS
  MaxConnections = 2
  MaxStatements = 1
  MaxResultSets = 2
  MaxRows = 2
  Placeholders = {p1, p2}
  None = None
  Other = Other
INVARIANTS
  TypeOK
  ChildrenCloseWithParent
  OnlyTheLastRow
  NoOrphanLock
  FlagTellsTheDriver
PROPERTY
  ClosedForGood
