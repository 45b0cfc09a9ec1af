SPECIFICATION Spec
CONSTANTS
  Ancestors <- Tree
  Methods <- Control
  MaxCalls = 4
  MaxReplays = 4
INVARIANTS
  TypeOK
  FollowsSource
  OperandsBalanced
  UnsetNeverRead
  CheckedExceptionsAreDeclared
  Verifies
PROPERTY FrameEnds
