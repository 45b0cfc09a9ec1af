SPECIFICATION Spec
CONSTANTS
  Jobs <- BoxJobs
  MaxDepth = 2
  Base = 5
  Subjects <- AllSubjects
PROPERTY BoxingIsSafe
CHECK_DEADLOCK FALSE
