SPECIFICATION Spec
CONSTANTS
  Jobs <- ArityJobs
  MaxDepth = 2
  Base = 5
  Subjects <- AllSubjects
PROPERTY CallsTakeTheirArguments
CHECK_DEADLOCK FALSE
