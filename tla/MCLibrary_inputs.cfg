SPECIFICATION Spec
CONSTANTS
  Jobs <- AllJobs
  MaxDepth = 2
  Base = 5
  Subjects <- AllSubjects
PROPERTIES
  JsonRoundTrips
  JsonRefusedAtFirstWrongSymbol
  RegexFindsTheLanguage
  CalendarAndZones
  ModulesRoundTrip
  OverloadsAgree
  CallsReachTheCheckedMethod
  ConstructionCompletes
  ClosuresShareVariables
CHECK_DEADLOCK FALSE
