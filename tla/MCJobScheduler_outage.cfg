SPECIFICATION FairSpec
CONSTANTS
  OutagesEnd = FALSE
  MaxDisturbances = 3
PROPERTIES
  RoutineJobsRun
