SPECIFICATION FairPreferencesSpec
CONSTANTS
  OutagesEnd = TRUE
  MaxDisturbances = 2
  Choices <- TwoChoices
  Unset = Unset
INVARIANTS
  OneInFlight
  AppliedIsInEffect
PROPERTIES
  JobsKeepRunning
  SavedArrives
