CONSTANTS
  Arches <- Targets
  MaxAttempts = 3
  MaxLost = 2
  MaxHasty = 1
SPECIFICATION SmokeSpec
INVARIANTS
  TypedIntoItsApplication
  OutcomeExplained
PROPERTIES
  DriverReturns
CHECK_DEADLOCK FALSE
