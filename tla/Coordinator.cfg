SPECIFICATION FairSpec
CONSTANTS
  Errors <- MCErrors
  NoError = NoError
  MaxRestarts = 1
  MaxDeaths = 1
  MaxBusErrors = 1
INVARIANTS TypeOK ReadyIsArmed OnlyWholeBundles OneInstallation
PROPERTIES GuardReleased MarkerSettles
CHECK_DEADLOCK FALSE
