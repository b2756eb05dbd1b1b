SPECIFICATION FairSpec
CONSTANTS
  Images <- MCImages
  Boots <- MCBoots
  Serves <- MCServes
  Sound <- MCSound
  Partial = Partial
  NeedOk = 2
  MaxProbes = 3
  RestartProbes = 1
  StartLimit = 2
  MaxInstalls = 2
  MaxLosses = 2
  MaxFailures = 1
  MaxReboots = 2
  WebPassword = FALSE
  MaxEarly = 0
  TornCopy = FALSE
INVARIANTS LastKnownGood
PROPERTIES TrialConfigUsable FallsBack NoTrialForgotten PromoteOnlyHealthy TrialDecided ImplementsSlotTrial
CHECK_DEADLOCK FALSE
