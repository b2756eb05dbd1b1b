SPECIFICATION FairSpec
CONSTANTS
  Images <- MCImages
  Boots <- MCBoots
  Serves <- MCServes
  Sound <- MCSound
  Partial = Partial
  NeedOk = 2
  MaxProbes = 4
  RestartProbes = 1
  StartLimit = 2
  MaxInstalls = 1
  MaxLosses = 0
  MaxFailures = 0
  MaxReboots = 1
  WebPassword = TRUE
  MaxEarly = 0
  TornCopy = FALSE
PROPERTY TrialDecided
CHECK_DEADLOCK FALSE
