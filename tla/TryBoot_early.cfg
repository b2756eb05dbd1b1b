SPECIFICATION Spec
CONSTANTS
  Images <- MCImages
  Boots <- MCBoots
  Serves <- MCServes
  Sound <- MCSound
  Partial = Partial
  NeedOk = 2
  MaxProbes = 4
  RestartProbes = 1
  StartLimit = 2
  MaxInstalls = 2
  MaxLosses = 0
  MaxFailures = 0
  MaxReboots = 1
  WebPassword = FALSE
  MaxEarly = 1
  TornCopy = FALSE
INVARIANT CommittedGood
CHECK_DEADLOCK FALSE
