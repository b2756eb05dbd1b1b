SPECIFICATION OtaFairSpec
CONSTANTS
  Images <- MCWithCrash
  Boots <- MCWithCrash
  Serves <- MCSound
  Sound <- MCSound
  Rank <- MCBetween
  Partial = Partial
  NeedOk = 1
  MaxProbes = 1
  RestartProbes = 0
  StartLimit = 1
  MaxInstalls = 1
  MaxLosses = 1
  MaxFailures = 1
  MaxReboots = 1
  WebPassword = FALSE
  MaxEarly = 0
  TornCopy = TRUE
PROPERTIES  UpdateTaken
CHECK_DEADLOCK FALSE
