SPECIFICATION FairSpec
CONSTANTS
  R1 = R1
  R2 = R2
  Requests <- MCRequests
  Kinds <- MCKinds
  None = None
  Boot = Boot
  Air <- MCAir
  Waits = 1
  MaxFaults = 1
  MaxCables = 1
INVARIANTS StrongestShown
PROPERTIES Connects ApOpens RadioSettles
CHECK_DEADLOCK FALSE
