SPECIFICATION Spec
CONSTANTS
  R1 = R1
  R2 = R2
  Requests <- MCRequests
  Kinds <- MCSaves
  Boot = Boot
  Ap = Ap
  Units = Units
  None = None
  Initial = Initial
  Wrong = Wrong
  Legacy = Legacy
  ImageDefault = ImageDefault
  Imported = Imported
  Session = Session
  Attempts <- MCAttempts
  Disabled = FALSE
  MaxFaults = 0
PROPERTIES FileWhole
CHECK_DEADLOCK FALSE
