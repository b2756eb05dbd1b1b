SPECIFICATION Spec
CONSTANTS
  R1 = R1
  R2 = R2
  Requests <- MCRequests
  Kinds <- MCKinds
  Boot = Boot
  Ap = Ap
  Units = Units
  None = None
  Initial = Initial
  Wrong = Wrong
  Legacy = Legacy
  ImageDefault = ImageDefault
  Imported = Imported
  Session = Session
  Attempts <- MCAttempts
  Disabled = FALSE
  MaxFaults = 1
INVARIANTS  TokensCurrent LockFits 
PROPERTIES OneSection ChannelKept
CHECK_DEADLOCK FALSE
