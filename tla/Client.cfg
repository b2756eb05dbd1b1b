SPECIFICATION FairSpec
CONSTANTS
  Slots <- MCSlots
  None = None
  Partial = Partial
  Images <- MCImages
  Mine <- MCMine
  Old = "old"
  Other = "other"
  Sound <- MCSound
  Describe <- MCDescribe
  MaxMishaps = 3
INVARIANTS SuccessIsMine
PROPERTIES RebootsWhole FailureIsReal Decided Succeeds
CHECK_DEADLOCK FALSE
