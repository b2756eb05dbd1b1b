SPECIFICATION FairSpec
CONSTANTS
  Good = Good
  Bad = Bad
  Wrong = Wrong
  Pages <- MCPages
  Clicks = {C1}
  Initial = Initial
  Template = Template
  Empty = Empty
  Missing = Missing
  None = None
  Start <- MCStart
  Checked <- MCChecked
  Sound <- MCSound
  Writable = TRUE
  MaxFaults = 1
INVARIANTS ApplyTypeOK OnlyChecked WayBack RunsActive
PROPERTIES NoSaveLost Answered ComesBack
CHECK_DEADLOCK FALSE
