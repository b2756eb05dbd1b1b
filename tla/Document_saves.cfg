SPECIFICATION Spec
CONSTANTS
  Users = {A, B}
  Missing = Missing
  Odd = Odd
  Parts <- MCParts
  Mac <- MCMac
  Start <- MCStart
  Raw <- MCRaw
  Spots <- MCSpots
  Typed <- MCTyped
  MaxEdits = 2
  MaxSaves = 1
INVARIANTS EditsTake
PROPERTIES OnlyEditsChange UnknownFollows
SYMMETRY UserSymmetry
CHECK_DEADLOCK FALSE
