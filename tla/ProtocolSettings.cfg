SPECIFICATION Spec
CONSTANTS
  Fields = {host, mode}
  Values = {v0, v1}
  Default = v0
  MaxActs = 5
  Areas <- MCAreas
  Positions <- MCPositions
  Sizes <- MCSizes
  MinSize = 4
  DefaultSize = 6
  Parent <- MCParent
  MaxMoves = 3
INVARIANTS
  MirrorIsFaithful
PROPERTIES
  WindowIsFilled
  OpensWhereItWasLeft
CHECK_DEADLOCK FALSE
