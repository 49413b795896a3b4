SPECIFICATION Spec
CONSTANTS
  Builders = {win, mac, other}
  NoOwner = NoOwner
  MaxFaults = 2
  Planned = {mac, win}
  MacBuilders = {mac}
INVARIANT
  SignedByOneHolder
PROPERTY
  EveryBuildEnds
CHECK_DEADLOCK FALSE
