\* D driven while the BMC sets C, the other half of its register.
CONSTANTS
  ChannelLists <- BoardLists
  Pct = {30}
  BmcChan = {2}
  BmcHalf = {13056, 25600}
  Fragile = {}
  MaxOverrides = 1
SPECIFICATION Spec
PROPERTY SiblingKept
CHECK_DEADLOCK FALSE
