\* The board's D, E and F, or F alone, driven while the BMC sets D, whose sibling is free, and G.
CONSTANTS
  ChannelLists <- BoardLists
  Pct = {63, 140}
  BmcChan = {3, 6}
  BmcHalf = {13063}
  Fragile = {4}
  MaxOverrides = 1
SPECIFICATION Spec
INVARIANTS NoInventedDuty QuietPassHolds
PROPERTIES NoFalseOverride ImplementsChannels
CHECK_DEADLOCK FALSE
