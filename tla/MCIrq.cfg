CONSTANTS
  pit = pit
  kbd = kbd
  net1 = net1
  net2 = net2
  sys = sys
  Handler = {pit, kbd, net1, net2, sys}
  Null = Null
  LineOf <- MCLineOf
  Level = {8}
  Pulses = {pit}
  MaxRaises = 2
  MaxCalls = 4
SPECIFICATION FairSpec
INVARIANTS ListsSound WalkSafe MaskMatches EoiBalanced LostOnlyEarly
PROPERTIES OthersStay Served
CHECK_DEADLOCK FALSE
