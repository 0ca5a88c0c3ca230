CONSTANTS
  k1 = k1
  k2 = k2
  k3 = k3
  k4 = k4
  Cards = {k1, k2, k3, k4}
  NET_NUM_DEVS = 2
  ChipOf <- MCChipOf
  Machines <- MCMachines
  CardAt <- MCCardAt
  Devices = 32
  Functions = 8
  TableSize = 20
SPECIFICATION FairSpec
INVARIANT StartsInitialised
CHECK_DEADLOCK FALSE
