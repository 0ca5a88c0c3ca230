CONSTANTS
  W = 16384
  KernelEnd = 15241
  HeapEnd = 15360
  Requests = {1, 16, 17, 40}
  Aligns = {1, 16}
  E = 16
  Window = 12
  InfoFrame = 20
  Infos <- SomeInfos
  MaxShown = 4
SPECIFICATION BootSpec
INVARIANTS LiveDisjoint HeadersSafe NoEarlyFailure KernelMapped PhysRight TagsShown
