CONSTANTS
  BufferSize = 8
  CharBits = 4
  ShortBits = 6
  WordBits = 8
  MaxPrec = 3
  DefaultPrec = 2
  MemSize = 12
  Calls <- LibCalls
  Bits = 5
  pow2 <- Powers
  Operands <- AllOperands
  Half = 8
  Unit = 2
  Useconds = {0, 1, 4, 7}
SPECIFICATION Spec
INVARIANTS Formatted CutOff DivisionRight NotEarly
PROPERTY SleepEnds
