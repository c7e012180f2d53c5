\* Words of 4 bits for 32; four lanes; every integer instruction.
SPECIFICATION Spec
CONSTANTS
  N = 4
  WarpSize = 4
  Instrs <- AllInstrs
  Starts <- AllStarts
INVARIANTS
  Simultaneous
PROPERTIES
  MeaningSpec
