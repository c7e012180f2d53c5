\* The operands with which an instruction does not do what the PTX ISA says.
SPECIFICATION Spec
CONSTANTS
  N = 4
  WarpSize = 4
  Instrs <- UnlikeInstrs
  Starts <- UnlikeStarts
PROPERTIES
  MeaningSpec
