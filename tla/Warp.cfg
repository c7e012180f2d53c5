\* Four lanes; if/else as the comment on bra describes it with barriers, ifs
\* without else and loops, whose paths are never joined, and kernels that end
\* with exit or run off their end.
SPECIFICATION Spec
CONSTANTS
  Lanes = {l1, l2, l3, l4}
  EOC = 99
  Kernels <- StructuredKernels
  Code <- StructuredCode
INVARIANTS
  TypeOK
  MaskDiscipline
  SomeoneWaits
  StackBounded
  FetchSucceeds
  BarTogether
PROPERTIES
  LanesFollowProgram
  Ends
