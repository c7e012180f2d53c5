\* Four lanes; a barrier after an if without else, after an if/else in the taken
\* path of an if/else, and after an if/else whose fall-through path returns or
\* has a loop.
SPECIFICATION HSpec
CONSTANTS
  Lanes = {l1, l2, l3, l4}
  EOC = 99
  Kernels <- JoinsKernels
  Code <- JoinsCode
INVARIANTS
  FullMaskRestored
