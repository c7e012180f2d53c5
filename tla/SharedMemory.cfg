\* Three warps; kernels with up to three declarations.
SPECIFICATION Spec
CONSTANTS
  Warps = {w1, w2, w3}
  Kernels <- AllKernels
  DynamicSize = 4
  MaxUses = 1
INVARIANTS
  Layout
  UnlockedReadsAreSafe
  AccessesOwnSymbol
PROPERTIES
  SymbolsStay
