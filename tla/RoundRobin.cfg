\* Three warps, each free to execute up to three bars and to end early.
SPECIFICATION Spec
CONSTANTS
  NWarps = 3
  MaxSyncs = 3
INVARIANTS
  TypeOK
  Sweep
  ReturnsComplete
PROPERTIES
  PhaseSafety
  BlockEnds
