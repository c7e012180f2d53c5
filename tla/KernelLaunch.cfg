\* Two blocks of three warps, a thread for each; up to two barriers a warp.
SPECIFICATION Spec
CONSTANTS
  NWarps = 3
  NBlocks = 2
  Team = 3
  MaxSyncs = 2
INVARIANTS
  FlushedInOrder
  Outcome
PROPERTIES
  PassTogether
  LaunchEnds
