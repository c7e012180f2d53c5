\* Three warps, each free to call sync() up to three times and leave early.
SPECIFICATION Spec
CONSTANTS
  Warps = {w1, w2, w3}
  MaxSyncs = 3
INVARIANTS
  TypeOK
  CountersExact
  NoLostWakeup
  Lockstep
PROPERTIES
  PhaseSpec
  AllFinish
