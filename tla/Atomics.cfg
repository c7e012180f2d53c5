SPECIFICATION Spec
CONSTANTS
  w1 = w1
  w2 = w2
  c1 = c1
  c2 = c2
  Warps = {w1, w2}
  Cells = {c1, c2}
  WarpSize = 2
  Half = 2
  Bits <- BitTables
  Code <- SharedCode
  OneThread = TRUE
  MaxIssues = 1
INVARIANTS TypeOK NotStale
PROPERTY AtomicSpec
