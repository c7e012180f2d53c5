SPECIFICATION Spec
CONSTANTS
  h1 = h1
  h2 = h2
  Hosts = {h1, h2}
  Binaries = {"a", "b", "c", "e", "x", "m", "n", "s", "t", "u"}
  Printed <- Texts
  Paths <- WarpPaths
  MaxLaunches <- Launches
  ExitCodes = {0}
  MaxRecords = 3
  Args <- CommandLines
  PtxFiles <- PtxOnly
  Disk <- Sources
  BaseName <- Names
  MaxSections = 2
  null <- NoSid
INVARIANTS RecordsReadBack Attribution RowsRight Annotated PageRight Outcome Correspondence
PROPERTY GridsAppear
CHECK_DEADLOCK FALSE
