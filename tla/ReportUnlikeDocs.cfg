SPECIFICATION Spec
CONSTANTS
  h1 = h1
  h2 = h2
  Hosts = {h1, h2}
  Binaries = {"a", "b", "c", "e", "x", "m", "n", "s", "t", "u"}
  Printed <- Texts
  Paths <- WarpPaths
  MaxLaunches <- Launches
  ExitCodes = {0, 1}
  MaxRecords = 3
  Args <- CommandLinesOfDocs
  PtxFiles <- PtxOnly
  Disk <- Sources
  BaseName <- Names
  MaxSections = 2
  null <- NoSid
INVARIANT AsDocumented
CHECK_DEADLOCK FALSE
