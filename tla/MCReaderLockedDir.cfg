\* A dangerous link in a directory that becomes read-only.
CONSTANTS
  Names = {"lockedA", "dangerX"}
  MayTruncate = FALSE
  Entries <- MCEntries
  MaxEntries = 2
  Paths <- MCPaths
  Faults = FALSE
  ExtractTwice = FALSE
  PolicyAnyTime = FALSE
SPECIFICATION MCSpec
INVARIANT AllLinksMade
CHECK_DEADLOCK FALSE
