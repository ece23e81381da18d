\* Directories, links and their metadata: complete archives of three entries.
CONSTANTS
  Names = {"dirA", "lockedA", "dirB", "fileX", "fileY", "linkA", "dangerX", "dangerA", "dangerY"}
  MayTruncate = FALSE
  Entries <- MCEntries
  MaxEntries = 3
  Paths <- MCPaths
  Faults = FALSE
  ExtractTwice = FALSE
  PolicyAnyTime = FALSE
SPECIFICATION MCFairSpec
INVARIANTS WellFormed DangerousLinksLast LinkNotThroughLink MetadataLast PlaceholdersPending
PROPERTY Iterates
\* After lha_reader_free there is nothing more to call.
CHECK_DEADLOCK FALSE
