\* Decoding, checking and skipping data, damaged and cut-off archives, file
\* system calls that fail, a client that changes the directory policy at any time.
CONSTANTS
  Names = {"dirA", "dirB", "fileX", "macY", "shortY", "unknownY", "dangerX"}
  MayTruncate = TRUE
  Entries <- MCEntries
  MaxEntries = 3
  Paths <- MCPaths
  Faults = TRUE
  ExtractTwice = FALSE
  PolicyAnyTime = TRUE
SPECIFICATION MCFairSpec
INVARIANTS Aligned DecodersExact EveryDirGetsMetadata
PROPERTY ReachesEnd
\* After lha_reader_free there is nothing more to call.
CHECK_DEADLOCK FALSE
