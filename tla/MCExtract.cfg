\* The commands of lha, with filters, into a directory that may have files in it.
CONSTANTS
  Names = {"dirA", "dirB", "fileX", "badX", "flatY", "linkY", "dangerA"}
  OldKinds = {"none", "file"}
  Entries <- MCEntries
  MaxEntries = 3
  Paths <- MCPaths
  Faults = TRUE
  ExtractTwice = FALSE
  PolicyAnyTime = FALSE
  Commands <- MCCommands
SPECIFICATION MCFairSpec
INVARIANTS FilesConfirmed ParentsThere DirsFinished Verdict
PROPERTIES CommandEnds
