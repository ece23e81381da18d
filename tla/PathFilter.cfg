\* All paths of up to eight characters; two filters of three characters
\* together on the short ones.
CONSTANTS
  Chars = {"/", ".", "a"}
  MaxLength = 8
  MaxGlob = 3
  MaxFilters = 2
  MaxMatched = 4
SPECIFICATION FilterSpec
INVARIANTS Clean MatchesFits
\* A match is decided.
CHECK_DEADLOCK FALSE
