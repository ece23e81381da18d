\* Four codes of -lh1-, and a limit that is reached again and again; eight
\* characters of -pm1-, one for each thirty-two of the code.
CONSTANTS
  NUM_CODES = 4
  TREE_REORDER_LIMIT = 9
  Group = 1
SPECIFICATION AdaptiveSpec
INVARIANTS OneTree HuffmanTree GroupsExact
PROPERTY MovesToFront
\* The input ends.
CHECK_DEADLOCK FALSE
