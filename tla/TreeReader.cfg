\* Three codes of up to three bits in an array of six elements; a buffer of
\* two bytes of two bits, and up to three bytes to go through it.
CONSTANTS
  TreeLen = 6
  TREE_NODE_LEAF = 6
  NumCodes = 3
  MaxCodeLen = 3
  ByteBits = 2
  BufferBits = 4
  MaxBytes = 3
SPECIFICATION FairReaderSpec
INVARIANTS TreeSound DecodesCanonicalCode BitsInOrder
PROPERTY Terminates
