\* Plain decoders and MacBinary ones, on streams of up to eight bytes.
CONSTANTS
  MAX_READ = 3
  OUTPUT_BUFFER_SIZE = 3
  BLOCK_SIZE = 1
  MAX_BLOCKS = 3
  MAX_PROGRESS_LEN = 2
  WIDTH = 4
  MaxLength = 8
  Lengths <- MCLengths
  Sizes = {0, 1, 2, 5}
  MBHDR_SIZE = 2
  MAC_TIME_OFFSET = 2
  MAX_ZONE = 1
  Timestamps = {0, 1}
  MbHeaders <- MCMbHeaders
SPECIFICATION MacSpec
INVARIANTS DeliversContents DecodedToEnd ProgressInOrder
PROPERTY DeliversAll
\* Without a MacBinaryDecoder there is nothing to read from, and an
\* lha_decoder_monitor that never returns is followed by nothing.
CHECK_DEADLOCK FALSE
