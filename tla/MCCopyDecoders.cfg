CONSTANTS
  RING_BUFFER_SIZE <- MCRings
  LITERALS = 2
  Space = 0
  COPY_THRESHOLD = 3
  NUM_CODES <- MCNumCodes
  CODE_BITS <- MCCodeBits
  TEMP_CODE_BITS = 3
  OFFSET_BITS <- MCOffsetBits
  LHARK_STEP = 1
  LHARK_LAST = 3
  LHARK_LONGEST = 6
  LHARK_OFFSETS = 6
  MaxBlock = 2
  MaxBlocks = 2
  MaxOutput <- MCMaxOutput
  LH1_NUM_CODES = 4
  MIN_OFFSET_LENGTH = 1
  LOOKUP_BITS = 2
  LOW_BITS = 1
  offset_fdist <- MCOffsetFdist
  COMMANDS = 2
  LZ5_START_OFFSET = 1
  LZ5_THRESHOLD = 3
  LENGTH_BITS = 1
  RUN = 1
  ZEROS = 1
  SPACES = 1
  LZS_START_OFFSET = 1
  LZS_THRESHOLD = 2
  PM1_SHIFT = 6
  TreesTried = {1}
  LengthsTried = {1, 2, 3, 11, 215, 216, 244}
  DistancesTried = {0, 1, 2, 3, 4, 8, 9, 40, 41, 168}
  BytesTried <- MCBytesTried
  PM2_BUFFER_SIZE = 5
  CODES_BITS = 3
  FIRST_COPY = 1
  SHORT_COPIES = 1
  copy_decode <- MCCopyDecode
  NEAR_CODES = 2
  OFFSET_FREE = 4
  NEED_OFFSETS = 3
  MIN_BITS = 0
  FIRST_OFFSETS = 1
  KIB = 1
SPECIFICATION DecodersSpec
INVARIANTS BuffersFit CopyRepeats RebuildsOnSchedule CodesReach
\* The input ends.
CHECK_DEADLOCK FALSE
