\* A source without a skip function that ends in the middle of a skip.
CONSTANTS
  MAX_SFX_HEADER_LEN = 3
  LEADIN_BUFFER_LEN = 4
  MATCH_LEN = 2
  SKIP_BUFFER_LEN = 2
  MaxLen = 5
  MaxSeek = 7
  Sizes = {1, 3}
  Types = {"custom"}
SPECIFICATION FairSpec
PROPERTY SkipsReturn
\* After lha_input_stream_free there is nothing more to call.
CHECK_DEADLOCK FALSE
