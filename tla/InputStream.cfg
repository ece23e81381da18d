\* Every source of up to six bytes and every way of cutting it into reads, with a
\* callback that may fail at any call and with one that never does.
CONSTANTS
  MAX_SFX_HEADER_LEN = 3
  LEADIN_BUFFER_LEN = 4
  MATCH_LEN = 2
  SKIP_BUFFER_LEN = 2
  MaxLen = 6
  MaxSeek = 7
  Sizes = {1, 3}
  Types = {"seekable", "pipe", "custom"}
SPECIFICATION FairSpec
INVARIANTS FindsFirstHeader DeliversInOrder
PROPERTY ReadsReturn
\* After lha_input_stream_free there is nothing more to call.
CHECK_DEADLOCK FALSE
