-------------------------------- MODULE Lzs --------------------------------
(***************************************************************************)
(* lib/lzs_decoder.c: the decoder of -lzs-, from LArc.  A call reads one   *)
(* command, a literal byte or a copy from a place in the ring.             *)
(***************************************************************************)
EXTENDS RingDecoder

CONSTANTS
  LZS_START_OFFSET,  \* 17
  LZS_THRESHOLD      \* 2

LZS_BUFFER_SIZE == 2^LENGTH_BITS - 1 + LZS_THRESHOLD

lha_lzs_init == InitRing(Spaces, Ring - LZS_START_OFFSET) /\ pc = "idle"

-----------------------------------------------------------------------------
lha_lzs_read ==
  /\ pc = "idle" /\ Produced <= MaxOutput[method]
  /\ Call
  /\ pc' = "command"

LzsFail == pc = "command" /\ pc' = "end" /\ UNCHANGED <<ringVars, copyVars>>

lzs_output_byte == pc = "command" /\ (\E b \in Byte : PutLiteral(b)) /\ pc' = "idle"

lzs_output_block ==
  /\ pc = "command"
  /\ \E pos \in 0 .. Ring - 1, len \in 0 .. 2^LENGTH_BITS - 1 :
       BeginCopy(pos, len + LZS_THRESHOLD, ringbuf_pos - pos - 1)
  /\ pc' = "copying"

LzsCopyByte == pc = "copying" /\ CopyTurn /\ UNCHANGED pc

LzsCopyDone == pc = "copying" /\ CopyEnd /\ pc' = "idle"

LzsInit == lha_lzs_init /\ NoCopy /\ buf_len = 0

LzsNext ==
  /\ lha_lzs_read \/ LzsFail \/ lzs_output_byte \/ lzs_output_block \/ LzsCopyByte \/ LzsCopyDone
  /\ UNCHANGED method
=============================================================================
