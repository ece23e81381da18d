------------------------------ MODULE Decoder ------------------------------
(***************************************************************************)
(* lib/lha_decoder.c: the buffering that turns the blocks a decompression  *)
(* algorithm (an LHADecoderType) produces into reads of any size, cut off  *)
(* at the length the archive gives, and the progress callback.             *)
(*                                                                         *)
(* A byte is known by its place in the decompressed data, counted from 1.  *)
(* One turn of the loop of lha_decoder_read is one step.                   *)
(***************************************************************************)
EXTENDS Integers, Sequences

CONSTANTS
  MAX_READ,      \* LHADecoderType.max_read
  BLOCK_SIZE,    \* LHADecoderType.block_size
  MAX_BLOCKS,    \* the number of blocks above which they grow (128 * 1024)
  WIDTH,         \* bits of an unsigned int
  Lengths,       \* what headers give for the length of a stream
  MaxLength,     \* bound on the bytes an algorithm can make
  Sizes          \* sizes of the reads of the client

ASSUME DecoderAssumption ==
  /\ MAX_READ \in Nat \ {0}
  /\ BLOCK_SIZE \in Nat \ {0}
  /\ MAX_BLOCKS \in Nat \ {0}
  /\ WIDTH \in Nat \ {0} /\ \A k \in 0 .. WIDTH : 2 ^ k \in Nat \ {0}
  /\ Lengths \subseteq Nat /\ MaxLength \in Nat
  /\ Sizes \subseteq Nat

(* The blocks of a stream can be counted (128 * 1024, and 32 bits). *)
ASSUME BlocksAssumption == 2 * MAX_BLOCKS + 1 < 2 ^ WIDTH

(* The block size of every decoder type is a power of two: it can be       *)
(* doubled up to the highest bit of the word.                              *)
ASSUME PowerAssumption ==
  /\ 2 ^ (WIDTH - 1) < 2 ^ WIDTH
  /\ \E k \in 0 .. WIDTH - 1 : BLOCK_SIZE * 2 ^ k = 2 ^ (WIDTH - 1)

VARIABLES
  stream_length, stream_pos,       \* LHADecoder
  outbuf, outbuf_pos,              \* LHADecoder: outbuf_len is Len(outbuf)
  decoder_failed,                  \* LHADecoder
  crc,                             \* LHADecoder: the bytes that it covers
  block_size, total_blocks,        \* LHADecoder; block_size 0: no callback set,
                                   \* or a loop that never ends
  last_block,                      \* LHADecoder
  pc, request, buf_len, filled,    \* the call in progress: lha_decoder_read,
                                   \* or an lha_decoder_monitor for ever "scaling"
  asked, given,                    \* the last one: bytes asked for and given
  codec_length, made,              \* the bytes the algorithm can make, has made
  announced                        \* the blocks given to the callback, in order

bufferVars   == <<outbuf, outbuf_pos, decoder_failed>>
progressVars == <<block_size, total_blocks, last_block, announced>>
readVars     == <<pc, request, buf_len, filled>>
codecVars    == <<codec_length, made>>
vars == <<stream_length, stream_pos, bufferVars, crc, progressVars, readVars,
          asked, given, codecVars>>

UINT_MAX == 2 ^ WIDTH - 1

SmallerOf(a, b) == IF a < b THEN a ELSE b

(* Blocks of bs bytes, the last one perhaps not whole, in an unsigned int. *)
Blocks(n, bs) == ((n + bs - 1) \div bs) % 2 ^ WIDTH

-----------------------------------------------------------------------------
(* check_progress_callback *)

(* Mutant: a read that advances by several blocks announces one of them. *)
Announce_Once(pos, bs) ==
  LET block == Blocks(pos, bs) IN
  /\ last_block' = IF last_block = block THEN last_block
                   ELSE (last_block + 1) % 2 ^ WIDTH
  /\ announced' = IF last_block = block THEN announced
                  ELSE Append(announced, (last_block + 1) % 2 ^ WIDTH)

(* The loop counts last_block up until it is the block of pos, and calls   *)
(* back each time; from UINT_MAX it goes on with 0.                        *)
Announce(pos, bs) ==
  LET block == Blocks(pos, bs)
      turns == (block - last_block) % 2 ^ WIDTH
  IN  /\ last_block' = block
      /\ announced' = announced \o
                        [k \in 1 .. turns |-> (last_block + k) % 2 ^ WIDTH]

check_progress_callback(pos) ==
  IF block_size = 0 THEN UNCHANGED <<last_block, announced>>
  ELSE Announce(pos, block_size)

(* The block size, an unsigned int, when the loop has doubled it k times,  *)
(* and whether the loop stops there: it doubles while there would be too   *)
(* many blocks.                                                            *)
BlockSize(k) == (BLOCK_SIZE * 2 ^ k) % 2 ^ WIDTH
Enough(k) == stream_length \div MAX_BLOCKS <= BlockSize(k)

(* After WIDTH turns every bit is shifted out, and the size stays 0. *)
Scales == \E k \in 0 .. WIDTH - 1 : Enough(k)

ScaledBlockSize ==
  BlockSize(CHOOSE k \in 0 .. WIDTH - 1 : Enough(k) /\ \A j \in 0 .. k - 1 : ~Enough(j))

(* For a stream whose blocks no size in the word makes few enough, the     *)
(* loop doubles 0 for ever and the call never returns: no action leaves    *)
(* "scaling".                                                              *)
lha_decoder_monitor ==
  /\ pc = "idle"
  /\ \/ /\ Scales
        /\ block_size' = ScaledBlockSize
        /\ total_blocks' = Blocks(stream_length, ScaledBlockSize)
        /\ Announce(stream_pos, ScaledBlockSize)
        /\ UNCHANGED pc
     \/ /\ ~Scales
        /\ block_size' = 0
        /\ pc' = "scaling"
        /\ UNCHANGED <<total_blocks, last_block, announced>>
  /\ UNCHANGED <<stream_length, stream_pos, bufferVars, crc, request, buf_len, filled,
                 asked, given, codecVars>>

-----------------------------------------------------------------------------
(* lha_decoder_read *)

(* What is left of the stream is all there is to read. *)
Truncated(n) ==
  IF stream_pos + n > stream_length THEN stream_length - stream_pos ELSE n

Finish(all) ==
  /\ pc' = "idle"
  /\ filled' = <<>>
  /\ crc' = crc \o all
  /\ stream_pos' = stream_pos + Len(all)
  /\ asked' = request
  /\ given' = Len(all)
  /\ check_progress_callback(stream_pos + Len(all))
  /\ UNCHANGED <<request, buf_len>>

Continue(all) ==
  /\ filled' = all
  /\ UNCHANGED <<pc, request, buf_len, crc, stream_pos, asked, given, last_block,
                 announced>>

(* Entry: nothing to read returns at once. *)
lha_decoder_read(n) ==
  /\ pc = "idle"
  /\ request' = n
  /\ buf_len' = Truncated(n)
  /\ pc' = "loop"
  /\ filled' = <<>>
  /\ UNCHANGED <<stream_length, stream_pos, bufferVars, crc, progressVars, asked,
                 given, codecVars>>

(* What the turn copies out of the buffer. *)
Copied ==
  LET bytes == SmallerOf(Len(outbuf) - outbuf_pos, buf_len - Len(filled))
  IN  SubSeq(outbuf, outbuf_pos + 1, outbuf_pos + bytes)

Drained == outbuf_pos + Len(Copied) >= Len(outbuf)

(* The turn calls the algorithm's read function, even when the copy has    *)
(* given the reader all it asked for.                                      *)
NeedsBlock ==
  pc = "loop" /\ Len(filled) < buf_len /\ decoder_failed = 0 /\ Drained

LoopEnd == pc = "loop" /\ Len(filled) >= buf_len /\ Finish(filled)
             /\ UNCHANGED <<stream_length, bufferVars, block_size, total_blocks>>

(* A turn that needs no block: out of a buffer that has more than the      *)
(* reader wants, or after a failure.                                       *)
CopyTurn ==
  /\ pc = "loop" /\ Len(filled) < buf_len
  /\ ~NeedsBlock
  /\ outbuf_pos' = outbuf_pos + Len(Copied)
  /\ IF decoder_failed = 1 THEN Finish(filled \o Copied) ELSE Continue(filled \o Copied)
  /\ UNCHANGED <<stream_length, outbuf, decoder_failed, block_size, total_blocks>>

(* A turn that needs one, and gets this block. *)
RefillTurn(block) ==
  /\ NeedsBlock
  /\ outbuf' = block
  /\ outbuf_pos' = 0
  /\ decoder_failed' = IF block = <<>> THEN 1 ELSE 0
  /\ IF block = <<>> THEN Finish(filled \o Copied) ELSE Continue(filled \o Copied)
  /\ UNCHANGED <<stream_length, block_size, total_blocks>>

(* The algorithm: any cut of its data into blocks, an empty one at the end *)
(* or where its input is damaged.                                          *)
codec_read ==
  /\ \E n \in 0 .. MAX_READ :
       /\ n <= codec_length - made
       /\ n = 0 => made = codec_length
       /\ RefillTurn([j \in 1 .. n |-> made + j])
       /\ made' = made + n
  /\ UNCHANGED codec_length

-----------------------------------------------------------------------------
(* lha_decoder_new *)
DecoderInit ==
  /\ stream_pos = 0
  /\ outbuf = <<>> /\ outbuf_pos = 0 /\ decoder_failed = 0
  /\ crc = <<>>
  /\ block_size = 0 /\ total_blocks = 0
  /\ last_block = UINT_MAX
  /\ announced = <<>>
  /\ pc = "idle" /\ request = 0 /\ buf_len = 0 /\ filled = <<>>
  /\ asked = 0 /\ given = 0

Init ==
  /\ stream_length \in Lengths
  /\ codec_length \in 0 .. MaxLength
  /\ made = 0
  /\ DecoderInit

-----------------------------------------------------------------------------
(* Properties *)

(* The fields of LHADecoder stay in range: the position never passes the  *)
(* length of the stream nor outbuf_pos the end of the buffer, and a read   *)
(* never fills more than its caller has room for.                          *)
TypeOK ==
  /\ stream_length \in Nat /\ stream_pos \in 0 .. stream_length
  /\ outbuf \in Seq(Nat) /\ outbuf_pos \in 0 .. Len(outbuf)
  /\ decoder_failed \in {0, 1}
  /\ crc \in Seq(Nat)
  /\ block_size \in Nat /\ total_blocks \in Nat /\ last_block \in 0 .. UINT_MAX
  /\ pc \in {"idle", "loop", "scaling"}
  /\ request \in Nat /\ buf_len \in Nat
  /\ filled \in Seq(Nat) /\ (pc = "loop" => Len(filled) <= buf_len)
  /\ asked \in Nat /\ given \in Nat
  /\ codec_length \in Nat /\ made \in 0 .. codec_length
=============================================================================
