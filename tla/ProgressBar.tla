---------------------------- MODULE ProgressBar ----------------------------
(***************************************************************************)
(* The progress callback of src/extract.c, as the client of Decoder: a     *)
(* line of dots, which are then overwritten one by one.                    *)
(***************************************************************************)
EXTENDS Decoder, FiniteSets

CONSTANT MAX_PROGRESS_LEN  \* 58

ASSUME ProgressAssumption == MAX_PROGRESS_LEN \in Nat \ {0}

(* The blocks that one dot stands for. *)
factor(num_blocks) == 1 + num_blocks \div MAX_PROGRESS_LEN

(* The dots printed at block 0. *)
Dots(num_blocks) == (num_blocks + factor(num_blocks) - 1) \div factor(num_blocks)

(* Whether the call for this block signals progress. *)
progress_callback(block, num_blocks) ==
  block # 0 /\ (block + factor(num_blocks) - 1) % factor(num_blocks) = 0

Signalled ==
  Cardinality({k \in DOMAIN announced : progress_callback(announced[k], total_blocks)})

-----------------------------------------------------------------------------
(* check_progress_callback: the callback is told of every block from 0 to  *)
(* the one the stream is in, once each and in order, whatever the sizes of *)
(* the reads and whenever the monitor was set.  So the bar of              *)
(* progress_callback is never longer than a line, is never overrun, and is *)
(* full when the stream is read.  lha_decoder_monitor returns for every    *)
(* stream of less than (2 ^ (WIDTH - 1) + 1) * MAX_BLOCKS bytes (some 2^48 *)
(* in the code); only for a longer one does it double the block size for   *)
(* ever.                                                                   *)
ProgressInOrder ==
  /\ pc = "scaling" => stream_length \div MAX_BLOCKS > 2 ^ (WIDTH - 1)
  /\ announced = [k \in 1 .. Len(announced) |-> k - 1]
  /\ block_size # 0 =>
       /\ Len(announced) = Blocks(stream_pos, block_size) + 1
       /\ Dots(total_blocks) <= MAX_PROGRESS_LEN
       /\ Signalled <= Dots(total_blocks)
       /\ stream_pos = stream_length => Signalled = Dots(total_blocks)
=============================================================================
