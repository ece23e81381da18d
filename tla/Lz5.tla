-------------------------------- MODULE Lz5 --------------------------------
(***************************************************************************)
(* lib/lz5_decoder.c: the decoder of -lz5-, from LArc.                     *)
(*                                                                         *)
(* A call reads a byte with one bit for each of eight commands, a literal  *)
(* byte or a copy from a place in the ring, and then the commands.         *)
(***************************************************************************)
EXTENDS RingDecoder

CONSTANTS
  COMMANDS,      \* 8: bits in the first byte
  LZ5_START_OFFSET,  \* 18
  LZ5_THRESHOLD,     \* 3
  RUN,           \* 13 of each byte in the ring at first
  ZEROS,         \* 128
  SPACES         \* 110

LZ5_BUFFER_SIZE == (2^LENGTH_BITS - 1 + LZ5_THRESHOLD) * COMMANDS

VARIABLE bit  \* commands of this call that are done

(* A run of each byte, all bytes up and all bytes down, zeros, spaces and  *)
(* zeros: together they fill the ring.                                     *)
Lz5FirstBytes ==
  [k \in 1 .. LITERALS * RUN |-> (k - 1) \div RUN]
    \o [k \in 1 .. LITERALS |-> k - 1]
    \o [k \in 1 .. LITERALS |-> LITERALS - k]
    \o [k \in 1 .. ZEROS |-> 0] \o [k \in 1 .. SPACES |-> Space]
    \o [k \in 1 .. LZ5_START_OFFSET |-> 0]

fill_initial == [k \in 0 .. Ring - 1 |-> Lz5FirstBytes[k + 1]]

lha_lz5_init == InitRing(fill_initial, Ring - LZ5_START_OFFSET) /\ pc = "idle" /\ bit = 0

-----------------------------------------------------------------------------
lha_lz5_read ==
  /\ pc = "idle" /\ Produced <= MaxOutput[method]
  /\ Call
  /\ pc' = "command"
  /\ bit' = 0

lz5_output_byte ==
  /\ pc = "command" /\ bit < COMMANDS
  /\ \E b \in Byte : PutLiteral(b)
  /\ bit' = bit + 1
  /\ UNCHANGED pc

(* A place and a length.  If the input ends between the two bytes of the   *)
(* command the second has not been read, and is any byte.                  *)
lz5_output_block ==
  /\ pc = "command" /\ bit < COMMANDS
  /\ \E seqstart \in 0 .. Ring - 1, seqlen \in 0 .. 2^LENGTH_BITS - 1 :
       BeginCopy(seqstart, seqlen + LZ5_THRESHOLD, ringbuf_pos - seqstart - 1)
  /\ pc' = "copying"
  /\ UNCHANGED bit

Lz5CopyByte == pc = "copying" /\ CopyTurn /\ UNCHANGED <<pc, bit>>

Lz5CopyDone == pc = "copying" /\ CopyEnd /\ pc' = "command" /\ bit' = bit + 1

(* The call returns when it has done its commands or the input has ended;  *)
(* with nothing in the buffer this ends the decoding.                      *)
Lz5Return ==
  /\ pc = "command"
  /\ pc' = IF buf_len = 0 THEN "end" ELSE "idle"
  /\ bit' = 0
  /\ UNCHANGED <<ringVars, copyVars>>

Lz5Init == lha_lz5_init /\ NoCopy /\ buf_len = 0

Lz5Next ==
  /\ lha_lz5_read \/ lz5_output_byte \/ lz5_output_block \/ Lz5CopyByte \/ Lz5CopyDone \/ Lz5Return
  /\ UNCHANGED method
=============================================================================
