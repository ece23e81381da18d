------------------------------ MODULE Lh1Copy ------------------------------
(***************************************************************************)
(* lib/lh1_decoder.c: the commands of -lh1- and the code of its offsets.   *)
(* Lh1Tree models the tree from which the codes of the commands are read:  *)
(* here it gives any code.                                                 *)
(***************************************************************************)
EXTENDS RingDecoder, FiniteSets

CONSTANTS
  LH1_NUM_CODES,          \* 314
  MIN_OFFSET_LENGTH,  \* 3
  LOOKUP_BITS,        \* 8: length of the longest code of an offset
  LOW_BITS,           \* 6: low bits of an offset, which have no code
  offset_fdist        \* <<1, 3, 8, 12, 24, 16>>

LH1_BUFFER_SIZE == Ring

(* The offsets in the first groups of offset_fdist. *)
GroupEnd[k \in 0 .. Len(offset_fdist)] ==
  IF k = 0 THEN 0 ELSE GroupEnd[k - 1] + offset_fdist[k]

NUM_OFFSETS == GroupEnd[Len(offset_fdist)]

-----------------------------------------------------------------------------
(* init_offset_table: offsets in order, the shortest codes first. *)

(* offset_lengths: the group of offset_fdist that the offset is in. *)
Lh1OffsetLength(offset) ==
  MIN_OFFSET_LENGTH + Cardinality({k \in DOMAIN offset_fdist : GroupEnd[k] <= offset})

(* The futures that begin with the code of an offset. *)
iterbit(offset) == 2^(LOOKUP_BITS - Lh1OffsetLength(offset))

(* The first future that begins with the code, in as many bits. *)
FirstFuture ==
  LET code[k \in 0 .. NUM_OFFSETS - 1] ==
        IF k = 0 THEN 0 ELSE (code[k - 1] + iterbit(k - 1)) % 2^LOOKUP_BITS
  IN  code

fill_offset_range(offset) ==
  FirstFuture[offset] .. FirstFuture[offset] + iterbit(offset) - 1

(* A later offset overwrites what an earlier one has filled. *)
offset_lookup(future) ==
  CHOOSE k \in 0 .. NUM_OFFSETS - 1 :
    /\ future \in fill_offset_range(k)
    /\ \A later \in k + 1 .. NUM_OFFSETS - 1 : future \notin fill_offset_range(later)

(* read_offset: peeks at a future, skips the code and reads the low bits. *)
read_offset(future, low) == offset_lookup(future) * 2^LOW_BITS + low

-----------------------------------------------------------------------------
lha_lh1_init == InitRing(Spaces, 0) /\ pc = "idle"

(* read_code and read_offset may come to the end of the input. *)
Lh1Fail == pc = "command" /\ pc' = "end" /\ UNCHANGED <<ringVars, copyVars>>

lha_lh1_read ==
  /\ pc = "idle" /\ Produced <= MaxOutput[method]
  /\ Call
  /\ pc' = "command"

lh1_output_byte == pc = "command" /\ (\E code \in Byte : PutLiteral(code)) /\ pc' = "idle"

Lh1StartOf(offset) == (ringbuf_pos - offset + Ring - 1) % Ring

Lh1BeginCopy ==
  /\ pc = "command"
  /\ \E code \in LITERALS .. LH1_NUM_CODES - 1,
        future \in 0 .. 2^LOOKUP_BITS - 1, low \in 0 .. 2^LOW_BITS - 1 :
       LET offset == read_offset(future, low) IN
       BeginCopy(Lh1StartOf(offset), code - LITERALS + COPY_THRESHOLD, offset)
  /\ pc' = "copying"

Lh1CopyByte == pc = "copying" /\ CopyTurn /\ UNCHANGED pc

Lh1CopyDone == pc = "copying" /\ CopyEnd /\ pc' = "idle"

Lh1Init == lha_lh1_init /\ NoCopy /\ buf_len = 0

Lh1Next ==
  /\ lha_lh1_read \/ Lh1Fail \/ lh1_output_byte \/ Lh1BeginCopy \/ Lh1CopyByte \/ Lh1CopyDone
  /\ UNCHANGED method

-----------------------------------------------------------------------------
(* init_offset_table: the codes of the offsets are a complete prefix code, *)
(* as together they fill in every future and none of them twice; and a     *)
(* future is never longer than what follows a copy code, so that peek_bits *)
(* fails only where the input is cut off.                                  *)
OffsetsCoded ==
  /\ UNION {fill_offset_range(k) : k \in 0 .. NUM_OFFSETS - 1} = 0 .. 2^LOOKUP_BITS - 1
  /\ \A k \in 0 .. NUM_OFFSETS - 1 : \A later \in k + 1 .. NUM_OFFSETS - 1 :
       fill_offset_range(k) \cap fill_offset_range(later) = {}
  /\ MIN_OFFSET_LENGTH + LOW_BITS >= LOOKUP_BITS
=============================================================================
