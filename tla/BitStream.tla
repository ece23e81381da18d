----------------------------- MODULE BitStream -----------------------------
(***************************************************************************)
(* lib/bit_stream_reader.c: bits out of a stream of bytes, most            *)
(* significant bit first, through a buffer of one machine word.            *)
(*                                                                         *)
(* The word has BufferBits bits (32 in the code) and a byte ByteBits (8).  *)
(* One request at a time is served; a turn of the loop of peek_bits is one *)
(* step, as the callback may give fewer bytes than it is asked for.        *)
(***************************************************************************)
EXTENDS Integers, Sequences

CONSTANTS
  ByteBits,    \* bits in a byte
  BufferBits,  \* bits in bit_buffer
  MaxBytes     \* longest input

VARIABLES
  input,       \* the bytes of the compressed data
  at,          \* bytes of it that the callback has given
  bit_buffer, bits,  \* BitStreamReader
  n,           \* bits asked for, or -1 between calls
  keep,        \* 1: peek_bits, 0: read_bits
  result,      \* what the last call returned, -1 for failure
  taken,       \* history: bits read so far
  before,      \* history: taken when the last call began
  asked        \* history: how many bits it asked for

vars == <<input, at, bit_buffer, bits, n, keep, result, taken, before, asked>>

Bytes == 0 .. 2^ByteBits - 1

(* Requests that the buffer can hold, wherever in a byte they begin: the   *)
(* decoders ask for at most 16 bits of 32 in a well-formed stream.         *)
MaxBits == BufferBits - ByteBits + 1

(* x << k in a word, and x >> k. *)
Shl(x, k) == (x * 2^k) % 2^BufferBits
Shr(x, k) == x \div 2^k

SmallerOf(a, b) == IF a < b THEN a ELSE b

-----------------------------------------------------------------------------
Call(num, peek) ==
  /\ n = -1
  /\ n' = num
  /\ keep' = peek
  /\ before' = taken
  /\ asked' = num
  /\ UNCHANGED <<input, at, bit_buffer, bits, result, taken>>

(* The most bytes that still fit into the buffer. *)
fill_bytes == (BufferBits - bits) \div ByteBits

(* bit_buffer |= b << (24 - bits), where the bits that are set are free. *)
Put(b, buffer, have) == buffer + Shl(b, BufferBits - ByteBits - have)

(* The bytes from the callback go into the buffer one by one. *)
Filled(count) ==
  LET word[k \in 0 .. count] ==
        IF k = 0 THEN bit_buffer
        ELSE Put(input[at + k], word[k - 1], bits + (k - 1) * ByteBits)
  IN  word[count]

Fill ==
  /\ n > bits
  /\ \E count \in 1 .. SmallerOf(fill_bytes, Len(input) - at) :
       /\ bit_buffer' = Filled(count)
       /\ bits' = bits + count * ByteBits
       /\ at' = at + count
  /\ UNCHANGED <<input, n, keep, result, taken, before, asked>>

(* The callback gave nothing: what is in the buffer stays there. *)
EndOfFile ==
  /\ n > bits
  /\ SmallerOf(fill_bytes, Len(input) - at) = 0
  /\ result' = -1
  /\ n' = -1
  /\ UNCHANGED <<input, at, bit_buffer, bits, keep, taken, before, asked>>

(* Mutant: the bits are counted off but stay in the buffer. *)
Consume_NoShift ==
  /\ bits' = bits - n
  /\ taken' = taken + n
  /\ UNCHANGED bit_buffer

(* read_bits, after peek_bits. *)
Consume ==
  /\ bit_buffer' = Shl(bit_buffer, n)
  /\ bits' = bits - n
  /\ taken' = taken + n

Return ==
  /\ n \in 0 .. bits
  /\ result' = IF n = 0 THEN 0 ELSE Shr(bit_buffer, BufferBits - n)
  /\ n' = -1
  /\ IF keep = 1 THEN UNCHANGED <<bit_buffer, bits, taken>> ELSE Consume
  /\ UNCHANGED <<input, at, keep, before, asked>>

bit_stream_reader_init == bit_buffer = 0 /\ bits = 0

Init ==
  /\ input \in UNION {[1 .. k -> Bytes] : k \in 0 .. MaxBytes}
  /\ at = 0
  /\ bit_stream_reader_init
  /\ n = -1
  /\ keep = 0
  /\ result = 0
  /\ taken = 0
  /\ before = 0
  /\ asked = 0

peek_bits == \E num \in 0 .. MaxBits : Call(num, 1)
read_bits == \E num \in 0 .. MaxBits : Call(num, 0)

-----------------------------------------------------------------------------
(* Bit k of the input, from 1. *)
Bit(k) ==
  LET b == input[(k - 1) \div ByteBits + 1] IN
  (b \div 2^(ByteBits - 1 - ((k - 1) % ByteBits))) % 2

(* The number made of len bits of the input after the first p. *)
Number(p, len) ==
  LET value[k \in 0 .. len] == IF k = 0 THEN 0 ELSE 2 * value[k - 1] + Bit(p + k)
  IN  value[len]

(* Bits of the input that no read has taken. *)
Left == Len(input) * ByteBits - taken

(* peek_bits and read_bits: whatever the callback's portions, a call that  *)
(* succeeds returns the next bits of the input: consecutive reads lose     *)
(* none and repeat none, peeks and failed calls included.                  *)
ReadsInOrder ==
  n = -1 =>
    /\ result >= 0 => result = Number(before, asked)
    /\ taken = IF result >= 0 /\ keep = 0 THEN before + asked ELSE before

(* A call fails only when the input has fewer bits left than it asked for, *)
(* however they are spread over the buffer and the stream.                 *)
FailsOnlyAtEnd == n = -1 /\ result = -1 => Left < asked
=============================================================================
