-------------------------------- MODULE Pm1 --------------------------------
(***************************************************************************)
(* lib/pm1_decoder.c: the decoder of -pm1-, from PMarc.                    *)
(*                                                                         *)
(* A call reads a copy, or a block of bytes and then a copy.  How far back *)
(* a copy may go, and in how many bits it says so, depends on how much has *)
(* been output.  Pm1Trees models how the place of a byte is read, and      *)
(* PmaHistory the list in which it is found: here it is any byte.          *)
(*                                                                         *)
(* No read of bits fails: read_callback_wrapper gives zeros at the end of  *)
(* the input.  So the decoder goes on until its caller has enough, or a    *)
(* copy goes back too far.                                                 *)
(***************************************************************************)
EXTENDS RingDecoder, FiniteSets

CONSTANTS
  PM1_SHIFT,           \* 0: bits by which distances are scaled down
  TreesTried,      \* the trees of bytes, by number
  LengthsTried,    \* the lengths of blocks and copies
  DistancesTried,  \* the distances of copies
  BytesTried(_)    \* the bytes at each place of the output

MAX_BYTE_BLOCK_LEN == 216
MAX_COPY_BLOCK_LEN == 244
PM1_BUFFER_SIZE == MAX_BYTE_BLOCK_LEN + MAX_COPY_BLOCK_LEN

VARIABLES
  output_stream_pos, byte_decode_tree,  \* LHAPM1Decoder; 0 for no tree yet
  block_left  \* read_byte_block: bytes still to be read

pm1Vars == <<output_stream_pos, byte_decode_tree, block_left>>

-----------------------------------------------------------------------------
(* The lengths of a block: one set for each return. *)
read_byte_block_count ==
  {x + 1 : x \in 0 .. 2} \cup {x + 4 : x \in 0 .. 6} \cup {x + 11 : x \in 0 .. 13}
    \cup {x + 25 : x \in Bits(6)} \cup {x + 89 : x \in Bits(7)}

-----------------------------------------------------------------------------
(* Copies *)

read_copy_byte_count ==
  {x + 3 : x \in 0 .. 2} \cup {x + 6 : x \in 0 .. 4} \cup {x + 11 : x \in Bits(2)}
    \cup {x + 15 : x \in Bits(3)} \cup {x + 23 : x \in 0 .. 61} \cup {x + 85 : x \in Bits(5)}
    \cup {x + 117 : x \in Bits(7)}

Scaled(num) == num \div 2^PM1_SHIFT

copy_ranges ==
  <<[offset |-> 0, bits |-> 6], [offset |-> 64, bits |-> 8], [offset |-> 0, bits |-> 6],
    [offset |-> 64, bits |-> 9], [offset |-> 576, bits |-> 11], [offset |-> 2624, bits |-> 13],
    [offset |-> 64, bits |-> 8],
    [offset |-> 576, bits |-> 8], [offset |-> 576, bits |-> 9], [offset |-> 576, bits |-> 10],
    [offset |-> 2624, bits |-> 8], [offset |-> 2624, bits |-> 9], [offset |-> 2624, bits |-> 10],
    [offset |-> 2624, bits |-> 11], [offset |-> 2624, bits |-> 12]>>

(* Some types only come after a number of bytes; before, their bits are    *)
(* not there.                                                              *)
read_copy_type_range(pos) ==
  {0, 2} \cup (IF pos >= Scaled(64) THEN {1, 3} ELSE {})
    \cup (IF pos >= Scaled(576) THEN {4} ELSE {})
    \cup (IF pos >= Scaled(2624) THEN {5} ELSE {})

(* Up to when each type has a range with fewer bits, and which is first. *)
early ==
  [type \in 0 .. 5 |->
     CASE type = 3 -> [until |-> <<320>>, first |-> 6]
       [] type = 4 -> [until |-> <<832, 1088, 1600>>, first |-> 7]
       [] type = 5 -> [until |-> <<2880, 3136, 3648, 4672, 6720>>, first |-> 10]
       [] OTHER    -> [until |-> <<>>, first |-> type]]

RangeAt(type, pos) ==
  LET past == Cardinality({k \in DOMAIN early[type].until : pos >= Scaled(early[type].until[k])})
  IN  IF past = Len(early[type].until) THEN type ELSE early[type].first + past

(* The first and the last distance of a range. *)
Nearest(range)  == Scaled(copy_ranges[range + 1].offset)
Farthest(range) == Nearest(range) + Scaled(2^copy_ranges[range + 1].bits) - 1

Distances(type, pos) == Nearest(RangeAt(type, pos)) .. Farthest(RangeAt(type, pos))

-----------------------------------------------------------------------------
lha_pm1_init ==
  /\ InitRing([k \in 0 .. Ring - 1 |-> 0], 0)
  /\ output_stream_pos = 0 /\ byte_decode_tree = 0
  /\ block_left = 0
  /\ pc = "idle"

(* The first call reads the number of the tree. *)
lha_pm1_read ==
  /\ pc = "idle" /\ Produced <= MaxOutput[method]
  /\ Call
  /\ IF byte_decode_tree = 0 THEN byte_decode_tree' \in TreesTried ELSE UNCHANGED byte_decode_tree
  /\ pc' = "command"
  /\ UNCHANGED <<output_stream_pos, block_left>>

outputted_byte == output_stream_pos' = output_stream_pos + 1

read_byte_block ==
  /\ pc = "command"
  /\ block_left' \in read_byte_block_count \cap LengthsTried
  /\ pc' = "block"
  /\ UNCHANGED <<ringVars, copyVars, output_stream_pos, byte_decode_tree>>

BlockByte ==
  /\ pc = "block" /\ block_left > 0
  /\ \E b \in BytesTried(Produced) \cap Byte : PutLiteral(b)
  /\ outputted_byte
  /\ block_left' = block_left - 1
  /\ UNCHANGED <<byte_decode_tree, pc>>

(* Only after the longest block there may be none. *)
BlockDone ==
  /\ pc = "block" /\ block_left = 0
  /\ pc' = IF buf_len = MAX_BYTE_BLOCK_LEN THEN "idle" ELSE "copy"
  /\ UNCHANGED <<ringVars, copyVars, pm1Vars>>

WithinOutput(dist) == dist < output_stream_pos

Pm1StartOf(dist) == (ringbuf_pos + Ring - dist - 1) % Ring

Pm1CopyCounts(type) ==
  (IF type < 2 THEN {2} ELSE read_copy_byte_count) \cap LengthsTried

read_copy_command ==
  /\ pc \in {"command", "copy"}
  /\ \E type \in read_copy_type_range(output_stream_pos) :
     \E num \in Pm1CopyCounts(type), dist \in Distances(type, output_stream_pos) \cap DistancesTried :
       \/ /\ WithinOutput(dist)
          /\ BeginCopy(Pm1StartOf(dist), num, dist)
          /\ pc' = "copying"
       \/ /\ ~WithinOutput(dist)
          /\ pc' = "end"
          /\ UNCHANGED <<ringVars, copyVars>>
  /\ UNCHANGED pm1Vars

(* Mutant: only the bytes of blocks are counted. *)
Pm1CopyByte_Uncounted == pc = "copying" /\ CopyTurn /\ UNCHANGED <<pm1Vars, pc>>

Pm1CopyByte ==
  /\ pc = "copying" /\ CopyTurn /\ outputted_byte
  /\ UNCHANGED <<byte_decode_tree, block_left, pc>>

Pm1CopyDone == pc = "copying" /\ CopyEnd /\ pc' = "idle" /\ UNCHANGED pm1Vars

Pm1Init == lha_pm1_init /\ NoCopy /\ buf_len = 0

Pm1Next ==
  /\ \/ lha_pm1_read \/ read_byte_block \/ BlockByte \/ BlockDone
     \/ read_copy_command \/ Pm1CopyByte \/ Pm1CopyDone
  /\ UNCHANGED method

-----------------------------------------------------------------------------
(* How far back a copy of more than two bytes may go when num bytes have   *)
(* been output and pos counted: to each of them, or if there are more to   *)
(* as many as the last range has, and to each in one way.                  *)
ReachesAll(num, pos) ==
  LET types == read_copy_type_range(pos) \ {0, 1}
      From(type) == Nearest(RangeAt(type, pos))
      To(type)   == Farthest(RangeAt(type, pos))
  IN  /\ From(2) = 0
      /\ \A type \in types \ {2} : type - 1 \in types /\ From(type) = To(type - 1) + 1
      /\ \E type \in types : To(type) >= num - 1 \/ RangeAt(type, pos) = 5
=============================================================================
