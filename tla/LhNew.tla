------------------------------- MODULE LhNew -------------------------------
(***************************************************************************)
(* lib/lh_new_decoder.c: the decoder of -lh4- to -lh7- and -lhx-, and with *)
(* LHARK defined that of -lk7-.                                            *)
(*                                                                         *)
(* The input is a sequence of blocks.  A block has its length in commands, *)
(* three tables of code lengths, each for a Huffman tree, and its          *)
(* commands: literal bytes and copies from the history.  BitStream and     *)
(* TreeDecode model how bits and codes are read: here a read gives any     *)
(* value of its width, or fails, and a tree any of its codes.              *)
(***************************************************************************)
EXTENDS RingDecoder

CONSTANTS
  NUM_CODES,       \* of each method: 510, or 289 for -lk7-
  CODE_BITS,       \* of each method: 9, width of a code and of their number
  TEMP_CODE_BITS,  \* 5
  OFFSET_BITS,     \* of each method: 4, 5 or 6
  LHARK_STEP,      \* 4: copy codes of -lk7- for each number of low bits
  LHARK_LAST,      \* 32: the first copy code for the longest copy
  LHARK_LONGEST,   \* 514: its length
  LHARK_OFFSETS,   \* 62: offset codes for which the offset fits an int
  MaxBlock,        \* longest block
  MaxBlocks        \* most blocks in the input

OUTPUT_BUFFER_SIZE == Ring
MAX_TEMP_CODES     == 2^TEMP_CODE_BITS - 1
MAX_OFFSET_CODES   == 2^OFFSET_BITS[method] - 1

NewMethods == {"-lh5-", "-lk7-"}

(* The tables have room for the lengths skipped after the third, and no    *)
(* copy of -lh5-, that of the largest code that fits its field included,   *)
(* is longer than the ring.                                                *)
ASSUME LhNewAssumption ==
  /\ {COPY_THRESHOLD, TEMP_CODE_BITS, LHARK_STEP, LHARK_LAST, LHARK_LONGEST,
      LHARK_OFFSETS, MaxBlock, MaxBlocks} \subseteq Nat \ {0}
  /\ CODE_BITS \in [NewMethods -> Nat \ {0}]
  /\ NUM_CODES \in [NewMethods -> Nat \ {0}]
  /\ \A m \in NewMethods : NUM_CODES[m] < 2^CODE_BITS[m]
  /\ OFFSET_BITS \in [NewMethods -> Nat \ {0}]
  /\ \A m \in NewMethods : 2^OFFSET_BITS[m] > 0
  /\ 2^TEMP_CODE_BITS - 1 >= 6
  /\ 2^CODE_BITS["-lh5-"] - 1 - LITERALS + COPY_THRESHOLD <= RING_BUFFER_SIZE["-lh5-"]
  /\ LHARK_LAST % LHARK_STEP = 0 /\ LHARK_LAST >= 2 * LHARK_STEP
  /\ LHARK_LONGEST = LHARK_STEP * 2^(LHARK_LAST \div LHARK_STEP - 1) - 1 + COPY_THRESHOLD

VARIABLES
  block_remaining,                    \* LHANewDecoder
  temp_tree,                          \* the codes it can give
  n, i,      \* the table readers: number of codes, next code
  lengths,   \* the elements of code_lengths that have been set
  blocks     \* blocks started

tableVars == <<n, i, lengths>>
newTreeVars  == <<temp_tree, code_tree, offset_tree>>
SmallerOf(a, b) == IF a < b THEN a ELSE b

-----------------------------------------------------------------------------
(* Any read of bits may find the input at its end: the call returns 0. *)
NewFail ==
  /\ pc \in {"length", "temp", "codes", "offsets", "code"}
       \/ (pc \in {"temp_lengths", "code_lengths", "offset_lengths"} /\ i < n)
  /\ pc' = "end"
  /\ UNCHANGED <<ringVars, block_remaining, newTreeVars, tableVars, copyVars, blocks>>

(* lha_lh_new_read, with the loop that starts new blocks. *)
lha_lh_new_read ==
  /\ pc = "idle"
  /\ Produced <= MaxOutput[method]
  /\ Call
  /\ pc' = "read"
  /\ UNCHANGED <<block_remaining, newTreeVars, tableVars, blocks>>

NextCommand ==
  /\ pc = "read"
  /\ IF block_remaining = 0
     THEN pc' = "length" /\ UNCHANGED block_remaining
     ELSE pc' = "code" /\ block_remaining' = block_remaining - 1
  /\ UNCHANGED <<ringVars, newTreeVars, tableVars, copyVars, blocks>>

(* start_new_block: the length, and then the three tables. *)
start_new_block ==
  /\ pc = "length" /\ blocks < MaxBlocks
  /\ block_remaining' \in 0 .. MaxBlock
  /\ blocks' = blocks + 1
  /\ pc' = "temp"
  /\ UNCHANGED <<ringVars, newTreeVars, tableVars, copyVars>>

-----------------------------------------------------------------------------
(* The tables.  Without lengths there is one code, of any value its field  *)
(* holds, for which no bits are read.  build_tree makes a tree of the      *)
(* codes that have lengths, but does not clear the array: where they make  *)
(* no whole tree it may give any code of a table of an earlier block, too. *)
Table(from, loop, width, max) ==
  /\ pc = from
  /\ \E num \in Bits(width) \ {0} :
       n' = SmallerOf(num, max) /\ i' = 0 /\ lengths' = {} /\ pc' = loop
  /\ UNCHANGED <<ringVars, block_remaining, newTreeVars, copyVars, blocks>>

NewSingle(from, next) ==
  /\ pc = from
  /\ pc' = next
  /\ UNCHANGED <<ringVars, block_remaining, tableVars, copyVars, blocks>>

Built(max) == 0 .. max - 1

TableDone(loop, next) ==
  /\ pc = loop /\ i >= n
  /\ pc' = next
  /\ n' = 0 /\ i' = 0 /\ lengths' = {}
  /\ UNCHANGED <<ringVars, block_remaining, copyVars, blocks>>

read_temp_table ==
  \/ Table("temp", "temp_lengths", TEMP_CODE_BITS, MAX_TEMP_CODES)
  \/ /\ \E code \in Bits(TEMP_CODE_BITS) : NewSingle("temp", "codes") /\ temp_tree' = {code}
     /\ UNCHANGED <<code_tree, offset_tree>>
  \/ /\ TableDone("temp_lengths", "codes")
     /\ temp_tree' = Built(MAX_TEMP_CODES)
     /\ UNCHANGED <<code_tree, offset_tree>>

(* A length, and after the third up to three lengths of zero, whether or   *)
(* not there are so many codes.                                            *)
TempLength ==
  /\ pc = "temp_lengths" /\ i < n
  /\ \E skip \in (IF i = 2 THEN Bits(2) ELSE {0}) :
       lengths' = lengths \cup i .. i + skip /\ i' = i + skip + 1
  /\ UNCHANGED <<ringVars, block_remaining, newTreeVars, pc, n, copyVars, blocks>>

read_code_table ==
  \/ Table("codes", "code_lengths", CODE_BITS[method], NUM_CODES[method])
  \/ /\ \E code \in Bits(CODE_BITS[method]) : NewSingle("codes", "offsets") /\ code_tree' = {code}
     /\ UNCHANGED <<temp_tree, offset_tree>>
  \/ /\ TableDone("code_lengths", "offsets")
     /\ code_tree' = Built(NUM_CODES[method])
     /\ UNCHANGED <<temp_tree, offset_tree>>

(* How many codes read_skip_count skips. *)
read_skip_count(skiprange) ==
  CASE skiprange = 0 -> {1}
    [] skiprange = 1 -> {3 + k : k \in Bits(4)}
    [] OTHER         -> {20 + k : k \in Bits(9)}

(* The loop over j ends at the last code. *)
CodesSkipped(skip) == SmallerOf(skip, n - i)

(* A code of the temporary tree: zero lengths, or one length. *)
CodeLength ==
  /\ pc = "code_lengths" /\ i < n
  /\ \E code \in temp_tree :
       \E skip \in (IF code <= 2 THEN {CodesSkipped(k) : k \in read_skip_count(code)} ELSE {1}) :
         lengths' = lengths \cup i .. i + skip - 1 /\ i' = i + skip
  /\ UNCHANGED <<ringVars, block_remaining, newTreeVars, pc, n, copyVars, blocks>>

read_offset_table ==
  \/ Table("offsets", "offset_lengths", OFFSET_BITS[method], MAX_OFFSET_CODES)
  \/ /\ \E code \in Bits(OFFSET_BITS[method]) : NewSingle("offsets", "read") /\ offset_tree' = {code}
     /\ UNCHANGED <<temp_tree, code_tree>>
  \/ /\ TableDone("offset_lengths", "read")
     /\ offset_tree' = Built(MAX_OFFSET_CODES)
     /\ UNCHANGED <<temp_tree, code_tree>>

NewOffsetLength ==
  /\ pc = "offset_lengths" /\ i < n
  /\ lengths' = lengths \cup {i} /\ i' = i + 1
  /\ UNCHANGED <<ringVars, block_remaining, newTreeVars, pc, n, copyVars, blocks>>

-----------------------------------------------------------------------------
(* Commands *)

new_output_byte(b) == PutLiteral(b)

Literal ==
  /\ pc = "code"
  /\ \E code \in code_tree : code < LITERALS /\ new_output_byte(code)
  /\ pc' = "idle"
  /\ UNCHANGED <<block_remaining, newTreeVars, tableVars, blocks>>

(* The offsets that an offset code of -lk7- stands for.  From the code on  *)
(* for which the shift overflows any is possible.                          *)
lhark_read_offset_code(code) ==
  LET num_low_bits == (code - 2) \div 2 IN
  CASE code < 4             -> {code}
    [] code >= LHARK_OFFSETS -> 0 .. Ring - 1
    [] OTHER -> {(2 + (code % 2)) * 2^num_low_bits + k : k \in Bits(num_low_bits)}

(* The offsets that an offset code stands for: it gives their length in    *)
(* bits.                                                                   *)
read_offset_code(bits) ==
  CASE bits <= 1        -> {bits}
    [] bits > 1 /\ method = "-lk7-" -> lhark_read_offset_code(bits)
    [] OTHER            -> {2^(bits - 1) + k : k \in Bits(bits - 1)}

(* The lengths that a copy code of -lk7- stands for, counted from zero. *)
lhark_decode_copy_count(code) ==
  LET num_low_bits == (code - LHARK_STEP) \div LHARK_STEP IN
  CASE code < 2 * LHARK_STEP -> {code + COPY_THRESHOLD}
    [] code >= LHARK_LAST    -> {LHARK_LONGEST}
    [] OTHER -> {(LHARK_STEP + (code % LHARK_STEP)) * 2^num_low_bits + k + COPY_THRESHOLD :
                   k \in Bits(num_low_bits)}

(* No copy code stands for more than the ring holds. *)
ASSUME LharkAssumption ==
  \A code \in LITERALS .. 2^CODE_BITS["-lk7-"] - 1 :
    lhark_decode_copy_count(code - LITERALS) \subseteq 0 .. RING_BUFFER_SIZE["-lk7-"]

NewCopyCounts(code) ==
  IF method = "-lk7-" THEN lhark_decode_copy_count(code - LITERALS)
  ELSE {code - LITERALS + COPY_THRESHOLD}

(* Mutant: the offset is the distance. *)
NewStartOf_Distance(offset) == (ringbuf_pos + Ring - offset) % Ring

(* Where a copy starts.  The code leaves the reduction to each access,     *)
(* which is the same as the ring's size divides that of the integers.      *)
NewStartOf(offset) == (ringbuf_pos + Ring - offset - 1) % Ring

new_copy_from_history ==
  /\ pc = "code"
  /\ \E code \in code_tree : code >= LITERALS /\
       \E bits \in offset_tree : \E offset \in read_offset_code(bits), num \in NewCopyCounts(code) :
         BeginCopy(NewStartOf(offset), num, offset)
  /\ pc' = "copying"
  /\ UNCHANGED <<block_remaining, newTreeVars, tableVars, blocks>>

NewCopyByte ==
  /\ pc = "copying"
  /\ CopyTurn
  /\ UNCHANGED <<block_remaining, newTreeVars, pc, tableVars, blocks>>

NewCopyDone ==
  /\ pc = "copying"
  /\ CopyEnd
  /\ pc' = "idle"
  /\ UNCHANGED <<block_remaining, newTreeVars, tableVars, blocks>>

-----------------------------------------------------------------------------
lha_lh_new_init ==
  /\ InitRing(Spaces, 0)
  /\ block_remaining = 0
  /\ temp_tree = {0} /\ code_tree = {0} /\ offset_tree = {0}

NewInit ==
  /\ lha_lh_new_init
  /\ NoCopy
  /\ pc = "idle"
  /\ n = 0 /\ i = 0 /\ lengths = {}
  /\ buf_len = 0
  /\ blocks = 0

NewNext ==
  /\ \/ lha_lh_new_read
     \/ NewFail \/ NextCommand \/ start_new_block
     \/ read_temp_table \/ TempLength
     \/ read_code_table \/ CodeLength
     \/ read_offset_table \/ NewOffsetLength
     \/ Literal \/ new_copy_from_history \/ NewCopyByte \/ NewCopyDone
  /\ UNCHANGED method

-----------------------------------------------------------------------------
(* read_temp_table, read_code_table, read_offset_table: no length is       *)
(* stored outside the array of the table, and when build_tree is called    *)
(* every length it looks at has been set, whatever was skipped.            *)
LengthsFit ==
  LET TableSize == CASE pc = "temp_lengths"   -> MAX_TEMP_CODES
                     [] pc = "code_lengths"   -> NUM_CODES[method]
                     [] pc = "offset_lengths" -> MAX_OFFSET_CODES
                     [] OTHER                 -> 0
  IN  TableSize > 0 =>
        /\ lengths \subseteq 0 .. TableSize - 1
        /\ i >= n => 0 .. n - 1 \subseteq lengths

(* "At most, a single call to read() might result in a copy of the entire  *)
(* ring buffer": a call never overruns the output buffer, and every        *)
(* variable keeps its type; block_remaining, which is unsigned, does not   *)
(* drop below zero, also when blocks are empty.                            *)
OutputFits ==
  /\ buf_len \in 0 .. OUTPUT_BUFFER_SIZE
  /\ block_remaining \in 0 .. MaxBlock
  /\ temp_tree \subseteq Bits(TEMP_CODE_BITS)
  /\ code_tree \subseteq Bits(CODE_BITS[method])
  /\ offset_tree \subseteq Bits(OFFSET_BITS[method])
=============================================================================
