-------------------------------- MODULE Pm2 --------------------------------
(***************************************************************************)
(* lib/pm2_decoder.c: the decoder of -pm2-, from PMarc.                    *)
(*                                                                         *)
(* A call reads one command.  The trees from which its codes are read come *)
(* at fixed places of the output, and so also in the middle of a copy.     *)
(* PmaHistory models the list from which a byte is found by its place:     *)
(* here it is any byte.                                                    *)
(***************************************************************************)
EXTENDS RingDecoder

CONSTANTS
  PM2_BUFFER_SIZE,  \* 256
  CODES_BITS,      \* 5: width of the number of codes
  FIRST_COPY,      \* 8: codes below are bytes
  SHORT_COPIES,    \* 15: copy codes that are lengths
  copy_decode,     \* the ranges of the longer copies: first length and bits
  NEAR_CODES,      \* 20: copy codes that come with an offset
  OFFSET_FREE,     \* 29: the number of codes that has no offsets if all
                   \* commands are the last one
  NEED_OFFSETS,    \* 10: with fewer codes there is no offset tree
  MIN_BITS,        \* 6: bits of the shortest offsets
  FIRST_OFFSETS,   \* 5: offset codes at first
  KIB              \* 1024

(* The offset codes there are at first go back one KiB, and the last one   *)
(* as far as the ring.                                                     *)
ASSUME Pm2Assumption ==
  /\ {PM2_BUFFER_SIZE, CODES_BITS, FIRST_COPY, SHORT_COPIES, NEAR_CODES, OFFSET_FREE,
      NEED_OFFSETS, MIN_BITS, FIRST_OFFSETS, KIB} \subseteq Nat
  /\ copy_decode \in Seq([offset : Nat, bits : Nat])
  /\ PM2_BUFFER_SIZE > 0 /\ FIRST_OFFSETS > 0
  /\ KIB = 2^(MIN_BITS + FIRST_OFFSETS - 1)
  /\ RING_BUFFER_SIZE["-pm2-"] = 2^(MIN_BITS + FIRST_OFFSETS + 2)

(* Powers of two grow. *)
ASSUME OffsetsAssumption ==
  /\ \A x \in 0 .. MIN_BITS + FIRST_OFFSETS + 2 : \A y \in 0 .. x : 2^y <= 2^x
  /\ \A x \in 0 .. MIN_BITS + FIRST_OFFSETS + 1 : 2^(x + 1) = 2 * 2^x

VARIABLES
  tree_state, tree_rebuild_remaining, need_offset_tree  \* LHAPM2Decoder

pm2TreeVars == <<tree_state, tree_rebuild_remaining, need_offset_tree, code_tree, offset_tree>>

-----------------------------------------------------------------------------
(* Trees.  They are built in place: where the lengths make no whole tree,  *)
(* codes of an older one may be left.  A read that fails leaves the tree   *)
(* as it was.                                                              *)

(* The element for a single code: without codes it is the largest. *)
Pm2Single(num_codes) == IF num_codes = 0 THEN 127 ELSE num_codes - 1

State(need, code, offset) == [need |-> need, code |-> code, offset |-> offset]

(* What read_code_tree may make of the state t of the trees. *)
read_code_tree(t) ==
  {t} \cup
  UNION {LET Need(min_is_zero) ==
               num_codes >= NEED_OFFSETS /\ ~(num_codes = OFFSET_FREE /\ min_is_zero)
         IN  {State(Need(TRUE), {Pm2Single(num_codes)}, t.offset),
              State(Need(FALSE), t.code, t.offset),
              State(Need(FALSE), t.code \cup 0 .. num_codes - 1, t.offset)} :
         num_codes \in Bits(CODES_BITS)}

read_offset_tree(t, num_offsets) ==
  IF ~t.need THEN {t}
  ELSE {t} \cup {State(t.need, t.code, {single}) : single \in 0 .. num_offsets - 1}
           \cup {State(t.need, t.code, t.offset \cup 0 .. num_offsets - 1)}

Both(t, num_offsets) == UNION {read_offset_tree(u, num_offsets) : u \in read_code_tree(t)}

Trees == State(need_offset_tree, code_tree, offset_tree)

Rebuilt(trees, next, remaining) ==
  /\ \E t \in trees : /\ need_offset_tree' = t.need
                      /\ code_tree' = t.code
                      /\ offset_tree' = t.offset
  /\ tree_state' = next
  /\ tree_rebuild_remaining' = remaining

(* Mutant: the last interval is that of the one before. *)
rebuild_tree_Early ==
  \/ tree_state = "UNBUILT" /\ Rebuilt(Both(Trees, FIRST_OFFSETS), "BUILD1", KIB)
  \/ tree_state = "BUILD1" /\ Rebuilt(read_offset_tree(Trees, FIRST_OFFSETS + 1), "BUILD2", KIB)
  \/ tree_state = "BUILD2"
       /\ Rebuilt(read_offset_tree(Trees, FIRST_OFFSETS + 2), "BUILD3", 2 * KIB)
  \/ tree_state = "BUILD3"
       /\ Rebuilt(Both(Trees, FIRST_OFFSETS + 3)
                    \cup read_offset_tree(Trees, FIRST_OFFSETS + 3), "CONTINUING", 2 * KIB)
  \/ tree_state = "CONTINUING"
       /\ Rebuilt({Trees} \cup Both(Trees, FIRST_OFFSETS + 3), "CONTINUING", 4 * KIB)

rebuild_tree ==
  \/ tree_state = "UNBUILT" /\ Rebuilt(Both(Trees, FIRST_OFFSETS), "BUILD1", KIB)
  \/ tree_state = "BUILD1" /\ Rebuilt(read_offset_tree(Trees, FIRST_OFFSETS + 1), "BUILD2", KIB)
  \/ tree_state = "BUILD2"
       /\ Rebuilt(read_offset_tree(Trees, FIRST_OFFSETS + 2), "BUILD3", 2 * KIB)
  \/ tree_state = "BUILD3"
       /\ Rebuilt(Both(Trees, FIRST_OFFSETS + 3)
                    \cup read_offset_tree(Trees, FIRST_OFFSETS + 3), "CONTINUING", 4 * KIB)
  \/ tree_state = "CONTINUING"
       /\ Rebuilt({Trees} \cup Both(Trees, FIRST_OFFSETS + 3), "CONTINUING", 4 * KIB)

-----------------------------------------------------------------------------
lha_pm2_decoder_init ==
  /\ tree_state = "UNBUILT" /\ tree_rebuild_remaining = 0
  /\ need_offset_tree = FALSE
  /\ code_tree = {0} /\ offset_tree = {0}
  /\ InitRing(Spaces, 0)
  /\ pc = "idle"

(* The first call builds the trees. *)
lha_pm2_decoder_read ==
  /\ pc = "idle" /\ Produced <= MaxOutput[method]
  /\ Call
  /\ IF tree_state = "UNBUILT" THEN rebuild_tree ELSE UNCHANGED pm2TreeVars
  /\ pc' = "command"

Pm2Fail == pc = "command" /\ pc' = "end" /\ UNCHANGED <<ringVars, copyVars, pm2TreeVars>>

(* The rest of output_byte, after the byte has been put into the ring. *)
CountDown ==
  IF tree_rebuild_remaining = 1 THEN rebuild_tree
  ELSE /\ tree_rebuild_remaining' = tree_rebuild_remaining - 1
       /\ UNCHANGED <<tree_state, need_offset_tree, code_tree, offset_tree>>

read_single_byte ==
  /\ pc = "command"
  /\ \E code \in code_tree : code < FIRST_COPY
  /\ \E b \in Byte : PutLiteral(b)
  /\ CountDown
  /\ pc' = "idle"

(* The lengths that a copy code stands for.  Codes from the end of         *)
(* copy_decode on read what happens to follow it: any length or none.      *)
history_get_count(code) ==
  CASE code < SHORT_COPIES -> {code + 2}
    [] code >= SHORT_COPIES /\ code < SHORT_COPIES + Len(copy_decode) ->
         {copy_decode[code - SHORT_COPIES + 1].offset + k :
            k \in Bits(copy_decode[code - SHORT_COPIES + 1].bits)}
    [] OTHER -> 0 .. PM2_BUFFER_SIZE + 1

(* The offsets of a code of the offset tree. *)
Offsets(val) ==
  IF val = 0 THEN Bits(MIN_BITS)
  ELSE {2^(val + MIN_BITS - 1) + k : k \in Bits(val + MIN_BITS - 1)}

history_get_offset(code) ==
  CASE code = 0 -> Bits(MIN_BITS)
    [] code > 0 /\ code < NEAR_CODES -> UNION {Offsets(val) : val \in offset_tree}
    [] OTHER -> {0}

Pm2StartOf(offset) == (ringbuf_pos + Ring - 1 - offset) % Ring

(* Mutant: no sanity check. *)
pm2_copy_from_history_Unchecked ==
  /\ pc = "command"
  /\ \E code \in code_tree : code >= FIRST_COPY /\
       \E to_copy \in history_get_count(code - FIRST_COPY),
          offset \in history_get_offset(code - FIRST_COPY) :
         BeginCopy(Pm2StartOf(offset), to_copy, offset)
  /\ pc' = "copying"
  /\ UNCHANGED pm2TreeVars

(* What is too long is not copied, and nothing returned. *)
pm2_copy_from_history ==
  /\ pc = "command"
  /\ \E code \in code_tree : code >= FIRST_COPY /\
       \E to_copy \in history_get_count(code - FIRST_COPY),
          offset \in history_get_offset(code - FIRST_COPY) :
         /\ to_copy <= PM2_BUFFER_SIZE
         /\ BeginCopy(Pm2StartOf(offset), to_copy, offset)
  /\ pc' = "copying"
  /\ UNCHANGED pm2TreeVars

Pm2CopyByte == pc = "copying" /\ CopyTurn /\ CountDown /\ UNCHANGED pc

Pm2CopyDone ==
  /\ pc = "copying" /\ CopyEnd
  /\ pc' = IF buf_len = 0 THEN "end" ELSE "idle"
  /\ UNCHANGED pm2TreeVars

Pm2Init == lha_pm2_decoder_init /\ NoCopy /\ buf_len = 0

Pm2Next ==
  /\ \/ lha_pm2_decoder_read \/ Pm2Fail \/ read_single_byte
     \/ pm2_copy_from_history \/ Pm2CopyByte \/ Pm2CopyDone
  /\ UNCHANGED method

-----------------------------------------------------------------------------
(* The output when the trees are to be rebuilt. *)
Due == Produced + tree_rebuild_remaining

(* output_byte and rebuild_tree: the trees are rebuilt where PM2RebuildState *)
(* says, at 1, 2, 4 and 8 KiB and every 4 KiB after that, also in the      *)
(* middle of a copy, and the count, which is unsigned, never drops below   *)
(* zero; until then no offset goes back further than the output has come.  *)
Pm2OnSchedule ==
  IF tree_state = "UNBUILT" THEN Produced = 0 /\ tree_rebuild_remaining = 0
  ELSE /\ tree_rebuild_remaining > 0
       /\ tree_state = "BUILD1" => Due = KIB
       /\ tree_state = "BUILD2" => Due = 2 * KIB
       /\ tree_state = "BUILD3" => Due = 4 * KIB
       /\ tree_state = "CONTINUING" => Due >= 8 * KIB /\ Due % (4 * KIB) = 0
       /\ \A val \in offset_tree : \A offset \in Offsets(val) : offset < Due /\ offset < Ring
=============================================================================
