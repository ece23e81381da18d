-------------------------- MODULE MCCopyDecoders --------------------------
(***************************************************************************)
(* CopyDecoders with two bytes and small rings.                            *)
(***************************************************************************)
EXTENDS CopyDecoders, Pm1Trees

MCRings ==
  [m \in Methods |-> CASE m = "-lh1-" -> 6
                       [] m = "-lh5-" -> 4
                       [] m = "-lk7-" -> 6
                       [] m = "-lz5-" -> 9
                       [] m = "-lzs-" -> 4
                       [] m = "-pm1-" -> 256
                       [] m = "-pm2-" -> 8]

MCNumCodes   == [m \in NewMethods |-> IF m = "-lk7-" THEN 6 ELSE 3]
MCCodeBits   == [m \in NewMethods |-> IF m = "-lk7-" THEN 3 ELSE 2]
MCOffsetBits == [m \in NewMethods |-> IF m = "-lk7-" THEN 3 ELSE 2]

MCOffsetFdist == <<1, 2>>

MCCopyDecode == <<[offset |-> 3, bits |-> 1], [offset |-> 5, bits |-> 0]>>

MCMaxOutput ==
  [m \in Methods |-> CASE m = "-lh5-" -> 3
                       [] m = "-lk7-" -> 1
                       [] m = "-lh1-" -> 8
                       [] m = "-lz5-" -> 4
                       [] m = "-lzs-" -> 7
                       [] m = "-pm1-" -> 4
                       [] m = "-pm2-" -> 5]

(* Bytes in which a copy from a wrong place shows. *)
MCBytesTried(pos) == {((pos * pos) \div 3) % 2}

-----------------------------------------------------------------------------
(* The tables of the code itself, without scaling *)

CodeLh1 == INSTANCE Lh1Copy WITH LH1_NUM_CODES <- 314, COPY_THRESHOLD <- 3, MIN_OFFSET_LENGTH <- 3,
             LOOKUP_BITS <- 8, LOW_BITS <- 6, offset_fdist <- <<1, 3, 8, 12, 24, 16>>
CodePm1 == INSTANCE Pm1 WITH PM1_SHIFT <- 0

(* init_offset_table of -lh1- makes a complete code of the 64 offsets, the *)
(* trees of -pm1- are sound, every length up to the longest has a code in  *)
(* it, and its copies reach all that has been output up to 10816 bytes,    *)
(* which is as far as its last range goes.                                 *)
ASSUME CodeTables ==
  /\ CodeLh1!NUM_OFFSETS = 64 /\ CodeLh1!OffsetsCoded
  /\ TreesSound
  /\ CodePm1!read_byte_block_count = 1 .. CodePm1!MAX_BYTE_BLOCK_LEN
  /\ CodePm1!read_copy_byte_count = 3 .. CodePm1!MAX_COPY_BLOCK_LEN
  /\ \A pos \in 0 .. 10816 : CodePm1!ReachesAll(pos, pos)
=============================================================================
