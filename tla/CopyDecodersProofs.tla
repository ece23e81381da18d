------------------------- MODULE CopyDecodersProofs -------------------------
(***************************************************************************)
(* Every decoder is a RingSpec, and so its copies repeat the output, for   *)
(* rings, tables and codes of every size.  No decoder overruns its output  *)
(* buffer or a table, and -pm2- rebuilds its trees when it should.         *)
(***************************************************************************)
EXTENDS CopyDecoders, HistoryRingProofs

-----------------------------------------------------------------------------
(* What a step of a decoder may do to the ring. *)

(* Lzs: its steps. *)
LEMMA LzsRefines == RingInv /\ DecodeLzs => [RingNext]_historyVars
<1> SUFFICES ASSUME RingInv, DecodeLzs PROVE [RingNext]_historyVars
  OBVIOUS
<1> USE DEF ringVars, copyVars
<1>0. method' = method
  BY DEF DecodeLzs, LzsNext
<1>1. CASE lha_lzs_read
  BY <1>0, <1>1 DEF lha_lzs_read, Call, RingNext
<1>2. CASE LzsFail
  BY <1>0, <1>2 DEF LzsFail, historyVars
<1>3. CASE lzs_output_byte
  BY <1>0, <1>3, Zenon DEF lzs_output_byte, PutLiteral, Put, Byte, Ring, RingNext
<1>4. CASE lzs_output_block
  <2>1. PICK pos \in 0 .. Ring - 1, len \in 0 .. 2^LENGTH_BITS - 1 :
          BeginCopy(pos, len + LZS_THRESHOLD, ringbuf_pos - pos - 1)
    BY <1>4 DEF lzs_output_block
  <2>2. BeginCopy(pos, len + LZS_THRESHOLD, ringbuf_pos - pos - 1) /\ pos \in 0 .. Ring - 1
    BY <2>1 DEF BeginCopy, Back, Ring
  <2>3. len + LZS_THRESHOLD \in Nat
    BY <2>1, NumbersAssumption
  <2>4. QED
    BY <1>0, <2>2, <2>3, PlaceRefines
<1>5. CASE LzsCopyByte
  BY <1>0, <1>5 DEF LzsCopyByte, CopyTurn, Put, Ring, RingNext
<1>6. CASE LzsCopyDone
  BY <1>0, <1>6 DEF LzsCopyDone, CopyEnd, RingNext
<1>7. QED
  BY <1>1, <1>2, <1>3, <1>4, <1>5, <1>6 DEF DecodeLzs, LzsNext

(* Lz5: its steps. *)
LEMMA Lz5Refines == RingInv /\ DecodeLz5 => [RingNext]_historyVars
<1> SUFFICES ASSUME RingInv, DecodeLz5 PROVE [RingNext]_historyVars
  OBVIOUS
<1> USE DEF ringVars, copyVars
<1>0. method' = method
  BY DEF DecodeLz5, Lz5Next
<1>1. CASE lha_lz5_read
  BY <1>0, <1>1 DEF lha_lz5_read, Call, RingNext
<1>2. CASE Lz5Return
  BY <1>0, <1>2 DEF Lz5Return, historyVars
<1>3. CASE lz5_output_byte
  BY <1>0, <1>3, Zenon DEF lz5_output_byte, PutLiteral, Put, Byte, Ring, RingNext
<1>4. CASE lz5_output_block
  <2>1. PICK from \in 0 .. Ring - 1, len \in 0 .. 2^LENGTH_BITS - 1 :
          BeginCopy(from, len + LZ5_THRESHOLD, ringbuf_pos - from - 1)
    BY <1>4 DEF lz5_output_block
  <2>2. BeginCopy(from, len + LZ5_THRESHOLD, ringbuf_pos - from - 1) /\ from \in 0 .. Ring - 1
    BY <2>1 DEF BeginCopy, Back, Ring
  <2>3. len + LZ5_THRESHOLD \in Nat
    BY <2>1, NumbersAssumption
  <2>4. QED
    BY <1>0, <2>2, <2>3, PlaceRefines
<1>5. CASE Lz5CopyByte
  BY <1>0, <1>5 DEF Lz5CopyByte, CopyTurn, Put, Ring, RingNext
<1>6. CASE Lz5CopyDone
  BY <1>0, <1>6 DEF Lz5CopyDone, CopyEnd, RingNext
<1>7. QED
  BY <1>1, <1>2, <1>3, <1>4, <1>5, <1>6 DEF DecodeLz5, Lz5Next

(* Lh1Copy: its steps. *)
LEMMA Lh1Refines == RingInv /\ DecodeLh1 => [RingNext]_historyVars
<1> SUFFICES ASSUME RingInv, DecodeLh1 PROVE [RingNext]_historyVars
  OBVIOUS
<1> USE DEF ringVars, copyVars
<1>0. method' = method
  BY DEF DecodeLh1, Lh1Next
<1>1. CASE lha_lh1_read
  BY <1>0, <1>1 DEF lha_lh1_read, Call, RingNext
<1>2. CASE Lh1Fail
  BY <1>0, <1>2 DEF Lh1Fail, historyVars
<1>3. CASE lh1_output_byte
  BY <1>0, <1>3, Zenon DEF lh1_output_byte, PutLiteral, Put, Byte, Ring, RingNext
<1>4. CASE Lh1BeginCopy
  <2>1. PICK code \in LITERALS .. LH1_NUM_CODES - 1,
             future \in 0 .. 2^LOOKUP_BITS - 1, low \in 0 .. 2^LOW_BITS - 1 :
          BeginCopy(Lh1StartOf(read_offset(future, low)),
                        code - LITERALS + COPY_THRESHOLD, read_offset(future, low))
    BY <1>4 DEF Lh1BeginCopy
  <2>2. code - LITERALS + COPY_THRESHOLD \in Nat
    BY <2>1, RingAssumption, LhNewAssumption
  <2>3. PICK offset \in Int : offset = read_offset(future, low)
    <3>1. offset_lookup(future) \in Int /\ 2^LOW_BITS \in Int
      BY NumbersAssumption, Lh1Assumption
    <3>2. QED
      BY <2>1, <3>1 DEF read_offset
  <2>4. BeginCopy(Lh1StartOf(offset), code - LITERALS + COPY_THRESHOLD, offset)
    BY <2>1, <2>3 DEF BeginCopy, Back, Ring
  <2>5. Ring \in Int /\ ringbuf_pos \in Int
    BY RingPositive DEF RingInv, RingType
  <2>6. Lh1StartOf(offset) = (ringbuf_pos + Ring - offset - 1) % Ring
    <3>1. ringbuf_pos - offset + Ring - 1 = ringbuf_pos + Ring - offset - 1
      BY <2>5
    <3>2. QED
      BY <3>1 DEF Lh1StartOf, Ring
  <2>7. QED
    BY <1>0, <2>2, <2>4, <2>6, BeginRefines
<1>5. CASE Lh1CopyByte
  BY <1>0, <1>5 DEF Lh1CopyByte, CopyTurn, Put, Ring, RingNext
<1>6. CASE Lh1CopyDone
  BY <1>0, <1>6 DEF Lh1CopyDone, CopyEnd, RingNext
<1>7. QED
  BY <1>1, <1>2, <1>3, <1>4, <1>5, <1>6 DEF DecodeLh1, Lh1Next

(* Pm1: its steps. *)
LEMMA Pm1Refines == RingInv /\ DecodePm1 => [RingNext]_historyVars
<1> SUFFICES ASSUME RingInv, DecodePm1 PROVE [RingNext]_historyVars
  OBVIOUS
<1> USE DEF ringVars, copyVars
<1>0. method' = method
  BY DEF DecodePm1, Pm1Next
<1>1. CASE lha_pm1_read
  BY <1>0, <1>1 DEF lha_pm1_read, Call, RingNext
<1>2. CASE read_byte_block \/ BlockDone
  BY <1>0, <1>2 DEF read_byte_block, BlockDone, historyVars
<1>3. CASE BlockByte
  BY <1>0, <1>3, Zenon DEF BlockByte, PutLiteral, Put, Byte, Ring, RingNext
<1>4. CASE read_copy_command
  <2>1. PICK type \in read_copy_type_range(output_stream_pos) :
          \E num \in Pm1CopyCounts(type),
             dist \in Distances(type, output_stream_pos) \cap DistancesTried :
            \/ BeginCopy(Pm1StartOf(dist), num, dist)
            \/ UNCHANGED <<ringVars, copyVars>>
    BY <1>4 DEF read_copy_command
  <2>2. PICK num \in Pm1CopyCounts(type),
             dist \in Distances(type, output_stream_pos) \cap DistancesTried :
            \/ BeginCopy(Pm1StartOf(dist), num, dist)
            \/ UNCHANGED <<ringVars, copyVars>>
    BY <2>1
  <2>3. num \in Nat
    BY <2>2, Pm1Assumption DEF Pm1CopyCounts
  <2>4. dist \in Int
    BY <2>2 DEF Distances
  <2>5. CASE BeginCopy(Pm1StartOf(dist), num, dist)
    <3>1. BeginCopy(Pm1StartOf(dist), num, dist)
      BY <2>5 DEF BeginCopy, Back, Ring
    <3>2. Pm1StartOf(dist) = (ringbuf_pos + Ring - dist - 1) % Ring
      BY DEF Pm1StartOf, Ring
    <3>3. QED
      BY <1>0, <2>3, <2>4, <3>1, <3>2, BeginRefines
  <2>6. CASE UNCHANGED <<ringVars, copyVars>>
    BY <1>0, <2>6 DEF historyVars
  <2>7. QED
    BY <2>2, <2>5, <2>6
<1>5. CASE Pm1CopyByte
  BY <1>0, <1>5 DEF Pm1CopyByte, CopyTurn, Put, Ring, RingNext
<1>6. CASE Pm1CopyDone
  BY <1>0, <1>6 DEF Pm1CopyDone, CopyEnd, RingNext
<1>7. QED
  BY <1>1, <1>2, <1>3, <1>4, <1>5, <1>6 DEF DecodePm1, Pm1Next

-----------------------------------------------------------------------------
(* The trees *)

(* The trees of every decoder give numbers. *)
LEMMA TreesKept == TreesType /\ [DecodersNext]_allVars => TreesType'
<1> SUFFICES ASSUME TreesType, [DecodersNext]_allVars PROVE TreesType'
  OBVIOUS
<1>1. ASSUME method' = method, code_tree' = code_tree, offset_tree' = offset_tree PROVE TreesType'
  BY <1>1 DEF TreesType
<1>2. CASE UNCHANGED allVars
  BY <1>1, <1>2 DEF allVars, newVars, newTreeVars, historyVars
<1>3. CASE DecodeLh1 \/ DecodeLz5 \/ DecodeLzs \/ DecodePm1
  BY <1>1, <1>3 DEF DecodeLh1, DecodeLz5, DecodeLzs, DecodePm1,
                    Lh1Next, Lz5Next, LzsNext, Pm1Next
<1>4. CASE DecodePm2
  BY <1>4, Pm2TreesKept DEF DecodePm2, Pm2Decodes
<1>5. CASE DecodeNew
  BY <1>5, NewTreesKept DEF DecodeNew, NewDecodes
<1>6. QED
  BY <1>2, <1>3, <1>4, <1>5 DEF DecodersNext

-----------------------------------------------------------------------------
(* The first bytes *)

(* fill_initial: it fills the ring with bytes. *)
LEMMA FillInitial ==
  ASSUME method = "-lz5-"
  PROVE  fill_initial \in [0 .. Ring - 1 -> Byte]
<1> DEFINE runs   == [k \in 1 .. LITERALS * RUN |-> (k - 1) \div RUN]
           up     == [k \in 1 .. LITERALS |-> k - 1]
           down   == [k \in 1 .. LITERALS |-> LITERALS - k]
           zeros  == [k \in 1 .. ZEROS |-> 0]
           spaces == [k \in 1 .. SPACES |-> Space]
           last   == [k \in 1 .. LZ5_START_OFFSET |-> 0]
<1>1. /\ LITERALS \in Nat /\ RUN \in Nat /\ ZEROS \in Nat /\ SPACES \in Nat
      /\ LZ5_START_OFFSET \in Nat
  BY NumbersAssumption, RingAssumption
<1>2. Space \in Byte /\ 0 \in Byte
  BY <1>1, RingAssumption DEF Byte
<1>3. PICK size \in Nat : size = LITERALS * RUN
  BY <1>1
<1>4. runs \in Seq(Byte) /\ Len(runs) = size
  <2>1. RUN \in Nat \ {0}
    BY <1>1, Lz5Assumption
  <2>2. \A k \in 1 .. LITERALS * RUN : (k - 1) \div RUN \in Byte
    BY <1>1, <2>1, RunsInRange DEF Byte
  <2>3. QED
    BY <1>3, <2>2
<1>5. up \in Seq(Byte) /\ Len(up) = LITERALS
  BY <1>1 DEF Byte
<1>6. down \in Seq(Byte) /\ Len(down) = LITERALS
  BY <1>1 DEF Byte
<1>7. zeros \in Seq(Byte) /\ Len(zeros) = ZEROS
  BY <1>1, <1>2
<1>8. spaces \in Seq(Byte) /\ Len(spaces) = SPACES
  BY <1>1, <1>2
<1>9. last \in Seq(Byte) /\ Len(last) = LZ5_START_OFFSET
  BY <1>1, <1>2
<1>10. Lz5FirstBytes = runs \o up \o down \o zeros \o spaces \o last
  BY DEF Lz5FirstBytes
<1> HIDE DEF runs, up, down, zeros, spaces, last
<1>11. PICK first \in Seq(Byte) :
         /\ first = runs \o up \o down \o zeros \o spaces \o last
         /\ Len(first) = size + LITERALS + LITERALS + ZEROS + SPACES + LZ5_START_OFFSET
  <2>1. /\ runs \o up \o down \o zeros \o spaces \o last \in Seq(Byte)
        /\ Len(runs \o up \o down \o zeros \o spaces \o last)
             = Len(runs) + Len(up) + Len(down) + Len(zeros) + Len(spaces) + Len(last)
    <3>1. /\ runs \in Seq(Byte) /\ up \in Seq(Byte) /\ down \in Seq(Byte)
          /\ zeros \in Seq(Byte) /\ spaces \in Seq(Byte) /\ last \in Seq(Byte)
      BY <1>4, <1>5, <1>6, <1>7, <1>8, <1>9
    <3>2. QED
      BY ONLY <3>1, SixJoined
  <2>2. Len(runs \o up \o down \o zeros \o spaces \o last)
          = size + LITERALS + LITERALS + ZEROS + SPACES + LZ5_START_OFFSET
    BY <1>4, <1>5, <1>6, <1>7, <1>8, <1>9, <2>1, Zenon
  <2>3. QED
    BY ONLY <2>1, <2>2, Zenon
<1>12. Ring = Len(first)
  BY <1>1, <1>3, <1>11, Lz5Assumption DEF Ring
<1>13. fill_initial = [k \in 0 .. Ring - 1 |-> first[k + 1]]
  BY <1>10, <1>11 DEF fill_initial, Ring
<1>14. ASSUME NEW k \in 0 .. Len(first) - 1 PROVE first[k + 1] \in Byte
  <2>1. Len(first) \in Nat /\ k + 1 \in 1 .. Len(first)
    BY <1>11
  <2>2. QED
    BY ONLY <2>1, SeqElement, first \in Seq(Byte)
<1>15. QED
  BY <1>12, <1>13, <1>14

(* Every decoder starts as a RingInit, with trees of numbers. *)
LEMMA InitRefines == lha_decoder_for_name => RingInit /\ TreesType
<1> SUFFICES ASSUME lha_decoder_for_name PROVE RingInit /\ TreesType
  OBVIOUS
<1>1. method \in Methods
  BY DEF lha_decoder_for_name, Methods, NewMethods
<1>2. Ring \in Nat \ {0} /\ 0 \in 0 .. Ring - 1
  BY <1>1, RingPositive
<1>3. PICK spaces \in [0 .. Ring - 1 -> Byte] : spaces = [k \in 0 .. Ring - 1 |-> Space]
  BY RingAssumption, Zenon
<1>4. CASE method \in NewMethods /\ NewInit
  <2>1. InitRing(spaces, 0) /\ NoCopy /\ buf_len = 0
    BY <1>3, <1>4 DEF NewInit, lha_lh_new_init, Spaces
  <2>2. code_tree = {0} /\ offset_tree = {0}
    BY <1>4 DEF NewInit, lha_lh_new_init
  <2>3. 0 \in Bits(CODE_BITS[method])
    <3>1. NUM_CODES[method] \in Nat \ {0} /\ NUM_CODES[method] < 2^CODE_BITS[method]
      BY <1>4, LhNewAssumption
    <3>2. CODE_BITS[method] \in Nat
      BY <1>4, LhNewAssumption
    <3>3. 2^CODE_BITS[method] \in Int
      BY <3>2
    <3>4. QED
      BY <3>1, <3>3 DEF Bits
  <2>4. RingInit
    BY <1>1, <1>2, <2>1 DEF RingInit
  <2>5. QED
    BY <2>2, <2>3, <2>4 DEF TreesType
<1>5. CASE method = "-lh1-" /\ Lh1Init /\ NoTrees
  <2>1. InitRing(spaces, 0) /\ NoCopy /\ buf_len = 0
    <3>1. lha_lh1_init
      BY <1>5 DEF Lh1Init
    <3>2. InitRing(spaces, 0)
      BY <1>3, <3>1 DEF lha_lh1_init, Spaces, InitRing, Ring
    <3>3. NoCopy /\ buf_len = 0
      BY <1>5 DEF Lh1Init, NoCopy
    <3>4. QED
      BY <3>2, <3>3
  <2>2. RingInit
    BY <1>1, <1>2, <2>1 DEF RingInit
  <2>3. TreesType
    BY <1>5 DEF TreesType, NoTrees, NewMethods
  <2>4. QED
    BY <2>2, <2>3
<1>6. CASE method = "-lz5-" /\ Lz5Init /\ NoTrees
  <2>1. InitRing(fill_initial, Ring - LZ5_START_OFFSET) /\ NoCopy /\ buf_len = 0
    <3>1. lha_lz5_init
      BY <1>6 DEF Lz5Init
    <3>2. InitRing(fill_initial, Ring - LZ5_START_OFFSET)
      BY <3>1 DEF lha_lz5_init, InitRing, Ring
    <3>3. NoCopy /\ buf_len = 0
      BY <1>6 DEF Lz5Init, NoCopy
    <3>4. QED
      BY <3>2, <3>3
  <2>2. Ring - LZ5_START_OFFSET \in 0 .. Ring - 1
    BY <1>2, <1>6, Lz5Assumption DEF Ring
  <2>3. fill_initial \in [0 .. Ring - 1 -> Byte]
    BY <1>6, FillInitial
  <2>4. QED
    BY <1>1, <1>6, <2>1, <2>2, <2>3 DEF RingInit, TreesType, NoTrees, NewMethods
<1>7. CASE method = "-lzs-" /\ LzsInit /\ NoTrees
  <2>1. InitRing(spaces, Ring - LZS_START_OFFSET) /\ NoCopy /\ buf_len = 0
    <3>1. lha_lzs_init
      BY <1>7 DEF LzsInit
    <3>2. InitRing(spaces, Ring - LZS_START_OFFSET)
      <4>1. Spaces = spaces
        BY ONLY <1>3 DEF Spaces, Ring
      <4>2. QED
        BY ONLY <3>1, <4>1 DEF lha_lzs_init, InitRing, Ring
    <3>3. NoCopy /\ buf_len = 0
      BY <1>7 DEF LzsInit, NoCopy
    <3>4. QED
      BY <3>2, <3>3
  <2>2. Ring - LZS_START_OFFSET \in 0 .. Ring - 1
    BY <1>2, <1>7, LzsAssumption DEF Ring
  <2>3. RingInit
    BY <1>1, <2>2, <2>1 DEF RingInit
  <2>4. TreesType
    BY <1>7 DEF TreesType, NoTrees, NewMethods
  <2>5. QED
    BY <2>3, <2>4
<1>8. CASE method = "-pm1-" /\ Pm1Init /\ NoTrees
  <2>0. PICK zeros \in [0 .. Ring - 1 -> Byte] : zeros = [k \in 0 .. Ring - 1 |-> 0]
    <3>1. 0 \in Byte
      BY RingAssumption DEF Byte
    <3>2. QED
      BY <3>1, Zenon
  <2>1. InitRing(zeros, 0) /\ NoCopy /\ buf_len = 0
    <3>1. lha_pm1_init
      BY <1>8 DEF Pm1Init
    <3>2. InitRing(zeros, 0)
      BY <2>0, <3>1 DEF lha_pm1_init, InitRing, Ring
    <3>3. NoCopy /\ buf_len = 0
      BY <1>8 DEF Pm1Init, NoCopy
    <3>4. QED
      BY <3>2, <3>3
  <2>2. RingInit
    BY <1>1, <1>2, <2>1 DEF RingInit
  <2>3. TreesType
    BY <1>8 DEF TreesType, NoTrees, NewMethods
  <2>4. QED
    BY <2>2, <2>3
<1>9. CASE method = "-pm2-" /\ Pm2Init
  <2>1. InitRing(spaces, 0) /\ NoCopy /\ buf_len = 0
    <3>1. lha_pm2_decoder_init
      BY <1>9 DEF Pm2Init
    <3>2. InitRing(spaces, 0)
      BY <1>3, <3>1 DEF lha_pm2_decoder_init, Spaces, InitRing, Ring
    <3>3. NoCopy /\ buf_len = 0
      BY <1>9 DEF Pm2Init, NoCopy
    <3>4. QED
      BY <3>2, <3>3
  <2>2. code_tree = {0} /\ offset_tree = {0}
    BY <1>9 DEF Pm2Init, lha_pm2_decoder_init
  <2>3. RingInit
    BY <1>1, <1>2, <2>1 DEF RingInit
  <2>4. QED
    BY <1>9, <2>2, <2>3 DEF TreesType, NewMethods
<1>10. QED
  BY <1>4, <1>5, <1>6, <1>7, <1>8, <1>9 DEF lha_decoder_for_name

-----------------------------------------------------------------------------
(* Whichever decoder it is of, a step is one of the ring. *)
LEMMA StepRefines ==
  RingInv /\ TreesType /\ [DecodersNext]_allVars => [RingNext]_historyVars
<1> SUFFICES ASSUME RingInv, TreesType, [DecodersNext]_allVars PROVE [RingNext]_historyVars
  OBVIOUS
<1>1. CASE DecodersNext
  BY <1>1, NewRefines, Lh1Refines, Lz5Refines, LzsRefines, Pm1Refines, Pm2Refines
     DEF DecodersNext, DecodeNew, DecodePm2, NewDecodes, Pm2Decodes
<1>2. CASE UNCHANGED allVars
  BY <1>2 DEF allVars, newVars
<1>3. QED
  BY <1>1, <1>2

(* Every decoder implements the ring that HistoryRing specifies: whatever  *)
(* it decodes, it only adds bytes to its ring and output, or copies from a *)
(* distance that the ring reaches.                                         *)
THEOREM DecodersAreRings == DecodersSpec => RingSpec
<1>1. lha_decoder_for_name => RingInit /\ RingInv /\ TreesType
  BY InitRefines, RingInitInv
<1>2. RingInv /\ TreesType /\ [DecodersNext]_allVars => [RingNext]_historyVars
  BY StepRefines
<1>3. RingInv /\ TreesType /\ [DecodersNext]_allVars => RingInv' /\ TreesType'
  BY <1>2, RingNextInv, TreesKept
<1>4. QED
  BY <1>1, <1>2, <1>3, PTL DEF DecodersSpec, RingSpec

(* Copies of every decoder repeat the output. *)
THEOREM DecodersRepeat == DecodersSpec => []CopyRepeats
  BY DecodersAreRings, CopiesRepeat, PTL

-----------------------------------------------------------------------------
(* Output buffers and tables *)

(* -lz5-: each command done has added no more than the longest copy. *)
Longest == 2^LENGTH_BITS - 1 + LZ5_THRESHOLD

Lz5Room ==
  /\ pc \in {"idle", "command", "copying", "end"}
  /\ bit \in 0 .. COMMANDS
  /\ pc = "command" => buf_len <= bit * Longest
  /\ pc = "copying" => bit < COMMANDS /\ count <= Longest /\ buf_len <= bit * Longest + copied
  /\ pc \in {"idle", "end"} => buf_len <= Longest * COMMANDS

(* -pm1-: a block, of which block_left bytes are to come, and a copy. *)
Pm1Room ==
  /\ pc \in {"idle", "command", "block", "copy", "copying", "end"}
  /\ block_left \in Nat
  /\ pc = "command" => buf_len = 0
  /\ pc = "block" => buf_len + block_left <= MAX_BYTE_BLOCK_LEN
  /\ pc = "copy" => buf_len <= MAX_BYTE_BLOCK_LEN
  /\ pc = "copying" => /\ count <= MAX_COPY_BLOCK_LEN
                       /\ buf_len <= MAX_BYTE_BLOCK_LEN + copied
  /\ pc \in {"idle", "end"} => buf_len <= PM1_BUFFER_SIZE

RoomInv ==
  /\ method \in NewMethods => OneCommand(Ring) /\ TableRoom /\ NewTypes
  /\ method = "-lh1-" => OneCommand(Ring)
  /\ method = "-lz5-" => Lz5Room
  /\ method = "-lzs-" => OneCommand(LZS_BUFFER_SIZE)
  /\ method = "-pm1-" => Pm1Room
  /\ method = "-pm2-" => OneCommand(PM2_BUFFER_SIZE)

(* Lzs: its steps. *)
LEMMA LzsCommand ==
  ASSUME RingInv, DecodeLzs
  PROVE  OneCommandNext(LZS_BUFFER_SIZE)
<1> USE DEF ringVars, copyVars
<1>1. CASE lha_lzs_read
  BY <1>1 DEF lha_lzs_read, Call, OneCommandNext
<1>2. CASE LzsFail
  BY <1>2 DEF LzsFail, OneCommandNext
<1>3. CASE lzs_output_byte
  BY <1>3 DEF lzs_output_byte, PutLiteral, Put, OneCommandNext
<1>4. CASE lzs_output_block
  <2>1. PICK pos \in 0 .. Ring - 1, len \in 0 .. 2^LENGTH_BITS - 1 :
          BeginCopy(pos, len + LZS_THRESHOLD, ringbuf_pos - pos - 1)
    BY <1>4 DEF lzs_output_block
  <2>2. count' = len + LZS_THRESHOLD /\ copied' = 0 /\ buf_len' = buf_len
    BY <2>1 DEF BeginCopy
  <2>3. len + LZS_THRESHOLD <= 2^LENGTH_BITS - 1 + LZS_THRESHOLD
    <3>1. PICK threshold \in Nat, power \in Int : threshold = LZS_THRESHOLD /\ power = 2^LENGTH_BITS
      BY NumbersAssumption, PowersAssumption
    <3>2. len \in 0 .. power - 1
      BY <3>1
    <3>3. QED
      BY ONLY <3>1, <3>2
  <2>4. QED
    BY <1>4, <2>2, <2>3 DEF lzs_output_block, LZS_BUFFER_SIZE, OneCommandNext
<1>5. CASE LzsCopyByte
  BY <1>5 DEF LzsCopyByte, CopyTurn, Put, OneCommandNext
<1>6. CASE LzsCopyDone
  BY <1>6 DEF LzsCopyDone, CopyEnd, OneCommandNext
<1>7. QED
  BY <1>1, <1>2, <1>3, <1>4, <1>5, <1>6 DEF DecodeLzs, LzsNext

(* Lh1Copy: its steps. *)
LEMMA Lh1Command ==
  ASSUME RingInv, DecodeLh1
  PROVE  OneCommandNext(Ring)
<1> USE DEF ringVars, copyVars
<1>1. CASE lha_lh1_read
  BY <1>1 DEF lha_lh1_read, Call, OneCommandNext
<1>2. CASE Lh1Fail
  BY <1>2 DEF Lh1Fail, OneCommandNext
<1>3. CASE lh1_output_byte
  BY <1>3 DEF lh1_output_byte, PutLiteral, Put, OneCommandNext
<1>4. CASE Lh1BeginCopy
  <2>1. PICK code \in LITERALS .. LH1_NUM_CODES - 1 :
          count' = code - LITERALS + COPY_THRESHOLD /\ copied' = 0 /\ buf_len' = buf_len
    BY <1>4 DEF Lh1BeginCopy, BeginCopy
  <2>2. Ring = RING_BUFFER_SIZE["-lh1-"] /\ Ring \in Nat
    BY RingPositive DEF DecodeLh1, Ring, RingInv, RingType
  <2>3. code - LITERALS + COPY_THRESHOLD <= Ring
    BY <2>2, NumbersAssumption, RingAssumption, LhNewAssumption, Lh1Assumption
  <2>4. QED
    BY <1>4, <2>1, <2>3 DEF Lh1BeginCopy, OneCommandNext
<1>5. CASE Lh1CopyByte
  BY <1>5 DEF Lh1CopyByte, CopyTurn, Put, OneCommandNext
<1>6. CASE Lh1CopyDone
  BY <1>6 DEF Lh1CopyDone, CopyEnd, OneCommandNext
<1>7. QED
  BY <1>1, <1>2, <1>3, <1>4, <1>5, <1>6, SMTT(30) DEF DecodeLh1, Lh1Next

(* Lz5: one command more makes room for the longest copy more. *)
LEMMA Lz5Commands ==
  ASSUME NEW longest \in Nat, NEW num \in Nat, NEW most \in Nat
  PROVE  /\ num * longest \in Nat
         /\ (num + 1) * longest = num * longest + longest
         /\ num <= most => num * longest <= longest * most
<1>1. num * longest \in Nat /\ (num + 1) * longest = num * longest + longest
  OBVIOUS
<1>2. ASSUME num <= most PROVE num * longest <= longest * most
  <2>1. PICK d \in Nat : most = num + d
    BY <1>2
  <2>2. longest * most = num * longest + longest * d
    BY <2>1
  <2>3. longest * d >= 0 /\ longest * d \in Int
    BY <2>1
  <2>4. QED
    BY <1>1, <2>2, <2>3
<1>3. QED
  BY <1>1, <1>2

(* Lz5: a group of commands never outgrows its part of the buffer. *)
LEMMA Lz5Step ==
  ASSUME RingInv, Lz5Room, DecodeLz5
  PROVE  Lz5Room'
<1> USE DEF ringVars, copyVars
<1>1. PICK longest \in Nat \ {0} : longest = Longest
  BY NumbersAssumption, PowersAssumption, Lz5Assumption DEF Longest
<1>2. PICK most \in Nat : most = COMMANDS
  BY NumbersAssumption
<1>3. buf_len \in Nat /\ count \in Nat /\ copied \in Nat /\ copied <= count
  BY DEF RingInv, RingType, CopyType
<1>4. PICK room \in Nat : room = bit * longest /\ bit \in Nat
  BY <1>1, <1>2, Lz5Commands DEF Lz5Room
<1>5. PICK size \in Nat : size = longest * most
  BY <1>1, <1>2
<1>6. bit <= most /\ room <= size
  BY <1>1, <1>2, <1>4, <1>5, Lz5Commands DEF Lz5Room
<1>7. bit < most => (bit + 1) * longest = room + longest /\ room + longest <= size
  <2>1. (bit + 1) * longest = room + longest
    BY <1>1, <1>4, Lz5Commands
  <2>2. bit + 1 <= most => (bit + 1) * longest <= longest * most
    BY <1>1, <1>2, <1>4, Lz5Commands
  <2>3. QED
    BY <1>2, <1>4, <1>5, <2>1, <2>2
<1>8. /\ pc \in {"idle", "command", "copying", "end"}
      /\ pc = "command" => buf_len <= room
      /\ pc = "copying" => bit < most /\ count <= longest /\ buf_len <= room + copied
      /\ pc \in {"idle", "end"} => buf_len <= size
  BY <1>1, <1>2, <1>4, <1>5 DEF Lz5Room
<1>9. Lz5Room' =
        (/\ pc' \in {"idle", "command", "copying", "end"}
         /\ bit' \in 0 .. most
         /\ pc' = "command" => buf_len' <= bit' * longest
         /\ pc' = "copying" => bit' < most /\ count' <= longest
                                /\ buf_len' <= bit' * longest + copied'
         /\ pc' \in {"idle", "end"} => buf_len' <= size)
  BY <1>1, <1>2, <1>5, Zenon DEF Lz5Room, Longest
<1>10. CASE lha_lz5_read
  BY <1>1, <1>2, <1>9, <1>10 DEF lha_lz5_read, Call
<1>11. CASE lz5_output_byte
  <2>1. pc = "command" /\ pc' = pc /\ bit < most /\ bit' = bit + 1 /\ buf_len' = buf_len + 1
    BY <1>2, <1>11 DEF lz5_output_byte, PutLiteral, Put
  <2>2. bit' * longest = room + longest /\ bit' \in 0 .. most
    BY <1>2, <1>4, <1>7, <2>1
  <2>3. buf_len' <= room + longest
    BY <1>1, <1>3, <1>4, <1>8, <2>1
  <2>4. QED
    BY <1>9, <2>1, <2>2, <2>3
<1>12. CASE lz5_output_block
  <2>1. PICK len \in 0 .. 2^LENGTH_BITS - 1 :
          count' = len + LZ5_THRESHOLD /\ copied' = 0 /\ buf_len' = buf_len
    BY <1>12 DEF lz5_output_block, BeginCopy
  <2>2. pc = "command" /\ pc' = "copying" /\ bit < most /\ bit' = bit
    BY <1>2, <1>12 DEF lz5_output_block
  <2>3. count' <= longest
    <3>1. PICK threshold \in Nat, power \in Int : threshold = LZ5_THRESHOLD /\ power = 2^LENGTH_BITS
      BY NumbersAssumption, PowersAssumption
    <3>2. len \in 0 .. power - 1 /\ longest = power - 1 + threshold /\ count' = len + threshold
      BY <1>1, <2>1, <3>1 DEF Longest
    <3>3. QED
      BY ONLY <3>1, <3>2
  <2>4. bit' * longest + copied' = room /\ bit' \in 0 .. most
    BY <1>2, <1>4, <2>1, <2>2
  <2>5. QED
    BY <1>8, <1>9, <2>1, <2>2, <2>3, <2>4
<1>13. CASE Lz5CopyByte
  <2>1. /\ pc = "copying" /\ pc' = pc /\ bit' = bit /\ count' = count
        /\ copied' = copied + 1 /\ buf_len' = buf_len + 1
    BY <1>13 DEF Lz5CopyByte, CopyTurn, Put
  <2>2. bit' * longest = room /\ bit' \in 0 .. most
    BY <1>2, <1>4, <1>6, <2>1
  <2>3. buf_len' <= room + copied'
    BY <1>3, <1>4, <1>8, <2>1
  <2>4. QED
    BY <1>8, <1>9, <2>1, <2>2, <2>3
<1>14. CASE Lz5CopyDone
  <2>1. pc = "copying" /\ pc' = "command" /\ bit' = bit + 1 /\ buf_len' = buf_len
    BY <1>14 DEF Lz5CopyDone, CopyEnd
  <2>2. bit' * longest = room + longest /\ bit' \in 0 .. most
    BY <1>2, <1>4, <1>7, <1>8, <2>1
  <2>3. buf_len' <= room + longest
    BY <1>1, <1>3, <1>4, <1>8, <2>1
  <2>4. QED
    BY <1>9, <2>1, <2>2, <2>3
<1>15. CASE Lz5Return
  <2>1. pc = "command" /\ pc' \in {"idle", "end"} /\ bit' = 0 /\ buf_len' = buf_len
    BY <1>15 DEF Lz5Return
  <2>2. buf_len' <= size
    BY <1>3, <1>4, <1>5, <1>6, <1>8, <2>1
  <2>3. QED
    BY <1>2, <1>9, <2>1, <2>2
<1>16. QED
  BY <1>10, <1>11, <1>12, <1>13, <1>14, <1>15, SMTT(30) DEF DecodeLz5, Lz5Next

(* Pm1: the lengths that its codes stand for. *)
LEMMA Pm1Lengths ==
  /\ read_byte_block_count \subseteq 1 .. MAX_BYTE_BLOCK_LEN
  /\ \A type : Pm1CopyCounts(type) \subseteq 1 .. MAX_COPY_BLOCK_LEN
<1>1. /\ Bits(2) = 0 .. 3 /\ Bits(3) = 0 .. 7 /\ Bits(5) = 0 .. 31
      /\ Bits(6) = 0 .. 63 /\ Bits(7) = 0 .. 127
  BY PowersAssumption DEF Bits
<1>2. read_byte_block_count \subseteq 1 .. 216
  BY <1>1 DEF read_byte_block_count
<1>3. read_copy_byte_count \subseteq 1 .. 244
  BY <1>1 DEF read_copy_byte_count
<1>4. ASSUME NEW type PROVE Pm1CopyCounts(type) \subseteq 1 .. 244
  <2>1. CASE type < 2
    BY <2>1 DEF Pm1CopyCounts
  <2>2. CASE ~(type < 2)
    BY <1>3, <2>2, Zenon DEF Pm1CopyCounts
  <2>3. QED
    BY <2>1, <2>2
<1>5. QED
  BY <1>2, <1>4 DEF MAX_BYTE_BLOCK_LEN, MAX_COPY_BLOCK_LEN

(* Pm1: a block and the copy after it never outgrow the buffer. *)
LEMMA Pm1Step ==
  ASSUME RingInv, Pm1Room, DecodePm1
  PROVE  Pm1Room'
<1> USE DEF ringVars, copyVars, pm1Vars, MAX_BYTE_BLOCK_LEN, MAX_COPY_BLOCK_LEN, PM1_BUFFER_SIZE
<1>1. buf_len \in Nat /\ count \in Nat /\ copied \in Nat /\ copied <= count
  BY DEF RingInv, RingType, CopyType
<1>2. CASE lha_pm1_read
  BY <1>2 DEF lha_pm1_read, Call, Pm1Room
<1>3. CASE read_byte_block
  <2>1. PICK b \in 1 .. 216 : block_left' = b
    BY <1>3, Pm1Lengths DEF read_byte_block
  <2>2. pc' = "block" /\ buf_len' = 0
    BY <1>3 DEF read_byte_block, Pm1Room
  <2>3. b \in Nat /\ 0 + b <= 216
    OBVIOUS
  <2>4. QED
    BY <2>1, <2>2, <2>3 DEF Pm1Room
<1>4. CASE BlockByte
  <2>1. /\ pc = "block" /\ pc' = pc /\ block_left > 0 /\ block_left' = block_left - 1
        /\ buf_len' = buf_len + 1
    BY <1>4 DEF BlockByte, PutLiteral, Put
  <2>2. QED
    BY <1>1, <2>1 DEF Pm1Room
<1>5. CASE BlockDone
  <2>1. /\ pc = "block" /\ block_left = 0 /\ pc' \in {"idle", "copy"}
        /\ buf_len' = buf_len /\ block_left' = block_left
    BY <1>5 DEF BlockDone
  <2>2. QED
    BY <1>1, <2>1 DEF Pm1Room
<1>6. CASE read_copy_command
  <2>1. pc \in {"command", "copy"} /\ block_left' = block_left
    BY <1>6 DEF read_copy_command
  <2>2. PICK type : \E num \in Pm1CopyCounts(type) :
          \/ pc' = "copying" /\ count' = num /\ copied' = 0 /\ buf_len' = buf_len
          \/ pc' = "end" /\ buf_len' = buf_len
    BY <1>6 DEF read_copy_command, BeginCopy
  <2>3. PICK num \in 1 .. 244 :
          \/ pc' = "copying" /\ count' = num /\ copied' = 0 /\ buf_len' = buf_len
          \/ pc' = "end" /\ buf_len' = buf_len
    BY <2>2, Pm1Lengths
  <2>4. QED
    BY <1>1, <2>1, <2>3 DEF Pm1Room
<1>7. CASE Pm1CopyByte
  <2>1. /\ pc = "copying" /\ pc' = pc /\ block_left' = block_left /\ count' = count
        /\ copied' = copied + 1 /\ buf_len' = buf_len + 1
    BY <1>7 DEF Pm1CopyByte, CopyTurn, Put
  <2>2. QED
    BY <1>1, <2>1 DEF Pm1Room
<1>8. CASE Pm1CopyDone
  <2>1. pc = "copying" /\ pc' = "idle" /\ block_left' = block_left /\ buf_len' = buf_len
    BY <1>8 DEF Pm1CopyDone, CopyEnd
  <2>2. QED
    BY <1>1, <2>1 DEF Pm1Room
<1>9. QED
  BY <1>2, <1>3, <1>4, <1>5, <1>6, <1>7, <1>8 DEF DecodePm1, Pm1Next

(* A buffer has room for a literal. *)
LEMMA BufferSizes == LZS_BUFFER_SIZE \in Nat \ {0} /\ PM2_BUFFER_SIZE \in Nat \ {0}
<1>1. PICK power \in Int : power = 2^LENGTH_BITS /\ power > 0
  BY PowersAssumption
<1>2. PICK threshold \in Nat : threshold = LZS_THRESHOLD /\ threshold > 0
  BY NumbersAssumption, LzsAssumption
<1>3. PM2_BUFFER_SIZE \in Nat /\ PM2_BUFFER_SIZE > 0
  BY Pm2Assumption
<1>4. LZS_BUFFER_SIZE = power - 1 + threshold
  BY <1>1, <1>2 DEF LZS_BUFFER_SIZE
<1>5. QED
  BY ONLY <1>1, <1>2, <1>3, <1>4

(* Every decoder starts with an empty buffer. *)
LEMMA InitRoom == lha_decoder_for_name => RoomInv
<1> SUFFICES ASSUME lha_decoder_for_name PROVE RoomInv
  OBVIOUS
<1>1. pc = "idle" /\ buf_len = 0
  BY DEF lha_decoder_for_name, NewInit, Lh1Init, Lz5Init, LzsInit, Pm1Init, Pm2Init,
         lha_lh1_init, lha_lz5_init, lha_lzs_init, lha_pm1_init,
         lha_pm2_decoder_init
<1>2. method \in Methods
  BY DEF lha_decoder_for_name, Methods, NewMethods
<1>3. ASSUME NEW limit \in Nat PROVE OneCommand(limit)
  BY <1>1 DEF OneCommand
<1>4. /\ Ring \in Nat /\ PM2_BUFFER_SIZE \in Nat /\ LZS_BUFFER_SIZE \in Nat
      /\ Longest \in Nat /\ COMMANDS \in Nat
  <2>1. Ring \in Nat /\ PM2_BUFFER_SIZE \in Nat /\ LZS_BUFFER_SIZE \in Nat
    BY <1>2, RingPositive, BufferSizes
  <2>2. PICK threshold \in Nat, power \in Int :
          threshold = LZ5_THRESHOLD /\ power = 2^LENGTH_BITS /\ power > 0
    BY NumbersAssumption, PowersAssumption
  <2>3. Longest = power - 1 + threshold
    BY <2>2 DEF Longest
  <2>4. COMMANDS \in Nat
    BY NumbersAssumption
  <2>5. QED
    BY ONLY <2>1, <2>2, <2>3, <2>4
<1>5. ASSUME method \in NewMethods PROVE TableRoom /\ NewTypes
  <2>1. NewInit
    BY <1>5 DEF lha_decoder_for_name, NewMethods
  <2>2. 0 \in Bits(TEMP_CODE_BITS) /\ 0 \in Bits(CODE_BITS[method]) /\ 0 \in Bits(OFFSET_BITS[method])
    BY <1>5, TableSizes, LhNewAssumption DEF Bits, MAX_TEMP_CODES
  <2>3. MaxBlock \in Nat
    BY LhNewAssumption, SMTT(30)
  <2>4. NewTypes
    BY <2>1, <2>2, <2>3 DEF NewInit, lha_lh_new_init, NewTypes
  <2>5. QED
    BY <1>1, <2>4 DEF TableRoom
<1>6. ASSUME method = "-lz5-" PROVE Lz5Room
  <2>1. bit = 0
    BY <1>6 DEF lha_decoder_for_name, NewMethods, Lz5Init, lha_lz5_init
  <2>2. Longest * COMMANDS >= 0
    BY <1>4
  <2>3. QED
    BY <1>1, <1>4, <2>1, <2>2 DEF Lz5Room
<1>7. ASSUME method = "-pm1-" PROVE Pm1Room
  <2>1. block_left = 0
    BY <1>7 DEF lha_decoder_for_name, NewMethods, Pm1Init, lha_pm1_init
  <2>2. QED
    BY <1>1, <2>1 DEF Pm1Room, MAX_BYTE_BLOCK_LEN, MAX_COPY_BLOCK_LEN,
                      PM1_BUFFER_SIZE
<1>8. QED
  BY <1>3, <1>4, <1>5, <1>6, <1>7 DEF RoomInv

(* Every step of every decoder keeps to its buffer. *)
LEMMA NextRoom == RingInv /\ TreesType /\ RoomInv /\ [DecodersNext]_allVars => RoomInv'
<1> SUFFICES ASSUME RingInv, TreesType, RoomInv, [DecodersNext]_allVars PROVE RoomInv'
  BY SMTT(30)
<1>1. method' = method
  BY DEF DecodersNext, DecodeNew, DecodeLh1, DecodeLz5, DecodeLzs, DecodePm1, DecodePm2,
         NewNext, Lh1Next, Lz5Next, LzsNext, Pm1Next, Pm2Next, allVars, newVars, historyVars
<1>2. PICK size \in Nat \ {0} : size = Ring /\ size = Ring'
  BY <1>1, RingPositive DEF RingInv, RingType, Ring
<1>3. LZS_BUFFER_SIZE \in Nat \ {0} /\ PM2_BUFFER_SIZE \in Nat \ {0}
  BY BufferSizes
<1>4. CASE DecodeNew
  <2>1. NewDecodes /\ method \in NewMethods /\ OneCommand(size) /\ TableRoom /\ NewTypes
    BY <1>2, <1>4 DEF DecodeNew, NewDecodes, RoomInv
  <2>2. OneCommand(size)' /\ TableRoom' /\ NewTypes'
    BY <1>2, <2>1, NewCommand, OneCommandStep, TableStep, NewTypesStep
  <2>3. QED
    BY <1>1, <1>2, <2>1, <2>2 DEF RoomInv, NewMethods
<1>5. CASE DecodeLh1
  <2>1. method = "-lh1-" /\ OneCommand(size)
    BY <1>2, <1>5 DEF DecodeLh1, RoomInv
  <2>2. OneCommand(size)'
    BY <1>2, <1>5, <2>1, Lh1Command, OneCommandStep
  <2>3. QED
    BY <1>1, <1>2, <2>1, <2>2 DEF RoomInv, NewMethods
<1>6. CASE DecodeLz5
  <2>1. method = "-lz5-" /\ Lz5Room'
    BY <1>6, Lz5Step DEF DecodeLz5, RoomInv
  <2>2. QED
    BY <1>1, <2>1 DEF RoomInv, NewMethods
<1>7. CASE DecodeLzs
  <2>1. method = "-lzs-" /\ OneCommand(LZS_BUFFER_SIZE)
    BY <1>7 DEF DecodeLzs, RoomInv
  <2>2. PICK limit \in Nat \ {0} : limit = LZS_BUFFER_SIZE /\ limit = LZS_BUFFER_SIZE'
    BY <1>3 DEF LZS_BUFFER_SIZE
  <2>3. OneCommand(limit)'
    BY <1>7, <2>1, <2>2, LzsCommand, OneCommandStep
  <2>4. QED
    BY <1>1, <2>1, <2>2, <2>3 DEF RoomInv, NewMethods
<1>8. CASE DecodePm1
  <2>1. method = "-pm1-" /\ Pm1Room'
    BY <1>8, Pm1Step DEF DecodePm1, RoomInv
  <2>2. QED
    BY <1>1, <2>1 DEF RoomInv, NewMethods
<1>9. CASE DecodePm2
  <2>1. Pm2Decodes /\ method = "-pm2-" /\ OneCommand(PM2_BUFFER_SIZE)
    BY <1>9 DEF DecodePm2, Pm2Decodes, RoomInv
  <2>2. OneCommand(PM2_BUFFER_SIZE)'
    BY <1>3, <2>1, Pm2Command, OneCommandStep
  <2>3. QED
    BY <1>1, <2>1, <2>2 DEF RoomInv, NewMethods
<1>10. CASE UNCHANGED allVars
  <2>0. /\ UNCHANGED <<method, pc, block_remaining, newTreeVars, tableVars, bit, block_left>>
        /\ UNCHANGED <<buf_len, count, copied>>
    BY <1>10 DEF allVars, newVars, historyVars, ringVars, copyVars, newTreeVars, lz5Vars, pm1Vars
  <2>1. TableRoom /\ NewTypes => TableRoom' /\ NewTypes'
    BY <2>0, TablesStay
  <2>2. Lz5Room => Lz5Room'
    BY <2>0 DEF Lz5Room, Longest
  <2>3. Pm1Room => Pm1Room'
    BY <2>0 DEF Pm1Room, MAX_BYTE_BLOCK_LEN, MAX_COPY_BLOCK_LEN, PM1_BUFFER_SIZE
  <2>4. ASSUME NEW limit, OneCommand(limit) PROVE OneCommand(limit)'
    BY <2>0, <2>4 DEF OneCommand
  <2>5. QED
    BY <1>1, <1>2, <2>1, <2>2, <2>3, <2>4, SMTT(30) DEF RoomInv, LZS_BUFFER_SIZE
<1>11. QED
  BY <1>4, <1>5, <1>6, <1>7, <1>8, <1>9, <1>10 DEF DecodersNext

-----------------------------------------------------------------------------
(* The schedule of -pm2- *)

(* Every step of a decoder keeps to the schedule of -pm2-. *)
LEMMA NextSchedule == RingInv /\ ScheduleInv /\ [DecodersNext]_allVars => ScheduleInv'
<1> SUFFICES ASSUME RingInv, ScheduleInv, [DecodersNext]_allVars PROVE ScheduleInv'
  OBVIOUS
<1>1. CASE DecodePm2
  BY <1>1, Pm2Schedule DEF DecodePm2, Pm2Decodes
<1>2. CASE DecodeNew \/ DecodeLh1 \/ DecodeLz5 \/ DecodeLzs \/ DecodePm1
  <2>1. method' = method /\ method # "-pm2-"
    BY <1>2 DEF DecodeNew, DecodeLh1, DecodeLz5, DecodeLzs, DecodePm1, NewMethods,
                NewNext, Lh1Next, Lz5Next, LzsNext, Pm1Next
  <2>2. QED
    BY <2>1, SMTT(30) DEF ScheduleInv
<1>3. CASE UNCHANGED allVars
  BY <1>3, ScheduleKept DEF allVars, newVars, historyVars, ringVars, newTreeVars, pm2Vars, pm2TreeVars
<1>4. QED
  BY <1>1, <1>2, <1>3 DEF DecodersNext

(* Nothing is due before the first trees. *)
LEMMA InitSchedule == lha_decoder_for_name => ScheduleInv
<1> SUFFICES ASSUME lha_decoder_for_name, method = "-pm2-" PROVE ScheduleInv
  BY DEF ScheduleInv
<1>1. /\ tree_state = "UNBUILT" /\ tree_rebuild_remaining = 0 /\ offset_tree = {0}
      /\ pc = "idle"
  BY DEF lha_decoder_for_name, NewMethods, Pm2Init, lha_pm2_decoder_init
<1>2. RingType /\ CopyType /\ Len(out) = Ring
  <2>1. RingInit
    BY InitRefines
  <2>2. method \in Methods /\ buf_len = 0
    BY <2>1 DEF RingInit
  <2>3. PICK first \in [0 .. Ring - 1 -> Byte], pos \in 0 .. Ring - 1 : InitRing(first, pos)
    BY <2>1 DEF RingInit
  <2>4. QED
    BY <2>1, <2>2, <2>3, InitRingHolds, RingInitInv DEF RingInv
<1>3. Produced = 0 /\ OffsetCodes = 1
  <2>1. Ring \in Int
    BY <1>2, RingPositive DEF RingType
  <2>2. QED
    BY <1>1, <1>2, <2>1 DEF Produced, OffsetCodes
<1>4. QED
  BY <1>1, <1>3 DEF ScheduleInv

-----------------------------------------------------------------------------
(* What the invariant gives for each buffer and table. *)
LEMMA RoomFits == RingInv /\ RoomInv => BuffersFit
<1> SUFFICES ASSUME RingInv, RoomInv PROVE BuffersFit
  OBVIOUS
<1>1. PICK size \in Nat \ {0} : size = Ring
  BY RingPositive DEF RingInv, RingType
<1>2. OneCommand(size) => buf_len \in 0 .. Ring
  BY <1>1, OneCommandFits
<1>3. ASSUME method \in NewMethods PROVE LengthsFit /\ OutputFits
  <2>1. OneCommand(size) /\ TableRoom /\ NewTypes
    BY <1>1, <1>3, SMTT(30) DEF RoomInv
  <2>2. OutputFits
    BY <1>2, <2>1 DEF OutputFits, OUTPUT_BUFFER_SIZE, NewTypes
  <2>3. LengthsFit
    BY <1>3, <2>1, LengthsHold
  <2>4. QED
    BY <2>2, <2>3
<1>4. ASSUME method = "-lz5-" PROVE buf_len <= LZ5_BUFFER_SIZE
  <2>1. Lz5Room
    BY <1>4 DEF RoomInv
  <2>2. PICK longest \in Nat, most \in Nat : longest = Longest /\ most = COMMANDS
    BY NumbersAssumption, PowersAssumption DEF Longest
  <2>3. LZ5_BUFFER_SIZE = longest * most
    BY <2>2 DEF LZ5_BUFFER_SIZE, Longest
  <2>4. bit \in Nat /\ bit <= most /\ buf_len \in Nat /\ copied \in Nat
        /\ count \in Nat /\ copied <= count
    BY <2>1, <2>2 DEF Lz5Room, RingInv, RingType, CopyType
  <2>5. /\ bit * longest \in Nat /\ longest * most \in Nat /\ bit * longest <= longest * most
        /\ bit < most => bit * longest + longest <= longest * most
    <3>1. bit * longest \in Nat /\ bit * longest <= longest * most /\ longest * most \in Nat
      BY <2>2, <2>4, Lz5Commands
    <3>2. ASSUME bit < most PROVE bit * longest + longest <= longest * most
      <4>1. bit + 1 \in Nat /\ bit + 1 <= most
        BY <2>4, <3>2
      <4>2. (bit + 1) * longest <= longest * most
        BY <2>2, <4>1, Lz5Commands, SMTT(30)
      <4>3. QED
        BY <2>2, <2>4, <4>2, Lz5Commands
    <3>3. QED
      BY <3>1, <3>2
  <2>6. QED
    BY <2>1, <2>2, <2>3, <2>4, <2>5 DEF Lz5Room
<1>5. ASSUME method = "-pm1-" PROVE buf_len <= PM1_BUFFER_SIZE
  BY <1>5 DEF RoomInv, Pm1Room, RingInv, RingType, CopyType,
              MAX_BYTE_BLOCK_LEN, MAX_COPY_BLOCK_LEN, PM1_BUFFER_SIZE
<1>6. ASSUME method = "-lh1-" PROVE buf_len <= LH1_BUFFER_SIZE
  BY <1>1, <1>2, <1>6 DEF RoomInv, LH1_BUFFER_SIZE, Ring
<1>7. LZS_BUFFER_SIZE \in Nat \ {0} /\ PM2_BUFFER_SIZE \in Nat \ {0}
  BY BufferSizes
<1>8. ASSUME method = "-lzs-" PROVE buf_len <= LZS_BUFFER_SIZE
  BY <1>7, <1>8, OneCommandFits DEF RoomInv
<1>9. ASSUME method = "-pm2-" PROVE buf_len <= PM2_BUFFER_SIZE
  BY <1>7, <1>9, OneCommandFits DEF RoomInv
<1>10. QED
  BY <1>3, <1>4, <1>5, <1>6, <1>8, <1>9 DEF BuffersFit

(* The steps keep both invariants. *)
LEMMA DecodersInv ==
  DecodersSpec => [](RingInv /\ RoomInv /\ ScheduleInv)
<1>1. lha_decoder_for_name => RingInv /\ TreesType /\ RoomInv /\ ScheduleInv
  BY InitRefines, RingInitInv, InitRoom, InitSchedule
<1>2. RingInv /\ TreesType /\ RoomInv /\ ScheduleInv /\ [DecodersNext]_allVars
        => RingInv' /\ TreesType' /\ RoomInv' /\ ScheduleInv'
  BY StepRefines, RingNextInv, TreesKept, NextRoom, NextSchedule
<1>3. QED
  BY <1>1, <1>2, PTL DEF DecodersSpec

(* No call of any decoder overruns its output buffer, and no table of code *)
(* lengths is overrun or read where it has not been set, whatever the      *)
(* input says, for every size of the rings, codes and tables.              *)
THEOREM DecodersFit == DecodersSpec => []BuffersFit
  BY DecodersInv, RoomFits, PTL

(* -pm2- rebuilds its trees at 1, 2, 4 and 8 KiB and every 4 KiB after     *)
(* that, wherever in a copy that is, and its offsets stay in the output of *)
(* the stage.                                                              *)
THEOREM TreesOnSchedule == DecodersSpec => []RebuildsOnSchedule
<1>1. RingInv /\ ScheduleInv => RebuildsOnSchedule
  BY ScheduleHolds DEF RebuildsOnSchedule
<1>2. QED
  BY <1>1, DecodersInv, PTL
=============================================================================
