--------------------------- MODULE CopyDecoders ---------------------------
(***************************************************************************)
(* All the decoders that copy from a history.  lha_decoder_for_name        *)
(* chooses the one for the method of the entry; it has the ring of         *)
(* HistoryRing and whatever else it needs.                                 *)
(***************************************************************************)
EXTENDS LhNew, Lh1Copy, Lz5, Lzs, Pm1, Pm2

newVars == <<block_remaining, temp_tree, tableVars, blocks>>
lz5Vars == <<bit>>
pm2Vars == <<tree_state, tree_rebuild_remaining, need_offset_tree>>
allVars == <<historyVars, pc, code_tree, offset_tree, newVars, lz5Vars, pm1Vars, pm2Vars>>

ASSUME NumbersAssumption ==
  {LH1_NUM_CODES, MIN_OFFSET_LENGTH, LOOKUP_BITS, LOW_BITS, COMMANDS, LZ5_START_OFFSET,
   LZ5_THRESHOLD, RUN, ZEROS, SPACES, LZS_START_OFFSET, LZS_THRESHOLD, PM1_SHIFT} \subseteq Nat

(* Every code of an offset has been filled in, and a copy fits. *)
ASSUME Lh1Assumption ==
  /\ \A future \in 0 .. 2^LOOKUP_BITS - 1 : offset_lookup(future) \in Nat
  /\ RING_BUFFER_SIZE["-lh1-"] = NUM_OFFSETS * 2^LOW_BITS
  /\ LH1_NUM_CODES - 1 - LITERALS + COPY_THRESHOLD <= RING_BUFFER_SIZE["-lh1-"]

(* The first bytes fill the rings. *)
ASSUME Lz5Assumption ==
  /\ LZ5_START_OFFSET \in 1 .. RING_BUFFER_SIZE["-lz5-"] /\ RUN > 0 /\ LZ5_THRESHOLD > 0
  /\ RING_BUFFER_SIZE["-lz5-"] = LITERALS * RUN + 2 * LITERALS + ZEROS + SPACES + LZ5_START_OFFSET

ASSUME LzsAssumption ==
  LZS_START_OFFSET \in 1 .. RING_BUFFER_SIZE["-lzs-"] /\ LZS_THRESHOLD > 0

ASSUME Pm1Assumption == LengthsTried \subseteq Nat

-----------------------------------------------------------------------------
(* What the other decoders do not have. *)
NoLhNew == block_remaining = 0 /\ temp_tree = {0} /\ n = 0 /\ i = 0 /\ lengths = {} /\ blocks = 0
NoTrees == code_tree = {0} /\ offset_tree = {0}
NoLz5   == bit = 0
NoPm1   == output_stream_pos = 0 /\ byte_decode_tree = 0 /\ block_left = 0
NoPm2   == tree_state = "UNBUILT" /\ tree_rebuild_remaining = 0 /\ need_offset_tree = FALSE

lha_decoder_for_name ==
  \/ method \in NewMethods /\ NewInit /\ NoLz5 /\ NoPm1 /\ NoPm2
  \/ method = "-lh1-" /\ Lh1Init /\ NoLhNew /\ NoTrees /\ NoLz5 /\ NoPm1 /\ NoPm2
  \/ method = "-lz5-" /\ Lz5Init /\ NoLhNew /\ NoTrees /\ NoPm1 /\ NoPm2
  \/ method = "-lzs-" /\ LzsInit /\ NoLhNew /\ NoTrees /\ NoLz5 /\ NoPm1 /\ NoPm2
  \/ method = "-pm1-" /\ Pm1Init /\ NoLhNew /\ NoTrees /\ NoLz5 /\ NoPm2
  \/ method = "-pm2-" /\ Pm2Init /\ NoLhNew /\ NoLz5 /\ NoPm1

DecodeNew == method \in NewMethods /\ NewNext /\ UNCHANGED <<lz5Vars, pm1Vars, pm2Vars>>
DecodeLh1 ==
  method = "-lh1-" /\ Lh1Next /\ UNCHANGED <<newVars, code_tree, offset_tree, lz5Vars, pm1Vars, pm2Vars>>
DecodeLz5 ==
  method = "-lz5-" /\ Lz5Next /\ UNCHANGED <<newVars, code_tree, offset_tree, pm1Vars, pm2Vars>>
DecodeLzs ==
  method = "-lzs-" /\ LzsNext /\ UNCHANGED <<newVars, code_tree, offset_tree, lz5Vars, pm1Vars, pm2Vars>>
DecodePm1 ==
  method = "-pm1-" /\ Pm1Next /\ UNCHANGED <<newVars, code_tree, offset_tree, lz5Vars, pm2Vars>>
DecodePm2 == method = "-pm2-" /\ Pm2Next /\ UNCHANGED <<newVars, lz5Vars, pm1Vars>>

DecodersNext == DecodeNew \/ DecodeLh1 \/ DecodeLz5 \/ DecodeLzs \/ DecodePm1 \/ DecodePm2

DecodersSpec == lha_decoder_for_name /\ [][DecodersNext]_allVars

-----------------------------------------------------------------------------
(* A call never overruns the output buffer of its decoder, also where it   *)
(* decodes several commands (-lz5-), a block of bytes and a copy (-pm1-)   *)
(* or a code that is not in the table (-pm2-), nor that of the code        *)
(* lengths (-lh5- and -lk7-: see LhNew).                                   *)
BuffersFit ==
  /\ method \in NewMethods => LengthsFit /\ OutputFits
  /\ method = "-lh1-" => buf_len <= LH1_BUFFER_SIZE
  /\ method = "-lz5-" => buf_len <= LZ5_BUFFER_SIZE
  /\ method = "-lzs-" => buf_len <= LZS_BUFFER_SIZE
  /\ method = "-pm1-" => buf_len <= PM1_BUFFER_SIZE
  /\ method = "-pm2-" => buf_len <= PM2_BUFFER_SIZE

(* -pm2- rebuilds its trees on schedule (see Pm2). *)
RebuildsOnSchedule == method = "-pm2-" => Pm2OnSchedule

(* The offset codes of -lh5- and -lk7- give each distance that the ring    *)
(* has in one way, and the copy codes of -lk7- each length.                *)
NewCodesReach ==
  /\ \A offset \in 0 .. Ring - 1 :
       Cardinality({bits \in 0 .. MAX_OFFSET_CODES :
                      /\ method = "-lk7-" => bits < LHARK_OFFSETS
                      /\ offset \in read_offset_code(bits)}) = 1
  /\ \A num \in COPY_THRESHOLD .. LHARK_LONGEST :
       Cardinality({code \in 0 .. LHARK_LAST - 1 : num \in lhark_decode_copy_count(code)}) = 1

(* Between commands the codes of a decoder reach all of the history that   *)
(* there is, each byte in one way: the offset codes of -lh5-, -lk7- and    *)
(* -lh1- (init_offset_table) that of the ring, and those of -pm1-, whose   *)
(* ranges grow with the output (read_copy_command), all that has been      *)
(* output so far, by blocks or by copies.                                  *)
CodesReach ==
  /\ method \in NewMethods /\ pc = "idle" => NewCodesReach
  /\ method = "-lh1-" /\ pc = "idle" => OffsetsCoded
  /\ method = "-pm1-" /\ pc \in {"command", "copy"} => ReachesAll(Produced, output_stream_pos)
=============================================================================
