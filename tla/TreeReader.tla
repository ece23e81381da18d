----------------------------- MODULE TreeReader -----------------------------
(***************************************************************************)
(* Trees (TreeDecode) on a stream of bits (BitStream), as in the decoders: *)
(* each bit of a walk is a read_bit of the stream, and where there is no   *)
(* tree the decoder reads or peeks at numbers of bits.                     *)
(*                                                                         *)
(* The array may hold what any number of older trees have left when the    *)
(* bits are arbitrary ones; on a stream one tree is built, or none.        *)
(***************************************************************************)
EXTENDS TreeDecode, FiniteSetsExt

CONSTANTS ByteBits, BufferBits, MaxBytes   \* see BitStream

ASSUME BitStreamAssumption ==
  /\ ByteBits \in Nat \ {0} /\ BufferBits \in Nat /\ MaxBytes \in Nat
  /\ BufferBits % ByteBits = 0 /\ BufferBits > ByteBits

(* Powers of two, which a prover does not compute. *)
ASSUME PowersAssumption ==
  2^0 = 1 /\ \A k \in 0 .. BufferBits : 2^k \in Nat /\ 2^(k + 1) = 2 * 2^k

VARIABLES
  input, at, bit_buffer, bits, n, keep, result, taken, before, asked,
  source,   \* where bits come from: "any", or the "stream"
  walked    \* history: bits taken when the last walk began

Stream == INSTANCE BitStream

streamVars == <<input, at, bit_buffer, bits, n, keep, result, taken, before, asked>>
allVars    == <<vars, streamVars, source, walked>>

(* A tree is built, or a single code set, before the stream is read. *)
BuildFirst ==
  /\ tree = init_tree /\ at = 0 /\ n = -1
  /\ \/ \E c \in 0 .. NumCodes - 1 : set_tree_single(c)
     \/ \E lengths \in CodeLengths : build_tree(lengths)
  /\ UNCHANGED <<streamVars, walked>>

(* A decoder reads or peeks at a number of bits. *)
OtherBits ==
  /\ tree = init_tree /\ pc = "idle"
  /\ Stream!peek_bits \/ Stream!read_bits
  /\ UNCHANGED <<vars, walked>>

BeginWalk ==
  /\ n = -1
  /\ read_from_tree
  /\ walked' = taken
  /\ UNCHANGED streamVars

(* read_from_tree asks for the next bit, ... *)
read_bit ==
  /\ pc = "walk" /\ ~IsLeaf(code)
  /\ Stream!Call(1, 0)
  /\ UNCHANGED <<vars, walked>>

(* ... and the stream serves it, or what the decoder asked for. *)
Served ==
  /\ \/ Stream!Fill /\ UNCHANGED vars
     \/ /\ Stream!EndOfFile
        /\ IF pc = "walk" THEN OutOfBits ELSE UNCHANGED vars
     \/ /\ Stream!Return
        /\ IF pc = "walk" THEN FollowBit(result') ELSE UNCHANGED vars
  /\ UNCHANGED walked

Proceed ==
  \/ (BuildStep \/ ReachLeaf) /\ UNCHANGED <<streamVars, walked>>
  \/ read_bit
  \/ Served

ReaderInit == Init /\ Stream!Init /\ source \in {"any", "stream"} /\ walked = 0
                /\ (source = "any" => input = <<>>)

ReaderNext ==
  /\ \/ source = "any" /\ Next /\ UNCHANGED <<streamVars, walked>>
     \/ source = "stream" /\ (BuildFirst \/ OtherBits \/ BeginWalk \/ Proceed)
  /\ UNCHANGED source

ReaderSpec == ReaderInit /\ [][ReaderNext]_allVars

(* A function that has been called runs on: it never waits for anything. *)
FairReaderSpec ==
  /\ ReaderSpec
  /\ WF_allVars(source = "any" /\ (BuildStep \/ WalkStep) /\ UNCHANGED <<streamVars, walked, source>>)
  /\ WF_allVars(source = "stream" /\ Proceed /\ UNCHANGED source)

-----------------------------------------------------------------------------
(* The canonical Huffman code *)

Used == {c \in 0 .. NumCodes - 1 : code_lengths[c] > 0}

(* The lengths of a complete prefix code: their Kraft sum is exactly one. *)
Complete ==
  /\ Used # {}
  /\ MapThenSumSet(LAMBDA c : 2 ^ (MaxCodeLen - code_lengths[c]), Used)
       = 2 ^ MaxCodeLen

(* Shorter codes come first; codes of one length in order of symbol. *)
Before(c, d) ==
  \/ code_lengths[c] < code_lengths[d]
  \/ code_lengths[c] = code_lengths[d] /\ c < d

CanonicalWord(d) ==
  MapThenSumSet(LAMBDA c : 2 ^ (code_lengths[d] - code_lengths[c]),
                {c \in Used : Before(c, d)})

(* The element reached from the root by the bits of word, first bit first *)
Reached(word, len) ==
  LET reached[k \in 0 .. len] ==
        IF k = 0 THEN tree[0]
        ELSE IF IsLeaf(reached[k - 1]) THEN reached[k - 1]
        ELSE tree[reached[k - 1] + ((word \div 2 ^ (len - k)) % 2)]
  IN  reached[len]

-----------------------------------------------------------------------------
(* Properties *)

(* build_tree: for every complete set of code lengths the tree decodes the *)
(* canonical Huffman code, whatever older trees the array has held, and    *)
(* the build leaves no slot unused ("By the end of the tree build,         *)
(* next_entry should = tree_allocated").                                   *)
BuildsCanonicalCode ==
  built = 1 /\ Complete =>
    /\ next_entry = tree_allocated
    /\ \A c \in Used :
         Reached(CanonicalWord(c), code_lengths[c]) = LeafFor(c)

(* read_from_tree: the symbol it comes to is the one whose word the bits   *)
(* that it took from the stream are.                                       *)
WalkTakesWord ==
  source = "stream" /\ built = 1 /\ Complete /\ pc = "walk" /\ IsLeaf(code) =>
    LET c == CodeOf(code)
    IN  /\ c \in Used
        /\ taken - walked = code_lengths[c]
        /\ Stream!Number(walked, code_lengths[c]) = CanonicalWord(c)

(* build_tree and read_from_tree together decode the canonical code. *)
DecodesCanonicalCode == BuildsCanonicalCode /\ WalkTakesWord

(* peek_bits and read_bits return the next bits of the input, whatever the *)
(* portions that the callback gives, and fail only when there are too few. *)
BitsInOrder == Stream!ReadsInOrder /\ Stream!FailsOnlyAtEnd

(* build_tree, read_from_tree, peek_bits and read_bits return, for any     *)
(* code lengths and bits.                                                  *)
Terminates == pc # "idle" \/ n # -1 ~> pc = "idle" /\ n = -1
=============================================================================
