---------------------------- MODULE RingDecoder ----------------------------
(***************************************************************************)
(* What the modules of the decoders declare in common.                     *)
(***************************************************************************)
EXTENDS HistoryRing

CONSTANTS
  COPY_THRESHOLD,  \* 3: shortest copy of -lh1- and of the -lh5- family
  LENGTH_BITS      \* 4: width of a length of -lz5- and -lzs-

VARIABLES
  pc,                     \* where the read function of the decoder is: "idle"
                          \* between calls, "end" when it has returned 0
  code_tree, offset_tree  \* the codes each tree can give (-lh5-, -lk7-, -pm2-)

Bits(k) == 0 .. 2^k - 1

(* Powers of two, which a prover does not compute. *)
ASSUME PowersAssumption ==
  /\ LENGTH_BITS \in Nat /\ 2^LENGTH_BITS > 0
  /\ 2^0 = 1 /\ 2^2 = 4 /\ 2^3 = 8 /\ 2^5 = 32 /\ 2^6 = 64 /\ 2^7 = 128
=============================================================================
