--------------------------- MODULE AdaptiveCodes ---------------------------
(***************************************************************************)
(* The two codes that change with what they decode: the Huffman tree of    *)
(* -lh1- and the history list of -pm1- and -pm2-.  The compression method  *)
(* of an entry chooses the decoder that runs, and with it the code.        *)
(***************************************************************************)
EXTENDS PmaHistory

CONSTANTS NUM_CODES, TREE_REORDER_LIMIT  \* of Lh1Tree

ASSUME Lh1Assumption ==
  /\ NUM_CODES \in Nat /\ NUM_CODES >= 2
  /\ TREE_REORDER_LIMIT \in Nat /\ TREE_REORDER_LIMIT > NUM_CODES

VARIABLES
  method,                                          \* compress_method
  nodes, leaf_nodes, groups, num_groups, group_leader,
  pc, node_index, lh1_code, leaf, child, weight    \* Lh1Tree

Lh1 == INSTANCE Lh1Tree WITH code <- lh1_code

lh1Vars == <<nodes, leaf_nodes, groups, num_groups, group_leader, pc, node_index,
             lh1_code, leaf, child, weight>>
allVars == <<listVars, method, lh1Vars>>

(* lha_decoder_for_name; each decoder sets up its own state. *)
lha_decoder_for_name ==
  /\ method \in {"-lh1-", "-pm1-"}
  /\ ListInit
  /\ Lh1!Init

DecodeLh1 == method = "-lh1-" /\ Lh1!Next /\ UNCHANGED <<listVars, method>>

DecodePma == method = "-pm1-" /\ Decode /\ UNCHANGED <<method, lh1Vars>>

AdaptiveSpec == lha_decoder_for_name /\ [][DecodeLh1 \/ DecodePma]_allVars

-----------------------------------------------------------------------------
(* The nodes of -lh1- are one tree (see Lh1Tree). *)
OneTree == Lh1!OneTree

(* Between codes it is a Huffman tree for the frequencies (see Lh1Tree). *)
HuffmanTree == Lh1!HuffmanTree

(* Its groups are the runs of equal frequency (see Lh1Tree). *)
GroupsExact == Lh1!GroupsExact
=============================================================================
