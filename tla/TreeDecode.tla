---------------------------- MODULE TreeDecode ----------------------------
(***************************************************************************)
(* The static Huffman trees of lib/tree_decode.c, shared by the -lh4- to   *)
(* -lh7-, -lhx-, -lk7- and -pm2- decoders.  A tree is one array of         *)
(* TreeElements; an element is a leaf (top bit set) or the index of the    *)
(* first of two adjacent children.  A decoder builds a new tree into the   *)
(* same array for every block, without clearing what the last one left.    *)
(***************************************************************************)
EXTENDS Integers

CONSTANTS
  TreeLen,        \* elements in the array (tree_len)
  TREE_NODE_LEAF, \* value of the leaf bit: 2^7 or 2^15 in the library
  NumCodes,       \* number of code lengths a block may supply
  MaxCodeLen      \* largest code length a block may supply

ASSUME TreeAssumption ==
  /\ TreeLen \in Nat \ {0}
  /\ TREE_NODE_LEAF \in Nat
  /\ TreeLen <= TREE_NODE_LEAF
  /\ NumCodes \in Nat
  /\ NumCodes <= TREE_NODE_LEAF
  /\ MaxCodeLen \in Nat

VARIABLES
  tree,            \* the array
  pc,              \* which function is running
  code_lengths,    \* argument of the build in progress, or of the last one
  next_entry,      \* TreeBuildData: next free slot
  tree_allocated,  \* TreeBuildData: slots allocated so far
  code_len,        \* build_tree: current code length
  i,               \* add_codes_with_length: loop index
  codes_remaining, \* add_codes_with_length: longer codes were seen
  code,            \* read_from_tree: current element
  built            \* history: 1 while the tree is the one code_lengths asked for

buildVars == <<code_lengths, next_entry, tree_allocated, code_len, i,
               codes_remaining>>
vars == <<tree, pc, buildVars, code, built>>

Index   == 0 .. TreeLen - 1
Element == 0 .. 2 * TREE_NODE_LEAF - 1
Codes   == 0 .. TREE_NODE_LEAF - 1

IsLeaf(e)  == e >= TREE_NODE_LEAF
LeafFor(c) == TREE_NODE_LEAF + c
CodeOf(e)  == e - TREE_NODE_LEAF

CodeLengths == [0 .. NumCodes - 1 -> 0 .. MaxCodeLen]

-----------------------------------------------------------------------------
(* init_tree, called once when the decoder is created. *)
init_tree == [k \in Index |-> TREE_NODE_LEAF]

(* A block that uses a single code. *)
set_tree_single(c) ==
  /\ pc = "idle"
  /\ tree' = [tree EXCEPT ![0] = LeafFor(c)]
  /\ built' = 0
  /\ UNCHANGED <<pc, buildVars, code>>

(* Mutant: the allocation counter is left over from the last tree. *)
build_tree_NoReset(lengths) ==
  /\ pc = "idle"
  /\ pc' = "expand"
  /\ code_lengths' = lengths
  /\ next_entry' = 0
  /\ code_len' = 0
  /\ built' = 0
  /\ UNCHANGED <<tree, tree_allocated, i, codes_remaining, code>>

(* Entry of build_tree: the queue holds the root slot alone. *)
build_tree(lengths) ==
  /\ pc = "idle"
  /\ pc' = "expand"
  /\ code_lengths' = lengths
  /\ next_entry' = 0
  /\ tree_allocated' = 1
  /\ code_len' = 0
  /\ built' = 0
  /\ UNCHANGED <<tree, i, codes_remaining, code>>

(* Every queued slot becomes a node with two new slots, if they all fit. *)
HasRoom == tree_allocated + (tree_allocated - next_entry) * 2 <= TreeLen

expand_queue ==
  IF HasRoom
  THEN /\ tree' = [k \in Index |->
                     IF k >= next_entry /\ k < tree_allocated
                     THEN tree_allocated + 2 * (k - next_entry)
                     ELSE tree[k]]
       /\ tree_allocated' = tree_allocated + (tree_allocated - next_entry) * 2
       /\ next_entry' = tree_allocated
  ELSE UNCHANGED <<tree, tree_allocated, next_entry>>

(* Mutant: the code length is never advanced. *)
NextLength_SameLength ==
  /\ pc = "expand"
  /\ expand_queue
  /\ pc' = "add"
  /\ i' = 0
  /\ codes_remaining' = 0
  /\ UNCHANGED <<code_lengths, code_len, code, built>>

(* Top of build_tree's loop: one level deeper, then a pass over the codes. *)
NextLength ==
  /\ pc = "expand"
  /\ expand_queue
  /\ code_len' = code_len + 1
  /\ pc' = "add"
  /\ i' = 0
  /\ codes_remaining' = 0
  /\ UNCHANGED <<code_lengths, code, built>>

(* The slot that the next code takes: the root again once none is free. *)
read_next_entry == IF next_entry >= tree_allocated THEN 0 ELSE next_entry

AdvanceEntry ==
  next_entry' = IF next_entry >= tree_allocated
                THEN next_entry ELSE next_entry + 1

(* One iteration of add_codes_with_length. *)
add_codes_with_length ==
  /\ pc = "add"
  /\ i < NumCodes
  /\ i' = i + 1
  /\ \/ /\ code_lengths[i] = code_len
        /\ tree' = [tree EXCEPT ![read_next_entry] = LeafFor(i)]
        /\ AdvanceEntry
        /\ UNCHANGED codes_remaining
     \/ /\ code_lengths[i] > code_len
        /\ codes_remaining' = 1
        /\ UNCHANGED <<tree, next_entry>>
     \/ /\ code_lengths[i] < code_len
        /\ UNCHANGED <<tree, next_entry, codes_remaining>>
  /\ UNCHANGED <<pc, code_lengths, tree_allocated, code_len, code, built>>

(* End of a pass: build_tree goes round again while codes remain. *)
EndOfPass ==
  /\ pc = "add"
  /\ i = NumCodes
  /\ pc' = IF codes_remaining = 1 THEN "expand" ELSE "idle"
  /\ i' = 0
  /\ codes_remaining' = 0
  /\ code_len' = IF codes_remaining = 1 THEN code_len ELSE 0
  /\ built' = 1 - codes_remaining
  /\ UNCHANGED <<tree, code_lengths, next_entry, tree_allocated, code>>

-----------------------------------------------------------------------------
(* read_from_tree: start at the root, follow one bit at a time to a leaf. *)
read_from_tree ==
  /\ pc = "idle"
  /\ pc' = "walk"
  /\ code' = tree[0]
  /\ UNCHANGED <<tree, buildVars, built>>

(* Mutant: the next element is not fetched from the tree. *)
FollowBit_NoFetch(bit) ==
  /\ pc = "walk"
  /\ ~IsLeaf(code)
  /\ code' = code + bit
  /\ UNCHANGED <<tree, pc, buildVars, built>>

FollowBit(bit) ==
  /\ pc = "walk"
  /\ ~IsLeaf(code)
  /\ code' = tree[code + bit]
  /\ UNCHANGED <<tree, pc, buildVars, built>>

(* The bit stream ended: read_bit returns -1 and so does the walk. *)
OutOfBits ==
  /\ pc = "walk"
  /\ ~IsLeaf(code)
  /\ pc' = "idle"
  /\ code' = TREE_NODE_LEAF
  /\ UNCHANGED <<tree, buildVars, built>>

ReachLeaf ==
  /\ pc = "walk"
  /\ IsLeaf(code)
  /\ pc' = "idle"
  /\ code' = TREE_NODE_LEAF
  /\ UNCHANGED <<tree, buildVars, built>>

-----------------------------------------------------------------------------
Init ==
  /\ tree = init_tree
  /\ pc = "idle"
  /\ code_lengths = [k \in 0 .. NumCodes - 1 |-> 0]
  /\ next_entry = 0
  /\ tree_allocated = 1
  /\ code_len = 0
  /\ i = 0
  /\ codes_remaining = 0
  /\ code = TREE_NODE_LEAF
  /\ built = 0

BuildStep == NextLength \/ add_codes_with_length \/ EndOfPass
WalkStep  == (\E bit \in {0, 1} : FollowBit(bit)) \/ OutOfBits \/ ReachLeaf

Next ==
  \/ \E c \in Codes : set_tree_single(c)
  \/ \E lengths \in CodeLengths : build_tree(lengths)
  \/ BuildStep
  \/ read_from_tree
  \/ WalkStep

Spec == Init /\ [][Next]_vars

-----------------------------------------------------------------------------
(* The tree, the queue indices of TreeBuildData and the position of a      *)
(* reader stay in their types.                                             *)
TypeOK ==
  /\ tree \in [Index -> Element]
  /\ pc \in {"idle", "expand", "add", "walk"}
  /\ code_lengths \in CodeLengths
  /\ next_entry \in Nat
  /\ tree_allocated \in Nat
  /\ code_len \in Nat
  /\ i \in 0 .. NumCodes
  /\ codes_remaining \in {0, 1}
  /\ code \in Element
  /\ built \in {0, 1}

(* A pointer stored at index k leads strictly forward to two slots. *)
GoodElement(e, k) == IsLeaf(e) \/ (k < e /\ e + 1 < TreeLen)

(* tree_decode.c: whatever sequence of blocks was decoded, and whatever is *)
(* left in the array from earlier trees or from code lengths that over- or *)
(* under-subscribe the tree, every pointer leads forward to two elements   *)
(* of the array: a walk can neither leave the array nor go round in it.    *)
PointersForward == \A k \in Index : GoodElement(tree[k], k)

(* build_tree never allocates past the array nor fills an unallocated slot *)
(* ("size (must not be exceeded)" in TreeBuildData).                       *)
QueueInTree == next_entry <= tree_allocated /\ tree_allocated <= TreeLen

(* read_from_tree only ever indexes inside the array, for both bits.       *)
WalkInBounds == pc = "walk" /\ ~IsLeaf(code) => code + 1 < TreeLen

(* The queue is never empty of allocated slots: the root is always there. *)
RootAllocated == tree_allocated >= 1

(* tree_decode.c: building and walking stay inside the array, for any code *)
(* lengths, any bits and any trees that the array has held before.         *)
TreeSound ==
  /\ TypeOK
  /\ PointersForward
  /\ QueueInTree
  /\ RootAllocated
  /\ WalkInBounds

(* A walk makes progress: each bit leads to a later element or to a leaf.  *)
WalkAdvances == [][pc = "walk" /\ pc' = "walk" => IsLeaf(code') \/ code' > code]_vars
=============================================================================
