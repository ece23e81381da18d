----------------------------- MODULE CodeProofs -----------------------------
(***************************************************************************)
(* Proofs about what turns the bits of the input into a byte.              *)
(*                                                                         *)
(* TreeDecode: for every array length, leaf bit, number of codes and code  *)
(* length, a walk stays inside the array and moves forward.                *)
(*                                                                         *)
(* PmaHistory: for every number of characters, the links of the history    *)
(* list agree, and the ring implements the list of MoveToFront.            *)
(*                                                                         *)
(* TreeReader: for every width of a byte and of the buffer, the bits that  *)
(* peek_bits and read_bits return are those of the input, in order.        *)
(***************************************************************************)
EXTENDS TreeReader, PmaHistory, WellFoundedInduction, TLAPS

-----------------------------------------------------------------------------
(* Huffman trees *)

(* What the assumptions on the constants give the provers. *)
LEMMA ConstantFacts ==
  /\ TreeLen \in Nat /\ TreeLen >= 1
  /\ TREE_NODE_LEAF \in Nat /\ TreeLen <= TREE_NODE_LEAF
  /\ NumCodes \in Nat /\ NumCodes <= TREE_NODE_LEAF
  /\ MaxCodeLen \in Nat
  BY TreeAssumption

(* A leaf may be stored anywhere in the array. *)
LEMMA LeafIsGood ==
  ASSUME NEW c \in Codes, NEW k \in Index
  PROVE  LeafFor(c) \in Element /\ GoodElement(LeafFor(c), k)
  BY ConstantFacts DEF Codes, Index, LeafFor, Element, GoodElement, IsLeaf

(* Storing a leaf keeps every pointer good. *)
LEMMA StoreLeaf ==
  ASSUME NEW c \in Codes, NEW k \in Index,
         tree \in [Index -> Element], PointersForward,
         tree' = [tree EXCEPT ![k] = LeafFor(c)]
  PROVE  tree' \in [Index -> Element] /\ PointersForward'
  BY LeafIsGood DEF PointersForward

(* expand_queue points each queued slot at two fresh slots further on. *)
LEMMA ExpandKeepsPointers ==
  ASSUME TypeOK, PointersForward, QueueInTree, RootAllocated, expand_queue
  PROVE  /\ tree' \in [Index -> Element]
         /\ PointersForward'
         /\ next_entry' \in Nat /\ tree_allocated' \in Nat
         /\ QueueInTree'
         /\ RootAllocated'
<1>1. CASE HasRoom
  <2> DEFINE New(k) == tree_allocated + 2 * (k - next_entry)
  <2>1. ASSUME NEW k \in Index, k >= next_entry, k < tree_allocated
        PROVE  New(k) \in Element /\ GoodElement(New(k), k)
    BY <1>1, <2>1, ConstantFacts
       DEF HasRoom, TypeOK, QueueInTree, Index, Element, GoodElement
  <2>2. /\ tree' = [k \in Index |-> IF k >= next_entry /\ k < tree_allocated
                                    THEN New(k) ELSE tree[k]]
        /\ tree_allocated' = tree_allocated + (tree_allocated - next_entry) * 2
        /\ next_entry' = tree_allocated
    BY <1>1 DEF expand_queue
  <2>3. tree' \in [Index -> Element] /\ PointersForward'
    BY <2>1, <2>2 DEF TypeOK, PointersForward
  <2>4. /\ next_entry' \in Nat /\ tree_allocated' \in Nat
        /\ QueueInTree' /\ RootAllocated'
    BY <1>1, <2>2, ConstantFacts
       DEF HasRoom, TypeOK, QueueInTree, RootAllocated
  <2> QED BY <2>3, <2>4
<1>2. CASE ~HasRoom
  BY <1>2 DEF expand_queue, TypeOK, PointersForward, QueueInTree, RootAllocated
<1> QED BY <1>1, <1>2

(* The inductive invariant holds before anything is built. *)
LEMMA InitSound == Init => TreeSound
<1> SUFFICES ASSUME Init PROVE TreeSound
  OBVIOUS
<1>1. TREE_NODE_LEAF \in Element /\ IsLeaf(TREE_NODE_LEAF)
  BY ConstantFacts DEF Element, IsLeaf
<1>2. tree \in [Index -> Element] /\ PointersForward
  BY <1>1 DEF Init, init_tree, PointersForward, GoodElement
<1>3. code_lengths \in CodeLengths
  BY ConstantFacts DEF Init, CodeLengths
<1> QED BY <1>1, <1>2, <1>3, ConstantFacts
        DEF Init, TreeSound, TypeOK, QueueInTree, RootAllocated, WalkInBounds

(* Every step of building and of reading preserves it. *)
LEMMA NextSound == TreeSound /\ [Next]_vars => TreeSound'
<1> SUFFICES ASSUME TreeSound, [Next]_vars PROVE TreeSound'
  OBVIOUS
<1> USE ConstantFacts
<1>1. ASSUME NEW c \in Codes, set_tree_single(c) PROVE TreeSound'
  <2>1. 0 \in Index
    BY DEF Index
  <2>2. tree' \in [Index -> Element] /\ PointersForward'
    BY <1>1, <2>1, StoreLeaf, Zenon DEF set_tree_single, TreeSound, TypeOK
  <2> QED BY <1>1, <2>2 DEF set_tree_single, TreeSound, TypeOK, buildVars,
             QueueInTree, RootAllocated, WalkInBounds
<1>2. ASSUME NEW lengths \in CodeLengths, build_tree(lengths) PROVE TreeSound'
  BY <1>2 DEF build_tree, TreeSound, TypeOK, PointersForward, QueueInTree,
     RootAllocated, WalkInBounds
<1>3. CASE NextLength
  <2>1. /\ tree' \in [Index -> Element] /\ PointersForward'
        /\ next_entry' \in Nat /\ tree_allocated' \in Nat
        /\ QueueInTree' /\ RootAllocated'
    BY <1>3, ExpandKeepsPointers DEF NextLength, TreeSound
  <2> QED BY <1>3, <2>1 DEF NextLength, TreeSound, TypeOK, WalkInBounds
<1>4. CASE add_codes_with_length
  <2>1. i \in Codes /\ read_next_entry \in Index
    BY <1>4 DEF add_codes_with_length, TreeSound, TypeOK, Codes, read_next_entry,
       QueueInTree, Index
  <2>2. tree' \in [Index -> Element] /\ PointersForward'
    BY <1>4, <2>1, StoreLeaf
       DEF add_codes_with_length, TreeSound, TypeOK, PointersForward
  <2>3. next_entry' \in Nat /\ QueueInTree'
    BY <1>4 DEF add_codes_with_length, AdvanceEntry, TreeSound, TypeOK, QueueInTree
  <2> QED BY <1>4, <2>2, <2>3 DEF add_codes_with_length, TreeSound, TypeOK,
             RootAllocated, WalkInBounds
<1>5. CASE EndOfPass
  BY <1>5 DEF EndOfPass, TreeSound, TypeOK, PointersForward, QueueInTree,
     RootAllocated, WalkInBounds
<1>6. CASE read_from_tree
  BY <1>6 DEF read_from_tree, TreeSound, TypeOK, buildVars, PointersForward,
     GoodElement, QueueInTree, RootAllocated, WalkInBounds, Index
<1>7. ASSUME NEW bit \in {0, 1}, FollowBit(bit) PROVE TreeSound'
  <2>1. code + bit \in Index
    BY <1>7 DEF FollowBit, TreeSound, TypeOK, WalkInBounds, Index, Element
  <2> QED BY <1>7, <2>1 DEF FollowBit, TreeSound, TypeOK, buildVars,
             PointersForward, GoodElement, QueueInTree, RootAllocated,
             WalkInBounds, Index
<1>8. CASE OutOfBits \/ ReachLeaf
  BY <1>8 DEF OutOfBits, ReachLeaf, TreeSound, TypeOK, buildVars, PointersForward,
     QueueInTree, RootAllocated, WalkInBounds, Element
<1>9. CASE UNCHANGED vars
  BY <1>9 DEF vars, buildVars, TreeSound, TypeOK, PointersForward, QueueInTree,
     RootAllocated, WalkInBounds
<1> QED BY <1>1, <1>2, <1>3, <1>4, <1>5, <1>6, <1>7, <1>8, <1>9
        DEF Next, BuildStep, WalkStep

(* The invariant, which is inductive, holds of every behaviour. *)
THEOREM Invariance == Spec => []TreeSound
  BY InitSound, NextSound, PTL DEF Spec

(* tree_decode.c: whatever blocks were decoded before, every pointer in    *)
(* the array leads forward to two elements of the array.                   *)
THEOREM PointersAlwaysForward == Spec => []PointersForward
<1>1. TreeSound => PointersForward
  BY DEF TreeSound
<1> QED BY <1>1, Invariance, PTL

(* tree_decode.c: build_tree stays inside the array it was given.          *)
THEOREM BuildStaysInTree == Spec => []QueueInTree
<1>1. TreeSound => QueueInTree
  BY DEF TreeSound
<1> QED BY <1>1, Invariance, PTL

(* read_from_tree never reads outside the array, whatever bits it is fed.  *)
THEOREM WalkStaysInTree == Spec => []WalkInBounds
<1>1. TreeSound => WalkInBounds
  BY DEF TreeSound
<1> QED BY <1>1, Invariance, PTL

(* read_from_tree moves strictly forward until it meets a leaf, so that it *)
(* reads fewer bits than the array has elements.                           *)
THEOREM WalkMovesForward == Spec => WalkAdvances
<1>1. TreeSound /\ [Next]_vars =>
        [pc = "walk" /\ pc' = "walk" => IsLeaf(code') \/ code' > code]_vars
  <2> SUFFICES ASSUME TreeSound, Next, pc = "walk", pc' = "walk"
               PROVE  IsLeaf(code') \/ code' > code
    OBVIOUS
  <2>1. PICK bit \in {0, 1} : FollowBit(bit)
    BY DEF Next, set_tree_single, build_tree, BuildStep, NextLength,
       add_codes_with_length, EndOfPass, read_from_tree, WalkStep, OutOfBits,
       ReachLeaf
  <2>2. code + bit \in Index
    BY <2>1, ConstantFacts
       DEF FollowBit, TreeSound, TypeOK, WalkInBounds, Index, Element
  <2>3. GoodElement(tree[code + bit], code + bit)
    BY <2>2, SMTT(30) DEF TreeSound, PointersForward
  <2> QED BY <2>1, <2>2, <2>3, ConstantFacts
          DEF FollowBit, GoodElement, TreeSound, TypeOK, Index, Element
<1> QED BY <1>1, Invariance, PTL DEF Spec, WalkAdvances

-----------------------------------------------------------------------------
(* The history list *)

(* The state is a doubly linked ring with its head among the characters. *)
Ring ==
  /\ prev \in [Chars -> Chars] /\ next \in [Chars -> Chars]
  /\ history_head \in Chars

(* init_history_list: the chain is cut and joined at matching places. *)
THEOREM InitLinksAgree == init_history_list => Ring /\ LinksAgree
<1> SUFFICES ASSUME init_history_list PROVE Ring /\ LinksAgree
  OBVIOUS
<1>1. Group \in Nat /\ Group >= 1 /\ Size = 8 * Group
  BY GroupAssumption DEF Size
<1>2. history_head \in Chars
  BY <1>1 DEF init_history_list, Chars
<1>3. ASSUME NEW c \in Chars
      PROVE  /\ prev[c] \in Chars /\ next[c] \in Chars
             /\ next[prev[c]] = c /\ prev[next[c]] = c
  <2> DEFINE ends == {4 * Group - 1, Group - 1, 7 * Group - 1, 5 * Group - 1, Size - 1}
  <2> DEFINE starts == {0, 5 * Group, 4 * Group, 7 * Group, Group}
  <2>0. c \in Int /\ 0 <= c /\ c <= Size - 1
    BY <1>1, <1>3 DEF Chars
  <2>1. ASSUME NEW d \in Chars, d \notin ends PROVE prev[d] = d + 1
    BY <2>1 DEF init_history_list
  <2>2. ASSUME NEW d \in Chars, d \notin starts PROVE next[d] = d - 1
    BY <2>2 DEF init_history_list
  <2>3. ends \subseteq Chars /\ starts \subseteq Chars
    BY <1>1 DEF Chars
  <2>4. /\ prev[4 * Group - 1] = 0 /\ next[0] = 4 * Group - 1
        /\ prev[Group - 1] = 5 * Group /\ next[5 * Group] = Group - 1
        /\ prev[7 * Group - 1] = 4 * Group /\ next[4 * Group] = 7 * Group - 1
        /\ prev[5 * Group - 1] = 7 * Group /\ next[7 * Group] = 5 * Group - 1
        /\ prev[Size - 1] = Group /\ next[Group] = Size - 1
    BY <1>1, <2>3 DEF init_history_list
  <2>5. prev[c] \in Chars /\ next[prev[c]] = c
    <3>1. CASE c \in ends
      BY <3>1, <2>3, <2>4, <1>1, <2>0
    <3>2. CASE c \notin ends
      <4>1. prev[c] = c + 1 /\ c + 1 \in Chars /\ c + 1 \notin starts
        BY <3>2, <2>1, <2>0, <1>1 DEF Chars
      <4> QED BY <4>1, <2>2, <2>0
    <3> QED BY <3>1, <3>2
  <2>6. next[c] \in Chars /\ prev[next[c]] = c
    <3>1. CASE c \in starts
      BY <3>1, <2>3, <2>4, <1>1, <2>0
    <3>2. CASE c \notin starts
      <4>1. next[c] = c - 1 /\ c - 1 \in Chars /\ c - 1 \notin ends
        BY <3>2, <2>2, <2>0, <1>1 DEF Chars
      <4> QED BY <4>1, <2>1, <2>0
    <3> QED BY <3>1, <3>2
  <2> QED BY <2>5, <2>6
<1> QED
  BY <1>2, <1>3, Zenon DEF Ring, LinksAgree, init_history_list

(* update_history_list: moving any character to the head leaves a ring in  *)
(* which the links agree, also when the character is a neighbour of the    *)
(* head.                                                                   *)
THEOREM UpdateKeepsLinks ==
  ASSUME Ring, LinksAgree, NEW b \in Chars, update_history_list(b)
  PROVE  Ring' /\ LinksAgree'
<1>1. CASE history_head = b
  BY <1>1 DEF update_history_list, Ring, LinksAgree
<1>2. CASE history_head # b
  <2> DEFINE h == history_head
             cp == Unhook(b).prev
             cn == Unhook(b).next
             a == cn[h]
  <2>1. /\ prev' = [cp EXCEPT ![b] = h, ![a] = b]
        /\ next' = [cn EXCEPT ![b] = a, ![h] = b]
        /\ history_head' = b
    BY <1>2 DEF update_history_list
  <2>2. h \in Chars /\ h # b
    BY <1>2 DEF Ring
  <2>3. cp = [prev EXCEPT ![next[b]] = prev[b]] /\ cn = [next EXCEPT ![prev[b]] = next[b]]
    BY DEF Unhook
  <2>4. \A c \in Chars : /\ prev[c] \in Chars /\ next[c] \in Chars
                         /\ next[prev[c]] = c /\ prev[next[c]] = c
    BY DEF LinksAgree
  <2>5. prev \in [Chars -> Chars] /\ next \in [Chars -> Chars]
    BY DEF Ring
  (* Without b the ring is closed: only b's own links still point into it. *)
  <2>6. /\ cp \in [Chars -> Chars] /\ cn \in [Chars -> Chars]
        /\ \A c \in Chars \ {b} : /\ cp[c] \in Chars \ {b} /\ cn[c] \in Chars \ {b}
                                  /\ cn[cp[c]] = c /\ cp[cn[c]] = c
    BY <2>3, <2>4, <2>5
  <2> HIDE DEF cp, cn
  <2>7. a \in Chars \ {b} /\ cp[a] = h
    BY <2>2, <2>6
  <2>8. prev' \in [Chars -> Chars] /\ next' \in [Chars -> Chars]
    BY <2>1, <2>2, <2>6, <2>7
  <2>9. prev'[b] = h /\ prev'[a] = b /\ next'[b] = a /\ next'[h] = b
    BY <2>1, <2>2, <2>6, <2>7
  <2>10. \A c \in Chars \ {b} : /\ c # a => prev'[c] = cp[c]
                                /\ c # h => next'[c] = cn[c]
    BY <2>1, <2>6
  <2> HIDE DEF a, h
  <2>11. ASSUME NEW c \in Chars
         PROVE  /\ prev'[c] \in Chars /\ next'[c] \in Chars
                /\ next'[prev'[c]] = c /\ prev'[next'[c]] = c
    <3>1. CASE c = b
      BY <3>1, <2>2, <2>7, <2>9
    <3>2. CASE c # b
      <4>1. prev'[c] \in Chars /\ next'[prev'[c]] = c
        BY <3>2, <2>2, <2>6, <2>7, <2>8, <2>9, <2>10
      <4>2. next'[c] \in Chars /\ prev'[next'[c]] = c
        BY <3>2, <2>2, <2>6, <2>7, <2>8, <2>9, <2>10
      <4> QED BY <4>1, <4>2
    <3> QED BY <3>1, <3>2
  <2> QED
    BY <2>1, <2>8, <2>11 DEF Ring, LinksAgree
<1> QED
  BY <1>1, <1>2

(* A set that holds 0, and m + 1 with every m below N, holds every number  *)
(* up to N.                                                                *)
LEMMA BoundedSetInduction ==
  ASSUME NEW N \in Nat, NEW S, 0 \in S, \A m \in 0 .. N - 1 : m \in S => m + 1 \in S
  PROVE  0 .. N \subseteq S
<1> DEFINE R == OpToRel(<, Nat)
<1> DEFINE T == (0 .. N) \ S
<1>1. IsWellFoundedOn(R, Nat)
  BY NatLessThanWellFounded, Zenon
<1>2. \A y, x \in Nat : y < x => <<y, x>> \in R
  BY DEF OpToRel
<1>3. SUFFICES ASSUME T # {} PROVE FALSE
  OBVIOUS
<1>4. T \subseteq Nat
  OBVIOUS
<1> HIDE DEF R
<1>5. PICK x \in T : \A y \in T : ~ (<<y, x>> \in R)
  BY <1>1, <1>3, <1>4, WFMin, Zenon
<1>6. x \in 1 .. N /\ x - 1 \in 0 .. N - 1 /\ x - 1 + 1 = x
  OBVIOUS
<1>7. x \in Nat /\ x - 1 \in Nat /\ x - 1 < x
  BY <1>6
<1>8. x - 1 \in S
  <2>1. <<x - 1, x>> \in R
    BY <1>2, <1>7, Zenon
  <2>2. x - 1 \notin T
    BY <1>5, <2>1, Zenon
  <2>3. QED
    BY <1>6, <2>2
<1>9. QED
  BY <1>5, <1>6, <1>8

(* The characters that a walk of len links visits. *)
IsPath(link, head, len, g) ==
  /\ g = [k \in 0 .. len |-> g[k]]
  /\ g[0] = head
  /\ \A k \in 0 .. len - 1 : g[k + 1] = link[g[k]]

(* Follow ends at the last of them. *)
LEMMA FollowIs ==
  ASSUME NEW link, NEW len \in Nat, NEW g, IsPath(link, history_head, len, g)
  PROVE  Follow(link, len) = g[len]
<1> DEFINE IsWalk(f) ==
      f = [k \in 0 .. len |-> IF k = 0 THEN history_head ELSE link[f[k - 1]]]
<1>1. IsWalk(g)
  <2>1. \A k \in 0 .. len : g[k] = IF k = 0 THEN history_head ELSE link[g[k - 1]]
    <3>1. ASSUME NEW k \in 0 .. len, k # 0 PROVE g[k] = link[g[k - 1]]
      <4>1. k - 1 \in 0 .. len - 1 /\ k - 1 + 1 = k
        BY <3>1
      <4>2. QED
        BY <4>1, Zenon DEF IsPath
    <3>2. QED
      BY <3>1 DEF IsPath
  <2>2. QED
    BY <2>1 DEF IsPath
<1>2. PICK f : IsWalk(f) /\ Follow(link, len) = f[len]
  BY <1>1, Zenon DEF Follow
<1>3. \A k \in 0 .. len : f[k] = IF k = 0 THEN history_head ELSE link[f[k - 1]]
  BY <1>2
<1> DEFINE S == {k \in 0 .. len : f[k] = g[k]}
<1>4. 0 \in S
  BY <1>3 DEF IsPath
<1>5. ASSUME NEW k \in 0 .. len - 1, k \in S PROVE k + 1 \in S
  <2>1. k + 1 \in 0 .. len /\ k + 1 # 0 /\ k + 1 - 1 = k
    OBVIOUS
  <2>2. f[k + 1] = link[f[k]]
    BY <1>3, <2>1
  <2>3. QED
    BY <1>5, <2>1, <2>2, Zenon DEF IsPath
<1> HIDE DEF S
<1>6. len \in S
  <2>1. 0 .. len \subseteq S
    BY <1>4, <1>5, BoundedSetInduction
  <2>2. QED
    BY <2>1
<1>7. QED
  BY <1>2, <1>6 DEF S

(* The ring read from its head along the prev links: L names different     *)
(* characters, and after the last one the walk is back at the head.        *)
IsOrder(link, head, L) ==
  /\ L \in [1 .. Size -> Chars]
  /\ \A j, k \in 1 .. Size : L[j] = L[k] => j = k
  /\ L[1] = head
  /\ \A k \in 1 .. Size - 1 : link[L[k]] = L[k + 1]
  /\ link[L[Size]] = L[1]

(* The walks of List read this order. *)
LEMMA ListIsOrder == \A L : IsOrder(prev, history_head, L) => List = L
<1> SUFFICES ASSUME NEW L, IsOrder(prev, history_head, L) PROVE List = L
  OBVIOUS
<1>1. ASSUME NEW k \in 1 .. Size PROVE Follow(prev, k - 1) = L[k]
  <2> DEFINE g == [j \in 0 .. k - 1 |-> L[j + 1]]
  <2>1. k - 1 \in Nat /\ Size \in Nat
    BY GroupAssumption DEF Size
  <2>2. g = [j \in 0 .. k - 1 |-> g[j]] /\ g[0] = history_head /\ g[k - 1] = L[k]
    BY <2>1 DEF IsOrder
  <2>3. \A j \in 0 .. k - 1 - 1 : g[j + 1] = prev[g[j]]
    BY <2>1 DEF IsOrder
  <2> HIDE DEF g
  <2>4. IsPath(prev, history_head, k - 1, g)
    BY <2>2, <2>3, Zenon DEF IsPath
  <2>5. QED
    BY <2>1, <2>2, <2>4, FollowIs
<1>2. QED
  BY <1>1 DEF List, IsOrder

(* find_in_history_list: the character at place num of that order, whether *)
(* the walk goes forward from the head or the other way round.             *)
LEMMA FindInOrder ==
  ASSUME NEW L, IsOrder(prev, history_head, L), LinksAgree, NEW num \in Chars
  PROVE  find_in_history_list(num) = L[num + 1]
<1>1. num \in 0 .. Size - 1 /\ Size \in Nat /\ num + 1 \in 1 .. Size
  BY GroupAssumption DEF Size, Chars
<1>2. Follow(prev, num) = L[num + 1]
  <2> DEFINE g == [j \in 0 .. num |-> L[j + 1]]
  <2>1. g = [j \in 0 .. num |-> g[j]] /\ g[0] = history_head /\ g[num] = L[num + 1]
    BY <1>1 DEF IsOrder
  <2>2. \A j \in 0 .. num - 1 : g[j + 1] = prev[g[j]]
    BY <1>1 DEF IsOrder
  <2> HIDE DEF g
  <2>3. IsPath(prev, history_head, num, g)
    BY <2>1, <2>2 DEF IsPath
  <2>4. QED
    BY <1>1, <2>1, <2>3, FollowIs
<1>3. Follow(next, Size - num) = L[num + 1]
  <2> DEFINE back == Size - num
             g == [j \in 0 .. back |-> IF j = 0 THEN L[1] ELSE L[Size - j + 1]]
  <2>1. back \in 1 .. Size /\ Size - back + 1 = num + 1
    BY <1>1
  <2>2. g = [j \in 0 .. back |-> g[j]] /\ g[0] = history_head /\ g[back] = L[num + 1]
    BY <2>1 DEF IsOrder
  <2>3. \A k \in 1 .. Size : L[k] \in Chars
    BY DEF IsOrder
  <2>4. /\ \A k \in 1 .. Size - 1 : next[L[k + 1]] = L[k]
        /\ next[L[1]] = L[Size]
    <3>1. /\ \A k \in 1 .. Size - 1 : k \in 1 .. Size /\ prev[L[k]] = L[k + 1]
          /\ Size \in 1 .. Size /\ prev[L[Size]] = L[1]
      BY <1>1 DEF IsOrder
    <3>2. \A c \in Chars : next[prev[c]] = c
      BY DEF LinksAgree
    <3>3. QED
      BY <2>3, <3>1, <3>2
  <2>5. ASSUME NEW j \in 0 .. back - 1 PROVE g[j + 1] = next[g[j]]
    <3>1. CASE j = 0
      <4>1. g[0] = L[1] /\ g[1] = L[Size]
        BY <1>1, <2>1
      <4>2. QED
        BY <4>1, <2>4, <3>1
    <3>2. CASE j # 0
      <4>1. /\ Size - j \in 1 .. Size - 1
            /\ g[j + 1] = L[Size - j] /\ g[j] = L[Size - j + 1]
        BY <1>1, <2>1, <3>2
      <4>2. QED
        BY <4>1, <2>4
    <3>3. QED
      BY <3>1, <3>2
  <2> HIDE DEF g
  <2>6. IsPath(next, history_head, back, g)
    BY <2>2, <2>5 DEF IsPath
  <2>7. QED
    BY <1>1, <2>1, <2>2, <2>6, FollowIs
<1>4. QED
  BY <1>2, <1>3 DEF find_in_history_list

(* update_history_list takes the character out of its place in the order   *)
(* and puts it first; the others keep theirs.                              *)
LEMMA UpdateOrder ==
  ASSUME NEW L, IsOrder(prev, history_head, L), Ring, LinksAgree,
         NEW place \in 1 .. Size, update_history_list(L[place])
  PROVE  IsOrder(prev', history_head', Ordered!ToFront(L, place))
<1> DEFINE M == Ordered!ToFront(L, place)
<1>1. Size \in Nat /\ Size >= 8
  BY GroupAssumption DEF Size
<1>2. /\ L \in [1 .. Size -> Chars] /\ Len(L) = Size
      /\ \A j, k \in 1 .. Size : L[j] = L[k] => j = k
      /\ L[1] = history_head
      /\ \A k \in 1 .. Size - 1 : prev[L[k]] = L[k + 1]
      /\ prev[L[Size]] = L[1]
  BY <1>1 DEF IsOrder
<1> DEFINE old(k) == IF k = 1 THEN place ELSE IF k <= place THEN k - 1 ELSE k
<1>3. M = [k \in 1 .. Size |-> L[old(k)]]
  BY <1>1, <1>2 DEF Ordered!ToFront
<1>4. /\ M[1] = L[place]
      /\ \A k \in 2 .. place : M[k] = L[k - 1]
      /\ \A k \in place + 1 .. Size : M[k] = L[k]
  BY <1>3, <1>1
<1> HIDE DEF M
<1>5. CASE place = 1
  <2>1. M = L
    BY <1>3, <1>2, <1>5
  <2>2. prev' = prev /\ history_head' = history_head
    BY <1>2, <1>5 DEF update_history_list
  <2>3. QED
    BY <2>1, <2>2 DEF M
<1>6. CASE place # 1
  <2> DEFINE b == L[place]
             h == L[1]
             z == L[place - 1]
             p == IF place = Size THEN h ELSE L[place + 1]
             a == IF place = Size THEN z ELSE L[Size]
  <2>1. /\ place - 1 \in 1 .. Size - 1 /\ place \in 2 .. Size /\ Size \in 1 .. Size
        /\ 1 \in 1 .. Size /\ place - 1 \in 1 .. Size /\ place - 1 + 1 = place
    BY <1>1, <1>6
  <2>2. b \in Chars /\ h \in Chars /\ z \in Chars /\ L[Size] \in Chars /\ b # h /\ b # z
    BY <1>2, <1>6, <2>1
  <2>3. \A c \in Chars : next[prev[c]] = c
    BY DEF LinksAgree
  <2>4. next[b] = z /\ next[h] = L[Size] /\ prev[b] = p
    BY <1>2, <2>1, <2>2, <2>3
  <2>5. prev \in [Chars -> Chars] /\ next \in [Chars -> Chars]
    BY DEF Ring
  <2>6. p \in Chars /\ a \in Chars /\ a # b
    BY <1>2, <2>1, <2>2
  <2>7. [next EXCEPT ![p] = z][h] = a
    BY <1>2, <2>1, <2>2, <2>4, <2>5
  <2>8. /\ prev' = [[prev EXCEPT ![z] = p] EXCEPT ![b] = h, ![a] = b]
        /\ history_head' = b
    BY <1>2, <2>2, <2>4, <2>7 DEF update_history_list, Unhook
  <2>9. /\ prev'[b] = h /\ prev'[a] = b
        /\ z # a => prev'[z] = p
        /\ \A c \in Chars \ {b, a, z} : prev'[c] = prev[c]
    BY <2>2, <2>5, <2>6, <2>8
  <2> HIDE DEF b, h, z, p, a
  <2>10. M \in [1 .. Size -> Chars]
    BY <1>3, <1>2, <2>1, SMTT(30)
  <2>11. ASSUME NEW j \in 1 .. Size, NEW k \in 1 .. Size, M[j] = M[k] PROVE j = k
    <3>1. old(j) \in 1 .. Size /\ old(k) \in 1 .. Size
      BY <2>1
    <3>2. M[j] = L[old(j)] /\ M[k] = L[old(k)]
      BY <1>3, Zenon
    <3> HIDE DEF old
    <3>3. old(j) = old(k)
      BY <1>2, <2>11, <3>1, <3>2, ZenonT(30)
    <3>4. QED
      BY <2>1, <3>3 DEF old
  <2>12. ASSUME NEW k \in 1 .. Size - 1 PROVE prev'[M[k]] = M[k + 1]
    <3>1. CASE k = 1
      BY <1>4, <2>1, <2>9, <3>1 DEF b, h
    <3>2. CASE k \in 2 .. place - 1
      <4>1. /\ k - 1 \in 1 .. Size - 1 /\ k - 1 # place - 1 /\ k - 1 # place /\ k - 1 # Size
            /\ M[k] = L[k - 1] /\ M[k + 1] = L[k] /\ k - 1 + 1 = k
        BY <1>4, <2>1, <3>2
      <4>2. L[k - 1] \in Chars \ {b, a, z} /\ prev[L[k - 1]] = L[k]
        BY <1>2, <2>1, <4>1 DEF a, b, z
      <4>3. QED
        BY <2>9, <4>1, <4>2
    <3>3. CASE k = place
      <4>1. M[k] = z /\ M[k + 1] = p /\ place # Size
        BY <1>4, <2>1, <3>3 DEF p, z
      <4>2. z # a
        BY <1>2, <2>1, <4>1 DEF a, z
      <4>3. QED
        BY <2>9, <4>1, <4>2
    <3>4. CASE k \in place + 1 .. Size - 1
      <4>1. M[k] = L[k] /\ M[k + 1] = L[k + 1] /\ k \in 1 .. Size
        BY <1>4, <2>1, <3>4
      <4>2. L[k] \in Chars \ {b, a, z} /\ prev[L[k]] = L[k + 1]
        BY <1>2, <2>1, <3>4 DEF a, b, z
      <4>3. QED
        BY <2>9, <4>1, <4>2
    <3>5. QED
      BY <2>1, <3>1, <3>2, <3>3, <3>4
  <2>13. prev'[M[Size]] = M[1]
    <3>1. M[Size] = a
      BY <1>4, <2>1 DEF a, z
    <3>2. QED
      BY <1>4, <2>9, <3>1 DEF b
  <2>14. M[1] = history_head'
    BY <1>4, <2>8 DEF b
  <2>15. IsOrder(prev', history_head', M)
    BY <2>10, <2>11, <2>12, <2>13, <2>14 DEF IsOrder
  <2>16. QED
    BY <2>15 DEF M
<1>7. QED
  BY <1>5, <1>6

(* Two sequences, one after the other. *)
LEMMA Concatenation ==
  ASSUME NEW s \in Seq(Int), NEW t \in Seq(Int)
  PROVE  /\ s \o t \in Seq(Int) /\ Len(s \o t) = Len(s) + Len(t)
         /\ \A k \in 1 .. Len(s) : (s \o t)[k] = s[k]
         /\ \A k \in 1 .. Len(t) : (s \o t)[Len(s) + k] = t[k]
  OBVIOUS

(* The same, for functions on an interval. *)
LEMMA Joined ==
  ASSUME NEW m \in Nat, NEW len \in Nat, NEW s \in [1 .. m -> Int], NEW t \in [1 .. len -> Int]
  PROVE  /\ s \o t \in [1 .. m + len -> Int]
         /\ \A k \in 1 .. m : (s \o t)[k] = s[k]
         /\ \A k \in 1 .. len : (s \o t)[m + k] = t[k]
<1>1. s \in Seq(Int) /\ t \in Seq(Int) /\ Len(s) = m /\ Len(t) = len
  OBVIOUS
<1>2. /\ s \o t \in Seq(Int) /\ Len(s \o t) = m + len
      /\ \A k \in 1 .. m : (s \o t)[k] = s[k]
      /\ \A k \in 1 .. len : (s \o t)[m + k] = t[k]
  BY <1>1, Concatenation, Zenon
<1>3. \A u \in Seq(Int) : u \in [1 .. Len(u) -> Int]
  OBVIOUS
<1>4. s \o t \in [1 .. m + len -> Int]
  BY <1>2, <1>3, Zenon
<1>5. QED
  BY <1>2, <1>4, Zenon

(* A group of characters appended to a list. *)
LEMMA PartAppended ==
  ASSUME NEW m \in Nat, NEW s \in [1 .. m -> Int], NEW from \in Nat, NEW to \in Nat, from <= to
  PROVE  LET j == s \o [k \in 1 .. to - from |-> from + k - 1] IN
         /\ j \in [1 .. m + (to - from) -> Int]
         /\ \A k \in 1 .. m : j[k] = s[k]
         /\ \A k \in m + 1 .. m + (to - from) : j[k] = from + k - m - 1
<1> DEFINE len == to - from
           t == [k \in 1 .. len |-> from + k - 1]
<1>1. len \in Nat /\ t \in [1 .. len -> Int] /\ \A k \in 1 .. len : t[k] = from + k - 1
  OBVIOUS
<1>2. t = [k \in 1 .. to - from |-> from + k - 1]
  OBVIOUS
<1> HIDE DEF len, t
<1>3. /\ s \o t \in [1 .. m + len -> Int]
      /\ \A k \in 1 .. m : (s \o t)[k] = s[k]
      /\ \A k \in 1 .. len : (s \o t)[m + k] = t[k]
  BY ONLY m \in Nat, s \in [1 .. m -> Int], <1>1, Joined, ZenonT(60)
<1>4. ASSUME NEW k \in m + 1 .. m + len PROVE (s \o t)[k] = from + k - m - 1
  <2>1. k - m \in 1 .. len /\ m + (k - m) = k
    BY <1>1
  <2>2. (s \o t)[k] = t[k - m]
    BY <1>3, <2>1, Zenon
  <2>3. QED
    BY <1>1, <2>1, <2>2
<1>5. QED
  BY <1>2, <1>3, <1>4, Zenon DEF len

(* FirstList, place by place. *)
LEMMA FirstListIs ==
  /\ FirstList \in [1 .. Size -> Int]
  /\ \A k \in 1 .. 3 * Group : FirstList[k] = Group + k - 1
  /\ \A k \in 3 * Group + 1 .. 4 * Group : FirstList[k] = k - 3 * Group - 1
  /\ \A k \in 4 * Group + 1 .. 6 * Group : FirstList[k] = k + Group - 1
  /\ \A k \in 6 * Group + 1 .. 7 * Group : FirstList[k] = k - 2 * Group - 1
  /\ \A k \in 7 * Group + 1 .. Size : FirstList[k] = k - 1
<1> DEFINE part(from, to) == [k \in 1 .. to - from |-> from + k - 1]
           s3 == part(Group, 4 * Group)
           s4 == s3 \o part(0, Group)
           s6 == s4 \o part(5 * Group, 7 * Group)
           s7 == s6 \o part(4 * Group, 5 * Group)
           s8 == s7 \o part(7 * Group, Size)
<1>1. Group \in Nat /\ Size = 8 * Group
  BY GroupAssumption DEF Size
<1>2. s3 \in [1 .. 3 * Group -> Int] /\ \A k \in 1 .. 3 * Group : s3[k] = Group + k - 1
  BY <1>1
<1>3. FirstList = s8
  BY Zenon DEF FirstList
<1> HIDE DEF s3
<1>4. /\ s4 \in [1 .. 3 * Group + (Group - 0) -> Int]
      /\ \A k \in 1 .. 3 * Group : s4[k] = s3[k]
      /\ \A k \in 3 * Group + 1 .. 3 * Group + (Group - 0) : s4[k] = 0 + k - 3 * Group - 1
  <2>1. 3 * Group \in Nat /\ 0 \in Nat /\ 0 <= Group
    BY <1>1
  <2>2. QED
    BY <1>1, <1>2, <2>1, PartAppended, ZenonT(60)
<1> HIDE DEF s4
<1>5. /\ s6 \in [1 .. 4 * Group + (7 * Group - 5 * Group) -> Int]
      /\ \A k \in 1 .. 4 * Group : s6[k] = s4[k]
      /\ \A k \in 4 * Group + 1 .. 4 * Group + (7 * Group - 5 * Group) :
           s6[k] = 5 * Group + k - 4 * Group - 1
  <2>1. 4 * Group \in Nat /\ 5 * Group \in Nat /\ 7 * Group \in Nat /\ 5 * Group <= 7 * Group
        /\ s4 \in [1 .. 4 * Group -> Int]
    BY <1>1, <1>4
  <2>2. QED
    BY <2>1, PartAppended, ZenonT(60)
<1> HIDE DEF s6
<1>6. /\ s7 \in [1 .. 6 * Group + (5 * Group - 4 * Group) -> Int]
      /\ \A k \in 1 .. 6 * Group : s7[k] = s6[k]
      /\ \A k \in 6 * Group + 1 .. 6 * Group + (5 * Group - 4 * Group) :
           s7[k] = 4 * Group + k - 6 * Group - 1
  <2>1. 6 * Group \in Nat /\ 5 * Group \in Nat /\ 4 * Group \in Nat /\ 4 * Group <= 5 * Group
        /\ s6 \in [1 .. 6 * Group -> Int]
    BY <1>1, <1>5
  <2>2. QED
    BY <2>1, PartAppended, ZenonT(60)
<1> HIDE DEF s7
<1>7. /\ s8 \in [1 .. 7 * Group + (Size - 7 * Group) -> Int]
      /\ \A k \in 1 .. 7 * Group : s8[k] = s7[k]
      /\ \A k \in 7 * Group + 1 .. 7 * Group + (Size - 7 * Group) :
           s8[k] = 7 * Group + k - 7 * Group - 1
  <2>1. 7 * Group \in Nat /\ Size \in Nat /\ 7 * Group <= Size
        /\ s7 \in [1 .. 7 * Group -> Int]
    BY <1>1, <1>6
  <2>2. QED
    BY <2>1, PartAppended, ZenonT(60)
<1> HIDE DEF s8
<1>8. /\ s8 \in [1 .. Size -> Int]
      /\ \A k \in 7 * Group + 1 .. Size : s8[k] = k - 1
  BY <1>1, <1>7
<1>9. \A k \in 6 * Group + 1 .. 7 * Group : s8[k] = k - 2 * Group - 1
  BY <1>1, <1>6, <1>7
<1>10. \A k \in 4 * Group + 1 .. 6 * Group : s8[k] = k + Group - 1
  BY <1>1, <1>5, <1>6, <1>7
<1>11. \A k \in 3 * Group + 1 .. 4 * Group : s8[k] = k - 3 * Group - 1
  BY <1>1, <1>4, <1>5, <1>6, <1>7
<1>12. \A k \in 1 .. 3 * Group : s8[k] = Group + k - 1
  BY <1>1, <1>2, <1>4, <1>5, <1>6, <1>7
<1>13. QED
  BY <1>3, <1>8, <1>9, <1>10, <1>11, <1>12

(* init_history_list: the ring is in the order of the groups. *)
LEMMA FirstOrder == init_history_list => IsOrder(prev, history_head, FirstList)
<1> SUFFICES ASSUME init_history_list PROVE IsOrder(prev, history_head, FirstList)
  OBVIOUS
<1> DEFINE L == FirstList
<1>1. Group \in Nat /\ Group >= 1 /\ Size = 8 * Group
  BY GroupAssumption DEF Size
<1>2. /\ \A k \in 1 .. 3 * Group : L[k] = Group + k - 1
      /\ \A k \in 3 * Group + 1 .. 4 * Group : L[k] = k - 3 * Group - 1
      /\ \A k \in 4 * Group + 1 .. 6 * Group : L[k] = k + Group - 1
      /\ \A k \in 6 * Group + 1 .. 7 * Group : L[k] = k - 2 * Group - 1
      /\ \A k \in 7 * Group + 1 .. Size : L[k] = k - 1
  BY FirstListIs, Zenon
<1>3. L = [k \in 1 .. Size |-> L[k]]
  BY FirstListIs
<1> HIDE DEF L
<1>4. ASSUME NEW k \in 1 .. Size
      PROVE  \/ k \in 1 .. 3 * Group
             \/ k \in 3 * Group + 1 .. 4 * Group
             \/ k \in 4 * Group + 1 .. 6 * Group
             \/ k \in 6 * Group + 1 .. 7 * Group
             \/ k \in 7 * Group + 1 .. Size
  BY <1>1
<1>5. L \in [1 .. Size -> Chars]
  <2>1. ASSUME NEW k \in 1 .. Size PROVE L[k] \in Chars
    BY <1>1, <1>2, <1>4 DEF Chars
  <2>2. QED
    BY <1>3, <2>1
<1>6. ASSUME NEW j \in 1 .. Size, NEW k \in 1 .. Size, L[j] = L[k] PROVE j = k
  BY <1>1, <1>2, <1>4, <1>6
<1>7. L[1] = history_head
  BY <1>1, <1>2 DEF init_history_list
<1>8. ASSUME NEW k \in 1 .. Size - 1 PROVE prev[L[k]] = L[k + 1]
  <2>1. L[k] \in Chars
    BY <1>1, <1>5
  <2>2. prev[L[k]] = CASE L[k] = 4 * Group - 1 -> 0
                       [] L[k] = Group - 1     -> 5 * Group
                       [] L[k] = 7 * Group - 1 -> 4 * Group
                       [] L[k] = 5 * Group - 1 -> 7 * Group
                       [] L[k] = Size - 1      -> Group
                       [] OTHER             -> L[k] + 1
    BY <2>1 DEF init_history_list
  <2>3. CASE k \in 1 .. 3 * Group
    BY <1>1, <1>2, <2>2, <2>3
  <2>4. CASE k \in 3 * Group + 1 .. 4 * Group
    BY <1>1, <1>2, <2>2, <2>4
  <2>5. CASE k \in 4 * Group + 1 .. 6 * Group
    <3>1. L[k] = k + Group - 1
      BY <1>2, <2>5
    <3>2. CASE k = 6 * Group
      <4>1. L[k + 1] = 4 * Group
        BY <1>1, <1>2, <3>2
      <4>2. QED
        BY <1>1, <2>2, <3>1, <3>2, <4>1
    <3>3. CASE k # 6 * Group
      <4>1. L[k + 1] = k + Group
        BY <1>1, <1>2, <2>5, <3>3
      <4>2. QED
        BY <1>1, <2>2, <2>5, <3>1, <3>3, <4>1
    <3>4. QED
      BY <3>2, <3>3
  <2>6. CASE k \in 6 * Group + 1 .. 7 * Group
    BY <1>1, <1>2, <2>2, <2>6
  <2>7. CASE k \in 7 * Group + 1 .. Size
    BY <1>1, <1>2, <2>2, <2>7
  <2>8. QED
    BY <1>1, <1>4, <2>3, <2>4, <2>5, <2>6, <2>7
<1>9. prev[L[Size]] = L[1]
  <2>1. L[Size] = Size - 1 /\ L[1] = Group
    BY <1>1, <1>2
  <2>2. Size - 1 \in Chars
    BY <1>1 DEF Chars
  <2>3. QED
    BY <1>1, <2>1, <2>2 DEF init_history_list
<1>10. IsOrder(prev, history_head, L)
  BY <1>5, <1>6, <1>7, <1>8, <1>9 DEF IsOrder
<1>11. QED
  BY <1>10 DEF L

(* The inductive invariant: the links agree, and from the head they run    *)
(* through different characters, as many as there are.                     *)
HistoryInv ==
  /\ Ring /\ LinksAgree
  /\ \E L : IsOrder(prev, history_head, L)

(* It holds of the list that init_history_list sets up. *)
LEMMA ListInitInv == ListInit => HistoryInv
  BY InitLinksAgree, FirstOrder DEF ListInit, HistoryInv

(* Each byte decoded preserves it, and moves its character to the front. *)
LEMMA DecodeStep ==
  ASSUME HistoryInv, Decode
  PROVE  /\ HistoryInv'
         /\ \E L : /\ IsOrder(prev, history_head, L)
                   /\ char' = L[count' + 1]
                   /\ IsOrder(prev', history_head', Ordered!ToFront(L, count' + 1))
<1>1. PICK L : IsOrder(prev, history_head, L)
  BY DEF HistoryInv
<1>2. /\ count' \in Chars /\ Ring /\ LinksAgree
      /\ char' = find_in_history_list(count')
      /\ update_history_list(char')
  BY DEF Decode, HistoryInv
<1>3. char' = L[count' + 1]
  BY <1>1, <1>2, FindInOrder, Zenon
<1>4. count' + 1 \in 1 .. Size /\ Size \in Nat
  <2>1. Size \in Nat
    BY GroupAssumption DEF Size
  <2>2. \A c \in Chars : c + 1 \in 1 .. Size
    BY <2>1 DEF Chars
  <2>3. QED
    BY <1>2, <2>1, <2>2, Zenon
<1>5. char' \in Chars
  BY <1>1, <1>3, <1>4 DEF IsOrder
<1>6. Ring' /\ LinksAgree'
  BY <1>2, <1>5, UpdateKeepsLinks, Zenon
<1>7. IsOrder(prev', history_head', Ordered!ToFront(L, count' + 1))
  BY <1>1, <1>2, <1>3, <1>4, UpdateOrder, Zenon
<1>8. QED
  BY <1>1, <1>3, <1>6, <1>7 DEF HistoryInv

(* pma_common.c: looking characters up and moving them to the head of the  *)
(* ring implements the list of MoveToFront, with any number of characters. *)
THEOREM HistoryMovesToFront == ListSpec => MovesToFront
<1>1. ListInit => Ordered!Start(FirstList)
  <2> SUFFICES ASSUME ListInit PROVE Ordered!Start(FirstList)
    OBVIOUS
  <2>1. IsOrder(prev, history_head, FirstList) /\ count = 0 /\ char = history_head
    BY FirstOrder DEF ListInit
  <2>2. List = FirstList
    BY <2>1, ListIsOrder
  <2>3. FirstList[1] = Head(FirstList)
    <3>1. Size \in Nat /\ Size >= 1
      BY GroupAssumption DEF Size
    <3>2. FirstList \in [1 .. Size -> Int]
      BY FirstListIs, Zenon
    <3>3. FirstList \in Seq(Int) /\ Len(FirstList) = Size
      BY <3>1, <3>2
    <3>4. QED
      BY <3>1, <3>3
  <2>4. QED
    BY <2>1, <2>2, <2>3 DEF Ordered!Start, IsOrder
<1>2. HistoryInv /\ [Decode]_listVars => HistoryInv'
  <2>1. HistoryInv /\ UNCHANGED listVars => HistoryInv'
    BY DEF HistoryInv, listVars, Ring, LinksAgree
  <2>2. QED
    BY <2>1, DecodeStep
<1>3. (\A L : IsOrder(prev, history_head, L) => List = L)'
  BY ListIsOrder, PTL
<1>4. HistoryInv /\ [Decode]_listVars => [Ordered!Decode]_Ordered!vars
  <2> SUFFICES ASSUME HistoryInv, [Decode]_listVars PROVE [Ordered!Decode]_Ordered!vars
    OBVIOUS
  <2>1. CASE Decode
    <3>1. PICK L : /\ IsOrder(prev, history_head, L)
                   /\ char' = L[count' + 1]
                   /\ IsOrder(prev', history_head', Ordered!ToFront(L, count' + 1))
      BY <2>1, DecodeStep
    <3>2. List = L /\ List' = Ordered!ToFront(L, count' + 1)
      BY <3>1, <1>3, ListIsOrder
    <3>3. Len(L) = Size /\ Size \in Nat
      BY <3>1, GroupAssumption DEF IsOrder, Size
    <3>4. count' \in 0 .. Len(L) - 1
      BY <2>1, <3>3 DEF Decode, Chars
    <3>5. QED
      BY <3>1, <3>2, <3>4 DEF Ordered!Decode
  <2>2. CASE UNCHANGED listVars
    <3>1. PICK L : IsOrder(prev, history_head, L)
      BY DEF HistoryInv
    <3>2. IsOrder(prev', history_head', L)
      BY <2>2, <3>1 DEF listVars
    <3>3. List = L /\ List' = L
      BY <3>1, <3>2, <1>3, ListIsOrder
    <3>4. QED
      BY <2>2, <3>3 DEF listVars, Ordered!vars
  <2>3. QED
    BY <2>1, <2>2
<1>5. QED
  BY <1>1, <1>2, <1>4, ListInitInv, PTL DEF ListSpec, MovesToFront

-----------------------------------------------------------------------------
(* Numbers made of bits *)

(* Powers of two up to that of a word. *)
LEMMA PowerPositive ==
  ASSUME NEW k \in 0 .. BufferBits
  PROVE  2^k \in Nat \ {0}
<1> DEFINE S == {j \in 0 .. BufferBits : 2^j \in Nat \ {0}}
<1>1. 0 \in S
  BY PowersAssumption, BitStreamAssumption
<1>2. ASSUME NEW j \in 0 .. BufferBits - 1, j \in S PROVE j + 1 \in S
  BY <1>2, PowersAssumption, BitStreamAssumption
<1> HIDE DEF S
<1>3. 0 .. BufferBits \subseteq S
  BY <1>1, <1>2, BoundedSetInduction, BitStreamAssumption
<1>4. QED
  BY <1>3 DEF S

(* The power of a sum of exponents. *)
LEMMA PowerSum ==
  ASSUME NEW a \in Nat, NEW b \in Nat, a + b <= BufferBits
  PROVE  2^(a + b) = 2^a * 2^b
<1> DEFINE S == {j \in 0 .. b : 2^(a + j) = 2^a * 2^j}
<1>0. BufferBits \in Nat
  BY BitStreamAssumption
<1>1. 0 \in S
  <2>1. 2^a \in Nat /\ 2^0 = 1 /\ a + 0 = a
    BY <1>0, PowerPositive, PowersAssumption
  <2>2. QED
    BY <2>1
<1>2. ASSUME NEW j \in 0 .. b - 1, j \in S PROVE j + 1 \in S
  <2>1. a + j \in 0 .. BufferBits /\ j \in 0 .. BufferBits /\ a \in 0 .. BufferBits
    BY <1>0
  <2>2. PICK x \in Nat, y \in Nat : x = 2^a /\ y = 2^j
    BY <2>1, PowerPositive
  <2>3. 2^(a + j + 1) = 2 * 2^(a + j) /\ 2^(j + 1) = 2 * y
    BY <2>1, <2>2, PowersAssumption
  <2>4. 2^(a + j) = x * y
    BY <1>2, <2>2
  <2>5. 2 * (x * y) = x * (2 * y)
    OBVIOUS
  <2>6. a + (j + 1) = a + j + 1 /\ j + 1 \in 0 .. b
    OBVIOUS
  <2>7. 2^(a + (j + 1)) = 2^a * 2^(j + 1)
    BY <2>2, <2>3, <2>4, <2>5, <2>6
  <2>8. QED
    BY <2>6, <2>7
<1> HIDE DEF S
<1>3. 0 .. b \subseteq S
  BY <1>1, <1>2, BoundedSetInduction
<1>4. QED
  BY <1>3 DEF S

(* What a quotient and a remainder are. *)
LEMMA DividedUp ==
  ASSUME NEW m \in Nat, NEW d \in Nat \ {0}, NEW q \in Nat, NEW r \in 0 .. d - 1, m = d * q + r
  PROVE  m \div d = q /\ m % d = r
<1>1. PICK p \in Nat, s \in 0 .. d - 1 : p = m \div d /\ s = m % d /\ m = d * p + s
  OBVIOUS
<1>2. d * (p - q) = r - s /\ d * (q - p) = s - r
  BY <1>1
<1>3. ~(p - q >= 1)
  <2>1. SUFFICES ASSUME p - q >= 1 PROVE FALSE
    OBVIOUS
  <2>2. PICK e \in Nat : e = p - q - 1
    BY <2>1
  <2>3. d * (p - q) = d + d * e /\ d * e >= 0
    BY <2>2
  <2>4. QED
    BY <1>2, <2>3
<1>4. ~(q - p >= 1)
  <2>1. SUFFICES ASSUME q - p >= 1 PROVE FALSE
    OBVIOUS
  <2>2. PICK e \in Nat : e = q - p - 1
    BY <2>1
  <2>3. d * (q - p) = d + d * e /\ d * e >= 0
    BY <2>2
  <2>4. QED
    BY <1>2, <2>3
<1>5. p = q
  BY <1>3, <1>4
<1>6. QED
  BY <1>1, <1>2, <1>5

(* The half of a quotient. *)
LEMMA Halves ==
  ASSUME NEW b \in Nat, NEW d \in Nat \ {0}
  PROVE  b \div d = 2 * (b \div (2 * d)) + ((b \div d) % 2)
<1>1. PICK q \in Nat, r \in 0 .. d - 1 : q = b \div d /\ b = d * q + r
  OBVIOUS
<1>2. PICK g \in Nat, s \in 0 .. 1 : q = 2 * g + s /\ s = q % 2
  OBVIOUS
<1>3. b = (2 * d) * g + (d * s + r)
  BY <1>1, <1>2
<1>4. d * s + r \in 0 .. 2 * d - 1
  <2>1. CASE s = 0
    BY <2>1
  <2>2. CASE s = 1
    BY <2>2
  <2>3. QED
    BY <2>1, <2>2
<1>5. b \div (2 * d) = g
  BY <1>3, <1>4, DividedUp
<1>6. q = 2 * g + (q % 2)
  BY <1>2
<1>7. 2 * (b \div (2 * d)) + (q % 2) = q
  BY <1>5, <1>6, Zenon
<1>8. (b \div d) % 2 = q % 2
  BY <1>1, Zenon
<1>9. QED
  BY <1>1, <1>7, <1>8, Zenon

(* The bits of a sequence of bytes, and the number that len of them make   *)
(* after the first p (see BitStream).                                      *)
BitOf(f, k) ==
  LET b == f[(k - 1) \div ByteBits + 1] IN
  (b \div 2^(ByteBits - 1 - ((k - 1) % ByteBits))) % 2

Value(f, p, len) ==
  LET value[k \in 0 .. len] == IF k = 0 THEN 0 ELSE 2 * value[k - 1] + BitOf(f, p + k)
  IN  value[len]

(* The number that BitStream speaks of is that of its input. *)
LEMMA NumberIs ==
  ASSUME NEW p, NEW len
  PROVE  Stream!Number(p, len) = Value(input, p, len)
  BY Zenon DEF Stream!Number, Stream!Bit, Value, BitOf

(* The numbers on the way to it. *)
IsValue(f, p, len, g) ==
  g = [k \in 0 .. len |-> IF k = 0 THEN 0 ELSE 2 * g[k - 1] + BitOf(f, p + k)]

(* Those numbers exist for every length. *)
LEMMA ValueExists ==
  ASSUME NEW f, NEW p \in Nat, NEW len \in Nat
  PROVE  \E g : IsValue(f, p, len, g)
<1> DEFINE S == {m \in 0 .. len : \E g : IsValue(f, p, m, g)}
<1>1. 0 \in S
  <2>1. IsValue(f, p, 0, [k \in 0 .. 0 |-> 0])
    BY DEF IsValue
  <2>2. QED
    BY <2>1
<1>2. ASSUME NEW m \in 0 .. len - 1, m \in S PROVE m + 1 \in S
  <2>1. PICK g : IsValue(f, p, m, g)
    BY <1>2
  <2>2. \A k \in 0 .. m : g[k] = IF k = 0 THEN 0 ELSE 2 * g[k - 1] + BitOf(f, p + k)
    BY <2>1 DEF IsValue
  <2> DEFINE h == [k \in 0 .. m + 1 |->
                     IF k = m + 1 THEN 2 * g[m] + BitOf(f, p + (m + 1)) ELSE g[k]]
  <2>3. \A k \in 0 .. m + 1 : h[k] = IF k = 0 THEN 0 ELSE 2 * h[k - 1] + BitOf(f, p + k)
    <3>1. ASSUME NEW k \in 0 .. m
          PROVE  h[k] = IF k = 0 THEN 0 ELSE 2 * h[k - 1] + BitOf(f, p + k)
      <4>1. h[k] = g[k]
        OBVIOUS
      <4>2. k # 0 => h[k - 1] = g[k - 1]
        OBVIOUS
      <4>3. QED
        BY <2>2, <4>1, <4>2, Zenon
    <3>2. h[m + 1] = 2 * h[m] + BitOf(f, p + (m + 1)) /\ m + 1 # 0 /\ m + 1 - 1 = m
      OBVIOUS
    <3>3. \A k \in 0 .. m + 1 : k \in 0 .. m \/ k = m + 1
      OBVIOUS
    <3> HIDE DEF h
    <3>4. ASSUME NEW k, k = m + 1
          PROVE  h[k] = IF k = 0 THEN 0 ELSE 2 * h[k - 1] + BitOf(f, p + k)
      BY <3>2, <3>4
    <3>5. QED
      BY <3>1, <3>3, <3>4, Zenon
  <2>4. h = [k \in 0 .. m + 1 |-> h[k]]
    OBVIOUS
  <2> HIDE DEF h
  <2>5. IsValue(f, p, m + 1, h)
    BY <2>3, <2>4, Zenon DEF IsValue
  <2>6. m + 1 \in 0 .. len
    OBVIOUS
  <2>7. QED
    BY <2>5, <2>6
<1> HIDE DEF S
<1>3. 0 .. len \subseteq S
  BY <1>1, <1>2, BoundedSetInduction
<1>4. QED
  BY <1>3 DEF S

(* The first bits make the same number, however many follow. *)
LEMMA ValueUnique ==
  ASSUME NEW f, NEW p \in Nat, NEW len \in Nat, NEW more \in Nat, len <= more,
         NEW g, IsValue(f, p, len, g), NEW h, IsValue(f, p, more, h)
  PROVE  g[len] = h[len]
<1>1. \A k \in 0 .. len : g[k] = IF k = 0 THEN 0 ELSE 2 * g[k - 1] + BitOf(f, p + k)
  BY DEF IsValue
<1>2. \A k \in 0 .. len : h[k] = IF k = 0 THEN 0 ELSE 2 * h[k - 1] + BitOf(f, p + k)
  <2>1. \A k \in 0 .. more : h[k] = IF k = 0 THEN 0 ELSE 2 * h[k - 1] + BitOf(f, p + k)
    BY DEF IsValue
  <2>2. QED
    BY <2>1
<1> DEFINE S == {k \in 0 .. len : g[k] = h[k]}
<1>3. 0 \in S
  BY <1>1, <1>2
<1>4. ASSUME NEW k \in 0 .. len - 1, k \in S PROVE k + 1 \in S
  <2>1. k + 1 \in 0 .. len /\ k + 1 # 0 /\ k + 1 - 1 = k
    OBVIOUS
  <2>2. /\ g[k + 1] = 2 * g[k] + BitOf(f, p + (k + 1))
        /\ h[k + 1] = 2 * h[k] + BitOf(f, p + (k + 1))
    BY <1>1, <1>2, <2>1
  <2>3. QED
    BY <1>4, <2>1, <2>2, Zenon
<1> HIDE DEF S
<1>5. 0 .. len \subseteq S
  BY <1>3, <1>4, BoundedSetInduction
<1>6. QED
  BY <1>5 DEF S

(* Value is the last of them. *)
LEMMA ValueIs ==
  ASSUME NEW f, NEW p \in Nat, NEW len \in Nat, NEW g, IsValue(f, p, len, g)
  PROVE  Value(f, p, len) = g[len]
<1>1. PICK h : IsValue(f, p, len, h) /\ Value(f, p, len) = h[len]
  BY Zenon DEF Value, IsValue
<1>2. QED
  BY <1>1, ValueUnique

(* One more bit. *)
LEMMA ValueStep ==
  ASSUME NEW f, NEW p \in Nat, NEW len \in Nat
  PROVE  /\ Value(f, p, 0) = 0
         /\ Value(f, p, len + 1) = 2 * Value(f, p, len) + BitOf(f, p + (len + 1))
<1>1. ASSUME NEW m \in Nat PROVE \E g : IsValue(f, p, m, g) /\ Value(f, p, m) = g[m]
  <2>1. PICK g : IsValue(f, p, m, g)
    BY ValueExists
  <2>2. Value(f, p, m) = g[m]
    BY <2>1, ValueIs
  <2>3. QED
    BY <2>1, <2>2, Zenon
<1>2. Value(f, p, 0) = 0
  <2>1. PICK g : IsValue(f, p, 0, g) /\ Value(f, p, 0) = g[0]
    BY <1>1
  <2>2. QED
    BY <2>1 DEF IsValue
<1>3. PICK g : IsValue(f, p, len, g) /\ Value(f, p, len) = g[len]
  BY <1>1
<1>4. PICK h : IsValue(f, p, len + 1, h) /\ Value(f, p, len + 1) = h[len + 1]
  BY <1>1
<1>5. g[len] = h[len]
  BY <1>3, <1>4, ValueUnique
<1>6. len + 1 \in 0 .. len + 1 /\ len + 1 # 0 /\ len + 1 - 1 = len
  OBVIOUS
<1>7. h[len + 1] = 2 * h[len] + BitOf(f, p + (len + 1))
  <2>1. \A k \in 0 .. len + 1 : h[k] = IF k = 0 THEN 0 ELSE 2 * h[k - 1] + BitOf(f, p + k)
    BY <1>4 DEF IsValue
  <2>2. QED
    BY <1>6, <2>1
<1>8. QED
  BY <1>2, <1>3, <1>4, <1>5, <1>7, Zenon

(* A sequence of bytes. *)
AreBytes(f, size) == size \in Nat /\ \A k \in 1 .. size : f[k] \in Nat /\ f[k] < 2^ByteBits

(* Where a bit is. *)
LEMMA BitAt ==
  ASSUME NEW f, NEW q \in Nat, NEW j \in 0 .. ByteBits - 1
  PROVE  BitOf(f, q * ByteBits + j + 1) = (f[q + 1] \div 2^(ByteBits - 1 - j)) % 2
<1>1. PICK m \in Nat : m = ByteBits * q + j
  BY BitStreamAssumption
<1>2. m \div ByteBits = q /\ m % ByteBits = j
  BY <1>1, DividedUp, BitStreamAssumption
<1>3. PICK k \in Nat : k = q * ByteBits + j + 1 /\ k - 1 = m
  BY <1>1, BitStreamAssumption
<1>4. (k - 1) \div ByteBits = q /\ (k - 1) % ByteBits = j
  BY <1>2, <1>3, Zenon
<1>5. BitOf(f, k) = (f[q + 1] \div 2^(ByteBits - 1 - j)) % 2
  BY <1>4, Zenon DEF BitOf
<1>6. QED
  BY <1>3, <1>5, Zenon

(* A bit of a sequence of bytes is 0 or 1. *)
LEMMA BitRange ==
  ASSUME NEW f, NEW size \in Nat, AreBytes(f, size), NEW k \in 1 .. size * ByteBits
  PROVE  BitOf(f, k) \in 0 .. 1
<1>0. ByteBits \in Nat \ {0} /\ BufferBits \in Nat /\ ByteBits < BufferBits
  BY BitStreamAssumption
<1>1. PICK q \in Nat, j \in 0 .. ByteBits - 1 : k - 1 = ByteBits * q + j
  <2>1. PICK m \in Nat : m = k - 1
    OBVIOUS
  <2>2. m \div ByteBits \in Nat /\ m % ByteBits \in 0 .. ByteBits - 1
        /\ m = ByteBits * (m \div ByteBits) + (m % ByteBits)
    BY <1>0
  <2>3. QED
    BY <2>1, <2>2
<1>2. k = q * ByteBits + j + 1
  BY <1>0, <1>1
<1>3. q < size
  <2>1. SUFFICES ASSUME q >= size PROVE FALSE
    OBVIOUS
  <2>2. PICK e \in Nat : q = size + e
    BY <2>1
  <2>3. /\ ByteBits * q = size * ByteBits + ByteBits * e
        /\ ByteBits * e \in Nat /\ size * ByteBits \in Nat
    BY <1>0, <2>2
  <2>4. QED
    BY <1>0, <1>1, <2>3
<1>4. f[q + 1] \in Nat
  BY <1>3 DEF AreBytes
<1>5. PICK x \in Nat \ {0} : x = 2^(ByteBits - 1 - j)
  <2>1. ByteBits - 1 - j \in 0 .. BufferBits
    BY <1>0
  <2>2. QED
    BY <2>1, PowerPositive
<1>6. PICK b \in Nat : b = f[q + 1]
  BY <1>4
<1>7. (b \div x) % 2 \in 0 .. 1
  OBVIOUS
<1>8. BitOf(f, k) = (b \div x) % 2
  BY <1>2, <1>5, <1>6, BitAt
<1>9. QED
  BY <1>7, <1>8, Zenon

(* Numbers of bits are numbers. *)
LEMMA ValueRange ==
  ASSUME NEW f, NEW size \in Nat, AreBytes(f, size), NEW p \in Nat, NEW d \in 0 .. BufferBits,
         p + d <= size * ByteBits
  PROVE  Value(f, p, d) \in 0 .. 2^d - 1
<1>0. ByteBits \in Nat \ {0} /\ BufferBits \in Nat /\ size * ByteBits \in Nat /\ d \in Nat
  BY BitStreamAssumption
<1> DEFINE S == {m \in 0 .. d : Value(f, p, m) \in 0 .. 2^m - 1}
<1>1. 0 \in S
  BY <1>0, ValueStep, PowersAssumption
<1>2. ASSUME NEW m \in 0 .. d - 1, m \in S PROVE m + 1 \in S
  <2>1. /\ m \in Nat /\ m \in 0 .. BufferBits
        /\ p + (m + 1) \in 1 .. size * ByteBits /\ m + 1 \in 0 .. d
    BY <1>0
  <2>2. PICK x \in Nat : x = 2^m /\ 2^(m + 1) = 2 * x
    BY <2>1, PowersAssumption
  <2>3. PICK v \in Nat : v = Value(f, p, m) /\ v < x
    BY <1>2, <2>2
  <2>4. PICK b \in 0 .. 1 : b = BitOf(f, p + (m + 1))
    BY <2>1, BitRange
  <2>5. Value(f, p, m + 1) = 2 * v + b
    BY <2>1, <2>3, <2>4, ValueStep
  <2>6. 2 * v + b \in 0 .. 2 * x - 1
    BY <2>3
  <2>7. QED
    BY <2>1, <2>2, <2>5, <2>6
<1> HIDE DEF S
<1>3. 0 .. d \subseteq S
  BY <1>0, <1>1, <1>2, BoundedSetInduction
<1>4. QED
  BY <1>3 DEF S

(* The first bits of a number, and the others. *)
LEMMA ValueSplit ==
  ASSUME NEW f, NEW size \in Nat, AreBytes(f, size), NEW p \in Nat,
         NEW m \in Nat, NEW d \in Nat, m + d <= BufferBits, p + m + d <= size * ByteBits
  PROVE  Value(f, p, m + d) = Value(f, p, m) * 2^d + Value(f, p + m, d)
<1>0. ByteBits \in Nat \ {0} /\ BufferBits \in Nat /\ size * ByteBits \in Nat /\ p + m \in Nat
  BY BitStreamAssumption
<1>1. \A k \in Nat : Value(f, p + m, k + 1) = 2 * Value(f, p + m, k) + BitOf(f, p + m + (k + 1))
  <2>1. PICK s : s \in Nat /\ s = p + m
    BY <1>0, Zenon
  <2>2. ASSUME NEW k \in Nat
        PROVE  Value(f, s, k + 1) = 2 * Value(f, s, k) + BitOf(f, s + (k + 1))
    BY <2>1, ValueStep
  <2>3. QED
    BY <2>1, <2>2, Zenon
<1>2. PICK u \in Nat : u = Value(f, p, m)
  <2>1. m \in 0 .. BufferBits /\ p + m <= size * ByteBits
    BY <1>0
  <2>2. QED
    BY <2>1, ValueRange
<1> DEFINE S == {j \in 0 .. d : Value(f, p, m + j) = u * 2^j + Value(f, p + m, j)}
<1>3. 0 \in S
  <2>1. Value(f, p + m, 0) = 0
    BY <1>0, ValueStep
  <2>2. m + 0 = m /\ u * 1 + 0 = u
    OBVIOUS
  <2>3. QED
    BY <1>2, <2>1, <2>2, PowersAssumption
<1>4. ASSUME NEW j \in 0 .. d - 1, j \in S PROVE j + 1 \in S
  <2>1. /\ j \in Nat /\ j \in 0 .. BufferBits /\ j + 1 \in 0 .. d /\ m + j \in Nat
        /\ m + (j + 1) = m + j + 1 /\ p + (m + j + 1) = p + m + (j + 1)
        /\ p + (m + j + 1) \in 1 .. size * ByteBits /\ p + m + j <= size * ByteBits
    BY <1>0
  <2>2. PICK x \in Nat : x = 2^j /\ 2^(j + 1) = 2 * x
    BY <2>1, PowersAssumption
  <2>3. PICK v \in Nat : v = Value(f, p + m, j)
    BY <1>0, <2>1, ValueRange
  <2>4. PICK b \in 0 .. 1 : b = BitOf(f, p + (m + j + 1))
    BY <2>1, BitRange
  <2>5. Value(f, p, m + j) = u * x + v
    BY <1>4, <2>2, <2>3
  <2>6. Value(f, p, m + j + 1) = 2 * (u * x + v) + b
    <3>1. Value(f, p, m + j + 1) = 2 * Value(f, p, m + j) + BitOf(f, p + (m + j + 1))
      BY ONLY p \in Nat, m + j \in Nat, ValueStep, Zenon
    <3>2. QED
      BY <2>4, <2>5, <3>1, Zenon
  <2>7. Value(f, p + m, j + 1) = 2 * v + b
    <3>1. Value(f, p + m, j + 1) = 2 * Value(f, p + m, j) + BitOf(f, p + m + (j + 1))
      BY ONLY <1>1, j \in Nat, Zenon
    <3>2. BitOf(f, p + m + (j + 1)) = b
      BY <2>1, <2>4, Zenon
    <3>3. QED
      BY <2>3, <3>1, <3>2, Zenon
  <2>8. 2 * (u * x + v) + b = u * (2 * x) + (2 * v + b)
    OBVIOUS
  <2>9. QED
    BY <2>1, <2>2, <2>6, <2>7, <2>8
<1> HIDE DEF S
<1>5. 0 .. d \subseteq S
  BY <1>3, <1>4, BoundedSetInduction
<1>6. QED
  BY <1>2, <1>5 DEF S

(* The bits of a byte. *)
LEMMA ByteValue ==
  ASSUME NEW f, NEW size \in Nat, AreBytes(f, size), NEW q \in 0 .. size - 1
  PROVE  Value(f, q * ByteBits, ByteBits) = f[q + 1]
<1>0. ByteBits \in Nat \ {0} /\ BufferBits \in Nat /\ ByteBits < BufferBits
  BY BitStreamAssumption
<1>1. PICK b \in Nat : b = f[q + 1] /\ b < 2^ByteBits
  BY DEF AreBytes
<1>2. PICK p \in Nat : p = q * ByteBits
  BY <1>0
<1> DEFINE S == {j \in 0 .. ByteBits : Value(f, p, j) = b \div 2^(ByteBits - j)}
<1>3. 0 \in S
  <2>1. PICK x \in Nat : x = 2^ByteBits
    BY <1>0, PowersAssumption
  <2>2. b \div x = 0
    BY <1>1, <2>1
  <2>3. ByteBits - 0 = ByteBits /\ 0 \in 0 .. ByteBits
    BY <1>0
  <2>4. QED
    BY <2>1, <2>2, <2>3, ValueStep
<1>4. ASSUME NEW j \in 0 .. ByteBits - 1, j \in S PROVE j + 1 \in S
  <2>1. /\ j \in Nat /\ j + 1 \in 0 .. ByteBits /\ ByteBits - j = ByteBits - 1 - j + 1
        /\ ByteBits - (j + 1) = ByteBits - 1 - j /\ ByteBits - 1 - j \in 0 .. BufferBits
        /\ p + (j + 1) = q * ByteBits + j + 1
    BY <1>0, <1>2
  <2>2. PICK x \in Nat \ {0} : x = 2^(ByteBits - 1 - j) /\ 2^(ByteBits - 1 - j + 1) = 2 * x
    BY <2>1, PowersAssumption, PowerPositive
  <2>3. PICK v \in Nat, h \in Nat : v = b \div x /\ h = b \div (2 * x)
    BY <2>2
  <2>4. BitOf(f, p + (j + 1)) = v % 2
    BY <1>1, <2>1, <2>2, <2>3, BitAt
  <2>5. Value(f, p, j) = h
    BY <1>4, <2>1, <2>2, <2>3
  <2>6. Value(f, p, j + 1) = 2 * h + (v % 2)
    <3>1. Value(f, p, j + 1) = 2 * Value(f, p, j) + BitOf(f, p + (j + 1))
      BY ONLY p \in Nat, j \in Nat, ValueStep, Zenon
    <3>2. QED
      BY <2>4, <2>5, <3>1, Zenon
  <2>7. v = 2 * h + (v % 2)
    <3>1. b \div x = 2 * (b \div (2 * x)) + ((b \div x) % 2)
      BY ONLY b \in Nat, x \in Nat \ {0}, Halves, Zenon
    <3>2. 2 * h + (v % 2) = 2 * (b \div (2 * x)) + ((b \div x) % 2)
      BY <2>3, Zenon
    <3>3. QED
      BY <2>3, <3>1, <3>2, Zenon
  <2>8. Value(f, p, j + 1) = b \div 2^(ByteBits - (j + 1))
    BY <2>1, <2>2, <2>3, <2>6, <2>7, Zenon
  <2>9. QED
    BY <2>1, <2>8
<1> HIDE DEF S
<1>5. 0 .. ByteBits \subseteq S
  BY <1>0, <1>3, <1>4, BoundedSetInduction
<1>6. Value(f, p, ByteBits) = b \div 2^(ByteBits - ByteBits)
  <2>1. ByteBits \in S
    BY <1>0, <1>5
  <2>2. QED
    BY <2>1 DEF S
<1>7. ByteBits - ByteBits = 0 /\ b \div 1 = b
  BY <1>0
<1>8. QED
  BY <1>1, <1>2, <1>6, <1>7, PowersAssumption

-----------------------------------------------------------------------------
(* The buffer of the bit stream *)

(* A product that is smaller in one factor. *)
LEMMA Less ==
  ASSUME NEW a \in Nat, NEW b \in Nat, NEW c \in Nat \ {0}, a < b
  PROVE  a * c \in Nat /\ a * c < b * c
<1>1. PICK e \in Nat : b = a + 1 + e
  OBVIOUS
<1>2. b * c = a * c + c + e * c /\ e * c \in Nat /\ a * c \in Nat
  BY <1>1
<1>3. QED
  BY <1>2

(* peek_bits: a byte goes behind the bits that are in the buffer. *)
LEMMA PutByte ==
  ASSUME NEW f, NEW size \in Nat, AreBytes(f, size), NEW p \in Nat, NEW h \in Nat,
         NEW q \in 0 .. size - 1, p + h = q * ByteBits, h + ByteBits <= BufferBits
  PROVE  Value(f, p, h) * 2^(BufferBits - h)
           + ((f[q + 1] * 2^(BufferBits - ByteBits - h)) % 2^BufferBits)
         = Value(f, p, h + ByteBits) * 2^(BufferBits - (h + ByteBits))
<1>0. ByteBits \in Nat \ {0} /\ BufferBits \in Nat
  BY BitStreamAssumption
<1>1. p + h + ByteBits <= size * ByteBits
  <2>1. PICK e \in Nat : size = q + 1 + e
    OBVIOUS
  <2>2. size * ByteBits = q * ByteBits + ByteBits + e * ByteBits /\ e * ByteBits \in Nat
        /\ q * ByteBits \in Nat
    BY <1>0, <2>1
  <2>3. QED
    BY <1>0, <2>2
<1>2. PICK r \in Nat : r = BufferBits - ByteBits - h
  BY <1>0
<1>3. /\ BufferBits - (h + ByteBits) = r /\ BufferBits - h = ByteBits + r
      /\ BufferBits = h + (ByteBits + r)
  BY <1>0, <1>2
<1>4. PICK x \in Nat \ {0}, y \in Nat \ {0}, w \in Nat \ {0} :
        x = 2^r /\ y = 2^ByteBits /\ w = 2^h
  <2>1. r \in 0 .. BufferBits /\ ByteBits \in 0 .. BufferBits /\ h \in 0 .. BufferBits
    BY <1>0, <1>2
  <2>2. QED
    BY <2>1, PowerPositive
<1>5. 2^(BufferBits - h) = y * x /\ 2^BufferBits = w * (y * x)
  <2>1. 2^(ByteBits + r) = y * x
    BY <1>0, <1>3, <1>4, PowerSum
  <2>2. 2^(h + (ByteBits + r)) = w * 2^(ByteBits + r)
    BY <1>0, <1>3, <1>4, PowerSum
  <2>3. QED
    BY <1>3, <2>1, <2>2, Zenon
<1>6. PICK v \in Nat : v = Value(f, p, h)
  <2>1. h \in 0 .. BufferBits /\ p + h <= size * ByteBits
    BY <1>0, <1>1
  <2>2. QED
    BY <2>1, ValueRange
<1>7. PICK b \in Nat : b = f[q + 1] /\ b < y
  BY <1>4 DEF AreBytes
<1>8. Value(f, p, h + ByteBits) = v * y + b
  <2>1. Value(f, p, h + ByteBits) = Value(f, p, h) * 2^ByteBits + Value(f, p + h, ByteBits)
    BY <1>0, <1>1, ValueSplit
  <2>2. Value(f, p + h, ByteBits) = b
    BY <1>7, ByteValue
  <2>3. QED
    BY <1>4, <1>6, <2>1, <2>2, Zenon
<1>9. (b * x) % (w * (y * x)) = b * x
  <2>1. PICK c \in Nat, z \in Nat : c = b * x /\ z = y * x /\ c < z
    BY <1>7, Less
  <2>2. PICK e \in Nat : e = w * z /\ z <= e
    <3>1. PICK o \in Nat : w = o + 1
      OBVIOUS
    <3>2. w * z = o * z + z /\ o * z \in Nat
      BY <3>1
    <3>3. QED
      BY <3>2
  <2>3. c % e = c
    BY <2>1, <2>2
  <2>4. QED
    BY <2>1, <2>2, <2>3, Zenon
<1>10. v * (y * x) + b * x = (v * y + b) * x
  OBVIOUS
<1>11. f[q + 1] * 2^(BufferBits - ByteBits - h) = b * x
  BY <1>2, <1>4, <1>7, Zenon
<1>12. (f[q + 1] * 2^(BufferBits - ByteBits - h)) % 2^BufferBits = b * x
  BY <1>5, <1>9, <1>11, Zenon
<1>13. Value(f, p, h + ByteBits) * 2^(BufferBits - (h + ByteBits)) = (v * y + b) * x
  BY <1>3, <1>4, <1>8, Zenon
<1>14. Value(f, p, h) * 2^(BufferBits - h) = v * (y * x)
  BY <1>5, <1>6, Zenon
<1>15. Value(f, p, h) * 2^(BufferBits - h)
         + ((f[q + 1] * 2^(BufferBits - ByteBits - h)) % 2^BufferBits) = v * (y * x) + b * x
  BY <1>12, <1>14, Zenon
<1>16. QED
  BY <1>10, <1>13, <1>15, Zenon

(* peek_bits: the first m bits of the buffer; read_bits: what is left.     *)
LEMMA TakeBits ==
  ASSUME NEW f, NEW size \in Nat, AreBytes(f, size), NEW p \in Nat,
         NEW m \in Nat, NEW d \in Nat, m + d <= BufferBits, p + m + d <= size * ByteBits,
         NEW word, word = Value(f, p, m + d) * 2^(BufferBits - (m + d))
  PROVE  /\ word \div 2^(BufferBits - m) = Value(f, p, m)
         /\ (word * 2^m) % 2^BufferBits = Value(f, p + m, d) * 2^(BufferBits - d)
<1>0. ByteBits \in Nat \ {0} /\ BufferBits \in Nat /\ size * ByteBits \in Nat
  BY BitStreamAssumption
<1>1. PICK r \in Nat : r = BufferBits - (m + d)
  BY <1>0
<1>2. BufferBits - m = d + r /\ BufferBits - d = m + r /\ BufferBits = m + (d + r)
  BY <1>0, <1>1
<1>3. PICK x \in Nat \ {0}, y \in Nat \ {0}, z \in Nat \ {0} : x = 2^r /\ y = 2^d /\ z = 2^m
  <2>1. r \in 0 .. BufferBits /\ d \in 0 .. BufferBits /\ m \in 0 .. BufferBits
    BY <1>0, <1>1
  <2>2. QED
    BY <2>1, PowerPositive
<1>4. 2^(BufferBits - m) = y * x /\ 2^(BufferBits - d) = z * x /\ 2^BufferBits = z * (y * x)
  <2>1. d + r <= BufferBits /\ m + r <= BufferBits /\ m + (d + r) <= BufferBits /\ d + r \in Nat
    BY <1>0, <1>2
  <2>2. 2^(d + r) = y * x
    BY <1>3, <2>1, PowerSum
  <2>3. 2^(m + r) = z * x
    BY <1>3, <2>1, PowerSum
  <2>4. 2^(m + (d + r)) = z * 2^(d + r)
    BY <1>3, <2>1, PowerSum
  <2>5. QED
    BY <1>2, <2>2, <2>3, <2>4, Zenon
<1>5. PICK u \in Nat : u = Value(f, p, m)
  <2>1. m \in 0 .. BufferBits /\ p + m <= size * ByteBits
    BY <1>0
  <2>2. QED
    BY <2>1, ValueRange
<1>6. PICK w \in Nat : w = Value(f, p + m, d) /\ w < y
  <2>1. d \in 0 .. BufferBits /\ p + m \in Nat /\ p + m + d <= size * ByteBits
    BY <1>0
  <2>2. Value(f, p + m, d) \in 0 .. 2^d - 1
    BY <2>1, ValueRange
  <2>3. QED
    BY <1>3, <2>2
<1>7. word = (u * y + w) * x
  <2>1. Value(f, p, m + d) = Value(f, p, m) * 2^d + Value(f, p + m, d)
    BY ValueSplit
  <2>2. Value(f, p, m + d) = u * y + w
    BY <1>3, <1>5, <1>6, <2>1, Zenon
  <2>3. QED
    BY <1>1, <1>3, <2>2, Zenon
<1>8. w * x \in 0 .. y * x - 1 /\ y * x \in Nat \ {0}
  BY <1>6, Less
<1>9. word \in Nat /\ word = (y * x) * u + w * x
  <2>1. (u * y + w) * x = (y * x) * u + w * x /\ (u * y + w) * x \in Nat
    OBVIOUS
  <2>2. QED
    BY <1>7, <2>1, Zenon
<1>10. word \div (y * x) = u
  BY <1>8, <1>9, DividedUp
<1>11. (word * z) % (z * (y * x)) = w * (z * x)
  <2>1. PICK c \in Nat \ {0} : c = z * (y * x)
    BY <1>8
  <2>2. PICK e \in Nat \ {0} : e = z * x
    OBVIOUS
  <2>3. w * e \in Nat /\ w * e < y * e
    BY <1>6, Less
  <2>4. y * e = c
    BY <2>1, <2>2
  <2>5. word * z = c * u + w * e /\ word * z \in Nat
    BY <1>9, <2>1, <2>2
  <2>6. w * e \in 0 .. c - 1
    BY <2>3, <2>4
  <2>7. (word * z) % c = w * e
    BY <2>5, <2>6, DividedUp
  <2>8. QED
    BY <2>1, <2>2, <2>7, Zenon
<1>12. QED
  BY <1>3, <1>4, <1>5, <1>6, <1>10, <1>11, Zenon

-----------------------------------------------------------------------------
(* The inductive invariant of the bit stream *)

(* The buffer holds the bits between those taken and those of the bytes    *)
(* that the callback has given, at its top.                                *)
WordInv ==
  /\ AreBytes(input, Len(input))
  /\ at \in 0 .. Len(input) /\ bits \in 0 .. BufferBits /\ taken \in Nat
  /\ taken + bits = at * ByteBits
  /\ bit_buffer = Value(input, taken, bits) * 2^(BufferBits - bits)

(* What has been asked for, and what the last call has returned. *)
CallInv ==
  /\ n \in -1 .. Stream!MaxBits /\ keep \in {0, 1}
  /\ before \in Nat /\ asked \in Nat /\ result \in Nat \cup {-1}
  /\ n # -1 => taken = before /\ asked = n
  /\ n = -1 /\ result = -1 => taken = before /\ Len(input) * ByteBits - taken < asked
  /\ n = -1 /\ result # -1 =>
       /\ result = Value(input, before, asked)
       /\ taken = IF keep = 0 THEN before + asked ELSE before

StreamInv == WordInv /\ CallInv

(* A request of one bit at least is possible. *)
LEMMA MaxBitsNat == Stream!MaxBits \in Nat \ {0}
  BY BitStreamAssumption DEF Stream!MaxBits

(* bit_stream_reader_init: nothing is in the buffer. *)
LEMMA InitStream ==
  ASSUME Stream!Init
  PROVE  StreamInv
<1>0. ByteBits \in Nat \ {0} /\ BufferBits \in Nat /\ ByteBits < BufferBits
  BY BitStreamAssumption
<1>1. /\ at = 0 /\ bit_buffer = 0 /\ bits = 0 /\ n = -1 /\ keep = 0 /\ result = 0
      /\ taken = 0 /\ before = 0 /\ asked = 0
  BY DEF Stream!Init, Stream!bit_stream_reader_init
<1>2. PICK size \in Nat : input \in [1 .. size -> Stream!Bytes]
  BY DEF Stream!Init
<1>3. Len(input) = size
  BY <1>2
<1>4. AreBytes(input, size)
  <2>1. 2^ByteBits \in Nat
    BY <1>0, PowersAssumption
  <2>2. QED
    BY <1>2, <2>1 DEF AreBytes, Stream!Bytes
<1>5. Value(input, 0, 0) = 0
  BY ValueStep
<1>6. 2^(BufferBits - 0) \in Nat
  BY <1>0, PowersAssumption
<1>7. WordInv
  <2>1. bit_buffer = Value(input, taken, bits) * 2^(BufferBits - bits)
    <3>1. 0 = 0 * 2^(BufferBits - 0)
      BY <1>6
    <3>2. QED
      BY <1>1, <1>5, <3>1, Zenon
  <2>2. taken + bits = at * ByteBits
    BY <1>0, <1>1
  <2>3. at \in 0 .. Len(input) /\ bits \in 0 .. BufferBits /\ taken \in Nat
    BY <1>0, <1>1, <1>3
  <2>4. QED
    BY <1>3, <1>4, <2>1, <2>2, <2>3, Zenon DEF WordInv
<1>8. CallInv
  <2>1. Stream!MaxBits \in Nat
    BY <1>0 DEF Stream!MaxBits
  <2>2. result = Value(input, before, asked)
    BY <1>1, <1>5, Zenon
  <2>3. QED
    BY <1>1, <2>1, <2>2 DEF CallInv
<1>9. QED
  BY <1>7, <1>8 DEF StreamInv

(* peek_bits: the loop puts the bytes of one call of the callback into the *)
(* buffer, in order.                                                       *)
LEMMA FilledIs ==
  ASSUME WordInv, NEW num \in Nat, at + num <= Len(input), bits + num * ByteBits <= BufferBits
  PROVE  Stream!Filled(num)
           = Value(input, taken, bits + num * ByteBits)
               * 2^(BufferBits - (bits + num * ByteBits))
<1>0. /\ ByteBits \in Nat \ {0} /\ BufferBits \in Nat /\ bits \in Nat
      /\ at \in Nat /\ taken \in Nat
  BY BitStreamAssumption DEF WordInv
<1>1. PICK size \in Nat : size = Len(input) /\ AreBytes(input, size)
  BY DEF WordInv, AreBytes
<1> DEFINE Have(k) == bits + k * ByteBits
           Word(k) == Value(input, taken, Have(k)) * 2^(BufferBits - Have(k))
           Byte(k, h) == (input[at + k] * 2^(BufferBits - ByteBits - h)) % 2^BufferBits
           Turn(f, k) == IF k = 0 THEN bit_buffer ELSE f[k - 1] + Byte(k, Have(k - 1))
           IsFill(f) == f = [k \in 0 .. num |-> Turn(f, k)]
<1>2. Word(0) = bit_buffer
  <2>1. Have(0) = bits
    BY <1>0
  <2> HIDE DEF Have
  <2>2. QED
    BY <2>1, Zenon DEF WordInv
<1>3. ASSUME NEW k \in 0 .. num - 1
      PROVE  Word(k) + Byte(k + 1, Have(k)) = Word(k + 1)
  <2>1. PICK h \in Nat, q \in 0 .. size - 1 : h = Have(k) /\ q = at + k
    BY <1>0, <1>1
  <2>2. taken + h = q * ByteBits
    <3>1. taken + bits = at * ByteBits
      BY DEF WordInv
    <3>2. h = bits + k * ByteBits
      BY <2>1
    <3>3. /\ q * ByteBits = at * ByteBits + k * ByteBits
          /\ at * ByteBits \in Nat /\ k * ByteBits \in Nat
      BY <1>0, <2>1
    <3> HIDE DEF Have
    <3>4. QED
      BY <1>0, <3>1, <3>2, <3>3
  <2>3. h + ByteBits = Have(k + 1)
    BY <1>0, <2>1
  <2>4. h + ByteBits <= BufferBits
    <3>1. PICK e \in Nat : num = k + 1 + e
      OBVIOUS
    <3>2. num * ByteBits = (k + 1) * ByteBits + e * ByteBits /\ e * ByteBits \in Nat
          /\ (k + 1) * ByteBits \in Nat
      BY <1>0, <3>1
    <3>3. QED
      BY <1>0, <2>3, <3>2
  <2>5. input[q + 1] = input[at + (k + 1)]
    <3>1. q + 1 = at + (k + 1)
      BY <1>0, <2>1
    <3>2. QED
      BY <3>1, Zenon
  <2>6. Value(input, taken, h) * 2^(BufferBits - h)
           + ((input[q + 1] * 2^(BufferBits - ByteBits - h)) % 2^BufferBits)
         = Value(input, taken, h + ByteBits) * 2^(BufferBits - (h + ByteBits))
    BY ONLY <1>0, <1>1, <2>2, <2>4, q \in 0 .. size - 1, h \in Nat, size \in Nat, PutByte
  <2> HIDE DEF Have
  <2>7. QED
    BY <2>1, <2>3, <2>5, <2>6, Zenon
<1>4. IsFill([k \in 0 .. num |-> Word(k)])
  <2> DEFINE g == [k \in 0 .. num |-> Word(k)]
  <2>1. ASSUME NEW k \in 0 .. num PROVE Turn(g, k) = Word(k)
    <3>1. CASE k = 0
      BY <1>2, <3>1, Zenon
    <3>2. CASE k # 0
      <4>1. PICK j \in 0 .. num - 1 : j = k - 1 /\ j + 1 = k
        BY <3>2
      <4>2. g[j] = Word(j)
        BY <4>1
      <4>3. Turn(g, k) = g[j] + Byte(k, Have(j))
        BY <3>2, <4>1, Zenon
      <4> HIDE DEF Turn, g, Have, Word, Byte
      <4>4. QED
        BY <1>3, <4>1, <4>2, <4>3, Zenon
    <3>3. QED
      BY <3>1, <3>2
  <2> HIDE DEF Turn, Word
  <2>2. QED
    BY <2>1
<1> HIDE DEF Have, Word, Byte
<1>5. PICK f : IsFill(f) /\ Stream!Filled(num) = f[num]
  BY <1>4, Zenon DEF Stream!Filled, Stream!Put, Stream!Shl, Have, Byte
<1>6. \A k \in 0 .. num : f[k] = Turn(f, k)
  BY <1>5
<1> DEFINE S == {k \in 0 .. num : f[k] = Word(k)}
<1>7. 0 \in S
  BY <1>2, <1>6
<1>8. ASSUME NEW k \in 0 .. num - 1, k \in S PROVE k + 1 \in S
  <2>1. k + 1 \in 0 .. num /\ k + 1 # 0 /\ k + 1 - 1 = k
    OBVIOUS
  <2>2. f[k + 1] = f[k] + Byte(k + 1, Have(k))
    BY ONLY <1>6, <2>1
  <2>3. QED
    BY <1>3, <1>8, <2>1, <2>2, Zenon
<1> HIDE DEF S
<1>9. num \in S
  <2>1. 0 .. num \subseteq S
    BY <1>7, <1>8, BoundedSetInduction
  <2>2. QED
    BY <2>1
<1>10. QED
  BY <1>5, <1>9 DEF S, Word, Have

(* peek_bits fetches bytes. *)
LEMMA FillKeeps ==
  ASSUME StreamInv, Stream!Fill
  PROVE  StreamInv'
<1>0. /\ ByteBits \in Nat \ {0} /\ BufferBits \in Nat /\ bits \in Nat /\ bits <= BufferBits
      /\ at \in Nat /\ taken \in Nat
  BY BitStreamAssumption DEF StreamInv, WordInv
<1>1. PICK size \in Nat : size = Len(input) /\ AreBytes(input, size)
  BY DEF StreamInv, WordInv, AreBytes
<1>2. PICK num \in 1 .. Stream!SmallerOf(Stream!fill_bytes, Len(input) - at) :
        /\ bit_buffer' = Stream!Filled(num) /\ bits' = bits + num * ByteBits /\ at' = at + num
  BY DEF Stream!Fill
<1>3. PICK room \in Nat :
        room = (BufferBits - bits) \div ByteBits /\ ByteBits * room <= BufferBits - bits
  <2>1. PICK free \in Nat : free = BufferBits - bits
    BY <1>0
  <2>2. free \div ByteBits \in Nat /\ ByteBits * (free \div ByteBits) <= free
    BY <1>0
  <2>3. QED
    BY <2>1, <2>2, Zenon
<1>4. num \in Nat /\ num >= 1 /\ num <= room /\ at + num <= size
  <2>1. Stream!SmallerOf(Stream!fill_bytes, Len(input) - at)
          = IF room < size - at THEN room ELSE size - at
    BY <1>1, <1>3, Zenon DEF Stream!SmallerOf, Stream!fill_bytes
  <2>2. QED
    BY <1>0, <1>2, <2>1
<1>5. PICK more \in Nat : more = num * ByteBits /\ bits + more <= BufferBits
  <2>1. PICK e \in Nat : room = num + e
    BY <1>4
  <2>2. ByteBits * room = num * ByteBits + ByteBits * e /\ ByteBits * e \in Nat
        /\ num * ByteBits \in Nat
    BY <1>0, <1>4, <2>1
  <2>3. QED
    BY <1>0, <1>3, <2>2
<1>6. bit_buffer' = Value(input, taken, bits + more) * 2^(BufferBits - (bits + more))
  <2>1. at + num <= Len(input) /\ bits + num * ByteBits <= BufferBits
    BY <1>1, <1>4, <1>5, Zenon
  <2>2. Stream!Filled(num)
          = Value(input, taken, bits + num * ByteBits)
              * 2^(BufferBits - (bits + num * ByteBits))
    BY ONLY <1>4, <2>1, StreamInv, FilledIs DEF StreamInv
  <2>3. QED
    BY <1>2, <1>5, <2>2, Zenon
<1>7. UNCHANGED <<input, n, keep, result, taken, before, asked>> /\ n > bits
  BY DEF Stream!Fill
<1>8. WordInv'
  <2>1. bits' = bits + more /\ taken' = taken /\ input' = input
    BY <1>2, <1>5, <1>7, Zenon
  <2>2. bit_buffer' = Value(input', taken', bits') * 2^(BufferBits - bits')
    BY <1>6, <2>1, Zenon
  <2>3. taken' + bits' = at' * ByteBits
    <3>1. taken + bits = at * ByteBits
      BY DEF StreamInv, WordInv
    <3>2. (at + num) * ByteBits = at * ByteBits + num * ByteBits /\ at * ByteBits \in Nat
      BY <1>0, <1>4
    <3>3. taken + (bits + more) = (at + num) * ByteBits
      BY <1>0, <1>5, <3>1, <3>2
    <3>4. QED
      BY <1>2, <2>1, <3>3, Zenon
  <2>4. at' \in 0 .. Len(input') /\ bits' \in 0 .. BufferBits /\ taken' \in Nat
    BY <1>0, <1>1, <1>2, <1>4, <1>5, <2>1
  <2>5. AreBytes(input', Len(input'))
    BY <1>1, <2>1, Zenon
  <2>6. QED
    BY <2>2, <2>3, <2>4, <2>5, Zenon DEF WordInv
<1>9. CallInv'
  <2>1. n # -1
    BY <1>0, <1>7
  <2>2. n' # -1
    BY <1>7, <2>1, Zenon
  <2>3. CallInv
    BY DEF StreamInv
  <2>4. QED
    BY <1>7, <2>1, <2>2, <2>3, Zenon DEF CallInv, Stream!MaxBits
<1>10. QED
  BY <1>8, <1>9 DEF StreamInv

(* peek_bits fails: there was room for a byte, so there was none left.     *)
LEMMA EndKeeps ==
  ASSUME StreamInv, Stream!EndOfFile
  PROVE  StreamInv'
<1>0. /\ ByteBits \in Nat \ {0} /\ BufferBits \in Nat /\ bits \in Nat /\ bits <= BufferBits
      /\ at \in Nat /\ taken \in Nat /\ n \in Int /\ n <= BufferBits - ByteBits + 1
  BY BitStreamAssumption DEF StreamInv, WordInv, CallInv, Stream!MaxBits
<1>1. PICK size \in Nat : size = Len(input) /\ at <= size
  BY DEF StreamInv, WordInv, AreBytes
<1>2. /\ n > bits /\ result' = -1 /\ n' = -1
      /\ UNCHANGED <<input, at, bit_buffer, bits, keep, taken, before, asked>>
  BY DEF Stream!EndOfFile
<1>3. PICK room \in Nat :
        room = (BufferBits - bits) \div ByteBits /\ BufferBits - bits < ByteBits * room + ByteBits
  BY <1>0
<1>4. room # 0
  BY <1>0, <1>2, <1>3
<1>5. at = size
  <2>1. Stream!SmallerOf(Stream!fill_bytes, Len(input) - at)
          = IF room < size - at THEN room ELSE size - at
    BY <1>1, <1>3, Zenon DEF Stream!SmallerOf, Stream!fill_bytes
  <2>2. Stream!SmallerOf(Stream!fill_bytes, Len(input) - at) = 0
    BY DEF Stream!EndOfFile
  <2>3. QED
    BY <1>0, <1>1, <1>4, <2>1, <2>2
<1>6. taken = before /\ asked = n
  <2>1. n # -1
    BY <1>0, <1>2
  <2>2. QED
    BY <2>1, Zenon DEF StreamInv, CallInv
<1>7. Len(input) * ByteBits - taken < asked
  <2>1. taken + bits = Len(input) * ByteBits
    BY <1>1, <1>5, Zenon DEF StreamInv, WordInv
  <2>2. PICK all \in Nat : all = Len(input) * ByteBits
    BY <1>0, <1>1
  <2>3. all - taken < n
    BY <1>0, <1>2, <2>1, <2>2
  <2>4. QED
    BY <1>6, <2>2, <2>3, Zenon
<1>8. WordInv'
  BY <1>2, Zenon DEF StreamInv, WordInv
<1>9. CallInv'
  <2>1. keep \in {0, 1} /\ before \in Nat /\ asked \in Nat
    BY DEF StreamInv, CallInv
  <2>2. -1 \in -1 .. Stream!MaxBits
    BY BitStreamAssumption DEF Stream!MaxBits
  <2>3. QED
    BY <1>2, <1>6, <1>7, <2>1, <2>2 DEF CallInv, Stream!MaxBits
<1>10. QED
  BY <1>8, <1>9 DEF StreamInv

(* peek_bits and read_bits return the first bits of the buffer.            *)
LEMMA ReturnKeeps ==
  ASSUME StreamInv, Stream!Return
  PROVE  StreamInv'
<1>0. /\ ByteBits \in Nat \ {0} /\ BufferBits \in Nat /\ bits \in Nat /\ bits <= BufferBits
      /\ at \in Nat /\ taken \in Nat
  BY BitStreamAssumption DEF StreamInv, WordInv
<1>1. PICK size \in Nat : size = Len(input) /\ AreBytes(input, size) /\ at <= size
  BY DEF StreamInv, WordInv, AreBytes
<1>2. /\ n \in 0 .. bits /\ n' = -1 /\ UNCHANGED <<input, at, keep, before, asked>>
      /\ result' = IF n = 0 THEN 0 ELSE bit_buffer \div 2^(BufferBits - n)
      /\ IF keep = 1 THEN UNCHANGED <<bit_buffer, bits, taken>> ELSE Stream!Consume
  BY DEF Stream!Return, Stream!Shr
<1>3. PICK m \in Nat, d \in Nat : m = n /\ bits = m + d /\ d = bits - n
  BY <1>0, <1>2
<1>4. m + d <= BufferBits /\ taken + m + d <= size * ByteBits
  <2>1. taken + bits = at * ByteBits
    BY DEF StreamInv, WordInv
  <2>2. PICK e \in Nat : size = at + e
    <3>1. at \in Nat /\ at <= size
      BY <1>0, <1>1, Zenon
    <3>2. size - at \in Nat /\ size = at + (size - at)
      BY ONLY <3>1, size \in Nat
    <3>3. QED
      BY <3>2, Zenon
  <2>3. /\ size * ByteBits = at * ByteBits + e * ByteBits
        /\ at * ByteBits \in Nat /\ e * ByteBits \in Nat
    BY <1>0, <2>2
  <2>4. QED
    BY <1>0, <1>3, <2>1, <2>3
<1>5. bit_buffer = Value(input, taken, m + d) * 2^(BufferBits - (m + d))
  BY <1>3, Zenon DEF StreamInv, WordInv
<1>6. /\ bit_buffer \div 2^(BufferBits - m) = Value(input, taken, m)
      /\ (bit_buffer * 2^m) % 2^BufferBits = Value(input, taken + m, d) * 2^(BufferBits - d)
  BY ONLY <1>0, <1>1, <1>4, <1>5, m \in Nat, d \in Nat, size \in Nat, TakeBits
<1>7. result' = Value(input, taken, m)
  <2>1. CASE n = 0
    BY <1>0, <1>2, <1>3, <2>1, ValueStep
  <2>2. CASE n # 0
    BY <1>2, <1>3, <1>6, <2>2, Zenon
  <2>3. QED
    BY <2>1, <2>2
<1>8. Value(input, taken, m) \in Nat
  <2>1. m \in 0 .. BufferBits /\ taken + m <= size * ByteBits
    BY <1>0, <1>4
  <2>2. Value(input, taken, m) \in 0 .. 2^m - 1
    BY ONLY <1>0, <1>1, <2>1, size \in Nat, ValueRange
  <2>3. QED
    BY <2>2
<1>9. taken = before /\ asked = m /\ keep \in {0, 1} /\ before \in Nat
  <2>1. n # -1
    BY <1>2
  <2>2. QED
    BY <1>3, <2>1, Zenon DEF StreamInv, CallInv
<1>10. CASE keep = 1
  <2>1. UNCHANGED <<input, at, bit_buffer, bits, taken>>
    BY <1>2, <1>10
  <2>2. WordInv'
    BY <2>1, Zenon DEF StreamInv, WordInv
  <2>3. taken' = before' /\ result' = Value(input', before', asked') /\ keep' = 1
    BY <1>2, <1>7, <1>9, <1>10, <2>1, Zenon
  <2>4. QED
    BY <1>2, <1>7, <1>8, <1>9, <2>2, <2>3, MaxBitsNat DEF StreamInv, CallInv, Stream!MaxBits
<1>11. CASE keep = 0
  <2>1. /\ bit_buffer' = (bit_buffer * 2^m) % 2^BufferBits
        /\ bits' = bits - n /\ taken' = taken + n
    <3>1. keep # 1
      BY <1>11
    <3>2. QED
      BY <1>2, <1>3, <3>1, Zenon DEF Stream!Consume, Stream!Shl
  <2>2. bits' = d /\ taken' = taken + m /\ input' = input /\ at' = at
    BY <1>2, <1>3, <2>1, Zenon
  <2>3. bit_buffer' = Value(input', taken', bits') * 2^(BufferBits - bits')
    BY <1>6, <2>1, <2>2, Zenon
  <2>4. taken' + bits' = at' * ByteBits
    <3>1. taken + m + d = at * ByteBits
      <4>1. taken + bits = at * ByteBits
        BY DEF StreamInv, WordInv
      <4>2. taken + m + d = taken + bits
        BY <1>0, <1>3
      <4>3. QED
        BY <4>1, <4>2, Zenon
    <3>2. QED
      BY <2>2, <3>1, Zenon
  <2>5. at' \in 0 .. Len(input') /\ bits' \in 0 .. BufferBits /\ taken' \in Nat
    BY <1>0, <1>1, <1>3, <2>2
  <2>6. WordInv'
    BY <1>1, <2>2, <2>3, <2>4, <2>5, Zenon DEF WordInv
  <2>7. taken' = before' + asked' /\ result' = Value(input', before', asked') /\ keep' = 0
    BY <1>2, <1>7, <1>9, <1>11, <2>2, Zenon
  <2>8. QED
    BY <1>2, <1>7, <1>8, <1>9, <2>6, <2>7, MaxBitsNat DEF StreamInv, CallInv, Stream!MaxBits
<1>12. QED
  BY <1>9, <1>10, <1>11

(* A call begins. *)
LEMMA CallKeeps ==
  ASSUME StreamInv, NEW num \in 0 .. Stream!MaxBits, NEW peek \in {0, 1}, Stream!Call(num, peek)
  PROVE  StreamInv'
<1>1. /\ n' = num /\ keep' = peek /\ before' = taken /\ asked' = num
      /\ UNCHANGED <<input, at, bit_buffer, bits, result, taken>>
  BY DEF Stream!Call
<1>2. WordInv'
  BY <1>1, Zenon DEF StreamInv, WordInv
<1>3. taken \in Nat /\ result \in Nat \cup {-1} /\ num \in Nat /\ num # -1
  BY MaxBitsNat DEF StreamInv, WordInv, CallInv
<1>4. CallInv'
  BY <1>1, <1>3, MaxBitsNat DEF CallInv, Stream!MaxBits
<1>5. QED
  BY <1>2, <1>4 DEF StreamInv

(* Whatever the decoder does with the bits, the stream keeps its invariant. *)
LEMMA NextStream ==
  ASSUME StreamInv, [ReaderNext]_allVars
  PROVE  StreamInv'
<1>1. CASE UNCHANGED streamVars
  BY <1>1, Zenon DEF streamVars, StreamInv, WordInv, CallInv, Stream!MaxBits
<1>2. CASE OtherBits
  BY <1>2, CallKeeps DEF OtherBits, Stream!peek_bits, Stream!read_bits
<1>3. CASE read_bit
  <2>1. 1 \in 0 .. Stream!MaxBits
    BY MaxBitsNat
  <2>2. QED
    BY <1>3, <2>1, CallKeeps DEF read_bit
<1>4. CASE Served
  BY <1>4, FillKeeps, EndKeeps, ReturnKeeps DEF Served
<1>5. QED
  BY <1>1, <1>2, <1>3, <1>4, Zenon DEF ReaderNext, allVars, BuildFirst, BeginWalk, Proceed

(* peek_bits and read_bits return the bits of the input in order, whatever *)
(* portions the callback gives, and fail only when there are too few left, *)
(* for bytes and buffers of every width.                                   *)
THEOREM BitsComeInOrder == ReaderSpec => []BitsInOrder
<1>1. ReaderInit => StreamInv
  BY InitStream DEF ReaderInit
<1>2. StreamInv /\ [ReaderNext]_allVars => StreamInv'
  BY NextStream
<1>3. StreamInv => BitsInOrder
  <2> SUFFICES ASSUME StreamInv PROVE BitsInOrder
    OBVIOUS
  <2>1. Stream!ReadsInOrder
    <3>1. ASSUME n = -1
          PROVE  /\ result >= 0 => result = Stream!Number(before, asked)
                 /\ taken = IF result >= 0 /\ keep = 0 THEN before + asked ELSE before
      <4>1. CASE result = -1
        BY <3>1, <4>1 DEF StreamInv, CallInv
      <4>2. CASE result # -1
        BY <3>1, <4>2, NumberIs DEF StreamInv, CallInv
      <4>3. QED
        BY <4>1, <4>2
    <3>2. QED
      BY <3>1 DEF Stream!ReadsInOrder
  <2>2. Stream!FailsOnlyAtEnd
    BY DEF StreamInv, CallInv, Stream!FailsOnlyAtEnd, Stream!Left
  <2>3. QED
    BY <2>1, <2>2 DEF BitsInOrder
<1>4. QED
  BY <1>1, <1>2, <1>3, PTL DEF ReaderSpec
=============================================================================
