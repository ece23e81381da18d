------------------------------ MODULE Lh1Tree ------------------------------
(***************************************************************************)
(* lib/lh1_decoder.c: the adaptive Huffman tree of -lh1-.                  *)
(*                                                                         *)
(* nodes is kept in decreasing order of frequency with the root first; the *)
(* nodes of one frequency are a group, whose leftmost node is its leader.  *)
(* A code is read bit by bit from the root, and then counted: each node on *)
(* the way back up becomes the leader of its group before its frequency    *)
(* grows.  A turn of a loop is a step.                                     *)
(***************************************************************************)
EXTENDS Integers, FiniteSets, FiniteSetsExt, SequencesExt

CONSTANTS
  NUM_CODES,          \* 314 in the code
  TREE_REORDER_LIMIT  \* 32 * 1024 in the code

NUM_TREE_NODES == NUM_CODES * 2 - 1

Codes   == 0 .. NUM_CODES - 1
Indices == 0 .. NUM_TREE_NODES - 1

Node == [leaf : {0, 1}, child_index : Indices, parent : Indices, freq : Nat, group : Indices]

VARIABLES
  nodes, leaf_nodes,                \* LHALH1Decoder
  groups, num_groups, group_leader, \* LHALH1Decoder
  pc,                               \* "read": read_code; "rebuild":
                                    \* reconstruct_tree; "up":
                                    \* increment_for_code; "end": no bits
  node_index,                       \* the node the loops are at
  code,                             \* the code that was read
  leaf, child,                      \* reconstruct_tree
  weight                            \* history: how often each code was read,
                                    \* halved where the tree was rebuilt

treeVars == <<nodes, leaf_nodes>>
groupVars == <<groups, num_groups, group_leader>>
loopVars == <<code, leaf, child>>
vars == <<treeVars, groupVars, pc, node_index, loopVars, weight>>

(* nodes[i] and nodes[i - 1] for the child_index i of a node. *)
Children(k) == {nodes[k].child_index, nodes[k].child_index - 1}

-----------------------------------------------------------------------------
(* init_groups: group numbers from num_groups on are free. *)
init_groups == [g \in Indices |-> g]

(* init_tree: the leaves, in reverse, and above them the branches, which   *)
(* take the nodes from the end of the table two by two.                    *)
InitialChild(k) == NUM_TREE_NODES - 1 - 2 * (NUM_CODES - 2 - k)

InitialFreq ==
  LET freq[k \in Indices] ==
        IF k >= NUM_CODES - 1 THEN 1
        ELSE freq[InitialChild(k)] + freq[InitialChild(k) - 1]
  IN  freq

InitialGroup(k) ==
  Cardinality({j \in k .. NUM_TREE_NODES - 2 : InitialFreq[j] # InitialFreq[j + 1]})

init_tree ==
  /\ nodes = [k \in Indices |->
       [leaf        |-> IF k >= NUM_CODES - 1 THEN 1 ELSE 0,
        child_index |-> IF k >= NUM_CODES - 1 THEN NUM_TREE_NODES - 1 - k ELSE InitialChild(k),
        parent      |-> IF k = 0 THEN 0 ELSE (k - 1) \div 2,
        freq        |-> InitialFreq[k],
        group       |-> InitialGroup(k)]]
  /\ leaf_nodes = [c \in Codes |-> NUM_TREE_NODES - 1 - c]
  /\ groups = init_groups
  /\ num_groups = InitialGroup(0) + 1
  /\ group_leader = [g \in Indices |->
       IF g < num_groups THEN Min({k \in Indices : InitialGroup(k) = g}) ELSE 0]

-----------------------------------------------------------------------------
(* What a node stands for is at index k now: its code or its children are  *)
(* told.                                                                   *)
Relink(t, k) ==
  IF t.nodes[k].leaf = 1
  THEN [t EXCEPT !.leaf_nodes[t.nodes[k].child_index] = k]
  ELSE [t EXCEPT !.nodes[t.nodes[k].child_index].parent = k,
                 !.nodes[t.nodes[k].child_index - 1].parent = k]

(* Mutant: the children of the old leader are not told. *)
make_group_leader_HalfLinked(t, k, leader) ==
  LET node == t.nodes[k]
      lead == t.nodes[leader]
      swapped == [t EXCEPT
        !.nodes[leader].leaf = node.leaf, !.nodes[leader].child_index = node.child_index,
        !.nodes[k].leaf = lead.leaf, !.nodes[k].child_index = lead.child_index]
  IN  IF leader = k THEN t ELSE Relink(swapped, leader)

(* Mutant: the node stays where it is. *)
make_group_leader_Stays(t, k, leader) == t

(* The node at k changes places with the leader of its group: what they    *)
(* stand for is swapped, their parents are not.                            *)
make_group_leader(t, k, leader) ==
  LET node == t.nodes[k]
      lead == t.nodes[leader]
      swapped == [t EXCEPT
        !.nodes[leader].leaf = node.leaf, !.nodes[leader].child_index = node.child_index,
        !.nodes[k].leaf = lead.leaf, !.nodes[k].child_index = lead.child_index]
  IN  IF leader = k THEN t ELSE Relink(Relink(swapped, k), leader)

(* Mutant: the group of a node that joins another is not freed. *)
JoinFromSingle_NotFreed(t, k) ==
  /\ nodes' = [t EXCEPT ![k].freq = @ + 1, ![k].group = t[k - 1].group]
  /\ UNCHANGED groupVars

(* A node with a group of its own joins the one to its left. *)
JoinFromSingle(t, k) ==
  /\ nodes' = [t EXCEPT ![k].freq = @ + 1, ![k].group = t[k - 1].group]
  /\ num_groups' = num_groups - 1
  /\ groups' = [groups EXCEPT ![num_groups'] = t[k].group]
  /\ UNCHANGED group_leader

(* A node leaves its group, whose next node becomes the leader, for the    *)
(* one to its left or for a new one.                                       *)
LeaveGroup(t, k) ==
  LET left == [group_leader EXCEPT ![t[k].group] = @ + 1] IN
  IF t[k].freq + 1 = t[k - 1].freq
  THEN /\ nodes' = [t EXCEPT ![k].freq = @ + 1, ![k].group = t[k - 1].group]
       /\ group_leader' = left
       /\ UNCHANGED <<groups, num_groups>>
  ELSE /\ nodes' = [t EXCEPT ![k].freq = @ + 1, ![k].group = groups[num_groups]]
       /\ num_groups' = num_groups + 1
       /\ group_leader' = [left EXCEPT ![groups[num_groups]] = k]
       /\ UNCHANGED groups

InGroupOfNext(t, k) == k < NUM_TREE_NODES - 1 /\ t[k].group = t[k + 1].group

increment_node_freq(t, k) ==
  CASE InGroupOfNext(t, k) -> LeaveGroup(t, k)
    [] ~InGroupOfNext(t, k) /\ t[k].freq + 1 = t[k - 1].freq -> JoinFromSingle(t, k)
    [] OTHER -> nodes' = [t EXCEPT ![k].freq = @ + 1] /\ UNCHANGED groupVars

(* A turn of the loop of increment_for_code. *)
CountNode ==
  /\ pc = "up" /\ node_index # 0
  /\ LET leader == group_leader[nodes[node_index].group]
         t == make_group_leader([nodes |-> nodes, leaf_nodes |-> leaf_nodes],
                                node_index, leader)
     IN  /\ increment_node_freq(t.nodes, leader)
         /\ leaf_nodes' = t.leaf_nodes
         /\ node_index' = t.nodes[leader].parent
  /\ UNCHANGED <<pc, loopVars, weight>>

CodeCounted ==
  /\ pc = "up" /\ node_index = 0
  /\ pc' = "read"
  /\ UNCHANGED <<treeVars, groupVars, node_index, loopVars, weight>>

-----------------------------------------------------------------------------
(* reconstruct_tree *)

Halved(freq) == (freq + 1) \div 2

(* The leaves at the start of the table, in their order; the rest of the   *)
(* table is as it was.                                                     *)
Gathered ==
  LET leaves == SetToSortSeq({k \in Indices : nodes[k].leaf = 1}, <)
      Leaf(k) == nodes[leaves[k + 1]]
  IN  [k \in Indices |->
         IF k \in Codes
         THEN [nodes[k] EXCEPT !.leaf = 1, !.child_index = Leaf(k).child_index,
                               !.freq = Halved(Leaf(k).freq)]
         ELSE nodes[k]]

(* The sum of the two nodes that are to become children. *)
freq == nodes[child].freq + nodes[child - 1].freq

(* The next node from the end is a leaf: there are no two nodes for a      *)
(* branch yet, or the branch would be too frequent to come here.           *)
TakesLeaf == child - node_index < 2 \/ (leaf >= 0 /\ freq >= nodes[leaf].freq)

(* The loop fills the table from the end, in place: the leaves that are    *)
(* left are at 0 .. leaf, and the next pair of children at child.          *)
MoveLeaf ==
  /\ pc = "rebuild" /\ node_index >= 0
  /\ TakesLeaf = TRUE
  /\ nodes' = [nodes EXCEPT ![node_index] = nodes[leaf]]
  /\ leaf_nodes' = [leaf_nodes EXCEPT ![nodes[leaf].child_index] = node_index]
  /\ leaf' = leaf - 1
  /\ node_index' = node_index - 1
  /\ UNCHANGED <<groupVars, pc, code, child, weight>>

InsertBranch ==
  /\ pc = "rebuild" /\ node_index >= 0
  /\ ~TakesLeaf
  /\ nodes' = [nodes EXCEPT ![node_index].leaf = 0,
                            ![node_index].freq = freq,
                            ![node_index].child_index = child,
                            ![child].parent = node_index,
                            ![child - 1].parent = node_index]
  /\ child' = child - 2
  /\ node_index' = node_index - 1
  /\ UNCHANGED <<leaf_nodes, groupVars, pc, code, leaf, weight>>

(* Groups are numbered from the root on. *)
GroupOf(k) == Cardinality({j \in 1 .. k : nodes[j].freq # nodes[j - 1].freq})

(* The groups, and then the rest of increment_for_code before its loop. *)
Regroup ==
  /\ pc = "rebuild" /\ node_index < 0
  /\ nodes' = [k \in Indices |-> [nodes[k] EXCEPT !.group = GroupOf(k),
                                                 !.freq = IF k = 0 THEN @ + 1 ELSE @]]
  /\ groups' = init_groups
  /\ num_groups' = GroupOf(NUM_TREE_NODES - 1) + 1
  /\ group_leader' = [g \in Indices |->
       IF g < num_groups' THEN Min({k \in Indices : GroupOf(k) = g}) ELSE group_leader[g]]
  /\ node_index' = leaf_nodes[code]
  /\ pc' = "up"
  /\ code' = 0 /\ leaf' = 0 /\ child' = 0
  /\ UNCHANGED <<leaf_nodes, weight>>

reconstruct_tree == MoveLeaf \/ InsertBranch \/ Regroup

-----------------------------------------------------------------------------
(* read_code: down one branch. *)
ReadBit ==
  /\ pc = "read" /\ nodes[node_index].leaf = 0
  /\ \E bit \in {0, 1} : node_index' = nodes[node_index].child_index - bit
  /\ UNCHANGED <<treeVars, groupVars, pc, loopVars, weight>>

OutOfBits ==
  /\ pc = "read" /\ nodes[node_index].leaf = 0
  /\ pc' = "end"
  /\ UNCHANGED <<treeVars, groupVars, node_index, loopVars, weight>>

Counted(w, c) == [w EXCEPT ![c] = @ + 1]

(* increment_for_code, up to its loop: the tree is rebuilt first when the  *)
(* root has reached the limit, and the root is counted.                    *)
increment_for_code(c) ==
  \/ /\ nodes[0].freq >= TREE_REORDER_LIMIT
     /\ pc' = "rebuild"
     /\ nodes' = Gathered
     /\ leaf' = NUM_CODES - 1
     /\ child' = NUM_TREE_NODES - 1
     /\ node_index' = NUM_TREE_NODES - 1
     /\ code' = c
     /\ weight' = Counted([d \in Codes |-> (weight[d] + 1) \div 2], c)
  \/ /\ nodes[0].freq < TREE_REORDER_LIMIT
     /\ pc' = "up"
     /\ nodes' = [nodes EXCEPT ![0].freq = @ + 1]
     /\ node_index' = leaf_nodes[c]
     /\ weight' = Counted(weight, c)
     /\ UNCHANGED loopVars

ReachLeaf ==
  /\ pc = "read" /\ nodes[node_index].leaf = 1
  /\ increment_for_code(nodes[node_index].child_index)
  /\ UNCHANGED <<leaf_nodes, groupVars>>

Init ==
  /\ init_tree
  /\ pc = "read"
  /\ node_index = 0
  /\ code = 0 /\ leaf = 0 /\ child = 0
  /\ weight = [c \in Codes |-> 1]

Next ==
  ReadBit \/ ReachLeaf \/ reconstruct_tree \/ CountNode \/ CodeCounted \/ OutOfBits

-----------------------------------------------------------------------------
(* Between two codes. *)
AtRest == pc = "read" /\ node_index = 0

(* Every field keeps its type: frequencies stay within the 16 bits they    *)
(* have (the root, the largest, within one of the limit) and are never     *)
(* zero, and the group numbers never run out.                              *)
TypeOK ==
  /\ nodes \in [Indices -> Node]
  /\ \A k \in Indices : nodes[k].freq \in 1 .. TREE_REORDER_LIMIT + 1
  /\ leaf_nodes \in [Codes -> Indices]
  /\ groups \in [Indices -> Indices]
  /\ num_groups \in 1 .. NUM_TREE_NODES
  /\ group_leader \in [Indices -> Indices]
  /\ pc \in {"read", "rebuild", "up", "end"}
  /\ node_index \in Indices \cup {-1}
  /\ code \in Codes
  /\ leaf \in Codes \cup {-1}
  /\ child \in Indices

(* make_group_leader and reconstruct_tree: except while it is rebuilt, and *)
(* so also half way up, the nodes are one tree: the children of a branch   *)
(* come after it and name it as their parent, no node has two parents, and *)
(* the leaf of each code is where leaf_nodes says.                         *)
OneTree ==
  /\ TypeOK
  /\ pc # "rebuild" =>
       /\ \A k \in Indices : nodes[k].leaf = 0 =>
            \A c \in Children(k) : c > k /\ c \in Indices /\ nodes[c].parent = k
       /\ \A c \in Codes :
            nodes[leaf_nodes[c]].leaf = 1 /\ nodes[leaf_nodes[c]].child_index = c
       /\ Cardinality({k \in Indices : nodes[k].leaf = 1}) = NUM_CODES

(* Between codes the tree is a Huffman tree for the frequencies counted:   *)
(* the nodes are in order (the sibling property), a branch is as frequent  *)
(* as its children together, and a leaf as its code.                       *)
HuffmanTree ==
  AtRest =>
    /\ \A k \in Indices : k > 0 => nodes[k - 1].freq >= nodes[k].freq
    /\ \A k \in Indices : nodes[k].leaf = 0 =>
         nodes[k].freq = nodes[nodes[k].child_index].freq
                          + nodes[nodes[k].child_index - 1].freq
    /\ \A c \in Codes : nodes[leaf_nodes[c]].freq = weight[c]

(* Between codes the groups are exactly the runs of equal frequency, each  *)
(* with its leftmost node as leader, and every other group number is free, *)
(* once: alloc_group never gives out one that is in use.                   *)
GroupsExact ==
  AtRest =>
    LET used == {nodes[k].group : k \in Indices} IN
    /\ \A j, k \in Indices : nodes[j].freq = nodes[k].freq <=> nodes[j].group = nodes[k].group
    /\ \A g \in used : group_leader[g] = Min({k \in Indices : nodes[k].group = g})
    /\ num_groups = Cardinality(used)
    /\ {groups[j] : j \in num_groups .. NUM_TREE_NODES - 1} = Indices \ used

=============================================================================
