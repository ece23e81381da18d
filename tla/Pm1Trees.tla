------------------------------ MODULE Pm1Trees ------------------------------
(***************************************************************************)
(* lib/pm1_decoder.c: the trees from which -pm1- reads the place of a byte *)
(* in the history list.  Its header chooses one of them.                   *)
(***************************************************************************)
EXTENDS Integers, Sequences

(* An index into byte_ranges is read from one of these trees.  A node has  *)
(* two children: a leaf, a to f, or how far on the child is.               *)
byte_decode_trees ==
  LET a == 10  b == 11  c == 12  d == 13  e == 14  f == 15 IN
  << << <<1,2>>, <<2,d>>, <<e,f>>, <<1,c>>, <<a,b>> >>,
     << <<1,2>>, <<2,3>>, <<d,e>>, <<a,b>>, <<c,f>> >>,
     << <<1,2>>, <<2,c>>, <<d,2>>, <<a,b>>, <<e,f>> >>,
     << <<1,2>>, <<a,2>>, <<d,2>>, <<b,c>>, <<e,f>> >>,
     << <<1,2>>, <<a,2>>, <<c,2>>, <<b,d>>, <<e,f>> >>,
     << <<1,2>>, <<a,2>>, <<c,d>>, <<b,1>>, <<e,f>> >>,
     << <<1,2>>, <<a,b>>, <<1,2>>, <<c,d>>, <<e,f>> >>,
     << <<1,2>>, <<a,b>>, <<1,d>>, <<c,1>>, <<e,f>> >>,
     << <<1,2>>, <<a,b>>, <<c,1>>, <<d,1>>, <<e,f>> >>,
     << <<a,1>>, <<1,2>>, <<2,c>>, <<d,e>>, <<b,f>> >>,
     << <<a,1>>, <<1,d>>, <<1,c>>, <<b,1>>, <<e,f>> >>,
     << <<a,1>>, <<1,2>>, <<2,d>>, <<e,f>>, <<b,c>> >>,
     << <<a,1>>, <<1,2>>, <<b,2>>, <<d,e>>, <<c,f>> >>,
     << <<a,1>>, <<1,2>>, <<b,c>>, <<d,1>>, <<e,f>> >>,
     << <<a,1>>, <<1,c>>, <<b,1>>, <<d,1>>, <<e,f>> >>,
     << <<a,1>>, <<b,1>>, <<1,2>>, <<c,d>>, <<e,f>> >>,
     << <<a,1>>, <<b,1>>, <<c,1>>, <<d,1>>, <<e,f>> >>,
     << <<1,2>>, <<1,c>>, <<d,e>>, <<a,b>> >>,
     << <<1,2>>, <<a,2>>, <<c,d>>, <<b,e>> >>,
     << <<1,2>>, <<a,b>>, <<c,1>>, <<d,e>> >>,
     << <<a,1>>, <<1,d>>, <<1,c>>, <<b,e>> >>,
     << <<a,1>>, <<1,2>>, <<b,c>>, <<d,e>> >>,
     << <<a,1>>, <<1,c>>, <<b,1>>, <<d,e>> >>,
     << <<a,1>>, <<b,1>>, <<c,1>>, <<d,e>> >>,
     << <<1,d>>, <<1,c>>, <<a,b>> >>,
     << <<1,c>>, <<a,1>>, <<b,d>> >>,
     << <<1,2>>, <<a,b>>, <<c,d>> >>,
     << <<a,1>>, <<1,c>>, <<b,d>> >>,
     << <<a,1>>, <<b,1>>, <<c,d>> >>,
     << <<a,1>>, <<b,c>> >>,
     << <<a,b>> >>,
     << <<0,0>> >> >>

(* The nodes of a tree that a walk may come to. *)
Reached(tree) ==
  LET reached[k \in DOMAIN tree] ==
        k = 1 \/ \E j \in 1 .. k - 1 : \E side \in {1, 2} :
                   reached[j] /\ tree[j][side] < 10 /\ j + tree[j][side] = k
  IN  {k \in DOMAIN tree : reached[k]}

read_byte_decode_index(tree) ==
  IF tree[1] = <<0, 0>> THEN {0}
  ELSE {child - 10 : child \in {tree[k][side] : k \in Reached(tree), side \in {1, 2}} \cap 10 .. 15}

byte_ranges ==
  <<[offset |-> 0, bits |-> 4], [offset |-> 16, bits |-> 4], [offset |-> 32, bits |-> 5],
    [offset |-> 64, bits |-> 6], [offset |-> 128, bits |-> 6], [offset |-> 192, bits |-> 6]>>

(* The places in the history list that a tree can give. *)
read_byte(tree) ==
  UNION {{byte_ranges[index + 1].offset + k : k \in 0 .. 2^byte_ranges[index + 1].bits - 1} :
           index \in read_byte_decode_index(tree)}

-----------------------------------------------------------------------------
(* The tables of the code: the walks down every tree stay inside it and    *)
(* end with an index of byte_ranges, and every place of the history list   *)
(* is within its 256 bytes.                                                *)
TreesSound ==
  \A k \in DOMAIN byte_decode_trees :
    LET tree == byte_decode_trees[k] IN
    /\ tree[1] = <<0, 0>> \/
         \A j \in Reached(tree), side \in {1, 2} :
           tree[j][side] < 10 => tree[j][side] > 0 /\ j + tree[j][side] \in DOMAIN tree
    /\ read_byte_decode_index(tree) \subseteq 0 .. Len(byte_ranges) - 1
    /\ read_byte(tree) \subseteq 0 .. 255
=============================================================================
