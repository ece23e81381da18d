----------------------------- MODULE PmaHistory -----------------------------
(***************************************************************************)
(* lib/pma_common.c: the history list of the PMarc decoders, a ring of all *)
(* characters linked both ways through arrays indexed by the character.    *)
(*                                                                         *)
(* There are 8 * Group characters; Group is 0x20 in the code.              *)
(***************************************************************************)
EXTENDS Integers, Sequences

CONSTANT Group

ASSUME GroupAssumption == Group \in Nat \ {0}

Size  == 8 * Group
Chars == 0 .. Size - 1

VARIABLES
  prev, next,    \* HistoryLinkedList.history
  history_head,  \* HistoryLinkedList
  count, char    \* the place last decoded and the character found there

listVars == <<prev, next, history_head, count, char>>

(* A linear chain, cut into groups that are put into another order. *)
init_history_list ==
  /\ prev = [c \in Chars |->
       CASE c = 4 * Group - 1 -> 0
         [] c = Group - 1     -> 5 * Group
         [] c = 7 * Group - 1 -> 4 * Group
         [] c = 5 * Group - 1 -> 7 * Group
         [] c = Size - 1      -> Group
         [] OTHER             -> c + 1]
  /\ next = [c \in Chars |->
       CASE c = 0         -> 4 * Group - 1
         [] c = 5 * Group -> Group - 1
         [] c = 4 * Group -> 7 * Group - 1
         [] c = 7 * Group -> 5 * Group - 1
         [] c = Group     -> Size - 1
         [] OTHER         -> c - 1]
  /\ history_head = Group

-----------------------------------------------------------------------------
(* The character reached by following a link k times. *)
Follow(link, k) ==
  LET walk[j \in 0 .. k] == IF j = 0 THEN history_head ELSE link[walk[j - 1]]
  IN  walk[k]

(* Mutant: one step too many on the way round. *)
find_in_history_list_TooFar(num) ==
  IF num < Size \div 2 THEN Follow(prev, num) ELSE Follow(next, Size - num + 1)

(* The shorter way round. *)
find_in_history_list(num) ==
  IF num < Size \div 2 THEN Follow(prev, num) ELSE Follow(next, Size - num)

(* Both neighbours of b are linked to each other. *)
Unhook(b) ==
  [prev |-> [prev EXCEPT ![next[b]] = prev[b]],
   next |-> [next EXCEPT ![prev[b]] = next[b]]]

(* Unhooks the character and hooks it in before the old head, reading the  *)
(* links in the order in which the code writes them.                       *)
update_history_list(b) ==
  IF history_head = b
  THEN UNCHANGED <<prev, next, history_head>>
  ELSE LET cut   == Unhook(b)
           after == cut.next[history_head]
       IN  /\ prev' = [cut.prev EXCEPT ![b] = history_head, ![after] = b]
           /\ next' = [cut.next EXCEPT ![b] = after, ![history_head] = b]
           /\ history_head' = b

ListInit == init_history_list /\ count = 0 /\ char = history_head

(* What pm1 and pm2 do for each byte: look it up, and then output it. *)
Decode ==
  /\ count' \in Chars
  /\ char' = find_in_history_list(count')
  /\ update_history_list(char')

ListSpec == ListInit /\ [][Decode]_listVars

-----------------------------------------------------------------------------
(* update_history_list: the two links of every character agree, so that    *)
(* the walks of find_in_history_list give the same either way round.       *)
LinksAgree ==
  \A c \in Chars :
    /\ prev[c] \in Chars /\ next[c] \in Chars
    /\ next[prev[c]] = c /\ prev[next[c]] = c

List == [k \in 1 .. Size |-> Follow(prev, k - 1)]

Ordered == INSTANCE MoveToFront WITH list <- List

(* The groups in the order of the comments in init_history_list. *)
FirstList ==
  LET part(from, to) == [k \in 1 .. to - from |-> from + k - 1] IN
  part(Group, 4 * Group) \o part(0, Group) \o part(5 * Group, 7 * Group)
    \o part(4 * Group, 5 * Group) \o part(7 * Group, Size)

(* The ring implements the list of MoveToFront: all the characters, each   *)
(* once, the last one output first, the count of a code counted along it;  *)
(* and it starts with the groups in the order of the comments in           *)
(* init_history_list.                                                      *)
MovesToFront == Ordered!Start(FirstList) /\ [][Ordered!Decode]_Ordered!vars
=============================================================================
