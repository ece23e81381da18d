---------------------------- MODULE MoveToFront ----------------------------
(* What the history list of the PMarc decoders promises: the characters in *)
(* the order in which they were last output, and a character decoded by    *)
(* its place in that order.                                                *)
EXTENDS Integers, Sequences

VARIABLES list, count, char

vars == <<list, count, char>>

Start(first) ==
  /\ list = first
  /\ count = 0
  /\ char = Head(first)

(* The character at place n goes to the front; those before it move on by  *)
(* one place, and those after it stay.                                     *)
ToFront(s, n) ==
  [k \in 1 .. Len(s) |-> CASE k = 1 -> s[n]
                           [] k \in 2 .. n -> s[k - 1]
                           [] OTHER -> s[k]]

(* The character count places back is output and moves to the front. *)
Decode ==
  /\ count' \in 0 .. Len(list) - 1
  /\ char' = list[count' + 1]
  /\ list' = ToFront(list, count' + 1)
=============================================================================
