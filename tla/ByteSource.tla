----------------------------- MODULE ByteSource -----------------------------
(***************************************************************************)
(* What lha_decoder_read promises: total bytes, in order, each read giving *)
(* as many as were asked for while there are that many left.               *)
(***************************************************************************)
EXTENDS Integers

VARIABLES
  total,  \* bytes there are
  got,    \* bytes given so far
  asked,  \* the last read
  given   \* and what it gave

sourceVars == <<total, got, asked, given>>

Init == total \in Nat /\ got = 0 /\ asked = 0 /\ given = 0

Read ==
  /\ asked' \in Nat
  /\ given' = IF asked' < total - got THEN asked' ELSE total - got
  /\ got' = got + given'
  /\ UNCHANGED total

Spec == Init /\ [][Read]_sourceVars
=============================================================================
