---------------------------- MODULE CollapsePath ----------------------------
(***************************************************************************)
(* collapse_path of lib/lha_file_header.c: the components "", "." and ".." *)
(* are taken out of a path, in place, in one pass.                         *)
(*                                                                         *)
(* The string is a sequence of characters, of which only the separator and *)
(* the full stop are told apart; pointers are positions in it.  Each turn  *)
(* of a loop is a step.                                                    *)
(***************************************************************************)
EXTENDS Integers, Sequences

CONSTANTS
  Chars,      \* the characters; "/" and "." are two of them
  MaxLength   \* the longest path

ASSUME PathAssumption == MaxLength \in Nat

Paths == UNION {[1..n -> Chars] : n \in 0..MaxLength}

VARIABLES
  given,      \* the path before the call
  buf,        \* the path, changed in place
  start,      \* filename, once the first separator is skipped
  currpath,   \* where the component being copied was begun
  r, w,       \* where the next character is read and written
  phase       \* "copy", "back" or "done"

pathVars == <<given, buf, start, currpath, r, w, phase>>

Length == Len(given)

(* The component from p up to the separator at q is one to take out. *)
Empty(s, p, q)   == q = p \/ (q = p + 1 /\ s[p] = ".")
DotDot(s, p, q)  == q = p + 2 /\ s[p] = "." /\ s[p + 1] = "."

(* Mutant: two separators in a row are let through. *)
AtSeparator_KeepsEmpty(s, q) ==
  CASE q = currpath + 1 /\ s[currpath] = "." -> w' = currpath /\ UNCHANGED <<currpath, phase>>
    [] DotDot(s, currpath, q) -> w' = currpath /\ UNCHANGED <<currpath, phase>>
    [] OTHER                  -> w' = q + 1 /\ currpath' = q + 1 /\ UNCHANGED phase

(* A separator has been copied to q: examine the component before it.      *)
(* ".." walks back up by one directory, not past the start of the string.  *)
AtSeparator(s, q) ==
  CASE Empty(s, currpath, q)  -> w' = currpath /\ UNCHANGED <<currpath, phase>>
    [] DotDot(s, currpath, q) /\ currpath = start -> w' = start /\ UNCHANGED <<currpath, phase>>
    [] DotDot(s, currpath, q) /\ currpath # start -> w' = currpath - 1 /\ phase' = "back"
                                                      /\ UNCHANGED currpath
    [] OTHER                  -> w' = q + 1 /\ currpath' = q + 1 /\ UNCHANGED phase

ReadOn == r' = r + 1

(* The loop: *w++ = *r, and what follows at a separator. *)
Copy ==
  /\ phase = "copy" /\ r <= Length
  /\ buf' = [buf EXCEPT ![w] = buf[r]]
  /\ IF buf'[r] = "/" THEN AtSeparator(buf', w)
     ELSE w' = w + 1 /\ UNCHANGED <<currpath, phase>>
  /\ ReadOn
  /\ UNCHANGED <<given, start>>

AtParent == w = start \/ buf[w - 1] = "/"

(* The loop that walks back, and currpath = w after it. *)
WalkBack ==
  /\ phase = "back"
  /\ IF AtParent
     THEN currpath' = w /\ phase' = "copy" /\ UNCHANGED w
     ELSE w' = w - 1 /\ UNCHANGED <<currpath, phase>>
  /\ UNCHANGED <<given, buf, start, r>>

(* The end of the string: it is cut off at w. *)
Terminate ==
  /\ phase = "copy" /\ r > Length
  /\ buf' = SubSeq(buf, 1, w - 1)
  /\ phase' = "done"
  /\ UNCHANGED <<given, start, currpath, r, w>>

PathInit ==
  /\ given \in Paths
  /\ buf = given
  /\ start = IF Length > 0 /\ given[1] = "/" THEN 2 ELSE 1
  /\ currpath = start /\ r = start /\ w = start
  /\ phase = "copy"

PathNext == Copy \/ WalkBack \/ Terminate

PathSpec == PathInit /\ [][PathNext]_pathVars

-----------------------------------------------------------------------------
(* Properties *)

(* "It is always the case that w <= r": the path is written where it has   *)
(* been read, never in front of the part that a first separator is kept    *)
(* in, and the characters that are still to be read are as they were given.*)
WritesBehindRead ==
  /\ start <= currpath /\ start <= w /\ w <= r
  /\ phase # "back" => currpath <= w
  /\ phase # "done" => \A i \in r..Length : buf[i] = given[i]

(* s[p..q-1] is a component that has been copied whole, with its separator *)
(* at q.                                                                   *)
Component(s, p, q, end) ==
  /\ start <= p /\ p <= q /\ q < end
  /\ s[q] = "/"
  /\ p = start \/ s[p - 1] = "/"
  /\ \A i \in p..(q - 1) : s[i] # "/"

(* No component that stands in front of the one being copied is empty, "." *)
(* or "..", whatever was removed in front of it: so the path that comes    *)
(* out holds none of them.                                                 *)
Clean ==
  \A p, q \in 1..Length :
    Component(buf, p, q, currpath) => ~Empty(buf, p, q) /\ ~DotDot(buf, p, q)
=============================================================================
