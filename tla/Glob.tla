------------------------------- MODULE Glob -------------------------------
(***************************************************************************)
(* match_glob and matches_filter of src/filter.c.                          *)
(*                                                                         *)
(* A glob and a string are sequences; the character after the end of       *)
(* either is NUL.  A call of match_glob is a frame <<g, s>>: the places    *)
(* where its glob and str pointers are.  The call of a call is the next    *)
(* frame up.                                                               *)
(***************************************************************************)
EXTENDS Integers, Sequences

CONSTANTS
  Letters,     \* the characters, other than the two with a meaning
  MaxGlob,     \* most characters in all filters together
  MaxFilters   \* most filters on the command line

Globs == UNION {[1 .. n -> Letters \cup {"*", "?"}] : n \in 0 .. MaxGlob}

(* The characters of all filters of a list. *)
Total(f) ==
  LET total[k \in 0 .. Len(f)] == IF k = 0 THEN 0 ELSE total[k - 1] + Len(f[k])
  IN  total[Len(f)]

FilterLists ==
  {f \in UNION {[1 .. n -> Globs] : n \in 0 .. MaxFilters} : Total(f) <= MaxGlob}

VARIABLES
  filters,  \* LHAFilter.filters
  path,     \* the path of a header
  i,        \* matches_filter: the filter being tried
  calls,    \* the calls of match_glob, the innermost last
  returned  \* what the innermost call just returned, or -1

vars == <<filters, path, i, calls, returned>>

Char(s, k) == IF k <= Len(s) THEN s[k] ELSE "NUL"

Top   == calls[Len(calls)]
Below == SubSeq(calls, 1, Len(calls) - 1)
G     == Char(filters[i], Top[1])
S     == Char(path, Top[2])

Running == calls # <<>> /\ returned = -1

(* Replaces the innermost frame. *)
Goto(g, s) == calls' = Append(Below, <<g, s>>)

Return(r) == calls' = Below /\ returned' = r

-----------------------------------------------------------------------------
(* matches_filter: no filters match everything; otherwise the first one    *)
(* that matches ends the loop.                                             *)
NextFilter ==
  /\ calls = <<>> /\ i <= Len(filters) /\ returned = -1
  /\ calls' = <<<<1, 1>>>>
  /\ UNCHANGED <<filters, path, i, returned>>

FilterDone ==
  /\ calls = <<>> /\ i <= Len(filters) /\ returned = 0
  /\ i' = i + 1
  /\ returned' = -1
  /\ UNCHANGED <<filters, path, calls>>

(* Mutant: a star takes at least one character. *)
Star_TakesOne ==
  /\ Running /\ S # "NUL" /\ G = "*"
  /\ calls' = Append(calls, <<Top[1] + 1, Top[2] + 1>>)
  /\ UNCHANGED <<filters, path, i, returned>>

(* match_glob: at a star, the rest of the glob is tried here. *)
Star ==
  /\ Running /\ S # "NUL" /\ G = "*"
  /\ calls' = Append(calls, <<Top[1] + 1, Top[2]>>)
  /\ UNCHANGED <<filters, path, i, returned>>

(* It matched, or the star takes the character. *)
StarDone ==
  /\ calls # <<>> /\ returned # -1
  /\ \/ returned = 1 /\ Return(1)
     \/ returned = 0 /\ Goto(Top[1], Top[2] + 1) /\ returned' = -1
  /\ UNCHANGED <<filters, path, i>>

Single ==
  /\ Running /\ S # "NUL" /\ G # "*"
  /\ IF G \in {"?", S}
     THEN Goto(Top[1] + 1, Top[2] + 1) /\ UNCHANGED returned
     ELSE Return(0)
  /\ UNCHANGED <<filters, path, i>>

(* The end of the string: stars that are left match nothing. *)
EndOfString ==
  /\ Running /\ S = "NUL"
  /\ CASE G = "*"   -> Goto(Top[1] + 1, Top[2]) /\ UNCHANGED returned
       [] G = "NUL" -> Return(1)
       [] OTHER     -> Return(0)
  /\ UNCHANGED <<filters, path, i>>

Init ==
  /\ i = 1
  /\ calls = <<>>
  /\ returned = -1

match_glob == Star \/ StarDone \/ Single \/ EndOfString

Next == NextFilter \/ FilterDone \/ match_glob

Matched  == calls = <<>> /\ (returned = 1 \/ filters = <<>>)
Finished == calls = <<>> /\ (returned = 1 \/ i > Len(filters))

-----------------------------------------------------------------------------
(* Glob g fits string s: the string is cut into one piece for each         *)
(* character of the glob, a single character except at a star.             *)
Fits(g, s) ==
  \E cut \in [0 .. Len(g) -> 0 .. Len(s)] :
    /\ cut[0] = 0 /\ cut[Len(g)] = Len(s)
    /\ \A k \in 1 .. Len(g) :
         CASE g[k] = "*" -> cut[k] >= cut[k - 1]
           [] g[k] = "?" -> cut[k] = cut[k - 1] + 1
           [] OTHER      -> cut[k] = cut[k - 1] + 1 /\ s[cut[k]] = g[k]

(* matches_filter: in the end the path has matched exactly when it fits    *)
(* one of the filters, or there are none.                                  *)
Decides ==
  Finished =>
    (Matched <=> filters = <<>> \/ \E k \in 1 .. Len(filters) : Fits(filters[k], path))
=============================================================================
