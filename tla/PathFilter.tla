----------------------------- MODULE PathFilter -----------------------------
(***************************************************************************)
(* What filters see: the path of a header is collapsed when the header is  *)
(* read (CollapsePath), and then matched against the filters of the        *)
(* command line (Glob).  The file name, which follows the last separator,  *)
(* is taken along.                                                         *)
(***************************************************************************)
EXTENDS CollapsePath

CONSTANTS
  MaxGlob,     \* most characters in all filters together
  MaxFilters,  \* most filters on the command line
  MaxMatched   \* the longest path that is matched against filters

ASSUME FilterAssumption ==
  /\ MaxGlob \in Nat /\ MaxFilters \in Nat /\ MaxMatched \in Nat
  /\ {"*", "?", "NUL"} \cap Chars = {}

VARIABLES filters, i, calls, returned   \* see Glob

filterVars == <<filters, i, calls, returned>>

Filter == INSTANCE Glob WITH path <- buf, Letters <- Chars

FilterInit ==
  /\ PathInit
  /\ Filter!Init
  /\ filters \in IF Length <= MaxMatched THEN Filter!FilterLists ELSE {<<>>}

(* lha_file_header_read collapses the path before matches_filter sees it. *)
matches_filter == phase = "done" /\ Filter!Next /\ UNCHANGED pathVars

FilterNext == (PathNext /\ UNCHANGED filterVars) \/ matches_filter

FilterSpec == FilterInit /\ [][FilterNext]_<<pathVars, filterVars>>

-----------------------------------------------------------------------------
(* Properties *)

(* Where the component that ends before k begins. *)
Begins(s, k) ==
  CHOOSE p \in 1 .. k : (p = 1 \/ s[p - 1] = "/") /\ \A j \in p .. k - 1 : s[j] # "/"

(* One component, after those that are kept. *)
Enter(kept, c) ==
  CASE c \in {<<>>, <<".">>} -> kept
    [] c = <<".", ".">>      -> IF kept = <<>> THEN kept ELSE SubSeq(kept, 1, Len(kept) - 1)
    [] OTHER                 -> Append(kept, c)

(* A component is entered at its separator. *)
EnterAt(s, k, kept) ==
  IF s[k] = "/" THEN Enter(kept, SubSeq(s, Begins(s, k), k - 1)) ELSE kept

(* The components that are kept of the first n characters. *)
Kept(s, n) ==
  LET kept[k \in 0 .. n] == IF k = 0 THEN <<>> ELSE EnterAt(s, k, kept[k - 1])
  IN  kept[n]

(* The first n components, each with a separator after it. *)
Joined(cs, n) ==
  LET text[k \in 0 .. n] ==
        IF k = 0 THEN <<>> ELSE text[k - 1] \o cs[k] \o <<"/">>
  IN  text[n]

Root(s) == IF Len(s) > 0 /\ s[1] = "/" THEN <<"/">> ELSE <<>>

Rest(s) == SubSeq(s, Begins(s, Len(s) + 1), Len(s))

Normal(s) ==
  LET kept == Kept(s, Len(s)) IN Root(s) \o Joined(kept, Len(kept)) \o Rest(s)

(* collapse_path and matches_filter: what comes out is the path that       *)
(* entering its components one by one leads to, starting at the root or at *)
(* the current directory and never above it; and a header matches exactly  *)
(* when there are no filters or this path fits one of them, backtracking   *)
(* notwithstanding.                                                        *)
MatchesFits == phase = "done" => buf = Normal(given) /\ Filter!Decides
=============================================================================
