----------------------------- MODULE MCExtract -----------------------------
(* Small instances of Extract: a tree of three levels and a file beside it. *)
EXTENDS Extract

CONSTANTS Names, OldKinds

MCPaths == {<<"a">>, <<"a", "b">>, <<"a", "b", "x">>, <<"y">>}

Entry(kind, p, d, danger, good) ==
  [kind |-> kind, target |-> p, dir |-> d, danger |-> danger, readonly |-> FALSE,
   good |-> good, codec |-> IF kind = "file" THEN "plain" ELSE "unknown",
   clen |-> IF kind = "file" THEN 1 ELSE 0, need |-> IF kind = "file" THEN 1 ELSE 0,
   len |-> Len(p)]

Library == [
  dirA   |-> Entry("dir", <<"a">>, <<"a">>, FALSE, TRUE),
  dirB   |-> Entry("dir", <<"a", "b">>, <<"a", "b">>, FALSE, TRUE),
  fileX  |-> Entry("file", <<"a", "b", "x">>, <<"a", "b">>, FALSE, TRUE),
  badX   |-> Entry("file", <<"a", "b", "x">>, <<"a", "b">>, FALSE, FALSE),
  fileY  |-> Entry("file", <<"y">>, <<>>, FALSE, TRUE),
  badY   |-> Entry("file", <<"y">>, <<>>, FALSE, FALSE),
  flatY  |-> Entry("file", <<"y">>, <<"a">>, FALSE, TRUE),
  linkY  |-> Entry("link", <<"y">>, <<>>, FALSE, TRUE),
  linkA  |-> Entry("link", <<"a">>, <<>>, FALSE, TRUE),
  dangerA |-> Entry("link", <<"a">>, <<>>, TRUE, TRUE)]

MCEntries == {Library[n] : n \in Names}

(* No command, each of the modes, dry runs, a level, a directory that could *)
(* be mistaken for an option, an empty one, and an option that there is     *)
(* not.                                                                     *)
MCCommands ==
  {<<>>} \cup {<<c>> : c \in {
    <<"v">>, <<"t">>, <<"t", "n">>, <<"-", "p">>, <<"p", "n">>, <<"e">>,
    <<"x", "q", "1", "i">>, <<"x", "i", "w", "=", "f">>, <<"x", "i", "w">>,
    <<"x", "z">>}}

(* There may be something in the way. *)
OldTrees ==
  {[fs |-> [p \in Paths |-> CASE p = <<"y">> -> y [] p = <<"a">> -> a [] OTHER -> "none"],
    meta |-> [p \in Paths |-> "none"], ro |-> {}] : y, a \in OldKinds}

(* Without paths an entry is extracted under its file name alone. *)
MCInit ==
  /\ arch \in OldTrees
  /\ Init
  /\ lastHeader = Len(archive) /\ lastData = CLen(lastHeader) /\ seekable = 1
  /\ CmdInit
  /\ options.use_path \/ \A k \in DOMAIN archive : Len(archive[k].target) = 1

MCSpec == MCInit /\ [][CmdNext]_allVars

(* The program runs on, a file has an end, and the user answers sooner or  *)
(* later.                                                                  *)
MCFairSpec ==
  MCSpec /\ WF_allVars(Work) /\ WF_allVars(Answer) /\ WF_allVars(print_archived_file_end)
=============================================================================
