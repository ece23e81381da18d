----------------------------- MODULE MCReader -----------------------------
(***************************************************************************)
(* Small instances of Reader.  The tree has a directory a with a directory *)
(* and a file in it, and a file beside it.                                 *)
(***************************************************************************)
EXTENDS Reader

CONSTANTS
  Names,        \* of the entries below, the ones archives are made of
  MayTruncate   \* whether the stream may be cut off

MCPaths == {<<"a">>, <<"a", "b">>, <<"a", "x">>, <<"y">>}

Dir(p, readonly, len) ==
  [kind |-> "dir", target |-> p, dir |-> p, danger |-> FALSE,
   readonly |-> readonly, good |-> TRUE, codec |-> "unknown",
   clen |-> 0, need |-> 0, len |-> len]

File(p, codec, good, clen, need, len) ==
  [kind |-> "file", target |-> p, dir |-> Parent(p), danger |-> FALSE,
   readonly |-> FALSE, good |-> good, codec |-> codec,
   clen |-> clen, need |-> need, len |-> len]

Link(p, danger, len) ==
  [kind |-> "link", target |-> p, dir |-> Parent(p), danger |-> danger,
   readonly |-> FALSE, good |-> TRUE, codec |-> "unknown",
   clen |-> 0, need |-> 0, len |-> len]

Library == [
  dirA      |-> Dir(<<"a">>, FALSE, 2),
  lockedA   |-> Dir(<<"a">>, TRUE, 2),
  dirB      |-> Dir(<<"a", "b">>, FALSE, 4),
  fileX     |-> File(<<"a", "x">>, "plain", TRUE, 2, 1, 3),
  badX      |-> File(<<"a", "x">>, "plain", FALSE, 2, 1, 3),
  fileY     |-> File(<<"y">>, "plain", TRUE, 1, 1, 1),
  macY      |-> File(<<"y">>, "mac", TRUE, 2, 2, 1),
  shortY    |-> File(<<"y">>, "macshort", FALSE, 1, 1, 1),
  unknownY  |-> File(<<"y">>, "unknown", FALSE, 1, 1, 1),
  linkA     |-> Link(<<"a">>, FALSE, 1),
  linkX     |-> Link(<<"a", "x">>, FALSE, 3),
  dangerA   |-> Link(<<"a">>, TRUE, 1),
  dangerX   |-> Link(<<"a", "x">>, TRUE, 3),
  dangerY   |-> Link(<<"y">>, TRUE, 1)]

MCEntries == {Library[n] : n \in Names}

EmptyTree == [fs |-> [p \in Paths |-> "none"],
              meta |-> [p \in Paths |-> "none"], ro |-> {}]

(* Extraction into an empty directory. *)
MCInit ==
  /\ arch = EmptyTree
  /\ Init
  /\ MayTruncate \/ (/\ lastHeader = Len(archive)
                     /\ lastData = CLen(lastHeader) /\ seekable = 1)

MCSpec     == MCInit /\ [][Next]_vars
MCFairSpec == MCSpec /\ WF_vars(lha_reader_next_file)
=============================================================================
