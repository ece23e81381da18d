-------------------------- MODULE ReaderInvariants --------------------------
(***************************************************************************)
(* The inductive invariants of Reader, and what a step of it may do in     *)
(* terms of its two lists: the definitions its proofs are built from.      *)
(***************************************************************************)
EXTENDS Reader

-----------------------------------------------------------------------------
(* Types, and the order of what is left *)

(* The parts of TypeOK the proofs rest on. *)
TypeInv ==
  /\ archive \in Seq(Entries)
  /\ lastHeader \in 0 .. Len(archive)
  /\ at \in 0 .. Len(archive)
  /\ b_curr_file \in 0 .. Len(archive)
  /\ curr_file \in 0 .. Len(archive)
  /\ curr_file_type \in CurrFileTypes
  /\ HasFile => curr_file # NULL
  /\ dir_stack \in 0 .. Len(archive)
  /\ deferred_symlinks \in 0 .. Len(archive)
  /\ next \in [Headers -> 0 .. Len(archive)]
  /\ arch \in FileSystem

(* Once the deferred links are being given, nothing else is left. *)
NothingElseLeft ==
  curr_file_type \in {"DEFERRED_SYMLINK", "EOF"} =>
    b_curr_file = NULL /\ dir_stack = NULL

LinkInv == TypeInv /\ NothingElseLeft /\ DangerousLinksLast

NoDlink(s) == \A p \in Paths : s.fs[p] # "dlink"

-----------------------------------------------------------------------------
(* Decoders and the stream *)

(* A client that does one thing with each file opens a decoder only when   *)
(* none is open.                                                           *)
DecoderInv ==
  /\ decoder \in {"none", "inner", "mac"}
  /\ inner_decoder \in {0, 1}
  /\ decoders \in Int
  /\ ~ExtractTwice /\ used = "no" => decoder = "none" /\ inner_decoder = 0
  /\ DecodersExact

(* Aligned with the types of what it adds up. *)
AlignInv ==
  /\ off \in Nat
  /\ b_remaining \in Nat
  /\ b_eof \in {0, 1}
  /\ lastData \in Nat
  /\ Aligned

-----------------------------------------------------------------------------
(* The two lists of the reader *)

(* The list from head along link is s[1], ..., s[n]: n different headers   *)
(* of an archive of N, each linked to the next and the last one to NULL.   *)
IsList(link, N, head, n, s) ==
  /\ n \in Nat /\ s \in [1 .. n -> 1 .. N]
  /\ \A i, j \in 1 .. n : s[i] = s[j] => i = j
  /\ head = IF n = 0 THEN NULL ELSE s[1]
  /\ \A i \in 1 .. n : link[s[i]] = IF i = n THEN NULL ELSE s[i + 1]

Nodes(n, s) == {s[i] : i \in 1 .. n}

DirList  == OnList(dir_stack)

LinkList == OnList(deferred_symlinks)

(* s and t are the two lists: they share no header, and the longest path   *)
(* of a deferred link comes first.                                         *)
AreLists(n, s, m, t) ==
  /\ IsList(next, Len(archive), dir_stack, n, s)
  /\ IsList(next, Len(archive), deferred_symlinks, m, t)
  /\ Nodes(n, s) \cap Nodes(m, t) = {}
  /\ \A i, j \in 1 .. m : i <= j => Hdr(t[j]).len <= Hdr(t[i]).len

Lists == \E n, s, m, t : AreLists(n, s, m, t)

(* Where the basic reader is when the reader gives what kind of file.      *)
PosInv ==
  /\ b_curr_file \in {NULL, at}
  /\ curr_file_type = "NORMAL" => curr_file = at /\ b_curr_file = at
  /\ curr_file_type = "START" => at = 0 /\ b_curr_file = NULL /\ used = "no"
  /\ used \in {"no", "read", "checked", "bad", "yes", "failed"}
  /\ deferred \subseteq Headers

(* The header has been given as a file and will not be again. *)
Behind(h) == h <= at /\ (h = b_curr_file => curr_file_type = "NORMAL" /\ used # "no")

(* Only what is behind is on a list or was, directories on the one and     *)
(* dangerous links on the other.                                           *)
BehindInv ==
  /\ \A h \in DirList : Hdr(h).kind = "dir" /\ Behind(h)
  /\ LinkList \subseteq deferred
  /\ \A h \in deferred : Hdr(h).danger /\ Behind(h)
  /\ curr_file_type = "FAKE_DIR" => Curr.kind = "dir" /\ Behind(curr_file)
  /\ curr_file_type = "DEFERRED_SYMLINK" => curr_file \in deferred \ LinkList

ListInv == LinkInv /\ PosInv /\ Lists /\ BehindInv

-----------------------------------------------------------------------------
(* What a step does to the reader *)

(* A call that only reads the current file. *)
ReadEffect ==
  /\ UNCHANGED <<inputVars, readerVars, listVars, refs, arch, skipped, deferred,
                 at, b_curr_file>>
  /\ used' \in {"no", "read", "checked", "bad", "yes", "failed"}
  /\ used' = used \/ (curr_file_type # "START" /\ used' \notin {"no", "yes", "failed"})

(* An extraction puts the current file, which is on no list yet, on one of *)
(* the lists or on neither.                                                *)
ExtractEffect ==
  /\ UNCHANGED <<inputVars, readerVars, skipped, at, b_curr_file>>
  /\ used = "no" /\ used' \in {"yes", "failed"} /\ HasFile
  /\ Lists'
  /\ \/ /\ DirList' = DirList /\ LinkList' = LinkList
        /\ UNCHANGED <<refs, deferred>>
     \/ /\ curr_file_type = "NORMAL" /\ Curr.kind = "dir"
        /\ curr_file \notin DirList \cup LinkList
        /\ DirList' = DirList \cup {curr_file} /\ LinkList' = LinkList
        /\ refs' = lha_file_header_add_ref(refs, curr_file) /\ UNCHANGED deferred
     \/ /\ curr_file_type = "NORMAL" /\ Curr.danger
        /\ curr_file \notin DirList \cup deferred
        /\ DirList' = DirList /\ LinkList' = LinkList \cup {curr_file}
        /\ refs' = lha_file_header_add_ref(refs, curr_file)
        /\ deferred' = deferred \cup {curr_file}

(* lha_reader_next_file moves the basic reader on from a file only, and    *)
(* gives the top of the stack, the next file, the first of the links or    *)
(* nothing.                                                                *)
Moves ==
  \/ /\ curr_file_type \in {"START", "NORMAL"}
     /\ at' = at + 1 /\ b_curr_file' = at + 1 /\ at < Len(archive)
  \/ /\ curr_file_type \in {"START", "NORMAL"}
     /\ at' = at /\ b_curr_file' = NULL
  \/ /\ curr_file_type \notin {"START", "NORMAL"}
     /\ at' = at /\ b_curr_file' = b_curr_file

GivesDirectory ==
  /\ dir_stack \in DirList /\ dir_stack # NULL /\ end_of_top_dir(b_curr_file')
  /\ curr_file' = dir_stack /\ curr_file_type' = "FAKE_DIR"
  /\ DirList' = DirList \ {dir_stack} /\ LinkList' = LinkList

GivesFile ==
  /\ b_curr_file' # NULL /\ ~end_of_top_dir(b_curr_file')
  /\ curr_file' = b_curr_file' /\ curr_file_type' = "NORMAL"
  /\ DirList' = DirList /\ LinkList' = LinkList

GivesLink ==
  /\ b_curr_file' = NULL /\ DirList = {} /\ deferred_symlinks \in LinkList
  /\ curr_file' = deferred_symlinks /\ curr_file_type' = "DEFERRED_SYMLINK"
  /\ \A h \in LinkList : Hdr(h).len <= Hdr(deferred_symlinks).len
  /\ DirList' = DirList /\ LinkList' = LinkList \ {deferred_symlinks}

GivesNothing ==
  /\ b_curr_file' = NULL /\ DirList = {} /\ LinkList = {}
  /\ curr_file' = NULL /\ curr_file_type' = "EOF"
  /\ DirList' = DirList /\ LinkList' = LinkList

NextEffect ==
  /\ curr_file_type \notin {"EOF", "FREED"}
  /\ UNCHANGED <<inputVars, dir_policy, arch, deferred>>
  /\ used' = "no" /\ Lists' /\ Moves
  /\ skipped' = IF curr_file_type # "START" /\ used \notin {"yes", "failed"} THEN 1 ELSE skipped
  /\ GivesDirectory \/ GivesFile \/ GivesLink \/ GivesNothing

(* lha_reader_free empties the stack and keeps the links. *)
FreeEffect ==
  /\ curr_file_type # "FREED" /\ curr_file_type' = "FREED"
  /\ curr_file' = NULL /\ b_curr_file' = NULL
  /\ Lists' /\ DirList' = {} /\ LinkList' = LinkList
  /\ UNCHANGED <<inputVars, at, dir_policy, arch, clientVars>>

(* Changing the policy and stuttering change nothing else. *)
IdleEffect ==
  /\ UNCHANGED <<inputVars, basicVars, refs, curr_file, curr_file_type, listVars,
                 decoderVars, arch, clientVars>>
  /\ \/ UNCHANGED dir_policy
     \/ /\ curr_file_type = "START" \/ (PolicyAnyTime /\ curr_file_type # "FREED")
        /\ dir_policy' \in Policies

-----------------------------------------------------------------------------
(* What an extraction does to the file system *)

Creates(kind, out) ==
  /\ kind \in {"file", "partial", "placeholder", "link", "dlink"}
  /\ out \in CreateOutcomes(arch, Curr.target)
  /\ arch' = Create(arch, Curr.target, kind, out)

(* What is made for the current file, and where its header goes with it. *)
MakesEntry ==
  /\ curr_file_type # "FAKE_DIR"
  /\ \E kind, out :
       /\ Creates(kind, out)
       /\ kind = "dlink" => curr_file_type = "DEFERRED_SYMLINK"
       /\ curr_file_type = "DEFERRED_SYMLINK" => kind \in Links
       /\ kind = "placeholder" /\ out = "ok" => curr_file \in LinkList'

MakesDirectory ==
  /\ curr_file_type = "NORMAL" /\ Curr.kind = "dir"
  /\ "ok" \in MkdirOutcomes(arch, Curr.target)
  /\ LET made == lha_arch_mkdir(arch, Curr.target, "ok") IN
     \/ /\ dir_policy = "PLAIN"
        /\ arch' = ApplyMetadata(made, Curr.target, Curr.readonly)
     \/ /\ arch' = Owe(made, Curr.target)
        /\ curr_file \in DirList'

SetsMetadata ==
  /\ curr_file_type = "FAKE_DIR"
  /\ arch' = ApplyMetadata(arch, Curr.target, Curr.readonly)

ArchEffect ==
  \/ curr_file_type = "NORMAL" /\ arch' = arch
  \/ MakesEntry
  \/ MakesDirectory
  \/ SetsMetadata

(* Everything a step can do. *)
StepEffect ==
  \/ ReadEffect
  \/ ExtractEffect /\ ArchEffect
  \/ NextEffect
  \/ FreeEffect
  \/ IdleEffect

-----------------------------------------------------------------------------
(* References, and the fields no other invariant speaks of *)

Count(b) == IF b THEN 1 ELSE 0

RefInv ==
  /\ refs \in [Headers -> Nat]
  /\ curr_file_type # "FREED" =>
       \A h \in Headers :
         refs[h] = Count(h = b_curr_file) + Count(h \in DirList)
                   + Count(curr_file_type = "FAKE_DIR" /\ h = curr_file)
                   + Count(h \in deferred)

(* The fields no other invariant speaks of. *)
RestInv ==
  /\ lastData \in 0 .. CLen(lastHeader)
  /\ seekable \in {0, 1}
  /\ dir_policy \in Policies
  /\ skipped \in {0, 1}

(* The inductive invariant of the reader's own data. *)
WholeInv == ListInv /\ RefInv /\ RestInv /\ DecoderInv /\ AlignInv

-----------------------------------------------------------------------------
(* What is extracted *)

(* The links not made yet have shorter paths than the current one, the     *)
(* links made have paths at least as long.                                 *)
LongestInv ==
  curr_file_type = "DEFERRED_SYMLINK" =>
    /\ \A h \in LinkList : Hdr(h).len <= Curr.len
    /\ \A q \in Paths : arch.fs[q] = "dlink" =>
         \E h \in Headers : Hdr(h).target = q /\ Hdr(h).len >= Curr.len

(* Only directories have metadata to apply. *)
TreeInv ==
  /\ IsTree(arch.fs)
  /\ \A p \in Paths : arch.meta[p] # "none" => arch.fs[p] = "dir"

Done == used \in {"yes", "failed"}

(* A directory that is owed its metadata is on the stack or just given. *)
OwedInv ==
  skipped = 0 /\ curr_file_type # "FREED" =>
    \A p \in Paths : arch.meta[p] = "owed" =>
      \/ \E h \in DirList : Hdr(h).target = p
      \/ curr_file_type = "FAKE_DIR" /\ Curr.target = p /\ ~Done

(* A placeholder's link is on the list or just given, or its directory has *)
(* become read-only.                                                       *)
PendingInv ==
  skipped = 0 /\ ~Faults /\ curr_file_type # "FREED" =>
    \A p \in Paths : arch.fs[p] = "placeholder" =>
      \/ \E h \in LinkList : Hdr(h).target = p
      \/ curr_file_type = "DEFERRED_SYMLINK" /\ Curr.target = p /\ ~Done
      \/ curr_file_type \in {"DEFERRED_SYMLINK", "EOF"} /\ Parent(p) \in arch.ro

(* The input has left the directory p. *)
Over(p) ==
  \E d, j \in Headers :
    /\ d < j /\ j <= at
    /\ Hdr(d).kind = "dir" /\ Hdr(d).target = p /\ ~Within(j, d)

(* A directory is given for its metadata at the end of the input, or under *)
(* END_OF_DIR when the input is at a header outside it; so that is where   *)
(* the input is, or was, when a directory has its metadata.                *)
AppliedInv ==
  ~PolicyAnyTime =>
    /\ curr_file_type = "FAKE_DIR" =>
         \/ dir_policy = "PLAIN"
         \/ b_curr_file = NULL
         \/ dir_policy = "END_OF_DIR" /\ Over(Curr.target)
    /\ \A p \in Paths : arch.meta[p] \in {"set", "stale"} =>
         /\ curr_file_type # "START"
         /\ \/ dir_policy = "PLAIN"
            \/ b_curr_file = NULL
            \/ dir_policy = "END_OF_DIR" /\ Over(p)

MetadataInv == AppliedInv /\ MetadataLast
=============================================================================
