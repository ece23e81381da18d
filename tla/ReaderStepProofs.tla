-------------------------- MODULE ReaderStepProofs --------------------------
(***************************************************************************)
(* What follows from the effect of a step of Reader (StepEffect) once its  *)
(* two lists are known to be lists (ListInv): the iteration is the one of  *)
(* ReaderIteration, the links held back are made from the longest path     *)
(* down, the file system stays a tree, and directories and placeholders    *)
(* get what they are owed.  ReaderProofs shows that every step has such an *)
(* effect, and draws the theorems from the lemmas here.                    *)
(*                                                                         *)
(* The theorems of this module do not need the lists: dangerous links come *)
(* last, decoders do not leak, and the stream stays aligned with the       *)
(* headers.                                                                *)
(***************************************************************************)
EXTENDS ReaderInvariants, TLAPS

-----------------------------------------------------------------------------
(* Entries and lists *)

(* The current file's header is one of the archive's. *)
LEMMA CurrIsEntry ==
  ASSUME TypeInv, HasFile
  PROVE  /\ curr_file \in Headers
         /\ Curr \in Entries
         /\ Curr.target \in Paths
         /\ Curr.danger \in BOOLEAN
         /\ Curr.kind \in {"file", "dir", "link"}
<1>1. curr_file \in Headers
  BY DEF TypeInv, Headers, NULL
<1>2. Curr \in Entries
  BY <1>1 DEF TypeInv, Headers, Curr
<1>3. QED
  BY <1>1, <1>2, ReaderAssumption

(* A header of the archive is an entry, whose path has a length. *)
LEMMA LenType ==
  ASSUME archive \in Seq(Entries), NEW h \in Headers
  PROVE  Hdr(h).len \in Nat /\ Hdr(h) \in Entries
BY ReaderAssumption DEF Hdr, Headers

(* Nothing happens to the lists. *)
LEMMA ListsUnchanged ==
  ASSUME UNCHANGED <<listVars, archive>>
  PROVE  (Lists => Lists') /\ DirList' = DirList /\ LinkList' = LinkList
BY Zenon DEF listVars, Lists, AreLists, DirList, LinkList, OnList, Walk, Hdr

-----------------------------------------------------------------------------
(* Steps of the iteration *)

(* The lengths of the paths are a sequence as long as the archive. *)
LEMMA PathLens ==
  ASSUME archive \in Seq(Entries)
  PROVE  /\ [h \in Headers |-> Hdr(h).len] \in Seq(Nat)
         /\ Len([h \in Headers |-> Hdr(h).len]) = Len(archive)
<1>1. \A h \in Headers : Hdr(h).len \in Nat
  BY LenType
<1>2. QED
  BY <1>1 DEF Headers

(* The abstract state: ReaderIteration's variables in terms of the reader's. *)
Phase == CASE curr_file_type = "DEFERRED_SYMLINK" -> "links"
           [] curr_file_type = "EOF"   -> "end"
           [] curr_file_type = "FREED" -> "freed"
           [] OTHER -> "files"

Position == CASE curr_file_type = "FREED" -> 0
              [] curr_file_type = "FAKE_DIR" /\ b_curr_file # NULL -> at - 1
              [] OTHER -> at

Given == CASE curr_file_type = "NORMAL"   -> <<"file", curr_file>>
           [] curr_file_type = "FAKE_DIR" -> <<"directory", curr_file>>
           [] curr_file_type = "DEFERRED_SYMLINK" -> <<"link", curr_file>>
           [] OTHER -> <<"nothing", 0>>

PathLen == [h \in Headers |-> Hdr(h).len]

(* Every step of the reader is a step of the iteration or none of it. *)
LEMMA IterationStep ==
  ASSUME ListInv, LinkList \subseteq Headers, StepEffect
  PROVE  Iteration!Next \/ UNCHANGED Iteration!iterVars
<1>1. /\ TypeInv /\ archive \in Seq(Entries) /\ at \in Nat
      /\ b_curr_file \in {NULL, at}
      /\ curr_file_type = "NORMAL" => curr_file = at /\ b_curr_file = at
      /\ curr_file_type \in {"DEFERRED_SYMLINK", "EOF"} => b_curr_file = NULL /\ dir_stack = NULL
      /\ Len(PathLen) = Len(archive)
      /\ LinkList \subseteq Headers
  <2>1. TypeInv /\ archive \in Seq(Entries) /\ at \in Nat /\ Len(archive) \in Nat
    BY DEF ListInv, LinkInv, TypeInv
  <2>2. Len(PathLen) = Len(archive)
    BY <2>1, PathLens DEF PathLen
  <2>3. QED
    BY <2>1, <2>2 DEF ListInv, LinkInv, PosInv, NothingElseLeft
<1>2. archive' = archive /\ PathLen' = PathLen
  BY DEF StepEffect, ReadEffect, ExtractEffect, NextEffect, FreeEffect, IdleEffect, inputVars,
         PathLen, Headers, Hdr
<1>3. CASE ReadEffect \/ IdleEffect
  <2>1. UNCHANGED <<curr_file, curr_file_type, b_curr_file, at, listVars>>
    BY <1>3 DEF ReadEffect, IdleEffect, readerVars, basicVars
  <2>2. UNCHANGED <<Phase, Position, Given, DirList, LinkList>>
    BY <1>2, <2>1, ListsUnchanged DEF Phase, Position, Given
  <2>3. QED
    BY <1>2, <2>2
       DEF Iteration!iterVars, Phase, Position, Given, PathLen, DirList, LinkList
<1>4. CASE ExtractEffect
  <2>1. UNCHANGED <<curr_file, curr_file_type, b_curr_file, at>>
    BY <1>4 DEF ExtractEffect, readerVars
  <2>2. UNCHANGED <<Phase, Position, Given>>
    BY <2>1 DEF Phase, Position, Given
  <2>3. \/ UNCHANGED <<DirList, LinkList>>
        \/ /\ Given[1] = "file" /\ Given[2] = curr_file
           /\ \/ DirList' = DirList \cup {curr_file} /\ UNCHANGED LinkList
              \/ LinkList' = LinkList \cup {curr_file} /\ UNCHANGED DirList
    BY <1>4 DEF ExtractEffect, Given
  <2>4. QED
    BY <1>2, <2>2, <2>3
       DEF Iteration!iterVars, Iteration!Next, Iteration!Owe,
           Phase, Position, Given, PathLen, DirList, LinkList
<1>5. CASE NextEffect
  <2>1. Moves /\ curr_file_type \notin {"EOF", "FREED"}
    BY <1>5 DEF NextEffect
  <2>2. CASE GivesDirectory
    <3>1. curr_file_type \in {"START", "NORMAL", "FAKE_DIR"}
      BY <1>1, <2>1, <2>2 DEF GivesDirectory, TypeInv, CurrFileTypes
    <3>2. Phase = "files" /\ Phase' = "files"
      BY <2>2, <3>1 DEF GivesDirectory, Phase
    <3>3. Position' = Position
      BY <1>1, <2>1, <2>2, <3>1 DEF GivesDirectory, Position, Moves, NULL
    <3>4. Given' = <<"directory", dir_stack>> /\ dir_stack \in DirList
          /\ DirList' = DirList \ {dir_stack} /\ LinkList' = LinkList
      BY <2>2 DEF GivesDirectory, Given
    <3>5. QED
      BY <1>2, <3>2, <3>4, <3>3
         DEF Iteration!Next, Iteration!GiveDirectory,
             Phase, Position, Given, PathLen, DirList, LinkList
  <2>3. CASE GivesFile
    <3>1. curr_file_type \in {"START", "NORMAL", "FAKE_DIR"}
      BY <1>1, <2>1, <2>3 DEF GivesFile, Moves, TypeInv, CurrFileTypes
    <3>2. /\ Phase = "files" /\ Phase' = "files"
          /\ Position' = at' /\ Given' = <<"file", b_curr_file'>>
      BY <2>3, <3>1 DEF GivesFile, Phase, Position, Given
    <3>3. Position + 1 = at' /\ b_curr_file' = at' /\ Position < Len(archive)
      BY <1>1, <2>1, <2>3, <3>1 DEF GivesFile, Position, Moves, NULL, TypeInv
    <3>4. UNCHANGED <<DirList, LinkList>>
      BY <2>3 DEF GivesFile
    <3>5. QED
      BY <1>1, <1>2, <3>2, <3>4, <3>3
         DEF Iteration!Next, Iteration!GiveFile,
             Phase, Position, Given, PathLen, DirList, LinkList
  <2>4. CASE GivesLink
    <3>1. /\ Phase \in {"files", "links"} /\ Phase' = "links" /\ Position' = Position
          /\ Given' = <<"link", deferred_symlinks>>
      BY <1>1, <2>1, <2>4 DEF GivesLink, Phase, Position, Given, Moves, NULL
    <3>2. /\ deferred_symlinks \in LinkList /\ DirList = {} /\ DirList' = DirList
          /\ LinkList' = LinkList \ {deferred_symlinks}
          /\ \A m \in LinkList : PathLen[m] <= PathLen[deferred_symlinks]
      BY <1>1, <2>4 DEF GivesLink, PathLen
    <3>3. QED
      BY <1>2, <3>1, <3>2
         DEF Iteration!Next, Iteration!GiveLink,
             Phase, Position, Given, PathLen, DirList, LinkList
  <2>5. CASE GivesNothing
    <3>1. /\ Phase \in {"files", "links"} /\ Phase' = "end" /\ Position' = Position
          /\ Given' = <<"nothing", 0>>
      BY <1>1, <2>1, <2>5 DEF GivesNothing, Phase, Position, Given, Moves, NULL
    <3>2. DirList = {} /\ LinkList = {} /\ UNCHANGED <<DirList, LinkList>>
      BY <2>5 DEF GivesNothing
    <3>3. QED
      BY <1>2, <3>1, <3>2
         DEF Iteration!Next, Iteration!GiveEnd, Iteration!Nothing,
             Phase, Position, Given, PathLen, DirList, LinkList
  <2>6. QED
    BY <1>5, <2>2, <2>3, <2>4, <2>5 DEF NextEffect
<1>6. CASE FreeEffect
  <2>1. /\ Phase' = "freed" /\ Given' = <<"nothing", 0>> /\ Position' = 0
        /\ DirList' = {} /\ LinkList' = LinkList
    BY <1>6 DEF FreeEffect, Phase, Position, Given
  <2>2. QED
    BY <1>2, <2>1
       DEF Iteration!Next, Iteration!Free, Iteration!Nothing,
           Phase, Position, Given, PathLen, DirList, LinkList
<1>7. QED
  BY <1>3, <1>4, <1>5, <1>6 DEF StepEffect

-----------------------------------------------------------------------------
(* The file system stays a tree *)

(* A path has a length, and its parent is a path one shorter. *)
LEMMA ParentFacts ==
  ASSUME NEW p \in Paths
  PROVE  /\ p \in Seq(STRING) /\ Len(p) \in Nat /\ Len(p) >= 1
         /\ Parent(p) # p
         /\ Len(p) # 1 => /\ Parent(p) \in Paths /\ Len(Parent(p)) = Len(p) - 1
                          /\ ProperPrefix(Parent(p), p)
         /\ Parent(p) \in Paths => ProperPrefix(Parent(p), p)
<1>1. p \in Seq(STRING) /\ (Len(p) = 1 \/ (Len(p) > 1 /\ Parent(p) \in Paths))
  BY ArchAssumption
<1>2. Len(p) \in Nat
  BY <1>1
<1>3. Len(p) >= 1
  BY ONLY <1>1, <1>2
<1>4. Len(Parent(p)) = Len(p) - 1
  <2>1. CASE Len(p) = 1
    BY <1>1, <2>1 DEF Parent
  <2>2. CASE Len(p) > 1
    <3>1. Len(p) - 1 \in 1 .. Len(p)
      BY ONLY <1>2, <2>2
    <3>2. QED
      BY <1>1, <3>1 DEF Parent
  <2>3. QED
    BY <1>1, <2>1, <2>2
<1>5. ASSUME Parent(p) \in Paths PROVE ProperPrefix(Parent(p), p)
  BY <1>2, <1>4 DEF Parent, ProperPrefix
<1>6. QED
  BY <1>1, <1>2, <1>3, <1>4, <1>5

(* What leads to a path leads to its parent or is its parent. *)
LEMMA PrefixOfParent ==
  ASSUME NEW p \in Paths, NEW q \in Paths, ProperPrefix(q, p), Len(q) # Len(p) - 1
  PROVE  Parent(p) \in Paths /\ ProperPrefix(q, Parent(p))
<1>1. /\ p \in Seq(STRING) /\ q \in Seq(STRING) /\ Len(p) \in Nat /\ Len(q) \in Nat
      /\ Len(q) >= 1 /\ Len(q) < Len(p) /\ q = SubSeq(p, 1, Len(q))
  BY ParentFacts DEF ProperPrefix
<1>2. Len(p) # 1 /\ Len(q) < Len(p) - 1
  <2>1. \A m, n \in Nat : m >= 1 /\ m < n /\ m # n - 1 => n # 1 /\ m < n - 1
    OBVIOUS
  <2>2. QED
    BY <1>1, <2>1
<1>3. Parent(p) \in Paths /\ Len(Parent(p)) = Len(p) - 1
  BY <1>2, ParentFacts
<1>4. \A i \in 1 .. Len(q) : SubSeq(p, 1, Len(p) - 1)[i] = p[i] /\ q[i] = p[i]
  BY <1>1
<1>5. SubSeq(Parent(p), 1, Len(q)) = q
  BY <1>1, <1>2, <1>3, <1>4 DEF Parent
<1>6. QED
  BY <1>2, <1>3, <1>5 DEF ProperPrefix

(* All that leads to where an entry can be made is directories. *)
LEMMA DirsAbove ==
  ASSUME NEW s, IsTree(s.fs), NEW p \in Paths, Writable(s, p),
         NEW q \in Paths, ProperPrefix(q, p)
  PROVE  s.fs[q] = "dir"
<1>1. Len(p) \in Nat /\ Len(q) \in Nat /\ Len(q) >= 1 /\ Len(q) < Len(p)
  BY ParentFacts DEF ProperPrefix
<1>2. Len(p) # 1
  BY ONLY <1>1
<1>3. Parent(p) \in Paths /\ s.fs[Parent(p)] = "dir"
  BY <1>2, Zenon DEF Writable
<1>4. CASE Len(q) = Len(p) - 1
  <2>1. q = Parent(p)
    BY <1>4, Zenon DEF Parent, ProperPrefix
  <2>2. QED
    BY <1>3, <2>1
<1>5. CASE Len(q) # Len(p) - 1
  <2>1. ProperPrefix(q, Parent(p))
    BY <1>5, PrefixOfParent
  <2>2. QED
    BY <1>3, <2>1, Zenon DEF IsTree
<1>6. QED
  BY <1>4, <1>5

(* Nothing that exists is reached through a link. *)
LEMMA NoLinkAbove ==
  ASSUME NEW s, IsTree(s.fs), NEW p \in Paths, s.fs[p] # "none"
  PROVE  ~ThroughLink(s, p)
BY Zenon DEF IsTree, ThroughLink, Links

(* What Touched computes is the metadata of a file system. *)
LEMMA TouchedType ==
  ASSUME NEW s \in FileSystem, NEW p \in Paths
  PROVE  Touched(s, p) \in [Paths -> MetaStates]
BY DEF Touched, FileSystem, MetaStates

(* Changing a directory's contents makes metadata stale that was set, and  *)
(* does nothing else to metadata.                                          *)
LEMMA TouchedMeta ==
  ASSUME NEW s \in FileSystem, NEW p \in Paths, NEW q \in Paths
  PROVE  /\ Touched(s, p)[q] = "none" <=> s.meta[q] = "none"
         /\ Touched(s, p)[q] = "owed" <=> s.meta[q] = "owed"
         /\ Touched(s, p)[q] \in {"set", "stale"} <=> s.meta[q] \in {"set", "stale"}
         /\ Touched(s, p)[q] = "stale" /\ s.meta[q] # "stale" => q = Parent(p) /\ s.meta[q] = "set"
BY DEF Touched, FileSystem, MetaStates

(* Creating an entry leaves every other path alone. *)
LEMMA CreateElsewhere ==
  ASSUME NEW s \in FileSystem, NEW p \in Paths, NEW kind, NEW out
  PROVE  \A q \in Paths : q # p => Create(s, p, kind, out).fs[q] = s.fs[q]
BY DEF Create, FileSystem

(* What is at a path after an entry was created there. *)
LEMMA CreateHere ==
  ASSUME NEW s \in FileSystem, NEW p \in Paths, NEW kind, NEW out
  PROVE  \/ Create(s, p, kind, out) = s
         \/ out = "ok" /\ Create(s, p, kind, out).fs[p] = kind
         \/ Create(s, p, kind, out).fs[p] = "none"
BY DEF Create, FileSystem

(* A creation that does anything touches the metadata of the parent. *)
LEMMA CreateMeta ==
  ASSUME NEW s, NEW p, NEW kind, NEW out
  PROVE  \/ Create(s, p, kind, out) = s
         \/ /\ Create(s, p, kind, out).meta = Touched(s, p)
            /\ Create(s, p, kind, out).ro = s.ro
BY DEF Create

(* What a successful creation does: there was no directory at p, and there *)
(* is one above it that can be changed.                                    *)
LEMMA CreateDone ==
  ASSUME NEW s \in FileSystem, NEW p \in Paths, NEW kind,
         NEW out \in CreateOutcomes(s, p), Create(s, p, kind, out) # s
  PROVE  /\ ~ThroughLink(s, p) /\ Writable(s, p) /\ s.fs[p] # "dir" /\ out \in {"ok", "lost"}
         /\ out = "lost" => Faults
         /\ Create(s, p, kind, out).fs = [s.fs EXCEPT ![p] = IF out = "ok" THEN kind ELSE "none"]
         /\ Create(s, p, kind, out).meta = Touched(s, p)
         /\ Create(s, p, kind, out).ro = s.ro
BY ArchAssumption DEF Create, CreateOutcomes

(* Creating an entry that is not a directory keeps the tree a tree. *)
LEMMA CreateKeepsTree ==
  ASSUME NEW s \in FileSystem, NEW p \in Paths, NEW kind, kind # "dir",
         NEW out \in CreateOutcomes(s, p),
         IsTree(s.fs), \A q \in Paths : s.meta[q] # "none" => s.fs[q] = "dir"
  PROVE  /\ IsTree(Create(s, p, kind, out).fs)
         /\ \A q \in Paths : Create(s, p, kind, out).meta[q] # "none" =>
                               Create(s, p, kind, out).fs[q] = "dir"
<1>1. CASE Create(s, p, kind, out) = s
  BY <1>1
<1>2. CASE Create(s, p, kind, out) # s
  <2> DEFINE c == Create(s, p, kind, out)
  <2>1. /\ Writable(s, p) /\ s.fs[p] # "dir"
        /\ c.fs = [s.fs EXCEPT ![p] = IF out = "ok" THEN kind ELSE "none"]
        /\ c.meta = Touched(s, p)
    BY <1>2, CreateDone
  <2> HIDE DEF c
  <2>2. \A q \in Paths : q # p => c.fs[q] = s.fs[q]
    BY <2>1 DEF FileSystem
  <2>3. ASSUME NEW q \in Paths, NEW r \in Paths, c.fs[q] # "none", ProperPrefix(r, q)
        PROVE  c.fs[r] = "dir"
    <3>1. s.fs[r] = "dir"
      <4>1. CASE q = p
        BY <2>1, <2>3, <4>1, DirsAbove
      <4>2. CASE q # p
        BY <2>2, <2>3, <4>2, Zenon DEF IsTree
      <4>3. QED
        BY <4>1, <4>2
    <3>2. QED
      BY <2>1, <2>2, <3>1
  <2>4. ASSUME NEW q \in Paths, c.meta[q] # "none" PROVE c.fs[q] = "dir"
    <3>1. s.meta[q] # "none"
      BY <2>1, <2>4, TouchedMeta
    <3>2. QED
      BY <2>1, <2>2, <3>1
  <2>5. QED
    BY <2>3, <2>4 DEF c, IsTree
<1>3. QED
  BY <1>1, <1>2

(* mkdir, then the metadata at once or later: nothing happens in the tree  *)
(* when the path runs through a link.                                      *)
LEMMA DirectoryMade ==
  ASSUME TypeInv, HasFile, MakesDirectory
  PROVE  \/ arch' = arch /\ ThroughLink(arch, Curr.target)
         \/ /\ Writable(arch, Curr.target) /\ arch.fs[Curr.target] = "none"
            /\ arch'.fs = [arch.fs EXCEPT ![Curr.target] = "dir"]
            /\ \A q \in Paths : q # Curr.target =>
                 arch'.meta[q] = Touched(arch, Curr.target)[q]
            /\ \/ arch'.meta[Curr.target] = "set" /\ dir_policy = "PLAIN"
               \/ arch'.meta[Curr.target] = "owed" /\ curr_file \in DirList'
<1>1. PICK p \in Paths : p = Curr.target
  BY CurrIsEntry
<1>2. arch \in FileSystem /\ Touched(arch, p) \in [Paths -> MetaStates]
  BY TouchedType DEF TypeInv
<1>3. PICK made : /\ made = lha_arch_mkdir(arch, p, "ok")
                  /\ \/ /\ dir_policy = "PLAIN"
                        /\ arch' = ApplyMetadata(made, p, Curr.readonly)
                     \/ arch' = Owe(made, p) /\ curr_file \in DirList'
  BY <1>1 DEF MakesDirectory
<1>4. CASE ThroughLink(arch, p)
  BY <1>1, <1>3, <1>4 DEF lha_arch_mkdir, ApplyMetadata, Owe
<1>5. CASE ~ThroughLink(arch, p)
  <2>1. Writable(arch, p) /\ arch.fs[p] = "none"
    BY <1>1, <1>5 DEF MakesDirectory, MkdirOutcomes
  <2>2. made = [fs |-> [arch.fs EXCEPT ![p] = "dir"], meta |-> Touched(arch, p), ro |-> arch.ro]
    BY <1>3, <1>5 DEF lha_arch_mkdir
  <2>3. /\ made.fs = [arch.fs EXCEPT ![p] = "dir"] /\ made.meta = Touched(arch, p)
        /\ made.fs[p] = "dir"
    BY <1>2, <2>2 DEF FileSystem
  <2>4. ~ThroughLink(made, p)
    BY <1>2, <1>5, <2>3 DEF ThroughLink, ProperPrefix, FileSystem
  <2>5. CASE dir_policy = "PLAIN" /\ arch' = ApplyMetadata(made, p, Curr.readonly)
    <3>1. arch'.fs = made.fs /\ arch'.meta = [made.meta EXCEPT ![p] = "set"]
      BY <2>3, <2>4, <2>5 DEF ApplyMetadata
    <3>2. QED
      BY <1>1, <1>2, <2>1, <2>3, <2>5, <3>1
  <2>6. CASE arch' = Owe(made, p) /\ curr_file \in DirList'
    <3>1. arch' = [made EXCEPT !.meta[p] = "owed"]
      BY <2>4, <2>6 DEF Owe
    <3>2. arch'.fs = made.fs /\ arch'.meta = [made.meta EXCEPT ![p] = "owed"]
      BY <2>2, <3>1
    <3>3. QED
      BY <1>1, <1>2, <2>1, <2>3, <2>6, <3>2
  <2>7. QED
    BY <1>3, <2>5, <2>6
<1>6. QED
  BY <1>4, <1>5

(* set_directory_metadata: applied to a directory that is still there. *)
LEMMA MetadataSet ==
  ASSUME TypeInv, HasFile, SetsMetadata
  PROVE  /\ arch'.fs = arch.fs
         /\ \A q \in Paths : q # Curr.target => arch'.meta[q] = arch.meta[q]
         /\ IF arch.fs[Curr.target] = "dir" /\ ~ThroughLink(arch, Curr.target)
            THEN arch'.meta[Curr.target] = "set" ELSE arch' = arch
<1>1. arch \in FileSystem /\ Curr.target \in Paths
  BY CurrIsEntry DEF TypeInv
<1>2. QED
  BY <1>1 DEF SetsMetadata, ApplyMetadata, FileSystem

(* An initial file system is a tree, with no placeholder and no metadata   *)
(* applied or owed.                                                        *)
LEMMA InitTreeInv ==
  ASSUME Init
  PROVE  TreeInv /\ \A p \in Paths : arch.fs[p] # "placeholder" /\ arch.meta[p] = "none"
BY DEF Init, ReaderInit, Trees, TreeInv, IsTree

(* Every step keeps the tree a tree. *)
LEMMA StepTreeInv ==
  ASSUME ListInv, TreeInv, StepEffect
  PROVE  TreeInv'
<1>1. CASE arch' = arch
  BY <1>1 DEF TreeInv, IsTree
<1>2. CASE ExtractEffect /\ ArchEffect
  <2>1. ArchEffect /\ TypeInv /\ HasFile
    BY <1>2 DEF ListInv, LinkInv, ExtractEffect
  <2>2. PICK p \in Paths : p = Curr.target
    BY <2>1, CurrIsEntry
  <2>3. arch \in FileSystem
    BY <2>1 DEF TypeInv
  <2>4. CASE MakesEntry
    <3>1. PICK kind, out : /\ kind # "dir" /\ out \in CreateOutcomes(arch, p)
                           /\ arch' = Create(arch, p, kind, out)
      BY <2>2, <2>4 DEF MakesEntry, Creates
    <3>2. IsTree(arch'.fs) /\ \A q \in Paths : arch'.meta[q] # "none" => arch'.fs[q] = "dir"
      BY <2>3, <3>1, CreateKeepsTree DEF TreeInv
    <3>3. QED
      BY <3>2 DEF TreeInv, IsTree
  <2>5. CASE MakesDirectory
    <3>1. CASE /\ Writable(arch, p) /\ arch.fs[p] = "none"
               /\ arch'.fs = [arch.fs EXCEPT ![p] = "dir"]
               /\ \A q \in Paths : q # p => arch'.meta[q] = Touched(arch, p)[q]
      <4>1. \A q \in Paths : arch'.fs[q] = IF q = p THEN "dir" ELSE arch.fs[q]
        BY <2>3, <3>1 DEF FileSystem
      <4>2. ASSUME NEW q \in Paths, NEW r \in Paths, arch'.fs[q] # "none", ProperPrefix(r, q)
            PROVE  arch'.fs[r] = "dir"
        <5>1. arch.fs[r] = "dir"
          <6>1. CASE q = p
            BY <2>3, <3>1, <4>2, <6>1, DirsAbove DEF TreeInv
          <6>2. CASE q # p
            BY <4>1, <4>2, <6>2 DEF TreeInv, IsTree
          <6>3. QED
            BY <6>1, <6>2
        <5>2. QED
          BY <4>1, <5>1
      <4>3. ASSUME NEW q \in Paths, arch'.meta[q] # "none" PROVE arch'.fs[q] = "dir"
        <5>1. q # p => arch.meta[q] # "none"
          BY <2>3, <3>1, <4>3, TouchedMeta
        <5>2. QED
          BY <4>1, <5>1 DEF TreeInv
      <4>4. QED
        BY <4>2, <4>3 DEF TreeInv, IsTree
    <3>2. QED
      BY <1>1, <2>1, <2>2, <2>5, <3>1, DirectoryMade
  <2>6. CASE SetsMetadata
    BY <1>1, <2>1, <2>2, <2>6, MetadataSet DEF TreeInv, IsTree
  <2>7. QED
    BY <1>1, <2>1, <2>4, <2>5, <2>6 DEF ArchEffect
<1>3. QED
  BY <1>1, <1>2 DEF StepEffect, ReadEffect, NextEffect, FreeEffect, IdleEffect

-----------------------------------------------------------------------------
(* Links held back *)

(* Every step keeps the links in that order. *)
LEMMA StepLongestInv ==
  ASSUME ListInv, LinkList \subseteq Headers, LongestInv, StepEffect
  PROVE  LongestInv'
<1>1. TypeInv /\ archive \in Seq(Entries)
  BY DEF ListInv, LinkInv, TypeInv
<1>2. CASE ExtractEffect /\ ArchEffect
  <2>1. ExtractEffect /\ ArchEffect
    BY <1>2
  <2>2. UNCHANGED <<archive, curr_file, curr_file_type>>
    BY <2>1 DEF ExtractEffect, inputVars, readerVars
  <2>3. SUFFICES ASSUME curr_file_type = "DEFERRED_SYMLINK" PROVE LongestInv'
    BY <2>2 DEF LongestInv
  <2>4. LinkList' = LinkList /\ HasFile
    BY <2>1, <2>3 DEF ExtractEffect
  <2>5. PICK kind, out : Creates(kind, out)
    BY <2>1, <2>3 DEF ArchEffect, MakesEntry, MakesDirectory, SetsMetadata
  <2>6. \A q \in Paths : q # Curr.target => arch'.fs[q] = arch.fs[q]
    <3>1. Curr.target \in Paths /\ arch \in FileSystem
      BY <1>1, <2>4, CurrIsEntry DEF TypeInv
    <3>2. arch' = Create(arch, Curr.target, kind, out)
      BY <2>5 DEF Creates
    <3>3. QED
      BY <3>1, <3>2, CreateElsewhere
  <2>7. curr_file \in Headers /\ Curr = Hdr(curr_file) /\ Curr.len \in Nat
    BY <1>1, <2>4, CurrIsEntry, LenType DEF Curr, Hdr
  <2>8. ASSUME NEW q \in Paths, arch'.fs[q] = "dlink"
        PROVE  \E h \in Headers : Hdr(h).target = q /\ Hdr(h).len >= Curr.len
    <3>1. CASE q = Curr.target
      BY <2>7, <3>1
    <3>2. CASE q # Curr.target
      BY <2>3, <2>6, <2>8, <3>2 DEF LongestInv
    <3>3. QED
      BY <3>1, <3>2
  <2>9. QED
    BY <2>2, <2>3, <2>4, <2>8 DEF LongestInv, Hdr, Curr, Headers
<1>3. CASE NextEffect
  <2>1. SUFFICES ASSUME GivesLink PROVE LongestInv'
    BY <1>3 DEF NextEffect, GivesDirectory, GivesFile, GivesNothing, LongestInv
  <2>2. archive' = archive /\ arch' = arch
    BY <1>3 DEF NextEffect, inputVars
  <2>3. PICK l \in LinkList : /\ l = deferred_symlinks /\ curr_file' = l
                              /\ \A h \in LinkList : Hdr(h).len <= Hdr(l).len
                              /\ LinkList' \subseteq LinkList
    BY <2>1 DEF GivesLink
  <2>4. l \in Headers /\ Hdr(l).len \in Nat
    BY <1>1, <2>3, LenType
  <2>5. ASSUME NEW q \in Paths, arch.fs[q] = "dlink"
        PROVE  \E h \in Headers : Hdr(h).target = q /\ Hdr(h).len >= Hdr(l).len
    <3>1. curr_file_type = "DEFERRED_SYMLINK" /\ HasFile
      BY <1>3, <2>5 DEF ListInv, LinkInv, DangerousLinksLast, NextEffect, HasFile
    <3>2. PICK h \in Headers : Hdr(h).target = q /\ Hdr(h).len >= Curr.len
      BY <2>5, <3>1 DEF LongestInv
    <3>3. Hdr(l).len <= Curr.len
      BY <2>3, <3>1 DEF LongestInv
    <3>4. Hdr(h).len \in Nat /\ Curr.len \in Nat
      BY <1>1, <3>1, LenType, CurrIsEntry DEF Curr, Hdr
    <3>5. QED
      BY <2>4, <3>2, <3>3, <3>4
  <2>6. QED
    BY <2>2, <2>3, <2>5 DEF LongestInv, Hdr, Curr, Headers
<1>4. CASE FreeEffect
  BY <1>4 DEF FreeEffect, LongestInv
<1>5. CASE ReadEffect \/ IdleEffect
  <2>1. UNCHANGED <<archive, curr_file, curr_file_type, listVars, arch>>
    BY <1>5 DEF ReadEffect, IdleEffect, inputVars, readerVars
  <2>2. LinkList' = LinkList
    BY <2>1, ListsUnchanged
  <2>3. QED
    BY <2>1, <2>2 DEF LongestInv, Hdr, Curr, Headers
<1>6. QED
  BY <1>2, <1>3, <1>4, <1>5 DEF StepEffect

-----------------------------------------------------------------------------
(* Directories that are owed their metadata *)

(* Every step keeps the account of what is owed. *)
LEMMA StepOwedInv ==
  ASSUME ListInv, TreeInv, OwedInv, StepEffect
  PROVE  OwedInv'
<1>1. CASE ExtractEffect /\ ArchEffect
  <2>1. /\ ExtractEffect /\ ArchEffect /\ TypeInv /\ HasFile
        /\ DirList \subseteq DirList'
    BY <1>1 DEF ListInv, LinkInv, ExtractEffect
  <2>2. UNCHANGED <<archive, curr_file, curr_file_type, skipped>>
    BY <2>1 DEF ExtractEffect, inputVars, readerVars
  <2>3. SUFFICES ASSUME skipped = 0, NEW p \in Paths, arch'.meta[p] = "owed"
                 PROVE  \E h \in DirList' : Hdr(h).target = p
    BY <2>2 DEF OwedInv, Hdr
  <2>4. PICK t \in Paths : t = Curr.target /\ curr_file \in Headers
    BY <2>1, CurrIsEntry
  <2>5. arch \in FileSystem /\ curr_file_type # "FREED"
    BY <2>1 DEF TypeInv, HasFile
  <2>6. CASE arch.meta[p] = "owed" /\ ~(curr_file_type = "FAKE_DIR" /\ t = p)
    BY <2>1, <2>3, <2>4, <2>5, <2>6 DEF OwedInv
  <2>7. CASE p = t /\ curr_file \in DirList'
    BY <2>4, <2>7 DEF Curr, Hdr
  <2>8. CASE arch' = arch /\ curr_file_type # "FAKE_DIR"
    BY <2>3, <2>6, <2>8
  <2>9. CASE MakesEntry
    <3>1. PICK kind, out : /\ out \in CreateOutcomes(arch, t)
                           /\ arch' = Create(arch, t, kind, out)
      BY <2>4, <2>9 DEF MakesEntry, Creates
    <3>2. arch' = arch \/ arch'.meta = Touched(arch, t)
      BY <3>1, CreateMeta
    <3>3. arch.meta[p] = "owed"
      BY <2>3, <2>5, <3>2, TouchedMeta
    <3>4. QED
      BY <2>6, <2>9, <3>3 DEF MakesEntry
  <2>10. CASE MakesDirectory
    <3>1. CASE p = t
      BY <2>1, <2>3, <2>4, <2>7, <2>8, <2>10, <3>1, DirectoryMade DEF MakesDirectory
    <3>2. CASE p # t
      <4>1. arch' = arch \/ arch'.meta[p] = Touched(arch, t)[p]
        BY <2>1, <2>4, <2>10, <3>2, DirectoryMade
      <4>2. arch.meta[p] = "owed"
        BY <2>3, <2>5, <4>1, TouchedMeta
      <4>3. QED
        BY <2>6, <3>2, <4>2
    <3>3. QED
      BY <3>1, <3>2
  <2>11. CASE SetsMetadata
    <3>1. p # t
      <4>1. SUFFICES ASSUME p = t PROVE FALSE
        OBVIOUS
      <4>2. arch.meta[p] # "none"
        BY <2>1, <2>3, <2>4, <2>11, <4>1, MetadataSet
      <4>3. arch.fs[p] = "dir" /\ ~ThroughLink(arch, p)
        BY <4>2, NoLinkAbove DEF TreeInv
      <4>4. QED
        BY <2>1, <2>3, <2>4, <2>11, <4>1, <4>3, MetadataSet
    <3>2. arch.meta[p] = "owed"
      BY <2>1, <2>3, <2>4, <2>11, <3>1, MetadataSet
    <3>3. QED
      BY <2>6, <3>1, <3>2
  <2>12. QED
    BY <2>1, <2>8, <2>9, <2>10, <2>11 DEF ArchEffect
<1>2. CASE NextEffect
  <2>1. SUFFICES ASSUME skipped' = 0, curr_file_type' # "FREED",
                        NEW p \in Paths, arch'.meta[p] = "owed"
                 PROVE  (\/ \E h \in DirList : Hdr(h).target = p
                         \/ curr_file_type = "FAKE_DIR" /\ Curr.target = p /\ ~Done)'
    BY DEF OwedInv
  <2>2. /\ skipped = 0 /\ curr_file_type \notin {"EOF", "FREED"}
        /\ curr_file_type = "START" \/ Done
        /\ archive' = archive /\ arch' = arch /\ used' = "no"
    BY <1>2, <2>1 DEF NextEffect, inputVars, Done
  <2>3. PICK h \in DirList : Hdr(h).target = p
    BY <2>1, <2>2 DEF OwedInv
  <2>4. h \in DirList' \/ (curr_file_type' = "FAKE_DIR" /\ curr_file' = h)
    BY <1>2, <2>3 DEF NextEffect, GivesDirectory, GivesFile, GivesLink, GivesNothing
  <2>5. QED
    BY <2>2, <2>3, <2>4 DEF Hdr, Curr, Done
<1>3. CASE FreeEffect
  BY <1>3 DEF FreeEffect, OwedInv
<1>4. CASE ReadEffect \/ IdleEffect
  <2>1. UNCHANGED <<archive, curr_file, curr_file_type, listVars, arch, skipped>>
    BY <1>4 DEF ReadEffect, IdleEffect, inputVars, readerVars, clientVars
  <2>2. Done' => Done
    BY <1>4 DEF ReadEffect, IdleEffect, clientVars, Done
  <2>3. DirList' = DirList
    BY <2>1, ListsUnchanged
  <2>4. QED
    BY <2>1, <2>2, <2>3 DEF OwedInv, Hdr, Curr
<1>5. QED
  BY <1>1, <1>2, <1>3, <1>4 DEF StepEffect

-----------------------------------------------------------------------------
(* Placeholders *)

(* Without faults an entry that exists can be replaced unless it is a      *)
(* directory or in a directory that is read-only.                          *)
LEMMA CreateReplaces ==
  ASSUME NEW s \in FileSystem, NEW p \in Paths, NEW kind, NEW out \in CreateOutcomes(s, p),
         ~Faults, IsTree(s.fs), s.fs[p] \notin {"none", "dir"}
  PROVE  Parent(p) \in s.ro \/ Create(s, p, kind, out).fs[p] = kind
<1>1. ~ThroughLink(s, p)
  BY NoLinkAbove
<1>2. ASSUME Parent(p) \notin s.ro PROVE Writable(s, p)
  BY <1>2, ParentFacts DEF Writable, IsTree
<1>3. ASSUME Parent(p) \notin s.ro PROVE out = "ok"
  BY <1>1, <1>2, <1>3 DEF CreateOutcomes
<1>4. QED
  BY <1>1, <1>3 DEF Create, FileSystem

(* Every step keeps the account of the placeholders. *)
LEMMA StepPendingInv ==
  ASSUME ListInv, TreeInv, PendingInv, StepEffect
  PROVE  PendingInv'
<1>1. CASE ExtractEffect /\ ArchEffect
  <2>1. /\ ExtractEffect /\ ArchEffect /\ TypeInv /\ HasFile
        /\ LinkList \subseteq LinkList'
    BY <1>1 DEF ListInv, LinkInv, ExtractEffect
  <2>2. UNCHANGED <<archive, curr_file, curr_file_type, skipped>>
    BY <2>1 DEF ExtractEffect, inputVars, readerVars
  <2>3. SUFFICES ASSUME skipped = 0, ~Faults, NEW p \in Paths, arch'.fs[p] = "placeholder"
                 PROVE  \/ \E h \in LinkList' : Hdr(h).target = p
                        \/ curr_file_type = "DEFERRED_SYMLINK" /\ Parent(p) \in arch'.ro
    BY <2>2 DEF PendingInv, Hdr
  <2>4. PICK t \in Paths : t = Curr.target /\ curr_file \in Headers
    BY <2>1, CurrIsEntry
  <2>5. arch \in FileSystem /\ curr_file_type \notin {"EOF", "FREED"}
    BY <2>1 DEF TypeInv, HasFile
  <2>6. CASE /\ arch.fs[p] = "placeholder" /\ ~(curr_file_type = "DEFERRED_SYMLINK" /\ t = p)
             /\ curr_file_type = "DEFERRED_SYMLINK" => arch'.ro = arch.ro
    BY <2>1, <2>3, <2>4, <2>5, <2>6 DEF PendingInv
  <2>7. CASE arch'.fs = arch.fs /\ curr_file_type # "DEFERRED_SYMLINK"
    BY <2>3, <2>6, <2>7
  <2>8. CASE MakesEntry
    <3>1. PICK kind, out : /\ out \in CreateOutcomes(arch, t)
                           /\ arch' = Create(arch, t, kind, out)
                           /\ curr_file_type = "DEFERRED_SYMLINK" => kind \in Links
                           /\ kind = "placeholder" /\ out = "ok" => curr_file \in LinkList'
      BY <2>4, <2>8 DEF MakesEntry, Creates
    <3>2. arch'.ro = arch.ro
      BY <3>1, CreateMeta
    <3>3. CASE p # t
      <4>1. arch.fs[p] = "placeholder"
        BY <2>3, <2>5, <3>1, <3>3, CreateElsewhere
      <4>2. QED
        BY <2>6, <3>2, <3>3, <4>1
    <3>4. CASE p = t /\ curr_file_type # "DEFERRED_SYMLINK"
      <4>1. arch' = arch \/ (out = "ok" /\ kind = "placeholder")
        BY <2>3, <2>5, <3>1, <3>4, CreateHere
      <4>2. CASE out = "ok" /\ kind = "placeholder"
        BY <2>4, <3>1, <3>4, <4>2 DEF Curr, Hdr
      <4>3. QED
        BY <2>7, <3>4, <4>1, <4>2
    <3>5. CASE p = t /\ curr_file_type = "DEFERRED_SYMLINK"
      <4>1. kind # "placeholder"
        BY <3>1, <3>5 DEF Links
      <4>2. arch.fs[p] = "placeholder"
        BY <2>3, <2>5, <3>1, <3>5, <4>1, CreateHere
      <4>3. Parent(p) \in arch.ro \/ arch'.fs[p] = kind
        <5>1. arch.fs[p] \notin {"none", "dir"} /\ IsTree(arch.fs)
          BY <4>2 DEF TreeInv
        <5>2. QED
          BY <2>3, <2>5, <3>1, <3>5, <5>1, CreateReplaces
      <4>4. QED
        BY <2>3, <3>2, <3>5, <4>1, <4>3
    <3>6. QED
      BY <3>3, <3>4, <3>5
  <2>9. CASE MakesDirectory
    <3>1. curr_file_type = "NORMAL"
      BY <2>9 DEF MakesDirectory
    <3>2. arch' = arch \/ arch'.fs = [arch.fs EXCEPT ![t] = "dir"]
      BY <2>1, <2>4, <2>9, DirectoryMade
    <3>3. arch.fs[p] = "placeholder"
      BY <2>3, <2>5, <3>2 DEF FileSystem
    <3>4. QED
      BY <2>6, <3>1, <3>3
  <2>10. CASE SetsMetadata
    BY <2>1, <2>7, <2>10, MetadataSet DEF SetsMetadata
  <2>11. QED
    BY <2>1, <2>7, <2>8, <2>9, <2>10 DEF ArchEffect
<1>2. CASE NextEffect
  <2>1. SUFFICES ASSUME skipped' = 0, ~Faults, curr_file_type' # "FREED",
                        NEW p \in Paths, arch'.fs[p] = "placeholder"
                 PROVE  (\/ \E h \in LinkList : Hdr(h).target = p
                         \/ curr_file_type = "DEFERRED_SYMLINK" /\ Curr.target = p /\ ~Done
                         \/ /\ curr_file_type \in {"DEFERRED_SYMLINK", "EOF"}
                            /\ Parent(p) \in arch.ro)'
    BY DEF PendingInv
  <2>2. /\ skipped = 0 /\ curr_file_type \notin {"EOF", "FREED"}
        /\ curr_file_type = "START" \/ Done
        /\ archive' = archive /\ arch' = arch /\ used' = "no"
    BY <1>2, <2>1 DEF NextEffect, inputVars, Done
  <2>3. CASE \E h \in LinkList : Hdr(h).target = p
    <3>1. PICK h \in LinkList : Hdr(h).target = p
      BY <2>3
    <3>2. h \in LinkList' \/ (curr_file_type' = "DEFERRED_SYMLINK" /\ curr_file' = h)
      BY <1>2, <3>1 DEF NextEffect, GivesDirectory, GivesFile, GivesLink, GivesNothing
    <3>3. QED
      BY <2>2, <3>1, <3>2 DEF Hdr, Curr, Done
  <2>4. CASE curr_file_type = "DEFERRED_SYMLINK" /\ Parent(p) \in arch.ro
    <3>1. curr_file_type' \in {"DEFERRED_SYMLINK", "EOF"}
      BY <1>2, <2>4 DEF NextEffect, GivesDirectory, GivesFile, GivesLink, GivesNothing,
                        Moves, ListInv, LinkInv, NothingElseLeft
    <3>2. QED
      BY <2>2, <2>4, <3>1
  <2>5. QED
    BY <2>1, <2>2, <2>3, <2>4 DEF PendingInv
<1>3. CASE FreeEffect
  BY <1>3 DEF FreeEffect, PendingInv
<1>4. CASE ReadEffect \/ IdleEffect
  <2>1. UNCHANGED <<archive, curr_file, curr_file_type, listVars, arch, skipped>>
    BY <1>4 DEF ReadEffect, IdleEffect, inputVars, readerVars, clientVars
  <2>2. Done' => Done
    BY <1>4 DEF ReadEffect, IdleEffect, clientVars, Done
  <2>3. LinkList' = LinkList
    BY <2>1, ListsUnchanged
  <2>4. QED
    BY <2>1, <2>2, <2>3 DEF PendingInv, Hdr, Curr
<1>5. QED
  BY <1>1, <1>2, <1>3, <1>4 DEF StepEffect

-----------------------------------------------------------------------------
(* Metadata is applied last *)

(* An entry made in a directory that has its metadata is a deferred link.  *)
LEMMA OnlyLinksTouch ==
  ASSUME ListInv, AppliedInv, HasFile, curr_file_type # "FAKE_DIR", ~PolicyAnyTime,
         dir_policy = "END_OF_FILE" \/ (dir_policy = "END_OF_DIR" /\ Contiguous),
         Parent(Curr.target) \in Paths, arch.meta[Parent(Curr.target)] = "set"
  PROVE  curr_file \in deferred
<1>1. SUFFICES ASSUME curr_file_type = "NORMAL" PROVE FALSE
  BY DEF HasFile, ListInv, BehindInv
<1>2. TypeInv /\ curr_file \in Headers /\ Curr.target \in Paths /\ Curr \in Entries
  BY CurrIsEntry DEF ListInv, LinkInv
<1>3. PICK p \in Paths : p = Parent(Curr.target)
  OBVIOUS
<1>4. dir_policy = "END_OF_DIR" /\ Contiguous /\ Over(p) /\ curr_file = at
  BY <1>1, <1>2, <1>3 DEF AppliedInv, ListInv, PosInv, Headers, NULL
<1>5. PICK d, j \in Headers :
        /\ d < j /\ j <= at
        /\ Hdr(d).kind = "dir" /\ Hdr(d).target = p /\ ~Within(j, d)
  BY <1>4 DEF Over
<1>6. Hdr(d).dir = p
  <2>1. Hdr(d) \in Entries
    BY <1>2, <1>5 DEF TypeInv, Hdr, Headers
  <2>2. QED
    BY <1>5, <2>1, ReaderAssumption
<1>7. Curr.dir = p \/ ProperPrefix(p, Curr.dir)
  <2>1. Len(Curr.target) # 1 /\ ProperPrefix(p, Curr.target)
    <3>1. ProperPrefix(p, Curr.target)
      BY <1>2, <1>3, ParentFacts
    <3>2. Len(p) >= 1 /\ Len(p) \in Nat /\ Len(Curr.target) \in Nat
      BY <1>2, <1>3, ParentFacts
    <3>3. Len(p) < Len(Curr.target)
      BY <3>1 DEF ProperPrefix
    <3>4. \A m, n \in Nat : m >= 1 /\ m < n => n # 1
      OBVIOUS
    <3>5. Len(Curr.target) # 1
      BY ONLY <3>2, <3>3, <3>4, Zenon
    <3>6. QED
      BY <3>1, <3>5
  <2>2. Curr.dir = Curr.target \/ Curr.dir = p
    BY <1>2, <1>3, <2>1, ReaderAssumption
  <2>3. QED
    BY <2>1, <2>2
<1>8. Within(curr_file, d)
  BY <1>6, <1>7 DEF Within, Curr, Hdr
<1>9. curr_file > d /\ j \in d .. curr_file
  BY <1>2, <1>4, <1>5 DEF Headers
<1>10. Within(j, d)
  BY <1>2, <1>4, <1>5, <1>8, <1>9 DEF Contiguous
<1>11. QED
  BY <1>5, <1>10

(* What an extraction does to the metadata: it marks the directory of the  *)
(* entry it makes, and sets that of one directory.                         *)
LEMMA MetadataChanges ==
  ASSUME ListInv, HasFile, ArchEffect, NEW p \in Paths
  PROVE  /\ arch'.meta[p] \in {"set", "stale"} =>
              \/ arch.meta[p] \in {"set", "stale"}
              \/ p = Curr.target /\ (curr_file_type = "FAKE_DIR" \/ dir_policy = "PLAIN")
         /\ arch'.meta[p] = "stale" =>
              \/ arch.meta[p] = "stale"
              \/ /\ p = Parent(Curr.target) /\ arch.meta[p] = "set"
                 /\ curr_file_type # "FAKE_DIR"
<1>1. TypeInv /\ arch \in FileSystem /\ Curr.target \in Paths
  BY CurrIsEntry DEF ListInv, LinkInv, TypeInv
<1>2. PICK t \in Paths : t = Curr.target
  BY <1>1
<1>3. CASE arch'.meta[p] = arch.meta[p]
  BY <1>3
<1>4. CASE arch'.meta[p] = Touched(arch, t)[p] /\ curr_file_type # "FAKE_DIR"
  BY <1>1, <1>2, <1>4, TouchedMeta
<1>5. CASE MakesEntry
  <2>1. PICK kind, out : arch' = Create(arch, t, kind, out)
    BY <1>2, <1>5 DEF MakesEntry, Creates
  <2>2. arch' = arch \/ arch'.meta = Touched(arch, t)
    BY <2>1, CreateMeta
  <2>3. QED
    BY <1>3, <1>4, <1>5, <2>2 DEF MakesEntry
<1>6. CASE MakesDirectory
  <2>1. CASE p = t
    BY <1>1, <1>2, <1>3, <1>6, <2>1, DirectoryMade
  <2>2. CASE p # t
    BY <1>1, <1>2, <1>3, <1>4, <1>6, <2>2, DirectoryMade, Zenon DEF MakesDirectory
  <2>3. QED
    BY <2>1, <2>2
<1>7. CASE SetsMetadata
  <2>1. CASE p = t
    BY <1>1, <1>2, <1>3, <1>7, <2>1, MetadataSet DEF SetsMetadata
  <2>2. CASE p # t
    BY <1>1, <1>2, <1>3, <1>7, <2>2, MetadataSet
  <2>3. QED
    BY <2>1, <2>2
<1>8. QED
  BY <1>3, <1>5, <1>6, <1>7 DEF ArchEffect

(* Every step keeps the metadata for last. *)
LEMMA StepMetadataInv ==
  ASSUME ListInv, ListInv', RestInv, MetadataInv, StepEffect
  PROVE  MetadataInv'
<1>1. TypeInv /\ AppliedInv /\ MetadataLast /\ dir_policy \in Policies /\ at \in Nat
  BY DEF ListInv, LinkInv, TypeInv, MetadataInv, RestInv
<1>2. CASE ExtractEffect /\ ArchEffect
  <2>1. /\ ExtractEffect /\ ArchEffect /\ HasFile
        /\ deferred \subseteq deferred'
    BY <1>2 DEF ExtractEffect
  <2>2. UNCHANGED <<archive, curr_file, curr_file_type, at, b_curr_file, dir_policy>>
    BY <2>1 DEF ExtractEffect, inputVars, readerVars
  <2>3. \A p : Over(p)' <=> Over(p)
    BY <2>2 DEF Over, Within, Hdr, Headers
  <2>4. Contiguous' <=> Contiguous
    BY <2>2 DEF Contiguous, Within, Hdr, Headers
  <2>5. AppliedInv'
    <3>1. SUFFICES ASSUME ~PolicyAnyTime, NEW p \in Paths, arch'.meta[p] \in {"set", "stale"}
                   PROVE  /\ curr_file_type # "START"
                          /\ \/ dir_policy = "PLAIN"
                             \/ b_curr_file = NULL
                             \/ dir_policy = "END_OF_DIR" /\ Over(p)
      BY <1>1, <2>2, <2>3 DEF AppliedInv, Curr
    <3>2. \/ arch.meta[p] \in {"set", "stale"}
          \/ p = Curr.target /\ (curr_file_type = "FAKE_DIR" \/ dir_policy = "PLAIN")
      BY <2>1, <3>1, MetadataChanges
    <3>3. QED
      BY <1>1, <2>1, <3>1, <3>2 DEF AppliedInv, HasFile
  <2>6. MetadataLast'
    <3>1. SUFFICES ASSUME ~PolicyAnyTime,
                          dir_policy = "END_OF_FILE" \/ (dir_policy = "END_OF_DIR" /\ Contiguous),
                          NEW p \in Paths, arch'.meta[p] = "stale"
                   PROVE  \E h \in deferred : Parent(Hdr(h).target) = p
      BY <2>1, <2>2, <2>4 DEF MetadataLast, Hdr
    <3>2. CASE arch.meta[p] = "stale"
      BY <1>1, <3>1, <3>2 DEF MetadataLast
    <3>3. CASE p = Parent(Curr.target) /\ arch.meta[p] = "set" /\ curr_file_type # "FAKE_DIR"
      <4>1. curr_file \in deferred
        BY <1>1, <2>1, <3>1, <3>3, OnlyLinksTouch
      <4>2. QED
        BY <3>3, <4>1 DEF Curr, Hdr
    <3>4. QED
      BY <2>1, <3>1, <3>2, <3>3, MetadataChanges
  <2>7. QED
    BY <2>5, <2>6 DEF MetadataInv
<1>3. CASE NextEffect
  <2>1. UNCHANGED <<archive, arch, dir_policy, deferred>> /\ Moves
    BY <1>3 DEF NextEffect, inputVars
  <2>2. ASSUME NEW p, Over(p) PROVE Over(p)'
    BY <1>1, <2>1, <2>2 DEF Over, Within, Hdr, Headers, Moves
  <2>3. curr_file_type' # "START"
    BY <1>3 DEF NextEffect, GivesDirectory, GivesFile, GivesLink, GivesNothing
  <2>4. curr_file_type # "START" /\ b_curr_file = NULL => b_curr_file' = NULL
    BY <2>1 DEF Moves, ListInv, LinkInv, TypeInv, PosInv, HasFile
  <2>5. ASSUME curr_file_type' = "FAKE_DIR", dir_policy # "PLAIN", b_curr_file' # NULL
        PROVE  dir_policy = "END_OF_DIR" /\ Over(Curr.target)'
    <3>1. GivesDirectory
      BY <1>3, <2>5 DEF NextEffect, GivesFile, GivesLink, GivesNothing
    <3>2. dir_policy = "END_OF_DIR" /\ ~Within(b_curr_file', dir_stack)
      BY <1>1, <2>5, <3>1, Zenon DEF GivesDirectory, end_of_top_dir, Policies
    <3>3. /\ b_curr_file' = at' /\ at' \in Headers' /\ curr_file' = dir_stack
          /\ curr_file' \in Headers' /\ Hdr(curr_file)'.kind = "dir" /\ curr_file' < at'
      <4>1. TypeInv' /\ b_curr_file' \in {NULL, at'} /\ (Curr.kind = "dir")' /\ Behind(curr_file)'
        BY <1>1, <2>5 DEF ListInv, LinkInv, PosInv, BehindInv
      <4>2. at' \in Headers' /\ curr_file' \in Headers' /\ b_curr_file' = at'
        BY <2>5, <4>1 DEF TypeInv, HasFile, Headers, NULL
      <4>3. curr_file' < at'
        BY <2>5, <4>1, <4>2 DEF Behind, Headers
      <4>4. QED
        BY <3>1, <4>1, <4>2, <4>3 DEF GivesDirectory, Curr, Hdr
    <3>4. ~Within(at, curr_file)'
      BY <2>1, <3>2, <3>3 DEF Within, Hdr
    <3>5. QED
      BY <1>1, <3>2, <3>3, <3>4 DEF Over, Curr, Hdr, ListInv, LinkInv, TypeInv, Headers
  <2>6. AppliedInv'
    BY <1>1, <2>1, <2>2, <2>3, <2>4, <2>5 DEF AppliedInv
  <2>7. MetadataLast'
    BY <1>1, <2>1 DEF MetadataLast, Contiguous, Within, Hdr, Headers
  <2>8. QED
    BY <2>6, <2>7 DEF MetadataInv
<1>4. CASE FreeEffect
  <2>1. AppliedInv'
    BY <1>1, <1>4 DEF FreeEffect, AppliedInv
  <2>2. MetadataLast'
    BY <1>1, <1>4 DEF FreeEffect, MetadataLast, Contiguous, Within, Hdr, Headers,
                      inputVars, clientVars
  <2>3. QED
    BY <2>1, <2>2 DEF MetadataInv
<1>5. CASE ReadEffect \/ IdleEffect
  <2>1. /\ UNCHANGED <<archive, curr_file, curr_file_type, arch, at, b_curr_file, deferred>>
        /\ UNCHANGED dir_policy \/ curr_file_type = "START" \/ PolicyAnyTime
    BY <1>5 DEF ReadEffect, IdleEffect, inputVars, readerVars, basicVars, clientVars
  <2>2. \A p : Over(p)' <=> Over(p)
    BY <2>1 DEF Over, Within, Hdr, Headers
  <2>3. Contiguous' <=> Contiguous
    BY <2>1 DEF Contiguous, Within, Hdr, Headers
  <2>4. AppliedInv'
    BY <1>1, <2>1, <2>2 DEF AppliedInv, Curr
  <2>5. MetadataLast'
    BY <1>1, <2>1, <2>3 DEF AppliedInv, MetadataLast, Hdr
  <2>6. QED
    BY <2>4, <2>5 DEF MetadataInv
<1>6. QED
  BY <1>2, <1>3, <1>4, <1>5 DEF StepEffect

-----------------------------------------------------------------------------
(* The file system *)

(* unlink and create leave a file system behind and make a dangerous link  *)
(* only when asked to.                                                     *)
LEMMA CreateFacts ==
  ASSUME NEW s \in FileSystem, NEW p \in Paths, NEW kind \in Kinds, NEW out
  PROVE  /\ Create(s, p, kind, out) \in FileSystem
         /\ NoDlink(s) /\ kind # "dlink" => NoDlink(Create(s, p, kind, out))
<1>1. Touched(s, p) \in [Paths -> MetaStates]
  BY TouchedType
<1>2. CASE out = "failed" \/ ThroughLink(s, p)
  BY <1>2 DEF Create
<1>3. CASE ~(out = "failed" \/ ThroughLink(s, p))
  <2> DEFINE k == IF out = "ok" THEN kind ELSE "none"
  <2>1. Create(s, p, kind, out) =
          [fs |-> [s.fs EXCEPT ![p] = k], meta |-> Touched(s, p), ro |-> s.ro]
    BY <1>3 DEF Create
  <2>2. k \in Kinds /\ (kind # "dlink" => k # "dlink")
    BY DEF Kinds
  <2> HIDE DEF k
  <2>3. QED
    BY <1>1, <2>1, <2>2 DEF FileSystem, NoDlink
<1>4. QED
  BY <1>2, <1>3

(* mkdir likewise. *)
LEMMA MkdirFacts ==
  ASSUME NEW s \in FileSystem, NEW p \in Paths, NEW out
  PROVE  /\ lha_arch_mkdir(s, p, out) \in FileSystem
         /\ NoDlink(s) => NoDlink(lha_arch_mkdir(s, p, out))
<1>1. Touched(s, p) \in [Paths -> MetaStates]
  BY TouchedType
<1>2. QED
  BY <1>1 DEF lha_arch_mkdir, FileSystem, NoDlink, Kinds

(* Metadata is set without touching what is at any path. *)
LEMMA MetadataFacts ==
  ASSUME NEW s \in FileSystem, NEW p \in Paths, NEW readonly
  PROVE  /\ ApplyMetadata(s, p, readonly) \in FileSystem
         /\ Owe(s, p) \in FileSystem
         /\ NoDlink(s) => NoDlink(ApplyMetadata(s, p, readonly)) /\ NoDlink(Owe(s, p))
BY DEF ApplyMetadata, Owe, FileSystem, NoDlink, MetaStates

-----------------------------------------------------------------------------
(* Dangerous links come last *)

(* The basic reader moves to a header of the archive or to none, and not   *)
(* at all when it is past the files.                                       *)
LEMMA AdvanceFacts ==
  ASSUME TypeInv, AdvanceInput
  PROVE  /\ at' \in 0 .. Len(archive)
         /\ b_curr_file' \in 0 .. Len(archive)
         /\ curr_file_type \notin {"START", "NORMAL"} => b_curr_file' = b_curr_file
<1>1. CASE curr_file_type \in {"START", "NORMAL"} /\ lha_basic_reader_next_file
  BY <1>1 DEF lha_basic_reader_next_file, HeaderAt, TypeInv, NULL
<1>2. CASE curr_file_type \notin {"START", "NORMAL"} /\ UNCHANGED basicVars
  BY <1>2 DEF TypeInv, basicVars
<1>3. QED
  BY <1>1, <1>2 DEF AdvanceInput

(* lha_reader_next_file keeps the invariant: after the last header and the *)
(* last directory only deferred links and the end follow.                  *)
LEMMA NextFileKeepsLinkInv ==
  ASSUME LinkInv, lha_reader_next_file
  PROVE  LinkInv'
<1> USE DEF NULL
<1>1. TypeInv
  BY DEF LinkInv
<1>2. /\ at' \in 0 .. Len(archive)
      /\ b_curr_file' \in 0 .. Len(archive)
      /\ curr_file_type \notin {"START", "NORMAL"} => b_curr_file' = b_curr_file
  BY <1>1, AdvanceFacts DEF lha_reader_next_file
<1>3. archive' = archive /\ lastHeader' = lastHeader /\ arch' = arch
  BY DEF lha_reader_next_file, inputVars
<1>4. CASE PopDirectory
  <2>1. dir_stack \in Headers
    BY <1>1, <1>4 DEF PopDirectory, end_of_top_dir, TypeInv, Headers
  <2>2. next[dir_stack] \in 0 .. Len(archive)
    BY <1>1, <2>1 DEF TypeInv
  <2>3. TypeInv'
    BY <1>1, <1>2, <1>3, <1>4, <2>1, <2>2
       DEF PopDirectory, TypeInv, HasFile, CurrFileTypes, Headers
  <2>4. curr_file_type \notin {"DEFERRED_SYMLINK", "EOF", "FREED"}
    BY <1>4 DEF PopDirectory, end_of_top_dir, LinkInv, NothingElseLeft,
                lha_reader_next_file
  <2>5. QED
    BY <1>3, <1>4, <2>3, <2>4
       DEF PopDirectory, LinkInv, NothingElseLeft, DangerousLinksLast
<1>5. CASE TakeInput
  <2>1. TypeInv'
    BY <1>1, <1>2, <1>3, <1>5
       DEF TakeInput, listVars, TypeInv, HasFile, CurrFileTypes, Headers
  <2>2. curr_file_type \notin {"DEFERRED_SYMLINK", "EOF", "FREED"}
    BY <1>2, <1>5 DEF TakeInput, LinkInv, NothingElseLeft, lha_reader_next_file
  <2>3. QED
    BY <1>3, <1>5, <2>1, <2>2
       DEF TakeInput, LinkInv, NothingElseLeft, DangerousLinksLast
<1>6. CASE TakeDeferred
  <2>1. deferred_symlinks \in Headers
    BY <1>1, <1>6 DEF TakeDeferred, TypeInv, Headers
  <2>2. next[deferred_symlinks] \in 0 .. Len(archive)
    BY <1>1, <2>1 DEF TypeInv
  <2>3. TypeInv'
    BY <1>1, <1>2, <1>3, <1>6, <2>1, <2>2
       DEF TakeDeferred, TypeInv, HasFile, CurrFileTypes, Headers
  <2>4. b_curr_file' = NULL /\ dir_stack' = NULL
    BY <1>6 DEF TakeDeferred, end_of_top_dir
  <2>5. QED
    BY <1>6, <2>3, <2>4
       DEF TakeDeferred, LinkInv, NothingElseLeft, DangerousLinksLast
<1>7. CASE EndOfInput
  <2>1. TypeInv'
    BY <1>1, <1>2, <1>3, <1>7
       DEF EndOfInput, listVars, TypeInv, HasFile, CurrFileTypes, Headers
  <2>2. b_curr_file' = NULL /\ dir_stack' = NULL
    BY <1>7 DEF EndOfInput, end_of_top_dir, listVars
  <2>3. QED
    BY <1>7, <2>1, <2>2 DEF EndOfInput, LinkInv, NothingElseLeft, DangerousLinksLast
<1>8. QED
  BY <1>4, <1>5, <1>6, <1>7 DEF lha_reader_next_file

(* Reading data moves neither the header of the basic reader nor the last  *)
(* header parsed.                                                          *)
LEMMA ConsumeFacts ==
  /\ ConsumeSome => UNCHANGED <<at, b_curr_file>>
  /\ \A ok \in BOOLEAN : do_decode(ok) => UNCHANGED <<at, b_curr_file>>
BY DEF ConsumeSome, do_decode, lha_basic_reader_read_compressed, basicVars

(* What an extraction that is not the making of a link does to the state   *)
(* the invariant is about.                                                 *)
Harmless ==
  /\ UNCHANGED <<at, b_curr_file, deferred_symlinks, next, dir_stack>>
  /\ arch' \in FileSystem
  /\ NoDlink(arch) => NoDlink(arch')

(* extract_file writes a regular file at most. *)
LEMMA ExtractFileHarmless ==
  ASSUME TypeInv, HasFile, extract_file
  PROVE  Harmless
<1>1. Curr.target \in Paths /\ arch \in FileSystem
  BY CurrIsEntry DEF TypeInv
<1>2. PICK out \in OpenOutcomes :
        CASE out = "ok" ->
               \E created \in CreateOutcomes(arch, Curr.target) :
                 \/ /\ created = "ok"
                    /\ \E ok \in BOOLEAN :
                         /\ do_decode(ok)
                         /\ arch' = lha_arch_fopen(arch, Curr.target,
                                       IF ok THEN "file" ELSE "partial", created)
                 \/ /\ created = "ok" /\ Faults
                    /\ ConsumeSome
                    /\ arch' = lha_arch_fopen(arch, Curr.target, "partial", created)
                 \/ /\ created # "ok"
                    /\ (IF Curr.codec = "mac" THEN ConsumeSome ELSE UNCHANGED basicVars)
                    /\ arch' = lha_arch_fopen(arch, Curr.target, "file", created)
          [] out = "short" -> ConsumeSome /\ UNCHANGED arch
          [] OTHER         -> UNCHANGED <<basicVars, arch>>
  BY Zenon DEF extract_file
<1>3. UNCHANGED <<at, b_curr_file>>
  BY <1>2, ConsumeFacts DEF basicVars
<1>4. \/ \E created : \E kind \in {"file", "partial"} :
             arch' = Create(arch, Curr.target, kind, created)
      \/ arch' = arch
  BY <1>2 DEF lha_arch_fopen
<1>5. arch' \in FileSystem /\ (NoDlink(arch) => NoDlink(arch'))
  <2>1. CASE arch' = arch
    BY <1>1, <2>1
  <2>2. CASE \E created : \E kind \in {"file", "partial"} :
               arch' = Create(arch, Curr.target, kind, created)
    <3>1. PICK created, kind : kind \in {"file", "partial"}
                 /\ arch' = Create(arch, Curr.target, kind, created)
      BY <2>2
    <3>2. kind \in Kinds /\ kind # "dlink"
      BY <3>1 DEF Kinds
    <3>3. QED
      BY <1>1, <3>1, <3>2, CreateFacts
  <2>3. QED
    BY <1>4, <2>1, <2>2
<1>6. UNCHANGED listVars
  BY DEF extract_file
<1>7. QED
  BY <1>3, <1>5, <1>6 DEF Harmless, listVars

(* An extraction that makes no dangerous link keeps the invariant.         *)
LEMMA HarmlessKeepsLinkInv ==
  ASSUME LinkInv, Harmless, UNCHANGED <<inputVars, readerVars>>
  PROVE  LinkInv'
<1>1. TypeInv'
  BY DEF LinkInv, TypeInv, Harmless, inputVars, readerVars, HasFile, Headers
<1>2. NothingElseLeft' /\ DangerousLinksLast'
  BY DEF LinkInv, NothingElseLeft, DangerousLinksLast, Harmless, readerVars, NoDlink
<1>3. QED
  BY <1>1, <1>2 DEF LinkInv

(* extract_directory: only a NORMAL file puts a header on the stack.       *)
LEMMA ExtractDirectoryKeepsLinkInv ==
  ASSUME LinkInv, curr_file_type = "NORMAL", extract_directory,
         UNCHANGED <<inputVars, readerVars>>
  PROVE  LinkInv'
<1>1. TypeInv /\ HasFile /\ NoDlink(arch)
  BY DEF LinkInv, HasFile, DangerousLinksLast, NoDlink
<1>2. curr_file \in Headers /\ Curr.target \in Paths /\ arch \in FileSystem
  BY <1>1, CurrIsEntry DEF TypeInv
<1>3. PICK out \in MkdirOutcomes(arch, Curr.target) :
        LET made == lha_arch_mkdir(arch, Curr.target, out) IN
        \/ UNCHANGED <<arch, refs, listVars>>
        \/ /\ arch' = ApplyMetadata(made, Curr.target, Curr.readonly)
           /\ UNCHANGED <<refs, listVars>>
        \/ /\ arch' = Owe(made, Curr.target)
           /\ PushDirectory
           /\ UNCHANGED deferred_symlinks
  BY Zenon DEF extract_directory
<1>4. arch' \in FileSystem /\ NoDlink(arch')
  <2> DEFINE made == lha_arch_mkdir(arch, Curr.target, out)
  <2>1. made \in FileSystem /\ NoDlink(made)
    BY <1>1, <1>2, MkdirFacts
  <2> HIDE DEF made
  <2>2. /\ ApplyMetadata(made, Curr.target, Curr.readonly) \in FileSystem
        /\ NoDlink(ApplyMetadata(made, Curr.target, Curr.readonly))
        /\ Owe(made, Curr.target) \in FileSystem
        /\ NoDlink(Owe(made, Curr.target))
    BY <1>2, <2>1, MetadataFacts
  <2>3. QED
    BY <1>1, <1>2, <1>3, <2>2 DEF made
<1>5. /\ dir_stack' \in 0 .. Len(archive)
      /\ next' \in [Headers -> 0 .. Len(archive)]
      /\ deferred_symlinks' = deferred_symlinks
  <2>1. CASE UNCHANGED listVars
    BY <1>1, <2>1 DEF TypeInv, listVars
  <2>2. CASE PushDirectory /\ UNCHANGED deferred_symlinks
    BY <1>1, <1>2, <2>2 DEF PushDirectory, TypeInv, Headers
  <2>3. QED
    BY <1>3, <2>1, <2>2
<1>6. UNCHANGED basicVars
  BY DEF extract_directory
<1>7. TypeInv'
  BY <1>1, <1>4, <1>5, <1>6
     DEF TypeInv, inputVars, readerVars, basicVars, HasFile, Headers
<1>8. QED
  BY <1>4, <1>7 DEF LinkInv, NothingElseLeft, DangerousLinksLast, NoDlink, readerVars

(* extract_placeholder_symlink makes an empty file and files the header.   *)
LEMMA PlaceholderKeepsLinkInv ==
  ASSUME LinkInv, curr_file_type = "NORMAL", extract_placeholder_symlink,
         UNCHANGED <<inputVars, readerVars>>
  PROVE  LinkInv'
<1>1. TypeInv /\ HasFile /\ NoDlink(arch)
  BY DEF LinkInv, HasFile, DangerousLinksLast, NoDlink
<1>2. curr_file \in Headers /\ Curr.target \in Paths /\ arch \in FileSystem
  BY <1>1, CurrIsEntry DEF TypeInv
<1>3. UNCHANGED <<basicVars, dir_stack>>
  BY DEF extract_placeholder_symlink
<1>4. arch' \in FileSystem /\ NoDlink(arch')
  <2>1. PICK out : arch' = Create(arch, Curr.target, "placeholder", out)
    BY DEF extract_placeholder_symlink, lha_arch_fopen
  <2>2. "placeholder" \in Kinds /\ "placeholder" # "dlink"
    BY DEF Kinds
  <2>3. QED
    BY <1>1, <1>2, <2>1, <2>2, CreateFacts
<1>5. /\ deferred_symlinks' \in 0 .. Len(archive)
      /\ next' \in [Headers -> 0 .. Len(archive)]
  <2>1. CASE UNCHANGED <<deferred_symlinks, next>>
    BY <1>1, <2>1 DEF TypeInv
  <2>2. CASE InsertDeferred
    <3>1. PICK k \in 0 .. Len(archive) : \E path \in [1 .. k -> Headers] :
            IF k = 0
            THEN /\ next' = [next EXCEPT ![curr_file] = deferred_symlinks]
                 /\ deferred_symlinks' = curr_file
            ELSE /\ next' = [next EXCEPT ![curr_file] = next[path[k]],
                                        ![path[k]] = curr_file]
                 /\ UNCHANGED deferred_symlinks
      BY <2>2 DEF InsertDeferred
    <3>2. CASE k = 0
      BY <1>1, <1>2, <3>1, <3>2 DEF TypeInv, Headers
    <3>3. CASE k # 0
      <4>1. PICK path \in [1 .. k -> Headers] :
              /\ next' = [next EXCEPT ![curr_file] = next[path[k]],
                                     ![path[k]] = curr_file]
              /\ UNCHANGED deferred_symlinks
        BY <3>1, <3>3
      <4>2. path[k] \in Headers
        BY <3>3
      <4>3. next[path[k]] \in 0 .. Len(archive) /\ curr_file \in 0 .. Len(archive)
        BY <1>1, <4>2 DEF TypeInv
      <4>4. QED
        BY <1>1, <1>2, <4>1, <4>2, <4>3 DEF TypeInv
    <3>4. QED
      BY <3>2, <3>3
  <2>3. QED
    BY <2>1, <2>2 DEF extract_placeholder_symlink
<1>6. TypeInv'
  BY <1>1, <1>3, <1>4, <1>5
     DEF TypeInv, inputVars, readerVars, basicVars, HasFile, Headers
<1>7. QED
  BY <1>4, <1>6, Zenon DEF LinkInv, NothingElseLeft, DangerousLinksLast, NoDlink, readerVars

(* extract_symlink makes a dangerous link at once only when the current    *)
(* file is a deferred one.                                                 *)
LEMMA MakeSymlinkKeepsLinkInv ==
  ASSUME LinkInv, HasFile, curr_file_type = "DEFERRED_SYMLINK" \/ ~Curr.danger,
         make_symlink, UNCHANGED <<inputVars, readerVars>>
  PROVE  LinkInv'
<1>1. TypeInv
  BY DEF LinkInv
<1>2. Curr.target \in Paths /\ arch \in FileSystem /\ Curr.danger \in BOOLEAN
  BY <1>1, CurrIsEntry DEF TypeInv
<1> DEFINE kind == IF Curr.danger THEN "dlink" ELSE "link"
<1>3. PICK out : arch' = Create(arch, Curr.target, kind, out)
  BY DEF make_symlink, lha_arch_symlink
<1>4. kind \in Kinds /\ (~Curr.danger => kind # "dlink")
  BY <1>2 DEF Kinds, Links
<1>5. UNCHANGED <<basicVars, listVars>>
  BY DEF make_symlink
<1> HIDE DEF kind
<1>6. arch' \in FileSystem /\ (~Curr.danger /\ NoDlink(arch) => NoDlink(arch'))
  BY <1>2, <1>3, <1>4, CreateFacts
<1>7. TypeInv'
  BY <1>1, <1>5, <1>6
     DEF TypeInv, inputVars, readerVars, basicVars, listVars, HasFile, Headers
<1>8. NothingElseLeft'
  BY <1>5 DEF LinkInv, NothingElseLeft, readerVars, basicVars, listVars
<1>9. DangerousLinksLast'
  BY <1>6 DEF LinkInv, DangerousLinksLast, NoDlink, readerVars
<1>10. QED
  BY <1>7, <1>8, <1>9 DEF LinkInv

(* lha_reader_extract: one case for each kind of current file. *)
LEMMA ExtractKeepsLinkInv ==
  ASSUME LinkInv, lha_reader_extract
  PROVE  LinkInv'
<1>1. TypeInv /\ HasFile /\ UNCHANGED <<inputVars, readerVars>>
  BY DEF LinkInv, lha_reader_extract
<1>2. CASE curr_file_type = "NORMAL"
  <2>1. extract_normal
    BY <1>2 DEF lha_reader_extract
  <2>2. CASE Curr.kind = "file"
    BY <1>1, <2>1, <2>2, ExtractFileHarmless, HarmlessKeepsLinkInv DEF extract_normal
  <2>3. CASE Curr.kind = "dir"
    BY <1>1, <1>2, <2>1, <2>3, ExtractDirectoryKeepsLinkInv DEF extract_normal
  <2>4. CASE Curr.kind = "link"
    BY <1>1, <1>2, <2>1, <2>4, PlaceholderKeepsLinkInv, MakeSymlinkKeepsLinkInv
       DEF extract_normal, extract_symlink
  <2>5. QED
    BY <1>1, <2>2, <2>3, <2>4, CurrIsEntry
<1>3. CASE curr_file_type = "FAKE_DIR"
  <2>1. set_directory_metadata
    BY <1>3 DEF lha_reader_extract
  <2>2. Curr.target \in Paths /\ arch \in FileSystem
    BY <1>1, CurrIsEntry DEF TypeInv
  <2>3. Harmless
    BY <2>1, <2>2, MetadataFacts
       DEF set_directory_metadata, Harmless, basicVars, listVars
  <2>4. QED
    BY <1>1, <2>3, HarmlessKeepsLinkInv
<1>4. CASE curr_file_type = "DEFERRED_SYMLINK"
  BY <1>1, <1>4, MakeSymlinkKeepsLinkInv DEF lha_reader_extract, extract_symlink
<1>5. QED
  BY <1>1, <1>2, <1>3, <1>4 DEF HasFile

(* An archive of the initial states is a sequence of entries. *)
LEMMA InitialArchive ==
  ASSUME BasicInit
  PROVE  archive \in Seq(Entries) /\ Len(archive) \in Nat
<1>1. PICK n \in 0 .. MaxEntries : archive \in [1 .. n -> Entries]
  BY DEF BasicInit
<1>2. n \in Nat
  BY EntryAssumption
<1>3. QED
  BY <1>1, <1>2

(* The initial states satisfy the invariant. *)
LEMMA InitLinkInv ==
  ASSUME Init
  PROVE  LinkInv
<1>1. archive \in Seq(Entries) /\ Len(archive) \in Nat
  BY InitialArchive DEF Init
<1>2. arch \in FileSystem /\ NoDlink(arch)
  BY DEF Init, ReaderInit, Trees, FileSystem, Kinds, Links, MetaStates, NoDlink
<1>3. TypeInv
  BY <1>1, <1>2 DEF Init, BasicInit, ReaderInit, TypeInv, HasFile, CurrFileTypes,
                    Headers, NULL
<1>4. NothingElseLeft /\ DangerousLinksLast
  BY <1>2 DEF Init, ReaderInit, NothingElseLeft, DangerousLinksLast, NoDlink
<1>5. QED
  BY <1>3, <1>4 DEF LinkInv

(* The calls that extract nothing leave files and lists alone. *)
LEMMA ReadKeepsLinkInv ==
  ASSUME LinkInv, lha_reader_read \/ lha_reader_check
  PROVE  LinkInv'
<1>1. UNCHANGED <<at, b_curr_file>>
  <2>1. CASE lha_reader_read
    BY <2>1, ConsumeFacts DEF lha_reader_read, basicVars
  <2>2. CASE lha_reader_check
    BY <2>2, ConsumeFacts DEF lha_reader_check, basicVars
  <2>3. QED
    BY <2>1, <2>2
<1>2. UNCHANGED <<inputVars, readerVars, listVars, arch>>
  BY DEF lha_reader_read, lha_reader_check
<1>3. Harmless
  BY <1>1, <1>2 DEF Harmless, listVars, LinkInv, TypeInv
<1>4. QED
  BY <1>2, <1>3, HarmlessKeepsLinkInv

(* Every step keeps the invariant. *)
LEMMA NextLinkInv ==
  ASSUME LinkInv, [Next]_vars
  PROVE  LinkInv'
<1>1. CASE lha_reader_set_dir_policy
  BY <1>1 DEF lha_reader_set_dir_policy, LinkInv, TypeInv, NothingElseLeft,
              DangerousLinksLast, inputVars, basicVars, listVars, HasFile, Headers
<1>2. CASE lha_reader_free
  <2>1. TypeInv'
    BY <1>2 DEF lha_reader_free, LinkInv, TypeInv, inputVars, HasFile, CurrFileTypes,
                Headers, NULL
  <2>2. QED
    BY <1>2, <2>1, Zenon DEF lha_reader_free, LinkInv, NothingElseLeft, DangerousLinksLast
<1>3. CASE UNCHANGED vars
  BY <1>3 DEF vars, LinkInv, TypeInv, NothingElseLeft, DangerousLinksLast, inputVars,
              basicVars, listVars, readerVars, HasFile, Headers
<1>4. QED
  BY <1>1, <1>2, <1>3, NextFileKeepsLinkInv, ReadKeepsLinkInv, ExtractKeepsLinkInv
     DEF Next

(* In every behaviour of every client a dangerous symbolic link is made    *)
(* only after the last file and the last directory of the archive: no file *)
(* of the archive is ever extracted while such a link exists.              *)
THEOREM DangerousLinksComeLast == Spec => []DangerousLinksLast
<1>1. Init => LinkInv
  BY InitLinkInv
<1>2. LinkInv /\ [Next]_vars => LinkInv'
  BY NextLinkInv
<1>3. LinkInv => DangerousLinksLast
  BY DEF LinkInv
<1>4. QED
  BY <1>1, <1>2, <1>3, PTL DEF Spec

-----------------------------------------------------------------------------
(* Decoders do not leak *)

(* open_decoder, called with no decoder open, accounts for what it opens.  *)
LEMMA OpenAccounts ==
  ASSUME DecoderInv, NEW out, open_decoder(out),
         ~ExtractTwice => decoder = "none" /\ inner_decoder = 0
  PROVE  /\ decoder' \in {"none", "inner", "mac"}
         /\ inner_decoder' \in {0, 1}
         /\ decoders' \in Int
         /\ DecodersExact'
BY DEF DecoderInv, open_decoder, decoderVars, DecodersExact

(* Every step keeps the account. *)
LEMMA NextDecoderInv ==
  ASSUME TypeInv, DecoderInv, [Next]_vars
  PROVE  DecoderInv'
<1>0. ExtractTwice \in BOOLEAN
  BY ReaderAssumption
<1>1. CASE close_decoder
  BY <1>1 DEF close_decoder, DecoderInv, DecodersExact
<1>2. CASE UNCHANGED decoderVars /\ (used' = "no" => used = "no")
  BY <1>2 DEF decoderVars, DecoderInv, DecodersExact
<1>3. CASE \E out : open_decoder(out) /\ used' # "no"
               /\ (~ExtractTwice => decoder = "none" /\ inner_decoder = 0)
  BY <1>3, OpenAccounts DEF DecoderInv
<1>4. CASE lha_reader_read
  <2>1. CASE UNCHANGED decoderVars
    BY <1>2, <1>4, <2>1 DEF lha_reader_read
  <2>2. CASE decoder = "none" /\ \E out : open_decoder(out)
    <3>1. ~ExtractTwice => used = "no"
      BY <1>4, <2>2 DEF lha_reader_read, MayRead
    <3>2. QED
      BY <1>3, <1>4, <2>2, <3>1 DEF lha_reader_read, DecoderInv
  <2>3. QED
    BY <1>4, <2>1, <2>2 DEF lha_reader_read
<1>5. CASE lha_reader_check
  <2>1. ~ExtractTwice => decoder = "none" /\ inner_decoder = 0
    BY <1>5 DEF lha_reader_check, MayUse, DecoderInv
  <2>2. UNCHANGED decoderVars \/ \E out : open_decoder(out)
    BY <1>5 DEF lha_reader_check
  <2>3. QED
    BY <1>2, <1>3, <1>5, <2>1, <2>2 DEF lha_reader_check
<1>6. CASE lha_reader_extract
  <2>1. ~ExtractTwice => decoder = "none" /\ inner_decoder = 0
    BY <1>6 DEF lha_reader_extract, MayUse, DecoderInv
  <2>2. HasFile
    BY <1>6 DEF lha_reader_extract
  <2>3. \/ extract_file \/ extract_directory \/ extract_placeholder_symlink
        \/ make_symlink \/ set_directory_metadata
    BY <1>6, <2>2, CurrIsEntry, Zenon
       DEF lha_reader_extract, extract_normal, extract_symlink, HasFile
  <2>4. used' # "no"
    BY <2>3 DEF extract_file, extract_directory, extract_placeholder_symlink,
                make_symlink, set_directory_metadata, Returned
  <2>5. CASE extract_file
    <3>1. \E out : open_decoder(out)
      BY <2>5 DEF extract_file
    <3>2. QED
      BY <1>3, <2>1, <2>4, <3>1
  <2>6. CASE UNCHANGED decoderVars
    BY <1>2, <2>6, <2>4
  <2>7. QED
    BY <2>3, <2>5, <2>6, Zenon DEF extract_directory, extract_placeholder_symlink,
                            make_symlink, set_directory_metadata
<1>7. CASE lha_reader_next_file \/ lha_reader_free
  BY <1>1, <1>7 DEF lha_reader_next_file, lha_reader_free
<1>8. CASE lha_reader_set_dir_policy \/ UNCHANGED vars
  BY <1>2, <1>8 DEF lha_reader_set_dir_policy, vars, clientVars
<1>9. QED
  BY <1>4, <1>5, <1>6, <1>7, <1>8 DEF Next

(* The decoders allocated are always the ones the reader still refers to,  *)
(* for every client that does one thing with each file: moving on to the   *)
(* next file or freeing the reader leaves none behind.                     *)
THEOREM DecodersDoNotLeak == Spec => []DecodersExact
<1>1. Init => LinkInv /\ DecoderInv
  <2>1. Init => DecoderInv
    BY DEF Init, ReaderInit, DecoderInv, DecodersExact
  <2>2. QED
    BY <2>1, InitLinkInv
<1>2. LinkInv /\ DecoderInv /\ [Next]_vars => LinkInv' /\ DecoderInv'
  BY NextLinkInv, NextDecoderInv DEF LinkInv
<1>3. DecoderInv => DecodersExact
  BY DEF DecoderInv
<1>4. QED
  BY <1>1, <1>2, <1>3, PTL DEF Spec

-----------------------------------------------------------------------------
(* The stream position *)

(* The compressed length of a header is a number. *)
LEMMA CLenType ==
  ASSUME TypeInv, NEW h \in 0 .. Len(archive)
  PROVE  CLen(h) \in Nat
<1>1. CASE h = NULL
  BY <1>1 DEF CLen
<1>2. CASE h # NULL
  <2>1. archive[h] \in Entries
    BY <1>2 DEF TypeInv, NULL
  <2>2. QED
    BY <1>2, <2>1, EntryAssumption DEF CLen
<1>3. QED
  BY <1>1, <1>2

(* Reading compressed data moves the position and the count together.      *)
LEMMA ConsumeKeepsAlignInv ==
  ASSUME TypeInv, AlignInv, NEW n \in Nat, lha_basic_reader_read_compressed(n),
         UNCHANGED inputVars
  PROVE  AlignInv'
<1>1. Readable \in Nat /\ CLen(at) \in Nat /\ CLen(at)' = CLen(at)
  <2>1. CLen(at) \in Nat
    BY CLenType DEF TypeInv
  <2>2. at' = at /\ archive' = archive
    BY DEF lha_basic_reader_read_compressed, basicVars, inputVars
  <2>3. QED
    BY <2>1, <2>2 DEF Readable, AlignInv, CLen
<1>2. lastData' = lastData
  BY DEF inputVars
<1>3. CASE UNCHANGED basicVars
  BY <1>1, <1>2, <1>3 DEF AlignInv, Aligned, basicVars
<1>4. CASE /\ b_eof = 0 /\ n <= b_remaining /\ off + n <= Readable
           /\ off' = off + n
           /\ b_remaining' = b_remaining - n
           /\ UNCHANGED <<at, b_curr_file, b_eof>>
  BY <1>1, <1>2, <1>4 DEF AlignInv, Aligned
<1>5. CASE /\ b_eof = 0 /\ n <= b_remaining /\ off + n > Readable
           /\ \E k \in 0 .. Readable - off :
                b_remaining' = b_remaining - (Readable - off - k)
           /\ off' = Readable
           /\ b_eof' = 1
  BY <1>1, <1>2, <1>5 DEF AlignInv, Aligned
<1>6. QED
  BY <1>3, <1>4, <1>5 DEF lha_basic_reader_read_compressed

(* So does every use of the decoder.                                       *)
LEMMA DecodeKeepsAlignInv ==
  ASSUME TypeInv, AlignInv, HasFile, UNCHANGED inputVars,
         \/ UNCHANGED basicVars
         \/ ConsumeSome
         \/ \E ok \in BOOLEAN : do_decode(ok)
  PROVE  AlignInv'
<1>1. CASE UNCHANGED basicVars
  BY <1>1 DEF AlignInv, Aligned, basicVars, inputVars, CLen
<1>2. CASE ConsumeSome
  BY <1>2, ConsumeKeepsAlignInv DEF ConsumeSome, AlignInv
<1>3. CASE \E ok \in BOOLEAN : do_decode(ok)
  <2>1. Curr.need \in Nat
    BY CurrIsEntry, EntryAssumption
  <2>2. QED
    BY <1>2, <1>3, <2>1, ConsumeKeepsAlignInv DEF do_decode
<1>4. QED
  BY <1>1, <1>2, <1>3

(* The basic reader's step to the next header starts the count afresh.     *)
LEMMA NextFileKeepsAlignInv ==
  ASSUME TypeInv, AlignInv, AdvanceInput, UNCHANGED inputVars
  PROVE  AlignInv'
<1>1. CASE UNCHANGED basicVars
  BY <1>1 DEF AlignInv, Aligned, basicVars, inputVars, CLen
<1>2. CASE lha_basic_reader_next_file
  <2> DEFINE o == IF b_curr_file # NULL THEN SkipTo(b_remaining) ELSE off
  <2>1. Readable \in Nat
    BY CLenType DEF Readable, TypeInv, AlignInv
  <2>2. o \in Nat
    BY <2>1 DEF SkipTo, AlignInv
  <2>3. CASE /\ at < lastHeader
             /\ at' = at + 1 /\ off' = 0 /\ b_curr_file' = at + 1
             /\ b_remaining' = CLen(at + 1) /\ b_eof' = 0
    <3>1. at + 1 \in 0 .. Len(archive)
      BY <2>3 DEF TypeInv
    <3>2. CLen(at + 1) \in Nat /\ CLen(at)' = CLen(at + 1)
      BY <2>3, <3>1, CLenType DEF CLen, inputVars
    <3>3. QED
      BY <2>3, <3>2 DEF AlignInv, Aligned, inputVars
  <2>4. CASE b_eof' = 1 /\ off' = o /\ UNCHANGED b_remaining
    BY <2>2, <2>4 DEF AlignInv, Aligned, inputVars
  <2>5. QED
    BY <1>2, <2>3, <2>4 DEF lha_basic_reader_next_file, HeaderAt
<1>3. QED
  BY <1>1, <1>2 DEF AdvanceInput

(* Every step keeps the position aligned.                                  *)
LEMMA NextAlignInv ==
  ASSUME TypeInv, AlignInv, [Next]_vars
  PROVE  AlignInv'
<1>1. CASE lha_reader_next_file
  BY <1>1, NextFileKeepsAlignInv DEF lha_reader_next_file
<1>2. CASE lha_reader_read
  BY <1>2, DecodeKeepsAlignInv DEF lha_reader_read
<1>3. CASE lha_reader_check
  BY <1>3, DecodeKeepsAlignInv DEF lha_reader_check
<1>4. CASE lha_reader_extract
  <2>1. HasFile /\ UNCHANGED inputVars
    BY <1>4 DEF lha_reader_extract
  <2>2. \/ extract_file \/ extract_directory \/ extract_placeholder_symlink
        \/ make_symlink \/ set_directory_metadata
    BY <1>4, <2>1, CurrIsEntry, Zenon
       DEF lha_reader_extract, extract_normal, extract_symlink, HasFile
  <2>3. CASE extract_file
    <3>1. \/ UNCHANGED basicVars \/ ConsumeSome
          \/ \E ok \in BOOLEAN : do_decode(ok)
      BY <2>3, Zenon DEF extract_file
    <3>2. QED
      BY <2>1, <3>1, DecodeKeepsAlignInv
  <2>4. CASE UNCHANGED basicVars
    BY <2>1, <2>4, DecodeKeepsAlignInv
  <2>5. QED
    BY <2>2, <2>3, <2>4, Zenon DEF extract_directory, extract_placeholder_symlink,
                            make_symlink, set_directory_metadata
<1>5. CASE lha_reader_free
  BY <1>5 DEF lha_reader_free, AlignInv, Aligned, inputVars
<1>6. CASE lha_reader_set_dir_policy \/ UNCHANGED vars
  BY <1>6, Zenon DEF lha_reader_set_dir_policy, vars, AlignInv, Aligned, inputVars,
              basicVars, CLen
<1>7. QED
  BY <1>1, <1>2, <1>3, <1>4, <1>5, <1>6 DEF Next

(* In every behaviour, whatever part of a file's data was read, checked,   *)
(* extracted or left alone, the next skip ends exactly at the next header. *)
THEOREM StreamStaysAligned == Spec => []Aligned
<1>1. Init => LinkInv /\ AlignInv
  <2>1. ASSUME Init PROVE AlignInv
    <3>1. lastHeader \in 0 .. Len(archive) /\ TypeInv
      BY <2>1, InitLinkInv, Zenon DEF Init, BasicInit, LinkInv
    <3>2. lastData \in Nat
      BY <2>1, <3>1, CLenType DEF Init, BasicInit
    <3>3. QED
      BY <2>1, <3>2 DEF Init, BasicInit, AlignInv, Aligned
  <2>2. QED
    BY <2>1, InitLinkInv
<1>2. LinkInv /\ AlignInv /\ [Next]_vars => LinkInv' /\ AlignInv'
  BY NextLinkInv, NextAlignInv DEF LinkInv
<1>3. AlignInv => Aligned
  BY DEF AlignInv
<1>4. QED
  BY <1>1, <1>2, <1>3, PTL DEF Spec
=============================================================================
