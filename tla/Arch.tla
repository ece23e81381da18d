------------------------------- MODULE Arch -------------------------------
(***************************************************************************)
(* The file system as the extractor uses it: lib/lha_arch_unix.c and the   *)
(* system calls behind it.  A path is a sequence of names relative to the  *)
(* directory extracted into, which is itself no member of Paths and is     *)
(* always writable.                                                        *)
(*                                                                         *)
(* A file system s is a record: s.fs is what is at each path, s.meta how   *)
(* far the metadata of each directory has got and s.ro the directories     *)
(* whose permissions forbid changing their contents.  A call is an         *)
(* operator giving the set of its possible outcomes and one giving the     *)
(* file system it leaves behind.                                           *)
(*                                                                         *)
(* What a symbolic link points to lies outside the modelled tree: a call   *)
(* whose path runs through a link may succeed or fail and changes nothing  *)
(* inside the tree.                                                        *)
(***************************************************************************)
EXTENDS Integers, Sequences

CONSTANTS
  Paths,    \* the paths of the modelled tree
  Faults    \* whether system calls may fail for reasons of their own


Links == {"link", "dlink"}          \* harmless and dangerous symbolic links
Kinds == {"none", "dir", "file", "partial", "placeholder"} \cup Links

(* "none": not created by extract_directory; "owed": created, metadata not *)
(* applied; "set": applied; "stale": the directory has changed since.      *)
MetaStates == {"none", "owed", "set", "stale"}

FileSystem == [fs : [Paths -> Kinds], meta : [Paths -> MetaStates],
               ro : SUBSET Paths]

Parent(p) == SubSeq(p, 1, Len(p) - 1)

(* The directories that lead to a path belong to the tree too. *)
ASSUME ArchAssumption ==
  /\ Paths \subseteq Seq(STRING) /\ Faults \in BOOLEAN
  /\ \A p \in Paths : Len(p) = 1 \/ (Len(p) > 1 /\ Parent(p) \in Paths)

ProperPrefix(q, p) == Len(q) < Len(p) /\ q = SubSeq(p, 1, Len(q))

ThroughLink(s, p) == \E q \in Paths : ProperPrefix(q, p) /\ s.fs[q] \in Links

(* It is a tree: whatever leads to something that exists is a directory. *)
IsTree(fs) ==
  \A p, q \in Paths : fs[p] # "none" /\ ProperPrefix(q, p) => fs[q] = "dir"

(* The directory that holds p exists and lets the caller change it. *)
Writable(s, p) ==
  Len(p) = 1 \/ (Parent(p) \in Paths /\ s.fs[Parent(p)] = "dir"
                   /\ Parent(p) \notin s.ro)

(* Adding or removing an entry resets the modification time of the         *)
(* directory that holds it, undoing what was set from the archive.         *)
Touched(s, p) ==
  [q \in Paths |->
     IF q = Parent(p) /\ s.meta[q] = "set" THEN "stale" ELSE s.meta[q]]

-----------------------------------------------------------------------------
(* mkdir: fails on anything that already exists. *)
MkdirOutcomes(s, p) ==
  IF ThroughLink(s, p) THEN {"ok", "failed"}
  ELSE (IF Writable(s, p) /\ s.fs[p] = "none" THEN {"ok"} ELSE {"failed"})
         \cup (IF Faults THEN {"failed"} ELSE {})

lha_arch_mkdir(s, p, out) ==
  IF out = "ok" /\ ~ThroughLink(s, p)
  THEN [fs |-> [s.fs EXCEPT ![p] = "dir"], meta |-> Touched(s, p), ro |-> s.ro]
  ELSE s

(* unlink, then create exclusively: only a directory is never replaced.    *)
(* "lost": the old file is gone and the new one could not be set up.       *)
CreateOutcomes(s, p) ==
  IF ThroughLink(s, p) THEN {"ok", "failed"}
  ELSE IF Writable(s, p) /\ s.fs[p] # "dir"
  THEN {"ok"} \cup (IF Faults THEN {"lost"} ELSE {})
  ELSE {"failed"}

Create(s, p, kind, out) ==
  IF out = "failed" \/ ThroughLink(s, p) THEN s
  ELSE [fs |-> [s.fs EXCEPT ![p] = IF out = "ok" THEN kind ELSE "none"],
        meta |-> Touched(s, p), ro |-> s.ro]

lha_arch_fopen(s, p, kind, out)   == Create(s, p, kind, out)
lha_arch_symlink(s, p, kind, out) == Create(s, p, kind, out)

(* stat, which follows links. *)
lha_arch_exists(s, p) ==
  IF ThroughLink(s, p) \/ s.fs[p] \in Links THEN {"none", "error", "dir", "file"}
  ELSE IF \E q \in Paths : ProperPrefix(q, p) /\ s.fs[q] \notin {"none", "dir"}
  THEN {"error"}
  ELSE {CASE s.fs[p] = "none" -> "none" [] s.fs[p] = "dir" -> "dir"
          [] OTHER -> "file"}

(* utime, chown and chmod on a directory: what the header says is in force *)
(* from now on.  On a path that is no directory they have no effect here.  *)
ApplyMetadata(s, p, readonly) ==
  IF s.fs[p] = "dir" /\ ~ThroughLink(s, p)
  THEN [fs |-> s.fs, meta |-> [s.meta EXCEPT ![p] = "set"],
        ro |-> IF readonly THEN s.ro \cup {p} ELSE s.ro \ {p}]
  ELSE s
=============================================================================
