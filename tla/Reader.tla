------------------------------ MODULE Reader ------------------------------
(***************************************************************************)
(* lib/lha_reader.c: iteration over the files of an archive and their      *)
(* extraction, on top of BasicReader (the stream of headers) and Arch (the *)
(* file system).  The library's client calls the actions of Next.          *)
(*                                                                         *)
(* Directories wait for their metadata on dir_stack and dangerous symbolic *)
(* links for their creation on deferred_symlinks; both are linked lists    *)
(* through the one _next field of the file header.                         *)
(***************************************************************************)
EXTENDS BasicReader, Arch

CONSTANTS
  ExtractTwice,  \* the client may use a file again that it has extracted
  PolicyAnyTime  \* the client may change the policy between any two calls

(* A header: kind "file", "dir" or "link"; target the path it extracts to; *)
(* dir the path in the header, <<>> when it has none, which target leaves  *)
(* out under the -i option of the command line; len what                   *)
(* file_header_path_len computes, of which all that matters is that a path *)
(* is longer than the ones that lead to it; danger what                    *)
(* is_dangerous_symlink computes; readonly the permissions; codec what     *)
(* lha_basic_reader_decode and lha_macbinary_passthrough make of it; good  *)
(* whether its data decodes to the length and CRC in the header.           *)
ASSUME ReaderAssumption ==
  /\ ExtractTwice \in BOOLEAN /\ PolicyAnyTime \in BOOLEAN
  /\ \A e \in Entries :
       /\ e.kind \in {"file", "dir", "link"}
       /\ e.target \in Paths
       /\ IF e.kind = "dir" THEN e.dir = e.target
          ELSE e.dir = Parent(e.target) \/ Len(e.target) = 1
       /\ e.danger \in BOOLEAN /\ (e.danger => e.kind = "link")
       /\ e.readonly \in BOOLEAN /\ e.good \in BOOLEAN
       /\ e.codec \in {"plain", "mac", "macshort", "unknown"}
       /\ e.kind # "file" => e.codec = "unknown" /\ e.clen = 0
       /\ e.len \in Nat
  /\ \A d, e \in Entries : ProperPrefix(d.target, e.target) => d.len < e.len

VARIABLES
  curr_file, curr_file_type,    \* LHAReader
  decoder, inner_decoder,       \* LHAReader: which decoders are open
  dir_policy,                   \* LHAReader
  dir_stack, deferred_symlinks, \* LHAReader: first header of each list
  next,                         \* LHAFileHeader._next of each header
  decoders,                     \* number of decoders allocated, not freed
  arch,                         \* the file system
  used,                         \* what the client has done with curr_file
  skipped,                      \* history: a file was left unextracted
  deferred                      \* history: headers ever put on deferred_symlinks

listVars    == <<dir_stack, deferred_symlinks, next>>
decoderVars == <<decoder, inner_decoder, decoders>>
readerVars  == <<curr_file, curr_file_type, dir_policy>>
clientVars  == <<used, skipped, deferred>>
vars == <<inputVars, basicVars, refs, readerVars, listVars, decoderVars, arch,
          clientVars>>

CurrFileTypes == {"START", "NORMAL", "FAKE_DIR", "DEFERRED_SYMLINK", "EOF", "FREED"}
Policies      == {"PLAIN", "END_OF_DIR", "END_OF_FILE"}

Hdr(h) == archive[h]
Curr   == archive[curr_file]

-----------------------------------------------------------------------------
(* Linked lists.  Chain(link, head, n)[k] is the k-th node after head along *)
(* link; a list of headers without a cycle ends within Len(archive) steps. *)
Chain(link, head, n) ==
  LET node[k \in 0 .. n] ==
        IF k = 0 THEN head
        ELSE IF node[k - 1] = NULL THEN NULL ELSE link[node[k - 1]]
  IN  node

Walk(head) == Chain(next, head, Len(archive) + 1)

OnList(head) ==
  {Walk(head)[k] : k \in 0 .. Len(archive) + 1} \ {NULL}

-----------------------------------------------------------------------------
(* Decoders *)

(* Mutant: the inner decoder of a MacBinary passthrough is forgotten. *)
close_decoder_OuterOnly ==
  /\ decoder' = "none"
  /\ inner_decoder' = 0
  /\ decoders' = decoders - (IF decoder = "none" THEN 0 ELSE 1)

(* The decoder, and the inner decoder unless it is the same one, go. *)
close_decoder ==
  /\ decoder' = "none"
  /\ inner_decoder' = 0
  /\ decoders' = decoders - (IF decoder = "none" THEN 0 ELSE 1)
                         - (IF decoder = "inner" THEN 0 ELSE inner_decoder)

(* Nothing of the file's data has been consumed and none of it is missing. *)
DataIntact == b_eof = 0 /\ off = 0 /\ Curr.need <= Readable

(* "none": no decoder at all; "short": the inner one alone, the MacBinary  *)
(* header could not be read.                                               *)
OpenOutcomes ==
  CASE curr_file_type # "NORMAL"  -> {"notNormal"}
    [] Curr.codec = "unknown"     -> {"none"}
    [] Curr.codec = "macshort"    -> {"short"}
    [] Curr.codec = "mac"         -> {"ok"} \cup (IF DataIntact THEN {} ELSE {"short"})
    [] OTHER                      -> {"ok"}

open_decoder(out) ==
  CASE out = "notNormal" -> UNCHANGED decoderVars
    [] out = "none"  -> inner_decoder' = 0 /\ UNCHANGED <<decoder, decoders>>
    [] out = "short" -> /\ inner_decoder' = 1
                        /\ decoder' = "none"
                        /\ decoders' = decoders + 1
    [] OTHER -> /\ inner_decoder' = 1
                /\ decoder' = IF Curr.codec = "mac" THEN "mac" ELSE "inner"
                /\ decoders' = decoders + (IF Curr.codec = "mac" THEN 2 ELSE 1)

(* Data consumed by a decode that stops early or runs to its end. *)
ConsumeSome == \E n \in 0 .. b_remaining : lha_basic_reader_read_compressed(n)

(* do_decode: success means that the length and the CRC agree. *)
do_decode(ok) ==
  \/ ok /\ Curr.good /\ DataIntact /\ lha_basic_reader_read_compressed(Curr.need)
  \/ ~ok /\ ~(Curr.good /\ DataIntact) /\ ConsumeSome

-----------------------------------------------------------------------------
(* lha_reader_next_file *)

(* The header is in, or is, the directory. *)
Within(h, d) ==
  Hdr(d).dir = Hdr(h).dir \/ ProperPrefix(Hdr(d).dir, Hdr(h).dir)

(* Mutant: only the policy decides, at the end of the input too. *)
end_of_top_dir_PolicyOnly(input) ==
  /\ dir_stack # NULL
  /\ CASE dir_policy = "PLAIN"       -> TRUE
       [] dir_policy = "END_OF_FILE" -> FALSE
       [] dir_policy = "END_OF_DIR"  -> ~(input # NULL /\ Within(input, dir_stack))

(* Mutant: a file of a subdirectory ends the directory. *)
end_of_top_dir_Exact(input) ==
  /\ dir_stack # NULL
  /\ input # NULL =>
       CASE dir_policy = "PLAIN"       -> TRUE
         [] dir_policy = "END_OF_FILE" -> FALSE
         [] dir_policy = "END_OF_DIR"  -> Hdr(input).dir # Hdr(dir_stack).dir

(* The directory on top of the stack is over, given the header the basic   *)
(* reader is at.  A header without a path (<<>>) is inside no directory.   *)
end_of_top_dir(input) ==
  /\ dir_stack # NULL
  /\ input # NULL =>
       CASE dir_policy = "PLAIN"       -> TRUE
         [] dir_policy = "END_OF_FILE" -> FALSE
         [] dir_policy = "END_OF_DIR"  -> ~Within(input, dir_stack)

(* Mutant: the input advances while directories are being popped. *)
AdvanceInput_Always == lha_basic_reader_next_file

(* Don't advance until the fake directories are done. *)
AdvanceInput ==
  \/ /\ curr_file_type \in {"START", "NORMAL"}
     /\ lha_basic_reader_next_file
  \/ /\ curr_file_type \notin {"START", "NORMAL"}
     /\ refs' = IF curr_file_type = "FAKE_DIR"
                THEN lha_file_header_free(refs, curr_file) ELSE refs
     /\ UNCHANGED basicVars

(* Mutant: the directory stays on the stack. *)
PopDirectory_Keeps ==
  /\ end_of_top_dir(b_curr_file')
  /\ curr_file' = dir_stack
  /\ curr_file_type' = "FAKE_DIR"
  /\ UNCHANGED listVars

PopDirectory ==
  /\ end_of_top_dir(b_curr_file')
  /\ curr_file' = dir_stack
  /\ curr_file_type' = "FAKE_DIR"
  /\ dir_stack' = next[dir_stack]
  /\ UNCHANGED <<deferred_symlinks, next>>

TakeInput ==
  /\ ~end_of_top_dir(b_curr_file')
  /\ b_curr_file' # NULL
  /\ curr_file' = b_curr_file'
  /\ curr_file_type' = "NORMAL"
  /\ UNCHANGED listVars

(* Mutant: the header's _next is cleared before it is followed. *)
TakeDeferred_ClearsFirst ==
  /\ ~end_of_top_dir(b_curr_file')
  /\ b_curr_file' = NULL
  /\ deferred_symlinks # NULL
  /\ curr_file' = deferred_symlinks
  /\ curr_file_type' = "DEFERRED_SYMLINK"
  /\ deferred_symlinks' = NULL
  /\ next' = [next EXCEPT ![deferred_symlinks] = NULL]
  /\ UNCHANGED dir_stack

TakeDeferred ==
  /\ ~end_of_top_dir(b_curr_file')
  /\ b_curr_file' = NULL
  /\ deferred_symlinks # NULL
  /\ curr_file' = deferred_symlinks
  /\ curr_file_type' = "DEFERRED_SYMLINK"
  /\ deferred_symlinks' = next[deferred_symlinks]
  /\ next' = [next EXCEPT ![deferred_symlinks] = NULL]
  /\ UNCHANGED dir_stack

EndOfInput ==
  /\ ~end_of_top_dir(b_curr_file')
  /\ b_curr_file' = NULL
  /\ deferred_symlinks = NULL
  /\ curr_file' = NULL
  /\ curr_file_type' = "EOF"
  /\ UNCHANGED listVars

lha_reader_next_file ==
  /\ curr_file_type \notin {"EOF", "FREED"}
  /\ close_decoder
  /\ AdvanceInput
  /\ PopDirectory \/ TakeInput \/ TakeDeferred \/ EndOfInput
  /\ used' = "no"
  /\ skipped' = IF curr_file_type # "START" /\ used \notin {"yes", "failed"} THEN 1 ELSE skipped
  /\ UNCHANGED <<inputVars, dir_policy, arch, deferred>>

-----------------------------------------------------------------------------
(* lha_reader_read and lha_reader_check *)

(* A client reads a file until a read returns nothing, and does one thing  *)
(* with each file it is given.                                             *)
MayRead == used = "no" \/ (used = "read" /\ decoder # "none") \/ ExtractTwice
MayUse  == used = "no" \/ ExtractTwice

HasFile == curr_file_type \in {"NORMAL", "FAKE_DIR", "DEFERRED_SYMLINK"}

lha_reader_read ==
  /\ HasFile /\ MayRead
  /\ \/ /\ decoder = "none"
        /\ \E out \in OpenOutcomes :
             /\ open_decoder(out)
             /\ IF out \in {"ok", "short"} THEN ConsumeSome ELSE UNCHANGED basicVars
     \/ /\ decoder # "none"
        /\ ConsumeSome
        /\ UNCHANGED decoderVars
  /\ used' = "read"
  /\ UNCHANGED <<inputVars, refs, readerVars, listVars, arch, skipped, deferred>>

(* used' tells what it returns: directories need no check. *)
lha_reader_check ==
  /\ HasFile /\ MayUse
  /\ IF curr_file_type = "NORMAL" /\ Curr.kind = "file"
     THEN \E out \in OpenOutcomes :
            /\ open_decoder(out)
            /\ CASE out = "ok"    -> \E ok \in BOOLEAN :
                                       do_decode(ok) /\ used' = IF ok THEN "checked" ELSE "bad"
                 [] out = "short" -> ConsumeSome /\ used' = "bad"
                 [] OTHER         -> used' = "bad" /\ UNCHANGED basicVars
     ELSE /\ used' = IF curr_file_type = "NORMAL" THEN "checked" ELSE "bad"
          /\ UNCHANGED <<decoderVars, basicVars>>
  /\ UNCHANGED <<inputVars, refs, readerVars, listVars, arch, skipped, deferred>>

-----------------------------------------------------------------------------
(* lha_reader_extract *)

(* What lha_reader_extract returns. *)
Returned(ok) == used' = IF ok THEN "yes" ELSE "failed"

(* Without a decoder no output file is created.  A write to the output     *)
(* file may fail and end the decoding early.                               *)
extract_file ==
  \E out \in OpenOutcomes :
    /\ open_decoder(out)
    /\ CASE out = "ok" ->
              \E created \in CreateOutcomes(arch, Curr.target) :
                \/ /\ created = "ok"
                   /\ \E ok \in BOOLEAN :
                        /\ do_decode(ok)
                        /\ Returned(ok)
                        /\ arch' = lha_arch_fopen(arch, Curr.target,
                                      IF ok THEN "file" ELSE "partial", created)
                \/ /\ created = "ok" /\ Faults
                   /\ ConsumeSome
                   /\ Returned(FALSE)
                   /\ arch' = lha_arch_fopen(arch, Curr.target, "partial", created)
                \/ /\ created # "ok"
                   /\ Returned(FALSE)
                   /\ (IF Curr.codec = "mac" THEN ConsumeSome ELSE UNCHANGED basicVars)
                   /\ arch' = lha_arch_fopen(arch, Curr.target, "file", created)
         [] out = "short" -> ConsumeSome /\ Returned(FALSE) /\ UNCHANGED arch
         [] OTHER         -> Returned(FALSE) /\ UNCHANGED <<basicVars, arch>>
    /\ UNCHANGED <<refs, listVars, deferred>>

(* A directory that was created is owed its metadata. *)
Owe(s, p) == IF ThroughLink(s, p) THEN s ELSE [s EXCEPT !.meta[p] = "owed"]

(* Mutant: the stack holds no reference of its own. *)
PushDirectory_NoRef ==
  /\ next' = [next EXCEPT ![curr_file] = dir_stack]
  /\ dir_stack' = curr_file
  /\ UNCHANGED refs

PushDirectory ==
  /\ refs' = lha_file_header_add_ref(refs, curr_file)
  /\ next' = [next EXCEPT ![curr_file] = dir_stack]
  /\ dir_stack' = curr_file

extract_directory ==
  LET p == Curr.target IN
  /\ \E out \in MkdirOutcomes(arch, p) :
       LET made == lha_arch_mkdir(arch, p, out) IN
       \/ /\ out = "failed"
          /\ \E there \in lha_arch_exists(arch, p) : Returned(there = "dir")
          /\ UNCHANGED <<arch, refs, listVars>>
       \/ /\ out = "ok" /\ dir_policy = "PLAIN"
          /\ arch' = ApplyMetadata(made, p, Curr.readonly)
          /\ Returned(TRUE)
          /\ UNCHANGED <<refs, listVars>>
       \/ /\ out = "ok" /\ dir_policy # "PLAIN"
          /\ arch' = Owe(made, p)
          /\ PushDirectory
          /\ Returned(TRUE)
          /\ UNCHANGED deferred_symlinks
  /\ UNCHANGED <<basicVars, decoderVars, deferred>>

(* Mutant: new links go to the front of the list. *)
InsertDeferred_Unsorted ==
  /\ next' = [next EXCEPT ![curr_file] = deferred_symlinks]
  /\ deferred_symlinks' = curr_file

Longer(h) == Hdr(h).len > Curr.len

(* The loop passes over the longer paths at the front of the list; the     *)
(* header goes in where it stops.                                          *)
InsertDeferred ==
  \E k \in 0 .. Len(archive) : \E path \in [1 .. k -> Headers] :
    LET rover(i) == IF i = 0 THEN deferred_symlinks ELSE next[path[i]] IN
    /\ \A i \in 1 .. k : path[i] = rover(i - 1) /\ Longer(path[i])
    /\ rover(k) # NULL => ~Longer(rover(k))
    /\ IF k = 0
       THEN /\ next' = [next EXCEPT ![curr_file] = deferred_symlinks]
            /\ deferred_symlinks' = curr_file
       ELSE /\ next' = [next EXCEPT ![curr_file] = next[path[k]], ![path[k]] = curr_file]
            /\ UNCHANGED deferred_symlinks

extract_placeholder_symlink ==
  \E out \in CreateOutcomes(arch, Curr.target) :
    /\ arch' = lha_arch_fopen(arch, Curr.target, "placeholder", out)
    /\ Returned(out = "ok")
    /\ \/ /\ out = "ok"
          /\ InsertDeferred
          /\ refs' = lha_file_header_add_ref(refs, curr_file)
          /\ deferred' = deferred \cup {curr_file}
       \/ out # "ok" /\ UNCHANGED <<deferred_symlinks, next, refs, deferred>>
    /\ UNCHANGED <<basicVars, decoderVars, dir_stack>>

make_symlink ==
  /\ \E out \in CreateOutcomes(arch, Curr.target) :
       /\ arch' = lha_arch_symlink(arch, Curr.target,
                                   IF Curr.danger THEN "dlink" ELSE "link", out)
       /\ Returned(out = "ok")
  /\ UNCHANGED <<basicVars, decoderVars, refs, listVars, deferred>>

(* Mutant: no link is held back. *)
extract_symlink_AtOnce == make_symlink

extract_symlink ==
  IF curr_file_type = "NORMAL" /\ Curr.danger
  THEN extract_placeholder_symlink
  ELSE make_symlink

extract_normal ==
  CASE Curr.kind = "file" -> extract_file
    [] Curr.kind = "link" -> extract_symlink
    [] Curr.kind = "dir"  -> extract_directory

set_directory_metadata ==
  /\ arch' = ApplyMetadata(arch, Curr.target, Curr.readonly)
  /\ Returned(TRUE)
  /\ UNCHANGED <<basicVars, decoderVars, refs, listVars, deferred>>

lha_reader_extract ==
  /\ HasFile /\ MayUse
  /\ CASE curr_file_type = "NORMAL"           -> extract_normal
       [] curr_file_type = "FAKE_DIR"         -> set_directory_metadata
       [] curr_file_type = "DEFERRED_SYMLINK" -> extract_symlink
  /\ UNCHANGED <<inputVars, readerVars, skipped>>

-----------------------------------------------------------------------------
lha_reader_set_dir_policy ==
  /\ curr_file_type = "START" \/ (PolicyAnyTime /\ curr_file_type # "FREED")
  /\ dir_policy' \in Policies
  /\ UNCHANGED <<inputVars, basicVars, refs, curr_file, curr_file_type, listVars,
                 decoderVars, arch, clientVars>>

(* The references of the directories on the stack and the one of the basic *)
(* reader go; deferred_symlinks is left as it is.                          *)
lha_reader_free ==
  /\ curr_file_type # "FREED"
  /\ close_decoder
  /\ refs' = [h \in Headers |->
                refs[h] - (IF h \in OnList(dir_stack) THEN 1 ELSE 0)
                        - (IF h = b_curr_file THEN 1 ELSE 0)]
  /\ dir_stack' = NULL
  /\ b_curr_file' = NULL
  /\ curr_file' = NULL
  /\ curr_file_type' = "FREED"
  /\ UNCHANGED <<inputVars, at, off, b_remaining, b_eof, dir_policy,
                 deferred_symlinks, next, arch, clientVars>>

-----------------------------------------------------------------------------
(* What may be there before: nothing of it was made by the reader. *)
Trees ==
  {[fs |-> tree, meta |-> [p \in Paths |-> "none"], ro |-> {}] :
     tree \in {t \in [Paths -> {"none", "dir", "file", "link"}] : IsTree(t)}}

ReaderInit ==
  /\ curr_file = NULL
  /\ curr_file_type = "START"
  /\ decoder = "none"
  /\ inner_decoder = 0
  /\ dir_policy = "END_OF_DIR"
  /\ dir_stack = NULL
  /\ deferred_symlinks = NULL
  /\ next = [h \in Headers |-> NULL]
  /\ decoders = 0
  /\ arch \in Trees
  /\ used = "no"
  /\ skipped = 0
  /\ deferred = {}

Init == BasicInit /\ ReaderInit

Next ==
  \/ lha_reader_next_file
  \/ lha_reader_read
  \/ lha_reader_check
  \/ lha_reader_extract
  \/ lha_reader_set_dir_policy
  \/ lha_reader_free

Spec == Init /\ [][Next]_vars

(* The client keeps asking for the next file, as extract_archive, dry_run  *)
(* and the other loops of src/extract.c do.                                *)
FairSpec == Spec /\ WF_vars(lha_reader_next_file)

-----------------------------------------------------------------------------
(* Properties *)

(* Every variable stays in its type; in particular the list pointers are   *)
(* NULL or a header of the archive, and no count drops below zero.         *)
TypeOK ==
  /\ BasicTypeOK
  /\ curr_file \in 0 .. Len(archive)
  /\ curr_file_type \in CurrFileTypes
  /\ decoder \in {"none", "inner", "mac"}
  /\ inner_decoder \in {0, 1}
  /\ dir_policy \in Policies
  /\ dir_stack \in 0 .. Len(archive)
  /\ deferred_symlinks \in 0 .. Len(archive)
  /\ next \in [Headers -> 0 .. Len(archive)]
  /\ decoders \in Nat
  /\ arch \in FileSystem
  /\ used \in {"no", "read", "checked", "bad", "yes", "failed"}
  /\ skipped \in {0, 1}
  /\ deferred \subseteq Headers

(* extract_symlink: a dangerous link exists only once all files and        *)
(* directories of the archive are behind: nothing of the archive is ever   *)
(* extracted while there is one to write through.                          *)
DangerousLinksLast ==
  (\E p \in Paths : arch.fs[p] = "dlink")
    => curr_file_type \in {"DEFERRED_SYMLINK", "EOF", "FREED"}

(* extract_placeholder_symlink: when a deferred link is about to be made,  *)
(* no dangerous link has been made at a path that leads to it ("so that    *)
(* one symbolic link cannot depend on another").                           *)
LinkNotThroughLink ==
  curr_file_type = "DEFERRED_SYMLINK" =>
    \A q \in Paths : ProperPrefix(q, Curr.target) => arch.fs[q] # "dlink"

(* The one _next field of a header serves both lists, so they must never   *)
(* share a header nor contain a cycle, whatever is extracted in between.   *)
ListsSeparate ==
  /\ Walk(dir_stack)[Len(archive) + 1] = NULL
  /\ Walk(deferred_symlinks)[Len(archive) + 1] = NULL
  /\ OnList(dir_stack) \cap OnList(deferred_symlinks) = {}

(* Every header the reader can still reach is referenced.  With the counts *)
(* exact, a header is neither freed while in use nor, except for the ones  *)
(* ever put on deferred_symlinks, kept when it no longer is.               *)
RefsExact ==
  curr_file_type # "FREED" =>
    \A h \in Headers :
      refs[h] = (IF h = b_curr_file THEN 1 ELSE 0)
                + (IF h \in OnList(dir_stack) THEN 1 ELSE 0)
                + (IF curr_file_type = "FAKE_DIR" /\ h = curr_file THEN 1 ELSE 0)
                + (IF h \in deferred THEN 1 ELSE 0)

(* The reader's own data hang together: fields in range, the two lists     *)
(* apart, and one reference for each use of a header.                      *)
WellFormed == TypeOK /\ ListsSeparate /\ RefsExact

(* open_decoder and close_decoder: the decoders allocated are the ones the *)
(* reader still knows, and none once it has moved on.                      *)
DecodersExact ==
  ~ExtractTwice =>
    decoders = (IF decoder = "none" THEN 0 ELSE 1)
               + (IF decoder = "inner" THEN 0 ELSE inner_decoder)

(* lha_reader_next_file: when the end is reported and everything it gave   *)
(* was extracted, every directory that was created has had its metadata    *)
(* applied, even when the archive is cut off in the middle.                *)
EveryDirGetsMetadata ==
  curr_file_type = "EOF" /\ skipped = 0 =>
    \A p \in Paths : arch.meta[p] # "owed"

(* The contents of each directory follow it without a gap. *)
Contiguous ==
  \A d \in Headers : Hdr(d).kind = "dir" =>
    \A h \in Headers : h > d /\ Within(h, d) =>
      \A j \in d .. h : Within(j, d)

(* end_of_top_dir: a directory is given back for its metadata only when    *)
(* nothing more will be created in it: under END_OF_FILE always, under     *)
(* END_OF_DIR when the archive keeps each directory's contents together.   *)
(* The exception are directories that hold a deferred link.                *)
MetadataLast ==
  ~PolicyAnyTime /\ (dir_policy = "END_OF_FILE"
                       \/ (dir_policy = "END_OF_DIR" /\ Contiguous)) =>
    \A p \in Paths : arch.meta[p] = "stale" =>
      \E h \in deferred : Parent(Hdr(h).target) = p

(* extract_placeholder_symlink: a placeholder is never forgotten: its link *)
(* is still to come, unless the directory it is in has become read-only.   *)
PlaceholdersPending ==
  skipped = 0 /\ ~Faults /\ curr_file_type # "FREED" =>
    \A p \in Paths : arch.fs[p] = "placeholder" =>
      \/ \E h \in OnList(deferred_symlinks) : Hdr(h).target = p
      \/ curr_file_type = "DEFERRED_SYMLINK" /\ Curr.target = p
      \/ Parent(p) \in arch.ro

(* lha_reader.c, LHAReader.deferred_symlinks: "placeholder" files are       *)
(* created in place of the links "and the symbolic links created at the end *)
(* of extraction": when all was extracted, no placeholder is left.         *)
AllLinksMade ==
  curr_file_type = "EOF" /\ skipped = 0 /\ ~Faults =>
    \A p \in Paths : arch.fs[p] # "placeholder"

(* lha_reader_next_file gets to the end of every archive, damaged ones     *)
(* included: it never gives the same things for ever.                      *)
ReachesEnd == <>(curr_file_type \in {"EOF", "FREED"})

(* The iteration is the abstract one. *)
Iteration == INSTANCE ReaderIteration WITH
  pathLen   <- [h \in Headers |-> Hdr(h).len],
  phase     <- CASE curr_file_type = "DEFERRED_SYMLINK" -> "links"
                 [] curr_file_type = "EOF"   -> "end"
                 [] curr_file_type = "FREED" -> "freed"
                 [] OTHER -> "files",
  pos       <- CASE curr_file_type = "FREED" -> 0
                 [] curr_file_type = "FAKE_DIR" /\ b_curr_file # NULL -> at - 1
                 [] OTHER -> at,
  given     <- CASE curr_file_type = "NORMAL"   -> <<"file", curr_file>>
                 [] curr_file_type = "FAKE_DIR" -> <<"directory", curr_file>>
                 [] curr_file_type = "DEFERRED_SYMLINK" -> <<"link", curr_file>>
                 [] OTHER -> <<"nothing", 0>>,
  owedDirs  <- OnList(dir_stack),
  owedLinks <- OnList(deferred_symlinks)

(* lha_reader_next_file gives exactly what ReaderIteration allows: every   *)
(* header once and in order, every directory created and every link held   *)
(* back once more, the links last and longest path first.                  *)
Iterates == Iteration!Spec
=============================================================================
