------------------------------ MODULE Extract ------------------------------
(***************************************************************************)
(* The lha command: src/extract.c, the loops of src/list.c and src/main.c, *)
(* and lha_filter_next_file of src/filter.c, as the client of Reader.      *)
(*                                                                         *)
(* Which headers the filters match is chosen once (Glob models match_glob).*)
(* Paths are relative to the directory that is extracted to (-w), which is *)
(* there.  With -i (use_path = 0) the target of an entry is its file name  *)
(* alone.                                                                  *)
(***************************************************************************)
EXTENDS Reader, Options

CONSTANT Commands  \* the arguments before the archive: none or a command

ASSUME CommandAssumption ==
  Commands \subseteq Seq(Seq(STRING)) /\ \A c \in Commands : Len(c) <= 1

VARIABLES
  args,              \* of Commands
  mode,              \* ProgramMode
  options,           \* LHAOptions
  wanted,            \* the headers that match the filters
  todo,              \* where the command is: "open", "next", "file", "prompt",
                     \* "parents", "extract", "read", "end", "exit", "abort"
  checked,           \* make_parent_directories: parents checked so far
  result,            \* what the command returns
  old,               \* history: the files from before that are still there
  agreed,            \* history: the paths whose overwriting the answers allow
  replaced           \* history: <<path, kind of entry>> for each old file gone

optionVars  == <<args, mode, wanted>>
historyVars == <<old, agreed, replaced>>
cmdVars == <<optionVars, historyVars, options, todo, checked, result>>
allVars == <<vars, cmdVars>>

IsDir  == Curr.kind = "dir"
IsFile == Curr.kind = "file"

-----------------------------------------------------------------------------
(* A turn of the loop of lha_filter_next_file. *)
lha_filter_next_file ==
  /\ todo = "next"
  /\ lha_reader_next_file
  /\ todo' = CASE curr_file' = NULL      -> "end"
               [] curr_file' \in wanted  -> "file"
               [] OTHER                  -> "next"
  /\ UNCHANGED <<optionVars, options, checked, result, historyVars>>

(* list_file_contents prints the header only. *)
list_file_contents ==
  /\ todo = "file" /\ mode \in {"LIST", "LIST_VERBOSE"}
  /\ todo' = "next"
  /\ UNCHANGED <<vars, optionVars, options, checked, result, historyVars>>

(* Mutant: the result is that of the last file. *)
Failed_LastOnly(ok) == result' = IF ok THEN 1 ELSE 0

(* One failure is enough for the command to fail. *)
Failed(ok) == result' = IF ok THEN result ELSE 0

(* test_archived_file_crc: a dry run prints the name only. *)
test_archived_file_crc ==
  /\ todo = "file" /\ mode = "CRC_CHECK"
  /\ IF options.dry_run THEN UNCHANGED <<vars, result>>
     ELSE lha_reader_check /\ Failed(used' = "checked")
  /\ todo' = "next"
  /\ UNCHANGED <<optionVars, options, checked, historyVars>>

(* print_archive: only files are read, until a read gives nothing or       *)
(* standard output takes no more.                                          *)
print_archive ==
  /\ todo = "file" /\ mode = "PRINT" /\ ~options.dry_run
  /\ todo' = IF IsFile THEN "read" ELSE "next"
  /\ UNCHANGED <<vars, optionVars, options, checked, result, historyVars>>

(* A read that gives something, all of which is written. *)
print_archived_file ==
  /\ todo = "read"
  /\ lha_reader_read /\ decoder' # "none"
  /\ UNCHANGED cmdVars

(* A read that gives nothing, or one that gives something that cannot be   *)
(* written, which ends the command.                                        *)
print_archived_file_end ==
  /\ todo = "read"
  /\ lha_reader_read
  /\ \/ todo' = "next" /\ UNCHANGED result
     \/ decoder' # "none" /\ todo' = "end" /\ result' = 0
  /\ UNCHANGED <<optionVars, options, checked, historyVars>>

(* extract_archive_dry_run, also for print_archive: looks whether a file is *)
(* there.                                                                  *)
extract_archive_dry_run ==
  /\ todo = "file" /\ mode \in {"EXTRACT", "PRINT"} /\ options.dry_run
  /\ \E there \in (IF IsFile THEN lha_arch_exists(arch, Curr.target) ELSE {"none"}) :
       todo' = IF there = "error" THEN "abort" ELSE "next"
  /\ UNCHANGED <<vars, optionVars, options, checked, result, historyVars>>

-----------------------------------------------------------------------------
(* extract_archived_file *)

(* Mutant: a fake directory is taken for one that is there already. *)
Continue_NotFakes ==
  /\ todo' = IF curr_file_type = "FAKE_DIR" \/ (~options.use_path /\ IsDir) THEN "next" ELSE "parents"
  /\ checked' = 0

(* The file is to be extracted: no directories without paths; otherwise    *)
(* its parents come first.                                                 *)
Continue ==
  /\ todo' = IF ~options.use_path /\ IsDir THEN "next" ELSE "parents"
  /\ checked' = 0

(* Mutant: only the prompt can refuse. *)
confirm_file_overwrite_NeverSkips == options.overwrite_policy \in {"ALL", "SKIP"} /\ Continue

(* confirm_file_overwrite, when the policy decides. *)
confirm_file_overwrite ==
  \/ options.overwrite_policy = "SKIP" /\ todo' = "next" /\ UNCHANGED checked
  \/ options.overwrite_policy = "ALL" /\ Continue

(* Only a file is asked about.  An error of stat ends the program. *)
CheckExisting ==
  /\ todo = "file" /\ mode = "EXTRACT" /\ ~options.dry_run
  /\ \E there \in (IF IsFile THEN lha_arch_exists(arch, Curr.target) ELSE {"none"}) :
       \/ there = "error" /\ todo' = "abort" /\ UNCHANGED checked
       \/ there = "none" /\ Continue
       \/ /\ there \in {"dir", "file"}
          /\ \/ options.overwrite_policy = "PROMPT" /\ todo' = "prompt" /\ UNCHANGED checked
             \/ confirm_file_overwrite
  /\ UNCHANGED <<vars, optionVars, options, result, historyVars>>

(* An answer that decides: the first character typed, or the end of the    *)
(* input.                                                                  *)
Answer ==
  /\ todo = "prompt"
  /\ \E response \in {"y", "n", "a", "s", "eof"} :
       /\ options' = CASE response = "a" -> [options EXCEPT !.overwrite_policy = "ALL"]
                       [] response = "s" -> [options EXCEPT !.overwrite_policy = "SKIP"]
                       [] OTHER -> options
       /\ agreed' = CASE response = "a" -> Paths
                      [] response = "y" -> agreed \cup {Curr.target}
                      [] OTHER -> agreed
       /\ \/ response = "eof" /\ todo' = "abort" /\ UNCHANGED checked
          \/ response \in {"n", "s"} /\ todo' = "next" /\ UNCHANGED checked
          \/ response \in {"y", "a"} /\ Continue
  /\ UNCHANGED <<vars, optionVars, result, old, replaced>>

(* Any other: the prompt is shown again. *)
AnswerUnclear == todo = "prompt" /\ UNCHANGED allVars

(* Mutant: the last parent is not looked at. *)
Parents_AllButOne(p) == {q \in Paths : ProperPrefix(q, p) /\ Len(q) < Len(p) - 1}

(* The directories that lead to a path. *)
Parents(p) == {q \in Paths : ProperPrefix(q, p)}

(* Mutant: the pointer stays at the separator. *)
Advance_Stays(q) == UNCHANGED checked

(* On to the next separator. *)
Advance(q) == checked' = Len(q)

(* make_parent_directories: a turn of its loop, with                       *)
(* check_parent_directory, or its end.                                     *)
make_parent_directories ==
  /\ todo = "parents"
  /\ LET rest == {q \in Parents(Curr.target) : Len(q) > checked}
     IN  IF rest = {}
         THEN todo' = "extract" /\ UNCHANGED <<arch, checked, result>>
         ELSE LET q == CHOOSE d \in rest : \A e \in rest : Len(d) <= Len(e)
              IN  \E there \in lha_arch_exists(arch, q) :
                    \/ there = "dir" /\ Advance(q) /\ UNCHANGED <<arch, todo, result>>
                    \/ /\ there = "none"
                       /\ \E out \in MkdirOutcomes(arch, q) :
                            /\ arch' = lha_arch_mkdir(arch, q, out)
                            /\ \/ out = "ok" /\ Advance(q) /\ UNCHANGED <<todo, result>>
                               \/ /\ out = "failed" /\ todo' = "next" /\ result' = 0
                                  /\ UNCHANGED checked
                    \/ /\ there \in {"file", "error"}
                       /\ todo' = "next" /\ result' = 0 /\ UNCHANGED <<arch, checked>>
  /\ UNCHANGED <<inputVars, basicVars, refs, readerVars, listVars, decoderVars, clientVars,
                 optionVars, options, historyVars>>

(* The old file at the target goes. *)
Replaces ==
  /\ Curr.target \in old
  /\ ~ThroughLink(arch, Curr.target)
  /\ used' = "yes" \/ arch' # arch

extract_archived_file ==
  /\ todo = "extract"
  /\ lha_reader_extract
  /\ Failed(used' = "yes")
  /\ old' = IF Replaces THEN old \ {Curr.target} ELSE old
  /\ replaced' = IF Replaces THEN replaced \cup {<<Curr.target, Curr.kind>>} ELSE replaced
  /\ todo' = "next"
  /\ UNCHANGED <<optionVars, options, checked, agreed>>

-----------------------------------------------------------------------------
(* do_command, up to the loop: the archive is opened, or the program ends. *)
do_command ==
  /\ todo = "open"
  /\ todo' \in {"next", "abort"}
  /\ UNCHANGED <<vars, optionVars, options, checked, result, historyVars>>

(* After the loop. *)
do_command_end ==
  /\ todo = "end"
  /\ lha_reader_free
  /\ todo' = "exit"
  /\ UNCHANGED <<optionVars, options, checked, result, historyVars>>

Ended == todo \in {"exit", "abort"} /\ UNCHANGED allVars

(* matches_filter looks at nothing but the path and the file name. *)
SameName(h, i) == Hdr(h).dir = Hdr(i).dir /\ Hdr(h).target = Hdr(i).target

(* What the arguments before the archive ask for, if they are understood. *)
main(before) ==
  IF before = <<>> THEN {[mode |-> "LIST", options |-> init_options]}
  ELSE parse_command_line(before[1])

(* Without a command there are no filters, and all headers match.  A       *)
(* command that is not understood gets the help page.                      *)
CmdInit ==
  /\ args \in Commands
  /\ \/ main(args) = {} /\ mode = "UNKNOWN" /\ options = init_options /\ todo = "abort"
     \/ \E c \in main(args) : mode = c.mode /\ options = c.options /\ todo = "open"
  /\ wanted \in {w \in SUBSET Headers :
                   \A h, i \in Headers : SameName(h, i) => (h \in w <=> i \in w)}
  /\ args = <<>> => wanted = Headers
  /\ checked = 0
  /\ result = 1
  /\ old = {p \in Paths : arch.fs[p] = "file"}
  /\ agreed = {}
  /\ replaced = {}

Work ==
  \/ lha_filter_next_file
  \/ list_file_contents
  \/ test_archived_file_crc
  \/ print_archive
  \/ print_archived_file
  \/ print_archived_file_end
  \/ extract_archive_dry_run
  \/ CheckExisting
  \/ make_parent_directories
  \/ extract_archived_file
  \/ do_command
  \/ do_command_end

CmdNext == Work \/ Answer \/ AnswerUnclear \/ Ended

-----------------------------------------------------------------------------
(* The command has the option f or q, which what follows w is not. *)
Forced ==
  args # <<>> /\ \E k \in DOMAIN args[1] :
    args[1][k] \in {"f", "q"} /\ \A j \in 1 .. k : args[1][j] # "w"

(* parse_options and extract_archived_file: a file that was there before   *)
(* is replaced by a file of the archive only when the command forces it,   *)
(* or an answer to the prompt allows it, for this very path or for all     *)
(* that follow.                                                            *)
FilesConfirmed ==
  \A r \in replaced : r[2] = "file" => Forced \/ r[1] \in agreed

(* make_parent_directories: whatever is extracted, every directory on the  *)
(* way to it is there, or is reached through a link.                       *)
ParentsThere ==
  todo = "extract" =>
    \A q \in Paths : ProperPrefix(q, Curr.target) =>
      arch.fs[q] \in Links \cup {"dir"} \/ ThroughLink(arch, q)

(* The command with filters or an overwrite policy: although it passes     *)
(* over entries, it applies the metadata of every directory entry that it  *)
(* created, since a header that matched once matches again.                *)
DirsFinished ==
  todo = "exit" => \A p \in Paths : arch.meta[p] # "owed"

(* extract_archive and test_file_crc: one failure is never lost to the     *)
(* files that follow it.  When extraction reports success nothing is half  *)
(* written, and there is something at the path of every entry that         *)
(* matched.  The test of a complete archive succeeds exactly when every    *)
(* file that matched is good.                                              *)
Verdict ==
  todo = "exit" =>
    /\ result = 1 => \A p \in Paths : arch.fs[p] # "partial"
    /\ mode = "EXTRACT" /\ ~options.dry_run /\ result = 1 =>
         \A h \in wanted : options.use_path \/ Hdr(h).kind # "dir" =>
           arch.fs[Hdr(h).target] # "none" \/ ThroughLink(arch, Hdr(h).target)
    /\ mode = "CRC_CHECK" /\ ~options.dry_run /\ lastHeader = Len(archive)
          /\ lastData = CLen(lastHeader) /\ seekable = 1 =>
         (result = 1 <=> \A h \in wanted : Hdr(h).kind = "file" => Hdr(h).good)

(* do_command: every command ends, whatever is answered, matched, missing  *)
(* or damaged.                                                             *)
CommandEnds == <>(todo \in {"exit", "abort"})
=============================================================================
