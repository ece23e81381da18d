-------------------------- MODULE ReaderIteration --------------------------
(***************************************************************************)
(* What lha_reader_next_file promises (lib/public/lha_reader.h), without   *)
(* streams, lists or reference counts: the archive's files come in order,  *)
(* each once; a directory that was created comes once more, later, for its *)
(* metadata; a link that was held back comes once more after everything    *)
(* else, the longest paths first.                                          *)
(***************************************************************************)
EXTENDS Integers, Sequences

VARIABLES
  pathLen,      \* the archive: the length of each header's path
  phase,        \* "files", then "links", then "end"; "freed" at last
  pos,          \* number of headers given
  given,        \* <<what it is given as, header>>
  owedDirs,     \* directories created, metadata not given yet
  owedLinks     \* links held back

iterVars == <<pathLen, phase, pos, given, owedDirs, owedLinks>>

Nothing == <<"nothing", 0>>

Init ==
  /\ pathLen \in Seq(Nat)
  /\ phase = "files"
  /\ pos = 0
  /\ given = Nothing
  /\ owedDirs = {}
  /\ owedLinks = {}

GiveFile ==
  /\ phase = "files" /\ pos < Len(pathLen)
  /\ pos' = pos + 1
  /\ given' = <<"file", pos + 1>>
  /\ UNCHANGED <<pathLen, phase, owedDirs, owedLinks>>

GiveDirectory ==
  /\ phase = "files"
  /\ \E d \in owedDirs :
       /\ given' = <<"directory", d>>
       /\ owedDirs' = owedDirs \ {d}
  /\ UNCHANGED <<pathLen, phase, pos, owedLinks>>

GiveLink ==
  /\ phase \in {"files", "links"} /\ owedDirs = {}
  /\ phase' = "links"
  /\ \E l \in owedLinks :
       /\ \A m \in owedLinks : pathLen[m] <= pathLen[l]
       /\ given' = <<"link", l>>
       /\ owedLinks' = owedLinks \ {l}
  /\ UNCHANGED <<pathLen, pos, owedDirs>>

GiveEnd ==
  /\ phase \in {"files", "links"} /\ owedDirs = {} /\ owedLinks = {}
  /\ phase' = "end"
  /\ given' = Nothing
  /\ UNCHANGED <<pathLen, pos, owedDirs, owedLinks>>

(* Extraction of the file just given makes it owed. *)
Owe ==
  /\ given[1] = "file"
  /\ \/ owedDirs' = owedDirs \cup {given[2]} /\ UNCHANGED owedLinks
     \/ owedLinks' = owedLinks \cup {given[2]} /\ UNCHANGED owedDirs
  /\ UNCHANGED <<pathLen, phase, pos, given>>

Free ==
  /\ phase' = "freed"
  /\ given' = Nothing
  /\ pos' = 0
  /\ owedDirs' = {}
  /\ UNCHANGED <<pathLen, owedLinks>>

Next ==
  GiveFile \/ GiveDirectory \/ GiveLink \/ GiveEnd \/ Owe \/ Free

Spec == Init /\ [][Next]_iterVars
=============================================================================
