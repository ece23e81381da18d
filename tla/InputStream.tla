---------------------------- MODULE InputStream ----------------------------
(***************************************************************************)
(* lib/lha_input_stream.c: the bytes of an archive, behind whatever        *)
(* self-extractor precedes them, from a source of callbacks.  A byte is    *)
(* known by its offset in the source, counted from 1.                      *)
(*                                                                         *)
(* The loops of skip_sfx and of the read-based skip take one step for each *)
(* call of the source's read callback, which may return less than it is    *)
(* asked for.                                                              *)
(***************************************************************************)
EXTENDS Integers, Sequences

CONSTANTS
  MAX_SFX_HEADER_LEN,
  LEADIN_BUFFER_LEN,
  MATCH_LEN,      \* bytes looked at to recognise a header (12)
  SKIP_BUFFER_LEN,\* size of the buffer of the read-based skip (32)
  MaxLen,         \* bound on the length of the source
  MaxSeek,        \* bound on the position a seek may reach
  Sizes,          \* sizes of the reads and skips of the client
  Types           \* the kinds of sources: a subset of SourceTypes

(* "seekable" and "pipe": file_source_owned or _unowned on a file or on an *)
(* unseekable stream; "custom": an LHAInputStreamType without a skip       *)
(* function.                                                               *)
SourceTypes == {"seekable", "pipe", "custom"}

ASSUME StreamAssumption ==
  /\ MAX_SFX_HEADER_LEN \in Nat
  /\ MATCH_LEN \in Nat \ {0}
  /\ LEADIN_BUFFER_LEN \in Nat /\ MATCH_LEN < LEADIN_BUFFER_LEN
  /\ SKIP_BUFFER_LEN \in Nat \ {0}
  /\ MaxLen \in Nat /\ MaxSeek \in Nat
  /\ Sizes \subseteq Nat \ {0}
  /\ Types \subseteq SourceTypes

VARIABLES
  marks,      \* what begins at each byte: "h" a header that matches, "s" the
              \* mark of a self-extractor that contains one, or nothing ("x")
  type,       \* LHAInputStream.type
  faulty,     \* the read callback may fail (1) or never does (0)
  pos,        \* bytes consumed from the source
  state,      \* LHAInputStream.state
  leadin,     \* LHAInputStream.leadin: the bytes in the buffer
  skip_files, filepos,  \* locals of skip_sfx
  pc,         \* the call in progress: "idle", "sfx", "fill", "skip", "freed"
  want,       \* what it has still to read or skip
  out,        \* the bytes the last lha_input_stream_read has stored
  start,      \* history: the byte before the first one of the first header
  passed,     \* history: bytes read and skipped since, until a call fails
  intact      \* history: no call has failed (1) or some has (0)

sourceVars == <<marks, type, faulty>>
sfxVars    == <<skip_files, filepos>>
history    == <<start, passed, intact>>
vars == <<sourceVars, pos, state, leadin, sfxVars, pc, want, out, history>>

Size == Len(marks)

SmallerOf(a, b) == IF a < b THEN a ELSE b

(* The next n bytes of the source. *)
Bytes(n) == [j \in 1 .. n |-> pos + j]

(* What the read callback may return when asked for n bytes: a file gives  *)
(* all that is left, any other source at least one.                        *)
do_read(n) ==
  LET left == SmallerOf(n, Size - pos) IN
  (IF left <= 0 THEN {0} ELSE IF type = "custom" THEN 1 .. left ELSE {left})
    \cup (IF faulty = 1 THEN {-1} ELSE {})

(* Mutant: one byte too many goes. *)
empty_leadin_OneMore(buf, bytes) == SubSeq(buf, bytes + 2, Len(buf))

empty_leadin(buf, bytes) == SubSeq(buf, bytes + 1, Len(buf))

(* The scan of the buffer.  Only bytes with MATCH_LEN more behind them are *)
(* looked at.                                                              *)
Scannable(buf) == IF Len(buf) > MATCH_LEN THEN Len(buf) - MATCH_LEN ELSE 0

(* skip_files when the scan gets to byte i: set by the last mark of a      *)
(* self-extractor, or from before, and used up by the first header after.  *)
SkipFiles(buf, skip, i) ==
  \E j \in 0 .. i - 1 :
    /\ IF j = 0 THEN skip = 1 ELSE marks[buf[j]] = "s"
    /\ \A k \in j + 1 .. i - 1 : marks[buf[k]] # "h"

(* The scan goes past byte i: every header up to it is to be skipped. *)
GoesPast(buf, skip, i) ==
  \A j \in 1 .. i : marks[buf[j]] = "h" => SkipFiles(buf, skip, j)

(* The scan finds the header it is looking for at byte i. *)
FoundAt(buf, skip, i) ==
  /\ i \in 1 .. Scannable(buf)
  /\ marks[buf[i]] = "h" /\ ~SkipFiles(buf, skip, i)
  /\ GoesPast(buf, skip, i - 1)

-----------------------------------------------------------------------------
(* skip_sfx *)

(* Found: the buffer begins with the header, and the read goes on. *)
FoundHeader(buf) ==
  \E i \in 1 .. Scannable(buf) :
    /\ FoundAt(buf, skip_files, i)
    /\ leadin' = empty_leadin(buf, i - 1)
    /\ state' = "READING"
    /\ pc' = "fill"
    /\ start' = buf[i] - 1
    /\ UNCHANGED <<sfxVars, want, out, passed, intact>>

(* Mutant: every turn of the loop starts without a header to pass over. *)
NotYet_ForgetsSkip(buf) ==
  /\ GoesPast(buf, skip_files, Scannable(buf))
  /\ leadin' = empty_leadin(buf, Scannable(buf))
  /\ filepos' = filepos + Scannable(buf)
  /\ skip_files' = 0
  /\ UNCHANGED <<state, pc, want, out, history>>

(* Not found: the bytes that were looked at go. *)
NotYet(buf) ==
  /\ GoesPast(buf, skip_files, Scannable(buf))
  /\ leadin' = empty_leadin(buf, Scannable(buf))
  /\ filepos' = filepos + Scannable(buf)
  /\ skip_files' = IF SkipFiles(buf, skip_files, Scannable(buf) + 1) THEN 1 ELSE 0
  /\ UNCHANGED <<state, pc, want, out, history>>

GiveUp ==
  /\ state' = "FAIL"
  /\ pc' = "idle"
  /\ out' = <<>>
  /\ intact' = 0
  /\ UNCHANGED <<leadin, sfxVars, want, start, passed>>

(* Mutant: only an error ends the loop, the end of the source does not. *)
skip_sfx_IgnoresEnd ==
  /\ pc = "sfx"
  /\ \/ /\ filepos >= MAX_SFX_HEADER_LEN
        /\ GiveUp
        /\ UNCHANGED <<sourceVars, pos>>
     \/ /\ filepos < MAX_SFX_HEADER_LEN
        /\ \E r \in do_read(LEADIN_BUFFER_LEN - Len(leadin)) :
             \/ r < 0 /\ GiveUp /\ UNCHANGED pos
             \/ /\ r >= 0
                /\ pos' = pos + r
                /\ FoundHeader(leadin \o Bytes(r)) \/ NotYet(leadin \o Bytes(r))
        /\ UNCHANGED sourceVars

(* One turn of the loop. *)
skip_sfx ==
  /\ pc = "sfx"
  /\ \/ /\ filepos >= MAX_SFX_HEADER_LEN
        /\ GiveUp
        /\ UNCHANGED <<sourceVars, pos>>
     \/ /\ filepos < MAX_SFX_HEADER_LEN
        /\ \E r \in do_read(LEADIN_BUFFER_LEN - Len(leadin)) :
             \/ r <= 0 /\ GiveUp /\ UNCHANGED pos
             \/ /\ r > 0
                /\ pos' = pos + r
                /\ FoundHeader(leadin \o Bytes(r)) \/ NotYet(leadin \o Bytes(r))
        /\ UNCHANGED sourceVars

-----------------------------------------------------------------------------
(* lha_input_stream_read: entry, and what follows skip_sfx.  Once the      *)
(* search for a header has failed it returns at once.                      *)
lha_input_stream_read(n) ==
  /\ pc = "idle" /\ state # "FAIL"
  /\ want' = n
  /\ pc' = IF state = "INIT" THEN "sfx" ELSE "fill"
  /\ UNCHANGED <<sourceVars, pos, state, leadin, sfxVars, out, history>>

Return(ok, n) ==
  /\ pc' = "idle"
  /\ want' = 0
  /\ passed' = IF ok /\ intact = 1 THEN passed + n ELSE passed
  /\ intact' = IF ok THEN intact ELSE 0

(* The lead-in buffer first, the rest from the source: one call, and       *)
(* nothing less than the whole is a success.                               *)
Fill ==
  /\ pc = "fill"
  /\ LET n == SmallerOf(want, Len(leadin)) IN
     /\ leadin' = empty_leadin(leadin, n)
     /\ \/ /\ n = want
           /\ out' = SubSeq(leadin, 1, n)
           /\ Return(TRUE, want)
           /\ UNCHANGED pos
        \/ /\ n < want
           /\ \E r \in do_read(want - n) :
                LET got == IF r > 0 THEN r ELSE 0 IN
                /\ out' = SubSeq(leadin, 1, n) \o Bytes(got)
                /\ pos' = pos + got
                /\ Return(n + got = want, want)
  /\ UNCHANGED <<sourceVars, state, sfxVars, start>>

-----------------------------------------------------------------------------
(* lha_input_stream_skip.  The basic reader calls it after a header, which *)
(* is never shorter than the lead-in buffer.                               *)
HeaderRead == state = "READING" /\ passed >= LEADIN_BUFFER_LEN

(* fseek goes past the end of a file without complaint; reading stops at   *)
(* the end.                                                                *)
file_source_skip(n) ==
  /\ pos' = IF type = "seekable" THEN pos + n ELSE SmallerOf(pos + n, Size)
  /\ Return(type = "seekable" \/ pos + n <= Size, n)

lha_input_stream_skip(n) ==
  /\ pc = "idle" /\ HeaderRead
  /\ pos + n <= MaxSeek
  /\ out' = <<>>
  /\ \/ type # "custom" /\ file_source_skip(n)
     \/ /\ type = "custom"
        /\ pc' = "skip"
        /\ want' = n
        /\ passed' = IF intact = 1 THEN passed + n ELSE passed
        /\ UNCHANGED <<pos, intact>>
  /\ UNCHANGED <<sourceVars, state, leadin, sfxVars, start>>

(* One turn of the read-based skip: a read of no bytes changes nothing. *)
SkipByReading ==
  /\ pc = "skip"
  /\ \E r \in do_read(SmallerOf(want, SKIP_BUFFER_LEN)) :
       \/ /\ r < 0
          /\ pc' = "idle" /\ want' = 0 /\ intact' = 0
          /\ UNCHANGED pos
       \/ /\ r >= 0
          /\ pos' = pos + r
          /\ want' = want - r
          /\ pc' = IF r = want THEN "idle" ELSE "skip"
          /\ UNCHANGED intact
  /\ UNCHANGED <<sourceVars, state, leadin, sfxVars, out, start, passed>>

lha_input_stream_free ==
  /\ pc = "idle"
  /\ pc' = "freed"
  /\ UNCHANGED <<sourceVars, pos, state, leadin, sfxVars, want, out, history>>

-----------------------------------------------------------------------------
Init ==
  /\ marks \in UNION {[1 .. n -> {"h", "s", "x"}] : n \in 0 .. MaxLen}
  /\ type \in Types /\ faulty \in {0, 1}
  /\ pos = 0
  /\ state = "INIT"
  /\ leadin = <<>>
  /\ skip_files = 0 /\ filepos = 0
  /\ pc = "idle"
  /\ want = 0
  /\ out = <<>>
  /\ start = 0 /\ passed = 0 /\ intact = 1

Next ==
  \/ \E n \in Sizes : lha_input_stream_read(n) \/ lha_input_stream_skip(n)
  \/ skip_sfx
  \/ Fill
  \/ SkipByReading
  \/ lha_input_stream_free

Spec == Init /\ [][Next]_vars

(* A call that has begun goes on. *)
FairSpec == Spec /\ WF_vars(skip_sfx) /\ WF_vars(Fill) /\ WF_vars(SkipByReading)

-----------------------------------------------------------------------------
(* Properties *)

(* The buffer of the self-extractor search never holds more than its size, *)
(* and each read into it asks for at least one byte.                       *)
TypeOK ==
  /\ marks \in Seq({"h", "s", "x"})
  /\ type \in Types /\ faulty \in {0, 1}
  /\ pos \in Nat
  /\ state \in {"INIT", "READING", "FAIL"}
  /\ leadin \in Seq(Nat)
  /\ Len(leadin) <= LEADIN_BUFFER_LEN
  /\ pc = "sfx" => Len(leadin) < LEADIN_BUFFER_LEN
  /\ skip_files \in {0, 1} /\ filepos \in Nat
  /\ pc \in {"idle", "sfx", "fill", "skip", "freed"}
  /\ want \in Nat
  /\ out \in Seq(Nat)
  /\ start \in Nat /\ passed \in Nat /\ intact \in {0, 1}

(* skip_sfx, empty_leadin: the lead-in buffer holds the last bytes that    *)
(* came from the source, in order: none is lost or repeated, whatever the  *)
(* sizes of the reads.                                                     *)
LeadinConsecutive ==
  leadin = [j \in 1 .. Len(leadin) |-> pos - Len(leadin) + j]

(* The source as one buffer, to be scanned at once. *)
Whole == [j \in 1 .. Size |-> j]

(* skip_sfx: the header found does not depend on how the source cuts its   *)
(* data into reads, and one that begins within MAX_SFX_HEADER_LEN bytes of *)
(* a source without errors is always found.                                *)
FindsFirstHeader ==
  /\ state = "READING" => FoundAt(Whole, 0, start + 1)
  /\ state = "FAIL" /\ faulty = 0 =>
       \A i \in 1 .. MAX_SFX_HEADER_LEN : ~FoundAt(Whole, 0, i)

(* lha_input_stream_read, lha_input_stream_skip: as long as no call has    *)
(* failed, the bytes delivered are the ones that follow what has been read *)
(* and skipped since the start of the first header.                        *)
DeliversInOrder ==
  state = "READING" /\ intact = 1 /\ pc = "idle" =>
    /\ pos - Len(leadin) = start + passed
    /\ out = [j \in 1 .. Len(out) |-> start + passed - Len(out) + j]

(* lha_input_stream_read: every read returns, found header or not. *)
ReadsReturn == pc \in {"sfx", "fill"} ~> pc = "idle"

(* public/lha_input_stream.h: skip "is an optional function", without which *)
(* "the read function can be used to perform a skip"                        *)
(* (lha_input_stream.c): then every skip returns, too.                      *)
SkipsReturn == pc = "skip" ~> pc = "idle"
=============================================================================
