---------------------------- MODULE BasicReader ----------------------------
(***************************************************************************)
(* lib/lha_basic_reader.c: the archive as a stream of headers, each        *)
(* followed by its compressed data.  A header is known by its number in    *)
(* the archive, counted from 1; 0 is NULL.                                 *)
(*                                                                         *)
(* The position in the stream is relative: at is the last header parsed    *)
(* and off the amount of data consumed after it, so that the next header   *)
(* begins where off is that header's compressed length.  The stream may    *)
(* be cut off anywhere: headers beyond lastHeader are missing or damaged,  *)
(* and only lastData units of lastHeader's data are there.                 *)
(***************************************************************************)
EXTENDS Integers, Sequences

CONSTANTS
  Entries,      \* the file headers an archive is made of
  MaxEntries    \* bound on the length of an archive

(* clen is the compressed length of the entry's data; need the part of it  *)
(* that its decoder consumes.                                              *)
ASSUME EntryAssumption ==
  /\ MaxEntries \in Nat
  /\ \A e \in Entries : e.clen \in Nat /\ e.need \in 0 .. e.clen

VARIABLES
  archive,      \* the headers in the stream
  lastHeader, lastData, \* where the stream ends
  seekable,     \* skipping past the end of the stream succeeds
  at, off,      \* stream position
  b_curr_file,  \* LHABasicReader.curr_file
  b_remaining,  \* LHABasicReader.curr_file_remaining
  b_eof,        \* LHABasicReader.eof
  refs          \* LHAFileHeader._refcount of each header

inputVars == <<archive, lastHeader, lastData, seekable>>
basicVars == <<at, off, b_curr_file, b_remaining, b_eof>>

NULL == 0
Headers == 1 .. Len(archive)

CLen(h) == IF h = NULL THEN 0 ELSE archive[h].clen

(* Data of the entry the stream is in that can still be read. *)
Readable == IF at = lastHeader THEN lastData ELSE CLen(at)

lha_file_header_free(r, h) == [r EXCEPT ![h] = IF @ = 0 THEN 0 ELSE @ - 1]
lha_file_header_add_ref(r, h) == [r EXCEPT ![h] = @ + 1]

-----------------------------------------------------------------------------
(* lha_input_stream_skip(curr_file_remaining): the new offset and success. *)
SkipSucceeds(n) == seekable = 1 \/ off + n <= Readable
SkipTo(n) == IF SkipSucceeds(n) THEN off + n ELSE Readable

(* The stream is at the next header, and that header can be parsed. *)
HeaderAt(o) == at < lastHeader /\ o = CLen(at)

lha_basic_reader_next_file ==
  LET skip  == b_curr_file # NULL
      o     == IF skip THEN SkipTo(b_remaining) ELSE off
      eof   == b_eof = 1 \/ (skip /\ ~SkipSucceeds(b_remaining))
      freed == IF skip THEN lha_file_header_free(refs, b_curr_file) ELSE refs
  IN  \/ /\ ~eof /\ HeaderAt(o)
         /\ at' = at + 1
         /\ off' = 0
         /\ b_curr_file' = at + 1
         /\ b_remaining' = CLen(at + 1)
         /\ b_eof' = 0
         /\ refs' = [freed EXCEPT ![at + 1] = 1]
      \/ /\ eof \/ ~HeaderAt(o)
         /\ b_curr_file' = NULL
         /\ b_eof' = 1
         /\ off' = o
         /\ refs' = freed
         /\ UNCHANGED <<at, b_remaining>>

(* Mutant: what is read stays counted as remaining. *)
read_compressed_NotCounted(n) ==
  \/ /\ b_eof = 1 \/ b_remaining = 0
     /\ UNCHANGED basicVars
  \/ /\ b_eof = 0 /\ n <= b_remaining /\ off + n <= Readable
     /\ off' = off + n
     /\ UNCHANGED <<at, b_curr_file, b_remaining, b_eof>>

(* The calls of lha_basic_reader_read_compressed that a decoder makes to   *)
(* consume n more units.  The call that meets the end of the stream fails  *)
(* and its bytes, k of the units, stay counted as remaining.               *)
lha_basic_reader_read_compressed(n) ==
  \/ /\ b_eof = 1 \/ b_remaining = 0
     /\ UNCHANGED basicVars
  \/ /\ b_eof = 0 /\ n <= b_remaining /\ off + n <= Readable
     /\ off' = off + n
     /\ b_remaining' = b_remaining - n
     /\ UNCHANGED <<at, b_curr_file, b_eof>>
  \/ /\ b_eof = 0 /\ n <= b_remaining /\ off + n > Readable
     /\ \E k \in 0 .. Readable - off :
          b_remaining' = b_remaining - (Readable - off - k)
     /\ off' = Readable
     /\ b_eof' = 1
     /\ UNCHANGED <<at, b_curr_file>>

-----------------------------------------------------------------------------
BasicInit ==
  /\ archive \in UNION {[1 .. n -> Entries] : n \in 0 .. MaxEntries}
  /\ lastHeader \in 0 .. Len(archive)
  /\ lastData \in 0 .. CLen(lastHeader)
  /\ seekable \in {0, 1}
  /\ at = 0
  /\ off = 0
  /\ b_curr_file = NULL
  /\ b_remaining = 0
  /\ b_eof = 0
  /\ refs = [h \in Headers |-> 0]

BasicTypeOK ==
  /\ archive \in Seq(Entries)
  /\ lastHeader \in 0 .. Len(archive)
  /\ lastData \in 0 .. CLen(lastHeader)
  /\ seekable \in {0, 1}
  /\ at \in 0 .. Len(archive)
  /\ off \in Nat
  /\ b_curr_file \in 0 .. Len(archive)
  /\ b_remaining \in Nat
  /\ b_eof \in {0, 1}
  /\ refs \in [Headers -> Nat]

(* lha_basic_reader.c: as long as no read has failed, what has been        *)
(* consumed of the current file's data and what curr_file_remaining still  *)
(* counts add up to its compressed length, however the data was decoded:   *)
(* the skip of the next call ends exactly at the next header.              *)
Aligned ==
  b_curr_file # NULL /\ b_eof = 0 =>
    /\ b_curr_file = at
    /\ off + b_remaining = CLen(at)
=============================================================================
