----------------------------- MODULE MacBinary -----------------------------
(***************************************************************************)
(* lib/macbinary.c: a decoder that reads from another one and strips the   *)
(* MacBinary header, if there is one that matches the header of the        *)
(* archive.  open_decoder of lib/lha_reader.c puts it on top of the        *)
(* decoder of a file that comes from a Macintosh; the decoder of any other *)
(* file is used as it is.                                                  *)
(*                                                                         *)
(* The outer decoder is the one of Decoder, with macbinary_decoder_read    *)
(* for its algorithm.  The inner one is a ByteSource, which is what        *)
(* Decoder shows a decoder to be: made counts the bytes read from it.      *)
(***************************************************************************)
EXTENDS Decoder

CONSTANTS
  MBHDR_SIZE,          \* also what lengths are rounded up to (128)
  OUTPUT_BUFFER_SIZE,
  MAC_TIME_OFFSET,
  MAX_ZONE,            \* largest difference of time zones (14 hours)
  MbHeaders,           \* what the first MBHDR_SIZE bytes may say
  Timestamps           \* LHAFileHeader.timestamp

ASSUME MacAssumption ==
  /\ MBHDR_SIZE \in Nat \ {0}
  /\ OUTPUT_BUFFER_SIZE \in Nat /\ MBHDR_SIZE < OUTPUT_BUFFER_SIZE
  /\ OUTPUT_BUFFER_SIZE = MAX_READ
  /\ MAC_TIME_OFFSET \in Nat /\ MAX_ZONE \in Nat
  /\ Timestamps \subseteq Nat
  /\ \A m \in MbHeaders :
       /\ m.zeros \in BOOLEAN   \* the fields that must be zero are
       /\ m.name \in BOOLEAN    \* the name is the one in the archive
       /\ m.data_fork_len \in 0 .. UINT_MAX /\ m.res_fork_len \in 0 .. UINT_MAX
       /\ m.mod_time \in 0 .. UINT_MAX

VARIABLES
  mb,               \* the bytes at the start of the data, as a header
  timestamp,        \* LHAFileHeader.timestamp
  mb_header_bytes,  \* MacBinaryDecoder: bytes of mb_header still to give
  stream_remaining, \* MacBinaryDecoder
  opened            \* "plain": no MacBinaryDecoder; otherwise "new", or what
                    \* lha_macbinary_passthrough has returned

macVars == <<mb, timestamp, mb_header_bytes, stream_remaining, opened>>
allVars == <<vars, macVars>>

length == stream_length   \* LHAFileHeader.length, the length of both streams

(* The inner decoder: what it can give, and how much a read of n gives. *)
InnerTotal == SmallerOf(length, codec_length)
InnerGives(n) == SmallerOf(n, InnerTotal - made)

-----------------------------------------------------------------------------
check_modification_time(mod_time) ==
  LET time_diff == IF timestamp > mod_time THEN timestamp - mod_time
                   ELSE mod_time - timestamp
  IN  time_diff <= MAX_ZONE

RoundUp(n) == (((n + MBHDR_SIZE - 1) % 2 ^ WIDTH) \div MBHDR_SIZE) * MBHDR_SIZE

is_macbinary_header ==
  /\ mb.zeros
  /\ mb.name
  /\ length = RoundUp((mb.data_fork_len + mb.res_fork_len + MBHDR_SIZE) % 2 ^ WIDTH)
  /\ mb.mod_time >= MAC_TIME_OFFSET
  /\ check_modification_time(mb.mod_time - MAC_TIME_OFFSET)

(* Mutant: the resource fork comes along. *)
ForkLength_Both == mb.data_fork_len + mb.res_fork_len

(* The fork to be extracted. *)
ForkLength == IF mb.data_fork_len > 0 THEN mb.data_fork_len ELSE mb.res_fork_len

(* The header is read whole, or there is no decoder. *)
read_macbinary_header ==
  \/ /\ InnerTotal < MBHDR_SIZE
     /\ made' = InnerTotal
     /\ opened' = "failed"
     /\ mb_header_bytes' = 0
     /\ stream_remaining' = length
  \/ /\ InnerTotal >= MBHDR_SIZE
     /\ made' = MBHDR_SIZE
     /\ opened' = "ok"
     /\ \/ /\ ~is_macbinary_header
           /\ mb_header_bytes' = MBHDR_SIZE
           /\ stream_remaining' = length
        \/ /\ is_macbinary_header
           /\ mb_header_bytes' = 0
           /\ stream_remaining' = ForkLength

(* lha_macbinary_passthrough, which calls macbinary_decoder_init. *)
lha_macbinary_passthrough ==
  /\ opened = "new"
  /\ \/ length >= MBHDR_SIZE /\ read_macbinary_header
     \/ /\ length < MBHDR_SIZE
        /\ opened' = "ok"
        /\ mb_header_bytes' = 0
        /\ stream_remaining' = length
        /\ UNCHANGED made
  /\ UNCHANGED <<mb, timestamp, codec_length, stream_length, stream_pos, bufferVars, crc,
                 progressVars, readVars, asked, given>>

-----------------------------------------------------------------------------
(* Mutant: the rest of the data is never decoded. *)
decode_to_end_Not(n) == made' = made + n

(* Where the inner decoder is after the n bytes of a read: at its end, if  *)
(* those were the last ones wanted of it.                                  *)
decode_to_end(n) ==
  made' = IF stream_remaining - n = 0 THEN InnerTotal ELSE made + n

(* Mutant: the bytes that were held back are given again. *)
HeldBack_Again == UNCHANGED mb_header_bytes

HeldBack == mb_header_bytes' = 0

ToRead == SmallerOf(OUTPUT_BUFFER_SIZE - mb_header_bytes, stream_remaining)

macbinary_decoder_read ==
  LET held == [j \in 1 .. mb_header_bytes |-> j]
      n    == InnerGives(ToRead)
  IN  /\ RefillTurn(held \o [j \in 1 .. n |-> made + j])
      /\ HeldBack
      /\ stream_remaining' = stream_remaining - n
      /\ decode_to_end(n)
      /\ UNCHANGED <<codec_length, mb, timestamp, opened>>

-----------------------------------------------------------------------------
MacInit ==
  /\ Init
  /\ opened \in {"new", "plain"}
  /\ mb \in MbHeaders /\ timestamp \in Timestamps
  /\ opened = "plain" => mb = CHOOSE m \in MbHeaders : TRUE
  /\ opened = "plain" => timestamp = CHOOSE t \in Timestamps : TRUE
  /\ mb_header_bytes = 0 /\ stream_remaining = 0

Read(n) == opened \in {"ok", "plain"} /\ lha_decoder_read(n) /\ UNCHANGED macVars

(* Between calls, and each turn of the loop of lha_decoder_read.  The      *)
(* progress callback is set on the decoder underneath.                     *)
MacNext ==
  \/ lha_macbinary_passthrough
  \/ \E n \in Sizes : Read(n)
  \/ opened = "plain" /\ (codec_read \/ lha_decoder_monitor) /\ UNCHANGED macVars
  \/ opened = "ok" /\ macbinary_decoder_read
  \/ (LoopEnd \/ CopyTurn) /\ UNCHANGED <<codecVars, macVars>>

MacSpec == MacInit /\ [][MacNext]_allVars

-----------------------------------------------------------------------------
(* Properties *)

(* The counts of bytes still to come never go below zero. *)
MacTypeOK ==
  /\ TypeOK
  /\ mb_header_bytes \in 0 .. MBHDR_SIZE
  /\ stream_remaining \in Nat
  /\ opened \in {"plain", "new", "ok", "failed"}

Stripped == opened # "plain" /\ length >= MBHDR_SIZE /\ is_macbinary_header

(* The contents of the file, as far as the inner decoder can make them:    *)
(* the data fork, the resource fork when there is no data fork, or all of  *)
(* the data.                                                               *)
Contents ==
  IF Stripped
  THEN LET fork == IF mb.data_fork_len = 0 THEN mb.res_fork_len ELSE mb.data_fork_len
       IN  [j \in 1 .. SmallerOf(fork, InnerTotal - MBHDR_SIZE) |-> MBHDR_SIZE + j]
  ELSE [j \in 1 .. InnerTotal |-> j]

(* lha_decoder_read, macbinary_decoder_read: what is delivered, and what   *)
(* the CRC covers, is the fork behind a header that matches, or else all   *)
(* of the data, the bytes that were looked at included: in order, none     *)
(* lost, none twice, however blocks and reads are cut.                     *)
DeliversContents ==
  /\ MacTypeOK
  /\ opened \in {"ok", "plain"} =>
       Len(crc) <= Len(Contents) /\ crc = SubSeq(Contents, 1, Len(crc))

NoDecoder == opened # "plain" /\ InnerTotal < MBHDR_SIZE /\ length >= MBHDR_SIZE

ContentsSource == INSTANCE ByteSource WITH
  total <- IF NoDecoder THEN 0 ELSE Len(Contents),
  got   <- stream_pos

(* lha_decoder_read gives less than it was asked for only at the end of    *)
(* the contents, so nothing is left out: it is a ByteSource.               *)
DeliversAll == ContentsSource!Spec

(* lha_reader.c compares the inner decoder's length and CRC with the       *)
(* header's once a read gives nothing more: by then the inner decoder has  *)
(* decoded all of the data, behind the fork too.                           *)
DecodedToEnd ==
  opened = "ok" /\ pc = "idle" /\ given < asked => made = InnerTotal
=============================================================================
