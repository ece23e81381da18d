----------------------------- MODULE FileHeader -----------------------------
(***************************************************************************)
(* lib/lha_file_header.c and lib/ext_header.c: reading one file header of  *)
(* level 0, 1, 2 or 3 from the stream into raw_data, and decoding it.      *)
(*                                                                         *)
(* What the header holds is chosen as it is looked at: the value of a      *)
(* length field, the kind of each extended header.  Offsets are those of   *)
(* the source.  Each turn of a loop over extended headers is a step.       *)
(* The text of the names is left out; CollapsePath models what becomes of  *)
(* the path.                                                               *)
(***************************************************************************)
EXTENDS Integers

CONSTANTS
  StreamLens,    \* numbers of bytes the stream may have
  HeaderLens,    \* values of the header length field
  PathLens,      \* values of the path length field of levels 0 and 1
  ExtLens,       \* values of the length field of an extended header
  CompLens,      \* values of a compressed length field
  InMethods,     \* values of the compression method field, ...
  InOsTypes,     \* ... of the OS type field, ...
  InExtTypes,    \* ... and of the type field of an extended header
  LEVEL_3_MAX_HEADER_LEN

ASSUME HeaderAssumption ==
  /\ StreamLens \subseteq Nat /\ HeaderLens \subseteq Nat /\ PathLens \subseteq Nat
  /\ ExtLens \subseteq Nat /\ CompLens \subseteq Nat
  /\ LEVEL_3_MAX_HEADER_LEN \in Nat
  /\ InMethods \subseteq {"-lhd-", "-lh0-", "-lh7-", "-pm-"}
  /\ InOsTypes \subseteq {"unknown", "unix", "os9", "os9_68k", "amiga", "lhark"}

COMMON_HEADER_LEN         == 22
LEVEL_0_MIN_HEADER_LEN    == 22
LEVEL_1_MIN_HEADER_LEN    == 25
LEVEL_2_HEADER_LEN        == 26
LEVEL_3_HEADER_LEN        == 32
LEVEL_0_UNIX_EXTENDED_LEN == 12
LEVEL_0_OS9_EXTENDED_LEN  == 22

VARIABLES
  left,              \* bytes left in the stream
  step,              \* "start", "base", "l1", "ext", "tail", "ok" or "failed"
  raw_data_len, header_level, compressed_length,    \* fields of LHAFileHeader
  method, os_type,   \* compress_method and os_type
  extra_flags,
  path, filename,    \* 1 when set, 0 when NULL
  target,            \* symlink_target: likewise
  perms,             \* unix_perms: "link" for the mode of a symbolic link
  lens,              \* level 1: the length fields already read, offset -> value
  offset, available_length,   \* locals of decode_extended_headers
  touched,           \* history: the accesses to raw_data of the last step
  base_len, entry    \* history: length of the base header, and what its
                     \* compressed length field says

nameVars  == <<path, filename, target>>
metaVars  == <<method, os_type, extra_flags, perms>>
chainVars == <<lens, offset, available_length>>
histVars  == <<base_len, entry>>
headerVars == <<left, step, raw_data_len, header_level, compressed_length, nameVars, metaVars,
          chainVars, touched, histVars>>

(* An access to the bytes from .. to - 1, by code that was handed the      *)
(* bytes lo .. hi - 1.                                                     *)
Access(from, to, lo, hi) == [from |-> from, to |-> to, lo |-> lo, hi |-> hi]

field_size == IF header_level = 3 THEN 4 ELSE 2

-----------------------------------------------------------------------------
(* The fail path of lha_file_header_read: the header is released.  Nothing *)
(* is read from the stream after it.                                       *)
Fail ==
  /\ step' = "failed"
  /\ touched' = {}
  /\ UNCHANGED <<left, raw_data_len, header_level, compressed_length, nameVars, metaVars,
                 chainVars, histVars>>

(* extend_raw_data succeeds: the bytes are not too many, and they are      *)
(* there.  A negative number would be a huge one.                          *)
CanExtend(nbytes) == 0 <= nbytes /\ nbytes <= LEVEL_3_MAX_HEADER_LEN /\ nbytes <= left

extend_raw_data(nbytes) ==
  /\ left' = left - nbytes
  /\ raw_data_len' = raw_data_len + nbytes

(* decode_extended_headers: before the loop. *)
BeginChain(start, raw_len) ==
  /\ step' = "ext"
  /\ offset' = start
  /\ available_length' = raw_len - start - field_size

(* lha_file_header_read: the first 22 bytes, which hold the level. *)
ReadCommonHeader ==
  /\ step = "start"
  /\ \E level \in 0..4 :
       IF CanExtend(COMMON_HEADER_LEN) /\ level < 4
       THEN /\ extend_raw_data(COMMON_HEADER_LEN)
            /\ header_level' = level
            /\ step' = "base"
            /\ touched' = {Access(20, 21, 0, COMMON_HEADER_LEN)}
            /\ UNCHANGED <<compressed_length, nameVars, metaVars, chainVars, histVars>>
       ELSE Fail

-----------------------------------------------------------------------------
(* Level 0 and 1 *)

process_level0_unix_area(data_len) ==
  IF data_len < LEVEL_0_UNIX_EXTENDED_LEN THEN {}
  ELSE {[os |-> o, flags |-> {"UNIX_PERMS", "UNIX_UID_GID"}, perms |-> p, upto |-> data_len] :
          o \in {"unix", "os9_68k"} \cap InOsTypes, p \in {"link", "other"}}

process_level0_os9_area(data_len) ==
  IF data_len < LEVEL_0_OS9_EXTENDED_LEN \/ "os9" \notin InOsTypes THEN {}
  ELSE {[os |-> "os9", flags |-> {"OS9_PERMS"}, perms |-> "other", upto |-> 19]}

(* What the area of a level 0 header may set, and how far it is looked at. *)
process_level0_extended_area(m, data_len) ==
  {[os |-> "unknown", flags |-> {}, perms |-> "other", upto |-> IF data_len > 0 THEN 1 ELSE 0]}
    \cup (IF m = "-pm-" THEN {}
          ELSE process_level0_unix_area(data_len) \cup process_level0_os9_area(data_len))

(* A name that ends in a separator, or has one, is split; an empty one     *)
(* leaves both parts unset.                                                *)
process_level0_path(path_len) ==
  /\ path' \in (IF path_len = 0 THEN {0} ELSE {0, 1})
  /\ filename' = (IF path_len = 0 THEN 0 ELSE 1)
  /\ UNCHANGED target

PathFits(min_len, path_len, header_len) == min_len + path_len <= header_len

(* Mutant: the extended headers start after the first length field. *)
ext_header_start_AfterField(len) == len

ext_header_start(len) == len - 2

(* What process_level0_extended_area may set in this header. *)
Areas(header_len, path_len) ==
  process_level0_extended_area(method',
    IF header_level = 0 THEN header_len - LEVEL_0_MIN_HEADER_LEN - path_len ELSE 0)

(* The checks of decode_level0_header. *)
BaseFits(header_len, path_len, min_len) ==
  /\ header_len >= min_len
  /\ CanExtend(header_len + 2 - raw_data_len)
  /\ PathFits(min_len, path_len, header_len)

(* The fields it sets, with area what it finds in the extended area. *)
DecodeBase(len, path_len, area) ==
  /\ os_type' \in (IF header_level = 0 THEN {area.os} ELSE InOsTypes)
  /\ extra_flags' = area.flags
  /\ perms' = area.perms
  /\ process_level0_path(path_len)
  /\ touched' =
       {Access(0, 22, 0, len), Access(22, 22 + path_len, 0, len),
        Access(22 + path_len, 24 + path_len, 0, len),
        IF header_level = 0 THEN Access(24 + path_len, 24 + path_len + area.upto, 0, len)
        ELSE Access(24 + path_len, 25 + path_len, 0, len)}

(* decode_level0_header, and what decode_level1_header does after it. *)
decode_level0_header ==
  /\ step = "base" /\ header_level \in {0, 1}
  /\ \E header_len \in HeaderLens, path_len \in PathLens, csum_ok \in BOOLEAN :
       IF /\ BaseFits(header_len, path_len,
                      IF header_level = 0 THEN LEVEL_0_MIN_HEADER_LEN
                      ELSE LEVEL_1_MIN_HEADER_LEN)
          /\ csum_ok
       THEN /\ extend_raw_data(header_len + 2 - raw_data_len)
            /\ method' \in InMethods
            /\ compressed_length' \in CompLens
            /\ entry' = compressed_length'
            /\ base_len' = header_len + 2
            /\ \E area \in Areas(header_len, path_len) :
                 DecodeBase(header_len + 2, path_len, area)
            /\ offset' = IF header_level = 0 THEN offset ELSE ext_header_start(header_len + 2)
            /\ step' = IF header_level = 0 THEN "tail" ELSE "l1"
            /\ UNCHANGED <<header_level, lens, available_length>>
       ELSE Fail

(* The entry is long enough for the extended header. *)
Covers(len) == len <= compressed_length

(* Mutant: what the extended headers take is not subtracted. *)
CountOff_Forgotten(len) == UNCHANGED compressed_length

CountOff(len) == compressed_length' = compressed_length - len

(* One turn of read_l1_extended_headers, with read_next_ext_header: the    *)
(* last two bytes give the length of what follows.                         *)
read_l1_extended_headers ==
  /\ step = "l1"
  /\ \E len \in ExtLens :
       LET at == raw_data_len - 2
       IN     IF len = 0
              THEN /\ BeginChain(offset, raw_data_len)
                   /\ touched' = {Access(at, at + 2, 0, raw_data_len)}
                   /\ lens' = [o \in DOMAIN lens \cup {at} |-> IF o = at THEN len ELSE lens[o]]
                   /\ UNCHANGED <<left, raw_data_len, compressed_length, header_level,
                                  nameVars, metaVars, histVars>>
              ELSE IF CanExtend(len) /\ Covers(len) /\ len >= 3
              THEN /\ extend_raw_data(len)
                   /\ CountOff(len)
                   /\ touched' = {Access(at, at + 2, 0, raw_data_len)}
                   /\ lens' = [o \in DOMAIN lens \cup {at} |-> IF o = at THEN len ELSE lens[o]]
                   /\ UNCHANGED <<step, header_level, nameVars, metaVars, offset,
                                  available_length, histVars>>
              ELSE Fail

-----------------------------------------------------------------------------
(* Levels 2 and 3 *)

(* What the fixed part of a level 2 or 3 header sets. *)
FixedPart(os, raw_len) ==
  /\ method' \in InMethods
  /\ compressed_length' \in CompLens
  /\ entry' = compressed_length'
  /\ os_type' = os
  /\ base_len' = raw_len
  /\ UNCHANGED <<header_level, nameVars, extra_flags, perms, lens>>

(* LHA for OS-9/68k counts two bytes too few. *)
decode_level2_header ==
  /\ step = "base" /\ header_level = 2
  /\ \E header_len \in HeaderLens, os \in InOsTypes :
       LET len == IF os = "os9_68k" THEN header_len + 2 ELSE header_len
       IN  IF /\ header_len >= LEVEL_2_HEADER_LEN
              /\ CanExtend(header_len - raw_data_len)
              /\ len - raw_data_len <= left
           THEN /\ extend_raw_data(len - raw_data_len)
                /\ FixedPart(os, len)
                /\ touched' = {Access(0, 24, 0, header_len)}
                /\ BeginChain(24, len)
           ELSE Fail

(* The word size must be 4; the length counts the whole header. *)
decode_level3_header ==
  /\ step = "base" /\ header_level = 3
  /\ \E header_len \in HeaderLens, os \in InOsTypes, word_ok \in BOOLEAN :
       IF /\ word_ok
          /\ CanExtend(LEVEL_3_HEADER_LEN - raw_data_len)
          /\ header_len <= LEVEL_3_MAX_HEADER_LEN
          /\ header_len >= LEVEL_3_HEADER_LEN
          /\ CanExtend(header_len - raw_data_len)
       THEN /\ extend_raw_data(header_len - raw_data_len)
            /\ FixedPart(os, header_len)
            /\ touched' = {Access(24, 28, 0, LEVEL_3_HEADER_LEN),
                           Access(0, 24, 0, header_len)}
            /\ BeginChain(28, header_len)
       ELSE Fail

-----------------------------------------------------------------------------
(* Extended headers *)

(* The table of types, with min_len, ... *)
ext_header_types ==
  [common |-> 2, filename |-> 1, path |-> 1, unix_perms |-> 2, unix_uid_gid |-> 4,
   unix_username |-> 1, unix_group |-> 1, unix_timestamp |-> 4,
   windows_timestamps |-> 24, file_sizes |-> 16, os9 |-> 12]

(* ... and the bytes that the decoder of each type gets at, by offset into *)
(* the data.  The path decoder looks at the last one on its own.           *)
DecoderReads(num, data_len) ==
  CASE num \in {"common", "unix_perms"}             -> {<<0, 2>>}
    [] num \in {"unix_uid_gid", "unix_timestamp"}   -> {<<0, 4>>}
    [] num = "windows_timestamps"                   -> {<<0, 24>>}
    [] num = "file_sizes"                           -> {<<0, 16>>}
    [] num = "os9"                                  -> {<<7, 9>>}
    [] num = "path"                                 -> {<<0, data_len>>, <<data_len - 1, data_len>>}
    [] OTHER                                        -> {<<0, data_len>>}

FlagOf(num) ==
  CASE num = "common"             -> {"COMMON_CRC"}
    [] num = "unix_perms"         -> {"UNIX_PERMS"}
    [] num = "unix_uid_gid"       -> {"UNIX_UID_GID"}
    [] num = "windows_timestamps" -> {"WINDOWS_TIMESTAMPS"}
    [] num = "file_sizes"         -> {"64BIT_SIZES"}
    [] num = "os9"                -> {"OS9_PERMS"}
    [] OTHER                      -> {}

(* Mutant: only the type is looked up. *)
Decodes_AnyLength(num, data_len) == num \in DOMAIN ext_header_types

(* lha_ext_header_decode: an unknown type, or one that is too short, is    *)
(* passed over.                                                            *)
Decodes(num, data_len) ==
  num \in DOMAIN ext_header_types /\ data_len >= ext_header_types[num]

(* The decoder of the type runs.  The CRC field that the common header     *)
(* zeroes lies in its data, clear of every length field.                   *)
lha_ext_header_decode(num) ==
  /\ extra_flags' = extra_flags \cup FlagOf(num)
  /\ filename' = IF num = "filename" THEN 1 ELSE filename
  /\ path' = IF num = "path" THEN 1 ELSE path
  /\ perms' \in IF num = "unix_perms" THEN {"link", "other"} ELSE {perms}
  /\ compressed_length' \in IF num = "file_sizes" THEN CompLens ELSE {compressed_length}
  /\ UNCHANGED <<target, method, os_type>>

Skipped == UNCHANGED <<nameVars, metaVars, compressed_length>>

(* A length field is chosen when it is first read. *)
LengthAt(o) == IF o \in DOMAIN lens THEN {lens[o]} ELSE ExtLens

GoodLength(len) == field_size + 1 <= len /\ len <= available_length

Advance(len) ==
  /\ offset' = offset + len
  /\ available_length' = available_length - len

(* The length field and the type field at the offset, and the data. *)
FieldAccess == Access(offset, offset + field_size, 0, raw_data_len)
TypeAccess  == Access(offset + field_size, offset + field_size + 1, 0, raw_data_len)
DataAccess(a, len) ==
  Access(offset + field_size + 1 + a[1], offset + field_size + 1 + a[2],
         offset + field_size + 1, offset + len)

(* lha_ext_header_decode, on a header of the given type and length. *)
DecodeOne(num, len) ==
  LET data_len == len - field_size - 1
  IN  IF Decodes(num, data_len)
      THEN /\ lha_ext_header_decode(num)
           /\ touched' = {FieldAccess, TypeAccess}
                           \cup {DataAccess(a, len) : a \in DecoderReads(num, data_len)}
      ELSE Skipped /\ touched' = {FieldAccess, TypeAccess}

(* One turn of the loop of decode_extended_headers.  The loop also ends    *)
(* when no length field is left.                                           *)
decode_extended_headers ==
  /\ step = "ext"
  /\ LET more == offset <= raw_data_len - field_size
     IN  \E len \in (IF more THEN LengthAt(offset) ELSE {0}) :
           IF len = 0
           THEN /\ step' = "tail"
                /\ touched' = IF more THEN {FieldAccess} ELSE {}
                /\ Skipped
                /\ UNCHANGED <<left, raw_data_len, header_level, chainVars, histVars>>
           ELSE IF GoodLength(len)
           THEN /\ \E num \in InExtTypes : DecodeOne(num, len)
                /\ Advance(len)
                /\ UNCHANGED <<left, step, raw_data_len, header_level, lens, histVars>>
           ELSE Fail

-----------------------------------------------------------------------------
(* The rest of lha_file_header_read *)

(* Some Amiga archives encode directories as empty files with no name. *)
FixAmiga(empty) ==
  IF os_type = "amiga" /\ method = "-lh0-" /\ empty /\ filename = 0 THEN "-lhd-" ELSE method

IsLink(m) ==
  /\ m = "-lhd-" /\ "UNIX_PERMS" \in extra_flags /\ perms = "link"
  /\ path = 1 \/ filename = 1

(* parse_symlink: what is in front of the bar is split again. *)
parse_symlink == target' = 1 /\ filename' = 1 /\ path' \in {0, 1}

(* Mutant: a directory may do with a file name. *)
HasName_Either(m, bar) ==
  CASE m # "-lhd-" -> filename = 1
    [] IsLink(m)   -> bar
    [] OTHER       -> path = 1 \/ filename = 1

(* bar: the name has the bar that separates a link from its target. *)
HasName(m, bar) ==
  CASE m # "-lhd-" -> filename = 1
    [] IsLink(m)   -> bar
    [] OTHER       -> path = 1

(* The OS-9/68k fix and os9_to_unix_permissions. *)
SettlePermissions ==
  LET given == IF os_type = "os9_68k" /\ "UNIX_PERMS" \in extra_flags
               THEN extra_flags \cup {"OS9_PERMS"} ELSE extra_flags
  IN  IF "OS9_PERMS" \in given
      THEN extra_flags' = given \cup {"UNIX_PERMS"} /\ perms' = "other"
      ELSE extra_flags' = given /\ UNCHANGED perms

FixLhark(m) == IF header_level = 1 /\ os_type = "lhark" /\ m = "-lh7-" THEN "-lk7-" ELSE m

FinishHeader ==
  /\ step = "tail"
  /\ \E empty \in BOOLEAN, bar \in BOOLEAN, crc_ok \in BOOLEAN :
       LET m == FixAmiga(empty)
       IN  IF HasName(m, bar) /\ ("COMMON_CRC" \in extra_flags => crc_ok)
           THEN /\ step' = "ok"
                /\ IF IsLink(m) THEN parse_symlink ELSE UNCHANGED nameVars
                /\ SettlePermissions
                /\ method' = FixLhark(m)
                /\ touched' = {Access(0, raw_data_len, 0, raw_data_len)}
                /\ UNCHANGED <<left, raw_data_len, header_level, compressed_length, os_type,
                               chainVars, histVars>>
           ELSE Fail

-----------------------------------------------------------------------------
HeaderInit ==
  /\ left \in StreamLens
  /\ step = "start"
  /\ raw_data_len = 0 /\ header_level = 0 /\ compressed_length = 0
  /\ method = "-lh0-" /\ os_type = "unknown" /\ extra_flags = {} /\ perms = "other"
  /\ path = 0 /\ filename = 0 /\ target = 0
  /\ lens = [o \in {} |-> 0]
  /\ offset = 0 /\ available_length = 0
  /\ touched = {}
  /\ base_len = 0 /\ entry = 0

Done == step \in {"ok", "failed"} /\ UNCHANGED headerVars

HeaderNext ==
  \/ ReadCommonHeader
  \/ decode_level0_header
  \/ read_l1_extended_headers
  \/ decode_level2_header
  \/ decode_level3_header
  \/ decode_extended_headers
  \/ FinishHeader
  \/ Done

HeaderSpec == HeaderInit /\ [][HeaderNext]_headerVars

-----------------------------------------------------------------------------
(* Properties *)

(* Every byte of raw_data that header decoding reads or writes has been    *)
(* read from the stream, and a decoder of an extended header stays inside  *)
(* the data it is handed: the checks of header_len, path_len,              *)
(* ext_header_len and min_len are together enough, at every level.         *)
InBounds ==
  \A t \in touched : t.lo <= t.from /\ t.to <= t.hi /\ t.hi <= raw_data_len

(* While decode_extended_headers walks, the length field it is at and what *)
(* it counts as available reach exactly to the end of raw_data: neither    *)
(* part of the header is counted twice, nor does the unsigned count wrap.  *)
WalkTight ==
  step = "ext" => offset + field_size + available_length = raw_data_len

(* In a level 1 header the walk of decode_extended_headers comes to the    *)
(* very length fields that read_l1_extended_headers followed when it read  *)
(* the headers, and finds each of them in order.                           *)
WalksWhatWasRead ==
  step = "ext" /\ header_level = 1 =>
    offset \in DOMAIN lens /\ lens[offset] <= available_length

(* The end of a level 1 entry is where its base header says, however much  *)
(* of the length is taken by extended headers: the compressed data that is *)
(* left is what the next header is found after.                            *)
EntryLength ==
  header_level = 1 /\ step \in {"l1", "ext", "tail", "ok"} /\ "64BIT_SIZES" \notin extra_flags =>
    raw_data_len + compressed_length = base_len + entry

(* The lengths of read_next_ext_header, read_l1_extended_headers and       *)
(* decode_extended_headers agree with the bytes they stand for, and none   *)
(* ever goes below zero, which would make it huge.                         *)
LengthsExact ==
  /\ raw_data_len \in Nat /\ compressed_length \in Nat /\ available_length \in Nat
  /\ WalkTight
  /\ EntryLength

(* A header that is returned can be used as LHAReader uses it, without a   *)
(* check for NULL: a directory has a path, anything else has a file name,  *)
(* and only a -lhd- entry is a link.                                       *)
Usable ==
  step = "ok" =>
    /\ IF method = "-lhd-" /\ target = 0 THEN path = 1 ELSE filename = 1
    /\ target = 1 => method = "-lhd-"
=============================================================================
