---------------------------- MODULE HeaderProofs ----------------------------
(***************************************************************************)
(* How a header is found and decoded.                                      *)
(*                                                                         *)
(* For sources and buffers of every size: bytes are delivered in order,    *)
(* and the header found does not depend on how the source cuts its data    *)
(* into reads.                                                             *)
(*                                                                         *)
(* For headers of every length: decoding stays in the bytes that were      *)
(* read, the walk over the extended headers accounts for every byte, it    *)
(* meets in a level 1 header what was read, and the entry ends where the   *)
(* base header says; a header that is returned has the names that the      *)
(* reader uses.                                                            *)
(***************************************************************************)
EXTENDS FileHeader, InputStream, TLAPS

(* FileHeader *)

(* The types that the arithmetic needs. *)
HeaderTypes ==
  /\ left \in Nat /\ raw_data_len \in Nat /\ compressed_length \in Nat
  /\ header_level \in 0..3
  /\ offset \in Nat /\ available_length \in Nat
  /\ base_len \in Nat /\ entry \in Nat

(* What has been read at each stage. *)
Stage ==
  /\ step \in {"start", "base", "l1", "ext", "tail", "ok", "failed"}
  /\ step = "start" => raw_data_len = 0 /\ header_level = 0
  /\ step = "base" => raw_data_len = COMMON_HEADER_LEN
  /\ step = "l1" => header_level = 1 /\ offset + 2 <= raw_data_len

(* The length fields that a level 1 header was read along: each leads to   *)
(* the next, up to the one that is to be read, and ends before it.         *)
Chain ==
  /\ \A o \in DOMAIN lens :
       o \in Nat /\ lens[o] \in Nat /\ o + 2 + lens[o] <= raw_data_len
  /\ step \in {"start", "base"} => DOMAIN lens = {}
  /\ step = "l1" =>
       /\ offset \in DOMAIN lens \/ offset = raw_data_len - 2
       /\ \A o \in DOMAIN lens :
            /\ lens[o] >= 3
            /\ o + lens[o] \in DOMAIN lens \/ o + lens[o] = raw_data_len - 2
  /\ step = "ext" /\ header_level = 1 =>
       /\ offset \in DOMAIN lens
       /\ \A o \in DOMAIN lens : lens[o] # 0 => o + lens[o] \in DOMAIN lens

IInv == HeaderTypes /\ Stage /\ InBounds /\ WalkTight /\ Chain /\ EntryLength

-----------------------------------------------------------------------------
(* Giving up keeps every fact: nothing is accessed. *)
LEMMA FailKeeps ==
  ASSUME IInv, Fail
  PROVE  IInv'
  BY DEF IInv, HeaderTypes, Stage, InBounds, WalkTight, Chain, EntryLength, Fail, chainVars,
         histVars, metaVars, nameVars, field_size

(* The first 22 bytes. *)
LEMMA CommonKeeps ==
  ASSUME IInv, ReadCommonHeader
  PROVE  IInv'
<1>1. PICK level \in 0..4 :
        IF CanExtend(COMMON_HEADER_LEN) /\ level < 4
        THEN /\ extend_raw_data(COMMON_HEADER_LEN)
             /\ header_level' = level
             /\ step' = "base"
             /\ touched' = {Access(20, 21, 0, COMMON_HEADER_LEN)}
             /\ UNCHANGED <<compressed_length, nameVars, metaVars, chainVars, histVars>>
        ELSE Fail
  BY DEF ReadCommonHeader
<1>2. CASE CanExtend(COMMON_HEADER_LEN) /\ level < 4
  BY <1>1, <1>2 DEF IInv, HeaderTypes, Stage, InBounds, WalkTight, Chain, EntryLength, chainVars,
     histVars, metaVars, nameVars, field_size, ReadCommonHeader, CanExtend,
     extend_raw_data, COMMON_HEADER_LEN, Access
<1>3. CASE ~(CanExtend(COMMON_HEADER_LEN) /\ level < 4)
  BY <1>1, <1>3, FailKeeps
<1> QED
  BY <1>2, <1>3

(* What the area of a level 0 header is looked at for lies in the area. *)
LEMMA AreaBounds ==
  ASSUME NEW m, NEW data_len \in Int, data_len >= 0,
         NEW a \in process_level0_extended_area(m, data_len)
  PROVE  a.upto \in Int /\ 0 <= a.upto /\ a.upto <= data_len
<1>1. CASE a \in process_level0_unix_area(data_len)
  BY <1>1 DEF process_level0_unix_area
<1>2. CASE a \in process_level0_os9_area(data_len)
  BY <1>2 DEF process_level0_os9_area, LEVEL_0_OS9_EXTENDED_LEN
<1>3. CASE a = [os |-> "unknown", flags |-> {}, perms |-> "other",
                upto |-> IF data_len > 0 THEN 1 ELSE 0]
  BY <1>3
<1> QED
  BY <1>1, <1>2, <1>3 DEF process_level0_extended_area

(* The base header of levels 0 and 1. *)
LEMMA Level0Keeps ==
  ASSUME IInv, decode_level0_header
  PROVE  IInv'
<1>0. step = "base" /\ header_level \in {0, 1} /\ raw_data_len = 22 /\ left \in Nat
  BY DEF decode_level0_header, IInv, Stage, HeaderTypes, COMMON_HEADER_LEN
<1>1. SUFFICES ASSUME ~Fail
               PROVE  IInv'
  BY FailKeeps
<1>2. PICK header_len \in HeaderLens, path_len \in PathLens :
        /\ BaseFits(header_len, path_len,
                    IF header_level = 0 THEN LEVEL_0_MIN_HEADER_LEN ELSE LEVEL_1_MIN_HEADER_LEN)
        /\ extend_raw_data(header_len + 2 - raw_data_len)
        /\ compressed_length' \in CompLens
        /\ entry' = compressed_length'
        /\ base_len' = header_len + 2
        /\ \E area \in Areas(header_len, path_len) :
             DecodeBase(header_len + 2, path_len, area)
        /\ offset' = IF header_level = 0 THEN offset ELSE ext_header_start(header_len + 2)
        /\ step' = IF header_level = 0 THEN "tail" ELSE "l1"
        /\ UNCHANGED <<header_level, lens, available_length>>
  BY <1>1 DEF decode_level0_header
<1> DEFINE len  == header_len + 2
           area == IF header_level = 0 THEN header_len - 22 - path_len ELSE 0
<1>3. header_len \in Nat /\ path_len \in Nat /\ CompLens \subseteq Nat
  BY HeaderAssumption
<1>4. /\ header_len >= 22 /\ 22 + path_len <= header_len /\ len - 22 <= left
      /\ header_level = 1 => 25 + path_len <= header_len
      /\ area \in Int /\ area >= 0
  BY <1>0, <1>2, <1>3 DEF BaseFits, CanExtend, PathFits, LEVEL_0_MIN_HEADER_LEN, LEVEL_1_MIN_HEADER_LEN
<1>5. raw_data_len' = len /\ left' = left - (len - 22) /\ left' \in Nat
  BY <1>0, <1>2, <1>3, <1>4 DEF extend_raw_data
<1>6. compressed_length' \in Nat /\ entry' = compressed_length' /\ base_len' = len
  BY <1>2, <1>3
<1>7. PICK a \in process_level0_extended_area(method', area) :
        touched' = {Access(0, 22, 0, len), Access(22, 22 + path_len, 0, len),
                    Access(22 + path_len, 24 + path_len, 0, len),
                    IF header_level = 0
                    THEN Access(24 + path_len, 24 + path_len + a.upto, 0, len)
                    ELSE Access(24 + path_len, 25 + path_len, 0, len)}
  BY <1>2 DEF Areas, DecodeBase, LEVEL_0_MIN_HEADER_LEN
<1>8. a.upto \in Int /\ 0 <= a.upto /\ a.upto <= area
  BY <1>4, <1>7, AreaBounds
<1>9. InBounds'
  <2> HIDE DEF area
  <2>1. header_level = 0 => area = header_len - 22 - path_len
    BY DEF area
  <2> QED
    BY <1>0, <1>3, <1>4, <1>5, <1>7, <1>8, <2>1 DEF InBounds, Access
<1>10. lens' = lens /\ header_level' = header_level /\ available_length' = available_length
  BY <1>2
<1>11. DOMAIN lens = {}
  BY <1>0 DEF IInv, Chain
<1>12. CASE header_level = 0
  <2>1. step' = "tail" /\ offset' = offset
    BY <1>2, <1>12
  <2> QED
    BY <2>1, <1>12, <1>3, <1>4, <1>5, <1>6, <1>9, <1>10, <1>11
       DEF IInv, HeaderTypes, Stage, WalkTight, Chain, EntryLength
<1>13. CASE header_level = 1
  <2>1. step' = "l1" /\ offset' = header_len
    BY <1>2, <1>13, <1>3 DEF ext_header_start
  <2> QED
    BY <2>1, <1>13, <1>3, <1>4, <1>5, <1>6, <1>9, <1>10, <1>11
       DEF IInv, HeaderTypes, Stage, WalkTight, Chain, EntryLength
<1> QED
  BY <1>0, <1>12, <1>13

(* A turn of reading the extended headers of level 1. *)
LEMMA ReadL1Keeps ==
  ASSUME IInv, read_l1_extended_headers
  PROVE  IInv'
<1>0. /\ step = "l1" /\ header_level = 1 /\ offset + 2 <= raw_data_len
      /\ raw_data_len \in Nat /\ offset \in Nat /\ left \in Nat /\ compressed_length \in Nat
      /\ ExtLens \subseteq Nat
  BY HeaderAssumption DEF read_l1_extended_headers, IInv, Stage, HeaderTypes
<1> DEFINE at == raw_data_len - 2
           grown(len) == [o \in DOMAIN lens \cup {at} |-> IF o = at THEN len ELSE lens[o]]
<1>1. /\ at \in Nat
      /\ \A o \in DOMAIN lens : o \in Nat /\ lens[o] \in Nat /\ lens[o] >= 3
                                  /\ o + 2 + lens[o] <= raw_data_len
      /\ \A o \in DOMAIN lens : o + lens[o] \in DOMAIN lens \/ o + lens[o] = at
      /\ offset \in DOMAIN lens \/ offset = at
  BY <1>0 DEF IInv, Chain
<1>2. at \notin DOMAIN lens
  BY <1>0, <1>1
<1>3. SUFFICES ASSUME ~Fail
               PROVE  IInv'
  BY FailKeeps
<1>4. PICK len \in ExtLens :
        \/ /\ len = 0
           /\ BeginChain(offset, raw_data_len)
           /\ UNCHANGED <<left, raw_data_len, compressed_length, header_level, nameVars,
                          metaVars, histVars>>
           /\ touched' = {Access(at, at + 2, 0, raw_data_len)}
           /\ lens' = grown(len)
        \/ /\ CanExtend(len) /\ Covers(len) /\ len >= 3
           /\ extend_raw_data(len)
           /\ CountOff(len)
           /\ UNCHANGED <<step, header_level, nameVars, metaVars, offset, available_length,
                          histVars>>
           /\ touched' = {Access(at, at + 2, 0, raw_data_len)}
           /\ lens' = grown(len)
  BY <1>3 DEF read_l1_extended_headers
<1>5. /\ DOMAIN lens' = DOMAIN lens \cup {at}
      /\ lens'[at] = len
      /\ \A o \in DOMAIN lens : lens'[o] = lens[o]
  BY <1>2, <1>4
<1> HIDE DEF grown
<1>6. CASE len = 0
  <2>1. /\ step' = "ext" /\ offset' = offset /\ available_length' = raw_data_len - offset - 2
        /\ UNCHANGED <<left, raw_data_len, compressed_length, header_level, extra_flags,
                       base_len, entry>>
        /\ touched' = {Access(at, at + 2, 0, raw_data_len)}
    BY <1>0, <1>4, <1>6 DEF BeginChain, field_size, metaVars, histVars
  <2>2. HeaderTypes' /\ Stage' /\ WalkTight'
    BY <1>0, <2>1 DEF IInv, HeaderTypes, Stage, WalkTight, field_size
  <2>3. InBounds'
    BY <1>0, <2>1 DEF InBounds, Access
  <2>4. Chain'
    BY <1>0, <1>1, <1>5, <1>6, <2>1 DEF Chain
  <2>5. EntryLength'
    BY <1>0, <2>1 DEF IInv, EntryLength
  <2> QED
    BY <2>2, <2>3, <2>4, <2>5 DEF IInv
<1>7. CASE len # 0
  <2>1. /\ len \in Nat /\ len >= 3 /\ len <= left /\ len <= compressed_length
        /\ left' = left - len /\ raw_data_len' = raw_data_len + len
        /\ compressed_length' = compressed_length - len
        /\ UNCHANGED <<step, header_level, extra_flags, offset, available_length, base_len, entry>>
        /\ touched' = {Access(at, at + 2, 0, raw_data_len)}
    BY <1>0, <1>4, <1>7 DEF CanExtend, Covers, CountOff, extend_raw_data, metaVars, histVars
  <2>2. HeaderTypes' /\ Stage' /\ WalkTight'
    BY <1>0, <2>1 DEF IInv, HeaderTypes, Stage, WalkTight, field_size
  <2>3. InBounds'
    BY <1>0, <2>1 DEF InBounds, Access
  <2>4. Chain'
    <3>1. at + len = raw_data_len' - 2
      BY <1>0, <2>1
    <3> QED
      BY <1>0, <1>1, <1>5, <2>1, <3>1 DEF Chain
  <2>5. EntryLength'
    BY <1>0, <2>1 DEF IInv, EntryLength, HeaderTypes
  <2> QED
    BY <2>2, <2>3, <2>4, <2>5 DEF IInv
<1> QED
  BY <1>6, <1>7

(* A level 2 header. *)
LEMMA Level2Keeps ==
  ASSUME IInv, decode_level2_header
  PROVE  IInv'
<1>0. /\ step = "base" /\ header_level = 2 /\ raw_data_len = 22 /\ left \in Nat
      /\ DOMAIN lens = {} /\ HeaderLens \subseteq Nat /\ CompLens \subseteq Nat
  BY HeaderAssumption DEF decode_level2_header, IInv, Stage, HeaderTypes, Chain, COMMON_HEADER_LEN
<1>1. SUFFICES ASSUME ~Fail
               PROVE  IInv'
  BY FailKeeps
<1>2. PICK header_len \in HeaderLens, os \in InOsTypes :
        /\ header_len >= 26
        /\ touched' = {Access(0, 24, 0, header_len)}
        /\ \E len \in {header_len, header_len + 2} :
             /\ len - raw_data_len <= left
             /\ extend_raw_data(len - raw_data_len)
             /\ FixedPart(os, len)
             /\ BeginChain(24, len)
  BY <1>1 DEF decode_level2_header, LEVEL_2_HEADER_LEN
<1>3. PICK len \in {header_len, header_len + 2} :
        /\ len - raw_data_len <= left
        /\ extend_raw_data(len - raw_data_len)
        /\ FixedPart(os, len)
        /\ BeginChain(24, len)
  BY <1>2
<1>4. /\ header_len \in Nat /\ len \in Nat /\ header_len <= len
      /\ 26 <= len /\ len - 22 <= left
  BY <1>0, <1>2, <1>3
<1>5. /\ step' = "ext" /\ offset' = 24 /\ available_length' = len - 24 - 2
      /\ raw_data_len' = len /\ left' = left - (len - 22)
      /\ lens' = lens /\ header_level' = header_level
      /\ compressed_length' \in Nat /\ entry' \in Nat /\ base_len' = len
  BY <1>0, <1>4, <1>3 DEF BeginChain, extend_raw_data, FixedPart, field_size
<1>6. HeaderTypes' /\ Stage' /\ WalkTight' /\ EntryLength' /\ Chain'
  <2>1. HeaderTypes'
    BY <1>0, <1>4, <1>5 DEF HeaderTypes
  <2>2. Stage'
    BY <1>0, <1>4, <1>5 DEF Stage
  <2>3. WalkTight' /\ EntryLength'
    BY <1>0, <1>4, <1>5 DEF WalkTight, EntryLength, field_size
  <2>4. Chain'
    BY <1>0, <1>4, <1>5 DEF Chain
  <2> QED
    BY <2>1, <2>2, <2>3, <2>4
<1>7. InBounds'
  BY <1>2, <1>4, <1>5 DEF InBounds, Access
<1> QED
  BY <1>6, <1>7 DEF IInv

(* A level 3 header. *)
LEMMA Level3Keeps ==
  ASSUME IInv, decode_level3_header
  PROVE  IInv'
<1>0. /\ step = "base" /\ header_level = 3 /\ raw_data_len = 22 /\ left \in Nat
      /\ DOMAIN lens = {} /\ HeaderLens \subseteq Nat /\ CompLens \subseteq Nat
  BY HeaderAssumption DEF decode_level3_header, IInv, Stage, HeaderTypes, Chain, COMMON_HEADER_LEN
<1>1. SUFFICES ASSUME ~Fail
               PROVE  IInv'
  BY FailKeeps
<1>2. PICK header_len \in HeaderLens, os \in InOsTypes :
        /\ header_len >= 32 /\ header_len - raw_data_len <= left
        /\ extend_raw_data(header_len - raw_data_len)
        /\ FixedPart(os, header_len)
        /\ touched' = {Access(24, 28, 0, 32), Access(0, 24, 0, header_len)}
        /\ BeginChain(28, header_len)
  BY <1>1 DEF decode_level3_header, LEVEL_3_HEADER_LEN, CanExtend
<1>3. header_len \in Nat /\ 32 <= header_len /\ header_len - 22 <= left
  BY <1>0, <1>2
<1>4. /\ step' = "ext" /\ offset' = 28 /\ available_length' = header_len - 28 - 4
      /\ raw_data_len' = header_len /\ left' = left - (header_len - 22)
      /\ lens' = lens /\ header_level' = header_level
      /\ compressed_length' \in Nat /\ entry' \in Nat /\ base_len' = header_len
  BY <1>0, <1>2, <1>3 DEF BeginChain, extend_raw_data, FixedPart, field_size
<1>5. HeaderTypes' /\ Stage' /\ WalkTight' /\ EntryLength' /\ Chain'
  <2>1. HeaderTypes'
    BY <1>0, <1>3, <1>4 DEF HeaderTypes
  <2>2. Stage'
    BY <1>0, <1>3, <1>4 DEF Stage
  <2>3. WalkTight' /\ EntryLength'
    BY <1>0, <1>3, <1>4 DEF WalkTight, EntryLength, field_size
  <2>4. Chain'
    BY <1>0, <1>3, <1>4 DEF Chain
  <2> QED
    BY <2>1, <2>2, <2>3, <2>4
<1>6. InBounds'
  BY <1>2, <1>3, <1>4 DEF InBounds, Access
<1> QED
  BY <1>5, <1>6 DEF IInv

(* The minimum length of each type of extended header is enough for what   *)
(* its decoder reads.                                                      *)
LEMMA ReadsInData ==
  ASSUME NEW num, NEW data_len \in Int, Decodes(num, data_len),
         NEW a \in DecoderReads(num, data_len)
  PROVE  a[1] \in Int /\ a[2] \in Int /\ 0 <= a[1] /\ a[2] <= data_len
  BY DEF Decodes, DecoderReads, ext_header_types

(* A turn of the walk over the extended headers. *)
LEMMA ExtKeeps ==
  ASSUME IInv, decode_extended_headers
  PROVE  IInv'
<1>0. /\ step = "ext" /\ raw_data_len \in Nat /\ offset \in Nat /\ available_length \in Nat
      /\ field_size \in {2, 4} /\ offset + field_size + available_length = raw_data_len
      /\ header_level \in 0..3
      /\ compressed_length \in Nat /\ CompLens \subseteq Nat /\ ExtLens \subseteq Nat
  BY HeaderAssumption DEF decode_extended_headers, IInv, HeaderTypes, WalkTight, field_size
<1>1. SUFFICES ASSUME ~Fail
               PROVE  IInv'
  BY FailKeeps
<1>2. offset <= raw_data_len - field_size
  BY <1>0
<1>3. PICK len \in LengthAt(offset) :
        \/ /\ len = 0 /\ step' = "tail" /\ touched' = {FieldAccess} /\ Skipped
           /\ UNCHANGED <<left, raw_data_len, header_level, chainVars, histVars>>
        \/ /\ len # 0 /\ GoodLength(len)
           /\ \E num \in InExtTypes : DecodeOne(num, len)
           /\ Advance(len)
           /\ UNCHANGED <<left, step, raw_data_len, header_level, lens, histVars>>
  BY <1>1, <1>2 DEF decode_extended_headers
<1>4. len \in Nat
  BY <1>0, <1>3, Zenon DEF LengthAt, IInv, Chain
<1>5. CASE len = 0
  <2>1. /\ step' = "tail" /\ touched' = {FieldAccess}
        /\ UNCHANGED <<left, raw_data_len, header_level, lens, offset, available_length,
                       base_len, entry, compressed_length, extra_flags>>
    BY <1>3, <1>5 DEF Skipped, chainVars, histVars, metaVars
  <2>2. InBounds'
    BY <1>0, <1>2, <2>1 DEF InBounds, Access, FieldAccess
  <2> QED
    BY <1>0, <2>1, <2>2 DEF IInv, HeaderTypes, Stage, WalkTight, Chain, EntryLength
<1>6. CASE len # 0
  <2>1. /\ field_size + 1 <= len /\ len <= available_length
        /\ offset' = offset + len /\ available_length' = available_length - len
        /\ UNCHANGED <<left, step, raw_data_len, header_level, lens, base_len, entry>>
    BY <1>3, <1>6 DEF GoodLength, Advance, histVars
  <2>2. PICK num \in InExtTypes : DecodeOne(num, len)
    BY <1>3, <1>6
  <2>3. InBounds'
    <3>1. FieldAccess.hi = raw_data_len /\ FieldAccess.lo <= FieldAccess.from
             /\ FieldAccess.to <= FieldAccess.hi
      BY <1>0 DEF FieldAccess, Access
    <3>2. TypeAccess.hi = raw_data_len /\ TypeAccess.lo <= TypeAccess.from
             /\ TypeAccess.to <= TypeAccess.hi
      BY <1>0, <1>4, <2>1 DEF TypeAccess, Access
    <3>3. ASSUME Decodes(num, len - field_size - 1),
                 NEW a \in DecoderReads(num, len - field_size - 1)
          PROVE  LET t == DataAccess(a, len)
                 IN  t.lo <= t.from /\ t.to <= t.hi /\ t.hi <= raw_data_len
      <4>1. len - field_size - 1 \in Int
        BY <1>0, <1>4
      <4>2. a[1] \in Int /\ a[2] \in Int /\ 0 <= a[1] /\ a[2] <= len - field_size - 1
        BY <3>3, <4>1, ReadsInData
      <4> QED
        BY <1>0, <1>4, <2>1, <4>2 DEF DataAccess, Access
    <3>4. raw_data_len' = raw_data_len
      BY <2>1
    <3>5. ASSUME NEW t \in touched'
          PROVE  t.lo <= t.from /\ t.to <= t.hi /\ t.hi <= raw_data_len
      <4>1. \/ t = FieldAccess
            \/ t = TypeAccess
            \/ /\ Decodes(num, len - field_size - 1)
               /\ \E a \in DecoderReads(num, len - field_size - 1) : t = DataAccess(a, len)
        BY <2>2, <3>5, Zenon DEF DecodeOne
      <4> QED
        BY <1>0, <3>1, <3>2, <3>3, <4>1
    <3> QED
      BY <3>4, <3>5 DEF InBounds
  <2>4. /\ compressed_length' \in Nat
        /\ extra_flags \subseteq extra_flags'
        /\ "64BIT_SIZES" \notin extra_flags' => compressed_length' = compressed_length
    BY <1>0, <2>2 DEF DecodeOne, lha_ext_header_decode, Skipped, metaVars, FlagOf
  <2>5. HeaderTypes' /\ Stage' /\ WalkTight'
    BY <1>0, <1>4, <2>1, <2>4 DEF IInv, HeaderTypes, Stage, WalkTight, field_size
  <2>6. EntryLength'
    BY <1>0, <2>1, <2>4 DEF IInv, EntryLength
  <2>7. Chain'
    <3>1. header_level = 1 => len = lens[offset] /\ offset \in DOMAIN lens
      BY <1>0, <1>3 DEF IInv, Chain, LengthAt
    <3> QED
      BY <1>0, <1>6, <2>1, <3>1 DEF IInv, Chain
  <2> QED
    BY <2>3, <2>5, <2>6, <2>7 DEF IInv
<1> QED
  BY <1>5, <1>6

(* The rest of lha_file_header_read. *)
LEMMA FinishKeeps ==
  ASSUME IInv, FinishHeader
  PROVE  IInv'
<1>1. SUFFICES ASSUME ~Fail
               PROVE  IInv'
  BY FailKeeps
<1>2. /\ step = "tail" /\ step' = "ok"
      /\ touched' = {Access(0, raw_data_len, 0, raw_data_len)}
      /\ UNCHANGED <<left, raw_data_len, header_level, compressed_length, lens, offset,
                     available_length, base_len, entry>>
  BY <1>1 DEF FinishHeader, chainVars, histVars
<1>3. extra_flags \subseteq extra_flags'
  BY <1>1 DEF FinishHeader, SettlePermissions
<1>4. InBounds'
  BY <1>2 DEF InBounds, Access, IInv, HeaderTypes
<1> QED
  BY <1>2, <1>3, <1>4 DEF IInv, HeaderTypes, Stage, WalkTight, Chain, EntryLength

(* Nothing at all. *)
LEMMA StutterKeeps ==
  ASSUME IInv, UNCHANGED headerVars
  PROVE  IInv'
  BY DEF headerVars, chainVars, histVars, metaVars, nameVars, IInv, HeaderTypes, Stage, InBounds, WalkTight,
         Chain, EntryLength, field_size

(* The strengthened invariant holds throughout. *)
LEMMA HeaderInvariant == HeaderSpec => []IInv
<1>1. HeaderInit => IInv
  BY HeaderAssumption DEF HeaderInit, IInv, HeaderTypes, Stage, InBounds, WalkTight, Chain, EntryLength,
     field_size
<1>2. IInv /\ [HeaderNext]_headerVars => IInv'
  <2> SUFFICES ASSUME IInv, [HeaderNext]_headerVars
               PROVE  IInv'
    OBVIOUS
  <2>1. CASE ReadCommonHeader
    BY <2>1, CommonKeeps
  <2>2. CASE decode_level0_header
    BY <2>2, Level0Keeps
  <2>3. CASE read_l1_extended_headers
    BY <2>3, ReadL1Keeps
  <2>4. CASE decode_level2_header
    BY <2>4, Level2Keeps
  <2>5. CASE decode_level3_header
    BY <2>5, Level3Keeps
  <2>6. CASE decode_extended_headers
    BY <2>6, ExtKeeps
  <2>7. CASE FinishHeader
    BY <2>7, FinishKeeps
  <2>8. CASE Done \/ UNCHANGED headerVars
    BY <2>8, StutterKeeps DEF Done
  <2> QED
    BY <2>1, <2>2, <2>3, <2>4, <2>5, <2>6, <2>7, <2>8 DEF HeaderNext
<1> QED
  BY <1>1, <1>2, PTL DEF HeaderSpec

-----------------------------------------------------------------------------
(* Header decoding never gets at a byte of raw_data that was not read, and *)
(* no decoder of an extended header leaves its data: whatever the lengths  *)
(* in the header, at every level.                                          *)
THEOREM DecodingStaysInBounds == HeaderSpec => []InBounds
  BY HeaderInvariant, PTL DEF IInv

(* The two loops over the extended headers of a level 1 header agree on    *)
(* where the headers are.                                                  *)
THEOREM LoopsAgree == HeaderSpec => []WalksWhatWasRead
<1>1. IInv => WalksWhatWasRead
  BY DEF IInv, HeaderTypes, WalkTight, Chain, WalksWhatWasRead, field_size
<1> QED
  BY <1>1, HeaderInvariant, PTL

(* The count of available bytes is exact at every turn of the walk, the    *)
(* end of a level 1 entry is kept while its extended headers are counted   *)
(* off its length, and no count wraps.                                     *)
THEOREM LengthsStayExact == HeaderSpec => []LengthsExact
<1>1. IInv => LengthsExact
  BY DEF IInv, HeaderTypes, LengthsExact
<1> QED
  BY <1>1, HeaderInvariant, PTL

(* Until FinishHeader runs, the header has no link target, whatever its    *)
(* extended headers hold.                                                  *)
TargetInv == (step # "ok" => target = 0) /\ Usable

(* No step before FinishHeader returns a header or sets a target. *)
LEMMA NotYetReturned ==
  ASSUME TargetInv, HeaderNext, ~FinishHeader, ~Done
  PROVE  TargetInv'
<1>1. step # "ok" /\ step' # "ok" /\ target' = target
  <2>1. CASE ReadCommonHeader
    BY <2>1 DEF ReadCommonHeader, Fail, nameVars
  <2>2. CASE decode_level0_header
    BY <2>2 DEF decode_level0_header, DecodeBase, process_level0_path, Fail, nameVars
  <2>3. CASE read_l1_extended_headers
    BY <2>3 DEF read_l1_extended_headers, BeginChain, Fail, nameVars
  <2>4. CASE decode_level2_header
    BY <2>4 DEF decode_level2_header, FixedPart, BeginChain, Fail, nameVars
  <2>5. CASE decode_level3_header
    BY <2>5 DEF decode_level3_header, FixedPart, BeginChain, Fail, nameVars
  <2>6. CASE decode_extended_headers
    BY <2>6 DEF decode_extended_headers, DecodeOne, lha_ext_header_decode, Skipped, Fail,
       nameVars
  <2>7. QED
    BY <2>1, <2>2, <2>3, <2>4, <2>5, <2>6 DEF HeaderNext
<1>2. QED
  BY <1>1 DEF TargetInv, Usable

(* FinishHeader returns a header with a name only. *)
LEMMA FinishIsUsable ==
  ASSUME TargetInv, FinishHeader
  PROVE  TargetInv'
<1>1. target = 0
  BY DEF TargetInv, FinishHeader
<1>2. CASE Fail
  BY <1>1, <1>2 DEF Fail, TargetInv, Usable, nameVars
<1>3. ASSUME NEW empty \in BOOLEAN, NEW bar \in BOOLEAN,
             HasName(FixAmiga(empty), bar), step' = "ok",
             IF IsLink(FixAmiga(empty)) THEN parse_symlink ELSE UNCHANGED nameVars,
             method' = FixLhark(FixAmiga(empty))
      PROVE  TargetInv'
  <2> DEFINE m == FixAmiga(empty)
  <2>1. method' = "-lhd-" <=> m = "-lhd-"
    BY <1>3 DEF FixLhark
  <2> HIDE DEF m
  <2>2. CASE IsLink(m)
    BY <1>3, <2>1, <2>2 DEF m, IsLink, parse_symlink, TargetInv, Usable
  <2>3. CASE ~IsLink(m)
    BY <1>1, <1>3, <2>1, <2>3 DEF m, HasName, nameVars, TargetInv, Usable
  <2>4. QED
    BY <2>2, <2>3
<1>4. QED
  BY <1>2, <1>3 DEF FinishHeader

(* A header that lha_file_header_read returns has the names that LHAReader *)
(* uses unchecked.                                                         *)
THEOREM HeadersAreUsable == HeaderSpec => []Usable
<1>1. HeaderInit => TargetInv
  BY DEF HeaderInit, TargetInv, Usable
<1>2. TargetInv /\ [HeaderNext]_headerVars => TargetInv'
  <2>1. TargetInv /\ UNCHANGED headerVars => TargetInv'
    BY DEF headerVars, nameVars, metaVars, TargetInv, Usable
  <2>2. TargetInv /\ HeaderNext => TargetInv'
    BY <2>1, NotYetReturned, FinishIsUsable DEF Done
  <2>3. QED
    BY <2>1, <2>2
<1>3. TargetInv => Usable
  BY DEF TargetInv
<1>4. QED
  BY <1>1, <1>2, <1>3, PTL DEF HeaderSpec

-----------------------------------------------------------------------------
(* InputStream *)

(* Consecutive bytes up to byte last. *)
Run(s, last) == \A j \in 1 .. Len(s) : s[j] = last - Len(s) + j

TypeInv ==
  /\ marks \in Seq({"h", "s", "x"})
  /\ pos \in Nat
  /\ state \in {"INIT", "READING", "FAIL"}
  /\ leadin \in Seq(Nat) /\ Len(leadin) <= LEADIN_BUFFER_LEN
  /\ skip_files \in {0, 1} /\ filepos \in Nat
  /\ pc \in {"idle", "sfx", "fill", "skip", "freed"}
  /\ want \in Nat
  /\ out \in Seq(Nat)
  /\ start \in Nat /\ passed \in Nat /\ intact \in {0, 1}

(* What is being waited for agrees with the state of the stream. *)
PhaseInv ==
  /\ pc = "sfx" => state = "INIT"
  /\ pc \in {"fill", "skip"} => state = "READING"
  /\ pc = "skip" => leadin = <<>>
  /\ state = "INIT" => passed = 0 /\ intact = 1 /\ out = <<>>

(* Before the header is found: the bytes not yet scanned are in the buffer *)
(* and too few to be scanned.                                              *)
SearchInv ==
  state = "INIT" =>
    /\ pos <= Size
    /\ Len(leadin) <= MATCH_LEN
    /\ filepos = pos - Len(leadin)

(* After that: what is in the buffer has been there since the header was   *)
(* found, so that it is empty once a whole header has been read.           *)
BufferInv ==
  state = "READING" =>
    /\ leadin # <<>> => pos <= start + LEADIN_BUFFER_LEN /\ intact = 1
    /\ intact = 1 /\ pc # "skip" => pos - Len(leadin) = start + passed
    /\ intact = 1 /\ pc = "skip" => pos + want = start + passed
    /\ intact = 1 /\ pc # "fill" => Run(out, start + passed)

OrderInv ==
  TypeInv /\ PhaseInv /\ SearchInv /\ BufferInv /\ Run(leadin, pos)

-----------------------------------------------------------------------------
(* What the assumption on the constants gives. *)
LEMMA ConstantFacts ==
  /\ LEADIN_BUFFER_LEN \in Nat /\ MATCH_LEN \in Nat /\ MATCH_LEN < LEADIN_BUFFER_LEN
  /\ MAX_SFX_HEADER_LEN \in Nat /\ SKIP_BUFFER_LEN \in Nat
  /\ Sizes \subseteq Nat
BY StreamAssumption

(* Nothing in the buffer: the position is that of the source. *)
LEMMA MinusNothing ==
  ASSUME NEW p \in Nat
  PROVE  p - 0 = p
OBVIOUS

(* Dropping bytes from the front keeps a run of bytes a run.               *)
LEMMA EmptyFacts ==
  ASSUME NEW buf \in Seq(Nat), NEW n \in 0 .. Len(buf), NEW last \in Nat, Run(buf, last)
  PROVE  /\ empty_leadin(buf, n) \in Seq(Nat)
         /\ Len(empty_leadin(buf, n)) = Len(buf) - n
         /\ Run(empty_leadin(buf, n), last)
<1>1. Len(buf) \in Nat
  OBVIOUS
<1> DEFINE rest == empty_leadin(buf, n)
<1>2. /\ rest \in Seq(Nat)
      /\ Len(rest) = Len(buf) - n
      /\ \A j \in 1 .. Len(buf) - n : rest[j] = buf[n + j]
  BY <1>1 DEF empty_leadin
<1> HIDE DEF rest
<1>3. ASSUME NEW j \in 1 .. Len(rest)
      PROVE  rest[j] = last - Len(rest) + j
  <2>1. n + j \in 1 .. Len(buf) /\ rest[j] = buf[n + j]
    BY <1>1, <1>2
  <2>2. buf[n + j] = last - Len(buf) + (n + j)
    BY <2>1, Zenon DEF Run
  <2>3. QED
    BY <1>1, <1>2, <2>1, <2>2
<1>4. QED
  BY <1>2, <1>3 DEF Run, rest

(* So does taking them from the front. *)
LEMMA FrontFacts ==
  ASSUME NEW buf \in Seq(Nat), NEW n \in 0 .. Len(buf), NEW last \in Nat, Run(buf, last)
  PROVE  /\ SubSeq(buf, 1, n) \in Seq(Nat)
         /\ Len(SubSeq(buf, 1, n)) = n
         /\ Run(SubSeq(buf, 1, n), last - Len(buf) + n)
<1>1. Len(buf) \in Nat
  OBVIOUS
<1> DEFINE front == SubSeq(buf, 1, n)
<1>2. /\ front \in Seq(Nat)
      /\ Len(front) = n
      /\ \A j \in 1 .. n : front[j] = buf[j]
  BY <1>1
<1> HIDE DEF front
<1>3. ASSUME NEW j \in 1 .. Len(front)
      PROVE  front[j] = last - Len(buf) + n - Len(front) + j
  <2>1. j \in 1 .. Len(buf) /\ front[j] = buf[j]
    BY <1>1, <1>2
  <2>2. buf[j] = last - Len(buf) + j
    BY <2>1 DEF Run
  <2>3. QED
    BY <1>1, <1>2, <2>1, <2>2
<1>4. QED
  BY <1>2, <1>3 DEF Run, front

(* And appending what comes from the source. *)
LEMMA AppendFacts ==
  ASSUME NEW buf \in Seq(Nat), NEW r \in Nat, pos \in Nat, Run(buf, pos)
  PROVE  /\ buf \o Bytes(r) \in Seq(Nat)
         /\ Len(buf \o Bytes(r)) = Len(buf) + r
         /\ Run(buf \o Bytes(r), pos + r)
<1>1. /\ Bytes(r) \in Seq(Nat)
      /\ Len(Bytes(r)) = r
      /\ \A j \in 1 .. r : Bytes(r)[j] = pos + j
  BY DEF Bytes
<1>2. Len(buf) \in Nat
  OBVIOUS
<1> DEFINE all == buf \o Bytes(r)
<1>3. /\ all \in Seq(Nat)
      /\ Len(all) = Len(buf) + r
      /\ \A j \in 1 .. Len(buf) : all[j] = buf[j]
      /\ \A j \in 1 .. r : all[Len(buf) + j] = Bytes(r)[j]
  BY <1>1, <1>2
<1> HIDE DEF all
<1>4. ASSUME NEW j \in 1 .. Len(all)
      PROVE  all[j] = pos + r - Len(all) + j
  <2>1. CASE j <= Len(buf)
    <3>1. j \in 1 .. Len(buf)
      BY <1>2, <2>1
    <3>2. all[j] = pos - Len(buf) + j
      BY <1>3, <3>1 DEF Run
    <3>3. QED
      BY <1>2, <1>3, <3>2
  <2>2. CASE j > Len(buf)
    <3>1. j - Len(buf) \in 1 .. r /\ j = Len(buf) + (j - Len(buf))
      BY <1>2, <1>3, <2>2
    <3>2. all[j] = pos + (j - Len(buf))
      BY <1>1, <1>3, <3>1, Zenon
    <3>3. QED
      BY <1>2, <1>3, <3>2
  <2>3. j \in Int /\ Len(buf) \in Int
    BY <1>2
  <2>4. QED
    BY <2>1, <2>2, <2>3
<1>5. QED
  BY <1>3, <1>4 DEF Run, all

(* What the read callback returns. *)
LEMMA ReadFacts ==
  ASSUME TypeInv, NEW n \in Nat, NEW r \in do_read(n)
  PROVE  /\ r \in Int /\ r <= n
         /\ r > 0 => pos + r <= Size
         /\ r = 0 => n = 0 \/ pos >= Size
         /\ r < 0 => faulty # 0
<1>1. Size \in Nat
  BY DEF Size, TypeInv
<1>2. QED
  BY <1>1, ConstantFacts DEF do_read, SmallerOf, TypeInv

-----------------------------------------------------------------------------
(* Order *)

(* A turn of skip_sfx: whatever was read is appended, and what was scanned *)
(* goes.                                                                   *)
LEMMA SfxKeepsOrder ==
  ASSUME OrderInv, skip_sfx
  PROVE  OrderInv'
<1> USE ConstantFacts
<1>1. /\ TypeInv /\ state = "INIT" /\ pc = "sfx" /\ passed = 0 /\ intact = 1
      /\ out = <<>> /\ pos \in Nat /\ leadin \in Seq(Nat) /\ Run(leadin, pos)
      /\ Len(leadin) <= MATCH_LEN /\ Len(leadin) \in Nat /\ Size \in Nat
      /\ filepos = pos - Len(leadin) /\ filepos \in Nat
  BY DEF OrderInv, PhaseInv, SearchInv, TypeInv, skip_sfx, Size
<1>2. UNCHANGED sourceVars
  BY DEF skip_sfx
<1>3. CASE GiveUp /\ UNCHANGED pos
  BY <1>1, <1>2, <1>3
     DEF GiveUp, OrderInv, TypeInv, PhaseInv, SearchInv, BufferInv, sourceVars, sfxVars
<1>4. CASE \E r \in do_read(LEADIN_BUFFER_LEN - Len(leadin)) :
             /\ r > 0
             /\ pos' = pos + r
             /\ FoundHeader(leadin \o Bytes(r)) \/ NotYet(leadin \o Bytes(r))
  <2>1. PICK r \in do_read(LEADIN_BUFFER_LEN - Len(leadin)) :
             /\ r > 0
             /\ pos' = pos + r
             /\ FoundHeader(leadin \o Bytes(r)) \/ NotYet(leadin \o Bytes(r))
    BY <1>4
  <2>2. LEADIN_BUFFER_LEN - Len(leadin) \in Nat
    BY <1>1
  <2>3. r \in Nat /\ r <= LEADIN_BUFFER_LEN - Len(leadin) /\ pos + r <= Size
    BY <1>1, <2>1, <2>2, ReadFacts
  <2> DEFINE buf == leadin \o Bytes(r)
  <2>4. /\ buf \in Seq(Nat) /\ Len(buf) = Len(leadin) + r /\ Run(buf, pos + r)
        /\ Len(buf) \in Nat
    BY <1>1, <2>3, AppendFacts
  <2>5. FoundHeader(buf) \/ NotYet(buf)
    BY <2>1
  <2> HIDE DEF buf
  <2>6. Scannable(buf) \in 0 .. Len(buf)
    BY <2>4 DEF Scannable
  <2>7. CASE FoundHeader(buf)
    <3>1. PICK i \in 1 .. Scannable(buf) :
            /\ leadin' = empty_leadin(buf, i - 1)
            /\ state' = "READING" /\ pc' = "fill"
            /\ start' = buf[i] - 1
            /\ UNCHANGED <<sfxVars, want, out, passed, intact>>
      BY <2>7 DEF FoundHeader
    <3>2. i - 1 \in 0 .. Len(buf) /\ i \in 1 .. Len(buf) /\ i \in Nat
      BY <2>4, <2>6
    <3>a. PICK last \in Nat : last = pos + r
      BY <1>1, <2>3
    <3>3. /\ leadin' \in Seq(Nat) /\ Len(leadin') = Len(buf) - (i - 1)
          /\ Run(leadin', pos + r)
      <4>0. PICK n \in 0 .. Len(buf) : n = i - 1
        BY <3>2
      <4>1. /\ empty_leadin(buf, n) \in Seq(Nat)
            /\ Len(empty_leadin(buf, n)) = Len(buf) - n
            /\ Run(empty_leadin(buf, n), last)
        <5>1. Run(buf, last)
          BY <2>4, <3>a
        <5>2. buf \in Seq(Nat)
          BY <2>4
        <5>3. QED
          BY ONLY <5>1, <5>2, EmptyFacts
      <4>2. QED
        BY <3>1, <3>a, <4>0, <4>1
    <3>4. start' = pos + r - Len(buf) + i - 1
      <4>1. \A j \in 1 .. Len(buf) : buf[j] = last - Len(buf) + j
        BY <2>4, <3>a DEF Run
      <4>2. buf[i] = last - Len(buf) + i
        BY <3>2, <4>1
      <4>3. QED
        BY <1>1, <2>3, <2>4, <3>1, <3>2, <3>a, <4>2
    <3>b. start' \in Nat /\ pos' <= start' + LEADIN_BUFFER_LEN
          /\ pos' - Len(leadin') = start' /\ Len(leadin') <= LEADIN_BUFFER_LEN
      <4>1. \A p, k, l, n \in Nat :
              /\ p - l \in Nat /\ n \in 1 .. l + k /\ l + k <= LEADIN_BUFFER_LEN
              => LET s == p + k - (l + k) + n - 1
                     m == l + k - (n - 1)
                 IN  s \in Nat /\ p + k <= s + LEADIN_BUFFER_LEN
                     /\ p + k - m = s /\ m <= LEADIN_BUFFER_LEN
        OBVIOUS
      <4>2. /\ pos \in Nat /\ Len(leadin) \in Nat /\ pos - Len(leadin) \in Nat
            /\ r \in Nat /\ Len(leadin) + r <= LEADIN_BUFFER_LEN
        BY <1>1, <2>3
      <4>3. i \in 1 .. Len(leadin) + r
        BY <2>4, <3>2
      <4>4. start' = pos + r - (Len(leadin) + r) + i - 1
        BY <2>4, <3>4
      <4>5. Len(leadin') = Len(leadin) + r - (i - 1)
        BY <2>4, <3>2, <3>3, <4>2
      <4>6. /\ pos + r - (Len(leadin) + r) + i - 1 \in Nat
            /\ pos + r <= pos + r - (Len(leadin) + r) + i - 1 + LEADIN_BUFFER_LEN
            /\ pos + r - (Len(leadin) + r - (i - 1)) = pos + r - (Len(leadin) + r) + i - 1
            /\ Len(leadin) + r - (i - 1) <= LEADIN_BUFFER_LEN
        BY <3>2, <4>1, <4>2, <4>3
      <4>7. pos' = pos + r
        BY <2>1
      <4>8. start' \in Nat /\ pos' <= start' + LEADIN_BUFFER_LEN
        BY <4>4, <4>6, <4>7, Zenon
      <4>9. pos' - Len(leadin') = start' /\ Len(leadin') <= LEADIN_BUFFER_LEN
        <5>1. Len(leadin') <= LEADIN_BUFFER_LEN
          BY <4>5, <4>6, Zenon
        <5>2. pos' - Len(leadin') = start'
          BY <3>2, <4>2, <4>4, <4>5, <4>7
        <5>3. QED
          BY <5>1, <5>2
      <4>10. QED
        BY <4>8, <4>9
    <3>5. TypeInv'
      BY <1>1, <1>2, <2>1, <2>3, <3>1, <3>3, <3>b
         DEF TypeInv, sourceVars, sfxVars
    <3>6. BufferInv'
      BY <1>1, <3>1, <3>b DEF BufferInv
    <3>7. QED
      BY <1>1, <2>1, <3>1, <3>3, <3>5, <3>6 DEF OrderInv, PhaseInv, SearchInv
  <2>8. CASE NotYet(buf)
    <3>1. /\ leadin' = empty_leadin(buf, Scannable(buf))
          /\ filepos' = filepos + Scannable(buf)
          /\ skip_files' \in {0, 1}
          /\ UNCHANGED <<state, pc, want, out, history>>
      BY <2>8 DEF NotYet
    <3>a. PICK last \in Nat : last = pos + r
      BY <1>1, <2>3
    <3>2. /\ leadin' \in Seq(Nat) /\ Len(leadin') = Len(buf) - Scannable(buf)
          /\ Run(leadin', pos + r)
      <4>1. Run(buf, last) /\ buf \in Seq(Nat)
        BY <2>4, <3>a
      <4>2. /\ empty_leadin(buf, Scannable(buf)) \in Seq(Nat)
            /\ Len(empty_leadin(buf, Scannable(buf))) = Len(buf) - Scannable(buf)
            /\ Run(empty_leadin(buf, Scannable(buf)), last)
        BY ONLY <2>6, <4>1, EmptyFacts, SMTT(30)
      <4>3. QED
        BY <3>1, <3>a, <4>2
    <3>3. Len(leadin') <= MATCH_LEN
      BY <2>4, <3>2 DEF Scannable
    <3>4. filepos' = pos' - Len(leadin') /\ filepos' \in Nat /\ pos' <= Size'
      <4>1. Size' = Size
        BY <1>2 DEF sourceVars, Size
      <4>2. filepos \in Nat
        BY <1>1 DEF TypeInv
      <4>3. pos' = pos + r /\ pos + r <= Size
        BY <2>1, <2>3
      <4>4. /\ pos \in Nat /\ r \in Nat /\ Len(leadin) \in Nat
            /\ filepos = pos - Len(leadin)
        BY <1>1, <2>3
      <4>5. QED
        BY ONLY <2>4, <2>6, <3>1, <3>2, <4>1, <4>2, <4>3, <4>4
    <3>5. TypeInv'
      <4>1. pos' \in Nat
        BY <1>1, <2>1, <2>3
      <4>2. Len(leadin') <= LEADIN_BUFFER_LEN
        BY <2>4, <3>2, <3>3, ConstantFacts
      <4>3. marks' = marks
        BY <1>2 DEF sourceVars
      <4>4. QED
        BY <1>1, <3>1, <3>2, <3>4, <4>1, <4>2, <4>3 DEF TypeInv, history
    <3>6. PhaseInv'
      <4>1. state = "INIT" /\ PhaseInv
        BY <1>1 DEF PhaseInv
      <4>2. pc' \notin {"fill", "skip"}
        BY <3>1, <4>1 DEF PhaseInv
      <4>3. QED
        BY <3>1, <4>1, <4>2 DEF PhaseInv, history
    <3>7. SearchInv'
      BY <3>3, <3>4 DEF SearchInv
    <3>8. BufferInv'
      <4>1. state' # "READING"
        BY <1>1, <3>1
      <4>2. QED
        BY <4>1 DEF BufferInv
    <3>9. Run(leadin, pos)'
      BY <2>1, <3>2 DEF Run
    <3>10. QED
      BY <3>5, <3>6, <3>7, <3>8, <3>9 DEF OrderInv
  <2>9. QED
    BY <2>5, <2>7, <2>8
<1>5. QED
  BY <1>3, <1>4 DEF skip_sfx

(* A read: what the buffer has, then what the source has. *)
LEMMA FillKeepsOrder ==
  ASSUME OrderInv, Fill
  PROVE  OrderInv'
<1> DEFINE n == SmallerOf(want, Len(leadin))
<1> DEFINE front == SubSeq(leadin, 1, n)
<1> DEFINE rest == empty_leadin(leadin, n)
<1>1. /\ TypeInv /\ state = "READING" /\ pc = "fill" /\ pos \in Nat /\ want \in Nat
      /\ leadin \in Seq(Nat) /\ Run(leadin, pos) /\ Len(leadin) \in Nat
      /\ start \in Nat /\ passed \in Nat /\ intact \in {0, 1}
      /\ Len(leadin) <= LEADIN_BUFFER_LEN
      /\ leadin # <<>> => pos <= start + LEADIN_BUFFER_LEN /\ intact = 1
      /\ intact = 1 => pos - Len(leadin) = start + passed
  BY DEF OrderInv, PhaseInv, BufferInv, TypeInv, Fill
<1>2. /\ leadin' = rest
      /\ UNCHANGED <<sourceVars, state, sfxVars, start>>
      /\ \/ n = want /\ out' = front /\ Return(TRUE, want) /\ UNCHANGED pos
         \/ /\ n < want
            /\ \E r \in do_read(want - n) :
                 LET got == IF r > 0 THEN r ELSE 0 IN
                 /\ out' = front \o Bytes(got)
                 /\ pos' = pos + got
                 /\ Return(n + got = want, want)
  BY Zenon DEF Fill
<1>3. n \in 0 .. Len(leadin) /\ n \in Nat /\ n <= want /\ (n < want => n = Len(leadin))
  BY <1>1 DEF SmallerOf
<1> HIDE DEF n
<1>4. /\ rest \in Seq(Nat) /\ Len(rest) = Len(leadin) - n /\ Run(rest, pos)
  BY <1>1, <1>3, EmptyFacts
<1>5. /\ front \in Seq(Nat) /\ Len(front) = n /\ Run(front, pos - Len(leadin) + n)
  BY <1>1, <1>3, FrontFacts
<1> HIDE DEF front, rest
<1>6. CASE n = want /\ out' = front /\ Return(TRUE, want) /\ UNCHANGED pos
  <2>1. /\ pc' = "idle" /\ want' = 0 /\ intact' = intact /\ pos' = pos
        /\ passed' = IF intact = 1 THEN passed + want ELSE passed
        /\ out' = front /\ n = want
    BY <1>6 DEF Return
  <2>2. TypeInv'
    BY <1>1, <1>2, <1>3, <1>4, <1>5, <2>1, ConstantFacts DEF TypeInv, sourceVars, sfxVars
  <2>3. rest # <<>> => leadin # <<>>
    BY <1>1, <1>3, <1>4
  <2>4. intact = 1 => pos - Len(rest) = start + (passed + want)
    BY <1>1, <1>3, <1>4, <2>1
  <2>5. intact = 1 => pos - Len(leadin) + n = start + (passed + want)
    BY <1>1, <1>3, <2>1
  <2>6. intact = 1 => Run(front, start + (passed + want))
    BY <1>5, <2>5
  <2>7. BufferInv'
    BY <1>1, <1>2, <2>1, <2>3, <2>4, <2>6 DEF BufferInv
  <2>8. QED
    BY <1>1, <1>2, <1>4, <2>1, <2>2, <2>7 DEF OrderInv, PhaseInv, SearchInv
<1>7. CASE /\ n < want
           /\ \E r \in do_read(want - n) :
                LET got == IF r > 0 THEN r ELSE 0 IN
                /\ out' = front \o Bytes(got)
                /\ pos' = pos + got
                /\ Return(n + got = want, want)
  <2>1. PICK got \in Nat : /\ out' = front \o Bytes(got)
                           /\ pos' = pos + got
                           /\ Return(n + got = want, want)
    <3>1. want - n \in Nat
      BY <1>1, <1>3
    <3>2. \A r \in do_read(want - n) : (IF r > 0 THEN r ELSE 0) \in Nat
      BY <1>1, <3>1, ReadFacts
    <3>3. QED
      BY <1>7, <3>2, Zenon
  <2>2. n = Len(leadin) /\ Len(rest) = 0
    BY <1>1, <1>3, <1>4, <1>7
  <2>3. rest = <<>>
    BY <1>4, <2>2
  <2>4. Run(front, pos)
    <3>1. pos - Len(leadin) + n = pos
      BY <1>1, <2>2
    <3>2. QED
      BY <1>5, <3>1
  <2>5. /\ out' \in Seq(Nat) /\ Run(out', pos + got)
    BY <1>1, <1>5, <2>1, <2>4, AppendFacts
  <2>6. /\ pc' = "idle" /\ want' = 0
        /\ intact' = IF n + got = want THEN intact ELSE 0
        /\ passed' = IF n + got = want /\ intact = 1 THEN passed + want ELSE passed
    BY <2>1 DEF Return
  <2>7. pos' \in Nat /\ passed' \in Nat /\ intact' \in {0, 1}
    BY <1>1, <2>1, <2>6
  <2>8. TypeInv'
    BY <1>1, <1>2, <1>4, <2>2, <2>5, <2>6, <2>7, ConstantFacts
       DEF TypeInv, sourceVars, sfxVars
  <2>9. intact' = 1 => pos + got = start + passed' /\ pos' = pos + got
    BY <1>1, <2>1, <2>2, <2>6
  <2>10. intact' = 1 => Run(out', start + passed')
    BY <2>5, <2>9
  <2>11. intact' = 1 => pos' - Len(leadin') = start + passed'
    BY <1>1, <1>2, <2>1, <2>2, <2>9
  <2>12. BufferInv'
    BY <1>1, <1>2, <2>3, <2>6, <2>10, <2>11 DEF BufferInv
  <2>13. Run(leadin', pos')
    BY <1>2, <2>2 DEF Run
  <2>14. QED
    BY <1>1, <1>2, <2>3, <2>6, <2>8, <2>12, <2>13 DEF OrderInv, PhaseInv, SearchInv
<1>8. QED
  BY <1>2, <1>6, <1>7, Zenon

(* Entering a read only sets what is wanted. *)
LEMMA ReadKeepsOrder ==
  ASSUME OrderInv, NEW n \in Sizes, lha_input_stream_read(n)
  PROVE  OrderInv'
BY ConstantFacts
   DEF OrderInv, TypeInv, PhaseInv, SearchInv, BufferInv, Run, Size,
       lha_input_stream_read, sourceVars, sfxVars, history

(* A skip goes past the buffer: by then it is empty. *)
LEMMA SkipKeepsOrder ==
  ASSUME OrderInv, NEW n \in Sizes, lha_input_stream_skip(n)
  PROVE  OrderInv'
<1>1. /\ TypeInv /\ state = "READING" /\ pc = "idle" /\ pos \in Nat /\ n \in Nat
      /\ leadin \in Seq(Nat) /\ Len(leadin) \in Nat
      /\ start \in Nat /\ passed \in Nat /\ passed >= LEADIN_BUFFER_LEN
      /\ intact \in {0, 1}
      /\ leadin # <<>> => pos <= start + LEADIN_BUFFER_LEN /\ intact = 1
      /\ intact = 1 => pos - Len(leadin) = start + passed
      /\ Size \in Nat
  BY ConstantFacts
     DEF OrderInv, PhaseInv, BufferInv, TypeInv, lha_input_stream_skip, HeaderRead, Size
<1>2. leadin = <<>>
  <2>1. SUFFICES ASSUME leadin # <<>> PROVE FALSE
    OBVIOUS
  <2>2. Len(leadin) > 0
    BY <1>1, <2>1
  <2>3. pos <= start + LEADIN_BUFFER_LEN /\ pos - Len(leadin) = start + passed
    BY <1>1, <2>1
  <2>4. QED
    BY <1>1, <2>2, <2>3, ConstantFacts
<1>3. /\ out' = <<>> /\ leadin' = leadin /\ state' = state /\ start' = start
      /\ UNCHANGED <<sourceVars, sfxVars>>
      /\ \/ type # "custom" /\ file_source_skip(n)
         \/ /\ type = "custom" /\ pc' = "skip" /\ want' = n
            /\ passed' = IF intact = 1 THEN passed + n ELSE passed
            /\ UNCHANGED <<pos, intact>>
  BY DEF lha_input_stream_skip
<1>4. Len(leadin) = 0
  BY <1>2
<1>5. CASE file_source_skip(n)
  <2>1. /\ pc' = "idle" /\ want' = 0 /\ pos' \in Nat /\ intact' \in {0, 1}
        /\ passed' \in Nat
        /\ intact' = 1 => pos' = start + passed'
    BY <1>1, <1>4, <1>5 DEF file_source_skip, Return, SmallerOf
  <2>2. /\ state' = "READING" /\ leadin' = <<>> /\ Len(leadin') = 0 /\ pos' - 0 = pos'
        /\ start' = start
    <3>0. pos' \in Nat
      BY <2>1
    <3>1. pos' - 0 = pos'
      BY ONLY <3>0, MinusNothing, Zenon
    <3>2. leadin' = leadin
      BY <1>3
    <3>3. leadin' = <<>> /\ Len(leadin') = 0
      BY <1>2, <1>4, <3>2, Zenon
    <3>4. QED
      BY <1>1, <1>3, <3>1, <3>3, Zenon
  <2>3. TypeInv'
    BY <1>1, <1>3, <2>1 DEF TypeInv, sourceVars, sfxVars
  <2>4. Run(out', start' + passed')
    BY <1>3 DEF Run
  <2>5. BufferInv'
    BY <2>1, <2>2, <2>4 DEF BufferInv
  <2>6. PhaseInv' /\ SearchInv'
    BY <2>1, <2>2 DEF PhaseInv, SearchInv
  <2>7. Run(leadin', pos')
    BY <2>2 DEF Run
  <2>8. QED
    BY <2>3, <2>5, <2>6, <2>7, Zenon DEF OrderInv, Run
<1>6. CASE /\ pc' = "skip" /\ want' = n
           /\ passed' = IF intact = 1 THEN passed + n ELSE passed
           /\ UNCHANGED <<pos, intact>>
  <2>1. passed' \in Nat /\ (intact' = 1 => pos' + want' = start + passed')
    BY <1>1, <1>4, <1>6
  <2>2. state' = "READING" /\ leadin' = <<>> /\ Len(leadin') = 0 /\ out' = <<>>
    BY <1>1, <1>2, <1>3, <1>4
  <2>3. TypeInv'
    BY <1>1, <1>3, <1>6, <2>1, <2>2, ConstantFacts DEF TypeInv, sourceVars, sfxVars
  <2>4. PhaseInv' /\ SearchInv'
    BY <1>6, <2>2 DEF PhaseInv, SearchInv
  <2>5. BufferInv'
    BY <1>3, <1>6, <2>1, <2>2 DEF BufferInv, Run
  <2>6. Run(leadin', pos')
    BY <2>2 DEF Run
  <2>7. QED
    BY <2>3, <2>4, <2>5, <2>6, Zenon DEF OrderInv, Run
<1>7. QED
  BY <1>3, <1>5, <1>6

(* A turn of the read-based skip: what is read is no longer wanted. *)
LEMMA SkipTurnKeepsOrder ==
  ASSUME OrderInv, SkipByReading
  PROVE  OrderInv'
<1>1. /\ TypeInv /\ state = "READING" /\ pc = "skip" /\ pos \in Nat /\ want \in Nat
      /\ leadin = <<>> /\ start \in Nat /\ passed \in Nat /\ intact \in {0, 1}
      /\ out \in Seq(Nat)
      /\ intact = 1 => pos + want = start + passed
      /\ intact = 1 => Run(out, start + passed)
  BY DEF OrderInv, PhaseInv, BufferInv, TypeInv, SkipByReading
<1>2. PICK r \in do_read(SmallerOf(want, SKIP_BUFFER_LEN)) :
       \/ /\ r < 0
          /\ pc' = "idle" /\ want' = 0 /\ intact' = 0
          /\ UNCHANGED pos
       \/ /\ r >= 0
          /\ pos' = pos + r
          /\ want' = want - r
          /\ pc' = IF r = want THEN "idle" ELSE "skip"
          /\ UNCHANGED intact
  BY DEF SkipByReading
<1>3. UNCHANGED <<sourceVars, state, leadin, sfxVars, out, start, passed>>
  BY DEF SkipByReading
<1>4. SmallerOf(want, SKIP_BUFFER_LEN) \in Nat /\ SmallerOf(want, SKIP_BUFFER_LEN) <= want
  BY <1>1, ConstantFacts DEF SmallerOf
<1>5. r \in Int /\ r <= SmallerOf(want, SKIP_BUFFER_LEN)
  BY <1>1, <1>4, ReadFacts
<1>6. r <= want
  BY <1>1, <1>4, <1>5
<1>7. /\ pos' \in Nat /\ want' \in Nat /\ pc' \in {"idle", "skip"} /\ intact' \in {0, 1}
      /\ intact' = 1 /\ pc' = "skip" => intact = 1 /\ pos' + want' = start + passed
      /\ intact' = 1 /\ pc' = "idle" => intact = 1 /\ pos' = start + passed
  <2>1. CASE r < 0 /\ pc' = "idle" /\ want' = 0 /\ intact' = 0 /\ UNCHANGED pos
    BY <1>1, <2>1
  <2>2. CASE /\ r >= 0
             /\ pos' = pos + r
             /\ want' = want - r
             /\ pc' = IF r = want THEN "idle" ELSE "skip"
             /\ UNCHANGED intact
    BY <1>1, <1>5, <1>6, <2>2
  <2>3. QED
    BY <1>2, <2>1, <2>2
<1>8. Len(leadin) = 0
  BY <1>1
<1>9. TypeInv'
  BY <1>1, <1>3, <1>7 DEF TypeInv, sourceVars, sfxVars
<1>10. BufferInv'
  <2>1. state' = "READING" /\ leadin' = <<>> /\ Len(leadin') = 0 /\ pos' - 0 = pos'
    <3>0. pos' \in Nat
      BY <1>7
    <3>1. pos' - 0 = pos'
      BY ONLY <3>0, MinusNothing, Zenon
    <3>2. leadin' = leadin
      BY <1>3
    <3>3. leadin' = <<>> /\ Len(leadin') = 0
      BY <1>1, <1>8, <3>2, Zenon
    <3>4. QED
      BY <1>1, <1>3, <3>1, <3>3, Zenon
  <2>2. intact' = 1 => Run(out', start' + passed')
    BY <1>1, <1>3, <1>7, Zenon
  <2>3. QED
    BY <1>3, <1>7, <2>1, <2>2 DEF BufferInv
<1>11. QED
  BY <1>1, <1>3, <1>7, <1>8, <1>9, <1>10 DEF OrderInv, PhaseInv, SearchInv, Run

(* The invariant holds throughout. *)
LEMMA OrderInvariant == Spec => []OrderInv
<1>1. Init => OrderInv
  <2> SUFFICES ASSUME Init PROVE OrderInv
    OBVIOUS
  <2>1. marks \in Seq({"h", "s", "x"})
    <3>1. PICK n \in 0 .. MaxLen : marks \in [1 .. n -> {"h", "s", "x"}]
      BY DEF Init
    <3>2. n \in Nat
      BY StreamAssumption
    <3>3. QED
      BY <3>1, <3>2
  <2>2. Size \in Nat
    BY <2>1 DEF Size
  <2>3. leadin = <<>> /\ out = <<>> /\ Len(leadin) = 0
    BY DEF Init
  <2>4. TypeInv
    <3>1. leadin \in Seq(Nat) /\ out \in Seq(Nat) /\ Len(leadin) <= LEADIN_BUFFER_LEN
      BY <2>3, ConstantFacts
    <3>2. QED
      BY <2>1, <3>1 DEF Init, TypeInv
  <2>5. PhaseInv /\ BufferInv
    BY <2>3 DEF Init, PhaseInv, BufferInv
  <2>6. Run(leadin, pos)
    BY <2>3 DEF Run
  <2>7. SearchInv
    <3>1. pos = 0 /\ filepos = 0 /\ 0 - 0 = 0 /\ 0 <= Size
      BY <2>2, MinusNothing DEF Init
    <3>2. filepos = pos - Len(leadin) /\ pos <= Size
      BY <2>3, <3>1, Zenon
    <3>3. Len(leadin) <= MATCH_LEN
      BY <2>3, ConstantFacts
    <3>4. QED
      BY <3>2, <3>3 DEF SearchInv
  <2>8. QED
    BY <2>4, <2>5, <2>6, <2>7 DEF OrderInv
<1>2. OrderInv /\ [Next]_vars => OrderInv'
  <2> SUFFICES ASSUME OrderInv, [Next]_vars PROVE OrderInv'
    OBVIOUS
  <2>1. ASSUME NEW n \in Sizes, lha_input_stream_read(n) PROVE OrderInv'
    BY <2>1, ReadKeepsOrder, Zenon
  <2>2. ASSUME NEW n \in Sizes, lha_input_stream_skip(n) PROVE OrderInv'
    BY <2>2, SkipKeepsOrder, Zenon
  <2>3. CASE skip_sfx
    BY <2>3, SfxKeepsOrder, Zenon
  <2>4. CASE Fill
    BY <2>4, FillKeepsOrder, Zenon
  <2>5. CASE SkipByReading
    BY <2>5, SkipTurnKeepsOrder, Zenon
  <2>6. CASE lha_input_stream_free
    BY <2>6
       DEF OrderInv, TypeInv, PhaseInv, SearchInv, BufferInv, Run, Size,
           lha_input_stream_free, sourceVars, sfxVars, history
  <2>7. CASE UNCHANGED vars
    BY <2>7
       DEF OrderInv, TypeInv, PhaseInv, SearchInv, BufferInv, Run, Size, vars,
           sourceVars, sfxVars, history
  <2>8. QED
    BY <2>1, <2>2, <2>3, <2>4, <2>5, <2>6, <2>7 DEF Next
<1>3. QED
  BY <1>1, <1>2, PTL DEF Spec

(* skip_sfx and empty_leadin neither lose nor repeat a byte, whatever the  *)
(* sizes of the buffer and of the reads.                                   *)
THEOREM NoByteLost == Spec => []LeadinConsecutive
<1>1. OrderInv => LeadinConsecutive
  BY DEF OrderInv, TypeInv, Run, LeadinConsecutive
<1>2. QED
  BY <1>1, OrderInvariant, PTL

(* lha_input_stream_read and lha_input_stream_skip deliver the bytes that  *)
(* follow the start of the first header, in order, until a call fails.     *)
THEOREM DeliveredInOrder == Spec => []DeliversInOrder
<1>1. OrderInv => DeliversInOrder
  BY DEF OrderInv, TypeInv, BufferInv, Run, DeliversInOrder
<1>2. QED
  BY <1>1, OrderInvariant, PTL

-----------------------------------------------------------------------------
(* The header found *)

(* The scan so far has done what a scan of the whole source would have. *)
ScanInv ==
  /\ state = "INIT" =>
       /\ skip_files = 1 <=> SkipFiles(Whole, 0, filepos + 1)
       /\ GoesPast(Whole, 0, filepos)
  /\ FindsFirstHeader

(* A mark without a header behind it makes the scan skip one. *)
LEMMA SkipFilesBy ==
  ASSUME NEW buf, NEW skip, NEW i, NEW j \in 0 .. i - 1,
         j # 0, marks[buf[j]] = "s",
         \A k \in j + 1 .. i - 1 : marks[buf[k]] # "h"
  PROVE  SkipFiles(buf, skip, i)
BY Zenon DEF SkipFiles

(* The scan of a buffer that holds the bytes after byte f, begun with what *)
(* a scan of the whole source has in skip_files at that point, has in      *)
(* skip_files what the scan of the whole source has.                       *)
LEMMA SkipShift ==
  ASSUME marks \in Seq({"h", "s", "x"}),
         NEW buf \in Seq(Nat), NEW f \in Nat, Run(buf, f + Len(buf)), f + Len(buf) <= Size,
         NEW skip \in {0, 1}, skip = 1 <=> SkipFiles(Whole, 0, f + 1),
         NEW i \in 1 .. Len(buf) + 1
  PROVE  SkipFiles(buf, skip, i) <=> SkipFiles(Whole, 0, f + i)
<1>1. Len(buf) \in Nat /\ Size \in Nat /\ i \in Nat
  BY DEF Size
<1>2. \A k \in 1 .. Len(buf) : buf[k] = f + k
  BY <1>1 DEF Run
<1>3. \A k \in 1 .. Size : Whole[k] = k
  BY DEF Whole
<1>4. ASSUME SkipFiles(buf, skip, i) PROVE SkipFiles(Whole, 0, f + i)
  <2>1. PICK j \in 0 .. i - 1 :
          /\ IF j = 0 THEN skip = 1 ELSE marks[buf[j]] = "s"
          /\ \A k \in j + 1 .. i - 1 : marks[buf[k]] # "h"
    BY <1>4, Zenon DEF SkipFiles
  <2>2. CASE j = 0
    <3>1. PICK m \in 0 .. f + 1 - 1 :
            /\ IF m = 0 THEN 0 = 1 ELSE marks[Whole[m]] = "s"
            /\ \A k \in m + 1 .. f + 1 - 1 : marks[Whole[k]] # "h"
      BY <2>1, <2>2 DEF SkipFiles
    <3>2. ASSUME NEW k \in m + 1 .. f + i - 1 PROVE marks[Whole[k]] # "h"
      <4>1. CASE k <= f
        <5>1. k \in m + 1 .. f + 1 - 1
          BY <4>1, <1>1
        <5>2. QED
          BY <3>1, <5>1
      <4>2. CASE k > f
        <5>1. k - f \in 1 .. i - 1 /\ k - f \in 1 .. Len(buf) /\ k \in 1 .. Size
          BY <1>1, <4>2
        <5>2. buf[k - f] = f + (k - f) /\ f + (k - f) = k
          <6>1. buf[k - f] = f + (k - f)
            BY <1>2, <5>1, Zenon
          <6>2. f + (k - f) = k
            BY <1>1
          <6>3. QED
            BY <6>1, <6>2
        <5>3. marks[buf[k - f]] # "h"
          BY <2>1, <2>2, <5>1
        <5>4. QED
          BY <1>3, <5>1, <5>2, <5>3
      <4>3. QED
        BY <1>1, <4>1, <4>2
    <3>3. m \in 0 .. f + i - 1
      BY <1>1
    <3>4. m # 0 /\ marks[Whole[m]] = "s"
      BY <3>1
    <3>5. QED
      BY <3>2, <3>3, <3>4, SkipFilesBy
  <2>3. CASE j # 0
    <3>1. j \in 1 .. Len(buf) /\ f + j \in 1 .. f + i - 1 /\ f + j \in 1 .. Size /\ f + j # 0
      BY <1>1, <2>3
    <3>2. marks[Whole[f + j]] = "s"
      <4>1. buf[j] = f + j /\ Whole[f + j] = f + j
        BY <1>2, <1>3, <3>1
      <4>2. QED
        BY <2>1, <2>3, <4>1
    <3>3. ASSUME NEW k \in f + j + 1 .. f + i - 1 PROVE marks[Whole[k]] # "h"
      <4>1. /\ k - f \in j + 1 .. i - 1 /\ k - f \in 1 .. Len(buf) /\ k \in 1 .. Size
            /\ f + (k - f) = k
        BY <1>1
      <4>2. marks[buf[k - f]] # "h"
        BY <2>1, <4>1
      <4>3. QED
        BY <1>2, <1>3, <4>1, <4>2
    <3>4. f + j \in 0 .. f + i - 1
      BY <3>1, <1>1
    <3>5. PICK m \in 0 .. f + i - 1 : m = f + j
      BY <3>4
    <3>6. /\ m # 0 /\ marks[Whole[m]] = "s"
          /\ \A k \in m + 1 .. f + i - 1 : marks[Whole[k]] # "h"
      BY <3>1, <3>2, <3>3, <3>5
    <3>7. QED
      BY ONLY <3>6, SkipFilesBy, m \in 0 .. f + i - 1
  <2>4. QED
    BY <2>2, <2>3
<1>5. ASSUME SkipFiles(Whole, 0, f + i) PROVE SkipFiles(buf, skip, i)
  <2>1. PICK j \in 0 .. f + i - 1 :
          /\ IF j = 0 THEN 0 = 1 ELSE marks[Whole[j]] = "s"
          /\ \A k \in j + 1 .. f + i - 1 : marks[Whole[k]] # "h"
    BY <1>5 DEF SkipFiles
  <2>2. j # 0
    BY <2>1
  <2>3. CASE j <= f
    <3>1. j \in 0 .. f + 1 - 1 /\ 0 \in 0 .. i - 1
      BY <1>1, <2>3
    <3>2. \A k \in j + 1 .. f + 1 - 1 : k \in j + 1 .. f + i - 1
      BY <1>1
    <3>3. skip = 1
      BY <2>1, <2>2, <3>1, <3>2 DEF SkipFiles
    <3>4. ASSUME NEW k \in 0 + 1 .. i - 1 PROVE marks[buf[k]] # "h"
      <4>1. f + k \in j + 1 .. f + i - 1 /\ k \in 1 .. Len(buf) /\ f + k \in 1 .. Size
        BY <1>1, <2>3
      <4>2. QED
        BY <1>2, <1>3, <2>1, <4>1, Zenon
    <3>5. QED
      BY <3>1, <3>3, <3>4, Zenon DEF SkipFiles
  <2>4. CASE j > f
    <3>1. /\ j - f \in 0 .. i - 1 /\ j - f # 0 /\ j - f \in 1 .. Len(buf) /\ j \in 1 .. Size
          /\ f + (j - f) = j
      BY <1>1, <2>4
    <3>2. marks[buf[j - f]] = "s"
      BY <1>2, <1>3, <2>1, <2>2, <3>1
    <3>3. ASSUME NEW k \in j - f + 1 .. i - 1 PROVE marks[buf[k]] # "h"
      <4>1. f + k \in j + 1 .. f + i - 1 /\ k \in 1 .. Len(buf) /\ f + k \in 1 .. Size
        BY <1>1, <2>4
      <4>2. QED
        BY <1>2, <1>3, <2>1, <4>1, Zenon
    <3>4. QED
      BY <3>1, <3>2, <3>3, SkipFilesBy
  <2>5. QED
    BY <1>1, <2>3, <2>4
<1>6. QED
  BY <1>4, <1>5

(* So the scan goes past the bytes of the buffer that the scan of the      *)
(* whole source goes past, and finds what it finds.                        *)
LEMMA ScanShift ==
  ASSUME marks \in Seq({"h", "s", "x"}),
         NEW buf \in Seq(Nat), NEW f \in Nat, Run(buf, f + Len(buf)), f + Len(buf) <= Size,
         NEW skip \in {0, 1}, skip = 1 <=> SkipFiles(Whole, 0, f + 1),
         GoesPast(Whole, 0, f),
         NEW i \in 0 .. Len(buf), GoesPast(buf, skip, i)
  PROVE  GoesPast(Whole, 0, f + i)
<1>1. Len(buf) \in Nat /\ Size \in Nat
  BY DEF Size
<1> SUFFICES ASSUME NEW j \in 1 .. f + i, marks[Whole[j]] = "h"
             PROVE  SkipFiles(Whole, 0, j)
  BY Zenon DEF GoesPast
<1>2. CASE j <= f
  <2>1. j \in 1 .. f
    BY <1>2
  <2>2. QED
    BY <2>1, Zenon DEF GoesPast
<1>3. CASE j > f
  <2>1. /\ j - f \in 1 .. i /\ j - f \in 1 .. Len(buf) /\ j - f \in 1 .. Len(buf) + 1
        /\ j \in 1 .. Size /\ f + (j - f) = j
    BY <1>1, <1>3
  <2>2. \A k \in 1 .. Len(buf) : buf[k] = f + k
    BY <1>1 DEF Run
  <2>3. buf[j - f] = j /\ Whole[j] = j
    BY <2>1, <2>2, Zenon DEF Whole
  <2>4. SkipFiles(buf, skip, j - f)
    BY <2>1, <2>3, Zenon DEF GoesPast
  <2>5. SkipFiles(buf, skip, j - f) <=> SkipFiles(Whole, 0, f + (j - f))
    BY <2>1, SkipShift, ZenonT(30)
  <2>6. QED
    BY <2>1, <2>4, <2>5
<1>4. QED
  BY <1>2, <1>3

(* What the scan of the whole source finds depends on the source alone. *)
LEMMA ScanOfSource ==
  ASSUME marks' = marks
  PROVE  /\ \A i : FoundAt(Whole, 0, i)' <=> FoundAt(Whole, 0, i)
         /\ \A i : SkipFiles(Whole, 0, i)' <=> SkipFiles(Whole, 0, i)
         /\ \A i : GoesPast(Whole, 0, i)' <=> GoesPast(Whole, 0, i)
<1>1. Size' = Size
  BY DEF Size
<1>2. Whole' = Whole
  BY <1>1, Zenon DEF Whole
<1>3. \A i : SkipFiles(Whole, 0, i)' <=> SkipFiles(Whole, 0, i)
  BY <1>2, Zenon DEF SkipFiles
<1>4. \A i : GoesPast(Whole, 0, i)' <=> GoesPast(Whole, 0, i)
  BY <1>2, <1>3, Zenon DEF GoesPast
<1>5. \A i : FoundAt(Whole, 0, i)' <=> FoundAt(Whole, 0, i)
  BY <1>2, <1>3, <1>4, Zenon DEF FoundAt, Scannable
<1>6. QED
  BY <1>3, <1>4, <1>5, Zenon

(* Giving up without a read error: too far, or at the end of the source. *)
LEMMA GiveUpKeepsScan ==
  ASSUME OrderInv, ScanInv, state = "INIT", GiveUp, marks' = marks, faulty' = faulty,
         faulty = 0 => filepos >= MAX_SFX_HEADER_LEN \/ pos >= Size
  PROVE  ScanInv'
<1>1. /\ Size \in Nat /\ pos \in Nat /\ filepos \in Nat /\ pos <= Size
      /\ Len(leadin) \in Nat /\ Len(leadin) <= MATCH_LEN /\ filepos = pos - Len(leadin)
      /\ GoesPast(Whole, 0, filepos)
  BY DEF OrderInv, TypeInv, SearchInv, ScanInv, Size
<1>2. Len(Whole) = Size
  BY <1>1 DEF Whole
<1>3. ASSUME faulty = 0, NEW i \in 1 .. MAX_SFX_HEADER_LEN, FoundAt(Whole, 0, i)
      PROVE  FALSE
  <2>1. i \in 1 .. Scannable(Whole) /\ marks[Whole[i]] = "h" /\ ~SkipFiles(Whole, 0, i)
    BY <1>3 DEF FoundAt
  <2>2. i <= filepos
    <3>1. CASE filepos >= MAX_SFX_HEADER_LEN
      BY <1>1, <3>1, ConstantFacts
    <3>2. CASE pos >= Size
      <4>1. pos = Size
        BY <1>1, <3>2
      <4>2. i \in Nat /\ i <= Size - MATCH_LEN
        BY <1>1, <1>2, <2>1, ConstantFacts DEF Scannable
      <4>3. QED
        BY <1>1, <4>1, <4>2, ConstantFacts
    <3>3. QED
      BY <1>3, <3>1, <3>2
  <2>3. i \in 1 .. filepos
    BY <1>1, <2>2
  <2>4. QED
    BY <1>1, <2>1, <2>3, Zenon DEF GoesPast
<1>4. state' = "FAIL"
  BY DEF GiveUp
<1>5. QED
  BY <1>3, <1>4, ScanOfSource DEF ScanInv, FindsFirstHeader

(* A turn of skip_sfx. *)
LEMMA SfxKeepsScan ==
  ASSUME OrderInv, ScanInv, skip_sfx
  PROVE  ScanInv'
<1>1. /\ TypeInv /\ state = "INIT" /\ marks \in Seq({"h", "s", "x"})
      /\ pos \in Nat /\ leadin \in Seq(Nat) /\ Run(leadin, pos)
      /\ Len(leadin) <= MATCH_LEN /\ Len(leadin) \in Nat /\ Size \in Nat
      /\ filepos = pos - Len(leadin) /\ filepos \in Nat /\ skip_files \in {0, 1}
      /\ skip_files = 1 <=> SkipFiles(Whole, 0, filepos + 1)
      /\ GoesPast(Whole, 0, filepos)
  BY DEF OrderInv, PhaseInv, SearchInv, TypeInv, ScanInv, skip_sfx, Size
<1>2. marks' = marks /\ faulty' = faulty
  BY DEF skip_sfx, sourceVars
<1>3. CASE filepos >= MAX_SFX_HEADER_LEN /\ GiveUp
  BY <1>1, <1>2, <1>3, GiveUpKeepsScan
<1>4. LEADIN_BUFFER_LEN - Len(leadin) \in Nat /\ LEADIN_BUFFER_LEN - Len(leadin) > 0
  BY <1>1, ConstantFacts
<1>5. ASSUME NEW r \in do_read(LEADIN_BUFFER_LEN - Len(leadin)), r <= 0, GiveUp
      PROVE  ScanInv'
  <2>1. r \in Int /\ (r = 0 => pos >= Size) /\ (r < 0 => faulty # 0)
    BY <1>1, <1>4, ReadFacts
  <2>2. faulty = 0 => pos >= Size
    BY <1>5, <2>1
  <2>3. QED
    BY <1>1, <1>2, <1>5, <2>2, GiveUpKeepsScan
<1>6. ASSUME NEW r \in do_read(LEADIN_BUFFER_LEN - Len(leadin)), r > 0,
             FoundHeader(leadin \o Bytes(r)) \/ NotYet(leadin \o Bytes(r))
      PROVE  ScanInv'
  <2>1. r \in Nat /\ pos + r <= Size
    BY <1>1, <1>4, <1>6, ReadFacts
  <2> DEFINE buf == leadin \o Bytes(r)
  <2>2. /\ buf \in Seq(Nat) /\ Len(buf) = Len(leadin) + r /\ Run(buf, pos + r)
        /\ Len(buf) \in Nat
    BY <1>1, <2>1, AppendFacts
  <2>3. FoundHeader(buf) \/ NotYet(buf)
    BY <1>6
  <2> HIDE DEF buf
  <2>4. filepos + Len(buf) = pos + r
    BY <1>1, <2>1, <2>2
  <2>5. Run(buf, filepos + Len(buf)) /\ filepos + Len(buf) <= Size
    BY <2>1, <2>2, <2>4
  <2>6. Scannable(buf) \in 0 .. Len(buf)
    BY <2>2, ConstantFacts DEF Scannable
  <2>7. \A k \in 1 .. Len(buf) : buf[k] = filepos + k
    BY <1>1, <2>2, <2>5 DEF Run
  <2>a. ASSUME NEW i \in 1 .. Len(buf) + 1
        PROVE  SkipFiles(buf, skip_files, i) <=> SkipFiles(Whole, 0, filepos + i)
    <3>1. marks \in Seq({"h", "s", "x"}) /\ buf \in Seq(Nat) /\ filepos \in Nat
      BY <1>1, <2>2
    <3>2. skip_files \in {0, 1} /\ (skip_files = 1 <=> SkipFiles(Whole, 0, filepos + 1))
      BY <1>1
    <3>3. QED
      BY ONLY <2>5, <3>1, <3>2, SkipShift, i \in 1 .. Len(buf) + 1
  <2>8. CASE FoundHeader(buf)
    <3>1. PICK i \in 1 .. Scannable(buf) :
            /\ FoundAt(buf, skip_files, i) /\ state' = "READING" /\ start' = buf[i] - 1
      BY <2>8 DEF FoundHeader
    <3>2. /\ i \in 1 .. Len(buf) /\ i \in 1 .. Len(buf) + 1 /\ i - 1 \in 0 .. Len(buf)
          /\ i \in Nat
      BY <2>2, <2>6
    <3>3. marks[buf[i]] = "h" /\ ~SkipFiles(buf, skip_files, i)
          /\ GoesPast(buf, skip_files, i - 1)
      BY <3>1 DEF FoundAt
    <3>4. GoesPast(Whole, 0, filepos + (i - 1))
      BY <1>1, <2>2, <2>5, <3>2, <3>3, ScanShift, Zenon
    <3>5. ~SkipFiles(Whole, 0, filepos + i)
      <4>1. SkipFiles(buf, skip_files, i) <=> SkipFiles(Whole, 0, filepos + i)
        BY <3>2, <2>a
      <4>2. QED
        BY <3>3, <4>1
    <3>6. filepos + i \in 1 .. Scannable(Whole) /\ Whole[filepos + i] = filepos + i
      <4>1. Len(Whole) = Size /\ \A k \in 1 .. Size : Whole[k] = k
        BY <1>1 DEF Whole
      <4>2. i <= Len(buf) - MATCH_LEN
        BY <2>2, ConstantFacts DEF Scannable
      <4>3. filepos + i >= 1 /\ filepos + i <= Size - MATCH_LEN
        <5>1. filepos \in Nat /\ Len(buf) \in Nat /\ Size \in Nat /\ i \in Nat /\ i >= 1
          BY <1>1, <2>2, <3>2
        <5>2. filepos + Len(buf) <= Size
          BY <2>5
        <5>3. QED
          BY <4>2, <5>1, <5>2, ConstantFacts
      <4>4. /\ filepos + i \in Nat /\ Size \in Nat /\ MATCH_LEN \in Nat
        BY <1>1, <3>2, ConstantFacts
      <4>5. PICK at \in Nat : at = filepos + i
        BY <4>4
      <4>6. at >= 1 /\ at <= Size - MATCH_LEN
        BY ONLY <4>3, <4>5
      <4>7. Size > MATCH_LEN
        BY ONLY <4>4, <4>5, <4>6
      <4>8. Scannable(Whole) = Size - MATCH_LEN
        BY ONLY <4>1, <4>7 DEF Scannable
      <4>9. at \in 1 .. Scannable(Whole) /\ at \in 1 .. Size
        BY ONLY <4>4, <4>5, <4>6, <4>8
      <4>10. Whole[at] = at
        BY ONLY <4>1, <4>9
      <4>11. QED
        BY ONLY <4>5, <4>9, <4>10
    <3>7. buf[i] = filepos + i /\ start' = filepos + i - 1
      <4>1. buf[i] = filepos + i
        BY <2>7, <3>2
      <4>2. QED
        BY <1>1, <3>1, <3>2, <4>1
    <3>8. filepos + (i - 1) = (filepos + i) - 1 /\ start' + 1 = filepos + i
      BY <1>1, <3>2, <3>7
    <3>9. FoundAt(Whole, 0, filepos + i)
      BY <3>3, <3>4, <3>5, <3>6, <3>7, <3>8 DEF FoundAt
    <3>10. FoundAt(Whole, 0, start + 1)'
      <4>1. PICK x : x = start' + 1
        OBVIOUS
      <4>2. FoundAt(Whole, 0, x)
        BY <3>8, <3>9, <4>1
      <4>3. FoundAt(Whole, 0, x)'
        BY <1>2, <4>2, ScanOfSource, Zenon
      <4>4. QED
        BY <4>1, <4>3, Zenon
    <3>11. QED
      BY <3>1, <3>10 DEF ScanInv, FindsFirstHeader
  <2>9. CASE NotYet(buf)
    <3>1. /\ GoesPast(buf, skip_files, Scannable(buf))
          /\ filepos' = filepos + Scannable(buf)
          /\ skip_files' = IF SkipFiles(buf, skip_files, Scannable(buf) + 1) THEN 1 ELSE 0
          /\ state' = state
      BY <2>9 DEF NotYet
    <3>2. GoesPast(Whole, 0, filepos + Scannable(buf))
      BY <1>1, <2>2, <2>5, <2>6, <3>1, ScanShift, Zenon
    <3>3. Scannable(buf) + 1 \in 1 .. Len(buf) + 1
      BY <2>2, <2>6
    <3>4. SkipFiles(buf, skip_files, Scannable(buf) + 1)
            <=> SkipFiles(Whole, 0, filepos + (Scannable(buf) + 1))
      BY <3>3, <2>a
    <3>5. filepos + (Scannable(buf) + 1) = filepos' + 1
      BY <1>1, <2>2, <2>6, <3>1
    <3>6. skip_files' = 1 <=> SkipFiles(Whole, 0, filepos' + 1)
      BY <3>1, <3>4, <3>5
    <3>8. GoesPast(Whole, 0, filepos)'
      <4>1. PICK x : x = filepos'
        OBVIOUS
      <4>2. GoesPast(Whole, 0, x)
        BY <3>1, <3>2, <4>1
      <4>3. GoesPast(Whole, 0, x)'
        BY <1>2, <4>2, ScanOfSource, Zenon
      <4>4. QED
        BY <4>1, <4>3, Zenon DEF GoesPast
    <3>9. (skip_files = 1)' <=> SkipFiles(Whole, 0, filepos + 1)'
      BY <1>2, <3>6 DEF SkipFiles, Whole, Size
    <3>10. QED
      BY <1>1, <3>1, <3>8, <3>9 DEF ScanInv, FindsFirstHeader
  <2>10. QED
    BY <2>3, <2>8, <2>9
<1>7. QED
  BY <1>3, <1>5, <1>6 DEF skip_sfx

(* The header found, and the failure to find one, depend on the source     *)
(* alone and not on how it cuts its data into reads.                       *)
THEOREM FirstHeaderFound == Spec => []FindsFirstHeader
<1>1. Init => ScanInv
  <2> SUFFICES ASSUME Init PROVE ScanInv
    OBVIOUS
  <2>1. ~SkipFiles(Whole, 0, 0 + 1)
    BY DEF SkipFiles
  <2>2. GoesPast(Whole, 0, 0)
    BY DEF GoesPast
  <2>3. QED
    BY <2>1, <2>2 DEF Init, ScanInv, FindsFirstHeader
<1>2. OrderInv /\ ScanInv /\ [Next]_vars => ScanInv'
  <2> SUFFICES ASSUME OrderInv, ScanInv, [Next]_vars PROVE ScanInv'
    OBVIOUS
  <2>1. CASE skip_sfx
    BY <2>1, SfxKeepsScan, Zenon
  <2>2. CASE UNCHANGED <<marks, faulty, state, sfxVars, start>>
    <3>1. SkipFiles(Whole, 0, filepos + 1)' <=> SkipFiles(Whole, 0, filepos + 1)
      BY <2>2 DEF SkipFiles, Whole, Size, sfxVars
    <3>2. GoesPast(Whole, 0, filepos)' <=> GoesPast(Whole, 0, filepos)
      BY <2>2 DEF GoesPast, SkipFiles, Whole, Size, sfxVars
    <3>3. FoundAt(Whole, 0, start + 1)' <=> FoundAt(Whole, 0, start + 1)
      BY <2>2 DEF FoundAt, GoesPast, SkipFiles, Whole, Size, Scannable
    <3>4. QED
      BY <2>2, <3>1, <3>2, <3>3, ScanOfSource DEF ScanInv, FindsFirstHeader, sfxVars
  <2>3. ASSUME ~skip_sfx PROVE UNCHANGED <<marks, faulty, state, sfxVars, start>>
    BY <2>3, Zenon
       DEF Next, vars, lha_input_stream_read, lha_input_stream_skip, Fill,
           SkipByReading, lha_input_stream_free, sourceVars, history
  <2>4. QED
    BY <2>1, <2>2, <2>3
<1>3. ScanInv => FindsFirstHeader
  BY DEF ScanInv
<1>4. QED
  BY <1>1, <1>2, <1>3, OrderInvariant, PTL DEF Spec

=============================================================================
