--------------------------- MODULE DecoderProofs ---------------------------
(***************************************************************************)
(* Reads of a decoder deliver the contents of a file, and to their end,    *)
(* whatever the sizes of the reads and of the blocks that the algorithm    *)
(* makes, with a MacBinary header or without one.  Every progress block is *)
(* announced once and in order, and the bar that shows them fits its line. *)
(***************************************************************************)
EXTENDS MacBinary, ProgressBar, TLAPS

-----------------------------------------------------------------------------
(* The inductive invariant *)

(* f holds the bytes that come after the one numbered from. *)
Runs(f, from) == \A j \in 1 .. Len(f) : f[j] = from + j

(* The bytes in front of the contents. *)
Skip == IF Stripped THEN MBHDR_SIZE ELSE 0

(* The bytes of the contents that have come out of the algorithm. *)
Fetched == Len(crc) + Len(filled) + Len(outbuf) - outbuf_pos

BytesInv ==
  /\ Runs(crc, Skip)
  /\ Runs(filled, Skip + Len(crc))
  /\ Runs(outbuf, Skip + Fetched - Len(outbuf))

(* The buffer and the read in progress. *)
BufferInv ==
  /\ outbuf \in Seq(Nat) /\ outbuf_pos \in 0 .. Len(outbuf)
  /\ decoder_failed \in {0, 1} /\ (decoder_failed = 1 => outbuf = <<>>)
  /\ crc \in Seq(Nat) /\ filled \in Seq(Nat)
  /\ stream_pos = Len(crc) /\ stream_pos <= stream_length
  /\ pc \in {"idle", "loop", "scaling"}
  /\ pc = "idle" => filled = <<>>
  /\ pc = "loop" => Len(filled) <= buf_len /\ buf_len = Truncated(request)
  /\ request \in Nat /\ buf_len \in Nat
  /\ asked \in Nat /\ given \in Nat

(* The file, and what is read before the first read of the client. *)
FileInv ==
  /\ stream_length \in Nat
  /\ codec_length \in Nat /\ made \in 0 .. codec_length
  /\ mb_header_bytes \in 0 .. MBHDR_SIZE /\ stream_remaining \in Nat
  /\ mb \in MbHeaders /\ timestamp \in Timestamps
  /\ opened \in {"plain", "new", "ok", "failed"}
  /\ opened \in {"new", "failed"} =>
       pc = "idle" /\ crc = <<>> /\ outbuf = <<>> /\ decoder_failed = 0 /\ asked = 0 /\ given = 0

TypeInv == BufferInv /\ FileInv

(* The bytes that are read to look at them, those that are given after     *)
(* all, and the bytes that are wanted of the inner decoder in the end.     *)
First  == IF length >= MBHDR_SIZE THEN MBHDR_SIZE ELSE 0
Held   == First - Skip
Wanted == IF Stripped THEN ForkLength ELSE length

(* macbinary_decoder_read: what it has read since is what the contents and *)
(* the bytes held back account for, and the inner decoder is no further,   *)
(* or at its end.                                                          *)
SourceInv ==
  /\ opened = "plain" => made = Fetched
  /\ opened = "new" => made = 0
  /\ opened = "failed" => NoDecoder
  /\ opened = "ok" =>
       LET since == Wanted - stream_remaining
       IN  /\ mb_header_bytes \in {0, Held} /\ since \in Nat
           /\ mb_header_bytes # 0 => since = 0
           /\ Fetched = Held - mb_header_bytes + since
           /\ First + since <= InnerTotal
           /\ made = First + since \/ (made = InnerTotal /\ stream_remaining = 0)

(* A block that is empty is the end. *)
EndInv ==
  /\ decoder_failed = 1 /\ opened = "plain" => made = codec_length
  /\ decoder_failed = 1 /\ opened = "ok" =>
       /\ made = InnerTotal /\ mb_header_bytes = 0
       /\ stream_remaining = 0 \/ First + Wanted - stream_remaining = InnerTotal
  /\ DecodedToEnd

MacInv == TypeInv /\ BytesInv /\ SourceInv /\ EndInv

-----------------------------------------------------------------------------
(* Runs of bytes *)

(* One run after the other. *)
LEMMA RunsJoin ==
  ASSUME NEW f \in Seq(Nat), NEW g \in Seq(Nat), NEW from \in Int,
         Runs(f, from), Runs(g, from + Len(f))
  PROVE  f \o g \in Seq(Nat) /\ Len(f \o g) = Len(f) + Len(g) /\ Runs(f \o g, from)
<1>1. f \o g \in Seq(Nat) /\ Len(f \o g) = Len(f) + Len(g)
  OBVIOUS
<1>2. ASSUME NEW j \in 1 .. Len(f \o g) PROVE (f \o g)[j] = from + j
  <2>1. CASE j <= Len(f)
    <3>1. (f \o g)[j] = f[j] /\ j \in 1 .. Len(f)
      BY <2>1
    <3>2. QED
      BY <3>1 DEF Runs
  <2>2. CASE j > Len(f)
    <3>1. j - Len(f) \in 1 .. Len(g) /\ (f \o g)[j] = g[j - Len(f)]
      BY <1>1, <2>2
    <3>2. g[j - Len(f)] = from + Len(f) + (j - Len(f))
      BY <3>1 DEF Runs
    <3>3. QED
      BY <3>1, <3>2
  <2>3. QED
    BY <2>1, <2>2
<1>3. QED
  BY <1>1, <1>2 DEF Runs

(* A part of a run. *)
LEMMA RunsPart ==
  ASSUME NEW f \in Seq(Nat), NEW from \in Int, Runs(f, from),
         NEW a \in Nat, NEW n \in Nat, a + n <= Len(f)
  PROVE  /\ SubSeq(f, a + 1, a + n) \in Seq(Nat) /\ Len(SubSeq(f, a + 1, a + n)) = n
         /\ Runs(SubSeq(f, a + 1, a + n), from + a)
<1>1. SubSeq(f, a + 1, a + n) \in Seq(Nat) /\ Len(SubSeq(f, a + 1, a + n)) = n
  OBVIOUS
<1>2. ASSUME NEW j \in 1 .. n PROVE SubSeq(f, a + 1, a + n)[j] = from + a + j
  <2>1. PICK b \in Nat, c \in Nat : b = a + 1 /\ c = a + n
    OBVIOUS
  <2>2. a + j \in 1 .. Len(f) /\ b + j - 1 = a + j
    BY <2>1
  <2>3. SubSeq(f, b, c)[j] = f[b + j - 1]
    BY <1>1, <2>1
  <2>4. QED
    BY <2>1, <2>2, <2>3 DEF Runs
<1>3. QED
  BY <1>1, <1>2 DEF Runs

(* A run that is counted out. *)
LEMMA RunsCounted ==
  ASSUME NEW n \in Nat, NEW from \in Nat
  PROVE  LET f == [j \in 1 .. n |-> from + j]
         IN  f \in Seq(Nat) /\ Len(f) = n /\ Runs(f, from)
  BY DEF Runs

-----------------------------------------------------------------------------
(* What does not change *)

(* The lengths of the parts of a file, and how they are related. *)
LEMMA Sizable ==
  ASSUME TypeInv
  PROVE  /\ MBHDR_SIZE \in Nat \ {0} /\ Skip \in {0, MBHDR_SIZE} /\ First \in {0, MBHDR_SIZE}
         /\ Skip <= First /\ Held \in {0, MBHDR_SIZE} /\ Held = First - Skip
         /\ Wanted \in Nat /\ InnerTotal \in Nat /\ length \in Nat
         /\ InnerTotal <= length /\ InnerTotal <= codec_length
         /\ InnerTotal = length \/ InnerTotal = codec_length
<1>1. MBHDR_SIZE \in Nat \ {0} /\ length \in Nat /\ codec_length \in Nat
  BY MacAssumption, DecoderAssumption DEF TypeInv, BufferInv, FileInv, length
<1>2. ForkLength \in Nat
  <2>1. mb.data_fork_len \in 0 .. UINT_MAX /\ mb.res_fork_len \in 0 .. UINT_MAX
    BY MacAssumption DEF TypeInv, BufferInv, FileInv
  <2>2. QED
    BY <2>1 DEF ForkLength
<1>3. Stripped => length >= MBHDR_SIZE
  BY DEF Stripped
<1>4. QED
  BY <1>1, <1>2, <1>3 DEF Skip, First, Held, Wanted, InnerTotal, SmallerOf

(* The file, and whether there is a MacBinaryDecoder. *)
SameFile ==
  /\ UNCHANGED <<mb, timestamp, stream_length, codec_length>>
  /\ opened' = "plain" <=> opened = "plain"

(* They depend on the file alone. *)
LEMMA SameSizes ==
  ASSUME SameFile
  PROVE  /\ Skip' = Skip /\ First' = First /\ Held' = Held /\ Wanted' = Wanted
         /\ InnerTotal' = InnerTotal /\ length' = length /\ Contents' = Contents
         /\ NoDecoder' = NoDecoder
<1>1. length' = length /\ InnerTotal' = InnerTotal /\ mb' = mb
  BY DEF SameFile, length, InnerTotal
<1>2. is_macbinary_header' = is_macbinary_header
  BY <1>1 DEF SameFile, is_macbinary_header, check_modification_time
<1>3. Stripped' = Stripped
  BY <1>1, <1>2 DEF SameFile, Stripped
<1>4. Skip' = Skip /\ First' = First
  BY <1>1, <1>3 DEF Skip, First
<1>5. Wanted' = Wanted
  BY <1>1, <1>3 DEF Wanted, ForkLength
<1>6. Contents' = Contents
  BY <1>1, <1>3 DEF Contents
<1>7. NoDecoder' = NoDecoder
  BY <1>1 DEF NoDecoder, SameFile
<1>8. QED
  BY <1>1, <1>4, <1>5, <1>6, <1>7 DEF Held

-----------------------------------------------------------------------------
(* A turn of the loop of lha_decoder_read *)

(* What the buffer has for the reader. *)
LEMMA CopiedRuns ==
  ASSUME TypeInv, BytesInv, pc = "loop"
  PROVE  /\ filled \o Copied \in Seq(Nat)
         /\ Len(Copied) = SmallerOf(Len(outbuf) - outbuf_pos, buf_len - Len(filled))
         /\ Len(filled \o Copied) = Len(filled) + Len(Copied)
         /\ Runs(filled \o Copied, Skip + Len(crc))
<1> DEFINE bytes == SmallerOf(Len(outbuf) - outbuf_pos, buf_len - Len(filled))
<1>1. outbuf_pos \in Nat /\ bytes \in Nat /\ outbuf_pos + bytes <= Len(outbuf)
  BY DEF TypeInv, BufferInv, FileInv, SmallerOf
<1>2. outbuf \in Seq(Nat) /\ filled \in Seq(Nat) /\ crc \in Seq(Nat) /\ Skip \in Int
  BY Sizable DEF TypeInv, BufferInv, FileInv
<1>3. PICK from \in Int : from = Skip + Len(crc) + Len(filled) - outbuf_pos
  <2>1. Len(crc) \in Nat /\ Len(filled) \in Nat /\ outbuf_pos \in Nat /\ Skip \in Int
    BY <1>1, <1>2
  <2>2. Skip + Len(crc) + Len(filled) - outbuf_pos \in Int
    BY ONLY <2>1
  <2>3. QED
    BY ONLY <2>2, Zenon
<1>4. from + outbuf_pos = Skip + Len(crc) + Len(filled) /\ from = Skip + Fetched - Len(outbuf)
  BY <1>1, <1>2, <1>3 DEF Fetched
<1>5. /\ Copied \in Seq(Nat) /\ Len(Copied) = bytes
      /\ Runs(Copied, from + outbuf_pos)
  <2>1. Runs(outbuf, from)
    BY <1>4 DEF BytesInv
  <2>2. Copied = SubSeq(outbuf, outbuf_pos + 1, outbuf_pos + bytes)
    BY DEF Copied
  <2>3. QED
    BY <1>1, <1>2, <2>1, <2>2, RunsPart, Zenon
<1>6. PICK start \in Int : start = Skip + Len(crc)
  BY <1>2
<1>7. Runs(filled, start) /\ Runs(Copied, start + Len(filled))
  BY <1>4, <1>5, <1>6 DEF BytesInv
<1>8. QED
  BY <1>2, <1>5, <1>6, <1>7, RunsJoin, Zenon

(* It is no more than the reader has room for. *)
LEMMA CopiedSize ==
  ASSUME TypeInv, BytesInv, pc = "loop"
  PROVE  \E f \in Nat, m \in Nat :
           /\ f = Len(filled) /\ m = Len(Copied) /\ f + m <= buf_len
           /\ Len(filled \o Copied) = f + m /\ filled \o Copied \in Seq(Nat)
<1>1. PICK f \in Nat, o \in Nat : f = Len(filled) /\ o = Len(outbuf)
  BY DEF TypeInv, BufferInv
<1>2. PICK m : m = Len(Copied)
  BY Zenon
<1>3. m = SmallerOf(o - outbuf_pos, buf_len - f) /\ Len(filled \o Copied) = f + m
  BY <1>1, <1>2, CopiedRuns, Zenon
<1>4. outbuf_pos \in 0 .. o /\ f <= buf_len /\ buf_len \in Nat
  BY <1>1, Zenon DEF TypeInv, BufferInv
<1>5. m \in Nat /\ f + m <= buf_len
  BY <1>3, <1>4 DEF SmallerOf
<1>6. QED
  BY <1>1, <1>2, <1>3, <1>5, CopiedRuns, Zenon

(* The end of a call, or the next turn, with all that has been filled. *)
LEMMA TurnKeeps ==
  ASSUME TypeInv, BytesInv, pc = "loop", SameFile,
         NEW all \in Seq(Nat), Len(all) <= buf_len, Runs(all, Skip + Len(crc)),
         Finish(all) \/ Continue(all)
  PROVE  /\ crc' \in Seq(Nat) /\ filled' \in Seq(Nat)
         /\ Len(crc') + Len(filled') = Len(crc) + Len(all)
         /\ Runs(crc', Skip) /\ Runs(filled', Skip + Len(crc'))
         /\ stream_pos' = Len(crc') /\ stream_pos' <= stream_length
         /\ pc' \in {"idle", "loop", "scaling"} /\ (pc' = "idle" => filled' = <<>>)
         /\ pc' = "loop" => Len(filled') <= buf_len' /\ buf_len' = Truncated(request)'
         /\ request' \in Nat /\ buf_len' \in Nat /\ asked' \in Nat /\ given' \in Nat
<1>1. /\ stream_length \in Nat /\ crc \in Seq(Nat) /\ stream_pos = Len(crc)
      /\ request \in Nat /\ buf_len = Truncated(request) /\ Skip \in Int
      /\ stream_pos <= stream_length
  BY Sizable DEF TypeInv, BufferInv, FileInv
<1>2. buf_len \in Nat /\ stream_pos + buf_len <= stream_length /\ stream_pos \in Nat
  BY <1>1 DEF Truncated
<1>3. CASE Finish(all)
  <2>1. Runs(crc, Skip)
    BY DEF BytesInv
  <2>2. crc' \in Seq(Nat) /\ Len(crc') = Len(crc) + Len(all) /\ Runs(crc', Skip)
    BY <1>1, <1>3, <2>1, RunsJoin DEF Finish
  <2>3. filled' = <<>> /\ Runs(filled', Skip + Len(crc'))
    BY <1>3 DEF Finish, Runs
  <2>4. /\ pc' = "idle" /\ stream_pos' = stream_pos + Len(all) /\ asked' = request
        /\ given' = Len(all) /\ request' = request /\ buf_len' = buf_len
    BY <1>3 DEF Finish
  <2>5. PICK c \in Nat, a \in Nat : c = Len(crc) /\ a = Len(all)
    BY <1>1
  <2>6. /\ Len(filled') = 0 /\ Len(crc') = c + a /\ stream_pos' = c + a /\ given' = a
        /\ c + a <= stream_length
    <3>1. a <= buf_len /\ stream_pos = c
      BY <1>1, <2>5, Zenon
    <3>2. c + a <= stream_length
      BY <1>1, <1>2, <3>1
    <3>3. Len(filled') = 0
      BY <2>3
    <3>4. QED
      BY <2>2, <2>4, <2>5, <3>1, <3>2, <3>3, Zenon
  <2>7. Len(crc') + Len(filled') = Len(crc) + Len(all)
    <3>1. c + a + 0 = c + a
      OBVIOUS
    <3>2. QED
      BY <2>5, <2>6, <3>1, Zenon
  <2>8. filled' \in Seq(Nat) /\ pc' # "loop"
    BY <2>3, <2>4
  <2>9. /\ crc' \in Seq(Nat) /\ Runs(crc', Skip) /\ Runs(filled', Skip + Len(crc'))
        /\ stream_pos' = Len(crc') /\ stream_pos' <= stream_length
    BY <2>2, <2>3, <2>6, Zenon
  <2>10. request' \in Nat /\ buf_len' \in Nat /\ asked' \in Nat /\ given' \in Nat
    BY <1>1, <1>2, <2>4, <2>6
  <2>11. QED
    BY <2>3, <2>4, <2>7, <2>8, <2>9, <2>10, Zenon
<1>4. CASE Continue(all)
  <2>1. /\ filled' = all /\ crc' = crc /\ stream_pos' = stream_pos /\ pc' = pc
        /\ request' = request /\ buf_len' = buf_len /\ asked' = asked /\ given' = given
    BY <1>4 DEF Continue
  <2>2. Truncated(request)' = Truncated(request)
    BY <2>1 DEF Truncated, SameFile
  <2>3. Runs(crc, Skip) /\ asked \in Nat /\ given \in Nat
    BY DEF BytesInv, TypeInv, BufferInv
  <2>4. QED
    BY <1>1, <1>2, <2>1, <2>2, <2>3
<1>5. QED
  BY <1>3, <1>4

(* A turn with a new block, which goes on where the buffer ends. *)
LEMMA RefillKeeps ==
  ASSUME TypeInv, BytesInv, SameFile,
         NEW block \in Seq(Nat), Runs(block, Skip + Fetched), RefillTurn(block)
  PROVE  /\ BufferInv' /\ BytesInv' /\ Fetched' = Fetched + Len(block)
         /\ pc = "loop" /\ decoder_failed' = IF block = <<>> THEN 1 ELSE 0
         /\ block # <<>> => pc' = "loop"
<1>1. pc = "loop" /\ Drained
  BY DEF RefillTurn, NeedsBlock
<1>2. /\ outbuf \in Seq(Nat) /\ outbuf_pos \in Nat /\ outbuf_pos <= Len(outbuf)
      /\ filled \in Seq(Nat) /\ crc \in Seq(Nat) /\ Skip \in Int
      /\ buf_len \in Nat /\ Len(filled) <= buf_len
  BY <1>1, Sizable DEF TypeInv, BufferInv
<1>3. PICK all \in Seq(Nat) : /\ all = filled \o Copied
                             /\ Len(all) = Len(filled) + Len(Copied)
                             /\ Runs(all, Skip + Len(crc))
  BY <1>1, CopiedRuns, Zenon
<1>4. Len(Copied) = Len(outbuf) - outbuf_pos /\ Len(all) <= buf_len
  <2>1. Len(Copied) = SmallerOf(Len(outbuf) - outbuf_pos, buf_len - Len(filled))
    BY <1>1, CopiedRuns
  <2>2. outbuf_pos + Len(Copied) >= Len(outbuf)
    BY <1>1 DEF Drained
  <2>3. PICK o, l \in Nat : o = Len(outbuf) /\ l = Len(filled)
    BY <1>2
  <2>4. PICK c : c = Len(Copied)
    OBVIOUS
  <2>5. c = SmallerOf(o - outbuf_pos, buf_len - l) /\ outbuf_pos + c >= o /\ l <= buf_len
        /\ outbuf_pos <= o
    BY <1>2, <2>1, <2>2, <2>3, <2>4, Zenon
  <2>6. c = o - outbuf_pos /\ l + c <= buf_len
    BY ONLY <1>2, <2>5, o \in Nat, l \in Nat DEF SmallerOf
  <2>7. QED
    BY <1>3, <2>3, <2>4, <2>6, Zenon
<1>5. /\ outbuf' = block /\ outbuf_pos' = 0
      /\ decoder_failed' = IF block = <<>> THEN 1 ELSE 0
      /\ IF block = <<>> THEN Finish(all) ELSE Continue(all)
  BY <1>3 DEF RefillTurn
<1>6. /\ crc' \in Seq(Nat) /\ filled' \in Seq(Nat)
      /\ Len(crc') + Len(filled') = Len(crc) + Len(all)
      /\ Runs(crc', Skip) /\ Runs(filled', Skip + Len(crc'))
      /\ stream_pos' = Len(crc') /\ stream_pos' <= stream_length
      /\ pc' \in {"idle", "loop", "scaling"} /\ (pc' = "idle" => filled' = <<>>)
      /\ pc' = "loop" => Len(filled') <= buf_len' /\ buf_len' = Truncated(request)'
      /\ request' \in Nat /\ buf_len' \in Nat /\ asked' \in Nat /\ given' \in Nat
  BY <1>1, <1>3, <1>4, <1>5, TurnKeeps, Zenon
<1>7. PICK fetched \in Int : fetched = Fetched
  <2>1. Len(outbuf) \in Nat /\ Len(filled) \in Nat /\ Len(crc) \in Nat
    BY <1>2
  <2>2. Fetched \in Int
    BY <1>2, <2>1 DEF Fetched
  <2>3. QED
    BY <2>2
<1>8. Len(crc) + Len(all) = fetched
  BY <1>2, <1>3, <1>4, <1>7 DEF Fetched
<1>9. Fetched' = fetched + Len(block)
  <2>1. Len(block) \in Nat /\ Len(crc') \in Nat /\ Len(filled') \in Nat
    BY <1>6
  <2>2. Fetched' = Len(crc') + Len(filled') + Len(block) - 0
    BY <1>5 DEF Fetched
  <2>3. Len(crc') + Len(filled') = fetched
    BY <1>6, <1>8
  <2>4. QED
    BY ONLY <2>1, <2>2, <2>3
<1>10. BufferInv'
  BY <1>5, <1>6 DEF BufferInv, SameFile
<1>11. BytesInv'
  <2>1. Skip' + Fetched' - Len(outbuf') = Skip + fetched
    BY <1>2, <1>5, <1>9, SameSizes
  <2>2. Runs(outbuf', Skip' + Fetched' - Len(outbuf'))
    BY <1>5, <1>7, <2>1
  <2>3. Runs(crc', Skip') /\ Runs(filled', Skip' + Len(crc'))
    BY <1>6, SameSizes
  <2>4. QED
    BY <2>2, <2>3 DEF BytesInv, Runs
<1>12. block # <<>> => pc' = "loop"
  BY <1>1, <1>5 DEF Continue
<1>13. QED
  BY <1>1, <1>5, <1>7, <1>9, <1>10, <1>11, <1>12

(* A turn without one. *)
LEMMA CopyKeeps ==
  ASSUME TypeInv, BytesInv, SameFile, LoopEnd \/ CopyTurn
  PROVE  BufferInv' /\ BytesInv' /\ Fetched' = Fetched /\ UNCHANGED <<outbuf, decoder_failed>>
<1>1. pc = "loop"
  BY DEF LoopEnd, CopyTurn
<1>2. /\ outbuf \in Seq(Nat) /\ outbuf_pos \in Nat /\ outbuf_pos <= Len(outbuf)
      /\ filled \in Seq(Nat) /\ crc \in Seq(Nat) /\ Skip \in Int
      /\ buf_len \in Nat /\ Len(filled) <= buf_len
  BY <1>1, Sizable DEF TypeInv, BufferInv
<1>3. PICK all \in Seq(Nat), n \in Nat :
        /\ Len(all) = Len(filled) + n /\ Runs(all, Skip + Len(crc)) /\ Len(all) <= buf_len
        /\ outbuf_pos' = outbuf_pos + n /\ n <= Len(outbuf) - outbuf_pos
        /\ Finish(all) \/ Continue(all)
  <2>1. CASE LoopEnd
    <3>1. Runs(filled, Skip + Len(crc)) /\ Finish(filled) /\ outbuf_pos' = outbuf_pos + 0
      BY <1>2, <2>1 DEF BytesInv, LoopEnd, bufferVars
    <3>2. 0 <= Len(outbuf) - outbuf_pos /\ Len(filled) = Len(filled) + 0
      BY <1>2
    <3>3. QED
      BY <1>2, <3>1, <3>2
  <2>2. CASE CopyTurn
    <3>1. /\ filled \o Copied \in Seq(Nat)
          /\ Len(Copied) = SmallerOf(Len(outbuf) - outbuf_pos, buf_len - Len(filled))
          /\ Len(filled \o Copied) = Len(filled) + Len(Copied)
          /\ Runs(filled \o Copied, Skip + Len(crc))
      BY <1>1, CopiedRuns
    <3>2. /\ Len(Copied) \in Nat /\ Len(Copied) <= Len(outbuf) - outbuf_pos
          /\ Len(filled) + Len(Copied) <= buf_len
      BY <1>2, <3>1 DEF SmallerOf
    <3>3. /\ outbuf_pos' = outbuf_pos + Len(Copied)
          /\ Finish(filled \o Copied) \/ Continue(filled \o Copied)
      BY <2>2 DEF CopyTurn
    <3>4. QED
      BY <3>1, <3>2, <3>3, Zenon
  <2>3. QED
    BY <2>1, <2>2
<1>4. UNCHANGED <<outbuf, decoder_failed>>
  BY DEF LoopEnd, CopyTurn, bufferVars
<1>5. /\ crc' \in Seq(Nat) /\ filled' \in Seq(Nat)
      /\ Len(crc') + Len(filled') = Len(crc) + Len(all)
      /\ Runs(crc', Skip) /\ Runs(filled', Skip + Len(crc'))
      /\ stream_pos' = Len(crc') /\ stream_pos' <= stream_length
      /\ pc' \in {"idle", "loop", "scaling"} /\ (pc' = "idle" => filled' = <<>>)
      /\ pc' = "loop" => Len(filled') <= buf_len' /\ buf_len' = Truncated(request)'
      /\ request' \in Nat /\ buf_len' \in Nat /\ asked' \in Nat /\ given' \in Nat
  BY <1>1, <1>3, TurnKeeps, Zenon
<1>6. Fetched' = Fetched
  <2>0. PICK a, b, c \in Nat : a = Len(crc) /\ b = Len(filled) /\ c = Len(outbuf)
    BY <1>2
  <2>1. PICK d, e \in Nat : d = Len(crc') /\ e = Len(filled')
    BY <1>5
  <2>2. Fetched = a + b + c - outbuf_pos
    BY <2>0, Zenon DEF Fetched
  <2>3. Fetched' = d + e + c - (outbuf_pos + n)
    BY <1>3, <1>4, <2>0, <2>1 DEF Fetched
  <2>4. d + e = a + (b + n)
    BY <1>3, <1>5, <2>0, <2>1, Zenon
  <2>5. QED
    BY ONLY <1>2, <2>2, <2>3, <2>4, n \in Nat, a \in Nat, b \in Nat, c \in Nat, d \in Nat, e \in Nat
<1>7. BufferInv'
  <2>1. decoder_failed \in {0, 1} /\ (decoder_failed = 1 => outbuf = <<>>)
    BY DEF TypeInv, BufferInv
  <2>2. outbuf_pos' \in 0 .. Len(outbuf')
    BY <1>2, <1>3, <1>4
  <2>3. QED
    BY <1>2, <1>4, <1>5, <2>1, <2>2 DEF BufferInv, SameFile
<1>8. BytesInv'
  <2>1. Skip' + Fetched' - Len(outbuf') = Skip + Fetched - Len(outbuf)
    BY <1>4, <1>6, SameSizes
  <2>2. Runs(outbuf, Skip + Fetched - Len(outbuf))
    BY DEF BytesInv
  <2>3. Runs(crc', Skip') /\ Runs(filled', Skip' + Len(crc'))
    BY <1>5, SameSizes
  <2>4. QED
    BY <1>4, <2>1, <2>2, <2>3 DEF BytesInv, Runs
<1>9. QED
  BY <1>4, <1>6, <1>7, <1>8

-----------------------------------------------------------------------------
(* The steps *)

(* lha_macbinary_passthrough: the first bytes are looked at, and either    *)
(* belong to the header or are held back.                                  *)
LEMMA PassthroughKeeps ==
  ASSUME MacInv, lha_macbinary_passthrough
  PROVE  MacInv'
<1>1. TypeInv /\ BytesInv /\ SourceInv
  BY DEF MacInv
<1>2. /\ opened = "new" /\ opened' \in {"ok", "failed"}
      /\ UNCHANGED <<mb, timestamp, codec_length, stream_length, stream_pos, outbuf, outbuf_pos,
                     decoder_failed, crc, pc, request, buf_len, filled, asked, given>>
  BY DEF lha_macbinary_passthrough, read_macbinary_header, bufferVars, readVars
<1>3. SameFile
  BY <1>2 DEF SameFile
<1>4. /\ pc = "idle" /\ crc = <<>> /\ outbuf = <<>> /\ filled = <<>> /\ outbuf_pos = 0
      /\ decoder_failed = 0 /\ asked = 0 /\ given = 0 /\ made = 0
  <2>1. pc = "idle" /\ crc = <<>> /\ outbuf = <<>> /\ decoder_failed = 0 /\ asked = 0 /\ given = 0
    BY <1>1, <1>2 DEF TypeInv, FileInv
  <2>2. filled = <<>> /\ outbuf_pos = 0
    BY <1>1, <2>1 DEF TypeInv, BufferInv
  <2>3. made = 0
    BY <1>1, <1>2 DEF SourceInv
  <2>4. QED
    BY <2>1, <2>2, <2>3
<1>5. Fetched' = 0 /\ BytesInv'
  <2>1. Len(crc') = 0 /\ Len(filled') = 0 /\ Len(outbuf') = 0 /\ outbuf_pos' = 0
    BY <1>2, <1>4
  <2>2. QED
    BY <2>1 DEF Fetched, BytesInv, Runs
<1>6. BufferInv'
  <2>1. Truncated(request)' = Truncated(request)
    BY <1>2 DEF Truncated
  <2>2. QED
    BY <1>1, <1>2, <2>1 DEF TypeInv, BufferInv
<1>7. /\ MBHDR_SIZE \in Nat \ {0} /\ length \in Nat /\ InnerTotal \in Nat /\ codec_length \in Nat
      /\ InnerTotal <= codec_length /\ Wanted \in Nat
  BY <1>1, Sizable DEF TypeInv, FileInv
<1>8. Stripped <=> length >= MBHDR_SIZE /\ is_macbinary_header
  BY <1>2 DEF Stripped
<1>9. /\ made' \in 0 .. codec_length /\ mb_header_bytes' \in 0 .. MBHDR_SIZE /\ stream_remaining' \in Nat
      /\ opened' = "failed" => InnerTotal < MBHDR_SIZE /\ length >= MBHDR_SIZE
      /\ opened' = "ok" =>
           /\ stream_remaining' = Wanted /\ mb_header_bytes' = Held
           /\ First <= InnerTotal /\ made' = First
  <2>1. CASE length < MBHDR_SIZE
    <3>1. opened' = "ok" /\ mb_header_bytes' = 0 /\ stream_remaining' = length /\ made' = made
      BY <1>7, <2>1 DEF lha_macbinary_passthrough
    <3>2. ~Stripped /\ First = 0 /\ Skip = 0 /\ Held = 0 /\ Wanted = length
      BY <1>7, <1>8, <2>1 DEF First, Skip, Held, Wanted
    <3>3. QED
      BY <1>4, <1>7, <3>1, <3>2
  <2>2. CASE length >= MBHDR_SIZE
    <3>1. read_macbinary_header /\ First = MBHDR_SIZE
      BY <1>7, <2>2 DEF lha_macbinary_passthrough, First
    <3>2. CASE InnerTotal < MBHDR_SIZE
      <4>1. /\ made' = InnerTotal /\ opened' = "failed" /\ mb_header_bytes' = 0
            /\ stream_remaining' = length
        BY <1>7, <3>1, <3>2 DEF read_macbinary_header
      <4>2. QED
        BY <1>7, <2>2, <3>2, <4>1
    <3>3. CASE InnerTotal >= MBHDR_SIZE
      <4>1. made' = MBHDR_SIZE /\ opened' = "ok"
        BY <1>7, <3>1, <3>3 DEF read_macbinary_header
      <4>2. CASE is_macbinary_header
        <5>1. mb_header_bytes' = 0 /\ stream_remaining' = ForkLength
          BY <1>7, <3>1, <3>3, <4>2 DEF read_macbinary_header
        <5>2. Skip = MBHDR_SIZE /\ Wanted = ForkLength
          BY <1>8, <2>2, <4>2 DEF Skip, Wanted
        <5>3. Held = 0
          BY <1>7, <3>1, <5>2 DEF Held
        <5>4. QED
          BY <1>7, <3>1, <3>3, <4>1, <5>1, <5>2, <5>3
      <4>3. CASE ~is_macbinary_header
        <5>1. mb_header_bytes' = MBHDR_SIZE /\ stream_remaining' = length
          BY <1>7, <3>1, <3>3, <4>3 DEF read_macbinary_header
        <5>2. Skip = 0 /\ Wanted = length
          BY <1>8, <4>3 DEF Skip, Wanted
        <5>3. Held = MBHDR_SIZE
          BY <1>7, <3>1, <5>2 DEF Held
        <5>4. QED
          BY <1>7, <3>1, <3>3, <4>1, <5>1, <5>2, <5>3
      <4>4. QED
        BY <4>2, <4>3
    <3>4. QED
      BY <1>7, <3>2, <3>3
  <2>3. QED
    BY <1>7, <2>1, <2>2
<1>10. FileInv'
  <2>1. /\ stream_length \in Nat /\ codec_length \in Nat
        /\ mb \in MbHeaders /\ timestamp \in Timestamps
    BY <1>1 DEF TypeInv, FileInv
  <2>2. QED
    BY <1>2, <1>4, <1>9, <2>1 DEF FileInv
<1>11. SourceInv'
  <2>1. /\ First' = First /\ Held' = Held /\ Wanted' = Wanted /\ InnerTotal' = InnerTotal
        /\ length' = length
    BY <1>3, SameSizes
  <2>2. First \in Nat /\ Held \in Nat
    BY <1>1, Sizable
  <2>3. opened' = "failed" => NoDecoder'
    BY <1>9, <2>1 DEF NoDecoder
  <2>4. ASSUME opened' = "ok"
        PROVE  /\ mb_header_bytes' \in {0, Held'} /\ Wanted' - stream_remaining' = 0
               /\ Fetched' = Held' - mb_header_bytes' + 0
               /\ First' + 0 <= InnerTotal' /\ made' = First' + 0
    BY <1>5, <1>7, <1>9, <2>1, <2>2, <2>4
  <2>5. QED
    BY <1>2, <2>3, <2>4 DEF SourceInv
<1>12. EndInv'
  BY <1>2, <1>4 DEF EndInv, DecodedToEnd
<1>13. QED
  BY <1>5, <1>6, <1>10, <1>11, <1>12 DEF MacInv, TypeInv

(* The steps that leave the source of the bytes alone. *)
LEMMA SourceStays ==
  ASSUME MacInv, SameFile, UNCHANGED <<made, mb_header_bytes, stream_remaining, opened>>,
         opened \in {"plain", "ok"}, Fetched' = Fetched
  PROVE  FileInv' /\ SourceInv'
<1>1. TypeInv /\ SourceInv
  BY DEF MacInv
<1>2. FileInv'
  BY <1>1 DEF TypeInv, FileInv, SameFile
<1>3. First' = First /\ Held' = Held /\ Wanted' = Wanted /\ InnerTotal' = InnerTotal
  BY SameSizes
<1>4. SourceInv'
  BY <1>1, <1>3 DEF SourceInv
<1>5. QED
  BY <1>2, <1>4

(* lha_decoder_read: its entry. *)
LEMMA ReadKeeps ==
  ASSUME MacInv, NEW n \in Sizes, Read(n)
  PROVE  MacInv'
<1>1. TypeInv /\ BytesInv /\ EndInv
  BY DEF MacInv
<1>2. /\ pc = "idle" /\ pc' = "loop" /\ request' = n /\ buf_len' = Truncated(n) /\ filled' = <<>>
      /\ opened \in {"plain", "ok"}
      /\ UNCHANGED <<stream_length, stream_pos, outbuf, outbuf_pos, decoder_failed, crc, asked, given,
                     codec_length, made, mb, timestamp, mb_header_bytes, stream_remaining, opened>>
  BY DEF Read, lha_decoder_read, bufferVars, codecVars, macVars
<1>3. SameFile /\ filled' = filled /\ n \in Nat
  BY <1>1, <1>2, DecoderAssumption DEF SameFile, TypeInv, BufferInv
<1>4. Fetched' = Fetched /\ BytesInv'
  <2>1. Skip' = Skip /\ Fetched' = Fetched
    BY <1>2, <1>3, SameSizes DEF Fetched
  <2>2. QED
    BY <1>1, <1>2, <1>3, <2>1 DEF BytesInv, Runs
<1>5. BufferInv'
  <2>1. stream_length \in Nat /\ stream_pos \in Nat /\ stream_pos <= stream_length
    BY <1>1 DEF TypeInv, BufferInv, FileInv
  <2>2. buf_len' \in Nat /\ buf_len' = Truncated(request)'
    BY <1>2, <1>3, <2>1 DEF Truncated
  <2>3. Len(filled') <= buf_len'
    BY <1>2, <2>2
  <2>4. QED
    BY <1>1, <1>2, <1>3, <2>2, <2>3 DEF TypeInv, BufferInv
<1>6. FileInv' /\ SourceInv'
  BY <1>2, <1>3, <1>4, SourceStays
<1>7. EndInv'
  <2>1. First' = First /\ Wanted' = Wanted /\ InnerTotal' = InnerTotal
    BY <1>3, SameSizes
  <2>2. QED
    BY <1>1, <1>2, <2>1 DEF EndInv, DecodedToEnd
<1>8. QED
  BY <1>4, <1>5, <1>6, <1>7 DEF MacInv, TypeInv

(* lha_decoder_monitor, and steps of no variable of these. *)
LEMMA OthersKeep ==
  ASSUME MacInv,
         UNCHANGED <<stream_length, stream_pos, outbuf, outbuf_pos, decoder_failed, crc, request,
                     buf_len, filled, asked, given, codec_length, made, mb, timestamp,
                     mb_header_bytes, stream_remaining, opened>>,
         pc' = pc \/ (opened = "plain" /\ pc' = "scaling")
  PROVE  MacInv'
<1>1. SameFile
  BY DEF SameFile
<1>2. /\ Skip' = Skip /\ First' = First /\ Held' = Held /\ Wanted' = Wanted
      /\ InnerTotal' = InnerTotal /\ NoDecoder' = NoDecoder /\ Fetched' = Fetched
  BY <1>1, SameSizes DEF Fetched
<1>3. BufferInv' /\ FileInv'
  <2>1. Truncated(request)' = Truncated(request)
    BY DEF Truncated
  <2>2. QED
    BY <2>1 DEF MacInv, TypeInv, BufferInv, FileInv
<1>4. BytesInv'
  BY <1>2 DEF MacInv, BytesInv, Runs
<1>5. SourceInv' /\ EndInv'
  BY <1>2 DEF MacInv, SourceInv, EndInv, DecodedToEnd
<1>6. QED
  BY <1>3, <1>4, <1>5 DEF MacInv, TypeInv

(* The algorithm, where there is no MacBinaryDecoder. *)
LEMMA CodecKeeps ==
  ASSUME MacInv, opened = "plain", codec_read, UNCHANGED macVars
  PROVE  MacInv'
<1>1. TypeInv /\ BytesInv /\ SourceInv
  BY DEF MacInv
<1>2. PICK n \in 0 .. MAX_READ : /\ n <= codec_length - made /\ (n = 0 => made = codec_length)
                                /\ RefillTurn([j \in 1 .. n |-> made + j]) /\ made' = made + n
  BY DEF codec_read
<1>3. SameFile /\ UNCHANGED <<mb, timestamp, mb_header_bytes, stream_remaining, opened, codec_length>>
  BY DEF SameFile, macVars, codec_read, RefillTurn
<1>4. n \in Nat /\ made \in Nat /\ codec_length \in Nat
  BY <1>1, DecoderAssumption DEF TypeInv, FileInv
<1>5. Skip = 0 /\ made = Fetched
  BY <1>1 DEF Skip, Stripped, SourceInv
<1>6. PICK block \in Seq(Nat) : block = [j \in 1 .. n |-> made + j] /\ Len(block) = n
                                /\ Runs(block, made)
  BY <1>4, RunsCounted, Zenon
<1>7. Skip + Fetched = made
  BY <1>4, <1>5
<1>8. /\ BufferInv' /\ BytesInv' /\ Fetched' = Fetched + n /\ pc = "loop"
      /\ decoder_failed' = IF block = <<>> THEN 1 ELSE 0
  BY <1>1, <1>2, <1>3, <1>6, <1>7, RefillKeeps
<1>9. FileInv'
  <2>1. made' \in 0 .. codec_length
    BY <1>2, <1>4
  <2>2. QED
    BY <1>1, <1>3, <2>1 DEF TypeInv, FileInv, SameFile
<1>10. SourceInv'
  BY <1>2, <1>3, <1>5, <1>8 DEF SourceInv
<1>11. EndInv'
  <2>1. block = <<>> => n = 0
    BY <1>6
  <2>2. decoder_failed' = 1 => made' = codec_length
    BY <1>2, <1>4, <1>8, <2>1
  <2>3. QED
    BY <1>3, <2>2 DEF EndInv, DecodedToEnd
<1>12. QED
  BY <1>8, <1>9, <1>10, <1>11 DEF MacInv, TypeInv

(* What the source invariant says of a MacBinaryDecoder, in numbers. *)
LEMMA SourceNumbers ==
  ASSUME TypeInv, SourceInv, opened = "ok"
  PROVE  \E since \in Nat :
           /\ stream_remaining = Wanted - since
           /\ mb_header_bytes \in {0, Held}
           /\ mb_header_bytes # 0 => since = 0
           /\ Fetched = Held - mb_header_bytes + since
           /\ First + since <= InnerTotal
           /\ made = First + since \/ (made = InnerTotal /\ stream_remaining = 0)
<1>1. Wanted \in Nat /\ stream_remaining \in Nat
  BY Sizable DEF TypeInv, FileInv
<1>2. PICK since : since = Wanted - stream_remaining
  OBVIOUS
<1>3. stream_remaining = Wanted - since /\ since \in Nat
  BY <1>1, <1>2 DEF SourceInv
<1>4. QED
  BY <1>2, <1>3, Zenon DEF SourceInv

(* macbinary_decoder_read: the block goes on where the last one ended, and *)
(* is empty only at the end.                                               *)
LEMMA MacReadKeeps ==
  ASSUME MacInv, opened = "ok", macbinary_decoder_read
  PROVE  MacInv'
<1> DEFINE n == InnerGives(ToRead)
           held == [j \in 1 .. mb_header_bytes |-> j]
           rest == [j \in 1 .. n |-> made + j]
<1>1. TypeInv /\ BytesInv /\ SourceInv
  BY DEF MacInv
<1>2. /\ RefillTurn(held \o rest) /\ mb_header_bytes' = 0 /\ stream_remaining' = stream_remaining - n
      /\ made' = IF stream_remaining - n = 0 THEN InnerTotal ELSE made + n
      /\ UNCHANGED <<codec_length, mb, timestamp, opened, stream_length>>
  BY DEF macbinary_decoder_read, HeldBack, decode_to_end, RefillTurn
<1>3. SameFile
  BY <1>2 DEF SameFile
<1>4. PICK since \in Nat :
        /\ stream_remaining = Wanted - since
        /\ mb_header_bytes \in {0, Held}
        /\ mb_header_bytes # 0 => since = 0
        /\ Fetched = Held - mb_header_bytes + since
        /\ First + since <= InnerTotal
        /\ made = First + since \/ (made = InnerTotal /\ stream_remaining = 0)
  BY <1>1, SourceNumbers
<1>5. /\ MBHDR_SIZE \in Nat \ {0} /\ Skip \in {0, MBHDR_SIZE} /\ First \in {0, MBHDR_SIZE}
      /\ Held \in {0, MBHDR_SIZE} /\ Held = First - Skip
      /\ Wanted \in Nat /\ InnerTotal \in Nat /\ InnerTotal <= codec_length
      /\ codec_length \in Nat /\ made \in Nat /\ stream_remaining \in Nat /\ mb_header_bytes \in Nat
  BY <1>1, Sizable DEF TypeInv, FileInv
<1>6. OUTPUT_BUFFER_SIZE \in Nat /\ MBHDR_SIZE < OUTPUT_BUFFER_SIZE
  BY MacAssumption
<1>7. made <= InnerTotal
  BY <1>4, <1>5
<1>8. /\ n \in Nat /\ n <= stream_remaining /\ n <= InnerTotal - made
      /\ n = 0 => stream_remaining = 0 \/ made = InnerTotal
  <2>1. ToRead \in Nat /\ ToRead <= stream_remaining /\ (ToRead = 0 => stream_remaining = 0)
    BY <1>4, <1>5, <1>6 DEF ToRead, SmallerOf
  <2>2. QED
    BY <1>5, <1>7, <2>1 DEF InnerGives, SmallerOf
<1>9. mb_header_bytes # 0 => /\ mb_header_bytes = MBHDR_SIZE /\ Skip = 0 /\ Fetched = 0
                             /\ made = mb_header_bytes
  <2>1. ASSUME mb_header_bytes # 0
        PROVE  mb_header_bytes = MBHDR_SIZE /\ First = MBHDR_SIZE /\ Skip = 0 /\ since = 0
    BY <1>4, <1>5, <2>1
  <2>2. ASSUME First = MBHDR_SIZE, Skip = 0 PROVE Wanted > 0
    <3>1. length >= MBHDR_SIZE /\ ~Stripped
      BY <1>5, <2>2 DEF First, Skip
    <3>2. QED
      BY <1>1, <1>5, <3>1, Sizable DEF Wanted
  <2>3. QED
    BY <1>4, <1>5, <2>1, <2>2
<1>10. PICK f \in Seq(Nat), g \in Seq(Nat) :
         /\ f = held /\ Len(f) = mb_header_bytes /\ Runs(f, 0)
         /\ g = rest /\ Len(g) = n /\ Runs(g, made)
  <2>1. held \in Seq(Nat) /\ Len(held) = mb_header_bytes /\ Runs(held, 0)
    BY <1>5 DEF Runs
  <2>2. rest \in Seq(Nat) /\ Len(rest) = n /\ Runs(rest, made)
    BY <1>5, <1>8, RunsCounted
  <2>3. QED
    BY <2>1, <2>2, Zenon
<1>11. PICK block \in Seq(Nat) :
         /\ block = f \o g /\ Len(block) = mb_header_bytes + n /\ Runs(block, Skip + Fetched)
  <2>1. f \o g \in Seq(Nat) /\ Len(f \o g) = mb_header_bytes + n
    <3>1. f \o g \in Seq(Nat) /\ Len(f \o g) = Len(f) + Len(g)
      OBVIOUS
    <3>2. QED
      BY <1>10, <3>1, Zenon
  <2>2. CASE mb_header_bytes # 0
    <3>1. Skip + Fetched = 0 /\ Runs(g, 0 + Len(f))
      BY <1>5, <1>9, <1>10, <2>2
    <3>2. Runs(f \o g, 0)
      <4>1. 0 \in Int
        OBVIOUS
      <4>2. QED
        BY <1>10, <3>1, <4>1, RunsJoin, Zenon
    <3>3. QED
      BY <2>1, <3>1, <3>2, Zenon
  <2>3. CASE mb_header_bytes = 0
    <3>1. f = <<>> /\ f \o g = g
      BY <1>10, <2>3
    <3>2. Skip + Fetched = made \/ n = 0
      BY <1>4, <1>5, <1>8, <2>3
    <3>3. Runs(g, Skip + Fetched)
      <4>1. CASE Skip + Fetched = made
        BY <1>10, <4>1, Zenon
      <4>2. CASE n = 0
        <5>1. 1 .. Len(g) = {}
          BY <1>10, <4>2
        <5>2. QED
          BY <5>1, Zenon DEF Runs
      <4>3. QED
        BY <3>2, <4>1, <4>2
    <3>4. QED
      BY <2>1, <3>1, <3>3
  <2>4. QED
    BY <2>2, <2>3, Zenon
<1>12. /\ BufferInv' /\ BytesInv' /\ Fetched' = Fetched + Len(block)
       /\ decoder_failed' = IF block = <<>> THEN 1 ELSE 0
       /\ block # <<>> => pc' = "loop"
  BY <1>1, <1>2, <1>3, <1>10, <1>11, RefillKeeps, Zenon
<1>13. PICK all \in Nat : all = since + n
  BY <1>8
<1>14. /\ stream_remaining' = Wanted - all /\ stream_remaining' \in Nat
       /\ Fetched' = Held + all /\ First + all <= InnerTotal
       /\ made' = First + all \/ (made' = InnerTotal /\ stream_remaining' = 0)
  <2>1. Fetched' = Held - mb_header_bytes + since + (mb_header_bytes + n)
    BY <1>4, <1>11, <1>12
  <2>2. Fetched' = Held + all
    BY <1>4, <1>5, <1>8, <1>13, <2>1
  <2>3. stream_remaining' = Wanted - all /\ stream_remaining' \in Nat
    <3>1. stream_remaining' = Wanted - since - n /\ n <= Wanted - since
      BY <1>2, <1>4, <1>8, Zenon
    <3>2. QED
      BY <1>5, <1>8, <1>13, <3>1
  <2>4. First + all <= InnerTotal
    <3>1. First \in Nat /\ (made = First + since \/ stream_remaining = 0)
      BY <1>4, <1>5
    <3>2. CASE made = First + since
      <4>1. n <= InnerTotal - (First + since)
        BY <1>8, <3>2, Zenon
      <4>2. QED
        BY <1>5, <1>8, <1>13, <3>1, <4>1
    <3>3. CASE stream_remaining = 0
      <4>1. n = 0 /\ all = since
        BY <1>8, <1>13, <3>3
      <4>2. QED
        BY <1>4, <4>1, Zenon
    <3>4. QED
      BY <3>1, <3>2, <3>3
  <2>5. made' = First + all \/ (made' = InnerTotal /\ stream_remaining' = 0)
    <3>1. CASE stream_remaining - n = 0
      BY <1>2, <3>1
    <3>2. CASE stream_remaining - n # 0
      <4>1. made' = made + n /\ stream_remaining # 0
        BY <1>2, <1>5, <1>8, <3>2
      <4>2. made = First + since
        BY <1>4, <4>1, Zenon
      <4>3. First \in Nat
        BY <1>5
      <4>4. First + since + n = First + all
        BY <1>8, <1>13, <4>3
      <4>5. QED
        BY <4>1, <4>2, <4>4, Zenon
    <3>3. QED
      BY <3>1, <3>2
  <2>6. QED
    BY <2>2, <2>3, <2>4, <2>5
<1>15. block = <<>> => mb_header_bytes = 0 /\ n = 0
  <2>1. block = <<>> => Len(block) = 0
    OBVIOUS
  <2>2. QED
    BY <1>5, <1>8, <1>11, <2>1
<1>16. block = <<>> => made' = InnerTotal /\ (stream_remaining' = 0 \/ First + all = InnerTotal)
  BY <1>2, <1>4, <1>5, <1>8, <1>13, <1>15
<1>17. /\ First' = First /\ Held' = Held /\ Wanted' = Wanted /\ InnerTotal' = InnerTotal
  BY <1>3, SameSizes
<1>18. FileInv'
  <2>1. made' \in 0 .. codec_length
    BY <1>5, <1>8, <1>14
  <2>2. mb_header_bytes' \in 0 .. MBHDR_SIZE
    BY <1>2, <1>5
  <2>3. QED
    BY <1>1, <1>2, <1>14, <2>1, <2>2 DEF TypeInv, FileInv
<1>19. SourceInv'
  <2>1. Wanted' - stream_remaining' = all
    BY <1>5, <1>14, <1>17
  <2>2. Fetched' = Held' - mb_header_bytes' + all
    BY <1>2, <1>5, <1>14, <1>17
  <2>3. QED
    BY <1>2, <1>14, <1>17, <2>1, <2>2 DEF SourceInv
<1>20. EndInv'
  <2>1. First' + Wanted' - stream_remaining' = First + all
    BY <1>5, <1>14, <1>17
  <2>2. QED
    BY <1>2, <1>12, <1>16, <1>17, <2>1 DEF EndInv, DecodedToEnd
<1>21. QED
  BY <1>12, <1>18, <1>19, <1>20 DEF MacInv, TypeInv

(* A turn that needs no block.  A call that ends here with less than was   *)
(* asked for has come to the end of the stream, or to an end noticed       *)
(* before.                                                                 *)
LEMMA LoopKeeps ==
  ASSUME MacInv, LoopEnd \/ CopyTurn, UNCHANGED <<codecVars, macVars>>
  PROVE  MacInv'
<1>1. TypeInv /\ BytesInv /\ SourceInv /\ EndInv
  BY DEF MacInv
<1>2. /\ pc = "loop"
      /\ UNCHANGED <<codec_length, made, mb, timestamp, mb_header_bytes, stream_remaining, opened,
                     stream_length>>
  BY DEF LoopEnd, CopyTurn, codecVars, macVars
<1>3. SameFile /\ opened \in {"plain", "ok"}
  BY <1>1, <1>2 DEF SameFile, TypeInv, FileInv
<1>4. BufferInv' /\ BytesInv' /\ Fetched' = Fetched /\ UNCHANGED <<outbuf, decoder_failed>>
  BY <1>1, <1>3, CopyKeeps
<1>5. FileInv' /\ SourceInv'
  BY <1>2, <1>3, <1>4, SourceStays
<1>6. First' = First /\ Held' = Held /\ Wanted' = Wanted /\ InnerTotal' = InnerTotal
  BY <1>3, SameSizes
<1>7. ASSUME opened = "ok", pc' = "idle", given' < asked' PROVE made = InnerTotal
  <2>1. CASE CopyTurn
    <3>1. decoder_failed = 1
      BY <1>2, <1>7, <2>1 DEF CopyTurn, Continue
    <3>2. QED
      BY <1>1, <1>7, <3>1 DEF EndInv
  <2>2. CASE LoopEnd
    <3>1. PICK c \in Nat, f \in Nat, o \in Nat :
            c = Len(crc) /\ f = Len(filled) /\ o = Len(outbuf)
      BY <1>1 DEF TypeInv, BufferInv
    <3>2. f < request /\ f >= Truncated(request)
      <4>1. given' = f /\ asked' = request /\ f >= buf_len
        BY <2>2, <3>1 DEF LoopEnd, Finish
      <4>2. QED
        BY <1>1, <1>2, <1>7, <4>1 DEF TypeInv, BufferInv
    <3>3. c + f >= length
      <4>1. stream_pos = c /\ request \in Nat /\ stream_length \in Nat
        BY <1>1, <3>1 DEF TypeInv, BufferInv, FileInv
      <4>2. QED
        BY <3>2, <4>1 DEF Truncated, length
    <3>4. Fetched >= length
      <4>1. outbuf_pos \in Nat /\ outbuf_pos <= o /\ Fetched = c + f + o - outbuf_pos
        <5>1. outbuf_pos \in 0 .. o
          BY <1>1, <3>1, Zenon DEF TypeInv, BufferInv
        <5>2. Fetched = c + f + o - outbuf_pos
          BY <3>1, Zenon DEF Fetched
        <5>3. QED
          BY <5>1, <5>2
      <4>2. length \in Nat
        BY <1>1, Sizable
      <4>3. QED
        BY <3>3, <4>1, <4>2
    <3>5. PICK since \in Nat :
            /\ mb_header_bytes \in {0, Held}
            /\ Fetched = Held - mb_header_bytes + since
            /\ First + since <= InnerTotal
            /\ made = First + since \/ made = InnerTotal
      BY <1>1, <1>7, SourceNumbers
    <3>6. /\ First \in Nat /\ Held \in Nat /\ Held <= First /\ InnerTotal \in Nat
          /\ length \in Nat /\ InnerTotal <= length
      BY <1>1, Sizable
    <3>7. QED
      BY <3>4, <3>5, <3>6
  <2>3. QED
    BY <2>1, <2>2
<1>8. EndInv'
  BY <1>1, <1>2, <1>4, <1>6, <1>7 DEF EndInv, DecodedToEnd
<1>9. QED
  BY <1>4, <1>5, <1>8 DEF MacInv, TypeInv

-----------------------------------------------------------------------------
(* The invariant holds *)

(* What a file starts with. *)
LEMMA InitKeeps ==
  ASSUME MacInit
  PROVE  MacInv
<1>1. /\ stream_pos = 0 /\ outbuf = <<>> /\ outbuf_pos = 0 /\ decoder_failed = 0 /\ crc = <<>>
      /\ pc = "idle" /\ request = 0 /\ buf_len = 0 /\ filled = <<>> /\ asked = 0 /\ given = 0
      /\ stream_length \in Lengths /\ codec_length \in 0 .. MaxLength /\ made = 0
      /\ opened \in {"new", "plain"} /\ mb \in MbHeaders /\ timestamp \in Timestamps
      /\ mb_header_bytes = 0 /\ stream_remaining = 0
  BY DEF MacInit, Init, DecoderInit
<1>2. BufferInv
  <2>1. <<>> \in Seq(Nat) /\ Len(<<>>) = 0
    OBVIOUS
  <2>2. QED
    BY <1>1, <2>1, DecoderAssumption DEF BufferInv
<1>3. FileInv
  BY <1>1, DecoderAssumption, MacAssumption DEF FileInv
<1>4. BytesInv
  BY <1>1 DEF BytesInv, Runs
<1>5. SourceInv
  BY <1>1 DEF SourceInv, Fetched
<1>6. EndInv
  BY <1>1 DEF EndInv, DecodedToEnd
<1>7. QED
  BY <1>2, <1>3, <1>4, <1>5, <1>6 DEF MacInv, TypeInv

(* Every step keeps the invariant. *)
LEMMA NextKeeps ==
  ASSUME MacInv, [MacNext]_allVars
  PROVE  MacInv'
<1>1. CASE lha_macbinary_passthrough
  BY <1>1, PassthroughKeeps
<1>2. ASSUME NEW n \in Sizes, Read(n) PROVE MacInv'
  BY <1>2, ReadKeeps
<1>3. CASE opened = "plain" /\ codec_read /\ UNCHANGED macVars
  BY <1>3, CodecKeeps
<1>4. CASE opened = "plain" /\ lha_decoder_monitor /\ UNCHANGED macVars
  BY <1>4, OthersKeep DEF lha_decoder_monitor, bufferVars, codecVars, macVars
<1>5. CASE opened = "ok" /\ macbinary_decoder_read
  BY <1>5, MacReadKeeps
<1>6. CASE (LoopEnd \/ CopyTurn) /\ UNCHANGED <<codecVars, macVars>>
  BY <1>6, LoopKeeps
<1>7. CASE UNCHANGED allVars
  BY <1>7, OthersKeep DEF allVars, vars, bufferVars, readVars, codecVars, macVars
<1>8. QED
  BY <1>1, <1>2, <1>3, <1>4, <1>5, <1>6, <1>7 DEF MacNext

(* So it is an invariant. *)
LEMMA MacInvHolds == MacSpec => []MacInv
<1>1. MacInit => MacInv
  BY InitKeeps
<1>2. MacInv /\ [MacNext]_allVars => MacInv'
  BY NextKeeps
<1>3. QED
  BY <1>1, <1>2, PTL DEF MacSpec

-----------------------------------------------------------------------------
(* What is fetched, and the contents *)

(* The contents are a run of bytes, no more of them than the stream has,   *)
(* and no fewer than have come out of the algorithm, as far as the stream  *)
(* goes.                                                                   *)
TotalInv ==
  opened \in {"plain", "ok"} =>
    /\ ~NoDecoder
    /\ Contents \in Seq(Nat) /\ Runs(Contents, Skip)
    /\ Len(Contents) <= length
    /\ Fetched <= Len(Contents) \/ Len(Contents) = length
    /\ decoder_failed = 1 => Len(Contents) <= Fetched

(* The contents are the bytes behind the header that is stripped. *)
LEMMA ContentsRun ==
  ASSUME TypeInv, NEW total \in Nat,
         total = IF Stripped THEN SmallerOf(ForkLength, InnerTotal - MBHDR_SIZE) ELSE InnerTotal
  PROVE  Contents \in Seq(Nat) /\ Len(Contents) = total /\ Runs(Contents, Skip)
<1>1. Skip \in Nat /\ InnerTotal \in Nat /\ MBHDR_SIZE \in Nat
  BY Sizable
<1>2. ForkLength = IF mb.data_fork_len = 0 THEN mb.res_fork_len ELSE mb.data_fork_len
  <2>1. mb.data_fork_len \in Nat
    BY MacAssumption, DecoderAssumption DEF TypeInv, FileInv, UINT_MAX
  <2>2. QED
    BY <2>1 DEF ForkLength
<1>3. Contents = [j \in 1 .. total |-> Skip + j]
  <2>1. CASE Stripped
    BY <1>2, <2>1, Zenon DEF Contents, Skip
  <2>2. CASE ~Stripped
    <3>1. Contents = [j \in 1 .. total |-> j] /\ Skip = 0
      BY <2>2, Zenon DEF Contents, Skip
    <3>2. QED
      BY <3>1
  <2>3. QED
    BY <2>1, <2>2
<1>4. QED
  BY <1>1, <1>3, RunsCounted

(* TotalInv follows from the invariant. *)
LEMMA TotalHolds == MacInv => TotalInv
<1> SUFFICES ASSUME MacInv, opened \in {"plain", "ok"}
             PROVE  /\ ~NoDecoder
                    /\ Contents \in Seq(Nat) /\ Runs(Contents, Skip)
                    /\ Len(Contents) <= length
                    /\ Fetched <= Len(Contents) \/ Len(Contents) = length
                    /\ decoder_failed = 1 => Len(Contents) <= Fetched
  BY DEF TotalInv
<1>1. TypeInv /\ SourceInv /\ EndInv
  BY DEF MacInv
<1>2. /\ MBHDR_SIZE \in Nat \ {0} /\ Skip \in {0, MBHDR_SIZE} /\ First \in {0, MBHDR_SIZE}
      /\ Held \in Nat /\ Held = First - Skip
      /\ Wanted \in Nat /\ InnerTotal \in Nat /\ length \in Nat /\ codec_length \in Nat
      /\ InnerTotal <= length /\ InnerTotal <= codec_length
      /\ InnerTotal = length \/ InnerTotal = codec_length
  BY <1>1, Sizable DEF TypeInv, FileInv
<1>3. CASE opened = "plain"
  <2>1. ~Stripped /\ ~NoDecoder
    BY <1>3 DEF Stripped, NoDecoder
  <2>2. Contents \in Seq(Nat) /\ Len(Contents) = InnerTotal /\ Runs(Contents, Skip)
    BY <1>1, <1>2, <2>1, ContentsRun
  <2>3. made = Fetched /\ made \in Nat /\ made <= codec_length
    BY <1>1, <1>2, <1>3 DEF SourceInv, TypeInv, FileInv
  <2>4. decoder_failed = 1 => made = codec_length
    BY <1>1, <1>3 DEF EndInv
  <2>5. Fetched <= InnerTotal \/ InnerTotal = length
    BY <1>2, <2>3
  <2>6. decoder_failed = 1 => InnerTotal <= Fetched
    BY <1>2, <2>3, <2>4
  <2>7. QED
    BY <1>2, <2>1, <2>2, <2>5, <2>6
<1>4. CASE opened = "ok"
  <2>1. PICK since \in Nat :
          /\ stream_remaining = Wanted - since /\ mb_header_bytes \in {0, Held}
          /\ Fetched = Held - mb_header_bytes + since
          /\ First + since <= InnerTotal
    BY <1>1, <1>4, SourceNumbers
  <2>2. stream_remaining \in Nat /\ since <= Wanted
    BY <1>1, <1>2, <2>1 DEF TypeInv, FileInv
  <2>3. ~NoDecoder
    BY <1>2, <2>1 DEF NoDecoder, First
  <2>4. decoder_failed = 1 => /\ mb_header_bytes = 0
                              /\ stream_remaining = 0 \/ First + since = InnerTotal
    <3>1. First + Wanted - stream_remaining = First + since
      BY <1>2, <2>1
    <3>2. QED
      BY <1>1, <1>4, <3>1 DEF EndInv
  <2>5. PICK total \in Nat :
          /\ total = IF Stripped THEN SmallerOf(ForkLength, InnerTotal - MBHDR_SIZE) ELSE InnerTotal
          /\ total <= InnerTotal /\ Fetched <= total
          /\ decoder_failed = 1 => total <= Fetched
    <3>1. CASE Stripped
      <4>1. Skip = MBHDR_SIZE /\ First = MBHDR_SIZE /\ Wanted = ForkLength /\ Held = 0
        BY <1>2, <3>1 DEF Skip, First, Wanted, Stripped
      <4>2. Fetched = since
        BY <2>1, <4>1
      <4>3. PICK total \in Nat : total = SmallerOf(Wanted, InnerTotal - MBHDR_SIZE)
        BY <1>2, <2>1, <4>1 DEF SmallerOf
      <4>4. total <= InnerTotal /\ since <= total
        BY <1>2, <2>1, <2>2, <4>1, <4>3 DEF SmallerOf
      <4>5. decoder_failed = 1 => total <= since
        BY <1>2, <2>1, <2>2, <2>4, <4>1, <4>3 DEF SmallerOf
      <4>6. QED
        BY <3>1, <4>1, <4>2, <4>3, <4>4, <4>5
    <3>2. CASE ~Stripped
      <4>1. Skip = 0 /\ Wanted = length /\ Held = First /\ First \in Nat
        BY <1>2, <3>2 DEF Skip, Wanted
      <4>2. Fetched <= InnerTotal
        BY <1>2, <2>1, <4>1
      <4>3. decoder_failed = 1 => InnerTotal <= Fetched
        BY <1>2, <2>1, <2>2, <2>4, <4>1
      <4>4. QED
        BY <1>2, <3>2, <4>2, <4>3
    <3>3. QED
      BY <3>1, <3>2
  <2>6. Contents \in Seq(Nat) /\ Len(Contents) = total /\ Runs(Contents, Skip)
    BY <1>1, <2>5, ContentsRun
  <2>7. total <= length
    BY <1>2, <2>5
  <2>8. QED
    BY <2>3, <2>5, <2>6, <2>7
<1>5. QED
  BY <1>3, <1>4

(* The beginning of a run. *)
LEMMA RunsPrefix ==
  ASSUME NEW f \in Seq(Nat), NEW g \in Seq(Nat), NEW from \in Int, Runs(f, from), Runs(g, from),
         Len(f) <= Len(g)
  PROVE  f = SubSeq(g, 1, Len(f))
<1>1. PICK n \in Nat, m \in Nat : n = Len(f) /\ m = Len(g) /\ n <= m
  OBVIOUS
<1>2. SubSeq(g, 1, n) \in Seq(Nat) /\ Len(SubSeq(g, 1, n)) = n
  BY <1>1
<1>3. ASSUME NEW j \in 1 .. n PROVE f[j] = SubSeq(g, 1, n)[j]
  <2>1. j \in 1 .. Len(g) /\ j \in 1 .. Len(f)
    BY <1>1
  <2>2. SubSeq(g, 1, n)[j] = g[j]
    BY <1>1, <1>2, <2>1
  <2>3. QED
    BY <2>1, <2>2 DEF Runs
<1>4. QED
  BY <1>1, <1>2, <1>3

(* The contents that the reader has. *)
LEMMA ReadInOrder ==
  ASSUME MacInv, opened \in {"ok", "plain"}
  PROVE  Len(crc) <= Len(Contents) /\ crc = SubSeq(Contents, 1, Len(crc))
<1>1. TypeInv /\ BytesInv /\ TotalInv
  BY TotalHolds DEF MacInv
<1>2. /\ Contents \in Seq(Nat) /\ Runs(Contents, Skip)
      /\ Fetched <= Len(Contents) \/ Len(Contents) = length
  BY <1>1 DEF TotalInv
<1>3. crc \in Seq(Nat) /\ Runs(crc, Skip) /\ Skip \in Int
  BY <1>1, Sizable DEF TypeInv, BufferInv, BytesInv
<1>4. PICK c \in Nat, f \in Nat, o \in Nat, t \in Nat :
        c = Len(crc) /\ f = Len(filled) /\ o = Len(outbuf) /\ t = Len(Contents)
  BY <1>1, <1>2 DEF TypeInv, BufferInv
<1>5. outbuf_pos \in 0 .. o /\ c <= length /\ Fetched = c + f + o - outbuf_pos
  <2>1. outbuf_pos \in 0 .. o /\ stream_pos = c /\ stream_pos <= stream_length
    BY <1>1, <1>4, Zenon DEF TypeInv, BufferInv
  <2>2. QED
    BY <1>4, <2>1, Zenon DEF Fetched, length
<1>6. c <= t
  <2>1. Fetched <= t \/ t = length
    BY <1>2, <1>4, Zenon
  <2>2. c <= Fetched /\ Fetched \in Nat
    BY <1>5
  <2>3. length \in Nat
    BY <1>1, Sizable
  <2>4. QED
    BY <1>5, <2>1, <2>2, <2>3
<1>7. QED
  BY <1>2, <1>3, <1>4, <1>6, RunsPrefix

-----------------------------------------------------------------------------
(* A decoder is a ByteSource *)

(* The end of a call that has filled the buffer of the reader, or has come *)
(* to the end of what there is.                                            *)
LEMMA FinishReads ==
  ASSUME MacInv, MacInv', SameFile, pc = "loop", opened \in {"ok", "plain"}, opened' = opened,
         NEW all \in Seq(Nat), Finish(all), Len(all) <= buf_len,
         Len(all) >= buf_len \/ decoder_failed' = 1
  PROVE  ContentsSource!Read
<1>1. TotalInv /\ (MacInv => TotalInv)'
  BY TotalHolds, PTL
<1>2. Contents' = Contents /\ length' = length /\ NoDecoder' = NoDecoder
  BY SameSizes
<1>3. /\ ~NoDecoder /\ Contents \in Seq(Nat) /\ Len(Contents) <= length
      /\ Fetched' <= Len(Contents) \/ Len(Contents) = length
      /\ decoder_failed' = 1 => Len(Contents) <= Fetched'
  BY <1>1, <1>2 DEF TotalInv
<1>4. /\ crc' \in Seq(Nat) /\ stream_pos' = Len(crc') /\ stream_pos' <= stream_length'
      /\ outbuf' \in Seq(Nat) /\ outbuf_pos' \in 0 .. Len(outbuf')
      /\ decoder_failed' = 1 => outbuf' = <<>>
  BY DEF MacInv, TypeInv, BufferInv
<1>5. /\ stream_pos \in Nat /\ request \in Nat /\ buf_len = Truncated(request)
      /\ length \in Nat /\ length = stream_length /\ stream_pos <= length /\ buf_len \in Nat
  BY Sizable DEF MacInv, TypeInv, BufferInv, length
<1>6. /\ stream_pos' = stream_pos + Len(all) /\ asked' = request /\ given' = Len(all)
      /\ filled' = <<>>
  BY DEF Finish
<1>7. PICK a \in Nat, t \in Nat, o \in Nat :
        a = Len(all) /\ t = Len(Contents) /\ o = Len(outbuf')
  BY <1>3, <1>4
<1>8. /\ stream_pos' = stream_pos + a /\ stream_pos' <= length /\ a <= buf_len
      /\ t <= length /\ (a >= buf_len \/ decoder_failed' = 1)
      /\ Fetched' <= t \/ t = length
      /\ decoder_failed' = 1 => t <= Fetched'
  BY <1>2, <1>3, <1>4, <1>5, <1>6, <1>7, Zenon DEF length
<1>9. outbuf_pos' \in 0 .. o /\ Fetched' = stream_pos' + 0 + o - outbuf_pos'
  <2>1. Len(filled') = 0
    BY <1>6
  <2>2. QED
    BY <1>4, <1>7, <2>1, Zenon DEF Fetched
<1>10. decoder_failed' = 1 => o = 0
  BY <1>4, <1>7
<1>11. stream_pos' \in Nat /\ stream_pos' <= Fetched' /\ (decoder_failed' = 1 => Fetched' = stream_pos')
  <2>1. stream_pos' \in Nat
    BY <1>4
  <2>2. PICK p, x, y : p = outbuf_pos' /\ x = stream_pos' /\ y = Fetched'
    OBVIOUS
  <2>3. x \in Nat /\ p \in 0 .. o /\ y = x + 0 + o - p
    BY <1>9, <2>1, <2>2, Zenon
  <2>4. x <= y /\ (o = 0 => y = x)
    BY <2>3
  <2>5. QED
    BY <1>10, <2>1, <2>2, <2>4, Zenon
<1>12. stream_pos + a <= t
  <2>1. Fetched' \in Int
    BY <1>9, <1>11
  <2>2. PICK x \in Nat, y \in Int : x <= y /\ x <= length /\ (y <= t \/ t = length) /\ x = stream_pos'
    BY <1>8, <1>11, <2>1, Zenon
  <2>3. x <= t
    BY <1>5, <2>2
  <2>4. QED
    BY <1>8, <2>2, <2>3, Zenon
<1>13. a = IF request < t - stream_pos THEN request ELSE t - stream_pos
  <2>1. buf_len <= request /\ (buf_len = request \/ buf_len = length - stream_pos)
    BY <1>5 DEF Truncated
  <2>2. CASE a >= buf_len
    BY <1>5, <1>8, <1>12, <2>1, <2>2
  <2>3. CASE decoder_failed' = 1
    <3>1. stream_pos + a = t
      BY <1>5, <1>8, <1>11, <1>12, <2>3
    <3>2. QED
      BY <1>5, <1>8, <2>1, <3>1
  <2>4. QED
    BY <1>8, <2>2, <2>3
<1>14. QED
  BY <1>2, <1>3, <1>5, <1>6, <1>7, <1>13 DEF ContentsSource!Read

(* Nothing changes the file. *)
LEMMA StepSameFile ==
  ASSUME [MacNext]_allVars
  PROVE  SameFile
<1>1. CASE lha_macbinary_passthrough
  BY <1>1 DEF lha_macbinary_passthrough, read_macbinary_header, SameFile
<1>2. ASSUME NEW n \in Sizes, Read(n) PROVE SameFile
  BY <1>2 DEF Read, lha_decoder_read, codecVars, macVars, SameFile
<1>3. CASE (codec_read \/ lha_decoder_monitor) /\ UNCHANGED macVars
  BY <1>3 DEF codec_read, lha_decoder_monitor, RefillTurn, codecVars, macVars, SameFile
<1>4. CASE macbinary_decoder_read
  BY <1>4 DEF macbinary_decoder_read, RefillTurn, SameFile
<1>5. CASE (LoopEnd \/ CopyTurn) /\ UNCHANGED <<codecVars, macVars>>
  BY <1>5 DEF LoopEnd, CopyTurn, codecVars, macVars, SameFile
<1>6. CASE UNCHANGED allVars
  BY <1>6 DEF allVars, vars, codecVars, macVars, SameFile
<1>7. QED
  BY <1>1, <1>2, <1>3, <1>4, <1>5, <1>6 DEF MacNext

(* A turn that gets a block. *)
LEMMA RefillReads ==
  ASSUME MacInv, MacInv', SameFile, opened \in {"ok", "plain"}, opened' = opened,
         NEW block, RefillTurn(block)
  PROVE  ContentsSource!Read \/ UNCHANGED <<stream_pos, asked, given>>
<1>1. TypeInv /\ BytesInv /\ pc = "loop"
  BY DEF MacInv, RefillTurn, NeedsBlock
<1>2. CASE block # <<>>
  BY <1>2 DEF RefillTurn, Continue
<1>3. CASE block = <<>>
  <2>1. Finish(filled \o Copied) /\ decoder_failed' = 1
    BY <1>3 DEF RefillTurn
  <2>2. PICK f \in Nat, m \in Nat : f = Len(filled) /\ m = Len(Copied) /\ f + m <= buf_len
                                  /\ Len(filled \o Copied) = f + m /\ filled \o Copied \in Seq(Nat)
    BY <1>1, CopiedSize
  <2>3. Len(filled \o Copied) <= buf_len
    BY <2>2
  <2>4. QED
    BY <1>1, <2>1, <2>2, <2>3, FinishReads, Zenon
<1>4. QED
  BY <1>2, <1>3

(* A step is a read of ByteSource, or nothing that it can see. *)
LEMMA StepReads ==
  ASSUME MacInv, MacInv', [MacNext]_allVars
  PROVE  [ContentsSource!Read]_(ContentsSource!sourceVars)
<1>1. SameFile
  BY StepSameFile
<1>2. Contents' = Contents /\ NoDecoder' = NoDecoder
  BY <1>1, SameSizes
<1> SUFFICES ContentsSource!Read \/ UNCHANGED <<stream_pos, asked, given>>
  BY <1>2 DEF ContentsSource!sourceVars
<1>3. CASE lha_macbinary_passthrough
  BY <1>3 DEF lha_macbinary_passthrough
<1>4. ASSUME NEW n \in Sizes, Read(n) PROVE UNCHANGED <<stream_pos, asked, given>>
  BY <1>4 DEF Read, lha_decoder_read
<1>5. CASE lha_decoder_monitor
  BY <1>5 DEF lha_decoder_monitor
<1>6. CASE opened = "plain" /\ codec_read /\ UNCHANGED macVars
  <2>1. PICK n : RefillTurn([j \in 1 .. n |-> made + j])
    BY <1>6 DEF codec_read
  <2>2. QED
    BY <1>1, <1>6, <2>1, RefillReads DEF macVars
<1>7. CASE opened = "ok" /\ macbinary_decoder_read
  <2>1. PICK block : RefillTurn(block) /\ opened' = opened
    BY <1>7 DEF macbinary_decoder_read
  <2>2. QED
    BY <1>1, <1>7, <2>1, RefillReads
<1>8. CASE (LoopEnd \/ CopyTurn) /\ UNCHANGED <<codecVars, macVars>>
  <2>1. TypeInv /\ BytesInv /\ pc = "loop" /\ opened' = opened /\ opened \in {"ok", "plain"}
    BY <1>8 DEF MacInv, TypeInv, FileInv, LoopEnd, CopyTurn, macVars
  <2>2. CASE LoopEnd
    <3>1. filled \in Seq(Nat) /\ Len(filled) <= buf_len
      BY <2>1 DEF TypeInv, BufferInv
    <3>2. Finish(filled) /\ Len(filled) >= buf_len
      BY <2>2 DEF LoopEnd
    <3>3. QED
      BY <1>1, <2>1, <3>1, <3>2, FinishReads
  <2>3. CASE CopyTurn /\ decoder_failed = 1
    <3>1. Finish(filled \o Copied) /\ decoder_failed' = 1
      BY <2>3 DEF CopyTurn
    <3>2. PICK f \in Nat, m \in Nat : f = Len(filled) /\ m = Len(Copied) /\ f + m <= buf_len
                                    /\ Len(filled \o Copied) = f + m /\ filled \o Copied \in Seq(Nat)
      BY <2>1, CopiedSize
    <3>3. Len(filled \o Copied) <= buf_len
      BY <3>2
    <3>4. QED
      BY <1>1, <2>1, <3>1, <3>2, <3>3, FinishReads, Zenon
  <2>4. CASE CopyTurn /\ decoder_failed # 1
    BY <2>4 DEF CopyTurn, Continue
  <2>5. QED
    BY <1>8, <2>2, <2>3, <2>4
<1>9. CASE UNCHANGED allVars
  BY <1>9 DEF allVars, vars
<1>10. QED
  BY <1>3, <1>4, <1>5, <1>6, <1>7, <1>8, <1>9 DEF MacNext

(* And nothing has been read at first. *)
LEMMA InitSource ==
  ASSUME MacInit
  PROVE  ContentsSource!Init
<1>1. TypeInv
  BY InitKeeps DEF MacInv
<1>2. stream_pos = 0 /\ asked = 0 /\ given = 0
  BY DEF MacInit, Init, DecoderInit
<1>3. ASSUME ~NoDecoder PROVE Len(Contents) \in Nat
  <2>1. /\ InnerTotal \in Nat /\ MBHDR_SIZE \in Nat /\ ForkLength \in Nat
    <3>1. mb.data_fork_len \in Nat /\ mb.res_fork_len \in Nat
      BY <1>1, MacAssumption, DecoderAssumption DEF TypeInv, FileInv, UINT_MAX
    <3>2. QED
      BY <1>1, <3>1, Sizable DEF ForkLength
  <2>2. Stripped => InnerTotal >= MBHDR_SIZE
    BY <1>3, <2>1 DEF Stripped, NoDecoder
  <2>3. PICK total \in Nat :
          total = IF Stripped THEN SmallerOf(ForkLength, InnerTotal - MBHDR_SIZE) ELSE InnerTotal
    BY <2>1, <2>2 DEF SmallerOf
  <2>4. QED
    BY <1>1, <2>3, ContentsRun
<1>4. QED
  BY <1>2, <1>3 DEF ContentsSource!Init

(* lha_decoder_read: every call gives all that is asked for, or what is    *)
(* left of the contents, whatever the sizes of calls and blocks, and       *)
(* whether or not a MacBinaryDecoder stands in between.                    *)
THEOREM DecoderIsSource == MacSpec => DeliversAll
<1>1. MacInit => ContentsSource!Init
  BY InitSource
<1>2. MacInv /\ MacInv' /\ [MacNext]_allVars => [ContentsSource!Read]_(ContentsSource!sourceVars)
  BY StepReads
<1>3. QED
  BY <1>1, <1>2, MacInvHolds, PTL DEF MacSpec, DeliversAll, ContentsSource!Spec

(* macbinary_decoder_read: when a read gives less than it was asked for,   *)
(* the inner decoder is at its end, and its length and CRC can be trusted. *)
THEOREM InnerDecodedToEnd == MacSpec => []DecodedToEnd
<1>1. MacInv => DecodedToEnd
  BY DEF MacInv, EndInv
<1>2. QED
  BY <1>1, MacInvHolds, PTL

-----------------------------------------------------------------------------
(* Blocks of progress *)

(* Products. *)
LEMMA Grows ==
  ASSUME NEW a \in Nat, NEW b \in Nat, a <= b, NEW c \in Nat
  PROVE  c * a <= c * b
<1>1. PICK d \in Nat : b = a + d
  <2>1. b - a \in Nat /\ b = a + (b - a)
    OBVIOUS
  <2>2. QED
    BY <2>1
<1>2. c * b = c * a + c * d /\ c * d \in Nat /\ c * a \in Nat
  BY <1>1
<1>3. QED
  BY <1>2

(* Quotients. *)
LEMMA Divided ==
  ASSUME NEW n \in Nat, NEW d \in Nat \ {0}
  PROVE  /\ n \div d \in Nat
         /\ d * (n \div d) <= n /\ n < d * (n \div d) + d
  OBVIOUS

(* The largest that a quotient can be. *)
LEMMA Below ==
  ASSUME NEW n \in Nat, NEW d \in Nat \ {0}, NEW q \in Nat, n < d * q + d
  PROVE  n \div d <= q
<1>1. PICK p \in Nat : p = n \div d /\ d * p <= n /\ n < d * p + d
  BY Divided
<1>2. CASE q < p
  <2>1. d * (q + 1) <= d * p
    BY <1>2, Grows
  <2>2. d * (q + 1) = d * q + d /\ d * q \in Nat /\ d * p \in Nat
    OBVIOUS
  <2>3. QED
    BY <1>1, <2>1, <2>2
<1>3. QED
  BY <1>1, <1>2

(* Arithmetic modulo w. *)
LEMMA Wraps ==
  ASSUME NEW w \in Nat \ {0}, NEW x \in 0 .. w - 1
  PROVE  x % w = x /\ (x - w) % w = x /\ (x + w) % w = x
<1>1. x % w = x
  OBVIOUS
<1>2. (x + w) % w = x
  OBVIOUS
<1>3. (x - w) % w = x
  OBVIOUS
<1>4. QED
  BY <1>1, <1>2, <1>3

(* The blocks that progress_callback signals: 1, 1 + f, 1 + 2 * f, ... *)
LEMMA Multiples ==
  ASSUME NEW n \in Nat, NEW f \in Nat \ {0}, (n + f - 1) % f = 0, n > 0
  PROVE \E i \in Nat : n = 1 + f * i
<1>1. PICK m \in Nat : m = n + f - 1
  OBVIOUS
<1>2. m = f * (m \div f) + (m % f) /\ m \div f \in Nat
  OBVIOUS
<1>3. PICK q \in Nat : m = f * q
  BY <1>1, <1>2
<1>4. q # 0
  BY <1>1, <1>3
<1>5. PICK i \in Nat : q = i + 1
  BY <1>4
<1>6. f * q = f * i + f
  BY <1>5
<1>7. QED
  BY <1>1, <1>3, <1>6

(* And only those. *)
LEMMA MultiplesBack ==
  ASSUME NEW n \in Nat, NEW f \in Nat \ {0}, NEW i \in Nat, n = 1 + f * i
  PROVE (n + f - 1) % f = 0
<1>1. n + f - 1 = f * (i + 1)
  OBVIOUS
<1>2. (f * (i + 1)) % f = 0
  OBVIOUS
<1>3. QED
  BY <1>1, <1>2

LOCAL INSTANCE WellFoundedInduction

(* The smallest number of a set. *)
LEMMA Smallest ==
  ASSUME NEW T, T \subseteq Nat, T # {}
  PROVE  \E x \in T : \A y \in T : x <= y
<1> DEFINE R == OpToRel(<, Nat)
<1>1. IsWellFoundedOn(R, Nat)
  BY NatLessThanWellFounded, Zenon
<1>2. \A y, x \in Nat : y < x => <<y, x>> \in R
  BY DEF OpToRel
<1> HIDE DEF R
<1>3. PICK x \in T : \A y \in T : ~ (<<y, x>> \in R)
  BY <1>1, WFMin, Zenon
<1>4. \A y \in T : ~ (y < x)
  BY <1>2, <1>3, Zenon
<1>5. QED
  BY <1>3, <1>4

(* The quotient that the loop of lha_decoder_monitor looks at. *)
LEMMA Quotient ==
  ASSUME stream_length \in Nat
  PROVE  stream_length \div MAX_BLOCKS \in Nat
  BY DecoderAssumption, Divided

(* The block size of the decoder type fits in the word, and a power of two *)
(* is one of the sizes that the loop of lha_decoder_monitor comes by.      *)
LEMMA HighestBit ==
  /\ BlockSize(0) = BLOCK_SIZE
  /\ \E k \in 0 .. WIDTH - 1 : BlockSize(k) = 2 ^ (WIDTH - 1)
<1>1. PICK k \in 0 .. WIDTH - 1 : BLOCK_SIZE * 2 ^ k = 2 ^ (WIDTH - 1)
  BY PowerAssumption
<1>2. PICK b \in Nat \ {0} : b = BLOCK_SIZE
  BY DecoderAssumption
<1>3. 0 \in 0 .. WIDTH /\ k \in 0 .. WIDTH /\ WIDTH - 1 \in 0 .. WIDTH /\ WIDTH \in 0 .. WIDTH
  BY DecoderAssumption
<1>4. PICK p \in Nat \ {0} : p = 2 ^ k
  BY <1>3, DecoderAssumption
<1>5. PICK h \in Nat \ {0} : h = 2 ^ (WIDTH - 1)
  BY <1>3, DecoderAssumption
<1>6. PICK w \in Nat \ {0} : w = 2 ^ WIDTH
  BY <1>3, DecoderAssumption
<1>7. b * p = h /\ h < w
  BY <1>1, <1>2, <1>4, <1>5, <1>6, PowerAssumption, Zenon
<1>8. b <= h
  <2>1. b * 1 <= b * p
    BY <1>2, <1>4, Grows
  <2>2. QED
    BY <1>7, <2>1
<1>9. b % w = b /\ h % w = h
  BY <1>7, <1>8, Wraps
<1>10. BlockSize(0) = BLOCK_SIZE
  <2>1. 2 ^ 0 = 1
    OBVIOUS
  <2>2. BLOCK_SIZE * 2 ^ 0 = b
    BY <1>2, <2>1
  <2>3. QED
    BY <1>2, <1>6, <1>9, <2>2, Zenon DEF BlockSize
<1>11. BlockSize(k) = 2 ^ (WIDTH - 1)
  BY <1>1, <1>5, <1>6, <1>9, Zenon DEF BlockSize
<1>12. QED
  BY <1>10, <1>11

(* lha_decoder_monitor: the loop that doubles the block size ends for      *)
(* every stream whose blocks are few enough with the highest bit.          *)
LEMMA ScalesUpTo ==
  ASSUME stream_length \in Nat, ~Scales
  PROVE  stream_length \div MAX_BLOCKS > 2 ^ (WIDTH - 1)
<1>1. PICK k \in 0 .. WIDTH - 1 : BlockSize(k) = 2 ^ (WIDTH - 1)
  BY HighestBit
<1>2. ~(stream_length \div MAX_BLOCKS <= 2 ^ (WIDTH - 1))
  BY <1>1, Zenon DEF Scales, Enough
<1>3. PICK q \in Nat : q = stream_length \div MAX_BLOCKS
  BY Quotient
<1>4. PICK h \in Nat : h = 2 ^ (WIDTH - 1)
  BY DecoderAssumption
<1>5. QED
  BY <1>2, <1>3, <1>4

(* Where it ends, the size is not 0 and there are not too many blocks. *)
LEMMA Scaled ==
  ASSUME stream_length \in Nat, Scales
  PROVE  ScaledBlockSize \in Nat \ {0} /\ stream_length \div MAX_BLOCKS <= ScaledBlockSize
<1> DEFINE T == {k \in 0 .. WIDTH - 1 : Enough(k)}
           Least(k) == Enough(k) /\ \A j \in 0 .. k - 1 : ~Enough(j)
<1>1. PICK k \in T : \A y \in T : k <= y
  <2>1. T # {} /\ T \subseteq Nat
    BY DecoderAssumption DEF Scales
  <2>2. QED
    BY <2>1, Smallest, Zenon
<1>2. k \in 0 .. WIDTH - 1 /\ Least(k)
  BY <1>1, DecoderAssumption
<1>3. PICK m \in 0 .. WIDTH - 1 : Least(m) /\ ScaledBlockSize = BlockSize(m)
  <2>1. ScaledBlockSize = BlockSize(CHOOSE m \in 0 .. WIDTH - 1 : Least(m))
    BY Zenon DEF ScaledBlockSize
  <2>2. QED
    BY <1>2, <2>1, Zenon
<1>4. PICK q \in Nat : q = stream_length \div MAX_BLOCKS
  BY Quotient
<1>5. PICK bs \in Nat : bs = BlockSize(m)
  <2>1. PICK p \in Nat \ {0} : p = 2 ^ m
    BY <1>3, DecoderAssumption
  <2>2. PICK w \in Nat \ {0} : w = 2 ^ WIDTH
    BY DecoderAssumption
  <2>3. PICK n \in Nat : n = BLOCK_SIZE * p
    BY <2>1, DecoderAssumption
  <2>4. n % w \in Nat
    BY <2>2, <2>3
  <2>5. QED
    BY <2>1, <2>2, <2>3, <2>4, Zenon DEF BlockSize
<1>6. q <= bs
  BY <1>3, <1>4, <1>5, Zenon DEF Enough
<1>7. bs # 0
  <2> SUFFICES ASSUME bs = 0 PROVE FALSE
    OBVIOUS
  <2>1. q <= BLOCK_SIZE
    BY <1>6, DecoderAssumption
  <2>2. Enough(0)
    BY <1>4, <2>1, HighestBit, Zenon DEF Enough
  <2>3. m = 0
    <3>1. ~(0 \in 0 .. m - 1)
      BY <1>3, <2>2, Zenon
    <3>2. QED
      BY <1>3, <3>1, DecoderAssumption
  <2>4. bs = BLOCK_SIZE
    BY <1>5, <2>3, HighestBit, Zenon
  <2>5. QED
    BY <2>4, DecoderAssumption
<1>8. QED
  BY <1>3, <1>4, <1>5, <1>6, <1>7

(* Rounding up. *)
Up(n, d) == (n + d - 1) \div d

(* What rounding up gives. *)
LEMMA UpNat ==
  ASSUME NEW n \in Nat, NEW d \in Nat \ {0}
  PROVE  Up(n, d) \in Nat /\ n <= d * Up(n, d) /\ d * Up(n, d) < n + d
<1>1. PICK m \in Nat : m = n + d - 1
  OBVIOUS
<1>2. PICK q \in Nat : q = m \div d /\ d * q <= m /\ m < d * q + d
  BY <1>1, Divided
<1>3. d * q \in Nat
  OBVIOUS
<1>4. n <= d * q /\ d * q < n + d
  BY <1>1, <1>2, <1>3
<1>5. QED
  BY <1>1, <1>2, <1>4, Zenon DEF Up

(* It gives the least number of portions that is enough. *)
LEMMA UpBelow ==
  ASSUME NEW n \in Nat, NEW d \in Nat \ {0}, NEW q \in Nat, n <= d * q
  PROVE  Up(n, d) <= q
<1>1. PICK m \in Nat, p \in Nat : m = n + d - 1 /\ p = d * q
  OBVIOUS
<1>2. m < d * q + d
  BY <1>1
<1>3. m \div d <= q
  BY <1>2, Below
<1>4. QED
  BY <1>1, <1>3 DEF Up

(* It is monotonic. *)
LEMMA UpGrows ==
  ASSUME NEW n \in Nat, NEW m \in Nat, n <= m, NEW d \in Nat \ {0}
  PROVE  Up(n, d) <= Up(m, d)
<1>1. PICK q \in Nat, p \in Nat : q = Up(m, d) /\ p = d * q /\ m <= p
  BY UpNat
<1>2. n <= p
  BY <1>1
<1>3. QED
  BY <1>1, <1>2, UpBelow

(* The blocks of a stream, counted without overflow. *)
LEMMA BlocksCount ==
  ASSUME stream_length \in Nat, NEW bs \in Nat \ {0},
         stream_length \div MAX_BLOCKS <= bs, NEW pos \in 0 .. stream_length
  PROVE  Blocks(pos, bs) = Up(pos, bs) /\ Up(pos, bs) \in Nat /\ Up(pos, bs) + 1 < 2 ^ WIDTH
<1>1. /\ stream_length \in Nat /\ pos \in Nat /\ pos <= stream_length
      /\ MAX_BLOCKS \in Nat \ {0} /\ 2 ^ WIDTH \in Nat \ {0}
  BY DecoderAssumption
<1>2. stream_length <= bs * (2 * MAX_BLOCKS)
  <2>1. PICK q \in Nat : q <= bs /\ stream_length < MAX_BLOCKS * q + MAX_BLOCKS
    BY <1>1, Divided
  <2>2. PICK x \in Nat, y \in Nat : x = MAX_BLOCKS * q /\ y = MAX_BLOCKS * bs
    BY <1>1
  <2>3. x <= y
    BY <1>1, <2>1, <2>2, Grows
  <2>4. MAX_BLOCKS <= y
    <3>1. MAX_BLOCKS * 1 <= MAX_BLOCKS * bs
      BY <1>1, Grows
    <3>2. QED
      BY <1>1, <2>2, <3>1
  <2>5. stream_length <= y + y
    BY <1>1, <2>1, <2>2, <2>3, <2>4
  <2>6. bs * (2 * MAX_BLOCKS) = MAX_BLOCKS * bs + MAX_BLOCKS * bs
    BY <1>1
  <2>7. QED
    BY <2>2, <2>5, <2>6, Zenon
<1>3. PICK top \in Nat : top = 2 * MAX_BLOCKS
  BY <1>1
<1>4. PICK all \in Nat : all = bs * top
  OBVIOUS
<1>5. pos <= bs * top
  <2>1. stream_length <= all
    BY <1>2, <1>3, <1>4, Zenon
  <2>2. pos <= all
    BY <1>1, <2>1
  <2>3. QED
    BY <1>4, <2>2, Zenon
<1>6. Up(pos, bs) \in Nat /\ Up(pos, bs) <= top
  BY <1>1, <1>5, UpNat, UpBelow, Zenon
<1>7. PICK w \in Nat \ {0}, q \in Nat : w = 2 ^ WIDTH /\ q = Up(pos, bs)
  BY <1>1, <1>6
<1>8. q + 1 < w
  <2>1. top + 1 < w
    BY <1>3, <1>7, BlocksAssumption, Zenon
  <2>2. q <= top
    BY <1>6, <1>7, Zenon
  <2>3. QED
    BY <2>1, <2>2
<1>9. q % w = q
  BY <1>8, Wraps
<1>10. Blocks(pos, bs) = q % w
  BY <1>7, Zenon DEF Blocks, Up
<1>11. QED
  BY <1>7, <1>8, <1>9, <1>10, Zenon

(* The blocks below n, in order. *)
Counted(n) == [k \in 1 .. n |-> k - 1]

(* Counting on from n. *)
LEMMA CountedOn ==
  ASSUME NEW n \in Nat, NEW m \in Nat, NEW all \in Nat, n + m = all
  PROVE  Counted(n) \o [k \in 1 .. m |-> n + k - 1] = Counted(all)
<1>1. PICK f \in Seq(Nat), g \in Seq(Nat) :
        /\ f = Counted(n) /\ Len(f) = n /\ g = [k \in 1 .. m |-> n + k - 1] /\ Len(g) = m
  <2>1. Counted(n) \in Seq(Nat) /\ Len(Counted(n)) = n
    BY DEF Counted
  <2>2. [k \in 1 .. m |-> n + k - 1] \in Seq(Nat) /\ Len([k \in 1 .. m |-> n + k - 1]) = m
    OBVIOUS
  <2>3. QED
    BY <2>1, <2>2, Zenon
<1>2. /\ \A k \in 1 .. n : f[k] = k - 1
      /\ \A k \in 1 .. m : g[k] = n + k - 1
  BY <1>1 DEF Counted
<1>3. PICK h \in Seq(Nat) : h = f \o g /\ Len(h) = all
  <2>1. f \o g \in Seq(Nat) /\ Len(f \o g) = Len(f) + Len(g)
    OBVIOUS
  <2>2. QED
    BY <1>1, <2>1, Zenon
<1>4. ASSUME NEW k \in 1 .. all PROVE h[k] = k - 1
  <2>1. CASE k <= n
    <3>1. (f \o g)[k] = f[k] /\ k \in 1 .. n
      BY <1>1, <2>1
    <3>2. QED
      BY <1>2, <1>3, <3>1
  <2>2. CASE k > n
    <3>1. (f \o g)[k] = g[k - n] /\ k - n \in 1 .. m
      BY <1>1, <2>2
    <3>2. QED
      BY <1>2, <1>3, <3>1
  <2>3. k <= n \/ k > n
    OBVIOUS
  <2>4. QED
    BY <2>1, <2>2, <2>3, Zenon
<1>5. h = [k \in 1 .. all |-> k - 1]
  <2>1. h \in [1 .. Len(h) -> Nat]
    OBVIOUS
  <2>2. QED
    BY <1>3, <1>4, <2>1, Zenon
<1>6. QED
  BY <1>1, <1>3, <1>5, Zenon DEF Counted

(* check_progress_callback: it goes on where it was. *)
LEMMA AnnounceCounts ==
  ASSUME NEW pos, NEW bs, NEW block \in Nat, block = Blocks(pos, bs), block + 1 < 2 ^ WIDTH,
         NEW n \in Nat, n <= block + 1, announced = Counted(n),
         n = 0 => last_block = UINT_MAX, n # 0 => last_block = n - 1,
         Announce(pos, bs)
  PROVE  last_block' = block /\ announced' = Counted(block + 1)
<1>1. PICK w \in Nat \ {0} : w = 2 ^ WIDTH
  BY DecoderAssumption
<1>2. PICK last, turns : last = last_block /\ turns = (block - last) % w
  OBVIOUS
<1>3. block + 1 < w /\ (n = 0 => last = w - 1) /\ (n # 0 => last = n - 1)
  BY <1>1, <1>2, Zenon DEF UINT_MAX
<1>4. turns = block + 1 - n
  <2>1. PICK d \in 0 .. w - 1 : d = block + 1 - n
    BY <1>3
  <2>2. d % w = d /\ (d - w) % w = d
    BY <2>1, Wraps
  <2>3. block - last = d \/ block - last = d - w
    BY <1>3, <2>1
  <2>4. turns = d
    BY <1>2, <2>2, <2>3, Zenon
  <2>5. QED
    BY <2>1, <2>4
<1>5. ASSUME NEW k \in 1 .. turns PROVE (last + k) % w = n + k - 1
  <2>1. PICK d \in 0 .. w - 1 : d = n + k - 1
    BY <1>3, <1>4
  <2>2. d % w = d /\ (d + w) % w = d
    BY <2>1, Wraps, Zenon
  <2>3. last + k = d \/ last + k = d + w
    BY <1>3, <1>4, <2>1
  <2>4. (last + k) % w = d
    BY <2>2, <2>3, Zenon
  <2>5. QED
    BY <2>1, <2>4
<1>6. /\ last_block' = block
      /\ announced' = announced \o [k \in 1 .. turns |-> (last + k) % w]
  BY <1>1, <1>2, Zenon DEF Announce
<1>7. [k \in 1 .. turns |-> (last + k) % w] = [k \in 1 .. turns |-> n + k - 1]
  BY <1>5, Zenon
<1>8. Counted(n) \o [k \in 1 .. turns |-> n + k - 1] = Counted(block + 1)
  <2>1. turns \in Nat /\ n + turns = block + 1 /\ block + 1 \in Nat
    BY <1>4
  <2>2. PICK m \in Nat, all \in Nat : m = turns /\ all = block + 1 /\ n + m = all
    BY <2>1, Zenon
  <2>3. Counted(n) \o [k \in 1 .. m |-> n + k - 1] = Counted(all)
    BY <2>2, CountedOn, ZenonT(30)
  <2>4. QED
    BY <2>2, <2>3, Zenon
<1>9. QED
  BY <1>6, <1>7, <1>8, Zenon

(* With a callback, the block of the position has been announced, and all  *)
(* those before it.                                                        *)
ProgressInv ==
  /\ block_size = 0 => announced = Counted(0) /\ last_block = UINT_MAX /\ total_blocks = 0
  /\ block_size # 0 =>
       /\ Scales /\ block_size = ScaledBlockSize
       /\ total_blocks = Blocks(stream_length, block_size)
       /\ last_block = Blocks(stream_pos, block_size)
       /\ announced = Counted(last_block + 1)

(* check_progress_callback: it announces the blocks up to the position. *)
LEMMA AnnounceKeeps ==
  ASSUME stream_length \in Nat, stream_pos \in Nat, ProgressInv, Scales,
         NEW pos \in 0 .. stream_length, stream_pos <= pos, Announce(pos, ScaledBlockSize)
  PROVE  last_block' = Blocks(pos, ScaledBlockSize) /\ announced' = Counted(last_block' + 1)
<1>1. PICK bs \in Nat \ {0} : bs = ScaledBlockSize /\ stream_length \div MAX_BLOCKS <= bs
  BY Scaled
<1>2. stream_pos \in 0 .. stream_length
  BY DecoderAssumption
<1>3. PICK block \in Nat : block = Blocks(pos, bs) /\ block = Up(pos, bs) /\ block + 1 < 2 ^ WIDTH
  BY <1>1, BlocksCount
<1>4. PICK before \in Nat : before = Blocks(stream_pos, bs) /\ before = Up(stream_pos, bs)
  BY <1>1, <1>2, BlocksCount
<1>5. before <= block
  BY <1>3, <1>4, UpGrows
<1>6. Announce(pos, bs)
  BY <1>1, Zenon
<1>7. CASE block_size = 0
  <2>1. announced = Counted(0) /\ last_block = UINT_MAX
    BY <1>7 DEF ProgressInv
  <2>2. 0 \in Nat /\ 0 <= block + 1
    OBVIOUS
  <2>3. last_block' = block /\ announced' = Counted(block + 1)
    BY <1>3, <1>6, <2>1, <2>2, AnnounceCounts, Zenon
  <2>4. QED
    BY <1>1, <1>3, <2>3, Zenon
<1>8. CASE block_size # 0
  <2>1. last_block = before /\ announced = Counted(before + 1)
    BY <1>1, <1>4, <1>8, Zenon DEF ProgressInv
  <2>2. PICK n \in Nat : n = before + 1 /\ n <= block + 1 /\ n # 0 /\ before = n - 1
    BY <1>5
  <2>3. announced = Counted(n) /\ last_block = n - 1
    BY <2>1, <2>2, Zenon
  <2>4. last_block' = block /\ announced' = Counted(block + 1)
    BY <1>3, <1>6, <2>2, <2>3, AnnounceCounts, Zenon
  <2>5. QED
    BY <1>1, <1>3, <2>4, Zenon
<1>9. QED
  BY <1>7, <1>8

(* lha_decoder_read: the end of a call announces what it has read. *)
LEMMA FinishProgress ==
  ASSUME MacInv, MacInv', ProgressInv, NEW all, Finish(all),
         UNCHANGED <<stream_length, block_size, total_blocks>>
  PROVE  ProgressInv'
<1>1. stream_length \in Nat /\ stream_pos \in Nat
  BY DEF MacInv, TypeInv, BufferInv, FileInv
<1>2. stream_pos' \in Nat /\ stream_pos' <= stream_length /\ stream_pos' = Len(crc')
  BY DEF MacInv, TypeInv, BufferInv, FileInv
<1>3. ScaledBlockSize' = ScaledBlockSize /\ (Scales' <=> Scales)
  BY DEF ScaledBlockSize, Scales, Enough, BlockSize
<1>4. CASE block_size = 0
  <2>1. UNCHANGED <<last_block, announced>>
    BY <1>4 DEF Finish, check_progress_callback
  <2>2. QED
    BY <1>4, <2>1, Zenon DEF ProgressInv, Counted, UINT_MAX
<1>5. CASE block_size # 0
  <2>1. Scales /\ block_size = ScaledBlockSize /\ total_blocks = Blocks(stream_length, block_size)
    BY <1>5 DEF ProgressInv
  <2>2. Announce(stream_pos', ScaledBlockSize)
    BY <1>5, <2>1, Zenon DEF Finish, check_progress_callback
  <2>3. stream_pos' \in 0 .. stream_length /\ stream_pos <= stream_pos'
    <3>1. stream_pos' = stream_pos + Len(all) /\ given' = Len(all) /\ given' \in Nat
      BY DEF Finish, MacInv, TypeInv, BufferInv
    <3>2. QED
      BY <1>1, <1>2, <3>1, DecoderAssumption
  <2>4. /\ last_block' = Blocks(stream_pos', ScaledBlockSize)
        /\ announced' = Counted(last_block' + 1)
    BY <1>1, <2>1, <2>2, <2>3, AnnounceKeeps, Zenon
  <2>5. block_size' = ScaledBlockSize' /\ block_size' = ScaledBlockSize /\ stream_length' = stream_length
    BY <1>3, <2>1, Zenon
  <2>6. total_blocks' = Blocks(stream_length', block_size')
    BY <2>1, <2>5, Zenon
  <2>7. last_block' = Blocks(stream_pos', block_size') /\ block_size' # 0
    BY <1>5, <2>4, <2>5, Zenon
  <2>8. QED
    BY <1>3, <2>1, <2>4, <2>5, <2>6, <2>7, Zenon DEF ProgressInv, Blocks, Counted
<1>6. QED
  BY <1>4, <1>5

(* Every step keeps the invariant of the progress. *)
LEMMA NextProgress ==
  ASSUME MacInv, MacInv', ProgressInv, [MacNext]_allVars
  PROVE  ProgressInv'
<1>1. stream_length' = stream_length /\ ScaledBlockSize' = ScaledBlockSize /\ (Scales' <=> Scales)
  BY StepSameFile, Zenon DEF SameFile, ScaledBlockSize, Scales, Enough
<1>2. ASSUME UNCHANGED <<block_size, total_blocks, last_block, announced, stream_pos>>
      PROVE  ProgressInv'
  BY <1>1, <1>2, Zenon DEF ProgressInv, Blocks, Counted, UINT_MAX
<1>3. CASE lha_macbinary_passthrough
  BY <1>2, <1>3 DEF lha_macbinary_passthrough, progressVars
<1>4. ASSUME NEW n \in Sizes, Read(n) PROVE ProgressInv'
  BY <1>2, <1>4 DEF Read, lha_decoder_read, progressVars
<1>5. ASSUME NEW block, RefillTurn(block) PROVE ProgressInv'
  BY <1>1, <1>2, <1>5, FinishProgress DEF RefillTurn, Continue
<1>6. CASE codec_read
  BY <1>5, <1>6 DEF codec_read
<1>7. CASE macbinary_decoder_read
  BY <1>5, <1>7 DEF macbinary_decoder_read
<1>8. CASE LoopEnd
  BY <1>1, <1>8, FinishProgress DEF LoopEnd
<1>9. CASE CopyTurn
  BY <1>1, <1>2, <1>9, FinishProgress DEF CopyTurn, Continue
<1>10. CASE lha_decoder_monitor
  <2>1. /\ stream_length \in Nat /\ stream_pos \in Nat /\ stream_pos <= stream_length
    BY DEF MacInv, TypeInv, BufferInv, FileInv
  <2>2. CASE Scales
    <3>1. /\ block_size' = ScaledBlockSize /\ total_blocks' = Blocks(stream_length, ScaledBlockSize)
          /\ Announce(stream_pos, ScaledBlockSize) /\ stream_pos' = stream_pos
      BY <1>10, <2>2 DEF lha_decoder_monitor
    <3>2. stream_pos \in 0 .. stream_length /\ stream_pos <= stream_pos
      BY <2>1, DecoderAssumption
    <3>3. /\ last_block' = Blocks(stream_pos, ScaledBlockSize) /\ announced' = Counted(last_block' + 1)
      BY <2>1, <2>2, <3>1, <3>2, AnnounceKeeps, Zenon
    <3>4. ScaledBlockSize # 0
      BY <2>1, <2>2, Scaled
    <3>5. QED
      BY <1>1, <2>2, <3>1, <3>3, <3>4, Zenon DEF ProgressInv, Blocks, Counted
  <2>3. CASE ~Scales
    <3>1. block_size = 0
      BY <2>3 DEF ProgressInv
    <3>2. block_size' = 0 /\ UNCHANGED <<total_blocks, last_block, announced, stream_pos>>
      BY <1>10, <2>3 DEF lha_decoder_monitor
    <3>3. QED
      BY <1>2, <3>1, <3>2
  <2>4. QED
    BY <2>2, <2>3
<1>11. CASE UNCHANGED allVars
  BY <1>2, <1>11 DEF allVars, vars, progressVars
<1>12. QED
  BY <1>3, <1>4, <1>6, <1>7, <1>8, <1>9, <1>10, <1>11 DEF MacNext

(* lha_decoder_monitor: where its loop never ends, no block size will do. *)
StuckInv == pc = "scaling" => ~Scales

(* Nothing but lha_decoder_monitor is stuck there. *)
LEMMA NextStuck ==
  ASSUME StuckInv, [MacNext]_allVars
  PROVE  StuckInv'
<1>1. Scales' <=> Scales
  BY StepSameFile, Zenon DEF SameFile, Scales, Enough
<1>2. ASSUME pc' = pc \/ pc' \in {"idle", "loop"} PROVE StuckInv'
  BY <1>1, <1>2 DEF StuckInv
<1>3. CASE lha_macbinary_passthrough
  BY <1>2, <1>3 DEF lha_macbinary_passthrough, readVars
<1>4. ASSUME NEW n \in Sizes, Read(n) PROVE StuckInv'
  BY <1>2, <1>4 DEF Read, lha_decoder_read
<1>5. ASSUME NEW block, RefillTurn(block) PROVE StuckInv'
  BY <1>2, <1>5 DEF RefillTurn, Finish, Continue
<1>6. CASE codec_read
  BY <1>5, <1>6 DEF codec_read
<1>7. CASE macbinary_decoder_read
  BY <1>5, <1>7 DEF macbinary_decoder_read
<1>8. CASE LoopEnd \/ CopyTurn
  BY <1>2, <1>8 DEF LoopEnd, CopyTurn, Finish, Continue
<1>9. CASE lha_decoder_monitor
  BY <1>1, <1>2, <1>9 DEF lha_decoder_monitor, StuckInv
<1>10. CASE UNCHANGED allVars
  BY <1>2, <1>10 DEF allVars, vars, readVars
<1>11. QED
  BY <1>3, <1>4, <1>6, <1>7, <1>8, <1>9, <1>10 DEF MacNext

(* So they are invariants. *)
LEMMA ProgressHolds == MacSpec => [](MacInv /\ ProgressInv /\ StuckInv)
<1>1. MacInit => ProgressInv /\ StuckInv
  BY DEF MacInit, Init, DecoderInit, ProgressInv, StuckInv, Counted
<1>2. MacInv /\ MacInv' /\ ProgressInv /\ [MacNext]_allVars => ProgressInv'
  BY NextProgress
<1>3. StuckInv /\ [MacNext]_allVars => StuckInv'
  BY NextStuck
<1>4. QED
  BY <1>1, <1>2, <1>3, MacInvHolds, PTL DEF MacSpec

(* The types of what the callback is told. *)
LEMMA ProgressTypes ==
  ASSUME MacInv, ProgressInv
  PROVE  block_size \in Nat /\ total_blocks \in Nat /\ last_block \in 0 .. UINT_MAX
<1>1. /\ stream_length \in Nat /\ stream_pos \in 0 .. stream_length
      /\ stream_length \in 0 .. stream_length
  BY DecoderAssumption DEF MacInv, TypeInv, BufferInv, FileInv
<1>2. UINT_MAX \in Nat /\ UINT_MAX = 2 ^ WIDTH - 1 /\ 2 ^ WIDTH \in Nat
  BY DecoderAssumption DEF UINT_MAX
<1>3. CASE block_size = 0
  BY <1>2, <1>3 DEF ProgressInv
<1>4. CASE block_size # 0
  <2>1. PICK bs \in Nat \ {0} : bs = ScaledBlockSize /\ stream_length \div MAX_BLOCKS <= bs
    BY <1>1, <1>4, Scaled DEF ProgressInv
  <2>2. /\ Blocks(stream_pos, bs) \in Nat /\ Blocks(stream_pos, bs) + 1 < 2 ^ WIDTH
        /\ Blocks(stream_length, bs) \in Nat
    BY <1>1, <2>1, BlocksCount
  <2>3. /\ block_size = bs /\ total_blocks = Blocks(stream_length, bs)
        /\ last_block = Blocks(stream_pos, bs)
    BY <1>4, <2>1, Zenon DEF ProgressInv
  <2>4. last_block \in Nat /\ last_block + 1 < 2 ^ WIDTH
    BY <2>2, <2>3, Zenon
  <2>5. last_block \in 0 .. UINT_MAX
    BY <1>2, <2>4
  <2>6. QED
    BY <2>2, <2>3, <2>5
<1>5. QED
  BY <1>3, <1>4

(* Cardinality as ProgressBar knows it, spelled out: FiniteSetTheorems,    *)
(* which is taken in below and not at the top to keep the proofs up to     *)
(* here light, brings its own copy of the definition.                      *)
SizeOf(S) ==
  LET CS[T \in SUBSET S] == IF T = {} THEN 0 ELSE 1 + CS[T \ {CHOOSE x : x \in T}]
  IN  CS[S]

(* The number of dots, with the size spelled out. *)
LEMMA SignalledSize ==
  Signalled = SizeOf({k \in DOMAIN announced : progress_callback(announced[k], total_blocks)})
  BY DEF Signalled, Cardinality, SizeOf

LOCAL INSTANCE FiniteSetTheorems
LOCAL INSTANCE FunctionTheorems

(* Of the blocks up to b, progress_callback signals every f-th. *)
LEMMA SignalCount ==
  ASSUME NEW b \in Nat, NEW f \in Nat \ {0}
  PROVE  LET S == {k \in 1 .. b + 1 : k - 1 # 0 /\ (k - 1 + f - 1) % f = 0}
         IN  Cardinality(S) = Up(b, f)
<1> DEFINE S == {k \in 1 .. b + 1 : k - 1 # 0 /\ (k - 1 + f - 1) % f = 0}
           g == [i \in 1 .. Up(b, f) |-> 2 + f * (i - 1)]
<1>1. PICK n \in Nat : n = Up(b, f) /\ b <= f * n /\ f * n < b + f
  BY UpNat
<1>2. ASSUME NEW i \in 1 .. n PROVE 2 + f * (i - 1) \in S
  <2>1. PICK h \in Nat, p \in Nat : h = i - 1 /\ p = f * h
    OBVIOUS
  <2>2. p + f <= f * n
    <3>1. f * (h + 1) <= f * n
      BY <2>1, Grows
    <3>2. f * (h + 1) = f * h + f
      BY <2>1
    <3>3. QED
      BY <2>1, <3>1, <3>2, Zenon
  <2>3. PICK q \in Nat : q = f * n
    BY <1>1
  <2>4. 2 + p \in 1 .. b + 1
    <3>1. p + f <= q /\ q < b + f
      BY <1>1, <2>2, <2>3, Zenon
    <3>2. QED
      BY <3>1
  <2>5. PICK m \in Nat : m = 1 + p /\ 2 + p - 1 = m /\ m # 0
    OBVIOUS
  <2>6. (m + f - 1) % f = 0
    BY <2>1, <2>5, MultiplesBack
  <2>7. 2 + p \in S
    <3>1. (2 + p - 1 + f - 1) % f = 0 /\ 2 + p - 1 # 0
      BY <2>5, <2>6, Zenon
    <3>2. QED
      BY <2>4, <3>1
  <2>8. QED
    BY <2>1, <2>7, Zenon
<1>3. ASSUME NEW k \in S PROVE \E i \in 1 .. n : k = 2 + f * (i - 1)
  <2>1. PICK m \in Nat : m = k - 1 /\ m > 0 /\ m <= b /\ (m + f - 1) % f = 0
    OBVIOUS
  <2>2. PICK h \in Nat : m = 1 + f * h
    BY <2>1, Multiples, Zenon
  <2>3. h < n
    <3>1. CASE n <= h
      <4>1. f * n <= f * h
        BY <3>1, Grows
      <4>2. PICK p \in Nat, q \in Nat : p = f * h /\ q = f * n /\ q <= p /\ b <= q /\ m = 1 + p
        BY <1>1, <2>2, <4>1
      <4>3. QED
        BY <2>1, <4>2
    <3>2. QED
      BY <3>1
  <2>4. PICK i \in 1 .. n : i - 1 = h
    <3>1. h + 1 \in 1 .. n /\ (h + 1) - 1 = h
      BY <2>3
    <3>2. QED
      BY <3>1, Zenon
  <2>5. PICK p \in Nat : p = f * h
    OBVIOUS
  <2>6. k = 2 + p
    BY <2>1, <2>2, <2>5
  <2>7. QED
    BY <2>4, <2>5, <2>6, Zenon
<1>4. ASSUME NEW i \in 1 .. n, NEW j \in 1 .. n, i < j PROVE 2 + f * (i - 1) # 2 + f * (j - 1)
  <2>1. PICK h \in Nat, l \in Nat : h = i - 1 /\ l = j - 1 /\ h + 1 <= l
    BY <1>4
  <2>2. f * (h + 1) <= f * l /\ f * (h + 1) = f * h + f
    BY <2>1, Grows
  <2>3. PICK p \in Nat, q \in Nat : p = f * h /\ q = f * l /\ p + f <= q
    BY <2>2
  <2>4. 2 + p # 2 + q
    BY <2>3
  <2>5. QED
    BY <2>1, <2>3, <2>4, Zenon
<1>5. g = [i \in 1 .. n |-> 2 + f * (i - 1)]
  BY <1>1, Zenon
<1> HIDE DEF g, S
<1>6. g \in [1 .. n -> S]
  BY <1>2, <1>5, Zenon
<1>7. \A i, j \in 1 .. n : g[i] = g[j] => i = j
  <2>1. \A i, j \in 1 .. n : i < j \/ j < i \/ i = j
    OBVIOUS
  <2>2. QED
    BY <1>4, <1>5, <2>1, Zenon
<1>8. \A k \in S : \E i \in 1 .. n : g[i] = k
  BY <1>3, <1>5, Zenon
<1>9. g \in Bijection(1 .. n, S)
  BY <1>6, <1>7, <1>8, Fun_IsBij, Zenon
<1>10. ExistsBijection(1 .. n, S)
  BY <1>9, Zenon DEF ExistsBijection
<1>11. Cardinality(S) = n
  BY <1>10, FS_CountingElements
<1>12. QED
  BY <1>1, <1>11, Zenon DEF S

(* The size is what FiniteSetTheorems speaks of. *)
LEMMA SizeIsCardinality ==
  ASSUME NEW S
  PROVE  Cardinality(S) = SizeOf(S)
  BY DEF Cardinality, SizeOf

(* progress_callback: the dots fit on a line. *)
LEMMA DotsFit ==
  ASSUME NEW n \in Nat
  PROVE  factor(n) \in Nat \ {0} /\ Dots(n) = Up(n, factor(n)) /\ Dots(n) <= MAX_PROGRESS_LEN
<1>1. PICK len \in Nat \ {0} : len = MAX_PROGRESS_LEN
  BY ProgressAssumption
<1>2. PICK q \in Nat : q = n \div len /\ n < len * q + len
  BY Divided
<1>3. PICK f \in Nat \ {0} : f = 1 + q /\ f = factor(n)
  BY <1>1, <1>2 DEF factor
<1>4. f * len = len * q + len /\ f * len \in Nat
  BY <1>3
<1>5. n <= f * len
  BY <1>2, <1>4
<1>6. Up(n, f) <= len
  BY <1>5, UpBelow
<1>7. Dots(n) = Up(n, factor(n))
  BY Zenon DEF Dots, Up
<1>8. QED
  BY <1>1, <1>3, <1>6, <1>7, Zenon

(* ProgressInOrder follows from the invariants. *)
LEMMA ProgressOrdered ==
  ASSUME MacInv, ProgressInv, StuckInv
  PROVE  ProgressInOrder
<1>1. \A n \in Nat : Counted(n) \in Seq(Nat) /\ Len(Counted(n)) = n
  BY DEF Counted
<1>2. PICK n \in Nat : announced = Counted(n) /\ (block_size # 0 => n = last_block + 1)
  <2>1. last_block + 1 \in Nat /\ 0 \in Nat
    BY ProgressTypes, DecoderAssumption DEF UINT_MAX
  <2>2. QED
    BY <2>1, Zenon DEF ProgressInv
<1>3. Len(announced) = n /\ announced = [k \in 1 .. Len(announced) |-> k - 1]
  <2>1. Len(announced) = n
    BY <1>1, <1>2, Zenon
  <2>2. QED
    BY <1>2, <2>1, Zenon DEF Counted
<1>4. ASSUME block_size # 0
      PROVE  /\ Len(announced) = Blocks(stream_pos, block_size) + 1
             /\ Dots(total_blocks) <= MAX_PROGRESS_LEN
             /\ Signalled <= Dots(total_blocks)
             /\ stream_pos = stream_length => Signalled = Dots(total_blocks)
  <2>1. /\ stream_length \in Nat /\ stream_pos \in 0 .. stream_length
        /\ stream_length \in 0 .. stream_length
    BY DecoderAssumption DEF MacInv, TypeInv, BufferInv, FileInv
  <2>2. PICK bs \in Nat \ {0} : bs = block_size /\ stream_length \div MAX_BLOCKS <= bs
    BY <1>4, <2>1, Scaled DEF ProgressInv
  <2>3. PICK b \in Nat, t \in Nat :
          /\ b = last_block /\ b = Blocks(stream_pos, bs) /\ b = Up(stream_pos, bs)
          /\ t = total_blocks /\ t = Up(stream_length, bs)
    <3>1. /\ last_block = Blocks(stream_pos, bs) /\ total_blocks = Blocks(stream_length, bs)
      BY <1>4, <2>2, Zenon DEF ProgressInv
    <3>2. /\ Blocks(stream_pos, bs) = Up(stream_pos, bs) /\ Up(stream_pos, bs) \in Nat
          /\ Blocks(stream_length, bs) = Up(stream_length, bs) /\ Up(stream_length, bs) \in Nat
      BY <2>1, <2>2, BlocksCount
    <3>3. QED
      BY <3>1, <3>2, Zenon
  <2>4. b <= t
    BY <2>1, <2>3, UpGrows
  <2>5. PICK f \in Nat \ {0} : f = factor(t) /\ Dots(t) = Up(t, f) /\ Dots(t) <= MAX_PROGRESS_LEN
    BY DotsFit, Zenon
  <2>6. Signalled = Up(b, f)
    <3>1. announced = Counted(b + 1)
      BY <1>2, <1>4, <2>3, Zenon
    <3>2. DOMAIN announced = 1 .. b + 1 /\ \A k \in 1 .. b + 1 : announced[k] = k - 1
      BY <3>1 DEF Counted
    <3>3. {k \in DOMAIN announced : progress_callback(announced[k], total_blocks)}
            = {k \in 1 .. b + 1 : k - 1 # 0 /\ (k - 1 + f - 1) % f = 0}
      BY <2>3, <2>5, <3>2, Zenon DEF progress_callback
    <3>4. QED
      BY <3>3, SignalCount, SignalledSize, SizeIsCardinality, Zenon
  <2>7. Up(b, f) <= Up(t, f)
    BY <2>4, UpGrows
  <2>8. stream_pos = stream_length => b = t
    BY <2>3, Zenon
  <2>9. QED
    BY <1>2, <1>3, <1>4, <2>2, <2>3, <2>5, <2>6, <2>7, <2>8, Zenon
<1>5. ASSUME pc = "scaling" PROVE stream_length \div MAX_BLOCKS > 2 ^ (WIDTH - 1)
  <2>1. stream_length \in Nat /\ ~Scales
    BY <1>5 DEF MacInv, TypeInv, FileInv, StuckInv
  <2>2. QED
    BY <2>1, ScalesUpTo, Zenon
<1>6. QED
  BY <1>3, <1>4, <1>5, Zenon DEF ProgressInOrder

(* check_progress_callback, progress_callback: every block is announced    *)
(* once and in order, whatever the sizes of the reads, and the bar of      *)
(* dots fits on its line, is never overrun and is full at the end.         *)
(* lha_decoder_monitor, which sets the callback, returns for every stream  *)
(* of less than (2 ^ (WIDTH - 1) + 1) * MAX_BLOCKS bytes.                  *)
THEOREM ProgressComplete == MacSpec => []ProgressInOrder
<1>1. MacInv /\ ProgressInv /\ StuckInv => ProgressInOrder
  BY ProgressOrdered
<1>2. QED
  BY <1>1, ProgressHolds, PTL

(* lha_decoder_read, macbinary_decoder_read: what is read is the contents  *)
(* from their beginning, each byte once and in order, for streams, blocks, *)
(* reads and MacBinary headers of every size; and no field leaves its      *)
(* range.                                                                  *)
THEOREM ContentsDelivered == MacSpec => []DeliversContents
<1>1. ASSUME MacInv, ProgressInv PROVE DeliversContents
  <2>1. block_size \in Nat /\ total_blocks \in Nat /\ last_block \in 0 .. UINT_MAX
    BY <1>1, ProgressTypes
  <2>2. stream_length \in Nat /\ stream_pos \in 0 .. stream_length
    BY <1>1, DecoderAssumption DEF MacInv, TypeInv, BufferInv, FileInv
  <2>3. TypeOK
    BY <1>1, <2>1, <2>2 DEF TypeOK, MacInv, TypeInv, BufferInv, FileInv
  <2>4. MacTypeOK
    BY <1>1, <2>3 DEF MacTypeOK, MacInv, TypeInv, FileInv
  <2>5. QED
    BY <1>1, <2>4, ReadInOrder DEF DeliversContents
<1>2. QED
  BY <1>1, ProgressHolds, PTL
=============================================================================
