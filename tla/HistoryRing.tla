---------------------------- MODULE HistoryRing ----------------------------
(***************************************************************************)
(* The ring buffer that every decoder but the null decoder has: the bytes  *)
(* output last, from which its copy commands copy.  Each decoder has its   *)
(* own copy of this code; what differs is the size of the ring, what it    *)
(* holds at first and where a copy starts.  The specification at the end   *)
(* is what the decoders have in common, and the decoders' modules say how  *)
(* each of them comes to its steps.                                        *)
(***************************************************************************)
EXTENDS Integers, Sequences

CONSTANTS
  RING_BUFFER_SIZE,  \* of each method
  LITERALS,          \* 256: number of bytes
  Space,             \* 0x20
  MaxOutput          \* of each method: most bytes before the last read

(* -lh5- stands for -lh4- to -lh7- and -lhx- too. *)
Methods == {"-lh1-", "-lh5-", "-lk7-", "-lz5-", "-lzs-", "-pm1-", "-pm2-"}
Byte    == 0 .. LITERALS - 1

ASSUME RingAssumption ==
  /\ RING_BUFFER_SIZE \in [Methods -> Nat \ {0}]
  /\ LITERALS \in Nat /\ Space \in Byte
  /\ MaxOutput \in [Methods -> Nat]

VARIABLES
  method,                \* the method of the entry, which chooses the decoder
  ringbuf, ringbuf_pos,  \* of the decoder
  buf_len,               \* bytes in the output buffer of this call of read
  start, count, copied,  \* the copy that is being made
  distance,              \* history: how far back it is to go
  out                    \* history: what the ring held at first, oldest
                         \* byte first, and then all the output

ringVars == <<ringbuf, ringbuf_pos, buf_len, out>>
copyVars == <<start, count, copied, distance>>
historyVars == <<method, ringVars, copyVars>>

Ring == RING_BUFFER_SIZE[method]

(* The bytes output so far. *)
Produced == Len(out) - Ring

-----------------------------------------------------------------------------
(* The ring holds first when the decoder starts, with its position at pos. *)
InitRing(first, pos) ==
  /\ ringbuf = first
  /\ ringbuf_pos = pos
  /\ out = [k \in 1 .. Ring |-> first[(pos + k - 1) % Ring]]

Spaces == [k \in 0 .. Ring - 1 |-> Space]

NoCopy == start = 0 /\ count = 0 /\ copied = 0 /\ distance = 1

(* read is called with an empty output buffer. *)
Call == buf_len' = 0 /\ UNCHANGED <<ringbuf, ringbuf_pos, out, copyVars>>

Put(b) ==
  /\ buf_len' = buf_len + 1
  /\ ringbuf' = [ringbuf EXCEPT ![ringbuf_pos] = b]
  /\ ringbuf_pos' = (ringbuf_pos + 1) % Ring
  /\ out' = Append(out, b)

PutLiteral(b) == count = 0 /\ Put(b) /\ UNCHANGED copyVars

(* How far back an offset goes: an offset of 0 is the last byte. *)
Back(offset) == (offset % Ring) + 1

(* A copy of num bytes from the place from in the ring, which is at this   *)
(* offset.                                                                 *)
BeginCopy(from, num, offset) ==
  /\ count = 0
  /\ start' = from /\ count' = num /\ copied' = 0 /\ distance' = Back(offset)
  /\ UNCHANGED ringVars

(* A turn of the loop, which reads what earlier turns wrote. *)
CopyTurn ==
  /\ copied < count
  /\ Put(ringbuf[(start + copied) % Ring])
  /\ copied' = copied + 1
  /\ UNCHANGED <<start, count, distance>>

CopyEnd ==
  /\ copied >= count
  /\ start' = 0 /\ count' = 0 /\ copied' = 0 /\ distance' = 1
  /\ UNCHANGED ringVars

-----------------------------------------------------------------------------
(* What the decoders have in common: any bytes, and copies from any        *)
(* distance that the ring reaches.                                         *)

RingInit ==
  /\ method \in Methods
  /\ \E first \in [0 .. Ring - 1 -> Byte], pos \in 0 .. Ring - 1 : InitRing(first, pos)
  /\ buf_len = 0
  /\ NoCopy

RingNext ==
  /\ \/ Call
     \/ \E b \in Byte : PutLiteral(b)
     \/ \E num \in Nat, offset \in Int :
          BeginCopy((ringbuf_pos - Back(offset)) % Ring, num, offset)
     \/ CopyTurn
     \/ CopyEnd
  /\ UNCHANGED method

RingSpec == RingInit /\ [][RingNext]_historyVars

-----------------------------------------------------------------------------
(* Every byte copied is the one at the given distance before it in the     *)
(* output, also where the copy overlaps itself, the ring wraps around or   *)
(* the copy goes back to what the ring held at first; and the ring always  *)
(* holds the last bytes output.                                            *)
CopyRepeats ==
  /\ \A k \in Len(out) - copied + 1 .. Len(out) : out[k] = out[k - distance]
  /\ \A k \in 1 .. Ring : ringbuf[(ringbuf_pos - k) % Ring] = out[Len(out) + 1 - k]
=============================================================================
