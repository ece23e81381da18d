------------------------- MODULE HistoryRingProofs -------------------------
(***************************************************************************)
(* Copies repeat the output, for rings of every size, copies of every      *)
(* length and distance, and whatever the ring holds at first.              *)
(*                                                                         *)
(* Then what CopyDecodersProofs needs of the two decoders with trees,      *)
(* LhNew and Pm2: their steps are steps of RingSpec, their buffers and     *)
(* tables hold what is put into them, and Pm2 keeps its schedule.          *)
(***************************************************************************)
EXTENDS LhNew, Pm2, TLAPS

-----------------------------------------------------------------------------
(* Sequences *)

(* The elements of a sequence. *)
LEMMA SeqElement ==
  ASSUME NEW S, NEW f \in Seq(S), NEW k \in 1 .. Len(f)
  PROVE  f[k] \in S
OBVIOUS

(* The concatenation of six sequences. *)
LEMMA SixJoined ==
  ASSUME NEW S, NEW f \in Seq(S), NEW g \in Seq(S), NEW h \in Seq(S), NEW p \in Seq(S),
         NEW q \in Seq(S), NEW r \in Seq(S)
  PROVE  /\ f \o g \o h \o p \o q \o r \in Seq(S)
         /\ Len(f \o g \o h \o p \o q \o r)
              = Len(f) + Len(g) + Len(h) + Len(p) + Len(q) + Len(r)
<1>1. \A s, t \in Seq(S) : s \o t \in Seq(S) /\ Len(s \o t) = Len(s) + Len(t)
  OBVIOUS
<1>2. PICK a \in Seq(S) : a = f \o g /\ Len(a) = Len(f) + Len(g)
  BY ONLY <1>1, f \in Seq(S), g \in Seq(S), Zenon
<1>3. PICK b \in Seq(S) : b = a \o h /\ Len(b) = Len(a) + Len(h)
  BY ONLY <1>1, a \in Seq(S), h \in Seq(S), Zenon
<1>4. PICK c \in Seq(S) : c = b \o p /\ Len(c) = Len(b) + Len(p)
  BY ONLY <1>1, b \in Seq(S), p \in Seq(S), Zenon
<1>5. PICK d \in Seq(S) : d = c \o q /\ Len(d) = Len(c) + Len(q)
  BY ONLY <1>1, c \in Seq(S), q \in Seq(S), Zenon
<1>6. PICK e \in Seq(S) : e = d \o r /\ Len(e) = Len(d) + Len(r)
  BY ONLY <1>1, d \in Seq(S), r \in Seq(S), Zenon
<1>7. e = f \o g \o h \o p \o q \o r
  BY ONLY <1>2, <1>3, <1>4, <1>5, <1>6, Zenon
<1>8. Len(e) = Len(f) + Len(g) + Len(h) + Len(p) + Len(q) + Len(r)
  BY ONLY <1>2, <1>3, <1>4, <1>5, <1>6, Zenon
<1>9. QED
  BY ONLY <1>7, <1>8, e \in Seq(S), Zenon

-----------------------------------------------------------------------------
(* Remainders *)

(* What a remainder is. *)
LEMMA DivFacts ==
  ASSUME NEW a \in Int, NEW m \in Nat \ {0}
  PROVE  /\ a % m \in 0 .. m - 1
         /\ a \div m \in Int
         /\ a = m * (a \div m) + (a % m)
  BY SMT

(* A positive multiple is not below the number. *)
LEMMA Multiple ==
  ASSUME NEW m \in Nat \ {0}, NEW k \in Int, k >= 1
  PROVE  m * k >= m
  BY SMT

(* Runs of m of each of the numbers from 0: there are num of them. *)
LEMMA RunsInRange ==
  ASSUME NEW m \in Nat \ {0}, NEW num \in Nat, NEW k \in 1 .. num * m
  PROVE  (k - 1) \div m \in 0 .. num - 1
<1>1. PICK a \in Nat : a = k - 1
  OBVIOUS
<1>2. PICK q \in Int, r \in 0 .. m - 1 : a = m * q + r /\ q = a \div m
  BY ONLY DivFacts, a \in Int, m \in Nat \ {0}
<1>3. a < num * m
  BY <1>1
<1>4. ~(q - num >= 0)
  <2>1. SUFFICES ASSUME q - num >= 0 PROVE FALSE
    OBVIOUS
  <2>2. PICK d \in Nat : d = q - num
    BY <2>1
  <2>3. m * q = num * m + m * d
    BY ONLY <2>2, m \in Nat \ {0}, num \in Nat, q \in Int, d \in Nat, SMT
  <2>4. m * d >= 0
    BY ONLY m \in Nat \ {0}, d \in Nat, SMT
  <2>5. QED
    BY <1>2, <1>3, <2>3, <2>4
<1>5. ~(-q >= 1)
  <2>1. SUFFICES ASSUME -q >= 1 PROVE FALSE
    OBVIOUS
  <2>2. PICK d \in Int : d = -q /\ d >= 1
    BY <2>1
  <2>3. m * d >= m
    BY ONLY <2>2, Multiple, m \in Nat \ {0}, d \in Int
  <2>4. m * q = -(m * d)
    BY ONLY <2>2, m \in Nat \ {0}, q \in Int, d \in Int, SMT
  <2>5. QED
    BY <1>2, <2>3, <2>4
<1>6. QED
  BY <1>1, <1>2, <1>4, <1>5

(* There is only one remainder. *)
LEMMA ModUnique ==
  ASSUME NEW m \in Nat \ {0}, NEW a \in Int, NEW q \in Int, NEW r \in 0 .. m - 1,
         a = m * q + r
  PROVE  a % m = r
<1>1. /\ a % m \in 0 .. m - 1 /\ a \div m \in Int /\ a = m * (a \div m) + (a % m)
  BY DivFacts
<1>2. PICK d \in Int : d = a \div m
  BY <1>1
<1>3. PICK s \in 0 .. m - 1 : s = a % m
  BY <1>1
<1>4. m * d + s = m * q + r
  BY <1>1, <1>2, <1>3
<1>5. m * (d - q) = r - s /\ m * (q - d) = s - r
  BY ONLY <1>4, m \in Nat \ {0}, d \in Int, q \in Int, r \in 0 .. m - 1, s \in 0 .. m - 1, SMT
<1>6. ~(d - q >= 1)
  BY <1>5, Multiple
<1>7. ~(q - d >= 1)
  BY <1>5, Multiple
<1>8. d = q
  BY <1>6, <1>7
<1>9. QED
  BY <1>3, <1>4, <1>8

(* A sum may be reduced before it is added to. *)
LEMMA ModPlus ==
  ASSUME NEW m \in Nat \ {0}, NEW a \in Int, NEW b \in Int
  PROVE  ((a % m) + b) % m = (a + b) % m
<1>1. PICK d \in Int, s \in 0 .. m - 1 : a = m * d + s /\ a % m = s
  BY DivFacts, Zenon
<1>2. PICK x \in Int : x = s + b
  OBVIOUS
<1>3. PICK e \in Int, t \in 0 .. m - 1 : x = m * e + t /\ x % m = t
  BY ONLY DivFacts, x \in Int, m \in Nat \ {0}, Zenon
<1>4. PICK c \in Int, q \in Int : c = a + b /\ q = d + e
  OBVIOUS
<1>5. m * q = m * d + m * e
  BY ONLY <1>4, m \in Nat \ {0}, d \in Int, e \in Int, q \in Int, SMT
<1>6. c = m * q + t
  BY <1>1, <1>2, <1>3, <1>4, <1>5
<1>7. c % m = t
  BY ONLY <1>6, ModUnique, m \in Nat \ {0}, c \in Int, q \in Int, t \in 0 .. m - 1
<1>8. QED
  BY <1>1, <1>2, <1>3, <1>4, <1>7

(* A number that is a remainder already. *)
LEMMA ModSmall ==
  ASSUME NEW m \in Nat \ {0}, NEW r \in 0 .. m - 1
  PROVE  r % m = r
<1>1. r = m * 0 + r
  OBVIOUS
<1>2. QED
  BY ONLY <1>1, ModUnique, m \in Nat \ {0}, r \in Int, 0 \in Int, r \in 0 .. m - 1

(* Going round, any number of times, leads to the same place. *)
LEMMA ModMultiple ==
  ASSUME NEW m \in Nat \ {0}, NEW a \in Int, NEW k \in Int
  PROVE  (a + m * k) % m = a % m
<1>1. PICK q \in Int, r \in 0 .. m - 1 : a = m * q + r /\ a % m = r
  BY DivFacts, Zenon
<1>2. PICK c \in Int, d \in Int, e \in Int : e = m * k /\ c = a + e /\ d = q + k
  OBVIOUS
<1>3. m * d = m * q + m * k
  BY ONLY <1>2, m \in Nat \ {0}, q \in Int, k \in Int, d \in Int, SMT
<1>4. c = m * d + r
  BY <1>1, <1>2, <1>3
<1>5. c % m = r
  BY ONLY <1>4, ModUnique, m \in Nat \ {0}, c \in Int, d \in Int, r \in 0 .. m - 1
<1>6. QED
  BY <1>1, <1>2, <1>5

(* Going round once. *)
LEMMA ModTurn ==
  ASSUME NEW m \in Nat \ {0}, NEW a \in Int
  PROVE  (a + m) % m = a % m
<1>1. PICK k \in Int : k = 1
  OBVIOUS
<1>2. (a + m * k) % m = a % m
  BY ONLY ModMultiple, m \in Nat \ {0}, a \in Int, k \in Int, Zenon
<1>3. m * k = m
  BY <1>1
<1>4. QED
  BY <1>2, <1>3

(* A number may be reduced before it is subtracted. *)
LEMMA ModMinus ==
  ASSUME NEW m \in Nat \ {0}, NEW a \in Int, NEW b \in Int
  PROVE  (b - (a % m)) % m = (b - a) % m
<1>1. PICK q \in Int, r \in 0 .. m - 1 : a = m * q + r /\ a % m = r
  BY DivFacts, Zenon
<1>2. PICK x \in Int, y \in Int : x = b - a /\ y = b - r
  OBVIOUS
<1>3. y = x + m * q
  BY <1>1, <1>2
<1>4. (x + m * q) % m = x % m
  BY ONLY ModMultiple, m \in Nat \ {0}, x \in Int, q \in Int, Zenon
<1>5. QED
  BY <1>1, <1>2, <1>3, <1>4

(* Going back less than all the way round does not lead to the same place. *)
LEMMA ModBack ==
  ASSUME NEW m \in Nat \ {0}, NEW p \in 0 .. m - 1, NEW j \in 1 .. m - 1
  PROVE  (p - j) % m # p
<1>1. CASE p >= j
  <2>1. p - j \in 0 .. m - 1
    BY <1>1
  <2>2. (p - j) % m = p - j
    BY <2>1, ModSmall
  <2>3. QED
    BY <2>2
<1>2. CASE p < j
  <2>1. PICK x \in Int, y \in 0 .. m - 1 : x = p - j /\ y = p - j + m
    BY <1>2
  <2>2. x = m * (-1) + y
    BY <2>1
  <2>3. x % m = y
    BY ONLY <2>2, ModUnique, m \in Nat \ {0}, x \in Int, -1 \in Int, y \in 0 .. m - 1
  <2>4. QED
    BY <2>1, <2>3
<1>3. QED
  BY <1>1, <1>2

-----------------------------------------------------------------------------
(* The inductive invariant *)

(* The ring and the output: types, and out never shorter than the ring. *)
RingType ==
  /\ method \in Methods
  /\ ringbuf \in [0 .. Ring - 1 -> Byte]
  /\ ringbuf_pos \in 0 .. Ring - 1
  /\ buf_len \in Nat
  /\ out \in Seq(Byte)

CopyType ==
  /\ start \in 0 .. Ring - 1
  /\ count \in Nat /\ copied \in Nat /\ copied <= count
  /\ distance \in 1 .. Ring
  /\ Len(out) >= Ring + copied

(* The next byte to be copied is as far back in the ring as it is to be in *)
(* the output.                                                             *)
CopyAligned == count > 0 => (start + copied) % Ring = (ringbuf_pos - distance) % Ring

(* The two conjuncts of CopyRepeats. *)
CopiedRepeats == \A k \in Len(out) - copied + 1 .. Len(out) : out[k] = out[k - distance]
RingHolds == \A k \in 1 .. Ring : ringbuf[(ringbuf_pos - k) % Ring] = out[Len(out) + 1 - k]

RingInv == RingType /\ CopyType /\ CopyAligned /\ CopiedRepeats /\ RingHolds

(* No ring is empty. *)
LEMMA RingPositive == ASSUME method \in Methods PROVE Ring \in Nat \ {0}
  BY RingAssumption DEF Ring

(* No offset goes back more than once round the ring. *)
LEMMA BackInRing ==
  ASSUME Ring \in Nat \ {0}, NEW offset \in Int
  PROVE  Back(offset) \in 1 .. Ring
<1>1. offset % Ring \in 0 .. Ring - 1
  BY DivFacts
<1>2. QED
  BY <1>1 DEF Back

(* Where the decoders find the byte at an offset. *)
LEMMA StartAtOffset ==
  ASSUME Ring \in Nat \ {0}, NEW p \in Int, NEW offset \in Int
  PROVE  (p + Ring - offset - 1) % Ring = (p - Back(offset)) % Ring
<1>1. PICK m \in Nat \ {0} : m = Ring
  OBVIOUS
<1>2. PICK b \in Int, c \in Int : b = p - 1 /\ c = p - 1 - offset
  OBVIOUS
<1>3. (b - (offset % m)) % m = (b - offset) % m
  BY ONLY ModMinus, m \in Nat \ {0}, b \in Int, offset \in Int, Zenon
<1>4. (c + m) % m = c % m
  BY ONLY ModTurn, m \in Nat \ {0}, c \in Int, Zenon
<1>5. offset % m \in Int
  BY <1>1, DivFacts
<1>6. b - (offset % m) = p - ((offset % m) + 1) /\ b - offset = c /\ c + m = p + m - offset - 1
  BY <1>1, <1>2, <1>5
<1>7. QED
  BY <1>1, <1>3, <1>4, <1>6 DEF Back

(* And where they begin who read the place instead. *)
LEMMA StartAtPlace ==
  ASSUME Ring \in Nat \ {0}, NEW p \in Int, NEW from \in 0 .. Ring - 1
  PROVE  from = (p - Back(p - from - 1)) % Ring
<1>1. PICK m \in Nat \ {0} : m = Ring
  OBVIOUS
<1>2. PICK offset \in Int : offset = p - from - 1
  BY <1>1
<1>3. (p + Ring - offset - 1) % Ring = (p - Back(offset)) % Ring
  BY StartAtOffset
<1>4. PICK f \in 0 .. m - 1 : f = from
  BY <1>1
<1>5. (f + m) % m = f % m
  BY ONLY ModTurn, m \in Nat \ {0}, f \in Int, Zenon
<1>6. f % m = f
  BY ONLY ModSmall, m \in Nat \ {0}, f \in 0 .. m - 1
<1>7. p + m - offset - 1 = f + m
  BY <1>1, <1>2, <1>4
<1>8. QED
  BY <1>1, <1>2, <1>3, <1>4, <1>5, <1>6, <1>7

(* Put: the ring still holds the last bytes output. *)
LEMMA PutKeeps ==
  ASSUME RingType, RingHolds, Len(out) >= Ring, NEW b \in Byte, Put(b), UNCHANGED method
  PROVE  /\ RingType' /\ RingHolds'
         /\ Len(out') = Len(out) + 1
         /\ out'[Len(out) + 1] = b
         /\ \A k \in 1 .. Len(out) : out'[k] = out[k]
         /\ ringbuf_pos' = (ringbuf_pos + 1) % Ring
<1> DEFINE m == Ring
<1>1. m \in Nat \ {0} /\ Ring' = m
  BY RingPositive DEF RingType, Ring
<1>2. ringbuf_pos \in 0 .. m - 1 /\ ringbuf \in [0 .. m - 1 -> Byte] /\ out \in Seq(Byte)
  BY DEF RingType
<1>3. ringbuf_pos' = (ringbuf_pos + 1) % m /\ ringbuf' = [ringbuf EXCEPT ![ringbuf_pos] = b]
  BY DEF Put
<1>4. out' = Append(out, b)
  BY DEF Put
<1> HIDE DEF m
<1>5. /\ out' \in Seq(Byte) /\ Len(out') = Len(out) + 1 /\ out'[Len(out) + 1] = b
      /\ \A k \in 1 .. Len(out) : out'[k] = out[k]
  BY <1>2, <1>4
<1>6. ringbuf_pos' \in 0 .. m - 1
  <2>1. ringbuf_pos + 1 \in Int
    BY <1>1, <1>2
  <2>2. QED
    BY <1>1, <1>3, <2>1, DivFacts, Zenon
<1>7. RingType'
  BY <1>1, <1>2, <1>3, <1>5, <1>6 DEF RingType, Put, m
<1>8. ASSUME NEW k \in 1 .. m
      PROVE  ringbuf'[(ringbuf_pos' - k) % m] = out'[Len(out') + 1 - k]
  <2>1. PICK a \in Int, c \in Int : a = ringbuf_pos + 1 /\ c = -k
    BY <1>1, <1>2
  <2>2. ((a % m) + c) % m = (a + c) % m
    BY ONLY <2>1, <1>1, ModPlus, a \in Int, c \in Int, m \in Nat \ {0}
  <2>3. a % m \in Int
    BY <1>1, DivFacts
  <2>4. (ringbuf_pos' - k) % m = (ringbuf_pos - (k - 1)) % m
    <3>1. ringbuf_pos' - k = (a % m) + c
      BY <1>3, <2>1, <2>3
    <3>2. a + c = ringbuf_pos - (k - 1)
      BY <1>1, <1>2, <2>1
    <3>3. QED
      BY <2>2, <3>1, <3>2
  <2>5. CASE k = 1
    <3>1. ringbuf_pos - (k - 1) = ringbuf_pos
      BY <1>1, <1>2, <2>5
    <3>2. (ringbuf_pos' - k) % m = ringbuf_pos
      BY <1>1, <1>2, <2>4, <3>1, ModSmall
    <3>3. ringbuf'[ringbuf_pos] = b
      BY <1>2, <1>3
    <3>4. Len(out') + 1 - k = Len(out) + 1
      BY <1>2, <1>5, <2>5
    <3>5. QED
      BY <1>5, <3>2, <3>3, <3>4
  <2>6. CASE k > 1
    <3>1. k - 1 \in 1 .. m - 1 /\ k - 1 \in 1 .. m
      BY <1>1, <2>6
    <3>2. (ringbuf_pos - (k - 1)) % m # ringbuf_pos
      BY <1>1, <1>2, <3>1, ModBack, Zenon
    <3>3. (ringbuf_pos - (k - 1)) % m \in 0 .. m - 1
      <4>1. ringbuf_pos - (k - 1) \in Int
        BY <1>1, <1>2
      <4>2. QED
        BY <1>1, <4>1, DivFacts, Zenon
    <3>4. ringbuf'[(ringbuf_pos' - k) % m] = ringbuf[(ringbuf_pos - (k - 1)) % m]
      BY <1>2, <1>3, <2>4, <3>2, <3>3
    <3>5. ringbuf[(ringbuf_pos - (k - 1)) % m] = out[Len(out) + 1 - (k - 1)]
      BY <3>1 DEF RingHolds, m
    <3>6. Len(out) + 1 - (k - 1) \in 1 .. Len(out) /\ Len(out') + 1 - k = Len(out) + 1 - (k - 1)
      BY <1>1, <1>2, <1>5, <2>6 DEF m
    <3>7. QED
      BY <1>5, <3>4, <3>5, <3>6
  <2>7. QED
    BY <1>1, <2>5, <2>6
<1>9. RingHolds'
  BY <1>1, <1>8, Zenon DEF RingHolds, m
<1>10. QED
  BY <1>3, <1>5, <1>7, <1>9 DEF m

(* A ring as it starts holds what out says. *)
LEMMA InitRingHolds ==
  ASSUME method \in Methods, NEW first \in [0 .. Ring - 1 -> Byte], NEW pos \in 0 .. Ring - 1,
         InitRing(first, pos), buf_len = 0
  PROVE  RingType /\ RingHolds /\ Len(out) = Ring
<1> DEFINE m == Ring
<1>1. m \in Nat \ {0}
  BY RingPositive
<1>2. ringbuf = first /\ ringbuf_pos = pos /\ out = [k \in 1 .. m |-> first[(pos + k - 1) % m]]
  BY DEF InitRing
<1>3. first \in [0 .. m - 1 -> Byte] /\ pos \in 0 .. m - 1
  OBVIOUS
<1> HIDE DEF m
<1>4. ASSUME NEW k \in 1 .. m PROVE first[(pos + k - 1) % m] \in Byte
  <2>1. pos + k - 1 \in Int
    BY <1>1, <1>3
  <2>2. (pos + k - 1) % m \in 0 .. m - 1
    BY <1>1, <2>1, DivFacts
  <2>3. QED
    BY <1>3, <2>2, Zenon
<1>5. out \in Seq(Byte) /\ Len(out) = m
  BY <1>1, <1>2, <1>4
<1>6. RingType
  BY <1>2, <1>3, <1>5 DEF RingType, m
<1>7. ASSUME NEW k \in 1 .. m PROVE ringbuf[(ringbuf_pos - k) % m] = out[Len(out) + 1 - k]
  <2>1. PICK a \in Int : a = pos - k
    BY <1>1, <1>3
  <2>2. (a + m) % m = a % m
    BY <1>1, ModTurn, Zenon
  <2>3. PICK j \in 1 .. m : j = m + 1 - k
    BY <1>1
  <2>4. pos + j - 1 = a + m
    BY <1>1, <1>3, <2>1, <2>3
  <2>5. out[j] = first[(pos + j - 1) % m]
    BY <1>2
  <2>6. QED
    BY <1>2, <1>5, <2>1, <2>2, <2>3, <2>4, <2>5, Zenon
<1>8. QED
  BY <1>5, <1>6, <1>7 DEF RingHolds, m

(* RingInit establishes the invariant. *)
LEMMA RingInitInv == RingInit => RingInv
<1> SUFFICES ASSUME RingInit PROVE RingInv
  OBVIOUS
<1>1. method \in Methods /\ buf_len = 0 /\ NoCopy
  BY DEF RingInit
<1>2. PICK first \in [0 .. Ring - 1 -> Byte], pos \in 0 .. Ring - 1 : InitRing(first, pos)
  BY DEF RingInit
<1>3. RingType /\ RingHolds /\ Len(out) = Ring
  BY <1>1, <1>2, InitRingHolds
<1>4. Ring \in Nat \ {0}
  BY <1>1, RingPositive
<1>5. start = 0 /\ count = 0 /\ copied = 0 /\ distance = 1
  BY <1>1 DEF NoCopy
<1>6. CopyType /\ CopyAligned /\ CopiedRepeats
  BY <1>3, <1>4, <1>5 DEF CopyType, CopyAligned, CopiedRepeats
<1>7. QED
  BY <1>3, <1>6 DEF RingInv

(* CopyTurn: the byte it puts is the one at the distance, and the place of *)
(* the next one moves along with the position of the ring.                 *)
LEMMA CopyTurnInv == RingInv /\ CopyTurn /\ UNCHANGED method => RingInv'
<1> SUFFICES ASSUME RingInv, CopyTurn, UNCHANGED method PROVE RingInv'
  OBVIOUS
<1> DEFINE m == Ring
<1>1. m \in Nat \ {0} /\ Ring' = m
  BY RingPositive DEF RingInv, RingType, Ring
<1>2. /\ RingType /\ RingHolds /\ Len(out) >= m /\ Len(out) >= m + copied
      /\ ringbuf_pos \in 0 .. m - 1 /\ Len(out) \in Nat
      /\ start \in 0 .. m - 1 /\ count \in Nat /\ copied \in Nat /\ distance \in 1 .. m
  BY <1>1 DEF RingInv, RingType, CopyType
<1>3. /\ copied < count /\ copied' = copied + 1
      /\ start' = start /\ count' = count /\ distance' = distance
  BY DEF CopyTurn
<1>4. (start + copied) % m = (ringbuf_pos - distance) % m
  BY <1>2, <1>3 DEF RingInv, CopyAligned
<1>5. (ringbuf_pos - distance) % m \in 0 .. m - 1
  <2>1. ringbuf_pos - distance \in Int
    BY <1>1, <1>2
  <2>2. QED
    BY <1>1, <2>1, DivFacts, SMTT(30)
<1>6. PICK b \in Byte : b = ringbuf[(start + copied) % m]
  BY <1>4, <1>5 DEF RingInv, RingType, m
<1>7. b = out[Len(out) + 1 - distance]
  BY <1>2, <1>4, <1>6 DEF RingHolds, m
<1>8. Put(b)
  BY <1>6 DEF CopyTurn, m
<1>9. /\ RingType' /\ RingHolds'
      /\ Len(out') = Len(out) + 1 /\ out'[Len(out) + 1] = b
      /\ \A k \in 1 .. Len(out) : out'[k] = out[k]
      /\ ringbuf_pos' = (ringbuf_pos + 1) % m
  BY <1>2, <1>8, PutKeeps DEF m
<1> HIDE DEF m
<1>10. CopyType'
  BY <1>1, <1>2, <1>3, <1>9 DEF CopyType
<1>11. CopiedRepeats'
  <2>1. ASSUME NEW k \in Len(out) - copied + 1 .. Len(out) + 1
        PROVE  out'[k] = out'[k - distance]
    <3>1. k - distance \in 1 .. Len(out)
      BY <1>1, <1>2
    <3>2. CASE k = Len(out) + 1
      <4>1. out'[k] = b
        BY <1>9, <3>2
      <4>2. out'[k - distance] = out[k - distance]
        BY <1>9, <3>1
      <4>3. k - distance = Len(out) + 1 - distance
        BY <1>1, <1>2, <3>2
      <4>4. QED
        BY <1>7, <4>1, <4>2, <4>3
    <3>3. CASE k # Len(out) + 1
      <4>1. k \in 1 .. Len(out) /\ k \in Len(out) - copied + 1 .. Len(out)
        BY <1>1, <1>2, <3>3
      <4>2. out[k] = out[k - distance]
        BY <4>1 DEF RingInv, CopiedRepeats
      <4>3. QED
        BY <1>9, <3>1, <4>1, <4>2
    <3>4. QED
      BY <3>2, <3>3
  <2>2. Len(out') - copied' + 1 = Len(out) - copied + 1 /\ Len(out') = Len(out) + 1
    BY <1>2, <1>3, <1>9
  <2>3. QED
    BY <1>3, <2>1, <2>2 DEF CopiedRepeats
<1>12. CopyAligned'
  <2>1. PICK a \in Int, c \in Int, d \in Int :
          a = start + copied /\ c = ringbuf_pos - distance /\ d = ringbuf_pos + 1
    BY <1>1, <1>2
  <2>2. a % m = c % m /\ ringbuf_pos' = d % m
    BY <1>4, <1>9, <2>1
  <2>3. ((a % m) + 1) % m = (a + 1) % m /\ ((c % m) + 1) % m = (c + 1) % m
    BY ONLY <1>1, ModPlus, a \in Int, c \in Int, 1 \in Int, Zenon
  <2>4. PICK e \in Int : e = -distance
    BY <1>1, <1>2
  <2>5. ((d % m) + e) % m = (d + e) % m
    BY ONLY <1>1, ModPlus, d \in Int, e \in Int, Zenon
  <2>6. d % m \in Int
    BY <1>1, DivFacts
  <2>7. c + 1 = d + e /\ ringbuf_pos' - distance = (d % m) + e /\ start + copied' = a + 1
    BY <1>1, <1>2, <1>3, <2>1, <2>2, <2>4, <2>6
  <2>8. (start + copied') % m = (ringbuf_pos' - distance) % m
    BY <2>2, <2>3, <2>5, <2>7
  <2>9. QED
    BY <1>1, <1>3, <2>8 DEF CopyAligned
<1>13. QED
  BY <1>9, <1>10, <1>11, <1>12 DEF RingInv

(* RingNext keeps the invariant. *)
LEMMA RingNextInv == RingInv /\ [RingNext]_historyVars => RingInv'
<1> SUFFICES ASSUME RingInv, [RingNext]_historyVars PROVE RingInv'
  OBVIOUS
<1> USE DEF ringVars, copyVars
<1>0. RingType /\ CopyType /\ CopyAligned /\ CopiedRepeats /\ RingHolds
  BY DEF RingInv
<1>1. Ring \in Nat \ {0}
  BY <1>0, RingPositive DEF RingType
<1>2. CASE UNCHANGED historyVars
  BY <1>0, <1>2 DEF RingInv, RingType, CopyType, CopyAligned, CopiedRepeats, RingHolds,
                    Ring, historyVars
<1>3. CASE Call /\ UNCHANGED method
  <2>1. Ring' = Ring /\ 0 \in Nat
    BY <1>3 DEF Ring
  <2>2. QED
    BY <1>0, <1>3, <2>1 DEF RingInv, RingType, CopyType, CopyAligned, CopiedRepeats, RingHolds, Call
<1>4. ASSUME NEW b \in Byte, PutLiteral(b), UNCHANGED method PROVE RingInv'
  <2>1. /\ count = 0 /\ copied = 0 /\ Put(b) /\ Ring' = Ring
        /\ start' = start /\ count' = 0 /\ copied' = 0 /\ distance' = distance
    BY <1>0, <1>4 DEF PutLiteral, CopyType, Ring
  <2>2. Len(out) >= Ring
    BY <1>0, <1>1, <2>1 DEF CopyType
  <2>3. RingType' /\ RingHolds' /\ Len(out') = Len(out) + 1
    BY <1>0, <1>4, <2>1, <2>2, PutKeeps
  <2>4. CopyType' /\ CopyAligned' /\ CopiedRepeats'
    BY <1>0, <1>1, <2>1, <2>2, <2>3 DEF CopyType, CopyAligned, CopiedRepeats, RingType
  <2>5. QED
    BY <2>3, <2>4 DEF RingInv
<1>5. ASSUME NEW num \in Nat, NEW offset \in Int, UNCHANGED method,
             BeginCopy((ringbuf_pos - Back(offset)) % Ring, num, offset)
      PROVE  RingInv'
  <2>0. PICK back \in 1 .. Ring : back = Back(offset)
    BY <1>1, BackInRing
  <2>1. PICK from \in 0 .. Ring - 1 : from = (ringbuf_pos - back) % Ring
    <3>1. ringbuf_pos - back \in Int
      BY <1>0, <1>1 DEF RingType
    <3>2. QED
      BY <1>1, <3>1, DivFacts, Zenon
  <2>2. /\ start' = from /\ count' = num /\ copied' = 0 /\ distance' = back
        /\ UNCHANGED <<ringbuf, ringbuf_pos, buf_len, out>> /\ Ring' = Ring
    BY <1>5, <2>0, <2>1 DEF BeginCopy, Ring
  <2>3. RingType' /\ RingHolds'
    BY <1>0, <1>5, <2>2 DEF RingType, RingHolds
  <2>4. Len(out) \in Nat /\ Len(out) >= Ring
    BY <1>0, <1>1 DEF CopyType, RingType
  <2>5. CopyType' /\ CopiedRepeats'
    BY <1>1, <2>2, <2>4 DEF CopyType, CopiedRepeats
  <2>6. from + 0 = from /\ from % Ring = from
    BY <1>1, ModSmall
  <2>7. CopyAligned'
    BY <2>1, <2>2, <2>6 DEF CopyAligned
  <2>8. QED
    BY <2>3, <2>5, <2>7 DEF RingInv
<1>6. CASE CopyTurn /\ UNCHANGED method
  BY <1>6, CopyTurnInv
<1>7. CASE CopyEnd /\ UNCHANGED method
  <2>1. /\ start' = 0 /\ count' = 0 /\ copied' = 0 /\ distance' = 1
        /\ UNCHANGED <<ringbuf, ringbuf_pos, buf_len, out>> /\ Ring' = Ring
    BY <1>7 DEF CopyEnd, Ring
  <2>2. RingType' /\ RingHolds'
    BY <1>0, <1>7, <2>1 DEF RingType, RingHolds
  <2>3. Len(out) \in Nat /\ Len(out) >= Ring
    BY <1>0, <1>1 DEF CopyType, RingType
  <2>4. CopyType' /\ CopyAligned' /\ CopiedRepeats'
    BY <1>1, <2>1, <2>3 DEF CopyType, CopyAligned, CopiedRepeats
  <2>5. QED
    BY <2>2, <2>4 DEF RingInv
<1>8. QED
  BY <1>2, <1>3, <1>4, <1>5, <1>6, <1>7 DEF RingNext

(* Every copy repeats the output at its distance, and the ring holds the   *)
(* last bytes output: for every decoder that is a RingSpec.                *)
THEOREM CopiesRepeat == RingSpec => []CopyRepeats
<1>1. RingInit => RingInv
  BY RingInitInv
<1>2. RingInv /\ [RingNext]_historyVars => RingInv'
  BY RingNextInv
<1>3. RingInv => CopyRepeats
  BY DEF RingInv, CopiedRepeats, RingHolds, CopyRepeats
<1>4. QED
  BY <1>1, <1>2, <1>3, PTL DEF RingSpec

-----------------------------------------------------------------------------
(* The decoders with trees *)

(* The steps of the decoder of each method. *)
NewDecodes == method \in NewMethods /\ NewNext
Pm2Decodes == method = "-pm2-" /\ Pm2Next

(* The codes a tree can give are numbers, and those of -lh5- and -lk7- fit *)
(* their fields.                                                           *)
TreesType ==
  /\ code_tree \subseteq Nat /\ offset_tree \subseteq Nat
  /\ method \in NewMethods => code_tree \subseteq Bits(CODE_BITS[method])

(* A copy from the place that all decoders compute for an offset. *)
LEMMA BeginRefines ==
  ASSUME RingInv, NEW num \in Nat, NEW offset \in Int, NEW from, UNCHANGED method,
         from = (ringbuf_pos + Ring - offset - 1) % Ring,
         BeginCopy(from, num, offset)
  PROVE  RingNext
<1>1. Ring \in Nat \ {0} /\ ringbuf_pos \in Int
  BY RingPositive DEF RingInv, RingType
<1>2. from = (ringbuf_pos - Back(offset)) % Ring
  BY <1>1, StartAtOffset
<1>3. QED
  BY <1>2 DEF RingNext

(* A copy from a place that has been read. *)
LEMMA PlaceRefines ==
  ASSUME RingInv, NEW num \in Nat, NEW from \in 0 .. Ring - 1, UNCHANGED method,
         BeginCopy(from, num, ringbuf_pos - from - 1)
  PROVE  RingNext
<1>1. Ring \in Nat \ {0} /\ ringbuf_pos \in Int
  BY RingPositive DEF RingInv, RingType
<1>2. from = (ringbuf_pos - Back(ringbuf_pos - from - 1)) % Ring
  BY <1>1, StartAtPlace
<1>3. ringbuf_pos - from - 1 \in Int
  BY <1>1
<1>4. QED
  BY <1>2, <1>3 DEF RingNext

(* LhNew: its commands are numbers. *)
LEMMA NewCounts ==
  ASSUME TreesType, method \in NewMethods, NEW code \in code_tree, code >= LITERALS
  PROVE  NewCopyCounts(code) \subseteq Nat
<1>1. code \in 0 .. 2^CODE_BITS[method] - 1 /\ LITERALS \in Nat /\ COPY_THRESHOLD \in Nat
  BY RingAssumption, LhNewAssumption DEF TreesType, Bits
<1>2. CASE method = "-lk7-"
  <2>1. code \in LITERALS .. 2^CODE_BITS["-lk7-"] - 1
    BY <1>1, <1>2
  <2>2. RING_BUFFER_SIZE["-lk7-"] \in Nat
    BY RingAssumption DEF Methods
  <2>3. QED
    BY <1>2, <2>1, <2>2, LharkAssumption DEF NewCopyCounts
<1>3. CASE method # "-lk7-"
  BY <1>1, <1>3 DEF NewCopyCounts
<1>4. QED
  BY <1>2, <1>3

(* LhNew: its offsets are numbers. *)
LEMMA NewOffsets ==
  ASSUME TreesType, RingInv, NEW bits \in offset_tree
  PROVE  read_offset_code(bits) \subseteq Int
<1>1. bits \in Nat
  BY DEF TreesType
<1>2. CASE bits <= 1
  BY <1>1, <1>2 DEF read_offset_code
<1>3. CASE bits > 1 /\ method # "-lk7-"
  <2>1. 2^(bits - 1) \in Int
    BY <1>1, <1>3
  <2>2. read_offset_code(bits) = {2^(bits - 1) + k : k \in Bits(bits - 1)}
    BY <1>1, <1>3 DEF read_offset_code
  <2>3. QED
    BY <2>1, <2>2 DEF Bits
<1>4. CASE bits > 1 /\ method = "-lk7-"
  <2>1. read_offset_code(bits) = lhark_read_offset_code(bits)
    BY <1>1, <1>4 DEF read_offset_code
  <2>2. CASE bits < 4
    BY <1>1, <2>1, <2>2 DEF lhark_read_offset_code
  <2>3. CASE bits >= 4 /\ bits >= LHARK_OFFSETS
    <3>1. lhark_read_offset_code(bits) = 0 .. Ring - 1
      BY <1>1, <2>3 DEF lhark_read_offset_code
    <3>2. QED
      BY <2>1, <3>1
  <2>4. CASE bits >= 4 /\ ~(bits >= LHARK_OFFSETS)
    <3>1. PICK low \in Nat : low = (bits - 2) \div 2
      BY <1>1, <2>4
    <3>2. PICK power \in Int : power = 2^low
      BY <3>1
    <3>3. lhark_read_offset_code(bits) = {(2 + (bits % 2)) * power + k : k \in Bits(low)}
      BY <1>1, <2>4, <3>1, <3>2 DEF lhark_read_offset_code
    <3>4. (2 + (bits % 2)) * power \in Int
      BY <1>1
    <3>5. QED
      BY <2>1, <3>3, <3>4 DEF Bits
  <2>5. QED
    BY <1>1, <2>2, <2>3, <2>4
<1>5. QED
  BY <1>1, <1>2, <1>3, <1>4

(* LhNew: its steps. *)
LEMMA NewRefines == RingInv /\ TreesType /\ NewDecodes => [RingNext]_historyVars
<1> SUFFICES ASSUME RingInv, TreesType, NewDecodes PROVE [RingNext]_historyVars
  OBVIOUS
<1> USE DEF ringVars, copyVars
<1>0. method' = method /\ method \in NewMethods
  BY DEF NewDecodes, NewNext
<1>1. CASE lha_lh_new_read
  BY <1>0, <1>1 DEF lha_lh_new_read, RingNext
<1>2. CASE NewFail \/ NextCommand \/ start_new_block
  BY <1>0, <1>2 DEF NewFail, NextCommand, start_new_block, historyVars
<1>3. CASE read_temp_table \/ TempLength
  BY <1>0, <1>3 DEF read_temp_table, TempLength, Table, NewSingle, TableDone, historyVars
<1>4. CASE read_code_table \/ CodeLength
  BY <1>0, <1>4 DEF read_code_table, CodeLength, Table, NewSingle, TableDone, historyVars
<1>5. CASE read_offset_table \/ NewOffsetLength
  BY <1>0, <1>5 DEF read_offset_table, NewOffsetLength, Table, NewSingle, TableDone, historyVars
<1>6. CASE Literal
  <2>1. PICK code \in code_tree : code < LITERALS /\ PutLiteral(code)
    BY <1>6 DEF Literal, new_output_byte
  <2>2. code \in Byte
    BY <2>1, RingAssumption DEF TreesType, Byte
  <2>3. QED
    BY <1>0, <2>1, <2>2 DEF RingNext
<1>7. CASE new_copy_from_history
  <2>1. PICK code \in code_tree, bits \in offset_tree : code >= LITERALS /\
          \E offset \in read_offset_code(bits), num \in NewCopyCounts(code) :
            BeginCopy(NewStartOf(offset), num, offset)
    BY <1>7 DEF new_copy_from_history
  <2>2. PICK offset \in Int, num \in Nat : BeginCopy(NewStartOf(offset), num, offset)
    BY <1>0, <2>1, NewCounts, NewOffsets
  <2>3. NewStartOf(offset) = (ringbuf_pos + Ring - offset - 1) % Ring
    BY DEF NewStartOf
  <2>4. QED
    BY <1>0, <2>2, <2>3, BeginRefines
<1>8. CASE NewCopyByte
  BY <1>0, <1>8 DEF NewCopyByte, RingNext
<1>9. CASE NewCopyDone
  BY <1>0, <1>9 DEF NewCopyDone, RingNext
<1>10. QED
  BY <1>1, <1>2, <1>3, <1>4, <1>5, <1>6, <1>7, <1>8, <1>9 DEF NewDecodes, NewNext

(* LhNew: its trees give numbers. *)
LEMMA NewTreesKept ==
  ASSUME TreesType, NewDecodes
  PROVE  TreesType'
<1>0. method \in NewMethods /\ method' = method
  BY DEF NewDecodes, NewNext
<1>1. CASE read_temp_table
  BY <1>0, <1>1, Zenon DEF TreesType, read_temp_table, Table, NewSingle, TableDone, newTreeVars
<1>2. CASE read_code_table
  <2>1. /\ offset_tree' = offset_tree
        /\ \/ code_tree' = code_tree
           \/ \E code \in Bits(CODE_BITS[method]) : code_tree' = {code}
           \/ code_tree' = 0 .. NUM_CODES[method] - 1
    BY <1>2 DEF read_code_table, Table, TableDone, newTreeVars, Built
  <2>2. /\ NUM_CODES[method] \in Nat /\ 2^CODE_BITS[method] \in Int
        /\ NUM_CODES[method] < 2^CODE_BITS[method]
    BY ONLY <1>0, LhNewAssumption
  <2>3. Bits(CODE_BITS[method]) \subseteq Nat
    BY DEF Bits
  <2>4. 0 .. NUM_CODES[method] - 1 \subseteq Bits(CODE_BITS[method])
    BY <2>2 DEF Bits
  <2>5. QED
    BY <1>0, <2>1, <2>3, <2>4, Zenon DEF TreesType
<1>3. CASE read_offset_table
  <2>1. /\ code_tree' = code_tree
        /\ \/ offset_tree' = offset_tree
           \/ \E code \in Bits(OFFSET_BITS[method]) : offset_tree' = {code}
           \/ offset_tree' = 0 .. MAX_OFFSET_CODES - 1
    BY <1>3 DEF read_offset_table, Table, TableDone, newTreeVars, Built
  <2>2. Bits(OFFSET_BITS[method]) \subseteq Nat /\ 0 .. MAX_OFFSET_CODES - 1 \subseteq Nat
    BY DEF Bits
  <2>3. QED
    BY <1>0, <2>1, <2>2, Zenon DEF TreesType
<1>4. CASE ~read_temp_table /\ ~read_code_table /\ ~read_offset_table
  <2>1. UNCHANGED newTreeVars
    BY <1>4 DEF NewDecodes, NewNext, lha_lh_new_read, NewFail, NextCommand, start_new_block,
         TempLength, CodeLength, NewOffsetLength, Literal, new_copy_from_history, NewCopyByte, NewCopyDone
  <2>2. QED
    BY <1>0, <2>1 DEF TreesType, newTreeVars
<1>5. QED
  BY <1>1, <1>2, <1>3, <1>4

(* Pm2: its commands are numbers. *)
LEMMA Pm2Offsets ==
  ASSUME TreesType, NEW code \in Int
  PROVE  history_get_offset(code) \subseteq Int
<1>1. ASSUME NEW val \in offset_tree PROVE Offsets(val) \subseteq Int
  <2>1. val \in Nat /\ MIN_BITS \in Nat
    BY Pm2Assumption DEF TreesType
  <2>2. CASE val = 0
    BY <2>2 DEF Offsets, Bits
  <2>3. CASE val > 0
    <3>1. 2^(val + MIN_BITS - 1) \in Int
      BY <2>1, <2>3
    <3>2. Offsets(val) = {2^(val + MIN_BITS - 1) + k : k \in Bits(val + MIN_BITS - 1)}
      BY <2>1, <2>3 DEF Offsets
    <3>3. QED
      BY <3>1, <3>2 DEF Bits
  <2>4. QED
    BY <2>1, <2>2, <2>3
<1>2. CASE code = 0
  BY <1>2 DEF history_get_offset, Bits
<1>3. CASE code > 0 /\ code < NEAR_CODES
  <2>1. history_get_offset(code) = UNION {Offsets(val) : val \in offset_tree}
    BY <1>3 DEF history_get_offset
  <2>2. QED
    BY <1>1, <2>1
<1>4. CASE code # 0 /\ ~(code > 0 /\ code < NEAR_CODES)
  <2>1. history_get_offset(code) = {0}
    BY <1>4 DEF history_get_offset
  <2>2. QED
    BY <2>1
<1>5. QED
  BY <1>2, <1>3, <1>4

(* Pm2: the lengths of its copies are numbers. *)
LEMMA Pm2Counts ==
  ASSUME NEW code \in Nat
  PROVE  history_get_count(code) \subseteq Nat
<1>0. SHORT_COPIES \in Nat
  BY Pm2Assumption
<1>1. CASE code < SHORT_COPIES
  <2>1. history_get_count(code) = {code + 2}
    BY <1>0, <1>1 DEF history_get_count
  <2>2. QED
    BY <2>1
<1>2. CASE code >= SHORT_COPIES /\ code < SHORT_COPIES + Len(copy_decode)
  <2>1. PICK j \in 1 .. Len(copy_decode) : j = code - SHORT_COPIES + 1
    BY <1>0, <1>2
  <2>2. copy_decode[j].offset \in Nat
    <3> DEFINE Range == [offset : Nat, bits : Nat]
    <3>1. copy_decode \in Seq(Range)
      BY Pm2Assumption
    <3> HIDE DEF Range
    <3>2. copy_decode[j] \in Range
      BY ONLY <3>1, j \in 1 .. Len(copy_decode)
    <3>3. QED
      BY <3>2 DEF Range
  <2>3. history_get_count(code) =
          {copy_decode[j].offset + k : k \in Bits(copy_decode[j].bits)}
    BY <1>0, <1>2, <2>1 DEF history_get_count
  <2>4. QED
    BY <2>2, <2>3 DEF Bits
<1>3. CASE ~(code < SHORT_COPIES) /\ ~(code >= SHORT_COPIES /\ code < SHORT_COPIES + Len(copy_decode))
  <2>1. history_get_count(code) = 0 .. PM2_BUFFER_SIZE + 1
    BY <1>3 DEF history_get_count
  <2>2. QED
    BY <2>1
<1>4. QED
  BY <1>1, <1>2, <1>3

(* Pm2: its steps. *)
LEMMA Pm2Refines == RingInv /\ TreesType /\ Pm2Decodes => [RingNext]_historyVars
<1> SUFFICES ASSUME RingInv, TreesType, Pm2Decodes PROVE [RingNext]_historyVars
  OBVIOUS
<1> USE DEF ringVars, copyVars
<1>0. method' = method
  BY DEF Pm2Decodes, Pm2Next
<1>1. CASE lha_pm2_decoder_read
  BY <1>0, <1>1 DEF lha_pm2_decoder_read, Call, RingNext
<1>2. CASE Pm2Fail
  BY <1>0, <1>2 DEF Pm2Fail, historyVars
<1>3. CASE read_single_byte
  BY <1>0, <1>3, Zenon DEF read_single_byte, PutLiteral, Put, Byte, Ring, RingNext
<1>4. CASE pm2_copy_from_history
  <2>1. PICK code \in code_tree : code >= FIRST_COPY /\
          \E to_copy \in history_get_count(code - FIRST_COPY),
             offset \in history_get_offset(code - FIRST_COPY) :
            BeginCopy(Pm2StartOf(offset), to_copy, offset)
    BY <1>4 DEF pm2_copy_from_history
  <2>2. code - FIRST_COPY \in Nat /\ code - FIRST_COPY \in Int
    <3>1. FIRST_COPY \in Nat
      BY Pm2Assumption
    <3>2. code \in Nat
      BY <2>1 DEF TreesType
    <3>3. QED
      BY <2>1, <3>1, <3>2
  <2>3. PICK to_copy \in Nat, offset \in Int :
          BeginCopy(Pm2StartOf(offset), to_copy, offset)
    BY <2>1, <2>2, Pm2Counts, Pm2Offsets
  <2>4. BeginCopy(Pm2StartOf(offset), to_copy, offset)
    BY <2>3 DEF BeginCopy, Back, Ring
  <2>5. Ring \in Int /\ ringbuf_pos \in Int
    BY RingPositive DEF RingInv, RingType
  <2>6. Pm2StartOf(offset) = (ringbuf_pos + Ring - offset - 1) % Ring
    <3>1. ringbuf_pos + Ring - 1 - offset = ringbuf_pos + Ring - offset - 1
      BY <2>5
    <3>2. QED
      BY <3>1 DEF Pm2StartOf, Ring
  <2>7. QED
    BY <1>0, <2>4, <2>6, BeginRefines
<1>5. CASE Pm2CopyByte
  BY <1>0, <1>5 DEF Pm2CopyByte, CopyTurn, Put, Ring, RingNext
<1>6. CASE Pm2CopyDone
  BY <1>0, <1>6 DEF Pm2CopyDone, CopyEnd, RingNext
<1>7. QED
  BY <1>1, <1>2, <1>3, <1>4, <1>5, <1>6 DEF Pm2Decodes, Pm2Next

(* read_code_tree, read_offset_tree: both leave numbers. *)
LEMMA Pm2TreesRead ==
  ASSUME NEW t, t.code \subseteq Nat, t.offset \subseteq Nat, NEW num \in Int
  PROVE  /\ \A u \in read_code_tree(t) : u.code \subseteq Nat /\ u.offset \subseteq Nat
         /\ \A u \in read_offset_tree(t, num) : u.code \subseteq Nat /\ u.offset \subseteq Nat
<1>1. ASSUME NEW u \in read_code_tree(t) PROVE u.code \subseteq Nat /\ u.offset \subseteq Nat
  <2>1. CASE u = t
    BY <2>1
  <2>2. CASE u # t
    <3>1. PICK num_codes \in Bits(CODES_BITS) :
            \E need : \/ u = State(need, {Pm2Single(num_codes)}, t.offset)
                     \/ u = State(need, t.code, t.offset)
                     \/ u = State(need, t.code \cup 0 .. num_codes - 1, t.offset)
      BY <2>2, ZenonT(30) DEF read_code_tree
    <3>2. num_codes \in Nat
      BY ONLY num_codes \in Bits(CODES_BITS) DEF Bits
    <3>3. Pm2Single(num_codes) \in Nat /\ 0 .. num_codes - 1 \subseteq Nat
      BY ONLY <3>2 DEF Pm2Single
    <3>4. CASE \E need : u = State(need, {Pm2Single(num_codes)}, t.offset)
      BY <3>3, <3>4 DEF State
    <3>5. CASE \E need : u = State(need, t.code, t.offset)
      BY <3>5 DEF State
    <3>6. CASE \E need : u = State(need, t.code \cup 0 .. num_codes - 1, t.offset)
      <4>1. u.code = t.code \cup 0 .. num_codes - 1 /\ u.offset = t.offset
        BY ONLY <3>6 DEF State
      <4>2. QED
        BY ONLY <3>3, <4>1, t.code \subseteq Nat, t.offset \subseteq Nat
    <3>7. QED
      BY <3>1, <3>4, <3>5, <3>6, Zenon
  <2>3. QED
    BY <2>1, <2>2
<1>2. ASSUME NEW u \in read_offset_tree(t, num)
      PROVE  u.code \subseteq Nat /\ u.offset \subseteq Nat
  <2>1. \/ u = t
        \/ \E single \in 0 .. num - 1 : u = State(t.need, t.code, {single})
        \/ u = State(t.need, t.code, t.offset \cup 0 .. num - 1)
    BY <1>2, Zenon DEF read_offset_tree
  <2>2. 0 .. num - 1 \subseteq Nat
    OBVIOUS
  <2>3. QED
    BY <2>1, <2>2 DEF State
<1>3. QED
  BY <1>1, <1>2

(* rebuild_tree: so do the two together. *)
LEMMA Pm2TreesRebuilt ==
  ASSUME TreesType, rebuild_tree
  PROVE  code_tree' \subseteq Nat /\ offset_tree' \subseteq Nat
<1> DEFINE Numbers(trees) == \A u \in trees : u.code \subseteq Nat /\ u.offset \subseteq Nat
<1>1. Numbers({Trees})
  <2>1. Trees.code = code_tree /\ Trees.offset = offset_tree
    BY DEF Trees, State
  <2>2. code_tree \subseteq Nat /\ offset_tree \subseteq Nat
    BY DEF TreesType
  <2>3. QED
    BY <2>1, <2>2, Zenon
<1>2. FIRST_OFFSETS \in Int
  BY Pm2Assumption, SMTT(30)
<1>3. ASSUME NEW num \in Int
      PROVE  Numbers(Both(Trees, num)) /\ Numbers(read_offset_tree(Trees, num))
  <2>1. PICK t : t = Trees
    OBVIOUS
  <2>2. t.code \subseteq Nat /\ t.offset \subseteq Nat
    BY <1>1, <2>1, SMTT(30)
  <2>3. Numbers(read_code_tree(t)) /\ Numbers(read_offset_tree(t, num))
    BY <2>2, Pm2TreesRead
  <2>4. ASSUME NEW u \in read_code_tree(t) PROVE Numbers(read_offset_tree(u, num))
    BY <2>3, Pm2TreesRead
  <2>5. QED
    BY <2>1, <2>3, <2>4 DEF Both
<1>4. ASSUME NEW trees, Numbers(trees), NEW next, NEW remaining, Rebuilt(trees, next, remaining)
      PROVE  code_tree' \subseteq Nat /\ offset_tree' \subseteq Nat
  BY <1>4 DEF Rebuilt
<1> HIDE DEF Numbers
<1>5. ASSUME NEW a, Numbers(a), NEW b, Numbers(b) PROVE Numbers(a \cup b)
  BY <1>5 DEF Numbers
<1>6. FIRST_OFFSETS + 1 \in Int /\ FIRST_OFFSETS + 2 \in Int /\ FIRST_OFFSETS + 3 \in Int
  BY <1>2
<1>7. QED
  BY <1>1, <1>2, <1>3, <1>4, <1>5, <1>6, Zenon DEF rebuild_tree

(* Pm2: its trees give numbers. *)
LEMMA Pm2TreesKept ==
  ASSUME TreesType, Pm2Decodes
  PROVE  TreesType'
<1>1. method = "-pm2-" /\ method' = method
  BY DEF Pm2Decodes, Pm2Next
<1>2. CASE rebuild_tree
  <2>1. code_tree' \subseteq Nat /\ offset_tree' \subseteq Nat
    BY <1>2, Pm2TreesRebuilt
  <2>2. QED
    BY <1>1, <2>1 DEF TreesType, NewMethods
<1>3. CASE ~rebuild_tree
  <2>1. code_tree' = code_tree /\ offset_tree' = offset_tree
    BY <1>3 DEF Pm2Decodes, Pm2Next, lha_pm2_decoder_read, Pm2Fail,
         read_single_byte, pm2_copy_from_history, Pm2CopyByte, Pm2CopyDone,
         CountDown, pm2TreeVars
  <2>2. QED
    BY <1>1, <2>1 DEF TreesType
<1>4. QED
  BY <1>2, <1>3

-----------------------------------------------------------------------------
(* Their buffers *)

(* A call that decodes one command: until its bytes are put there the      *)
(* buffer is empty.                                                        *)
OneCommand(limit) ==
  /\ pc \notin {"idle", "copying"} => buf_len = 0
  /\ pc = "copying" => buf_len = copied /\ count <= limit
  /\ pc = "idle" => buf_len <= limit

(* What the steps of such a call do to its buffer. *)
OneCommandNext(limit) ==
  \/ buf_len' = 0 /\ pc' \notin {"idle", "copying"}
  \/ /\ pc \notin {"idle", "copying"}
     /\ \/ UNCHANGED buf_len /\ pc' \notin {"idle", "copying"}
        \/ buf_len' = buf_len + 1 /\ pc' = "idle"
        \/ /\ UNCHANGED buf_len /\ pc' = "copying"
           /\ copied' = 0 /\ count' <= limit
  \/ /\ pc = "copying"
     /\ \/ copied < count /\ pc' = "copying" /\ buf_len' = buf_len + 1
             /\ copied' = copied + 1 /\ UNCHANGED count
        \/ UNCHANGED buf_len /\ (pc' = "idle" \/ (pc' = "end" /\ buf_len = 0))
  \/ UNCHANGED <<pc, buf_len, copied, count>>

(* They keep it within the limit of a command. *)
LEMMA OneCommandStep ==
  ASSUME NEW limit \in Nat \ {0}, RingInv, OneCommand(limit), OneCommandNext(limit)
  PROVE  OneCommand(limit)'
<1>1. buf_len \in Nat /\ count \in Nat /\ copied \in Nat /\ copied <= count
  BY DEF RingInv, RingType, CopyType
<1>2. CASE buf_len' = 0 /\ pc' \notin {"idle", "copying"}
  BY <1>2 DEF OneCommand
<1>3. CASE pc \notin {"idle", "copying"}
  BY <1>1, <1>3 DEF OneCommand, OneCommandNext
<1>4. CASE pc = "copying"
  BY <1>1, <1>4 DEF OneCommand, OneCommandNext
<1>5. CASE UNCHANGED <<pc, buf_len, copied, count>>
  BY <1>5 DEF OneCommand
<1>6. QED
  BY <1>2, <1>3, <1>4, <1>5 DEF OneCommandNext

(* So a call never has more in its buffer. *)
LEMMA OneCommandFits ==
  ASSUME NEW limit \in Nat \ {0}, RingInv, OneCommand(limit)
  PROVE  buf_len \in 0 .. limit
<1>1. buf_len \in Nat /\ count \in Nat /\ copied \in Nat /\ copied <= count
  BY DEF RingInv, RingType, CopyType
<1>2. QED
  BY <1>1 DEF OneCommand

(* Pm2: its steps.  What is too long is not copied. *)
LEMMA Pm2Command ==
  ASSUME RingInv, Pm2Decodes
  PROVE  OneCommandNext(PM2_BUFFER_SIZE)
<1> USE DEF ringVars, copyVars
<1>1. CASE lha_pm2_decoder_read
  BY <1>1 DEF lha_pm2_decoder_read, Call, OneCommandNext
<1>2. CASE Pm2Fail
  BY <1>2 DEF Pm2Fail, OneCommandNext
<1>3. CASE read_single_byte
  BY <1>3 DEF read_single_byte, PutLiteral, Put, OneCommandNext
<1>4. CASE pm2_copy_from_history
  BY <1>4 DEF pm2_copy_from_history, BeginCopy, OneCommandNext
<1>5. CASE Pm2CopyByte
  BY <1>5 DEF Pm2CopyByte, CopyTurn, Put, OneCommandNext
<1>6. CASE Pm2CopyDone
  BY <1>6 DEF Pm2CopyDone, CopyEnd, OneCommandNext
<1>7. QED
  BY <1>1, <1>2, <1>3, <1>4, <1>5, <1>6 DEF Pm2Decodes, Pm2Next

(* No copy of -lh5- and -lk7- is longer than the ring. *)
LEMMA NewCountsFit ==
  ASSUME TreesType, method \in NewMethods, NEW code \in code_tree, code >= LITERALS,
         NEW num \in NewCopyCounts(code)
  PROVE  num <= Ring
<1>1. code \in 0 .. 2^CODE_BITS[method] - 1 /\ LITERALS \in Nat /\ COPY_THRESHOLD \in Nat
  BY RingAssumption, LhNewAssumption DEF TreesType, Bits
<1>2. CASE method = "-lk7-"
  <2>1. code \in LITERALS .. 2^CODE_BITS["-lk7-"] - 1
    BY <1>1, <1>2
  <2>2. num \in 0 .. RING_BUFFER_SIZE["-lk7-"]
    BY <1>2, <2>1, LharkAssumption DEF NewCopyCounts
  <2>3. QED
    BY <1>2, <2>2 DEF Ring
<1>3. CASE method = "-lh5-"
  <2>1. num = code - LITERALS + COPY_THRESHOLD
    BY <1>3 DEF NewCopyCounts
  <2>2. /\ 2^CODE_BITS["-lh5-"] \in Int /\ RING_BUFFER_SIZE["-lh5-"] \in Int
        /\ 2^CODE_BITS["-lh5-"] - 1 - LITERALS + COPY_THRESHOLD <= RING_BUFFER_SIZE["-lh5-"]
    BY RingAssumption, LhNewAssumption DEF NewMethods, Methods
  <2>3. QED
    BY <1>1, <1>3, <2>1, <2>2 DEF Ring
<1>4. QED
  BY <1>2, <1>3 DEF NewMethods

(* LhNew: its steps.  All but the commands leave the buffer alone. *)
LEMMA NewCommand ==
  ASSUME RingInv, TreesType, NewDecodes
  PROVE  OneCommandNext(Ring)
<1> USE DEF ringVars, copyVars
<1>0. method \in NewMethods
  BY DEF NewDecodes
<1>1. CASE lha_lh_new_read
  BY <1>1 DEF lha_lh_new_read, Call, OneCommandNext
<1>2. CASE NewFail \/ NextCommand \/ start_new_block
  BY <1>2 DEF NewFail, NextCommand, start_new_block, OneCommandNext
<1>3. CASE read_temp_table \/ TempLength
  BY <1>3, SMTT(30) DEF read_temp_table, TempLength, Table, NewSingle, TableDone, OneCommandNext
<1>4. CASE read_code_table \/ CodeLength
  BY <1>4 DEF read_code_table, CodeLength, Table, NewSingle, TableDone, OneCommandNext
<1>5. CASE read_offset_table \/ NewOffsetLength
  BY <1>5 DEF read_offset_table, NewOffsetLength, Table, NewSingle, TableDone, OneCommandNext
<1>6. CASE Literal
  BY <1>6 DEF Literal, new_output_byte, PutLiteral, Put, OneCommandNext
<1>7. CASE new_copy_from_history
  <2>1. PICK code \in code_tree, bits \in offset_tree : code >= LITERALS /\
          \E offset \in read_offset_code(bits), num \in NewCopyCounts(code) :
            BeginCopy(NewStartOf(offset), num, offset)
    BY <1>7 DEF new_copy_from_history
  <2>2. PICK num \in NewCopyCounts(code) : count' = num /\ copied' = 0 /\ buf_len' = buf_len
    BY <2>1 DEF BeginCopy
  <2>3. num <= Ring
    BY <1>0, <2>1, <2>2, NewCountsFit
  <2>4. QED
    BY <1>7, <2>2, <2>3 DEF new_copy_from_history, OneCommandNext
<1>8. CASE NewCopyByte
  BY <1>8 DEF NewCopyByte, CopyTurn, Put, OneCommandNext
<1>9. CASE NewCopyDone
  BY <1>9 DEF NewCopyDone, CopyEnd, OneCommandNext
<1>10. QED
  BY <1>1, <1>2, <1>3, <1>4, <1>5, <1>6, <1>7, <1>8, <1>9 DEF NewDecodes, NewNext

-----------------------------------------------------------------------------
(* The tables of -lh5- and -lk7- *)

(* -lh5- and -lk7-: the lengths set are those below the next one, and the  *)
(* skip after the third does not lead out of the table.                    *)
Room(size) == n \in 0 .. size /\ i \in 0 .. size /\ lengths = 0 .. i - 1

TableRoom ==
  /\ pc = "temp_lengths" => Room(MAX_TEMP_CODES)
  /\ pc = "code_lengths" => Room(NUM_CODES[method])
  /\ pc = "offset_lengths" => Room(MAX_OFFSET_CODES)

(* -lh5- and -lk7-: what is left of a block, and what its trees can give. *)
NewTypes ==
  /\ block_remaining \in 0 .. MaxBlock
  /\ temp_tree \subseteq Bits(TEMP_CODE_BITS)
  /\ code_tree \subseteq Bits(CODE_BITS[method])
  /\ offset_tree \subseteq Bits(OFFSET_BITS[method])

(* The sizes of the tables. *)
LEMMA TableSizes ==
  ASSUME method \in NewMethods
  PROVE  /\ MAX_TEMP_CODES \in Nat /\ MAX_TEMP_CODES >= 6
         /\ NUM_CODES[method] \in Nat \ {0} /\ NUM_CODES[method] < 2^CODE_BITS[method]
         /\ 2^CODE_BITS[method] \in Int
         /\ MAX_OFFSET_CODES \in Int /\ 2^OFFSET_BITS[method] \in Int
         /\ 2^TEMP_CODE_BITS \in Int
<1>1. TEMP_CODE_BITS \in Nat /\ CODE_BITS[method] \in Nat /\ OFFSET_BITS[method] \in Nat
  BY LhNewAssumption
<1>2. 2^TEMP_CODE_BITS \in Int /\ 2^CODE_BITS[method] \in Int /\ 2^OFFSET_BITS[method] \in Int
  BY <1>1
<1>3. 2^TEMP_CODE_BITS - 1 >= 6
  BY LhNewAssumption
<1>4. NUM_CODES[method] \in Nat \ {0} /\ NUM_CODES[method] < 2^CODE_BITS[method]
  BY LhNewAssumption
<1>5. QED
  BY <1>2, <1>3, <1>4 DEF MAX_TEMP_CODES, MAX_OFFSET_CODES

(* A table begins with no lengths set. *)
LEMMA TableBegins ==
  ASSUME NEW from, NEW loop, NEW width, NEW max \in Int, max >= 0 \/ max = 2^width - 1,
         Table(from, loop, width, max)
  PROVE  pc' = loop /\ n' \in 0 .. max /\ i' \in 0 .. max /\ lengths' = 0 .. i' - 1
<1>1. PICK num \in Bits(width) \ {0} :
         n' = SmallerOf(num, max) /\ i' = 0 /\ lengths' = {} /\ pc' = loop
  BY DEF Table
<1>2. num \in Int /\ num >= 0 /\ num <= 2^width - 1
  BY <1>1 DEF Bits
<1>3. lengths' = 0 .. i' - 1
  BY <1>1
<1>4. QED
  BY <1>1, <1>2, <1>3 DEF SmallerOf

(* Setting the lengths from the next one on. *)
LEMMA LengthsSet ==
  ASSUME NEW size \in Int, Room(size), i < n, NEW num \in Nat \ {0}, i + num <= size,
         lengths' = lengths \cup i .. i + num - 1, i' = i + num, n' = n
  PROVE  n' \in 0 .. size /\ i' \in 0 .. size /\ lengths' = 0 .. i' - 1
<1>1. n \in 0 .. size /\ i \in 0 .. size /\ lengths = 0 .. i - 1
  BY DEF Room
<1>2. 0 .. i - 1 \cup i .. i + num - 1 = 0 .. i + num - 1
  BY <1>1
<1>3. QED
  BY <1>1, <1>2

(* read_skip_count: at least one code is skipped, and none that is not     *)
(* there.                                                                  *)
LEMMA SkipsStay ==
  ASSUME NEW size \in Int, Room(size), i < n, NEW code, NEW k \in read_skip_count(code)
  PROVE  CodesSkipped(k) \in Nat \ {0} /\ i + CodesSkipped(k) <= size
<1>1. n \in 0 .. size /\ i \in 0 .. size
  BY DEF Room
<1>2. k \in Nat \ {0}
  <2>1. CASE code = 0
    BY <2>1 DEF read_skip_count
  <2>2. CASE code = 1
    BY <2>2 DEF read_skip_count, Bits
  <2>3. CASE code # 0 /\ code # 1
    <3>1. read_skip_count(code) = {20 + j : j \in Bits(9)}
      BY <2>3 DEF read_skip_count
    <3>2. PICK j \in Bits(9) : k = 20 + j
      BY <3>1, Zenon
    <3>3. j \in Nat
      BY SMTT(30) DEF Bits
    <3>4. QED
      BY <3>2, <3>3
  <2>4. QED
    BY <2>1, <2>2, <2>3
<1>3. QED
  BY <1>1, <1>2 DEF CodesSkipped, SmallerOf

(* The readers of the three tables store every length in its table. *)
LEMMA TableStep ==
  ASSUME TableRoom, NewDecodes
  PROVE  TableRoom'
<1>0. method \in NewMethods /\ method' = method
  BY DEF NewDecodes, NewNext
<1>1. /\ MAX_TEMP_CODES \in Nat /\ MAX_TEMP_CODES >= 6
      /\ NUM_CODES[method] \in Nat /\ MAX_OFFSET_CODES \in Int
  BY <1>0, TableSizes
<1>2. NUM_CODES[method]' = NUM_CODES[method] /\ MAX_OFFSET_CODES' = MAX_OFFSET_CODES
      /\ MAX_TEMP_CODES' = MAX_TEMP_CODES
  BY <1>0 DEF MAX_OFFSET_CODES, MAX_TEMP_CODES
<1>3. ASSUME pc' \notin {"temp_lengths", "code_lengths", "offset_lengths"} PROVE TableRoom'
  BY <1>3 DEF TableRoom
<1>4. CASE Table("temp", "temp_lengths", TEMP_CODE_BITS, MAX_TEMP_CODES)
  <2>1. pc' = "temp_lengths" /\ Room(MAX_TEMP_CODES)'
    BY <1>1, <1>2, <1>4, TableBegins DEF Room
  <2>2. QED
    BY <2>1 DEF TableRoom
<1>5. CASE Table("codes", "code_lengths", CODE_BITS[method], NUM_CODES[method])
  <2>1. pc' = "code_lengths" /\ Room(NUM_CODES[method])'
    BY <1>1, <1>2, <1>5, TableBegins DEF Room
  <2>2. QED
    BY <2>1 DEF TableRoom
<1>6. CASE Table("offsets", "offset_lengths", OFFSET_BITS[method], MAX_OFFSET_CODES)
  <2>1. MAX_OFFSET_CODES = 2^OFFSET_BITS[method] - 1
    BY DEF MAX_OFFSET_CODES
  <2>2. pc' = "offset_lengths" /\ Room(MAX_OFFSET_CODES)'
    BY <1>1, <1>2, <1>6, <2>1, TableBegins DEF Room
  <2>3. QED
    BY <2>2 DEF TableRoom
<1>7. CASE TempLength
  <2>1. PICK skip \in (IF i = 2 THEN Bits(2) ELSE {0}) :
          lengths' = lengths \cup i .. i + skip /\ i' = i + skip + 1
    BY <1>7 DEF TempLength
  <2>2. pc = "temp_lengths" /\ pc' = pc /\ i < n /\ n' = n /\ Room(MAX_TEMP_CODES)
    BY <1>7 DEF TempLength, TableRoom
  <2>3. PICK num \in Nat \ {0} : num = skip + 1 /\ skip \in Int /\ i + num <= MAX_TEMP_CODES
    <3>1. skip \in 0 .. 3 /\ (i # 2 => skip = 0)
      BY <2>1, PowersAssumption DEF Bits
    <3>2. i \in Int /\ n \in Int /\ n <= MAX_TEMP_CODES
      BY <1>1, <2>2 DEF Room
    <3>3. QED
      BY <1>1, <2>2, <3>1, <3>2
  <2>4. i \in Int
    BY <1>1, <2>2 DEF Room
  <2>5. lengths' = lengths \cup i .. i + num - 1 /\ i' = i + num
    <3>1. i + skip = i + num - 1 /\ i + skip + 1 = i + num
      BY <2>3, <2>4
    <3>2. QED
      BY <2>1, <3>1
  <2>6. Room(MAX_TEMP_CODES)'
    BY <1>1, <1>2, <2>2, <2>3, <2>5, LengthsSet DEF Room
  <2>7. QED
    BY <2>2, <2>6 DEF TableRoom
<1>8. CASE CodeLength
  <2>1. pc = "code_lengths" /\ pc' = pc /\ i < n /\ n' = n /\ Room(NUM_CODES[method])
    BY <1>8 DEF CodeLength, TableRoom
  <2>2. PICK code \in temp_tree :
          \E skip \in (IF code <= 2 THEN {CodesSkipped(k) : k \in read_skip_count(code)} ELSE {1}) :
            lengths' = lengths \cup i .. i + skip - 1 /\ i' = i + skip
    BY <1>8 DEF CodeLength
  <2>3. PICK skip \in (IF code <= 2 THEN {CodesSkipped(k) : k \in read_skip_count(code)} ELSE {1}) :
          lengths' = lengths \cup i .. i + skip - 1 /\ i' = i + skip
    BY <2>2
  <2>4. skip \in Nat \ {0} /\ i + skip <= NUM_CODES[method]
    <3>1. CASE code <= 2
      BY <1>1, <2>1, <2>3, <3>1, SkipsStay
    <3>2. CASE ~(code <= 2)
      BY <1>1, <2>1, <2>3, <3>2 DEF Room
    <3>3. QED
      BY <3>1, <3>2
  <2>5. Room(NUM_CODES[method])'
    BY <1>1, <1>2, <2>1, <2>3, <2>4, LengthsSet DEF Room
  <2>6. QED
    BY <2>1, <2>5 DEF TableRoom
<1>9. CASE NewOffsetLength
  <2>1. pc = "offset_lengths" /\ pc' = pc /\ i < n /\ n' = n /\ Room(MAX_OFFSET_CODES)
    BY <1>9 DEF NewOffsetLength, TableRoom
  <2>2. PICK num \in Nat \ {0} : num = 1
    OBVIOUS
  <2>3. i \in Int /\ n \in Int /\ i + num <= MAX_OFFSET_CODES
    BY <1>1, <2>1, <2>2 DEF Room
  <2>4. lengths' = lengths \cup i .. i + num - 1 /\ i' = i + num
    BY <1>9, <2>2, <2>3 DEF NewOffsetLength
  <2>5. Room(MAX_OFFSET_CODES)'
    BY <1>1, <1>2, <2>1, <2>2, <2>3, <2>4, LengthsSet DEF Room
  <2>6. QED
    BY <2>1, <2>5 DEF TableRoom
<1>10. CASE \/ lha_lh_new_read \/ NewFail \/ NextCommand \/ start_new_block
            \/ Literal \/ new_copy_from_history \/ NewCopyByte \/ NewCopyDone
  BY <1>3, <1>10 DEF lha_lh_new_read, NewFail, NextCommand, start_new_block,
                     Literal, new_copy_from_history, NewCopyByte, NewCopyDone
<1>11. CASE \/ \E code : \E next \in {"codes", "offsets", "read"} : NewSingle(code, next)
            \/ \E loop : \E next \in {"codes", "offsets", "read"} : TableDone(loop, next)
  BY <1>3, <1>11, SMTT(30) DEF NewSingle, TableDone
<1>12. QED
  BY <1>4, <1>5, <1>6, <1>7, <1>8, <1>9, <1>10, <1>11, Zenon
     DEF NewDecodes, NewNext, read_temp_table, read_code_table, read_offset_table

(* LhNew: the trees give codes that fit their fields, and a block no more  *)
(* commands than its length says.                                          *)
LEMMA NewTypesStep ==
  ASSUME NewTypes, NewDecodes
  PROVE  NewTypes'
<1>0. method \in NewMethods /\ method' = method
  BY DEF NewDecodes, NewNext
<1>1. /\ MAX_TEMP_CODES = 2^TEMP_CODE_BITS - 1 /\ 2^TEMP_CODE_BITS \in Int
      /\ NUM_CODES[method] \in Nat /\ NUM_CODES[method] < 2^CODE_BITS[method]
      /\ 2^CODE_BITS[method] \in Int
      /\ MAX_OFFSET_CODES = 2^OFFSET_BITS[method] - 1 /\ 2^OFFSET_BITS[method] \in Int
  BY <1>0, TableSizes DEF MAX_TEMP_CODES, MAX_OFFSET_CODES
<1>2. /\ Built(MAX_TEMP_CODES) \subseteq Bits(TEMP_CODE_BITS)
      /\ Built(NUM_CODES[method]) \subseteq Bits(CODE_BITS[method])
      /\ Built(MAX_OFFSET_CODES) \subseteq Bits(OFFSET_BITS[method])
  <2>1. ASSUME NEW size \in Int, NEW bits, 2^bits \in Int, size < 2^bits
        PROVE  Built(size) \subseteq Bits(bits)
    BY <2>1 DEF Built, Bits
  <2>2. QED
    BY <1>1, <2>1
<1>3. MaxBlock \in Nat
  BY LhNewAssumption
<1>4. /\ Bits(CODE_BITS[method])' = Bits(CODE_BITS[method])
      /\ Bits(OFFSET_BITS[method])' = Bits(OFFSET_BITS[method])
  BY <1>0
<1>5. block_remaining' \in 0 .. MaxBlock
  <2>1. CASE NextCommand
    <3>1. PICK left \in 0 .. MaxBlock : left = block_remaining
      BY DEF NewTypes
    <3>2. block_remaining' = left \/ (left # 0 /\ block_remaining' = left - 1)
      BY <2>1, <3>1 DEF NextCommand
    <3>3. QED
      BY ONLY <1>3, <3>1, <3>2
  <2>2. CASE start_new_block
    BY <2>2 DEF start_new_block
  <2>3. CASE ~NextCommand /\ ~start_new_block
    <3>1. UNCHANGED block_remaining
      BY <2>3, Zenon DEF NewDecodes, NewNext, lha_lh_new_read, NewFail, read_temp_table, TempLength,
           read_code_table, CodeLength, read_offset_table, NewOffsetLength, Table, NewSingle, TableDone,
           Literal, new_copy_from_history, NewCopyByte, NewCopyDone
    <3>2. QED
      BY <3>1, SMTT(30) DEF NewTypes
  <2>4. QED
    BY <2>1, <2>2, <2>3
<1>6. /\ temp_tree \subseteq Bits(TEMP_CODE_BITS)
      /\ code_tree \subseteq Bits(CODE_BITS[method])
      /\ offset_tree \subseteq Bits(OFFSET_BITS[method])
  BY SMTT(30) DEF NewTypes
<1> SUFFICES /\ temp_tree' \subseteq Bits(TEMP_CODE_BITS)
             /\ code_tree' \subseteq Bits(CODE_BITS[method])
             /\ offset_tree' \subseteq Bits(OFFSET_BITS[method])
  BY <1>4, <1>5, Zenon DEF NewTypes
<1>7. CASE read_temp_table
  <2>1. /\ UNCHANGED <<code_tree, offset_tree>>
        /\ \/ UNCHANGED temp_tree
           \/ \E code \in Bits(TEMP_CODE_BITS) : temp_tree' = {code}
           \/ temp_tree' = Built(MAX_TEMP_CODES)
    BY <1>7 DEF read_temp_table, Table, newTreeVars
  <2>2. QED
    BY <1>2, <1>6, <2>1, Zenon
<1>8. CASE read_code_table
  <2>1. /\ UNCHANGED <<temp_tree, offset_tree>>
        /\ \/ UNCHANGED code_tree
           \/ \E code \in Bits(CODE_BITS[method]) : code_tree' = {code}
           \/ code_tree' = Built(NUM_CODES[method])
    BY <1>8 DEF read_code_table, Table, newTreeVars
  <2>2. QED
    BY <1>2, <1>6, <2>1, Zenon
<1>9. CASE read_offset_table
  <2>1. /\ UNCHANGED <<temp_tree, code_tree>>
        /\ \/ UNCHANGED offset_tree
           \/ \E code \in Bits(OFFSET_BITS[method]) : offset_tree' = {code}
           \/ offset_tree' = Built(MAX_OFFSET_CODES)
    BY <1>9 DEF read_offset_table, Table, newTreeVars
  <2>2. QED
    BY <1>2, <1>6, <2>1, Zenon
<1>10. CASE ~read_temp_table /\ ~read_code_table /\ ~read_offset_table
  <2>1. UNCHANGED newTreeVars
    BY <1>10 DEF NewDecodes, NewNext, lha_lh_new_read, NewFail, NextCommand, start_new_block,
         TempLength, CodeLength, NewOffsetLength, Literal, new_copy_from_history, NewCopyByte, NewCopyDone
  <2>2. QED
    BY <1>6, <2>1, SMTT(30) DEF newTreeVars
<1>11. QED
  BY <1>7, <1>8, <1>9, <1>10

(* A step that leaves all this alone. *)
LEMMA TablesStay ==
  ASSUME UNCHANGED <<method, pc, block_remaining, newTreeVars, tableVars>>, TableRoom, NewTypes
  PROVE  TableRoom' /\ NewTypes'
<1>1. /\ method' = method /\ pc' = pc /\ n' = n /\ i' = i /\ lengths' = lengths
      /\ block_remaining' = block_remaining /\ temp_tree' = temp_tree
      /\ code_tree' = code_tree /\ offset_tree' = offset_tree
  BY ZenonT(30) DEF newTreeVars, tableVars
<1>2. TableRoom'
  BY <1>1, ZenonT(30) DEF TableRoom, Room, MAX_OFFSET_CODES, MAX_TEMP_CODES
<1>3. NewTypes'
  BY <1>1, Zenon DEF NewTypes
<1>4. QED
  BY <1>2, <1>3

(* What TableRoom is for. *)
LEMMA LengthsHold ==
  ASSUME method \in NewMethods, TableRoom
  PROVE  LengthsFit
<1>1. ASSUME NEW max \in Int, Room(max)
      PROVE  lengths \subseteq 0 .. max - 1 /\ (i >= n => 0 .. n - 1 \subseteq lengths)
  <2>1. n \in 0 .. max /\ i \in 0 .. max /\ lengths = 0 .. i - 1
    BY <1>1 DEF Room
  <2>2. QED
    BY <2>1
<1>2. MAX_TEMP_CODES \in Int /\ NUM_CODES[method] \in Int /\ MAX_OFFSET_CODES \in Int
  BY TableSizes
<1>3. CASE pc = "temp_lengths"
  <2>1. Room(MAX_TEMP_CODES)
    BY <1>3 DEF TableRoom
  <2>2. QED
    BY <1>1, <1>2, <1>3, <2>1 DEF LengthsFit
<1>4. CASE pc = "code_lengths"
  <2>1. Room(NUM_CODES[method])
    BY <1>4 DEF TableRoom
  <2>2. QED
    BY <1>1, <1>2, <1>4, <2>1 DEF LengthsFit
<1>5. CASE pc = "offset_lengths"
  <2>1. Room(MAX_OFFSET_CODES)
    BY <1>5 DEF TableRoom
  <2>2. QED
    BY <1>1, <1>2, <1>5, <2>1 DEF LengthsFit
<1>6. CASE pc \notin {"temp_lengths", "code_lengths", "offset_lengths"}
  BY <1>6 DEF LengthsFit
<1>7. QED
  BY <1>3, <1>4, <1>5, <1>6

-----------------------------------------------------------------------------
(* The schedule of -pm2- *)

(* How many offset codes there are at each stage. *)
OffsetCodes ==
  CASE tree_state = "UNBUILT"    -> 1
    [] tree_state = "BUILD1"     -> FIRST_OFFSETS
    [] tree_state = "BUILD2"     -> FIRST_OFFSETS + 1
    [] tree_state = "BUILD3"     -> FIRST_OFFSETS + 2
    [] tree_state = "CONTINUING" -> FIRST_OFFSETS + 3

(* Nothing is output before the first trees, and a tree gives no offset    *)
(* code of a later stage.                                                  *)
ScheduleInv ==
  method = "-pm2-" =>
    /\ tree_state \in {"UNBUILT", "BUILD1", "BUILD2", "BUILD3", "CONTINUING"}
    /\ tree_state = "UNBUILT" => pc = "idle" /\ Produced = 0 /\ tree_rebuild_remaining = 0
    /\ tree_state # "UNBUILT" => tree_rebuild_remaining \in Nat \ {0}
    /\ tree_state = "BUILD1" => Due = KIB
    /\ tree_state = "BUILD2" => Due = 2 * KIB
    /\ tree_state = "BUILD3" => Due = 4 * KIB
    /\ tree_state = "CONTINUING" => Due >= 8 * KIB /\ Due % (4 * KIB) = 0
    /\ offset_tree \subseteq 0 .. OffsetCodes - 1

(* The offsets of each number of codes: every further code doubles how far *)
(* they go back.                                                           *)
LEMMA OffsetsDouble ==
  /\ KIB \in Nat \ {0}
  /\ 2^(MIN_BITS + FIRST_OFFSETS - 1) = KIB
  /\ 2^(MIN_BITS + FIRST_OFFSETS) = 2 * KIB
  /\ 2^(MIN_BITS + FIRST_OFFSETS + 1) = 4 * KIB
  /\ 2^(MIN_BITS + FIRST_OFFSETS + 2) = 8 * KIB
<1>1. PICK x \in Nat : x = MIN_BITS + FIRST_OFFSETS - 1
  <2>1. MIN_BITS \in Nat /\ FIRST_OFFSETS \in Nat
    BY Pm2Assumption
  <2>2. FIRST_OFFSETS > 0
    BY Pm2Assumption
  <2>3. QED
    BY ONLY <2>1, <2>2
<1>2. /\ MIN_BITS + FIRST_OFFSETS = x + 1 /\ MIN_BITS + FIRST_OFFSETS + 1 = x + 1 + 1
      /\ MIN_BITS + FIRST_OFFSETS + 2 = x + 1 + 1 + 1
  <2>1. MIN_BITS \in Nat /\ FIRST_OFFSETS \in Nat
    BY Pm2Assumption
  <2>2. QED
    BY <1>1, <2>1
<1>3. KIB = 2^x /\ KIB \in Nat
  BY <1>1, Pm2Assumption
<1>4. /\ \A a \in 0 .. x + 2 : 2^(a + 1) = 2 * 2^a
      /\ \A a \in 0 .. x + 3 : \A b \in 0 .. a : 2^b <= 2^a
  <2>1. MIN_BITS + FIRST_OFFSETS + 1 = x + 2 /\ MIN_BITS + FIRST_OFFSETS + 2 = x + 3
    BY <1>2
  <2>2. QED
    BY <2>1, OffsetsAssumption
<1>5. 2^(x + 1) = 2 * 2^x /\ 2^(x + 1 + 1) = 2 * 2^(x + 1) /\ 2^(x + 1 + 1 + 1) = 2 * 2^(x + 1 + 1)
  BY <1>4
<1>6. 2^0 <= 2^x /\ 2^0 = 1
  <2>1. x \in 0 .. x + 3 /\ 0 \in 0 .. x
    OBVIOUS
  <2>2. 2^0 <= 2^x
    BY <1>4, <2>1, Zenon
  <2>3. 2^0 = 1
    BY PowersAssumption
  <2>4. QED
    BY <2>2, <2>3
<1>7. QED
  BY <1>1, <1>2, <1>3, <1>5, <1>6

(* history_get_offset: no code below x + 1 gives an offset of more bits    *)
(* than x has.                                                             *)
LEMMA OffsetsBelow ==
  ASSUME NEW x \in 0 .. FIRST_OFFSETS + 2, NEW val \in 0 .. x, NEW offset \in Offsets(val)
  PROVE  offset \in Int /\ offset < 2^(MIN_BITS + x)
<1>1. MIN_BITS \in Nat /\ FIRST_OFFSETS \in Nat
  BY Pm2Assumption
<1>2. 2^(MIN_BITS + val) <= 2^(MIN_BITS + x)
  <2>1. MIN_BITS + x \in 0 .. MIN_BITS + FIRST_OFFSETS + 2 /\ MIN_BITS + val \in 0 .. MIN_BITS + x
    BY <1>1
  <2>2. QED
    BY <2>1, OffsetsAssumption
<1>3. 2^(MIN_BITS + val) \in Int /\ 2^(MIN_BITS + x) \in Int
  BY <1>1
<1>4. CASE val = 0
  <2>1. offset \in 0 .. 2^MIN_BITS - 1 /\ MIN_BITS + val = MIN_BITS
    BY <1>1, <1>4 DEF Offsets, Bits
  <2>2. QED
    BY <1>2, <1>3, <2>1
<1>5. CASE val > 0
  <2>1. PICK y \in Nat : y = val + MIN_BITS - 1
    BY <1>1, <1>5
  <2>2. PICK power \in Int : power = 2^y
    BY <2>1
  <2>3. PICK k \in 0 .. power - 1 : offset = power + k
    BY <1>5, <2>1, <2>2 DEF Offsets, Bits
  <2>4. 2^(MIN_BITS + val) = 2 * power
    <3>1. y \in 0 .. MIN_BITS + FIRST_OFFSETS + 1 /\ MIN_BITS + val = y + 1
      BY <1>1, <2>1
    <3>2. QED
      BY <2>2, <3>1, OffsetsAssumption
  <2>5. QED
    BY <1>2, <1>3, <2>2, <2>3, <2>4
<1>6. QED
  BY <1>4, <1>5

(* read_code_tree and read_offset_tree: what they leave of an older tree   *)
(* has no later code either.                                               *)
LEMMA OffsetsRead ==
  ASSUME NEW num \in Nat, NEW t, t.offset \subseteq 0 .. num - 1
  PROVE  /\ \A u \in read_offset_tree(t, num) : u.offset \subseteq 0 .. num - 1
         /\ \A u \in Both(t, num) : u.offset \subseteq 0 .. num - 1
<1>1. ASSUME NEW v, v.offset \subseteq 0 .. num - 1, NEW u \in read_offset_tree(v, num)
      PROVE  u.offset \subseteq 0 .. num - 1
  <2>1. \/ u = v
        \/ \E single \in 0 .. num - 1 : u = State(v.need, v.code, {single})
        \/ u = State(v.need, v.code, v.offset \cup 0 .. num - 1)
    BY <1>1, Zenon DEF read_offset_tree
  <2>2. \/ u = v
        \/ \E single \in 0 .. num - 1 : u.offset = {single}
        \/ u.offset = v.offset \cup 0 .. num - 1
    BY <2>1 DEF State
  <2>3. QED
    BY <1>1, <2>2, Zenon
<1>2. ASSUME NEW v \in read_code_tree(t) PROVE v.offset = t.offset
  <2>1. \/ v = t
        \/ \E need, code : v = State(need, code, t.offset)
    BY <1>2, Zenon DEF read_code_tree
  <2>2. QED
    BY <2>1 DEF State
<1>3. QED
  BY <1>1, <1>2, Zenon DEF Both

(* rebuild_tree: when the output has come as far as the schedule says, the *)
(* next stage begins.                                                      *)
LEMMA RebuiltOnTime ==
  ASSUME RingInv, ScheduleInv, method = "-pm2-", method' = method, rebuild_tree,
         Len(out') - Ring = Due
  PROVE  ScheduleInv' /\ tree_state' # "UNBUILT"
<1> DEFINE made == Len(out) - Ring
           done == Len(out') - Ring
<1>1. made \in Int /\ KIB \in Nat \ {0} /\ FIRST_OFFSETS \in Nat \ {0}
  <2>1. Ring \in Nat /\ Len(out) \in Nat
    BY RingPositive DEF RingInv, RingType
  <2>2. FIRST_OFFSETS \in Nat /\ FIRST_OFFSETS > 0
    BY Pm2Assumption
  <2>3. QED
    BY <2>1, <2>2, OffsetsDouble
<1>2. Due = made + tree_rebuild_remaining /\ Due' = done + tree_rebuild_remaining'
      /\ Produced = made
  BY DEF Due, Produced, Ring
<1> HIDE DEF made, done
<1>3. Trees.offset = offset_tree
  BY DEF Trees, State
<1>4. ASSUME NEW num \in Nat, offset_tree \subseteq 0 .. num - 1, NEW trees, NEW stage, NEW interval,
             trees \in {read_offset_tree(Trees, num), Both(Trees, num),
                        Both(Trees, num) \cup read_offset_tree(Trees, num),
                        {Trees} \cup Both(Trees, num)},
             Rebuilt(trees, stage, interval)
      PROVE  /\ offset_tree' \subseteq 0 .. num - 1
             /\ tree_state' = stage /\ tree_rebuild_remaining' = interval
  <2>1. PICK t : t = Trees
    BY SMTT(30)
  <2>2. \A u \in trees : u.offset \subseteq 0 .. num - 1
    BY <1>3, <1>4, <2>1, OffsetsRead, Zenon
  <2>3. QED
    BY <1>4, <2>2 DEF Rebuilt
<1>5. CASE tree_state = "UNBUILT"
  <2>1. Rebuilt(Both(Trees, FIRST_OFFSETS), "BUILD1", KIB)
    BY <1>5 DEF rebuild_tree
  <2>2. offset_tree \subseteq 0 .. FIRST_OFFSETS - 1 /\ Due = 0
    BY <1>1, <1>2, <1>5 DEF ScheduleInv, OffsetCodes
  <2>3. /\ offset_tree' \subseteq 0 .. FIRST_OFFSETS - 1
        /\ tree_state' = "BUILD1" /\ tree_rebuild_remaining' = KIB
    BY <1>1, <1>4, <2>1, <2>2
  <2>4. Due' = KIB
    BY <1>1, <1>2, <2>2, <2>3 DEF done
  <2>5. QED
    BY <1>1, <2>3, <2>4 DEF ScheduleInv, OffsetCodes
<1>6. CASE tree_state = "BUILD1"
  <2>1. Rebuilt(read_offset_tree(Trees, FIRST_OFFSETS + 1), "BUILD2", KIB)
    BY <1>6 DEF rebuild_tree
  <2>2. offset_tree \subseteq 0 .. FIRST_OFFSETS + 1 - 1 /\ Due = KIB
    BY <1>1, <1>6 DEF ScheduleInv, OffsetCodes
  <2>3. /\ offset_tree' \subseteq 0 .. FIRST_OFFSETS + 1 - 1
        /\ tree_state' = "BUILD2" /\ tree_rebuild_remaining' = KIB
    BY <1>1, <1>4, <2>1, <2>2
  <2>4. Due' = 2 * KIB
    BY <1>1, <1>2, <2>2, <2>3 DEF done
  <2>5. FIRST_OFFSETS + 1 \in Nat
    BY <1>1
  <2>6. QED
    BY <1>1, <2>3, <2>4, <2>5 DEF ScheduleInv, OffsetCodes
<1>7. CASE tree_state = "BUILD2"
  <2>1. Rebuilt(read_offset_tree(Trees, FIRST_OFFSETS + 2), "BUILD3", 2 * KIB)
    BY <1>7 DEF rebuild_tree
  <2>2. offset_tree \subseteq 0 .. FIRST_OFFSETS + 2 - 1 /\ Due = 2 * KIB
    BY <1>1, <1>7 DEF ScheduleInv, OffsetCodes
  <2>3. /\ offset_tree' \subseteq 0 .. FIRST_OFFSETS + 2 - 1
        /\ tree_state' = "BUILD3" /\ tree_rebuild_remaining' = 2 * KIB
    BY <1>1, <1>4, <2>1, <2>2
  <2>4. Due' = 4 * KIB
    BY <1>1, <1>2, <2>2, <2>3 DEF done
  <2>5. tree_rebuild_remaining' \in Nat \ {0}
    BY <1>1, <2>3
  <2>6. QED
    BY <1>1, <2>3, <2>4, <2>5 DEF ScheduleInv, OffsetCodes
<1>8. CASE tree_state = "BUILD3"
  <2>1. Rebuilt(Both(Trees, FIRST_OFFSETS + 3)
                      \cup read_offset_tree(Trees, FIRST_OFFSETS + 3), "CONTINUING", 4 * KIB)
    BY <1>8 DEF rebuild_tree
  <2>2. offset_tree \subseteq 0 .. FIRST_OFFSETS + 3 - 1 /\ Due = 4 * KIB
    BY <1>1, <1>8 DEF ScheduleInv, OffsetCodes
  <2>3. /\ offset_tree' \subseteq 0 .. FIRST_OFFSETS + 3 - 1
        /\ tree_state' = "CONTINUING" /\ tree_rebuild_remaining' = 4 * KIB
    BY <1>1, <1>4, <2>1, <2>2
  <2>4. Due' = 8 * KIB
    BY <1>1, <1>2, <2>2, <2>3 DEF done
  <2>5. Due' % (4 * KIB) = 0
    <3>1. PICK m \in Nat \ {0} : m = 4 * KIB
      BY <1>1
    <3>2. PICK a \in Int, q \in Int, zero \in 0 .. m - 1 :
            a = 8 * KIB /\ zero = 0 /\ a = m * q + zero
      <4>1. 8 * KIB = m * 2 + 0 /\ 0 \in 0 .. m - 1 /\ 8 * KIB \in Int
        BY <1>1, <3>1
      <4>2. QED
        BY <4>1
    <3>3. a % m = zero
      BY ONLY <3>2, ModUnique, m \in Nat \ {0}, a \in Int, q \in Int, zero \in 0 .. m - 1, Zenon
    <3>4. QED
      BY <2>4, <3>1, <3>2, <3>3
  <2>6. tree_rebuild_remaining' \in Nat \ {0} /\ Due' >= 8 * KIB
    BY <1>1, <2>3, <2>4
  <2>7. QED
    BY <1>1, <2>3, <2>5, <2>6 DEF ScheduleInv, OffsetCodes
<1>9. CASE tree_state = "CONTINUING"
  <2>1. Rebuilt({Trees} \cup Both(Trees, FIRST_OFFSETS + 3), "CONTINUING", 4 * KIB)
    BY <1>9 DEF rebuild_tree
  <2>2. /\ offset_tree \subseteq 0 .. FIRST_OFFSETS + 3 - 1
        /\ Due >= 8 * KIB /\ Due % (4 * KIB) = 0
    BY <1>1, <1>9 DEF ScheduleInv, OffsetCodes
  <2>3. /\ offset_tree' \subseteq 0 .. FIRST_OFFSETS + 3 - 1
        /\ tree_state' = "CONTINUING" /\ tree_rebuild_remaining' = 4 * KIB
    BY <1>1, <1>4, <2>1, <2>2
  <2>4. PICK due \in Int : due = Due
    BY <1>1, <1>2, <1>9 DEF ScheduleInv
  <2>5. Due' = due + 4 * KIB
    BY <1>2, <2>3, <2>4 DEF done
  <2>6. Due' % (4 * KIB) = 0
    <3>1. PICK m \in Nat \ {0} : m = 4 * KIB
      BY <1>1
    <3>2. (due + m) % m = due % m
      BY <2>4, ModTurn, Zenon
    <3>3. QED
      BY <2>2, <2>4, <2>5, <3>1, <3>2
  <2>7. tree_rebuild_remaining' \in Nat \ {0} /\ Due' >= 8 * KIB
    BY <1>1, <2>2, <2>3, <2>4, <2>5
  <2>8. QED
    BY <1>1, <2>3, <2>6, <2>7 DEF ScheduleInv, OffsetCodes
<1>10. QED
  BY <1>5, <1>6, <1>7, <1>8, <1>9 DEF rebuild_tree

(* A step that leaves the output and the trees alone. *)
LEMMA ScheduleKept ==
  ASSUME ScheduleInv, UNCHANGED <<method, out, pm2TreeVars>>, tree_state = "UNBUILT" => pc' = pc
  PROVE  ScheduleInv'
<1>1. Due' = Due /\ Produced' = Produced
  BY DEF Due, Produced, Ring, pm2TreeVars
<1>2. OffsetCodes' = OffsetCodes
  BY DEF OffsetCodes, pm2TreeVars
<1>3. QED
  BY <1>1, <1>2 DEF ScheduleInv, pm2TreeVars

(* output_byte: a byte is output and counted. *)
LEMMA ByteScheduled ==
  ASSUME RingInv, ScheduleInv, method = "-pm2-", method' = method, tree_state # "UNBUILT",
         NEW b, out' = Append(out, b), CountDown
  PROVE  ScheduleInv' /\ tree_state' # "UNBUILT"
<1>1. Ring \in Nat /\ Len(out) \in Nat /\ Len(out') = Len(out) + 1 /\ Ring' = Ring
  <2>1. out \in Seq(Byte) /\ Ring \in Nat
    BY RingPositive DEF RingInv, RingType
  <2>2. QED
    BY <2>1 DEF Ring
<1>2. tree_rebuild_remaining \in Nat \ {0}
  BY DEF ScheduleInv
<1>3. /\ Due = Len(out) - Ring + tree_rebuild_remaining
      /\ Due' = Len(out') - Ring + tree_rebuild_remaining'
  BY <1>1 DEF Due, Produced, Ring
<1>4. CASE tree_rebuild_remaining = 1
  <2>1. rebuild_tree
    BY <1>4 DEF CountDown
  <2>2. Len(out') - Ring = Due
    BY <1>1, <1>3, <1>4
  <2>3. QED
    BY <2>1, <2>2, RebuiltOnTime
<1>5. CASE tree_rebuild_remaining # 1
  <2>1. /\ tree_rebuild_remaining' = tree_rebuild_remaining - 1
        /\ UNCHANGED <<tree_state, need_offset_tree, code_tree, offset_tree>>
    BY <1>5 DEF CountDown
  <2>2. tree_rebuild_remaining' \in Nat \ {0} /\ Due' = Due
    BY <1>1, <1>2, <1>3, <1>5, <2>1
  <2>3. OffsetCodes' = OffsetCodes
    BY <2>1 DEF OffsetCodes
  <2>4. QED
    BY <2>1, <2>2, <2>3 DEF ScheduleInv
<1>6. QED
  BY <1>4, <1>5

(* Pm2: its steps. *)
LEMMA Pm2Schedule ==
  ASSUME RingInv, ScheduleInv, Pm2Decodes
  PROVE  ScheduleInv'
<1> USE DEF ringVars, copyVars
<1>1. method = "-pm2-" /\ method' = method
  BY DEF Pm2Decodes, Pm2Next
<1>2. pc # "idle" => tree_state # "UNBUILT"
  BY <1>1 DEF ScheduleInv
<1>3. CASE lha_pm2_decoder_read
  <2>1. CASE tree_state = "UNBUILT"
    <3>1. rebuild_tree /\ out' = out
      BY <1>3, <2>1 DEF lha_pm2_decoder_read, Call
    <3>2. Len(out') - Ring = Due
      <4>1. Len(out) - Ring = 0 /\ tree_rebuild_remaining = 0
        BY <1>1, <2>1 DEF ScheduleInv, Produced
      <4>2. QED
        BY <3>1, <4>1 DEF Due, Produced, Ring
    <3>3. QED
      BY <1>1, <3>1, <3>2, RebuiltOnTime
  <2>2. CASE tree_state # "UNBUILT"
    BY <1>1, <1>3, <2>2, ScheduleKept DEF lha_pm2_decoder_read, Call
  <2>3. QED
    BY <2>1, <2>2
<1>4. CASE Pm2Fail \/ pm2_copy_from_history \/ Pm2CopyDone
  <2>1. UNCHANGED <<method, out, pm2TreeVars>> /\ pc # "idle"
    BY <1>1, <1>4 DEF Pm2Fail, pm2_copy_from_history, Pm2CopyDone, BeginCopy, CopyEnd
  <2>2. QED
    BY <1>2, <2>1, ScheduleKept
<1>5. CASE read_single_byte \/ Pm2CopyByte
  <2>1. pc # "idle" /\ CountDown /\ \E b : out' = Append(out, b)
    BY <1>5 DEF read_single_byte, Pm2CopyByte, PutLiteral, CopyTurn, Put
  <2>2. QED
    BY <1>1, <1>2, <2>1, ByteScheduled
<1>6. QED
  BY <1>3, <1>4, <1>5 DEF Pm2Decodes, Pm2Next

(* With the trees of each stage no offset is larger than the output will   *)
(* be at its end.                                                          *)
LEMMA ScheduleHolds ==
  ASSUME RingInv, ScheduleInv, method = "-pm2-"
  PROVE  Pm2OnSchedule
<1>2. CASE tree_state = "UNBUILT"
  BY <1>2 DEF ScheduleInv, Pm2OnSchedule
<1>3. CASE tree_state # "UNBUILT"
  <2>1. tree_rebuild_remaining > 0
    BY <1>3 DEF ScheduleInv
  <2>2. KIB \in Nat \ {0} /\ FIRST_OFFSETS \in Nat /\ MIN_BITS \in Nat /\ FIRST_OFFSETS > 0
    BY OffsetsDouble, Pm2Assumption
  <2>3. PICK x \in 0 .. FIRST_OFFSETS + 2 :
          /\ OffsetCodes = x + 1
          /\ 2^(MIN_BITS + x) \in Int
          /\ 2^(MIN_BITS + x) <= Due
          /\ 2^(MIN_BITS + x) <= 8 * KIB
    <3>1. CASE tree_state = "BUILD1"
      <4>1. PICK x \in 0 .. FIRST_OFFSETS + 2 : x = FIRST_OFFSETS - 1
        BY <2>2
      <4>2. MIN_BITS + x = MIN_BITS + FIRST_OFFSETS - 1 /\ x + 1 = FIRST_OFFSETS
        BY <2>2, <4>1
      <4>3. 2^(MIN_BITS + x) = KIB /\ Due = KIB /\ OffsetCodes = x + 1
        BY <3>1, <4>2, OffsetsDouble DEF ScheduleInv, OffsetCodes
      <4>4. QED
        BY <2>2, <4>3
    <3>2. CASE tree_state = "BUILD2"
      <4>1. PICK x \in 0 .. FIRST_OFFSETS + 2 : x = FIRST_OFFSETS
        BY <2>2
      <4>2. 2^(MIN_BITS + x) = 2 * KIB /\ Due = 2 * KIB /\ OffsetCodes = x + 1
        BY <3>2, <4>1, OffsetsDouble DEF ScheduleInv, OffsetCodes
      <4>3. QED
        BY <2>2, <4>2
    <3>3. CASE tree_state = "BUILD3"
      <4>1. PICK x \in 0 .. FIRST_OFFSETS + 2 : x = FIRST_OFFSETS + 1
        BY <2>2
      <4>2. MIN_BITS + x = MIN_BITS + FIRST_OFFSETS + 1 /\ x + 1 = FIRST_OFFSETS + 2
        BY <2>2, <4>1
      <4>3. 2^(MIN_BITS + x) = 4 * KIB /\ Due = 4 * KIB /\ OffsetCodes = x + 1
        BY <3>3, <4>2, OffsetsDouble DEF ScheduleInv, OffsetCodes
      <4>4. QED
        BY <2>2, <4>3
    <3>4. CASE tree_state = "CONTINUING"
      <4>1. PICK x \in 0 .. FIRST_OFFSETS + 2 : x = FIRST_OFFSETS + 2
        BY <2>2
      <4>2. MIN_BITS + x = MIN_BITS + FIRST_OFFSETS + 2 /\ x + 1 = FIRST_OFFSETS + 3
        BY <2>2, <4>1
      <4>3. 2^(MIN_BITS + x) = 8 * KIB /\ Due >= 8 * KIB /\ OffsetCodes = x + 1
        BY <3>4, <4>2, OffsetsDouble DEF ScheduleInv, OffsetCodes
      <4>4. QED
        BY <2>2, <4>3
    <3>5. QED
      BY <1>3, <3>1, <3>2, <3>3, <3>4 DEF ScheduleInv
  <2>4. Ring = 8 * KIB
    BY OffsetsDouble, Pm2Assumption DEF Ring
  <2>5. Due \in Int
    <3>1. Ring \in Int /\ Len(out) \in Int
      BY RingPositive DEF RingInv, RingType
    <3>2. QED
      BY <1>3, <3>1 DEF Due, Produced, ScheduleInv
  <2>6. ASSUME NEW val \in offset_tree, NEW offset \in Offsets(val)
        PROVE  offset < Due /\ offset < Ring
    <3>1. val \in 0 .. x
      BY <2>3 DEF ScheduleInv
    <3>2. offset \in Int /\ offset < 2^(MIN_BITS + x)
      BY <3>1, OffsetsBelow
    <3>3. QED
      BY <2>2, <2>3, <2>4, <2>5, <3>2
  <2>7. QED
    BY <1>3, <2>1, <2>6 DEF ScheduleInv, Pm2OnSchedule
<1>4. QED
  BY <1>2, <1>3
=============================================================================
