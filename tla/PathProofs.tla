----------------------------- MODULE PathProofs -----------------------------
(***************************************************************************)
(* For paths of every length: collapse_path writes only where it has read, *)
(* no empty, "." or ".." component is left, and what comes out is the path *)
(* that entering the components one by one leads to.                       *)
(*                                                                         *)
(* For such a path and every list of filters: matches_filter finds a match *)
(* exactly when there are no filters or one of them fits, however often    *)
(* match_glob has to try a star again.                                     *)
(***************************************************************************)
EXTENDS PathFilter, WellFoundedInduction, TLAPS

(* collapse_path *)

(* The buffer and the pointers. *)
Bounds ==
  /\ given \in Seq(Chars) /\ buf \in Seq(Chars)
  /\ phase \in {"copy", "back", "done"}
  /\ start \in Nat /\ currpath \in Nat /\ r \in Nat /\ w \in Nat
  /\ 1 <= start /\ start <= currpath /\ start <= w /\ w <= r
  /\ phase # "done" => Len(buf) = Length /\ r <= Length + 1
  /\ phase = "back" => w < currpath /\ currpath < r
  /\ phase # "back" => currpath <= w

(* What is still to be read is as it was given. *)
Unread == phase # "done" => \A k \in r..Length : buf[k] = given[k]

(* currpath is where the component being copied starts, and no separator   *)
(* has been copied since.                                                  *)
AtStart ==
  phase # "done" =>
    /\ currpath = start \/ buf[currpath - 1] = "/"
    /\ \A k \in currpath..(w - 1) : buf[k] # "/"

(* Clean, without the bound on the components. *)
CleanTo(s, end) ==
  \A p, q \in Nat : Component(s, p, q, end) => ~Empty(s, p, q) /\ ~DotDot(s, p, q)

PathInv == Bounds /\ Unread /\ AtStart /\ CleanTo(buf, currpath)

-----------------------------------------------------------------------------
(* What is clean up to an end is clean up to an earlier one, ... *)
LEMMA CleanEarlier ==
  ASSUME NEW s, NEW e \in Nat, NEW d \in Nat, d <= e, CleanTo(s, e)
  PROVE  CleanTo(s, d)
  BY DEF CleanTo, Component

(* ... and a write at or after the end changes nothing. *)
LEMMA CleanOfSame ==
  ASSUME NEW s, NEW t, NEW e \in Nat, start \in Nat, 1 <= start, CleanTo(s, e),
         \A k \in 1..(e - 1) : t[k] = s[k]
  PROVE  CleanTo(t, e)
<1> SUFFICES ASSUME NEW p \in Nat, NEW q \in Nat, Component(t, p, q, e)
             PROVE  ~Empty(t, p, q) /\ ~DotDot(t, p, q)
  BY DEF CleanTo
<1>1. 1 <= p /\ p <= q /\ q < e
  BY DEF Component
<1>2. t[q] = s[q] /\ (p > start => t[p - 1] = s[p - 1])
        /\ \A k \in p..(q - 1) : t[k] = s[k]
  BY <1>1
<1>3. Component(s, p, q, e)
  BY <1>1, <1>2 DEF Component
<1>4. ~Empty(s, p, q) /\ ~DotDot(s, p, q)
  BY <1>3 DEF CleanTo
<1> QED
  BY <1>1, <1>2, <1>4 DEF Empty, DotDot

(* A component that is neither empty, "." nor ".." can be added. *)
LEMMA CleanLonger ==
  ASSUME NEW s, NEW c \in Nat, NEW q \in Nat, c <= q,
         start \in Nat, start <= c,
         CleanTo(s, c), s[q] = "/",
         c = start \/ s[c - 1] = "/",
         \A k \in c..(q - 1) : s[k] # "/",
         ~Empty(s, c, q), ~DotDot(s, c, q)
  PROVE  CleanTo(s, q + 1)
<1> SUFFICES ASSUME NEW p \in Nat, NEW e \in Nat, Component(s, p, e, q + 1)
             PROVE  ~Empty(s, p, e) /\ ~DotDot(s, p, e)
  BY DEF CleanTo
<1>1. CASE e < c
  <2>1. Component(s, p, e, c)
    BY <1>1 DEF Component
  <2> QED
    BY <2>1 DEF CleanTo
<1>2. CASE e >= c
  <2>1. e = q
    BY <1>2 DEF Component
  <2>2. ~(p < c)
    <3> SUFFICES ASSUME p < c
                 PROVE  FALSE
      OBVIOUS
    <3>1. c # start /\ c - 1 \in p..(e - 1)
      BY <1>2 DEF Component
    <3> QED
      BY <3>1 DEF Component
  <2>3. ~(p > c)
    <3> SUFFICES ASSUME p > c
                 PROVE  FALSE
      OBVIOUS
    <3>1. p # start /\ p - 1 \in c..(q - 1)
      BY <2>1 DEF Component
    <3> QED
      BY <3>1 DEF Component
  <2> QED
    BY <2>1, <2>2, <2>3
<1> QED
  BY <1>1, <1>2

(* A turn of the copying loop. *)
LEMMA CopyKeeps ==
  ASSUME PathInv, Copy
  PROVE  PathInv'
<1>0. /\ phase = "copy" /\ r \in 1..Length /\ w \in 1..Length /\ Len(buf) = Length
      /\ Length \in Nat /\ buf \in Seq(Chars) /\ given \in Seq(Chars)
      /\ start \in Nat /\ currpath \in Nat /\ r \in Nat /\ w \in Nat
      /\ 1 <= start /\ start <= currpath /\ currpath <= w /\ w <= r
  BY DEF PathInv, Bounds, Copy, Length
<1> DEFINE t == [buf EXCEPT ![w] = buf[r]]
<1>1. /\ buf' = t /\ r' = r + 1 /\ given' = given /\ start' = start /\ Length' = Length
      /\ IF t[r] = "/" THEN AtSeparator(t, w) ELSE w' = w + 1 /\ UNCHANGED <<currpath, phase>>
  BY DEF Copy, ReadOn, Length
<1>2. /\ t \in Seq(Chars) /\ Len(t) = Length /\ t[w] = buf[r] /\ t[r] = buf[r]
      /\ \A k \in 1..Length : k # w => t[k] = buf[k]
  BY <1>0
<1> HIDE DEF t
<1>3. Unread'
  BY <1>0, <1>1, <1>2 DEF PathInv, Unread
<1>4. CleanTo(t, currpath)
  BY <1>0, <1>2, CleanOfSame DEF PathInv
<1>5. currpath = start \/ t[currpath - 1] = "/"
  BY <1>0, <1>2 DEF PathInv, AtStart
<1>6. \A k \in currpath..(w - 1) : t[k] # "/"
  BY <1>0, <1>2 DEF PathInv, AtStart
<1>7. CASE t[r] # "/"
  <2>1. w' = w + 1 /\ currpath' = currpath /\ phase' = phase
    BY <1>1, <1>7
  <2>2. Bounds'
    BY <1>0, <1>1, <1>2, <2>1 DEF Bounds
  <2>3. AtStart'
    BY <1>0, <1>1, <1>2, <1>5, <1>6, <1>7, <2>1 DEF AtStart
  <2>4. CleanTo(buf, currpath)'
    BY <1>0, <1>1, <1>4, <2>1, SMTT(30) DEF CleanTo, Component, Empty, DotDot
  <2> QED
    BY <1>3, <2>2, <2>3, <2>4 DEF PathInv
<1>8. CASE t[r] = "/"
  <2>0. AtSeparator(t, w) /\ t[w] = "/"
    BY <1>1, <1>2, <1>8
  <2>1. CASE Empty(t, currpath, w) \/ (DotDot(t, currpath, w) /\ currpath = start)
    <3>1. w' = currpath /\ currpath' = currpath /\ phase' = phase
      BY <1>0, <2>0, <2>1 DEF AtSeparator, Empty, DotDot
    <3>2. Bounds'
      BY <1>0, <1>1, <1>2, <3>1 DEF Bounds
    <3>3. AtStart'
      BY <1>0, <1>1, <1>5, <3>1 DEF AtStart
    <3>4. CleanTo(buf, currpath)'
      BY <1>0, <1>1, <1>4, <3>1, ZenonT(30) DEF CleanTo, Component, Empty, DotDot
    <3> QED
      BY <1>3, <3>2, <3>3, <3>4 DEF PathInv
  <2>2. CASE DotDot(t, currpath, w) /\ currpath # start
    <3>1. w' = currpath - 1 /\ currpath' = currpath /\ phase' = "back" /\ w = currpath + 2
      BY <1>0, <2>0, <2>2 DEF AtSeparator, Empty, DotDot
    <3>2. Bounds'
      BY <1>0, <1>1, <1>2, <2>2, <3>1 DEF Bounds
    <3>3. AtStart'
      BY <1>0, <1>1, <1>5, <3>1 DEF AtStart
    <3>4. CleanTo(buf, currpath)'
      BY <1>0, <1>1, <1>4, <3>1, SMTT(30) DEF CleanTo, Component, Empty, DotDot
    <3> QED
      BY <1>3, <3>2, <3>3, <3>4 DEF PathInv
  <2>3. CASE ~Empty(t, currpath, w) /\ ~DotDot(t, currpath, w)
    <3>1. w' = w + 1 /\ currpath' = w + 1 /\ phase' = phase
      BY <2>0, <2>3 DEF AtSeparator
    <3>2. Bounds'
      BY <1>0, <1>1, <1>2, <3>1 DEF Bounds
    <3>3. AtStart'
      BY <1>0, <1>1, <2>0, <3>1 DEF AtStart
    <3>4. CleanTo(t, w + 1)
      BY <1>0, <1>4, <1>5, <1>6, <2>0, <2>3, CleanLonger
    <3>5. CleanTo(buf, currpath)'
      BY <1>0, <1>1, <3>1, <3>4 DEF CleanTo, Component, Empty, DotDot
    <3> QED
      BY <1>3, <3>2, <3>3, <3>5 DEF PathInv
  <2> QED
    BY <2>1, <2>2, <2>3
<1> QED
  BY <1>7, <1>8

(* A turn of the loop that walks back. *)
LEMMA BackKeeps ==
  ASSUME PathInv, WalkBack
  PROVE  PathInv'
<1>0. /\ phase = "back" /\ Length \in Nat /\ w < currpath /\ currpath < r
      /\ start \in Nat /\ currpath \in Nat /\ r \in Nat /\ w \in Nat /\ start <= w
      /\ UNCHANGED <<given, buf, start, r>> /\ Length' = Length
  BY DEF PathInv, Bounds, WalkBack, Length
<1>1. Unread'
  BY <1>0 DEF PathInv, Unread, WalkBack
<1>2. CASE AtParent
  <2>1. currpath' = w /\ phase' = "copy" /\ w' = w
    BY <1>2 DEF WalkBack
  <2>2. Bounds' /\ AtStart'
    BY <1>0, <1>2, <2>1 DEF PathInv, Bounds, AtStart, AtParent
  <2>3. CleanTo(buf, w)
    BY <1>0, CleanEarlier DEF PathInv
  <2>4. CleanTo(buf, currpath)'
    BY <1>0, <2>1, <2>3 DEF CleanTo, Component, Empty, DotDot
  <2> QED
    BY <1>1, <2>2, <2>4 DEF PathInv
<1>3. CASE ~AtParent
  <2>1. w' = w - 1 /\ currpath' = currpath /\ phase' = phase
    BY <1>3 DEF WalkBack
  <2>2. Bounds' /\ AtStart'
    BY <1>0, <1>3, <2>1 DEF PathInv, Bounds, AtStart, AtParent
  <2>3. CleanTo(buf, currpath)'
    BY <1>0, <2>1 DEF PathInv, CleanTo, Component, Empty, DotDot
  <2> QED
    BY <1>1, <2>2, <2>3 DEF PathInv
<1> QED
  BY <1>2, <1>3

(* The end of the path. *)
LEMMA TerminateKeeps ==
  ASSUME PathInv, Terminate
  PROVE  PathInv'
<1>0. /\ phase = "copy" /\ Length \in Nat /\ Len(buf) = Length /\ buf \in Seq(Chars)
      /\ start \in Nat /\ currpath \in Nat /\ r \in Nat /\ w \in Nat
      /\ 1 <= start /\ start <= currpath /\ currpath <= w /\ w <= r /\ r <= Length + 1
      /\ phase' = "done" /\ UNCHANGED <<given, start, currpath, r, w>>
  BY DEF PathInv, Bounds, Terminate, Length
<1> DEFINE t == SubSeq(buf, 1, w - 1)
<1>1. buf' = t
  BY DEF Terminate
<1>2. t \in Seq(Chars) /\ \A k \in 1..(w - 1) : t[k] = buf[k]
  BY <1>0
<1> HIDE DEF t
<1>3. CleanTo(t, currpath)
  BY <1>0, <1>2, CleanOfSame DEF PathInv
<1>4. CleanTo(buf, currpath)'
  BY <1>0, <1>1, <1>3 DEF CleanTo, Component, Empty, DotDot
<1>5. Bounds' /\ Unread' /\ AtStart'
  BY <1>0, <1>1, <1>2 DEF PathInv, Bounds, Unread, AtStart
<1> QED
  BY <1>4, <1>5 DEF PathInv

(* It holds of every path at first, ... *)
LEMMA PathStarts == PathInit => PathInv
<1> SUFFICES ASSUME PathInit
             PROVE  PathInv
  OBVIOUS
<1>1. PICK n \in Nat : given \in [1..n -> Chars]
  BY PathAssumption DEF PathInit, Paths
<1>2. given \in Seq(Chars) /\ Length \in Nat
  BY <1>1 DEF Length
<1>3. start \in {1, 2} /\ start <= Length + 1 /\ currpath = start /\ r = start /\ w = start
         /\ phase = "copy" /\ buf = given
  BY <1>2 DEF PathInit
<1>4. Bounds /\ Unread /\ AtStart
  BY <1>2, <1>3 DEF Bounds, Unread, AtStart, Length
<1>5. CleanTo(buf, currpath)
  BY <1>3 DEF CleanTo, Component
<1> QED
  BY <1>4, <1>5 DEF PathInv

(* ... every step keeps it, ... *)
LEMMA PathSteps == PathInv /\ [PathNext]_pathVars => PathInv'
<1>1. PathInv /\ UNCHANGED pathVars => PathInv'
  BY DEF pathVars, PathInv, Bounds, Unread, AtStart, CleanTo, Component, Empty, DotDot, Length
<1> QED
  BY <1>1, CopyKeeps, BackKeeps, TerminateKeeps, SMTT(30) DEF PathNext

(* ... and so it holds throughout. *)
LEMMA PathInvariant == PathSpec => []PathInv
  BY PathStarts, PathSteps, PTL DEF PathSpec

-----------------------------------------------------------------------------
(* collapse_path writes the path only where it has been read, and what it  *)
(* has still to read is as it was: for paths of every length.              *)
THEOREM CopyIsInPlace == PathSpec => []WritesBehindRead
<1>1. PathInv => WritesBehindRead
  BY DEF PathInv, Bounds, Unread, WritesBehindRead
<1> QED
  BY <1>1, PathInvariant, PTL

(* No empty component, "." or ".." is left in the part of a path that has  *)
(* been collapsed: for paths of every length.                              *)
THEOREM PathIsCleaned == PathSpec => []Clean
<1>1. PathInv => Clean
  BY DEF PathInv, Bounds, CleanTo, Clean, Length
<1> QED
  BY <1>1, PathInvariant, PTL

-----------------------------------------------------------------------------
(* Sequences and induction *)

(* Induction up to a bound, over a set. *)
LEMMA BoundedSetInduction ==
  ASSUME NEW N \in Nat, NEW S, 0 \in S, \A m \in 0 .. N - 1 : m \in S => m + 1 \in S
  PROVE  0 .. N \subseteq S
<1> DEFINE R == OpToRel(<, Nat)
<1> DEFINE T == (0 .. N) \ S
<1>1. IsWellFoundedOn(R, Nat)
  BY NatLessThanWellFounded, Zenon
<1>2. \A y, x \in Nat : y < x => <<y, x>> \in R
  BY DEF OpToRel
<1>3. SUFFICES ASSUME T # {} PROVE FALSE
  OBVIOUS
<1>4. T \subseteq Nat
  OBVIOUS
<1> HIDE DEF R
<1>5. PICK x \in T : \A y \in T : ~ (<<y, x>> \in R)
  BY <1>1, <1>3, <1>4, WFMin, Zenon
<1>6. x \in 1 .. N /\ x - 1 \in 0 .. N - 1 /\ x - 1 + 1 = x
  OBVIOUS
<1>7. x \in Nat /\ x - 1 \in Nat /\ x - 1 < x
  BY <1>6
<1>8. x - 1 \in S
  <2>1. <<x - 1, x>> \in R
    BY <1>2, <1>7, Zenon
  <2>2. x - 1 \notin T
    BY <1>5, <2>1, Zenon
  <2>3. QED
    BY <1>6, <2>2
<1>9. QED
  BY <1>5, <1>6, <1>8

(* A sequence without its last element, ... *)
LEMMA WithoutLast ==
  ASSUME NEW T, NEW c \in Seq(T), c # <<>>
  PROVE  /\ Len(c) \in Nat \ {0} /\ SubSeq(c, 1, Len(c) - 1) \in Seq(T)
         /\ Len(SubSeq(c, 1, Len(c) - 1)) = Len(c) - 1
         /\ \A k \in 1 .. Len(c) - 1 : SubSeq(c, 1, Len(c) - 1)[k] = c[k]
<1>1. Len(c) \in Nat \ {0}
  OBVIOUS
<1>2. PICK n \in Nat : n = Len(c) - 1
  BY <1>1
<1>3. /\ SubSeq(c, 1, n) \in Seq(T) /\ Len(SubSeq(c, 1, n)) = n
      /\ \A k \in 1 .. n : SubSeq(c, 1, n)[k] = c[k]
  BY <1>1, <1>2
<1>4. QED
  BY <1>1, <1>2, <1>3, Zenon

(* ... and with another one after it. *)
LEMMA AtTheEnd ==
  ASSUME NEW T, NEW c \in Seq(T), NEW x \in T
  PROVE  /\ Append(c, x) \in Seq(T) /\ Append(c, x) # <<>>
         /\ Len(Append(c, x)) = Len(c) + 1 /\ Len(c) \in Nat
         /\ Append(c, x)[Len(c) + 1] = x
         /\ \A k \in 1 .. Len(c) : Append(c, x)[k] = c[k]
  OBVIOUS

-----------------------------------------------------------------------------
(* What recursive definitions compute *)

(* What is kept, character by character. *)
IsKept(s, n, g) == g = [k \in 0 .. n |-> IF k = 0 THEN <<>> ELSE EnterAt(s, k, g[k - 1])]

(* The turns of Kept exist for every length, ... *)
LEMMA KeptExists ==
  ASSUME NEW s, NEW n \in Nat
  PROVE  \E g : IsKept(s, n, g)
<1> DEFINE S == {m \in 0 .. n : \E g : IsKept(s, m, g)}
<1>1. 0 \in S
  <2>1. IsKept(s, 0, [k \in 0 .. 0 |-> <<>>])
    BY DEF IsKept
  <2>2. QED
    BY <2>1
<1>2. ASSUME NEW m \in 0 .. n - 1, m \in S PROVE m + 1 \in S
  <2>1. PICK g : IsKept(s, m, g)
    BY <1>2
  <2>2. \A k \in 0 .. m : g[k] = IF k = 0 THEN <<>> ELSE EnterAt(s, k, g[k - 1])
    BY <2>1 DEF IsKept
  <2> DEFINE h == [k \in 0 .. m + 1 |-> IF k = m + 1 THEN EnterAt(s, m + 1, g[m]) ELSE g[k]]
  <2>3. \A k \in 0 .. m + 1 : h[k] = IF k = 0 THEN <<>> ELSE EnterAt(s, k, h[k - 1])
    <3>1. ASSUME NEW k \in 0 .. m
          PROVE  h[k] = IF k = 0 THEN <<>> ELSE EnterAt(s, k, h[k - 1])
      <4>1. h[k] = g[k]
        OBVIOUS
      <4>2. k # 0 => h[k - 1] = g[k - 1]
        OBVIOUS
      <4> HIDE DEF h
      <4>3. QED
        BY <2>2, <4>1, <4>2, Zenon
    <3>2. h[m + 1] = EnterAt(s, m + 1, h[m]) /\ m + 1 # 0 /\ m + 1 - 1 = m
      OBVIOUS
    <3>3. \A k \in 0 .. m + 1 : k \in 0 .. m \/ k = m + 1
      OBVIOUS
    <3> HIDE DEF h
    <3>4. ASSUME NEW k, k = m + 1
          PROVE  h[k] = IF k = 0 THEN <<>> ELSE EnterAt(s, k, h[k - 1])
      BY <3>2, <3>4
    <3>5. QED
      BY <3>1, <3>3, <3>4, Zenon
  <2>4. h = [k \in 0 .. m + 1 |-> h[k]]
    OBVIOUS
  <2> HIDE DEF h
  <2>5. IsKept(s, m + 1, h)
    BY <2>3, <2>4, Zenon DEF IsKept
  <2>6. m + 1 \in 0 .. n
    OBVIOUS
  <2>7. QED
    BY <2>5, <2>6
<1> HIDE DEF S
<1>3. 0 .. n \subseteq S
  BY <1>1, <1>2, BoundedSetInduction
<1>4. QED
  BY <1>3 DEF S

(* ... are the same however many follow, ... *)
LEMMA KeptUnique ==
  ASSUME NEW s, NEW n \in Nat, NEW more \in Nat, n <= more,
         NEW g, IsKept(s, n, g), NEW h, IsKept(s, more, h)
  PROVE  g[n] = h[n]
<1>1. \A k \in 0 .. n : g[k] = IF k = 0 THEN <<>> ELSE EnterAt(s, k, g[k - 1])
  BY DEF IsKept
<1>2. \A k \in 0 .. n : h[k] = IF k = 0 THEN <<>> ELSE EnterAt(s, k, h[k - 1])
  <2>1. \A k \in 0 .. more : h[k] = IF k = 0 THEN <<>> ELSE EnterAt(s, k, h[k - 1])
    BY DEF IsKept
  <2>2. QED
    BY <2>1
<1> DEFINE S == {k \in 0 .. n : g[k] = h[k]}
<1>3. 0 \in S
  BY <1>1, <1>2
<1>4. ASSUME NEW k \in 0 .. n - 1, k \in S PROVE k + 1 \in S
  <2>1. k + 1 \in 0 .. n /\ k + 1 # 0 /\ k + 1 - 1 = k
    OBVIOUS
  <2>2. g[k + 1] = EnterAt(s, k + 1, g[k]) /\ h[k + 1] = EnterAt(s, k + 1, h[k])
    BY <1>1, <1>2, <2>1
  <2>3. QED
    BY <1>4, <2>1, <2>2, Zenon
<1> HIDE DEF S
<1>5. 0 .. n \subseteq S
  BY <1>3, <1>4, BoundedSetInduction
<1>6. QED
  BY <1>5 DEF S

(* ... and Kept is the last of them. *)
LEMMA KeptStep ==
  ASSUME NEW s, NEW n \in Nat
  PROVE  /\ Kept(s, 0) = <<>>
         /\ Kept(s, n + 1) = EnterAt(s, n + 1, Kept(s, n))
<1>1. ASSUME NEW m \in Nat PROVE \E g : IsKept(s, m, g) /\ Kept(s, m) = g[m]
  <2>1. PICK h : IsKept(s, m, h) /\ Kept(s, m) = h[m]
    BY KeptExists, Zenon DEF Kept, IsKept
  <2>2. QED
    BY <2>1, Zenon
<1>2. Kept(s, 0) = <<>>
  <2>1. PICK g : IsKept(s, 0, g) /\ Kept(s, 0) = g[0]
    BY <1>1
  <2>2. QED
    BY <2>1 DEF IsKept
<1>3. PICK g : IsKept(s, n, g) /\ Kept(s, n) = g[n]
  BY <1>1
<1>4. PICK h : IsKept(s, n + 1, h) /\ Kept(s, n + 1) = h[n + 1]
  BY <1>1
<1>5. g[n] = h[n]
  BY <1>3, <1>4, KeptUnique
<1>6. n + 1 \in 0 .. n + 1 /\ n + 1 # 0 /\ n + 1 - 1 = n
  OBVIOUS
<1>7. h[n + 1] = EnterAt(s, n + 1, h[n])
  <2>1. \A k \in 0 .. n + 1 : h[k] = IF k = 0 THEN <<>> ELSE EnterAt(s, k, h[k - 1])
    BY <1>4 DEF IsKept
  <2>2. QED
    BY <1>6, <2>1
<1>8. QED
  BY <1>2, <1>3, <1>4, <1>5, <1>7, Zenon

(* The next component, after the text of those before it. *)
JoinedTurn(cs, k, text) == text \o cs[k] \o <<"/">>

IsJoined(cs, n, g) == g = [k \in 0 .. n |-> IF k = 0 THEN <<>> ELSE JoinedTurn(cs, k, g[k - 1])]

(* The turns of Joined exist for every length, ... *)
LEMMA JoinedExists ==
  ASSUME NEW cs, NEW n \in Nat
  PROVE  \E g : IsJoined(cs, n, g)
<1> DEFINE S == {m \in 0 .. n : \E g : IsJoined(cs, m, g)}
<1>1. 0 \in S
  <2>1. IsJoined(cs, 0, [k \in 0 .. 0 |-> <<>>])
    BY DEF IsJoined
  <2>2. QED
    BY <2>1
<1>2. ASSUME NEW m \in 0 .. n - 1, m \in S PROVE m + 1 \in S
  <2>1. PICK g : IsJoined(cs, m, g)
    BY <1>2
  <2>2. \A k \in 0 .. m : g[k] = IF k = 0 THEN <<>> ELSE JoinedTurn(cs, k, g[k - 1])
    BY <2>1 DEF IsJoined
  <2> DEFINE h == [k \in 0 .. m + 1 |-> IF k = m + 1 THEN JoinedTurn(cs, m + 1, g[m]) ELSE g[k]]
  <2>3. \A k \in 0 .. m + 1 : h[k] = IF k = 0 THEN <<>> ELSE JoinedTurn(cs, k, h[k - 1])
    <3>1. ASSUME NEW k \in 0 .. m
          PROVE  h[k] = IF k = 0 THEN <<>> ELSE JoinedTurn(cs, k, h[k - 1])
      <4>1. h[k] = g[k]
        OBVIOUS
      <4>2. k # 0 => h[k - 1] = g[k - 1]
        OBVIOUS
      <4> HIDE DEF h
      <4>3. QED
        BY <2>2, <4>1, <4>2, Zenon
    <3>2. h[m + 1] = JoinedTurn(cs, m + 1, h[m]) /\ m + 1 # 0 /\ m + 1 - 1 = m
      OBVIOUS
    <3>3. \A k \in 0 .. m + 1 : k \in 0 .. m \/ k = m + 1
      OBVIOUS
    <3> HIDE DEF h
    <3>4. ASSUME NEW k, k = m + 1
          PROVE  h[k] = IF k = 0 THEN <<>> ELSE JoinedTurn(cs, k, h[k - 1])
      BY <3>2, <3>4
    <3>5. QED
      BY <3>1, <3>3, <3>4, Zenon
  <2>4. h = [k \in 0 .. m + 1 |-> h[k]]
    OBVIOUS
  <2> HIDE DEF h
  <2>5. IsJoined(cs, m + 1, h)
    BY <2>3, <2>4, Zenon DEF IsJoined
  <2>6. m + 1 \in 0 .. n
    OBVIOUS
  <2>7. QED
    BY <2>5, <2>6
<1> HIDE DEF S
<1>3. 0 .. n \subseteq S
  BY <1>1, <1>2, BoundedSetInduction
<1>4. QED
  BY <1>3 DEF S

(* ... are the same however many follow, ... *)
LEMMA JoinedUnique ==
  ASSUME NEW cs, NEW n \in Nat, NEW more \in Nat, n <= more,
         NEW g, IsJoined(cs, n, g), NEW h, IsJoined(cs, more, h)
  PROVE  g[n] = h[n]
<1>1. \A k \in 0 .. n : g[k] = IF k = 0 THEN <<>> ELSE JoinedTurn(cs, k, g[k - 1])
  BY DEF IsJoined
<1>2. \A k \in 0 .. n : h[k] = IF k = 0 THEN <<>> ELSE JoinedTurn(cs, k, h[k - 1])
  <2>1. \A k \in 0 .. more : h[k] = IF k = 0 THEN <<>> ELSE JoinedTurn(cs, k, h[k - 1])
    BY DEF IsJoined
  <2>2. QED
    BY <2>1
<1> DEFINE S == {k \in 0 .. n : g[k] = h[k]}
<1>3. 0 \in S
  BY <1>1, <1>2
<1>4. ASSUME NEW k \in 0 .. n - 1, k \in S PROVE k + 1 \in S
  <2>1. k + 1 \in 0 .. n /\ k + 1 # 0 /\ k + 1 - 1 = k
    OBVIOUS
  <2>2. g[k + 1] = JoinedTurn(cs, k + 1, g[k]) /\ h[k + 1] = JoinedTurn(cs, k + 1, h[k])
    BY <1>1, <1>2, <2>1
  <2>3. QED
    BY <1>4, <2>1, <2>2, Zenon
<1> HIDE DEF S
<1>5. 0 .. n \subseteq S
  BY <1>3, <1>4, BoundedSetInduction
<1>6. QED
  BY <1>5 DEF S

(* ... and Joined is the last of them. *)
LEMMA JoinedStep ==
  ASSUME NEW cs, NEW n \in Nat
  PROVE  /\ Joined(cs, 0) = <<>>
         /\ Joined(cs, n + 1) = JoinedTurn(cs, n + 1, Joined(cs, n))
<1>1. ASSUME NEW m \in Nat PROVE \E g : IsJoined(cs, m, g) /\ Joined(cs, m) = g[m]
  <2>1. PICK h : IsJoined(cs, m, h) /\ Joined(cs, m) = h[m]
    BY JoinedExists, Zenon DEF Joined, IsJoined, JoinedTurn
  <2>2. QED
    BY <2>1, Zenon
<1>2. Joined(cs, 0) = <<>>
  <2>1. PICK g : IsJoined(cs, 0, g) /\ Joined(cs, 0) = g[0]
    BY <1>1
  <2>2. QED
    BY <2>1 DEF IsJoined
<1>3. PICK g : IsJoined(cs, n, g) /\ Joined(cs, n) = g[n]
  BY <1>1
<1>4. PICK h : IsJoined(cs, n + 1, h) /\ Joined(cs, n + 1) = h[n + 1]
  BY <1>1
<1>5. g[n] = h[n]
  BY <1>3, <1>4, JoinedUnique
<1>6. n + 1 \in 0 .. n + 1 /\ n + 1 # 0 /\ n + 1 - 1 = n
  OBVIOUS
<1>7. h[n + 1] = JoinedTurn(cs, n + 1, h[n])
  <2>1. \A k \in 0 .. n + 1 : h[k] = IF k = 0 THEN <<>> ELSE JoinedTurn(cs, k, h[k - 1])
    BY <1>4 DEF IsJoined
  <2>2. QED
    BY <1>6, <2>1
<1>8. QED
  BY <1>2, <1>3, <1>4, <1>5, <1>7, Zenon

(* A text, a component and a separator. *)
LEMMA Separated ==
  ASSUME NEW T, "/" \in T, NEW x \in Seq(T), NEW c \in Seq(T), NEW y, y = x \o c \o <<"/">>
  PROVE  /\ y \in Seq(T) /\ Len(y) = Len(x) + Len(c) + 1 /\ y[Len(y)] = "/"
         /\ \A k \in 1 .. Len(x) : y[k] = x[k]
         /\ \A k \in 1 .. Len(c) : y[Len(x) + k] = c[k]
<1>1. PICK n \in Nat, m \in Nat : n = Len(x) /\ m = Len(c)
  OBVIOUS
<1> DEFINE z == x \o c
<1>2. /\ z \in Seq(T) /\ Len(z) = n + m
      /\ \A k \in 1 .. n : z[k] = x[k]
      /\ \A k \in 1 .. m : z[n + k] = c[k]
  BY <1>1
<1>3. y = z \o <<"/">>
  OBVIOUS
<1> HIDE DEF z
<1>a. PICK q \in Nat : q = n + m
  OBVIOUS
<1>b. y = Append(z, "/")
  BY <1>2, <1>3
<1>c. /\ y \in Seq(T) /\ Len(y) = q + 1 /\ y[q + 1] = "/"
      /\ \A k \in 1 .. q : y[k] = z[k]
  <2>1. z \in Seq(T) /\ "/" \in T /\ Len(z) = q
    BY <1>2, <1>a
  <2>2. PICK x1 : x1 = "/" /\ x1 \in T
    BY <2>1, Zenon
  <2>3. y = Append(z, x1)
    BY <1>b, <2>2, Zenon
  <2>4. /\ Append(z, x1) \in Seq(T) /\ Len(Append(z, x1)) = Len(z) + 1
        /\ Append(z, x1)[Len(z) + 1] = x1
        /\ \A k \in 1 .. Len(z) : Append(z, x1)[k] = z[k]
    BY ONLY <2>1, <2>2, AtTheEnd
  <2>5. QED
    BY <2>1, <2>2, <2>3, <2>4, Zenon
<1>4. /\ y \in Seq(T) /\ Len(y) = n + m + 1 /\ y[n + m + 1] = "/"
      /\ \A k \in 1 .. n + m : y[k] = z[k]
  BY <1>a, <1>c, Zenon
<1>5. \A k \in 1 .. m : n + k \in 1 .. n + m
  OBVIOUS
<1>6. \A k \in 1 .. n : k \in 1 .. n + m
  OBVIOUS
<1>7. QED
  BY <1>1, <1>2, <1>4, <1>5, <1>6, Zenon

(* The text of the first components depends on nothing else. *)
LEMMA JoinedSame ==
  ASSUME NEW cs, NEW ds, NEW n \in Nat, \A k \in 1 .. n : cs[k] = ds[k]
  PROVE  Joined(cs, n) = Joined(ds, n)
<1> DEFINE S == {k \in 0 .. n : Joined(cs, k) = Joined(ds, k)}
<1>1. 0 \in S
  BY JoinedStep
<1>2. ASSUME NEW k \in 0 .. n - 1, k \in S PROVE k + 1 \in S
  <2>1. k \in Nat /\ k + 1 \in 1 .. n /\ k + 1 \in 0 .. n
    OBVIOUS
  <2>2. /\ Joined(cs, k + 1) = JoinedTurn(cs, k + 1, Joined(cs, k))
        /\ Joined(ds, k + 1) = JoinedTurn(ds, k + 1, Joined(ds, k))
    BY <2>1, JoinedStep, Zenon
  <2>3. Joined(cs, k + 1) = Joined(ds, k + 1)
    BY <1>2, <2>1, <2>2, Zenon DEF JoinedTurn
  <2>4. QED
    BY <2>1, <2>3
<1> HIDE DEF S
<1>3. 0 .. n \subseteq S
  BY <1>1, <1>2, BoundedSetInduction
<1>4. QED
  BY <1>3 DEF S

(* It is a text. *)
LEMMA JoinedType ==
  ASSUME NEW T, "/" \in T, NEW cs, NEW n \in Nat, \A k \in 1 .. n : cs[k] \in Seq(T)
  PROVE  Joined(cs, n) \in Seq(T)
<1> DEFINE S == {k \in 0 .. n : Joined(cs, k) \in Seq(T)}
<1>1. 0 \in S
  <2>1. Joined(cs, 0) = <<>>
    BY JoinedStep
  <2>2. <<>> \in Seq(T) /\ 0 \in 0 .. n
    OBVIOUS
  <2>3. QED
    BY <2>1, <2>2, Zenon
<1>2. ASSUME NEW k \in 0 .. n - 1, k \in S PROVE k + 1 \in S
  <2>1. k \in Nat /\ k + 1 \in 1 .. n /\ k + 1 \in 0 .. n
    OBVIOUS
  <2>2. Joined(cs, k + 1) = Joined(cs, k) \o cs[k + 1] \o <<"/">>
    BY <2>1, JoinedStep, Zenon DEF JoinedTurn
  <2>3. Joined(cs, k) \in Seq(T) /\ cs[k + 1] \in Seq(T)
    BY <1>2, <2>1
  <2>4. Joined(cs, k + 1) \in Seq(T)
    BY <2>2, <2>3, Separated, Zenon
  <2>5. QED
    BY <2>1, <2>4
<1> HIDE DEF S
<1>3. 0 .. n \subseteq S
  BY <1>1, <1>2, BoundedSetInduction, Zenon
<1>4. QED
  BY <1>3 DEF S

-----------------------------------------------------------------------------
(* The component that ends before k begins at p. *)
Opens(s, p, k) == (p = 1 \/ s[p - 1] = "/") /\ \A j \in p .. k - 1 : s[j] # "/"

LEMMA BeginsIs ==
  ASSUME NEW s, NEW k \in Nat, NEW p \in 1 .. k, Opens(s, p, k)
  PROVE  Begins(s, k) = p
<1>1. ASSUME NEW q \in 1 .. k, NEW o \in 1 .. k, Opens(s, q, k), Opens(s, o, k), q < o PROVE FALSE
  <2>1. o # 1 /\ o - 1 \in q .. k - 1
    BY <1>1
  <2>2. QED
    BY <1>1, <2>1, Zenon DEF Opens
<1>2. \A q \in 1 .. k : Opens(s, q, k) => q = p
  <2>1. \A q \in 1 .. k : q < p \/ p < q \/ q = p
    OBVIOUS
  <2>2. QED
    BY <1>1, <2>1, Zenon
<1>3. QED
  BY <1>2, Zenon DEF Begins, Opens

(* The characters of a component. *)
LEMMA ComponentIs ==
  ASSUME NEW s \in Seq(Chars), NEW p \in Nat, NEW k \in Nat, 1 <= p, p <= k, k <= Len(s) + 1,
         NEW c, c = SubSeq(s, p, k - 1)
  PROVE  /\ c \in Seq(Chars) /\ Len(c) = k - p
         /\ \A j \in 1 .. k - p : c[j] = s[p + j - 1]
<1>0. PICK m \in Nat : m = Len(s) /\ k <= m + 1
  OBVIOUS
<1>1. PICK n \in Nat : n = k - 1 /\ m = Len(s) /\ n <= m /\ p <= n + 1 /\ k = n + 1
  <2>1. k - 1 \in Nat /\ k - 1 <= m /\ p <= k - 1 + 1 /\ k = k - 1 + 1
    BY ONLY m \in Nat, k \in Nat, p \in Nat, 1 <= p, p <= k, <1>0
  <2>2. QED
    BY ONLY <1>0, <2>1
<1>2. /\ SubSeq(s, p, n) \in Seq(Chars) /\ Len(SubSeq(s, p, n)) = n - p + 1
      /\ \A j \in 1 .. n - p + 1 : SubSeq(s, p, n)[j] = s[p + j - 1]
  BY <1>1
<1>3. QED
  BY <1>1, <1>2

(* Short components. *)
LEMMA Words ==
  ASSUME NEW c \in Seq(Chars)
  PROVE  /\ c = <<>> <=> Len(c) = 0
         /\ c = <<".">> <=> Len(c) = 1 /\ c[1] = "."
         /\ c = <<".", ".">> <=> Len(c) = 2 /\ c[1] = "." /\ c[2] = "."
<1>1. c = <<>> <=> Len(c) = 0
  OBVIOUS
<1>2. ASSUME Len(c) = 1, c[1] = "." PROVE c = <<".">>
  BY <1>2
<1>3. ASSUME c = <<".">> PROVE Len(c) = 1 /\ c[1] = "."
  BY <1>3
<1>4. ASSUME Len(c) = 2, c[1] = ".", c[2] = "." PROVE c = <<".", ".">>
  BY <1>4
<1>5. ASSUME c = <<".", ".">> PROVE Len(c) = 2 /\ c[1] = "." /\ c[2] = "."
  BY <1>5
<1>6. QED
  BY <1>1, <1>2, <1>3, <1>4, <1>5

(* Components of a path. *)
Whole(K) ==
  /\ K \in Seq(Seq(Chars))
  /\ \A k \in 1 .. Len(K) : \A j \in 1 .. Len(K[k]) : K[k][j] # "/"

(* With another one ... *)
LEMMA WholeMore ==
  ASSUME NEW K, Whole(K), NEW c \in Seq(Chars), \A j \in 1 .. Len(c) : c[j] # "/"
  PROVE  /\ Whole(Append(K, c)) /\ Len(Append(K, c)) = Len(K) + 1 /\ Len(K) \in Nat
         /\ Append(K, c)[Len(K) + 1] = c
         /\ \A k \in 1 .. Len(K) : Append(K, c)[k] = K[k]
<1>1. K \in Seq(Seq(Chars)) /\ c \in Seq(Chars)
  BY DEF Whole
<1>2. PICK A : A = Append(K, c)
  BY Zenon
<1>3. /\ A \in Seq(Seq(Chars)) /\ Len(A) = Len(K) + 1 /\ Len(K) \in Nat /\ A[Len(K) + 1] = c
      /\ \A k \in 1 .. Len(K) : A[k] = K[k]
  BY ONLY <1>1, <1>2, AtTheEnd
<1>4. \A k \in 1 .. Len(A) : k \in 1 .. Len(K) \/ k = Len(K) + 1
  BY <1>3
<1>5. Whole(A)
  BY <1>3, <1>4, Zenon DEF Whole
<1>6. QED
  BY <1>2, <1>3, <1>5, Zenon

(* ... and without the last. *)
LEMMA WholeLess ==
  ASSUME NEW K, Whole(K), K # <<>>
  PROVE  /\ Len(K) \in Nat \ {0} /\ Whole(SubSeq(K, 1, Len(K) - 1))
         /\ Len(SubSeq(K, 1, Len(K) - 1)) = Len(K) - 1
         /\ \A k \in 1 .. Len(K) - 1 : SubSeq(K, 1, Len(K) - 1)[k] = K[k]
<1>1. K \in Seq(Seq(Chars))
  BY DEF Whole
<1>2. PICK F : F = SubSeq(K, 1, Len(K) - 1)
  BY Zenon
<1>3. /\ F \in Seq(Seq(Chars)) /\ Len(F) = Len(K) - 1 /\ Len(K) \in Nat \ {0}
      /\ \A k \in 1 .. Len(K) - 1 : F[k] = K[k]
  BY ONLY <1>1, <1>2, K # <<>>, WithoutLast
<1>4. \A k \in 1 .. Len(F) : k \in 1 .. Len(K) - 1 /\ k \in 1 .. Len(K)
  BY <1>3
<1>5. Whole(F)
  BY <1>3, <1>4, Zenon DEF Whole
<1>6. QED
  BY <1>2, <1>3, <1>5, Zenon

(* Their text. *)
Text(K) == Joined(K, Len(K))
Marks == Chars \cup {"/"}

(* It is a text, ... *)
LEMMA TextIs ==
  ASSUME NEW K, Whole(K)
  PROVE  /\ Text(K) \in Seq(Marks)
         /\ K = <<>> => Text(K) = <<>>
<1>1. K \in Seq(Seq(Chars)) /\ Len(K) \in Nat
  BY DEF Whole
<1>2. Seq(Chars) \subseteq Seq(Marks) /\ "/" \in Marks
  BY DEF Marks
<1>3. \A k \in 1 .. Len(K) : K[k] \in Seq(Marks)
  BY <1>1, <1>2
<1>4. Text(K) \in Seq(Marks)
  BY <1>1, <1>2, <1>3, JoinedType, Zenon DEF Text
<1>5. ASSUME K = <<>> PROVE Text(K) = <<>>
  <2>1. Len(K) = 0
    BY <1>5
  <2>2. QED
    BY <2>1, JoinedStep, Zenon DEF Text
<1>6. QED
  BY <1>4, <1>5, Zenon

(* ... and each component adds itself and a separator. *)
Grown(x, c, y) ==
  /\ Len(x) \in Nat /\ c \in Seq(Chars) /\ \A k \in 1 .. Len(c) : c[k] # "/"
  /\ Len(y) = Len(x) + Len(c) + 1 /\ y[Len(y)] = "/"
  /\ \A k \in 1 .. Len(x) : y[k] = x[k]
  /\ \A k \in 1 .. Len(c) : y[Len(x) + k] = c[k]

LEMMA TextGrows ==
  ASSUME NEW F, Whole(F), NEW K, Whole(K), Len(K) = Len(F) + 1,
         \A k \in 1 .. Len(F) : K[k] = F[k],
         NEW x, x = Text(F), NEW y, y = Text(K), NEW c, c = K[Len(K)]
  PROVE  Grown(x, c, y)
<1>1. PICK n \in Nat : n = Len(F)
  BY DEF Whole
<1>2. n + 1 = Len(K) /\ n + 1 \in 1 .. n + 1 /\ K \in Seq(Seq(Chars))
  BY <1>1 DEF Whole
<1>3. c \in Seq(Chars) /\ c = K[n + 1] /\ \A k \in 1 .. Len(c) : c[k] # "/"
  <2>1. c = K[n + 1]
    BY <1>2, Zenon
  <2>2. K[n + 1] \in Seq(Chars)
    BY <1>2
  <2>3. QED
    BY <1>2, <2>1, <2>2, Zenon DEF Whole
<1>4. Joined(K, n) = Joined(F, n)
  BY <1>1, JoinedSame, Zenon
<1>5. y = x \o c \o <<"/">>
  BY <1>1, <1>2, <1>3, <1>4, JoinedStep, Zenon DEF Text, JoinedTurn
<1>6. c \in Seq(Marks) /\ "/" \in Marks
  BY <1>3 DEF Marks
<1>7. x \in Seq(Marks)
  BY TextIs, Zenon
<1>8. /\ Len(y) = Len(x) + Len(c) + 1 /\ y[Len(y)] = "/"
      /\ \A k \in 1 .. Len(x) : y[k] = x[k]
      /\ \A k \in 1 .. Len(c) : y[Len(x) + k] = c[k]
  BY ONLY <1>5, <1>6, <1>7, Separated
<1>9. Len(x) \in Nat
  BY <1>7
<1>10. QED
  BY <1>3, <1>8, <1>9, Zenon DEF Grown

-----------------------------------------------------------------------------
(* The inductive invariant of collapse_path, for what comes out *)

(* The component being copied begins at p in the path as it was given, and *)
(* at currpath in the buffer.                                              *)
Reading(p) ==
  /\ p \in 1 .. r /\ w - currpath = r - p /\ Opens(given, p, r)
  /\ \A k \in 1 .. r - p : buf[currpath + k - 1] = given[p + k - 1]

(* The buffer begins with the text of what is kept.  Walking back stops    *)
(* where that text ends.                                                   *)
Progress(text) ==
  /\ \A k \in 1 .. start - 1 : buf[k] = given[k]
  /\ \A k \in 1 .. Len(text) : buf[start - 1 + k] = text[k]
  /\ phase = "copy" => currpath = start + Len(text) /\ \E p \in Nat : Reading(p)
  /\ phase = "back" =>
       /\ r > 1 /\ given[r - 1] = "/"
       /\ start + Len(text) <= w
       /\ \A k \in start + Len(text) .. currpath - 2 : buf[k] # "/"
       /\ Len(text) = 0 \/ buf[start - 1 + Len(text)] = "/"

NormalInv ==
  /\ start = IF Length > 0 /\ given[1] = "/" THEN 2 ELSE 1
  /\ phase # "done" => \E K : K = Kept(given, r - 1) /\ Whole(K) /\ Progress(Text(K))
  /\ phase = "done" => buf = Normal(given)

(* A step that reads one character. *)
LEMMA ReadsOn ==
  ASSUME Bounds, NormalInv, r \in 1 .. Length, r' = r + 1, UNCHANGED <<given, start>>,
         phase' # "done", NEW K, K = Kept(given, r), Whole(K),
         NEW J, J = Text(K), Progress(J)'
  PROVE  NormalInv'
<1>1. r' - 1 = r /\ Length' = Length
  BY DEF Bounds, Length
<1>2. K = Kept(given', r' - 1)
  BY <1>1, Zenon
<1>3. Progress(Text(K))'
  BY Zenon DEF Progress, Reading
<1>4. (\E L : L = Kept(given, r - 1) /\ Whole(L) /\ Progress(Text(L)))'
  BY <1>2, <1>3, Zenon
<1>5. (start = IF Length > 0 /\ given[1] = "/" THEN 2 ELSE 1)'
  BY <1>1, Zenon DEF NormalInv
<1>6. QED
  BY <1>4, <1>5, Zenon DEF NormalInv

(* What a turn of the copying loop starts from, and leaves in the buffer. *)
Turn(t, K, J, l, p) ==
  /\ buf' = t /\ t \in Seq(Chars) /\ Len(t) = Length /\ t[w] = given[r]
  /\ IF given[r] = "/" THEN AtSeparator(t, w)
     ELSE w' = w + 1 /\ UNCHANGED <<currpath, phase>>
  /\ Whole(K) /\ J = Text(K) /\ l = Len(J) /\ Kept(given, r) = EnterAt(given, r, K)
  /\ currpath = start + l /\ p \in 1 .. r /\ w - currpath = r - p /\ Opens(given, p, r)
  /\ \A k \in 1 .. start - 1 : t[k] = given[k]
  /\ \A k \in 1 .. l : t[start - 1 + k] = J[k]
  /\ \A k \in 1 .. r - p : t[currpath + k - 1] = given[p + k - 1]

LEMMA TurnIs ==
  ASSUME Bounds, Unread, NormalInv, Copy
  PROVE  \E t, K, J : \E l \in Nat, p \in Nat : Turn(t, K, J, l, p)
<1>0. /\ phase = "copy" /\ r \in 1..Length /\ w \in 1..Length /\ Len(buf) = Length
      /\ Length \in Nat /\ buf \in Seq(Chars) /\ given \in Seq(Chars)
      /\ start \in Nat /\ currpath \in Nat /\ r \in Nat /\ w \in Nat
      /\ 1 <= start /\ start <= currpath /\ currpath <= w /\ w <= r
  BY DEF Bounds, Copy, Length
<1>1. PICK t : t = [buf EXCEPT ![w] = buf[r]]
  BY Zenon
<1>2. /\ t \in Seq(Chars) /\ Len(t) = Length /\ t[w] = buf[r] /\ t[r] = buf[r]
      /\ \A k \in 1 .. w - 1 : t[k] = buf[k]
  BY <1>0, <1>1
<1>3. buf[r] = given[r]
  BY <1>0 DEF Unread
<1>4. /\ buf' = t
      /\ IF given[r] = "/" THEN AtSeparator(t, w) ELSE w' = w + 1 /\ UNCHANGED <<currpath, phase>>
  <2>1. buf' = t /\ IF buf'[r] = "/" THEN AtSeparator(buf', w)
                    ELSE w' = w + 1 /\ UNCHANGED <<currpath, phase>>
    BY <1>1, Zenon DEF Copy
  <2>2. QED
    BY <1>2, <1>3, <2>1, Zenon
<1>5. PICK K : K = Kept(given, r - 1) /\ Whole(K) /\ Progress(Text(K))
  BY <1>0 DEF NormalInv
<1>6. PICK J : J = Text(K)
  OBVIOUS
<1>7. PICK l \in Nat : l = Len(J)
  BY <1>5, <1>6, TextIs
<1>8. Kept(given, r) = EnterAt(given, r, K)
  <2>1. PICK n \in Nat : n = r - 1 /\ n + 1 = r
    BY <1>0
  <2>2. QED
    BY <1>5, <2>1, KeptStep, Zenon
<1>9. /\ currpath = start + l /\ \A k \in 1 .. start - 1 : buf[k] = given[k]
      /\ \A k \in 1 .. l : buf[start - 1 + k] = J[k]
  BY <1>0, <1>5, <1>6, <1>7, Zenon DEF Progress
<1>10. PICK p \in Nat : Reading(p)
  BY <1>0, <1>5, Zenon DEF Progress
<1>11. /\ \A k \in 1 .. start - 1 : k \in 1 .. w - 1
       /\ \A k \in 1 .. l : start - 1 + k \in 1 .. w - 1
       /\ \A k \in 1 .. r - p : currpath + k - 1 \in 1 .. w - 1
  BY <1>0, <1>9, <1>10 DEF Reading
<1>12. /\ \A k \in 1 .. start - 1 : t[k] = given[k]
       /\ \A k \in 1 .. l : t[start - 1 + k] = J[k]
       /\ \A k \in 1 .. r - p : t[currpath + k - 1] = given[p + k - 1]
  BY <1>2, <1>9, <1>10, <1>11, Zenon DEF Reading
<1>13. t[w] = given[r]
  BY <1>2, <1>3, Zenon
<1>14. Turn(t, K, J, l, p)
  BY <1>2, <1>4, <1>5, <1>6, <1>7, <1>8, <1>9, <1>10, <1>12, <1>13, Zenon DEF Turn, Reading
<1>15. QED
  BY <1>14, Zenon

(* What every turn starts from. *)
LEMMA CopyStarts ==
  ASSUME Bounds, Copy
  PROVE  /\ phase = "copy" /\ r \in 1..Length /\ w \in 1..Length /\ Length \in Nat
         /\ start \in Nat /\ currpath \in Nat /\ r \in Nat /\ w \in Nat
         /\ 1 <= start /\ start <= currpath /\ currpath <= w /\ w <= r
         /\ r' = r + 1 /\ UNCHANGED <<given, start>> /\ given \in Seq(Chars)
  BY DEF Bounds, Copy, Length, ReadOn

(* A character that is no separator. *)
LEMMA PlainTurn ==
  ASSUME Bounds, Unread, NormalInv, Copy, given[r] # "/"
  PROVE  NormalInv'
<1>1. PICK t, K, J : \E l \in Nat, p \in Nat : Turn(t, K, J, l, p)
  BY TurnIs, Zenon
<1>2. PICK l \in Nat, p \in Nat : Turn(t, K, J, l, p)
  BY <1>1, Zenon
<1>3. /\ phase = "copy" /\ r \in 1..Length /\ w \in 1..Length /\ Length \in Nat
      /\ start \in Nat /\ currpath \in Nat /\ r \in Nat /\ w \in Nat
      /\ 1 <= start /\ start <= currpath /\ currpath <= w /\ w <= r
      /\ r' = r + 1 /\ UNCHANGED <<given, start>>
  BY CopyStarts
<1>4. buf' = t /\ w' = w + 1 /\ currpath' = currpath /\ phase' = phase
  BY <1>2 DEF Turn
<1>5. Kept(given, r) = K /\ Whole(K) /\ J = Text(K) /\ l = Len(J)
  BY <1>2, Zenon DEF Turn, EnterAt
<1>6. Reading(p)'
  <2>1. p \in 1 .. r' /\ w' - currpath' = r' - p
    BY <1>2, <1>3, <1>4 DEF Turn
  <2>2. \A j \in p .. r' - 1 : j \in p .. r - 1 \/ j = r
    BY <1>3
  <2>3. Opens(given', p, r')
    BY <1>2, <1>3, <2>2, Zenon DEF Turn, Opens
  <2>4. \A k \in 1 .. r' - p : k \in 1 .. r - p \/ (currpath + k - 1 = w /\ p + k - 1 = r)
    BY <1>2, <1>3 DEF Turn
  <2>5. \A k \in 1 .. r' - p : buf'[currpath' + k - 1] = given'[p + k - 1]
    BY <1>2, <1>3, <1>4, <2>4, Zenon DEF Turn
  <2>6. QED
    BY <2>1, <2>3, <2>5, Zenon DEF Reading
<1>7. Progress(J)'
  <2>1. /\ \A k \in 1 .. start' - 1 : buf'[k] = given'[k]
        /\ \A k \in 1 .. Len(J) : buf'[start' - 1 + k] = J[k]
        /\ currpath' = start' + Len(J)
    BY <1>2, <1>3, <1>4, <1>5, Zenon DEF Turn
  <2>2. phase' # "back"
    BY <1>3, <1>4
  <2>3. QED
    BY <1>6, <2>1, <2>2, Zenon DEF Progress
<1>8. phase' # "done"
  BY <1>3, <1>4
<1>9. QED
  BY <1>3, <1>5, <1>7, <1>8, ReadsOn, Zenon

(* The component that a separator ends. *)
LEMMA ComponentTurn ==
  ASSUME Bounds, Copy, given[r] = "/",
         NEW t, NEW K, NEW J, NEW l \in Nat, NEW p \in Nat, Turn(t, K, J, l, p)
  PROVE  \E c \in Seq(Chars) :
           /\ Len(c) = w - currpath /\ Kept(given, r) = Enter(K, c)
           /\ \A j \in 1 .. Len(c) : c[j] # "/" /\ t[currpath + j - 1] = c[j]
           /\ Empty(t, currpath, w) <=> c \in {<<>>, <<".">>}
           /\ DotDot(t, currpath, w) <=> c = <<".", ".">>
<1>1. /\ r \in 1..Length /\ Length \in Nat /\ currpath \in Nat /\ r \in Nat /\ w \in Nat
      /\ currpath <= w /\ given \in Seq(Chars)
  BY CopyStarts
<1>2. /\ p \in 1 .. r /\ w - currpath = r - p /\ Opens(given, p, r)
      /\ \A k \in 1 .. r - p : t[currpath + k - 1] = given[p + k - 1]
      /\ Kept(given, r) = EnterAt(given, r, K)
  BY Zenon DEF Turn
<1>3. PICK c : c = SubSeq(given, p, r - 1)
  BY Zenon
<1>4. 1 <= p /\ p <= r /\ r <= Len(given) + 1
  BY <1>1, <1>2 DEF Length
<1>5. /\ c \in Seq(Chars) /\ Len(c) = r - p
      /\ \A j \in 1 .. r - p : c[j] = given[p + j - 1]
  BY ONLY <1>1, <1>3, <1>4, p \in Nat, ComponentIs
<1>6. Kept(given, r) = Enter(K, c)
  <2>1. Begins(given, r) = p
    BY <1>1, <1>2, BeginsIs, Zenon
  <2>2. QED
    BY <1>2, <1>3, <2>1, Zenon DEF EnterAt
<1>7. \A j \in 1 .. r - p : p + j - 1 \in p .. r - 1
  BY <1>1, <1>4
<1>8. \A j \in 1 .. Len(c) : c[j] # "/" /\ t[currpath + j - 1] = c[j]
  BY <1>2, <1>5, <1>7, Zenon DEF Opens
<1>9. PICK n \in Nat : n = Len(c) /\ w = currpath + n
  BY <1>1, <1>2, <1>5
<1>10. /\ n = 1 => t[currpath] = c[1]
       /\ n = 2 => t[currpath] = c[1] /\ t[currpath + 1] = c[2]
  <2>1. \A j \in 1 .. n : t[currpath + j - 1] = c[j]
    BY <1>8, <1>9, Zenon
  <2>2. currpath + 1 - 1 = currpath /\ currpath + 2 - 1 = currpath + 1
    BY <1>1
  <2>3. (n = 1 => 1 \in 1 .. n) /\ (n = 2 => 1 \in 1 .. n /\ 2 \in 1 .. n)
    OBVIOUS
  <2>4. QED
    BY <2>1, <2>2, <2>3, Zenon
<1>11. /\ c = <<>> <=> n = 0
       /\ c = <<".">> <=> n = 1 /\ c[1] = "."
       /\ c = <<".", ".">> <=> n = 2 /\ c[1] = "." /\ c[2] = "."
  BY <1>5, <1>9, Words, Zenon
<1>12. /\ w = currpath <=> n = 0
       /\ w = currpath + 1 <=> n = 1
       /\ w = currpath + 2 <=> n = 2
  <2>1. PICK a \in Nat : a = currpath /\ w = a + n
    BY <1>1, <1>9, Zenon
  <2>2. (a + n = a <=> n = 0) /\ (a + n = a + 1 <=> n = 1) /\ (a + n = a + 2 <=> n = 2)
    BY ONLY a \in Nat, n \in Nat
  <2>3. QED
    BY <2>1, <2>2, Zenon
<1>13. Empty(t, currpath, w) <=> c \in {<<>>, <<".">>}
  BY <1>10, <1>11, <1>12, Zenon DEF Empty
<1>14. DotDot(t, currpath, w) <=> c = <<".", ".">>
  BY <1>10, <1>11, <1>12, Zenon DEF DotDot
<1>15. QED
  BY <1>2, <1>5, <1>6, <1>8, <1>13, <1>14, Zenon

(* After a separator another component begins. *)
Fresh(K) ==
  /\ K = Kept(given, r) /\ Whole(K) /\ w' = currpath' /\ phase' = "copy"
  /\ \A k \in 1 .. start - 1 : buf'[k] = given[k]
  /\ \A k \in 1 .. Len(Text(K)) : buf'[start - 1 + k] = Text(K)[k]
  /\ currpath' = start + Len(Text(K))

LEMMA FreshTurn ==
  ASSUME Bounds, NormalInv, Copy, given[r] = "/", NEW K, Fresh(K)
  PROVE  NormalInv'
<1>0. PICK J : J = Text(K)
  OBVIOUS
<1>1. /\ r \in 1..Length /\ Length \in Nat /\ r \in Nat /\ start \in Nat
      /\ r' = r + 1 /\ UNCHANGED <<given, start>>
  BY CopyStarts
<1>2. Len(J) \in Nat /\ Whole(K) /\ K = Kept(given, r)
  BY <1>0, TextIs DEF Fresh
<1>3. PICK p \in Nat : p = r + 1 /\ p - 1 = r /\ p \in 1 .. p
  BY <1>1
<1>4. p = r' /\ p .. r' - 1 = {} /\ 1 .. r' - p = {} /\ w' - currpath' = r' - p
  BY <1>0, <1>1, <1>2, <1>3 DEF Fresh
<1>5. Reading(p)'
  BY <1>1, <1>3, <1>4, Zenon DEF Reading, Opens
<1>6. Progress(J)'
  <2>1. phase' # "back"
    BY DEF Fresh
  <2>2. QED
    BY <1>0, <1>1, <1>5, <2>1, Zenon DEF Progress, Fresh
<1>7. phase' # "done"
  BY DEF Fresh
<1>8. QED
  BY <1>0, <1>1, <1>2, <1>6, <1>7, ReadsOn, Zenon

(* Without its last component, and the end of what is left. *)
Shrunk(x, y) ==
  /\ Len(x) \in Nat /\ Len(y) \in Nat /\ Len(x) < Len(y)
  /\ \A k \in 1 .. Len(x) : y[k] = x[k]
  /\ \A k \in Len(x) + 1 .. Len(y) - 1 : y[k] # "/"

LEMMA TextShrinks ==
  ASSUME NEW K, Whole(K), K # <<>>, NEW F, F = SubSeq(K, 1, Len(K) - 1),
         NEW x, x = Text(F), NEW y, y = Text(K)
  PROVE  Whole(F) /\ Shrunk(x, y)
<1>1. /\ Len(K) \in Nat \ {0} /\ Whole(F) /\ Len(F) = Len(K) - 1
      /\ \A k \in 1 .. Len(K) - 1 : F[k] = K[k]
  BY WholeLess, Zenon
<1>2. Len(K) = Len(F) + 1 /\ \A k \in 1 .. Len(F) : K[k] = F[k]
  <2>1. Len(K) = Len(F) + 1
    BY <1>1
  <2>2. QED
    BY <1>1, <2>1, Zenon
<1>3. PICK c : c = K[Len(K)]
  OBVIOUS
<1>4. /\ Len(x) \in Nat /\ c \in Seq(Chars) /\ \A k \in 1 .. Len(c) : c[k] # "/"
      /\ Len(y) = Len(x) + Len(c) + 1
      /\ \A k \in 1 .. Len(x) : y[k] = x[k]
      /\ \A k \in 1 .. Len(c) : y[Len(x) + k] = c[k]
  <2>1. Whole(F) /\ Whole(K) /\ x = Text(F) /\ y = Text(K)
    BY <1>1
  <2>2. Grown(x, c, y)
    BY ONLY <2>1, <1>2, <1>3, TextGrows, Zenon
  <2>3. QED
    BY <2>2, Zenon DEF Grown
<1>5. PICK a \in Nat, n \in Nat : a = Len(x) /\ n = Len(c) /\ Len(y) = a + n + 1
  BY <1>4
<1>6. \A k \in a + 1 .. a + n + 1 - 1 : k - a \in 1 .. n /\ a + (k - a) = k
  OBVIOUS
<1>7. \A k \in a + 1 .. a + n + 1 - 1 : y[k] # "/"
  <2>1. ASSUME NEW k \in a + 1 .. a + n + 1 - 1 PROVE y[k] # "/"
    <3>1. PICK j : j \in 1 .. n /\ a + j = k
      BY <1>6, Zenon
    <3>2. y[a + j] = c[j] /\ c[j] # "/"
      BY <1>4, <1>5, <3>1, Zenon
    <3>3. QED
      BY <3>1, <3>2, Zenon
  <2>2. QED
    BY <2>1, Zenon
<1>8. a < a + n + 1 /\ a + n + 1 \in Nat
  OBVIOUS
<1>9. Len(y) \in Nat /\ Len(x) < Len(y)
  BY <1>5, <1>8, Zenon
<1>10. \A k \in Len(x) + 1 .. Len(y) - 1 : y[k] # "/"
  <2>1. Len(x) + 1 .. Len(y) - 1 = a + 1 .. a + n + 1 - 1
    BY <1>5
  <2>2. QED
    BY <1>7, <2>1, Zenon
<1>11. QED
  BY <1>1, <1>4, <1>9, <1>10, Zenon DEF Shrunk

LEMMA TextEnds ==
  ASSUME NEW K, Whole(K), NEW y, y = Text(K)
  PROVE  /\ Len(y) \in Nat /\ (K = <<>> <=> Len(y) = 0)
         /\ Len(y) = 0 \/ y[Len(y)] = "/"
<1>1. y \in Seq(Marks) /\ (K = <<>> => y = <<>>)
  BY TextIs, Zenon
<1>2. Len(y) \in Nat /\ (y = <<>> => Len(y) = 0)
  BY <1>1
<1>3. ASSUME K # <<>> PROVE Len(y) # 0 /\ y[Len(y)] = "/"
  <2>1. PICK F : F = SubSeq(K, 1, Len(K) - 1)
    BY Zenon
  <2>2. /\ Len(K) \in Nat \ {0} /\ Whole(F) /\ Len(F) = Len(K) - 1
        /\ \A k \in 1 .. Len(K) - 1 : F[k] = K[k]
    BY <1>3, <2>1, WholeLess, Zenon
  <2>3. Len(K) = Len(F) + 1
    BY <2>2
  <2>4. \A k \in 1 .. Len(F) : K[k] = F[k]
    BY <2>2, Zenon
  <2>5. y[Len(y)] = "/"
    <3>1. Whole(F) /\ Whole(K) /\ y = Text(K)
      BY <2>2
    <3>2. Grown(Text(F), K[Len(K)], y)
      BY ONLY <3>1, <2>3, <2>4, TextGrows, Zenon
    <3>3. QED
      BY <3>2, Zenon DEF Grown
  <2>6. PICK x : x = Text(F)
    OBVIOUS
  <2>7. Len(x) \in Nat /\ Len(x) < Len(y)
    BY <1>3, <2>1, <2>6, TextShrinks, Zenon DEF Shrunk
  <2>8. QED
    BY <1>2, <2>5, <2>7
<1>4. QED
  BY <1>1, <1>2, <1>3, Zenon

(* A component that is dropped. *)
LEMMA StayTurn ==
  ASSUME Bounds, NormalInv, Copy, given[r] = "/",
         NEW t, NEW K, NEW J, NEW l \in Nat, NEW p \in Nat, Turn(t, K, J, l, p),
         Kept(given, r) = K, w' = currpath, currpath' = currpath, phase' = phase
  PROVE  NormalInv'
<1>1. phase' = "copy"
  BY CopyStarts
<1>2. Fresh(K)
  BY <1>1, Zenon DEF Turn, Fresh
<1>3. QED
  BY <1>2, FreshTurn, Zenon

(* A component that is kept. *)
LEMMA KeepTurn ==
  ASSUME Bounds, NormalInv, Copy, given[r] = "/",
         NEW t, NEW K, NEW J, NEW l \in Nat, NEW p \in Nat, Turn(t, K, J, l, p),
         NEW c \in Seq(Chars), Len(c) = w - currpath, Kept(given, r) = Append(K, c),
         \A j \in 1 .. Len(c) : c[j] # "/" /\ t[currpath + j - 1] = c[j],
         w' = w + 1, currpath' = w + 1, phase' = phase
  PROVE  NormalInv'
<1>1. /\ phase' = "copy" /\ start \in Nat /\ currpath \in Nat /\ w \in Nat /\ currpath <= w
      /\ 1 <= start
  BY CopyStarts
<1>2. /\ buf' = t /\ Whole(K) /\ J = Text(K) /\ l = Len(J) /\ currpath = start + l
      /\ \A k \in 1 .. start - 1 : t[k] = given[k]
      /\ \A k \in 1 .. l : t[start - 1 + k] = J[k]
      /\ t[w] = "/"
  BY Zenon DEF Turn
<1>3. PICK A : A = Append(K, c)
  OBVIOUS
<1>4. /\ Whole(A) /\ Len(A) = Len(K) + 1 /\ c = A[Len(A)]
      /\ \A k \in 1 .. Len(K) : A[k] = K[k]
  <2>1. Whole(K) /\ c \in Seq(Chars) /\ \A j \in 1 .. Len(c) : c[j] # "/"
    BY <1>2
  <2>2. /\ Whole(A) /\ Len(A) = Len(K) + 1 /\ A[Len(K) + 1] = c
        /\ \A k \in 1 .. Len(K) : A[k] = K[k]
    BY ONLY <1>3, <2>1, WholeMore
  <2>3. QED
    BY <2>2, Zenon
<1>5. PICK y : y = Text(A)
  OBVIOUS
<1>6. Grown(J, c, y)
  BY ONLY <1>2, <1>4, <1>5, TextGrows, Zenon
<1>a. PICK n \in Nat : n = Len(c)
  OBVIOUS
<1>b. Len(y) = l + n + 1
  BY <1>2, <1>6, <1>a, Zenon DEF Grown
<1>7. n = Len(c) /\ w = currpath + n /\ Len(y) = l + n + 1
  BY <1>1, <1>a, <1>b
<1>8. ASSUME NEW k \in 1 .. Len(y) PROVE t[start - 1 + k] = y[k]
  <2>1. CASE k \in 1 .. l
    BY <1>2, <1>6, <2>1, Zenon DEF Grown
  <2>2. CASE k \in l + 1 .. l + n
    <3>1. PICK j \in 1 .. n : k = l + j /\ start - 1 + k = currpath + j - 1
      <4>1. k - l \in 1 .. n /\ k = l + (k - l) /\ start - 1 + k = currpath + (k - l) - 1
        BY <1>1, <1>2, <2>2
      <4>2. QED
        BY <4>1, Zenon
    <3>2. t[currpath + j - 1] = c[j] /\ y[l + j] = c[j]
      BY <1>2, <1>6, <1>7, Zenon DEF Grown
    <3>3. QED
      BY <3>1, <3>2, Zenon
  <2>3. CASE k = l + n + 1
    <3>1. start - 1 + k = w
      BY <1>1, <1>2, <1>7, <2>3
    <3>2. y[k] = "/"
      BY <1>6, <1>7, <2>3, Zenon DEF Grown
    <3>3. QED
      BY <1>2, <3>1, <3>2, Zenon
  <2>4. k \in 1 .. l \/ k \in l + 1 .. l + n \/ k = l + n + 1
    <3>1. k \in 1 .. l + n + 1
      BY <1>7, Zenon
    <3>2. QED
      BY ONLY <3>1, l \in Nat, n \in Nat
  <2>5. QED
    BY <2>1, <2>2, <2>3, <2>4, Zenon
<1>9. currpath' = start + Len(y) /\ w' = currpath'
  BY <1>1, <1>2, <1>7
<1>10. Fresh(A)
  BY <1>1, <1>2, <1>3, <1>4, <1>5, <1>8, <1>9, Zenon DEF Fresh
<1>11. QED
  BY <1>10, FreshTurn, Zenon

(* The directory that ".." leaves. *)
LEMMA LeaveTurn ==
  ASSUME Bounds, NormalInv, Copy, given[r] = "/",
         NEW t, NEW K, NEW J, NEW l \in Nat, NEW p \in Nat, Turn(t, K, J, l, p), K # <<>>,
         Kept(given, r) = SubSeq(K, 1, Len(K) - 1),
         w' = currpath - 1, currpath' = currpath, phase' = "back"
  PROVE  NormalInv'
<1>1. /\ r \in 1..Length /\ r \in Nat /\ r' = r + 1 /\ UNCHANGED <<given, start>>
      /\ start \in Nat /\ 1 <= start
  BY CopyStarts
<1>2. /\ buf' = t /\ Whole(K) /\ J = Text(K) /\ l = Len(J) /\ currpath = start + l
      /\ \A k \in 1 .. start - 1 : t[k] = given[k]
      /\ \A k \in 1 .. l : t[start - 1 + k] = J[k]
  BY Zenon DEF Turn
<1>3. PICK F, x : F = SubSeq(K, 1, Len(K) - 1) /\ x = Text(F)
  OBVIOUS
<1>4. /\ Whole(F) /\ Len(x) \in Nat /\ Len(x) < l
      /\ \A k \in 1 .. Len(x) : J[k] = x[k]
      /\ \A k \in Len(x) + 1 .. l - 1 : J[k] # "/"
  <2>1. K # <<>>
    OBVIOUS
  <2>2. Whole(F) /\ Shrunk(x, J)
    BY ONLY <1>2, <1>3, <2>1, TextShrinks, Zenon
  <2>3. QED
    BY <1>2, <2>2, Zenon DEF Shrunk
<1>5. PICK n \in Nat : n = Len(x) /\ n < l
  BY <1>4, Zenon
<1>6. \A k \in 1 .. n : t[start - 1 + k] = x[k]
  <2>1. \A k \in 1 .. n : k \in 1 .. l
    BY <1>5
  <2>2. QED
    BY <1>2, <1>4, <1>5, <2>1, Zenon
<1>7. ASSUME NEW k \in start + n .. currpath - 2 PROVE t[k] # "/"
  <2>1. PICK j \in n + 1 .. l - 1 : k = start - 1 + j /\ j \in 1 .. l
    <3>1. k - start + 1 \in n + 1 .. l - 1 /\ k = start - 1 + (k - start + 1)
             /\ k - start + 1 \in 1 .. l
      BY <1>1, <1>2, <1>5
    <3>2. QED
      BY <3>1, Zenon
  <2>2. t[start - 1 + j] = J[j] /\ J[j] # "/"
    BY <1>2, <1>4, <1>5, <2>1, Zenon
  <2>3. QED
    BY <2>1, <2>2, Zenon
<1>8. n = 0 \/ t[start - 1 + n] = "/"
  <2>1. n = 0 \/ x[n] = "/"
    BY <1>3, <1>4, <1>5, TextEnds, Zenon
  <2>2. n # 0 => n \in 1 .. n
    OBVIOUS
  <2>3. QED
    BY <1>6, <2>1, <2>2, Zenon
<1>9. start + n <= w' /\ r' > 1 /\ given'[r' - 1] = "/"
  <2>1. start + n <= currpath - 1
    BY <1>1, <1>2, <1>5
  <2>2. r' > 1 /\ r' - 1 = r
    BY <1>1
  <2>3. QED
    BY <1>1, <2>1, <2>2, Zenon
<1>10. Progress(x)'
  <2>1. phase' # "copy"
    OBVIOUS
  <2>2. QED
    BY <1>1, <1>2, <1>5, <1>6, <1>7, <1>8, <1>9, <2>1, Zenon DEF Progress
<1>11. phase' # "done"
  OBVIOUS
<1>12. QED
  BY <1>1, <1>3, <1>4, <1>10, <1>11, ReadsOn, Zenon

(* A turn of the copying loop. *)
LEMMA CopyNormal ==
  ASSUME Bounds, Unread, NormalInv, Copy
  PROVE  NormalInv'
<1>1. CASE given[r] # "/"
  BY <1>1, PlainTurn, Zenon
<1>2. CASE given[r] = "/"
  <2>1. PICK t, K, J : \E l \in Nat, p \in Nat : Turn(t, K, J, l, p)
    BY TurnIs, Zenon
  <2>2. PICK l \in Nat, p \in Nat : Turn(t, K, J, l, p)
    BY <2>1, Zenon
  <2>3. PICK c \in Seq(Chars) :
          /\ Len(c) = w - currpath /\ Kept(given, r) = Enter(K, c)
          /\ \A j \in 1 .. Len(c) : c[j] # "/" /\ t[currpath + j - 1] = c[j]
          /\ Empty(t, currpath, w) <=> c \in {<<>>, <<".">>}
          /\ DotDot(t, currpath, w) <=> c = <<".", ".">>
    BY <1>2, <2>2, ComponentTurn, Zenon
  <2>4. AtSeparator(t, w)
    BY <1>2, <2>2, Zenon DEF Turn
  <2>5. /\ start \in Nat /\ phase = "copy"
    BY CopyStarts
  <2>6. /\ Whole(K) /\ currpath = start + l /\ l = Len(J) /\ J = Text(K)
    BY <2>2, Zenon DEF Turn
  <2>7. l \in Nat /\ (K = <<>> <=> l = 0)
    BY <2>6, TextEnds, Zenon
  <2>8. ~(Empty(t, currpath, w) /\ DotDot(t, currpath, w))
    <3>1. c = <<".", ".">> => c # <<>> /\ c # <<".">>
      OBVIOUS
    <3>2. QED
      BY <2>3, <3>1, Zenon
  <2>9. CASE Empty(t, currpath, w)
    <3>1. w' = currpath /\ UNCHANGED <<currpath, phase>>
      BY <2>4, <2>8, <2>9 DEF AtSeparator
    <3>2. Kept(given, r) = K
      BY <2>3, <2>8, <2>9 DEF Enter
    <3>3. QED
      BY <1>2, <2>2, <3>1, <3>2, StayTurn, Zenon
  <2>10. CASE DotDot(t, currpath, w) /\ currpath = start
    <3>1. w' = currpath /\ UNCHANGED <<currpath, phase>>
      BY <2>4, <2>8, <2>10 DEF AtSeparator
    <3>2. K = <<>>
      BY <2>5, <2>6, <2>7, <2>10
    <3>3. Kept(given, r) = K
      BY <2>3, <2>8, <2>10, <3>2 DEF Enter
    <3>4. QED
      BY <1>2, <2>2, <3>1, <3>3, StayTurn, Zenon
  <2>11. CASE DotDot(t, currpath, w) /\ currpath # start
    <3>1. w' = currpath - 1 /\ phase' = "back" /\ UNCHANGED currpath
      BY <2>4, <2>8, <2>11 DEF AtSeparator
    <3>2. K # <<>>
      BY <2>5, <2>6, <2>7, <2>11
    <3>3. Kept(given, r) = SubSeq(K, 1, Len(K) - 1)
      BY <2>3, <2>8, <2>11, <3>2 DEF Enter
    <3>4. QED
      BY <1>2, <2>2, <3>1, <3>2, <3>3, LeaveTurn, ZenonT(30)
  <2>12. CASE ~Empty(t, currpath, w) /\ ~DotDot(t, currpath, w)
    <3>1. w' = w + 1 /\ currpath' = w + 1 /\ phase' = phase
      BY <2>4, <2>12 DEF AtSeparator
    <3>2. Kept(given, r) = Append(K, c)
      BY <2>3, <2>12 DEF Enter
    <3>3. QED
      BY <1>2, <2>2, <2>3, <3>1, <3>2, KeepTurn, ZenonT(30)
  <2>13. QED
    BY <2>9, <2>10, <2>11, <2>12, Zenon
<1>3. QED
  BY <1>1, <1>2

(* A turn of the loop that walks back: it ends where the parent ends. *)
LEMMA BackNormal ==
  ASSUME Bounds, NormalInv, WalkBack
  PROVE  NormalInv'
<1>1. /\ phase = "back" /\ UNCHANGED <<given, buf, start, r>> /\ Length' = Length
      /\ start \in Nat /\ currpath \in Nat /\ r \in Nat /\ w \in Nat
      /\ w < currpath /\ 1 <= start
  BY DEF Bounds, WalkBack, Length
<1>2. PICK K : K = Kept(given, r - 1) /\ Whole(K) /\ Progress(Text(K))
  BY <1>1 DEF NormalInv
<1>3. PICK J : J = Text(K)
  OBVIOUS
<1>4. PICK l \in Nat : l = Len(J)
  BY <1>2, <1>3, TextIs
<1>5. /\ \A k \in 1 .. start - 1 : buf[k] = given[k]
      /\ \A k \in 1 .. l : buf[start - 1 + k] = J[k]
      /\ r > 1 /\ given[r - 1] = "/" /\ start + l <= w
      /\ \A k \in start + l .. currpath - 2 : buf[k] # "/"
      /\ l = 0 \/ buf[start - 1 + l] = "/"
  BY <1>1, <1>2, <1>3, <1>4, Zenon DEF Progress
<1>6. Progress(J)' /\ phase' # "done"
  <2>1. CASE AtParent
    <3>1. currpath' = w /\ phase' = "copy" /\ w' = w
      BY <2>1 DEF WalkBack
    <3>2. w = start + l
      <4>1. w # start + l => w # start /\ w - 1 \in start + l .. currpath - 2
        BY <1>1, <1>5
      <4>2. QED
        BY <1>5, <2>1, <4>1, Zenon DEF AtParent
    <3>3. r \in 1 .. r' /\ w' - currpath' = r' - r /\ r .. r' - 1 = {} /\ 1 .. r' - r = {}
      BY <1>1, <1>5, <3>1
    <3>4. Reading(r)'
      <4>1. PICK q : q = r
        OBVIOUS
      <4>2. q \in 1 .. r' /\ w' - currpath' = r' - q
        BY <1>1, <3>3, <4>1
      <4>3. Opens(given', q, r')
        BY <1>1, <1>5, <3>3, <4>1, Zenon DEF Opens
      <4>4. \A k \in 1 .. r' - q : buf'[currpath' + k - 1] = given'[q + k - 1]
        BY <3>3, <4>1, Zenon
      <4>5. q = r'
        BY <1>1, <4>1
      <4>6. QED
        BY <4>2, <4>3, <4>4, <4>5, Zenon DEF Reading
    <3>5. (\E p \in Nat : Reading(p))'
      BY <1>1, <3>4, Zenon
    <3>6. phase' # "back" /\ phase' # "done"
      BY <3>1
    <3>7. QED
      BY <1>1, <1>4, <1>5, <3>1, <3>2, <3>5, <3>6, Zenon DEF Progress
  <2>2. CASE ~AtParent
    <3>1. w' = w - 1 /\ currpath' = currpath /\ phase' = phase
      BY <2>2 DEF WalkBack
    <3>2. w # start + l
      <4>1. w = start + l => (l = 0 => w = start) /\ w - 1 = start - 1 + l
        BY <1>1, <1>5
      <4>2. QED
        BY <1>5, <2>2, <4>1, Zenon DEF AtParent
    <3>3. start + l <= w'
      BY <1>1, <1>5, <3>1, <3>2
    <3>4. phase' # "copy" /\ phase' # "done"
      BY <1>1, <3>1
    <3>5. QED
      BY <1>1, <1>4, <1>5, <3>1, <3>3, <3>4, Zenon DEF Progress
  <2>3. QED
    BY <2>1, <2>2
<1>7. Progress(Text(K))'
  BY <1>3, <1>6, Zenon DEF Progress, Reading
<1>8. (\E L : L = Kept(given, r - 1) /\ Whole(L) /\ Progress(Text(L)))'
  <2>1. K = Kept(given', r' - 1)
    BY <1>1, <1>2, Zenon
  <2>2. QED
    BY <1>2, <1>7, <2>1, Zenon
<1>9. (start = IF Length > 0 /\ given[1] = "/" THEN 2 ELSE 1)'
  BY <1>1, Zenon DEF NormalInv
<1>10. QED
  BY <1>6, <1>8, <1>9, Zenon DEF NormalInv

(* A text in two parts, ... *)
LEMMA TwoParts ==
  ASSUME NEW T, NEW x \in Seq(T), NEW y \in Seq(T), NEW u, u = x \o y
  PROVE  /\ u \in Seq(T) /\ Len(u) = Len(x) + Len(y)
         /\ \A k \in 1 .. Len(x) : u[k] = x[k]
         /\ \A k \in 1 .. Len(y) : u[Len(x) + k] = y[k]
  OBVIOUS

(* ... and in three. *)
Parts(s, x, y, z) ==
  /\ Len(s) = Len(x) + Len(y) + Len(z)
  /\ \A k \in 1 .. Len(x) : s[k] = x[k]
  /\ \A k \in 1 .. Len(y) : s[Len(x) + k] = y[k]
  /\ \A k \in 1 .. Len(z) : s[Len(x) + Len(y) + k] = z[k]

LEMMA ThreeParts ==
  ASSUME NEW T, NEW x \in Seq(T), NEW y \in Seq(T), NEW z \in Seq(T), NEW s \in Seq(T),
         Parts(s, x, y, z)
  PROVE  s = x \o y \o z
<1>a. PICK a \in Nat : a = Len(x)
  OBVIOUS
<1>b. PICK b \in Nat : b = Len(y)
  OBVIOUS
<1>c. PICK n \in Nat : n = Len(z)
  OBVIOUS
<1>d. /\ Len(s) = a + b + n
      /\ \A k \in 1 .. a : s[k] = x[k]
      /\ \A k \in 1 .. b : s[a + k] = y[k]
      /\ \A k \in 1 .. n : s[a + b + k] = z[k]
  BY <1>a, <1>b, <1>c, Zenon DEF Parts
<1>0. PICK m \in Nat : m = a + b
  OBVIOUS
<1>1. PICK u : u = x \o y /\ m = a + b
  BY <1>0, Zenon
<1>2. /\ u \in Seq(T) /\ Len(u) = m
      /\ \A k \in 1 .. a : u[k] = x[k]
      /\ \A k \in 1 .. b : u[a + k] = y[k]
  BY <1>1, <1>a, <1>b
<1>3. PICK v : v = u \o z
  BY Zenon
<1>4. /\ v \in Seq(T) /\ Len(v) = m + n
      /\ \A k \in 1 .. m : v[k] = u[k]
      /\ \A k \in 1 .. n : v[m + k] = z[k]
  <2>1. u \in Seq(T) /\ z \in Seq(T)
    BY <1>2
  <2>2. /\ v \in Seq(T) /\ Len(v) = Len(u) + Len(z)
        /\ \A k \in 1 .. Len(u) : v[k] = u[k]
        /\ \A k \in 1 .. Len(z) : v[Len(u) + k] = z[k]
    BY ONLY <1>3, <2>1, TwoParts
  <2>3. QED
    BY <1>2, <1>c, <2>2, Zenon
<1>5. \A k \in 1 .. m : s[k] = u[k]
  <2>1. \A k \in 1 .. m : k \in 1 .. a \/ \E j \in 1 .. b : k = a + j
    <3>1. \A k \in 1 .. m : k \in 1 .. a \/ (k - a \in 1 .. b /\ k = a + (k - a))
      BY <1>1
    <3>2. QED
      BY <3>1, Zenon
  <2>2. ASSUME NEW j \in 1 .. b PROVE s[a + j] = u[a + j]
    BY <1>2, <1>d, Zenon
  <2>3. ASSUME NEW k \in 1 .. a PROVE s[k] = u[k]
    BY <1>2, <1>d, Zenon
  <2>4. QED
    BY ONLY <2>1, <2>2, <2>3, Zenon
<1>6. \A k \in 1 .. m + n : s[k] = v[k]
  <2>1. \A k \in 1 .. m + n : k \in 1 .. m \/ \E j \in 1 .. n : k = m + j
    <3>1. \A k \in 1 .. m + n : k \in 1 .. m \/ (k - m \in 1 .. n /\ k = m + (k - m))
      OBVIOUS
    <3>2. QED
      BY <3>1, Zenon
  <2>2. \A j \in 1 .. n : s[m + j] = z[j]
    BY <1>1, <1>d, Zenon
  <2>3. ASSUME NEW j \in 1 .. n PROVE s[m + j] = v[m + j]
    BY <1>4, <2>2, Zenon
  <2>4. ASSUME NEW k \in 1 .. m PROVE s[k] = v[k]
    BY <1>4, <1>5, Zenon
  <2>5. QED
    BY ONLY <2>1, <2>3, <2>4, Zenon
<1>7. s = v
  <2>1. s \in Seq(T) /\ v \in Seq(T) /\ Len(s) = m + n /\ Len(v) = m + n
    BY <1>1, <1>4, <1>d, Zenon
  <2>2. QED
    BY ONLY <1>6, <2>1, m \in Nat, n \in Nat
<1>8. QED
  BY <1>1, <1>3, <1>7, Zenon

(* The end of the path. *)
LEMMA TerminateNormal ==
  ASSUME Bounds, Unread, NormalInv, Terminate
  PROVE  NormalInv'
<1>1. /\ phase = "copy" /\ r \in Nat /\ w \in Nat /\ currpath \in Nat /\ start \in Nat
      /\ given \in Seq(Chars) /\ buf \in Seq(Chars) /\ Length \in Nat /\ Len(buf) = Length
      /\ r = Length + 1 /\ r - 1 = Length /\ 1 <= start /\ start <= currpath /\ currpath <= w
      /\ w <= r /\ buf' = SubSeq(buf, 1, w - 1) /\ UNCHANGED <<given, start>> /\ phase' = "done"
  BY DEF Bounds, Terminate, Length
<1>2. PICK K : K = Kept(given, r - 1) /\ Whole(K) /\ Progress(Text(K))
  BY <1>1 DEF NormalInv
<1>3. PICK J : J = Text(K)
  OBVIOUS
<1>4. J \in Seq(Marks)
  BY <1>2, <1>3, TextIs, Zenon
<1>5. PICK l \in Nat : l = Len(J)
  BY <1>4
<1>6. /\ \A k \in 1 .. start - 1 : buf[k] = given[k]
      /\ \A k \in 1 .. l : buf[start - 1 + k] = J[k]
      /\ currpath = start + l
  BY <1>1, <1>2, <1>3, <1>5, Zenon DEF Progress
<1>7. PICK p \in Nat : Reading(p)
  BY <1>1, <1>2, Zenon DEF Progress
<1>8. /\ p \in 1 .. r /\ w - currpath = r - p /\ Opens(given, p, r)
      /\ \A k \in 1 .. r - p : buf[currpath + k - 1] = given[p + k - 1]
  BY <1>7, Zenon DEF Reading
<1>9. PICK c : c = SubSeq(given, p, r - 1)
  BY Zenon
<1>10. PICK n \in Nat : n = r - p /\ w = currpath + n
  BY <1>1, <1>8
<1>11. c \in Seq(Chars) /\ Len(c) = n /\ \A j \in 1 .. n : c[j] = given[p + j - 1]
  <2>1. 1 <= p /\ p <= r /\ r <= Len(given) + 1 /\ given \in Seq(Chars) /\ r \in Nat
    BY <1>1, <1>8 DEF Length
  <2>2. c \in Seq(Chars) /\ Len(c) = r - p /\ \A j \in 1 .. r - p : c[j] = given[p + j - 1]
    BY ONLY <1>9, <2>1, p \in Nat, ComponentIs
  <2>3. QED
    BY <1>10, <2>2, Zenon
<1>12. Rest(given) = c
  <2>1. Begins(given, r) = p
    BY <1>1, <1>8, BeginsIs, Zenon
  <2>2. QED
    BY <1>1, <1>9, <2>1, Zenon DEF Rest, Length
<1>13. PICK x : x = Root(given)
  OBVIOUS
<1>14. PICK a \in Nat : a = start - 1
  BY <1>1
<1>15. x \in Seq(Marks) /\ Len(x) = a /\ \A k \in 1 .. a : given[k] = x[k]
  <2>1. start = IF Length > 0 /\ given[1] = "/" THEN 2 ELSE 1
    BY DEF NormalInv
  <2>2. CASE Length > 0 /\ given[1] = "/"
    <3>1. x = <<"/">> /\ a = 1
      BY <1>13, <1>14, <2>1, <2>2 DEF Root, Length
    <3>2. x \in Seq(Marks)
      BY <3>1 DEF Marks
    <3>3. QED
      BY <2>2, <3>1, <3>2
  <2>3. CASE ~(Length > 0 /\ given[1] = "/")
    <3>1. x = <<>> /\ a = 0
      BY <1>13, <1>14, <2>1, <2>3 DEF Root, Length
    <3>2. QED
      BY <3>1
  <2>4. QED
    BY <2>2, <2>3
<1>a. PICK q \in Nat : q = w - 1
  BY <1>1
<1>16. PICK t : t = buf' /\ q = w - 1
  BY <1>a, Zenon
<1>17. t \in Seq(Chars) /\ Len(t) = q /\ \A k \in 1 .. q : t[k] = buf[k]
  <2>1. q <= Len(buf) /\ buf \in Seq(Chars) /\ t = SubSeq(buf, 1, q)
    BY <1>1, <1>16
  <2>2. QED
    BY ONLY <2>1, q \in Nat
<1>18. q = a + l + n
  BY <1>1, <1>6, <1>10, <1>14, <1>16
<1>19. /\ \A k \in 1 .. a : t[k] = x[k]
       /\ \A k \in 1 .. l : t[a + k] = J[k]
       /\ \A k \in 1 .. n : t[a + l + k] = c[k]
  <2>1. /\ \A k \in 1 .. a : k \in 1 .. q
        /\ \A k \in 1 .. l : a + k \in 1 .. q
        /\ \A k \in 1 .. n : a + l + k \in 1 .. q
    BY <1>18
  <2>2. \A k \in 1 .. n : a + l + k = currpath + k - 1
    BY <1>1, <1>6, <1>14
  <2>3. \A k \in 1 .. a : t[k] = x[k]
    BY <1>6, <1>14, <1>15, <1>17, <2>1, Zenon
  <2>4. \A k \in 1 .. l : t[a + k] = J[k]
    BY <1>6, <1>14, <1>17, <2>1, Zenon
  <2>5. \A k \in 1 .. n : t[a + l + k] = c[k]
    BY <1>8, <1>10, <1>11, <1>17, <2>1, <2>2, Zenon
  <2>6. QED
    BY <2>3, <2>4, <2>5, Zenon
<1>20. t = x \o J \o c
  <2>1. t \in Seq(Marks) /\ c \in Seq(Marks)
    BY <1>11, <1>17 DEF Marks
  <2>2. a = Len(x) /\ l = Len(J) /\ n = Len(c) /\ Len(t) = a + l + n
    BY <1>5, <1>11, <1>15, <1>17, <1>18
  <2>3. Parts(t, x, J, c)
    BY <1>19, <2>2, Zenon DEF Parts
  <2>4. QED
    BY ONLY <1>4, <1>15, <2>1, <2>3, ThreeParts, Zenon
<1>21. buf' = Normal(given')
  <2>1. Normal(given) = Root(given) \o Text(Kept(given, Len(given))) \o Rest(given)
    BY Zenon DEF Normal, Text
  <2>2. Kept(given, Len(given)) = K
    BY <1>1, <1>2, Zenon DEF Length
  <2>3. QED
    BY <1>1, <1>3, <1>12, <1>13, <1>16, <1>20, <2>1, <2>2, Zenon
<1>22. (start = IF Length > 0 /\ given[1] = "/" THEN 2 ELSE 1)'
  <2>1. Length' = Length
    BY <1>1 DEF Length
  <2>2. QED
    BY <1>1, <2>1, Zenon DEF NormalInv
<1>23. phase' = "done"
  BY <1>1
<1>24. QED
  BY <1>21, <1>22, <1>23, Zenon DEF NormalInv

(* Nothing is kept of a first separator. *)
LEMMA NormalStarts ==
  ASSUME PathInit, Bounds
  PROVE  NormalInv
<1>1. /\ given \in Seq(Chars) /\ Length \in Nat /\ buf = given /\ phase = "copy"
      /\ start = IF Length > 0 /\ given[1] = "/" THEN 2 ELSE 1
      /\ currpath = start /\ r = start /\ w = start
  BY DEF PathInit, Bounds, Length
<1>2. PICK K : K = <<>>
  OBVIOUS
<1>3. Whole(K) /\ Len(K) = 0
  BY <1>2 DEF Whole
<1>4. Text(K) = <<>> /\ Len(<<>>) = 0
  BY <1>2, <1>3, TextIs
<1>5. Kept(given, 0) = K
  BY <1>2, KeptStep, Zenon
<1>6. Kept(given, r - 1) = K /\ Opens(given, r, r)
  <2>1. CASE Length > 0 /\ given[1] = "/"
    <3>1. r = 2 /\ r - 1 = 1 /\ 0 + 1 = 1 /\ 0 \in Nat
      BY <1>1, <2>1
    <3>2. Opens(given, 1, 1) /\ 1 \in 1 .. 1 /\ 1 \in Nat
      BY DEF Opens
    <3>3. Begins(given, 1) = 1
      BY <3>2, BeginsIs, Zenon
    <3>4. PICK c : c = SubSeq(given, 1, 1 - 1)
      BY Zenon
    <3>5. c = <<>>
      BY <1>1, <3>4
    <3>6. Kept(given, 0 + 1) = EnterAt(given, 0 + 1, Kept(given, 0))
      BY <3>1, KeptStep, Zenon
    <3>7. Kept(given, 1) = Enter(K, c)
      BY <1>5, <2>1, <3>1, <3>3, <3>4, <3>6, Zenon DEF EnterAt
    <3>8. Enter(K, c) = K
      BY <3>5 DEF Enter
    <3>9. Opens(given, r, r)
      BY <2>1, <3>1 DEF Opens
    <3>10. QED
      BY <3>1, <3>7, <3>8, <3>9, Zenon
  <2>2. CASE ~(Length > 0 /\ given[1] = "/")
    <3>1. r = 1 /\ r - 1 = 0
      BY <1>1, <2>2
    <3>2. Opens(given, r, r)
      BY <3>1 DEF Opens
    <3>3. QED
      BY <1>5, <3>1, <3>2, Zenon
  <2>3. QED
    BY <2>1, <2>2
<1>7. r \in Nat /\ r \in 1 .. r /\ w - currpath = r - r /\ 1 .. r - r = {} /\ 1 .. 0 = {}
  BY <1>1
<1>8. Reading(r)
  BY <1>6, <1>7, Zenon DEF Reading
<1>9. currpath = start + 0 /\ phase # "back" /\ phase # "done"
  BY <1>1
<1>10. Progress(<<>>)
  BY <1>1, <1>4, <1>7, <1>8, <1>9, Zenon DEF Progress
<1>11. Progress(Text(K))
  BY <1>4, <1>10, Zenon
<1>12. QED
  BY <1>1, <1>3, <1>6, <1>9, <1>11, Zenon DEF NormalInv

(* A path that has been collapsed is left alone. *)
LEMMA NormalStays ==
  ASSUME NormalInv, UNCHANGED pathVars
  PROVE  NormalInv'
<1>1. UNCHANGED <<given, buf, start, currpath, r, w, phase>> /\ Length' = Length
  BY DEF pathVars, Length
<1>2. \A text : Progress(text) => Progress(text)'
  BY <1>1, Zenon DEF Progress, Reading
<1>3. QED
  BY <1>1, <1>2, Zenon DEF NormalInv

(* Every step of collapse_path. *)
LEMMA PathNormal ==
  ASSUME Bounds, Unread, NormalInv, PathNext
  PROVE  NormalInv'
  BY CopyNormal, BackNormal, TerminateNormal, Zenon DEF PathNext

-----------------------------------------------------------------------------
(* match_glob *)

(* The piece of a string between a and b is what character k of a glob     *)
(* stands for.                                                             *)
Piece(gl, st, k, a, b) ==
  CASE gl[k] = "*" -> b >= a
    [] gl[k] = "?" -> b = a + 1
    [] OTHER       -> b = a + 1 /\ st[b] = gl[k]

(* A glob of length n, after its first a characters, fits a string of      *)
(* length m, after its first b.                                            *)
FitsAfter(gl, n, st, m, a, b) ==
  \E cut \in [a .. n -> 0 .. m] :
    /\ cut[a] = b /\ cut[n] = m
    /\ \A k \in a + 1 .. n : Piece(gl, st, k, cut[k - 1], cut[k])

(* From the start of both. *)
LEMMA FitsIs ==
  ASSUME NEW gl, NEW st
  PROVE  Filter!Fits(gl, st) <=> FitsAfter(gl, Len(gl), st, Len(st), 0, 0)
  BY DEF Filter!Fits, FitsAfter, Piece

(* At the end of the glob. *)
LEMMA FitsAtEnd ==
  ASSUME NEW gl, NEW n \in Nat, NEW st, NEW m \in Nat, NEW b \in 0 .. m
  PROVE  FitsAfter(gl, n, st, m, n, b) <=> b = m
<1>1. FitsAfter(gl, n, st, m, n, b) => b = m
  BY DEF FitsAfter
<1>2. ASSUME b = m PROVE FitsAfter(gl, n, st, m, n, b)
  <2> DEFINE cut == [k \in n .. n |-> m]
  <2>1. cut \in [n .. n -> 0 .. m] /\ cut[n] = b /\ cut[n] = m
    BY <1>2
  <2>2. n + 1 .. n = {}
    OBVIOUS
  <2> HIDE DEF cut
  <2>3. QED
    BY <2>1, <2>2 DEF FitsAfter
<1>3. QED
  BY <1>1, <1>2

(* One character of the glob: a piece, and the rest. *)
LEMMA FitsStep ==
  ASSUME NEW gl, NEW n \in Nat, NEW st, NEW m \in Nat,
         NEW a \in 0 .. n - 1, NEW b \in 0 .. m
  PROVE  FitsAfter(gl, n, st, m, a, b) <=>
           \E c \in 0 .. m : Piece(gl, st, a + 1, b, c) /\ FitsAfter(gl, n, st, m, a + 1, c)
<1>1. ASSUME FitsAfter(gl, n, st, m, a, b)
      PROVE  \E c \in 0 .. m : Piece(gl, st, a + 1, b, c) /\ FitsAfter(gl, n, st, m, a + 1, c)
  <2>1. PICK cut \in [a .. n -> 0 .. m] :
          /\ cut[a] = b /\ cut[n] = m
          /\ \A k \in a + 1 .. n : Piece(gl, st, k, cut[k - 1], cut[k])
    BY <1>1, Zenon DEF FitsAfter
  <2> DEFINE rest == [k \in a + 1 .. n |-> cut[k]]
  <2>2. PICK c \in 0 .. m : c = cut[a + 1]
    BY <2>1
  <2>3. rest \in [a + 1 .. n -> 0 .. m] /\ rest[a + 1] = c /\ rest[n] = m
    BY <2>1, <2>2
  <2>4. ASSUME NEW k \in a + 1 + 1 .. n PROVE Piece(gl, st, k, rest[k - 1], rest[k])
    <3>1. rest[k - 1] = cut[k - 1] /\ rest[k] = cut[k] /\ k \in a + 1 .. n
      OBVIOUS
    <3> HIDE DEF rest
    <3>2. QED
      BY <2>1, <3>1, Zenon
  <2> HIDE DEF rest
  <2>5. FitsAfter(gl, n, st, m, a + 1, c)
    BY <2>3, <2>4, Zenon DEF FitsAfter
  <2>6. Piece(gl, st, a + 1, b, c)
    <3>1. PICK k \in a + 1 .. n : k = a + 1 /\ k - 1 = a
      OBVIOUS
    <3>2. Piece(gl, st, k, cut[k - 1], cut[k])
      BY <2>1, Zenon
    <3>3. QED
      BY <2>1, <2>2, <3>1, <3>2, Zenon
  <2>7. QED
    BY <2>5, <2>6, Zenon
<1>2. ASSUME NEW c \in 0 .. m, Piece(gl, st, a + 1, b, c), FitsAfter(gl, n, st, m, a + 1, c)
      PROVE  FitsAfter(gl, n, st, m, a, b)
  <2>1. PICK rest \in [a + 1 .. n -> 0 .. m] :
          /\ rest[a + 1] = c /\ rest[n] = m
          /\ \A k \in a + 1 + 1 .. n : Piece(gl, st, k, rest[k - 1], rest[k])
    BY <1>2, Zenon DEF FitsAfter
  <2> DEFINE cut == [k \in a .. n |-> IF k = a THEN b ELSE rest[k]]
  <2>2. cut \in [a .. n -> 0 .. m] /\ cut[a] = b /\ cut[n] = m /\ cut[a + 1] = c
    BY <2>1
  <2>3. ASSUME NEW k \in a + 1 .. n PROVE Piece(gl, st, k, cut[k - 1], cut[k])
    <3>1. CASE k = a + 1
      <4>1. k - 1 = a
        BY <3>1
      <4> HIDE DEF cut
      <4>2. QED
        BY <1>2, <2>2, <3>1, <4>1, Zenon
    <3>2. CASE k # a + 1
      <4>1. cut[k - 1] = rest[k - 1] /\ cut[k] = rest[k] /\ k \in a + 1 + 1 .. n
        BY <3>2
      <4> HIDE DEF cut
      <4>2. QED
        BY <2>1, <4>1, Zenon
    <3>3. QED
      BY <3>1, <3>2
  <2> HIDE DEF cut
  <2>4. QED
    BY <2>2, <2>3, Zenon DEF FitsAfter
<1>3. QED
  BY <1>1, <1>2, Zenon

(* A star takes nothing, or one character and then what it takes. *)
LEMMA FitsStar ==
  ASSUME NEW gl, NEW n \in Nat, NEW st, NEW m \in Nat,
         NEW a \in 0 .. n - 1, NEW b \in 0 .. m, gl[a + 1] = "*"
  PROVE  FitsAfter(gl, n, st, m, a, b) <=>
           \/ FitsAfter(gl, n, st, m, a + 1, b)
           \/ b < m /\ FitsAfter(gl, n, st, m, a, b + 1)
<1> DEFINE After(c) == FitsAfter(gl, n, st, m, a + 1, c)
<1>1. \A d \in 0 .. m : FitsAfter(gl, n, st, m, a, d) <=>
                          \E c \in 0 .. m : Piece(gl, st, a + 1, d, c) /\ After(c)
  BY FitsStep, Zenon
<1>2. \A c, d \in 0 .. m : Piece(gl, st, a + 1, d, c) <=> c >= d
  BY DEF Piece
<1> HIDE DEF After
<1>3. \A d \in 0 .. m : FitsAfter(gl, n, st, m, a, d) <=> \E c \in 0 .. m : c >= d /\ After(c)
  BY <1>1, <1>2, Zenon
<1>4. b >= b /\ \A c \in 0 .. m : c >= b => c = b \/ (b < m /\ b + 1 \in 0 .. m /\ c >= b + 1)
  OBVIOUS
<1>5. b < m => b + 1 \in 0 .. m /\ \A c \in 0 .. m : c >= b + 1 => c >= b
  OBVIOUS
<1>6. FitsAfter(gl, n, st, m, a, b) <=> After(b) \/ (b < m /\ FitsAfter(gl, n, st, m, a, b + 1))
  BY <1>3, <1>4, <1>5, Zenon
<1>7. QED
  BY <1>6 DEF After

(* Any other character takes one, the same unless it is a question mark. *)
LEMMA FitsSingle ==
  ASSUME NEW gl, NEW n \in Nat, NEW st, NEW m \in Nat,
         NEW a \in 0 .. n - 1, NEW b \in 0 .. m, gl[a + 1] # "*"
  PROVE  FitsAfter(gl, n, st, m, a, b) <=>
           b < m /\ gl[a + 1] \in {"?", st[b + 1]} /\ FitsAfter(gl, n, st, m, a + 1, b + 1)
<1> DEFINE After(c) == FitsAfter(gl, n, st, m, a + 1, c)
<1>1. FitsAfter(gl, n, st, m, a, b) <=> \E c \in 0 .. m : Piece(gl, st, a + 1, b, c) /\ After(c)
  BY FitsStep, Zenon
<1>2. \A c \in 0 .. m : Piece(gl, st, a + 1, b, c) <=> c = b + 1 /\ gl[a + 1] \in {"?", st[b + 1]}
  BY DEF Piece
<1>3. b + 1 \in 0 .. m <=> b < m
  OBVIOUS
<1> HIDE DEF After
<1>4. FitsAfter(gl, n, st, m, a, b) <=> b < m /\ gl[a + 1] \in {"?", st[b + 1]} /\ After(b + 1)
  BY <1>1, <1>2, <1>3, Zenon
<1>5. QED
  BY <1>4 DEF After

-----------------------------------------------------------------------------
(* The calls of match_glob *)

(* One of the first d calls matches after its star takes a character. *)
Later(gl, n, st, m, c, d) ==
  \E k \in 1 .. d : FitsAfter(gl, n, st, m, c[k][1] - 1, c[k][2])

(* Each of the first d calls is at a star that may take a character. *)
AtStars(gl, n, m, c, d) ==
  \A k \in 1 .. d : /\ c[k][1] \in 1 .. n /\ gl[c[k][1]] = "*"
                     /\ c[k][2] \in 1 .. m

(* The answer is that of the innermost call, or else of a later turn of    *)
(* one of those below it.                                                  *)
Answers(gl, n, st, m, c, d, ret) ==
  LET fits == FitsAfter(gl, n, st, m, 0, 0) IN
  /\ ret = 1 => fits
  /\ ret = 0 => (fits <=> Later(gl, n, st, m, c, d))
  /\ ret = -1 /\ d > 0 =>
       /\ c[d][1] \in 1 .. n + 1 /\ c[d][2] \in 1 .. m + 1
       /\ fits <=> \/ FitsAfter(gl, n, st, m, c[d][1] - 1, c[d][2] - 1)
                   \/ Later(gl, n, st, m, c, d - 1)

Sound(gl, n, st, m, c, d, ret) ==
  /\ AtStars(gl, n, m, c, IF ret = -1 THEN d - 1 ELSE d)
  /\ Answers(gl, n, st, m, c, d, ret)

(* Calls that are left alone. *)
LEMMA SameCalls ==
  ASSUME NEW gl, NEW n, NEW st, NEW m, NEW c, NEW e, NEW d, \A k \in 1 .. d : e[k] = c[k]
  PROVE  /\ Later(gl, n, st, m, e, d) <=> Later(gl, n, st, m, c, d)
         /\ AtStars(gl, n, m, e, d) <=> AtStars(gl, n, m, c, d)
  BY Zenon DEF Later, AtStars

(* The innermost call moves on. *)
LEMMA Moved ==
  ASSUME NEW gl, NEW n \in Nat, NEW st, NEW m \in Nat, NEW c, NEW e, NEW d \in Nat \ {0},
         \A k \in 1 .. d - 1 : e[k] = c[k],
         NEW g \in 1 .. n + 1, NEW s \in 1 .. m + 1, e[d] = <<g, s>>,
         AtStars(gl, n, m, c, d - 1),
         FitsAfter(gl, n, st, m, 0, 0) <=>
           FitsAfter(gl, n, st, m, g - 1, s - 1) \/ Later(gl, n, st, m, c, d - 1)
  PROVE  Sound(gl, n, st, m, e, d, -1)
<1>1. /\ Later(gl, n, st, m, e, d - 1) <=> Later(gl, n, st, m, c, d - 1)
      /\ AtStars(gl, n, m, e, d - 1) <=> AtStars(gl, n, m, c, d - 1)
  BY SameCalls, Zenon
<1>2. e[d][1] = g /\ e[d][2] = s
  OBVIOUS
<1>3. -1 # 1 /\ -1 # 0
  OBVIOUS
<1>4. QED
  BY <1>1, <1>2, <1>3, Zenon DEF Sound, Answers

(* The innermost call returns. *)
LEMMA Returned ==
  ASSUME NEW gl, NEW n \in Nat, NEW st, NEW m \in Nat, NEW c, NEW e, NEW d \in Nat \ {0},
         \A k \in 1 .. d - 1 : e[k] = c[k],
         AtStars(gl, n, m, c, d - 1),
         NEW ret \in {0, 1},
         ret = 1 => FitsAfter(gl, n, st, m, 0, 0),
         ret = 0 => (FitsAfter(gl, n, st, m, 0, 0) <=> Later(gl, n, st, m, c, d - 1))
  PROVE  Sound(gl, n, st, m, e, d - 1, ret)
<1>1. /\ Later(gl, n, st, m, e, d - 1) <=> Later(gl, n, st, m, c, d - 1)
      /\ AtStars(gl, n, m, e, d - 1) <=> AtStars(gl, n, m, c, d - 1)
  BY SameCalls, Zenon
<1>2. ret # -1
  OBVIOUS
<1>3. QED
  BY <1>1, <1>2, Zenon DEF Sound, Answers

-----------------------------------------------------------------------------
(* The inductive invariant of matches_filter *)

SoundCalls ==
  Sound(filters[i], Len(filters[i]), buf, Len(buf), calls, Len(calls), returned)

MatchInv ==
  /\ filters \in Seq(Seq(Chars \cup {"*", "?"})) /\ i \in Nat \ {0}
  /\ calls \in Seq(Nat \X Nat) /\ returned \in {-1, 0, 1}
  /\ phase # "done" => i = 1 /\ calls = <<>> /\ returned = -1
  /\ i <= Len(filters) + 1
  /\ phase = "done" => \A k \in 1 .. i - 1 : ~Filter!Fits(filters[k], buf)
  /\ calls # <<>> \/ returned # -1 => i <= Len(filters) /\ SoundCalls

(* Goto replaces the innermost call. *)
LEMMA GotoIs ==
  ASSUME calls \in Seq(Nat \X Nat), calls # <<>>, NEW g \in Nat, NEW s \in Nat, Filter!Goto(g, s)
  PROVE  /\ calls' \in Seq(Nat \X Nat) /\ Len(calls') = Len(calls) /\ calls' # <<>>
         /\ calls'[Len(calls)] = <<g, s>>
         /\ \A k \in 1 .. Len(calls) - 1 : calls'[k] = calls[k]
<1> DEFINE T == Nat \X Nat
           c == Filter!Below
<1>1. calls' = Append(c, <<g, s>>) /\ <<g, s>> \in T /\ calls \in Seq(T)
  BY DEF Filter!Goto
<1> HIDE DEF T
<1>2. /\ Len(calls) \in Nat \ {0} /\ c \in Seq(T) /\ Len(c) = Len(calls) - 1
      /\ \A k \in 1 .. Len(calls) - 1 : c[k] = calls[k]
  BY <1>1, WithoutLast, Zenon DEF Filter!Below
<1> HIDE DEF c
<1>3. /\ calls' \in Seq(T) /\ calls' # <<>> /\ Len(calls') = Len(c) + 1
      /\ calls'[Len(c) + 1] = <<g, s>> /\ \A k \in 1 .. Len(c) : calls'[k] = c[k]
  <2>0. c \in Seq(T)
    BY <1>2
  <2>1. PICK x : x = <<g, s>> /\ x \in T
    BY <1>1, Zenon
  <2>2. calls' = Append(c, x)
    BY <1>1, <2>1, Zenon
  <2>3. /\ Append(c, x) \in Seq(T) /\ Append(c, x) # <<>> /\ Len(Append(c, x)) = Len(c) + 1
        /\ Append(c, x)[Len(c) + 1] = x /\ \A k \in 1 .. Len(c) : Append(c, x)[k] = c[k]
    BY ONLY <2>0, <2>1, AtTheEnd
  <2>4. QED
    BY <2>1, <2>2, <2>3, Zenon
<1>4. Len(c) + 1 = Len(calls)
  BY <1>2
<1>5. QED
  BY <1>2, <1>3, <1>4, Zenon DEF T

(* Return removes it. *)
LEMMA ReturnIs ==
  ASSUME calls \in Seq(Nat \X Nat), calls # <<>>, NEW ret, Filter!Return(ret)
  PROVE  /\ calls' \in Seq(Nat \X Nat) /\ Len(calls') = Len(calls) - 1 /\ returned' = ret
         /\ \A k \in 1 .. Len(calls) - 1 : calls'[k] = calls[k]
  BY WithoutLast, Zenon DEF Filter!Return, Filter!Below

(* A step within the calls that leaves them sound. *)
LEMMA CallsKeep ==
  ASSUME MatchInv, phase = "done", UNCHANGED <<filters, i, buf, phase>>, i <= Len(filters),
         calls' \in Seq(Nat \X Nat), returned' \in {-1, 0, 1},
         NEW gl, gl = filters[i], NEW d, d = Len(calls'),
         Sound(gl, Len(gl), buf, Len(buf), calls', d, returned')
  PROVE  MatchInv'
<1>1. SoundCalls'
  BY Zenon DEF SoundCalls
<1>2. QED
  BY <1>1, Zenon DEF MatchInv

(* What is known of the calls. *)
LEMMA CallsAre ==
  ASSUME MatchInv, phase = "done", calls # <<>>, buf \in Seq(Chars)
  PROVE  \E gl \in Seq(Chars \cup {"*", "?"}), n \in Nat, m \in Nat, d \in Nat \ {0} :
           /\ gl = filters[i] /\ n = Len(gl) /\ m = Len(buf) /\ d = Len(calls)
           /\ Sound(gl, n, buf, m, calls, d, returned)
<1>1. /\ filters[i] \in Seq(Chars \cup {"*", "?"}) /\ Len(calls) \in Nat \ {0} /\ Len(buf) \in Nat
      /\ Len(filters[i]) \in Nat
  BY DEF MatchInv
<1>2. Sound(filters[i], Len(filters[i]), buf, Len(buf), calls, Len(calls), returned)
  BY Zenon DEF MatchInv, SoundCalls
<1>3. QED
  BY <1>1, <1>2, Zenon

(* What a running call looks at. *)
LEMMA RunningIs ==
  ASSUME MatchInv, phase = "done", Filter!Running, buf \in Seq(Chars)
  PROVE  \E gl \in Seq(Chars \cup {"*", "?"}), n \in Nat, m \in Nat, d \in Nat \ {0},
            g \in Nat, s \in Nat :
           /\ gl = filters[i] /\ n = Len(gl) /\ m = Len(buf) /\ d = Len(calls)
           /\ g \in 1 .. n + 1 /\ s \in 1 .. m + 1 /\ Filter!Top[1] = g /\ Filter!Top[2] = s
           /\ Filter!G = IF g <= n THEN gl[g] ELSE "NUL"
           /\ Filter!S = IF s <= m THEN buf[s] ELSE "NUL"
           /\ AtStars(gl, n, m, calls, d - 1)
           /\ FitsAfter(gl, n, buf, m, 0, 0) <=>
                FitsAfter(gl, n, buf, m, g - 1, s - 1) \/ Later(gl, n, buf, m, calls, d - 1)
<1>1. calls # <<>> /\ returned = -1
  BY DEF Filter!Running
<1>2. PICK gl \in Seq(Chars \cup {"*", "?"}), n \in Nat, m \in Nat, d \in Nat \ {0} :
        /\ gl = filters[i] /\ n = Len(gl) /\ m = Len(buf) /\ d = Len(calls)
        /\ Sound(gl, n, buf, m, calls, d, returned)
  BY <1>1, CallsAre
<1>3. -1 # 0 /\ -1 # 1 /\ d > 0
  OBVIOUS
<1>4. PICK g, s : g = calls[d][1] /\ s = calls[d][2]
  BY Zenon
<1>5. /\ AtStars(gl, n, m, calls, d - 1) /\ g \in 1 .. n + 1 /\ s \in 1 .. m + 1
      /\ FitsAfter(gl, n, buf, m, 0, 0) <=>
           FitsAfter(gl, n, buf, m, g - 1, s - 1) \/ Later(gl, n, buf, m, calls, d - 1)
  BY <1>1, <1>2, <1>3, <1>4, Zenon DEF Sound, Answers
<1>6. g \in Nat /\ s \in Nat
  BY <1>5
<1>7. Filter!Top[1] = g /\ Filter!Top[2] = s
  BY <1>2, <1>4, Zenon DEF Filter!Top
<1>8. /\ Filter!G = IF g <= n THEN gl[g] ELSE "NUL"
      /\ Filter!S = IF s <= m THEN buf[s] ELSE "NUL"
  BY <1>2, <1>7, Zenon DEF Filter!G, Filter!S, Filter!Char
<1>9. QED
  BY <1>2, <1>5, <1>6, <1>7, <1>8, Zenon

(* Star: the rest of the glob is tried first. *)
LEMMA StarKeeps ==
  ASSUME MatchInv, phase = "done", buf \in Seq(Chars), Filter!Star, UNCHANGED pathVars
  PROVE  MatchInv'
<1>1. UNCHANGED <<filters, i, buf, phase>> /\ i <= Len(filters) /\ calls \in Seq(Nat \X Nat)
      /\ calls # <<>>
  BY DEF Filter!Star, Filter!Running, MatchInv, pathVars
<1>2. PICK gl \in Seq(Chars \cup {"*", "?"}), n \in Nat, m \in Nat, d \in Nat \ {0},
        g \in Nat, s \in Nat :
        /\ gl = filters[i] /\ n = Len(gl) /\ m = Len(buf) /\ d = Len(calls)
        /\ g \in 1 .. n + 1 /\ s \in 1 .. m + 1 /\ Filter!Top[1] = g /\ Filter!Top[2] = s
        /\ Filter!G = IF g <= n THEN gl[g] ELSE "NUL"
        /\ Filter!S = IF s <= m THEN buf[s] ELSE "NUL"
        /\ AtStars(gl, n, m, calls, d - 1)
        /\ FitsAfter(gl, n, buf, m, 0, 0) <=>
             FitsAfter(gl, n, buf, m, g - 1, s - 1) \/ Later(gl, n, buf, m, calls, d - 1)
  BY RunningIs, Zenon DEF Filter!Star
<1>3. /\ g \in 1 .. n /\ s \in 1 .. m /\ gl[g] = "*" /\ g + 1 \in 1 .. n + 1
      /\ g - 1 \in 0 .. n - 1 /\ s - 1 \in 0 .. m /\ s - 1 < m
      /\ g - 1 + 1 = g /\ s - 1 + 1 = s /\ g + 1 - 1 = g /\ d + 1 - 1 = d
  <2>1. Filter!S # "NUL" /\ Filter!G = "*"
    BY DEF Filter!Star
  <2>2. g <= n /\ s <= m /\ gl[g] = "*"
    BY <1>2, <2>1, Zenon
  <2>3. g \in 1 .. n + 1 /\ s \in 1 .. m + 1
    BY <1>2, Zenon
  <2>4. QED
    BY ONLY n \in Nat, m \in Nat, d \in Nat, <2>2, <2>3
<1>4. FitsAfter(gl, n, buf, m, g - 1, s - 1) <=>
        FitsAfter(gl, n, buf, m, g, s - 1) \/ FitsAfter(gl, n, buf, m, g - 1, s)
  <2>1. PICK a \in 0 .. n - 1, b \in 0 .. m : a = g - 1 /\ b = s - 1 /\ a + 1 = g /\ b + 1 = s
    BY <1>3, Zenon
  <2>2. FitsAfter(gl, n, buf, m, a, b) <=>
          FitsAfter(gl, n, buf, m, a + 1, b) \/ (b < m /\ FitsAfter(gl, n, buf, m, a, b + 1))
    BY <1>3, <2>1, FitsStar, Zenon
  <2>3. QED
    BY <1>3, <2>1, <2>2, Zenon
<1>5. /\ calls' \in Seq(Nat \X Nat) /\ Len(calls') = d + 1 /\ calls'[d + 1] = <<g + 1, s>>
      /\ \A k \in 1 .. d : calls'[k] = calls[k]
  <2> DEFINE T == Nat \X Nat
  <2>0. <<g + 1, s>> \in T
    OBVIOUS
  <2>1. PICK x : x = <<g + 1, s>> /\ x \in T
    BY <2>0, Zenon
  <2>2. calls' = Append(calls, x)
    BY <1>2, <2>1, Zenon DEF Filter!Star
  <2>3. calls \in Seq(T)
    BY <1>1
  <2> HIDE DEF T
  <2>4. /\ Append(calls, x) \in Seq(T) /\ Len(Append(calls, x)) = Len(calls) + 1
        /\ Append(calls, x)[Len(calls) + 1] = x
        /\ \A k \in 1 .. Len(calls) : Append(calls, x)[k] = calls[k]
    BY ONLY <2>1, <2>3, AtTheEnd
  <2>5. QED
    BY <1>2, <2>1, <2>2, <2>4, Zenon DEF T
<1>6. /\ calls[d][1] = g /\ calls[d][2] = s
  BY <1>2, Zenon DEF Filter!Top
<1>7. AtStars(gl, n, m, calls, d)
  <2>1. \A k \in 1 .. d : k \in 1 .. d - 1 \/ k = d
    OBVIOUS
  <2>2. QED
    BY <1>2, <1>3, <1>6, <2>1, Zenon DEF AtStars
<1>8. Later(gl, n, buf, m, calls, d) <=>
        FitsAfter(gl, n, buf, m, g - 1, s) \/ Later(gl, n, buf, m, calls, d - 1)
  <2>1. d \in 1 .. d /\ (\A k \in 1 .. d : k \in 1 .. d - 1 \/ k = d)
        /\ (\A k \in 1 .. d - 1 : k \in 1 .. d)
    OBVIOUS
  <2>2. QED
    BY <1>6, <2>1, Zenon DEF Later
<1>9. Sound(gl, n, buf, m, calls', d + 1, -1)
  <2>1. PICK e \in Nat \ {0}, h \in 1 .. n + 1 : e = d + 1 /\ e - 1 = d /\ h = g + 1 /\ h - 1 = g
    BY <1>3
  <2>2. FitsAfter(gl, n, buf, m, 0, 0) <=>
          FitsAfter(gl, n, buf, m, h - 1, s - 1) \/ Later(gl, n, buf, m, calls, e - 1)
    BY <1>2, <1>4, <1>8, <2>1, Zenon
  <2>3. (\A k \in 1 .. e - 1 : calls'[k] = calls[k]) /\ calls'[e] = <<h, s>>
    BY <1>5, <2>1, Zenon
  <2>4. AtStars(gl, n, m, calls, e - 1) /\ s \in 1 .. m + 1
    BY <1>2, <1>7, <2>1, Zenon
  <2>5. Sound(gl, n, buf, m, calls', e, -1)
    BY ONLY n \in Nat, m \in Nat, e \in Nat \ {0}, h \in 1 .. n + 1, <2>2, <2>3, <2>4, Moved, Zenon
  <2>6. QED
    BY <2>1, <2>5, Zenon
<1>10. returned' = -1
  BY DEF Filter!Star, Filter!Running
<1>11. QED
  BY <1>1, <1>2, <1>5, <1>9, <1>10, CallsKeep, Zenon

(* The innermost call goes to another place. *)
LEMMA GotoKeeps ==
  ASSUME MatchInv, phase = "done", UNCHANGED <<filters, i, buf, phase>>, calls # <<>>,
         NEW gl, NEW n \in Nat, NEW m \in Nat, NEW d \in Nat \ {0},
         gl = filters[i], n = Len(gl), m = Len(buf), d = Len(calls),
         NEW g \in 1 .. n + 1, NEW s \in 1 .. m + 1, Filter!Goto(g, s), returned' = -1,
         AtStars(gl, n, m, calls, d - 1),
         FitsAfter(gl, n, buf, m, 0, 0) <=>
           FitsAfter(gl, n, buf, m, g - 1, s - 1) \/ Later(gl, n, buf, m, calls, d - 1)
  PROVE  MatchInv'
<1>1. calls \in Seq(Nat \X Nat) /\ i <= Len(filters)
  BY Zenon DEF MatchInv
<1>2. g \in Nat /\ s \in Nat
  OBVIOUS
<1>3. /\ calls' \in Seq(Nat \X Nat) /\ Len(calls') = d /\ calls'[d] = <<g, s>>
      /\ \A k \in 1 .. d - 1 : calls'[k] = calls[k]
  BY <1>1, <1>2, GotoIs, Zenon
<1>4. Sound(gl, n, buf, m, calls', d, -1)
  BY <1>3, Moved, Zenon
<1>5. QED
  BY <1>1, <1>3, <1>4, CallsKeep, Zenon

(* The innermost call is over. *)
LEMMA LeaveKeeps ==
  ASSUME MatchInv, phase = "done", UNCHANGED <<filters, i, buf, phase>>, calls # <<>>,
         NEW gl, NEW n \in Nat, NEW m \in Nat, NEW d \in Nat \ {0},
         gl = filters[i], n = Len(gl), m = Len(buf), d = Len(calls),
         NEW ret \in {0, 1}, Filter!Return(ret),
         AtStars(gl, n, m, calls, d - 1),
         ret = 1 => FitsAfter(gl, n, buf, m, 0, 0),
         ret = 0 => (FitsAfter(gl, n, buf, m, 0, 0) <=> Later(gl, n, buf, m, calls, d - 1))
  PROVE  MatchInv'
<1>1. calls \in Seq(Nat \X Nat) /\ i <= Len(filters)
  BY Zenon DEF MatchInv
<1>2. /\ calls' \in Seq(Nat \X Nat) /\ Len(calls') = d - 1 /\ returned' = ret
      /\ \A k \in 1 .. d - 1 : calls'[k] = calls[k]
  BY <1>1, ReturnIs, Zenon
<1>3. Sound(gl, n, buf, m, calls', d - 1, ret)
  <2>1. /\ AtStars(gl, n, m, calls, d - 1)
        /\ ret = 1 => FitsAfter(gl, n, buf, m, 0, 0)
        /\ ret = 0 => (FitsAfter(gl, n, buf, m, 0, 0) <=> Later(gl, n, buf, m, calls, d - 1))
    OBVIOUS
  <2>2. QED
    BY ONLY n \in Nat, m \in Nat, d \in Nat \ {0}, ret \in {0, 1}, <1>2, <2>1, Returned, Zenon
<1>4. ret \in {-1, 0, 1}
  OBVIOUS
<1>5. QED
  BY <1>1, <1>2, <1>3, <1>4, CallsKeep, Zenon

(* Single: the character fits, or the call fails. *)
LEMMA SingleKeeps ==
  ASSUME MatchInv, phase = "done", buf \in Seq(Chars), Filter!Single, UNCHANGED pathVars
  PROVE  MatchInv'
<1>1. UNCHANGED <<filters, i, buf, phase>> /\ calls \in Seq(Nat \X Nat) /\ calls # <<>>
  BY DEF Filter!Single, Filter!Running, MatchInv, pathVars
<1>2. PICK gl \in Seq(Chars \cup {"*", "?"}), n \in Nat, m \in Nat, d \in Nat \ {0},
        g \in Nat, s \in Nat :
        /\ gl = filters[i] /\ n = Len(gl) /\ m = Len(buf) /\ d = Len(calls)
        /\ g \in 1 .. n + 1 /\ s \in 1 .. m + 1 /\ Filter!Top[1] = g /\ Filter!Top[2] = s
        /\ Filter!G = IF g <= n THEN gl[g] ELSE "NUL"
        /\ Filter!S = IF s <= m THEN buf[s] ELSE "NUL"
        /\ AtStars(gl, n, m, calls, d - 1)
        /\ FitsAfter(gl, n, buf, m, 0, 0) <=>
             FitsAfter(gl, n, buf, m, g - 1, s - 1) \/ Later(gl, n, buf, m, calls, d - 1)
  BY RunningIs, Zenon DEF Filter!Single
<1>3. Filter!S # "NUL" /\ Filter!G # "*" /\ returned = -1
  BY DEF Filter!Single, Filter!Running
<1>4. s \in 1 .. m /\ Filter!S = buf[s] /\ s - 1 \in 0 .. m /\ s - 1 < m /\ s - 1 + 1 = s /\ s - 1 # m
  <2>1. s <= m
    BY <1>2, <1>3, Zenon
  <2>2. QED
    BY <1>2, <2>1
<1>5. CASE g = n + 1
  <2>1. Filter!G = "NUL" /\ g - 1 = n
    BY <1>2, <1>5
  <2>2. buf[s] \in Chars
    BY <1>2, <1>4
  <2>3. Filter!G \notin {"?", Filter!S}
    BY <1>4, <2>1, <2>2, FilterAssumption
  <2>4. ~FitsAfter(gl, n, buf, m, g - 1, s - 1)
    BY <1>4, <2>1, FitsAtEnd
  <2>5. Filter!Return(0)
    BY <2>3, Zenon DEF Filter!Single
  <2>6. 0 \in {0, 1} /\ 0 # 1
    OBVIOUS
  <2>7. QED
    BY <1>1, <1>2, <2>4, <2>5, <2>6, LeaveKeeps, Zenon
<1>6. CASE g # n + 1
  <2>1. /\ g \in 1 .. n /\ Filter!G = gl[g] /\ g - 1 \in 0 .. n - 1 /\ g - 1 + 1 = g
        /\ g + 1 \in 1 .. n + 1 /\ s + 1 \in 1 .. m + 1 /\ g + 1 - 1 = g /\ s + 1 - 1 = s
    BY <1>2, <1>4, <1>6
  <2>2. FitsAfter(gl, n, buf, m, g - 1, s - 1) <=>
          gl[g] \in {"?", buf[s]} /\ FitsAfter(gl, n, buf, m, g, s)
    <3>1. PICK a \in 0 .. n - 1, b \in 0 .. m : a = g - 1 /\ b = s - 1 /\ a + 1 = g /\ b + 1 = s
      BY <1>4, <2>1, Zenon
    <3>2. gl[a + 1] # "*"
      BY <1>3, <2>1, <3>1, Zenon
    <3>3. FitsAfter(gl, n, buf, m, a, b) <=>
            b < m /\ gl[a + 1] \in {"?", buf[b + 1]} /\ FitsAfter(gl, n, buf, m, a + 1, b + 1)
      BY ONLY n \in Nat, m \in Nat, a \in 0 .. n - 1, b \in 0 .. m, <3>2, FitsSingle, Zenon
    <3>4. QED
      BY <1>4, <3>1, <3>3, Zenon
  <2>3. CASE gl[g] \in {"?", buf[s]}
    <3>1. PICK h \in 1 .. n + 1, e \in 1 .. m + 1 : h = g + 1 /\ e = s + 1 /\ h - 1 = g /\ e - 1 = s
      BY <2>1
    <3>2. Filter!Goto(h, e) /\ returned' = -1
      BY <1>2, <1>3, <1>4, <2>1, <2>3, <3>1, Zenon DEF Filter!Single
    <3>3. FitsAfter(gl, n, buf, m, 0, 0) <=>
            FitsAfter(gl, n, buf, m, h - 1, e - 1) \/ Later(gl, n, buf, m, calls, d - 1)
      BY <1>2, <2>2, <2>3, <3>1, Zenon
    <3>4. QED
      BY <1>1, <1>2, <3>2, <3>3, GotoKeeps, Zenon
  <2>4. CASE gl[g] \notin {"?", buf[s]}
    <3>1. Filter!Return(0)
      BY <1>4, <2>1, <2>4, Zenon DEF Filter!Single
    <3>2. 0 \in {0, 1} /\ 0 # 1
      OBVIOUS
    <3>3. ~FitsAfter(gl, n, buf, m, g - 1, s - 1)
      BY <2>2, <2>4
    <3>4. QED
      BY <1>1, <1>2, <3>1, <3>2, <3>3, LeaveKeeps, Zenon
  <2>5. QED
    BY <2>3, <2>4
<1>7. QED
  BY <1>5, <1>6

(* EndOfString: stars are passed, and then the glob must be at its end. *)
LEMMA EndKeeps ==
  ASSUME MatchInv, phase = "done", buf \in Seq(Chars), Filter!EndOfString, UNCHANGED pathVars
  PROVE  MatchInv'
<1>1. UNCHANGED <<filters, i, buf, phase>> /\ calls \in Seq(Nat \X Nat) /\ calls # <<>>
  BY DEF Filter!EndOfString, Filter!Running, MatchInv, pathVars
<1>2. PICK gl \in Seq(Chars \cup {"*", "?"}), n \in Nat, m \in Nat, d \in Nat \ {0},
        g \in Nat, s \in Nat :
        /\ gl = filters[i] /\ n = Len(gl) /\ m = Len(buf) /\ d = Len(calls)
        /\ g \in 1 .. n + 1 /\ s \in 1 .. m + 1 /\ Filter!Top[1] = g /\ Filter!Top[2] = s
        /\ Filter!G = IF g <= n THEN gl[g] ELSE "NUL"
        /\ Filter!S = IF s <= m THEN buf[s] ELSE "NUL"
        /\ AtStars(gl, n, m, calls, d - 1)
        /\ FitsAfter(gl, n, buf, m, 0, 0) <=>
             FitsAfter(gl, n, buf, m, g - 1, s - 1) \/ Later(gl, n, buf, m, calls, d - 1)
  BY RunningIs, Zenon DEF Filter!EndOfString
<1>3. Filter!S = "NUL" /\ returned = -1
  BY DEF Filter!EndOfString, Filter!Running
<1>4. s = m + 1 /\ s - 1 = m /\ m \in 0 .. m /\ ~(m < m)
  <2>1. s \in 1 .. m => buf[s] \in Chars
    BY <1>2
  <2>2. s \in 1 .. m => Filter!S = buf[s]
    BY <1>2
  <2>3. s \notin 1 .. m
    BY <1>3, <2>1, <2>2, FilterAssumption
  <2>4. QED
    BY <1>2, <2>3
<1>5. 0 \in {0, 1} /\ 1 \in {0, 1} /\ 0 # 1
  OBVIOUS
<1>6. CASE g = n + 1
  <2>1. Filter!G = "NUL" /\ g - 1 = n
    BY <1>2, <1>6
  <2>2. FitsAfter(gl, n, buf, m, g - 1, s - 1)
    BY <1>4, <2>1, FitsAtEnd
  <2>3. Filter!Return(1)
    BY <2>1 DEF Filter!EndOfString
  <2>4. QED
    BY <1>1, <1>2, <1>5, <2>2, <2>3, LeaveKeeps, Zenon
<1>7. CASE g # n + 1
  <2>1. /\ g \in 1 .. n /\ Filter!G = gl[g] /\ g - 1 \in 0 .. n - 1 /\ g - 1 + 1 = g
        /\ g + 1 \in 1 .. n + 1 /\ g + 1 - 1 = g
    BY <1>2, <1>7
  <2>2. gl[g] # "NUL"
    <3>1. gl[g] \in Chars \cup {"*", "?"}
      BY <1>2, <2>1
    <3>2. QED
      BY <3>1, FilterAssumption
  <2>3. PICK a \in 0 .. n - 1 : a = g - 1 /\ a + 1 = g
    BY <2>1, Zenon
  <2>4. CASE gl[g] = "*"
    <3>1. PICK h \in 1 .. n + 1 : h = g + 1 /\ h - 1 = g
      BY <2>1
    <3>2. Filter!Goto(h, s) /\ returned' = -1
      BY <1>2, <1>3, <2>1, <2>4, <3>1 DEF Filter!EndOfString
    <3>3. FitsAfter(gl, n, buf, m, a, m) <=> FitsAfter(gl, n, buf, m, a + 1, m)
      <4>1. gl[a + 1] = "*"
        BY <2>3, <2>4, Zenon
      <4>2. FitsAfter(gl, n, buf, m, a, m) <=>
              FitsAfter(gl, n, buf, m, a + 1, m) \/ (m < m /\ FitsAfter(gl, n, buf, m, a, m + 1))
        BY ONLY n \in Nat, m \in Nat, a \in 0 .. n - 1, m \in 0 .. m, <4>1, FitsStar, Zenon
      <4>3. QED
        BY <1>4, <4>2, Zenon
    <3>4. FitsAfter(gl, n, buf, m, 0, 0) <=>
            FitsAfter(gl, n, buf, m, h - 1, s - 1) \/ Later(gl, n, buf, m, calls, d - 1)
      BY <1>2, <1>4, <2>3, <3>1, <3>3, Zenon
    <3>5. QED
      BY <1>1, <1>2, <3>2, <3>4, GotoKeeps, Zenon
  <2>5. CASE gl[g] # "*"
    <3>1. Filter!Return(0)
      BY <2>1, <2>2, <2>5, Zenon DEF Filter!EndOfString
    <3>2. ~FitsAfter(gl, n, buf, m, g - 1, s - 1)
      <4>1. gl[a + 1] # "*"
        BY <2>3, <2>5, Zenon
      <4>2. ~FitsAfter(gl, n, buf, m, a, m)
        BY <1>4, <4>1, FitsSingle, Zenon
      <4>3. QED
        BY <1>4, <2>3, <4>2, Zenon
    <3>3. QED
      BY <1>1, <1>2, <1>5, <3>1, <3>2, LeaveKeeps, Zenon
  <2>6. QED
    BY <2>4, <2>5
<1>8. QED
  BY <1>6, <1>7

(* StarDone: the call has matched, or its star takes a character. *)
LEMMA StarDoneKeeps ==
  ASSUME MatchInv, phase = "done", buf \in Seq(Chars), Filter!StarDone, UNCHANGED pathVars
  PROVE  MatchInv'
<1>1. UNCHANGED <<filters, i, buf, phase>> /\ calls \in Seq(Nat \X Nat) /\ calls # <<>>
  BY DEF Filter!StarDone, Filter!Running, MatchInv, pathVars
<1>2. PICK gl \in Seq(Chars \cup {"*", "?"}), n \in Nat, m \in Nat, d \in Nat \ {0} :
        /\ gl = filters[i] /\ n = Len(gl) /\ m = Len(buf) /\ d = Len(calls)
        /\ Sound(gl, n, buf, m, calls, d, returned)
  BY <1>1, CallsAre, Zenon
<1>3. returned # -1
  BY DEF Filter!StarDone
<1>4. AtStars(gl, n, m, calls, d) /\ Answers(gl, n, buf, m, calls, d, returned)
  BY <1>2, <1>3, Zenon DEF Sound
<1>5. d \in 1 .. d /\ (\A k \in 1 .. d - 1 : k \in 1 .. d) /\ \A k \in 1 .. d : k \in 1 .. d - 1 \/ k = d
  OBVIOUS
<1>6. AtStars(gl, n, m, calls, d - 1)
  BY <1>4, <1>5, Zenon DEF AtStars
<1>7. CASE returned = 1
  <2>1. Filter!Return(1) /\ 1 # 0 /\ 1 \in {0, 1}
    BY <1>7 DEF Filter!StarDone
  <2>2. FitsAfter(gl, n, buf, m, 0, 0)
    BY <1>4, <1>7, Zenon DEF Answers
  <2>3. QED
    BY <1>1, <1>2, <1>6, <2>1, <2>2, LeaveKeeps, Zenon
<1>8. CASE returned = 0
  <2>1. PICK g, s : g = calls[d][1] /\ s = calls[d][2] /\ g = Filter!Top[1] /\ s = Filter!Top[2]
    BY <1>2, Zenon DEF Filter!Top
  <2>2. g \in 1 .. n /\ s \in 1 .. m
    BY <1>4, <1>5, <2>1, Zenon DEF AtStars
  <2>3. PICK h \in 1 .. n + 1, e \in 1 .. m + 1 : h = g /\ e = s + 1 /\ e - 1 = s
    BY <2>2
  <2>4. Filter!Goto(h, e) /\ returned' = -1
    BY <1>8, <2>1, <2>3 DEF Filter!StarDone
  <2>5. FitsAfter(gl, n, buf, m, 0, 0) <=> Later(gl, n, buf, m, calls, d)
    BY <1>4, <1>8, Zenon DEF Answers
  <2>6. Later(gl, n, buf, m, calls, d) <=>
          FitsAfter(gl, n, buf, m, g - 1, s) \/ Later(gl, n, buf, m, calls, d - 1)
    BY <1>5, <2>1, Zenon DEF Later
  <2>7. FitsAfter(gl, n, buf, m, 0, 0) <=>
          FitsAfter(gl, n, buf, m, h - 1, e - 1) \/ Later(gl, n, buf, m, calls, d - 1)
    BY <2>3, <2>5, <2>6, Zenon
  <2>8. QED
    BY <1>1, <1>2, <1>6, <2>4, <2>7, GotoKeeps, Zenon
<1>9. QED
  BY <1>7, <1>8 DEF Filter!StarDone

(* NextFilter: the first call, at the start of both. *)
LEMMA NextFilterKeeps ==
  ASSUME MatchInv, phase = "done", buf \in Seq(Chars), Filter!NextFilter, UNCHANGED pathVars
  PROVE  MatchInv'
<1>1. /\ UNCHANGED <<filters, i, buf, phase>> /\ calls' = <<<<1, 1>>>> /\ returned' = -1
      /\ i <= Len(filters)
  BY DEF Filter!NextFilter, pathVars
<1>2. filters[i] \in Seq(Chars \cup {"*", "?"})
  BY <1>1 DEF MatchInv
<1>a. PICK gl : gl = filters[i]
  OBVIOUS
<1>b. PICK n \in Nat : n = Len(gl)
  BY <1>2, <1>a
<1>c. PICK m \in Nat : m = Len(buf)
  OBVIOUS
<1>3. gl = filters[i] /\ n = Len(gl) /\ m = Len(buf)
  BY <1>a, <1>b, <1>c
<1>4. <<<<1, 1>>>> \in Seq(Nat \X Nat) /\ Len(<<<<1, 1>>>>) = 1 /\ <<<<1, 1>>>>[1] = <<1, 1>>
  <2>1. <<1, 1>> \in Nat \X Nat
    OBVIOUS
  <2>2. QED
    BY <2>1
<1>5. 1 \in Nat \ {0} /\ 1 - 1 = 0 /\ 1 \in 1 .. n + 1 /\ 1 \in 1 .. m + 1 /\ 1 .. 0 = {}
  OBVIOUS
<1>6. AtStars(gl, n, m, calls, 1 - 1)
  BY <1>5, Zenon DEF AtStars
<1>7. FitsAfter(gl, n, buf, m, 0, 0) <=>
        FitsAfter(gl, n, buf, m, 1 - 1, 1 - 1) \/ Later(gl, n, buf, m, calls, 1 - 1)
  BY <1>5, Zenon DEF Later
<1>8. \A k \in 1 .. 1 - 1 : calls'[k] = calls[k]
  BY <1>5, Zenon
<1>9. calls'[1] = <<1, 1>>
  BY <1>1, <1>4, Zenon
<1>10. Sound(gl, n, buf, m, calls', 1, -1)
  BY ONLY n \in Nat, m \in Nat, <1>5, <1>6, <1>7, <1>8, <1>9, Moved, Zenon
<1>11. -1 \in {-1, 0, 1} /\ Len(calls') = 1 /\ calls' \in Seq(Nat \X Nat)
  BY <1>1, <1>4
<1>12. QED
  BY <1>1, <1>3, <1>10, <1>11, CallsKeep, Zenon

(* FilterDone: the filter does not fit, and the next one is tried. *)
LEMMA FilterDoneKeeps ==
  ASSUME MatchInv, phase = "done", buf \in Seq(Chars), Filter!FilterDone, UNCHANGED pathVars
  PROVE  MatchInv'
<1>1. /\ UNCHANGED <<filters, buf, phase, calls>> /\ calls = <<>> /\ returned = 0 /\ returned' = -1
      /\ i' = i + 1 /\ i <= Len(filters)
  BY DEF Filter!FilterDone, pathVars
<1>2. filters[i] \in Seq(Chars \cup {"*", "?"}) /\ i \in Nat \ {0}
  BY <1>1 DEF MatchInv
<1>3. PICK gl : gl = filters[i]
  OBVIOUS
<1>4. Len(calls) = 0 /\ 1 .. 0 = {} /\ 0 # -1
  BY <1>1
<1>5. Sound(gl, Len(gl), buf, Len(buf), calls, 0, 0)
  BY <1>1, <1>3, <1>4, Zenon DEF MatchInv, SoundCalls
<1>6. ~FitsAfter(gl, Len(gl), buf, Len(buf), 0, 0)
  BY <1>4, <1>5, Zenon DEF Sound, Answers, Later
<1>7. ~Filter!Fits(filters[i], buf)
  BY <1>3, <1>6, FitsIs, Zenon
<1>8. \A k \in 1 .. i' - 1 : k \in 1 .. i - 1 \/ k = i
  BY <1>1, <1>2
<1>9. \A k \in 1 .. i' - 1 : ~Filter!Fits(filters[k], buf)
  BY <1>7, <1>8, Zenon DEF MatchInv
<1>10. (\A k \in 1 .. i - 1 : ~Filter!Fits(filters[k], buf))'
  BY <1>1, <1>9, Zenon
<1>11. i' \in Nat \ {0} /\ i' <= Len(filters) + 1 /\ -1 \in {-1, 0, 1}
  <2>1. Len(filters) \in Nat
    BY DEF MatchInv
  <2>2. QED
    BY <1>1, <1>2, <2>1
<1>12. QED
  BY <1>1, <1>10, <1>11, Zenon DEF MatchInv

(* Every step of matches_filter. *)
LEMMA MatchKeeps ==
  ASSUME MatchInv, phase = "done", buf \in Seq(Chars), Filter!Next, UNCHANGED pathVars
  PROVE  MatchInv'
  BY NextFilterKeeps, FilterDoneKeeps, StarKeeps, StarDoneKeeps, SingleKeeps, EndKeeps, Zenon
     DEF Filter!Next, Filter!match_glob

(* The filters wait until the path is collapsed. *)
LEMMA MatchWaits ==
  ASSUME MatchInv, phase # "done", UNCHANGED filterVars
  PROVE  MatchInv'
<1>1. UNCHANGED <<filters, i, calls, returned>>
  BY DEF filterVars
<1>2. i = 1 /\ calls = <<>> /\ returned = -1 /\ 1 .. 1 - 1 = {}
  BY DEF MatchInv
<1>3. \A k \in 1 .. i' - 1 : FALSE
  BY <1>1, <1>2
<1>4. QED
  BY <1>1, <1>2, <1>3, Zenon DEF MatchInv

LEMMA MatchStarts == FilterInit => MatchInv
<1> SUFFICES ASSUME FilterInit PROVE MatchInv
  OBVIOUS
<1>1. phase = "copy" /\ i = 1 /\ calls = <<>> /\ returned = -1
  BY DEF FilterInit, PathInit, Filter!Init
<1>2. filters \in Seq(Seq(Chars \cup {"*", "?"}))
  <2> DEFINE T == Chars \cup {"*", "?"}
  <2>1. Filter!Globs \subseteq Seq(T)
    BY DEF Filter!Globs
  <2>2. <<>> \in Seq(Seq(T))
    OBVIOUS
  <2>3. filters \in UNION {[1 .. n -> Filter!Globs] : n \in 0 .. MaxFilters} \/ filters = <<>>
    BY DEF FilterInit, Filter!FilterLists
  <2> HIDE DEF T
  <2>4. ASSUME filters \in UNION {[1 .. n -> Filter!Globs] : n \in 0 .. MaxFilters}
        PROVE  filters \in Seq(Seq(T))
    <3>1. PICK n \in 0 .. MaxFilters : filters \in [1 .. n -> Filter!Globs]
      BY <2>4
    <3>2. n \in Nat
      BY FilterAssumption
    <3>3. filters \in [1 .. n -> Seq(T)]
      BY <2>1, <3>1
    <3>4. QED
      BY <3>2, <3>3
  <2>5. QED
    BY <2>2, <2>3, <2>4, Zenon DEF T
<1>3. i \in Nat \ {0} /\ i <= Len(filters) + 1 /\ phase # "done" /\ -1 \in {-1, 0, 1}
  BY <1>1, <1>2
<1>4. <<>> \in Seq(Nat \X Nat)
  OBVIOUS
<1>5. QED
  BY <1>1, <1>2, <1>3, <1>4, Zenon DEF MatchInv

(* What the invariant says at the end. *)
LEMMA MatchDecides ==
  ASSUME MatchInv, phase = "done", buf \in Seq(Chars)
  PROVE  Filter!Decides
<1> SUFFICES ASSUME Filter!Finished
             PROVE  Filter!Matched <=> \/ filters = <<>>
                                       \/ \E k \in 1 .. Len(filters) : Filter!Fits(filters[k], buf)
  BY DEF Filter!Decides
<1>1. calls = <<>> /\ i \in Nat \ {0}
  BY DEF Filter!Finished, MatchInv
<1>2. CASE returned = 1
  <2>1. i <= Len(filters) /\ SoundCalls
    BY <1>2 DEF MatchInv
  <2>2. Len(filters) \in Nat
    BY DEF MatchInv
  <2>3. i \in 1 .. Len(filters)
    BY <1>1, <2>1, <2>2
  <2>4. Filter!Fits(filters[i], buf)
    BY <1>2, <2>1, FitsIs, Zenon DEF SoundCalls, Sound, Answers
  <2>5. QED
    BY <1>1, <1>2, <2>3, <2>4, Zenon DEF Filter!Matched
<1>3. CASE returned # 1
  <2>1. i > Len(filters) /\ i <= Len(filters) + 1 /\ Len(filters) \in Nat
    BY <1>3 DEF Filter!Finished, MatchInv
  <2>2. 1 .. Len(filters) = 1 .. i - 1
    BY <1>1, <2>1
  <2>3. QED
    BY <1>1, <1>3, <2>2, Zenon DEF Filter!Matched, MatchInv
<1>4. QED
  BY <1>2, <1>3

(* Nothing happens. *)
LEMMA MatchStays ==
  ASSUME MatchInv, UNCHANGED <<pathVars, filterVars>>
  PROVE  MatchInv'
<1>1. UNCHANGED <<filters, i, calls, returned, buf, phase>>
  BY DEF pathVars, filterVars
<1>2. SoundCalls => SoundCalls'
  BY <1>1, Zenon DEF SoundCalls
<1>3. QED
  BY <1>1, <1>2, Zenon DEF MatchInv

-----------------------------------------------------------------------------
FilterInv == PathInv /\ NormalInv /\ MatchInv

(* A path is collapsed to the path that entering its components one by one *)
(* leads to, and matches exactly when there are no filters or it fits one  *)
(* of them: for every path, and every list of filters.                     *)
THEOREM MatchesWhatFits == FilterSpec => []MatchesFits
<1>1. FilterInit => FilterInv
  <2> SUFFICES ASSUME FilterInit PROVE FilterInv
    OBVIOUS
  <2>1. PathInit /\ MatchInv
    BY MatchStarts DEF FilterInit
  <2>2. PathInv /\ NormalInv
    BY <2>1, PathStarts, NormalStarts, Zenon DEF PathInv
  <2>3. QED
    BY <2>1, <2>2 DEF FilterInv
<1>2. FilterInv /\ [FilterNext]_<<pathVars, filterVars>> => FilterInv'
  <2> SUFFICES ASSUME FilterInv, [FilterNext]_<<pathVars, filterVars>> PROVE FilterInv'
    OBVIOUS
  <2>1. /\ PathInv /\ NormalInv /\ MatchInv
        /\ Bounds /\ Unread /\ buf \in Seq(Chars)
    BY DEF FilterInv, PathInv, Bounds
  <2>2. CASE PathNext /\ UNCHANGED filterVars
    <3>1. phase # "done"
      BY <2>2 DEF PathNext, Copy, WalkBack, Terminate
    <3>2. PathInv'
      BY <2>1, <2>2, PathSteps, Zenon
    <3>3. NormalInv'
      BY <2>1, <2>2, PathNormal, Zenon
    <3>4. MatchInv'
      BY <2>1, <2>2, <3>1, MatchWaits, Zenon
    <3>5. QED
      BY <3>2, <3>3, <3>4 DEF FilterInv
  <2>3. CASE matches_filter
    <3>1. phase = "done" /\ Filter!Next /\ UNCHANGED pathVars
      BY <2>3, Zenon DEF matches_filter
    <3>2. PathInv' /\ NormalInv'
      BY <2>1, <3>1, PathSteps, NormalStays, Zenon
    <3>3. MatchInv'
      BY <2>1, <3>1, MatchKeeps, Zenon
    <3>4. QED
      BY <3>2, <3>3 DEF FilterInv
  <2>4. CASE UNCHANGED <<pathVars, filterVars>>
    <3>1. UNCHANGED pathVars
      BY <2>4
    <3>2. PathInv' /\ NormalInv'
      BY <2>1, <3>1, PathSteps, NormalStays, Zenon
    <3>3. MatchInv'
      BY <2>1, <2>4, MatchStays, Zenon
    <3>4. QED
      BY <3>2, <3>3 DEF FilterInv
  <2>5. QED
    BY <2>2, <2>3, <2>4 DEF FilterNext
<1>3. FilterInv => MatchesFits
  <2> SUFFICES ASSUME FilterInv, phase = "done" PROVE buf = Normal(given) /\ Filter!Decides
    BY DEF MatchesFits
  <2>1. NormalInv /\ MatchInv /\ buf \in Seq(Chars)
    BY DEF FilterInv, PathInv, Bounds
  <2>2. buf = Normal(given)
    BY <2>1, Zenon DEF NormalInv
  <2>3. Filter!Decides
    BY <2>1, MatchDecides, Zenon
  <2>4. QED
    BY <2>2, <2>3
<1>4. QED
  BY <1>1, <1>2, <1>3, PTL DEF FilterSpec
=============================================================================
