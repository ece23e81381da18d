---------------------------- MODULE ReaderProofs ----------------------------
(***************************************************************************)
(* The theorems about Reader that need its two lists, for every archive,   *)
(* every set of paths and every order of the calls of a client that uses   *)
(* each file once.                                                         *)
(*                                                                         *)
(* The stack of directories and the deferred links are threaded through    *)
(* the one _next field of the headers.  First: what pushing, popping,      *)
(* inserting in order and taking the first do to such lists.  Then a call  *)
(* has one of a few effects on them, they stay two lists, the reference    *)
(* counts stay exact, and with that every step is a StepEffect, from which *)
(* ReaderStepProofs draws the rest.                                        *)
(***************************************************************************)
EXTENDS ReaderStepProofs, WellFoundedInduction

-----------------------------------------------------------------------------
(* Linked lists *)

(* A set that holds 0, and n + 1 with every n below N, holds every number  *)
(* up to N.                                                                *)
LEMMA BoundedSetInduction ==
  ASSUME NEW N \in Nat, NEW S, 0 \in S, \A n \in 0 .. N - 1 : n \in S => n + 1 \in S
  PROVE  0 .. N \subseteq S
<1> DEFINE R == OpToRel(<, Nat)
<1> DEFINE T == (0 .. N) \ S
<1>1. IsWellFoundedOn(R, Nat)
  BY NatLessThanWellFounded, Zenon
<1>2. \A y, x \in Nat : y < x => <<y, x>> \in R
  BY DEF OpToRel
<1>3. SUFFICES ASSUME T # {} PROVE FALSE
  OBVIOUS
<1>4. T \subseteq Nat
  OBVIOUS
<1> HIDE DEF R
<1>5. PICK x \in T : \A y \in T : ~ (<<y, x>> \in R)
  BY <1>1, <1>3, <1>4, WFMin, Zenon
<1>6. x \in 1 .. N /\ x - 1 \in 0 .. N - 1 /\ x - 1 + 1 = x
  OBVIOUS
<1>7. x \in Nat /\ x - 1 \in Nat /\ x - 1 < x
  BY <1>6
<1>8. x - 1 \in S
  <2>1. <<x - 1, x>> \in R
    BY <1>2, <1>7, Zenon
  <2>2. x - 1 \notin T
    BY <1>5, <2>1, Zenon
  <2>3. QED
    BY <1>6, <2>2
<1>9. QED
  BY <1>5, <1>6, <1>8

(* The first n places hold different numbers of 1 .. N. *)
Distinct(n, N, s) ==
  /\ n \in Nat /\ s \in [1 .. n -> 1 .. N]
  /\ \A i, j \in 1 .. n : s[i] = s[j] => i = j

(* There are no more than N such places. *)
LEMMA DistinctBound ==
  ASSUME NEW N \in Nat, NEW n, NEW s, Distinct(n, N, s)
  PROVE  n <= N
<1> DEFINE S == {M \in 0 .. N : \A m, t : Distinct(m, M, t) => m <= M}
<1>1. 0 \in S
  <2>1. ASSUME NEW m, NEW t, Distinct(m, 0, t) PROVE m <= 0
    BY <2>1 DEF Distinct
  <2>2. QED
    BY <2>1
<1>2. ASSUME NEW M \in 0 .. N - 1, M \in S PROVE M + 1 \in S
  <2>1. ASSUME NEW m, NEW t, Distinct(m, M + 1, t), m # 0 PROVE m <= M + 1
    <3> DEFINE u == [i \in 1 .. m - 1 |-> IF t[i] = M + 1 THEN t[m] ELSE t[i]]
    <3>1. /\ m \in Nat /\ m - 1 \in Nat /\ t \in [1 .. m -> 1 .. M + 1]
          /\ \A i, j \in 1 .. m : t[i] = t[j] => i = j
      BY <2>1 DEF Distinct
    <3>2. ASSUME NEW i \in 1 .. m - 1
          PROVE  u[i] \in 1 .. M /\ u[i] = IF t[i] = M + 1 THEN t[m] ELSE t[i]
      <4>1. i \in 1 .. m /\ m \in 1 .. m /\ i # m
        BY <3>1
      <4>2. t[i] \in 1 .. M + 1 /\ t[m] \in 1 .. M + 1 /\ t[i] # t[m]
        BY <3>1, <4>1
      <4>3. QED
        BY <4>2
    <3>3. ASSUME NEW i \in 1 .. m - 1, NEW j \in 1 .. m - 1, u[i] = u[j] PROVE i = j
      <4> HIDE DEF u
      <4>1. i \in 1 .. m /\ j \in 1 .. m /\ m \in 1 .. m /\ i # m /\ j # m
        BY <3>1
      <4>2. QED
        BY <3>1, <3>2, <3>3, <4>1, Zenon
    <3>4. Distinct(m - 1, M, u)
      BY <3>1, <3>2, <3>3 DEF Distinct
    <3>5. m - 1 <= M
      BY <1>2, <3>4
    <3>6. QED
      BY <3>1, <3>5
  <2>2. \A m, t : Distinct(m, M + 1, t) => m <= M + 1
    BY <2>1
  <2>3. QED
    BY <2>2
<1> HIDE DEF S
<1>3. 0 .. N \subseteq S
  BY <1>1, <1>2, BoundedSetInduction
<1>4. N \in S
  BY <1>3
<1>5. QED
  BY <1>4 DEF S

(* A chain computed step by step. *)
IsChain(link, head, n, f) ==
  f = [k \in 0 .. n |-> IF k = 0 THEN head
                        ELSE IF f[k - 1] = NULL THEN NULL ELSE link[f[k - 1]]]

(* There is one of every length. *)
LEMMA ChainExists ==
  ASSUME NEW link, NEW head, NEW N \in Nat
  PROVE  \E f : IsChain(link, head, N, f)
<1> DEFINE S == {n \in 0 .. N : \E f : IsChain(link, head, n, f)}
<1>1. 0 \in S
  <2> DEFINE f == [k \in 0 .. 0 |-> head]
  <2>1. IsChain(link, head, 0, f)
    BY DEF IsChain
  <2>2. QED
    BY <2>1
<1>2. ASSUME NEW n \in 0 .. N - 1, n \in S PROVE n + 1 \in S
  <2>1. PICK f : IsChain(link, head, n, f)
    BY <1>2
  <2> DEFINE step(v) == IF v = NULL THEN NULL ELSE link[v]
  <2> DEFINE g == [k \in 0 .. n + 1 |-> IF k <= n THEN f[k] ELSE step(f[n])]
  <2>2. /\ \A k \in 0 .. n : g[k] = f[k]
        /\ g[n + 1] = step(f[n])
    OBVIOUS
  <2>3. \A k \in 0 .. n : f[k] = IF k = 0 THEN head ELSE step(f[k - 1])
    BY <2>1 DEF IsChain
  <2>4. ASSUME NEW k \in 0 .. n + 1 PROVE g[k] = IF k = 0 THEN head ELSE step(g[k - 1])
    <3> HIDE DEF g
    <3>1. CASE k = 0
      BY <3>1, <2>2, <2>3
    <3>2. CASE k \in 1 .. n
      <4>1. k - 1 \in 0 .. n /\ k \in 0 .. n /\ k # 0
        BY <3>2
      <4>2. QED
        BY <4>1, <2>2, <2>3
    <3>3. CASE k = n + 1
      <4>1. k - 1 = n /\ k # 0 /\ n \in 0 .. n
        BY <3>3
      <4>2. QED
        BY <4>1, <2>2, <3>3
    <3>4. QED
      BY <3>1, <3>2, <3>3
  <2>5. IsChain(link, head, n + 1, g)
    BY <2>4 DEF IsChain
  <2>6. QED
    BY <2>5
<1> HIDE DEF S
<1>3. 0 .. N \subseteq S
  BY <1>1, <1>2, BoundedSetInduction
<1>4. QED
  BY <1>3 DEF S

(* So the definition of Chain means what it says. *)
LEMMA ChainIsChain ==
  ASSUME NEW link, NEW head, NEW N \in Nat
  PROVE  IsChain(link, head, N, Chain(link, head, N))
<1>1. \E f : IsChain(link, head, N, f)
  BY ChainExists
<1>2. QED
  BY <1>1, Zenon DEF Chain, IsChain

(* The chain from the head of a list is the list, then NULL. *)
LEMMA ChainOfList ==
  ASSUME NEW link, NEW head, NEW N \in Nat, NEW M \in Nat, NEW n, NEW s,
         IsList(link, N, head, n, s)
  PROVE  \A k \in 0 .. M : Chain(link, head, M)[k] = IF k < n THEN s[k + 1] ELSE NULL
<1> DEFINE c == Chain(link, head, M)
<1>1. \A k \in 0 .. M : c[k] = IF k = 0 THEN head
                               ELSE IF c[k - 1] = NULL THEN NULL ELSE link[c[k - 1]]
  BY ChainIsChain DEF IsChain
<1> HIDE DEF c
<1> DEFINE node(k) == IF k < n THEN s[k + 1] ELSE NULL
<1> DEFINE S == {k \in 0 .. M : c[k] = node(k)}
<1>2. 0 \in S
  BY <1>1 DEF IsList
<1>3. ASSUME NEW k \in 0 .. M - 1, k \in S PROVE k + 1 \in S
  <2>1. k + 1 \in 0 .. M /\ c[k] = node(k) /\ n \in Nat
    BY <1>3 DEF IsList
  <2>2. c[k + 1] = IF c[k] = NULL THEN NULL ELSE link[c[k]]
    BY <1>1, <2>1
  <2>3. CASE k < n
    <3>1. k + 1 \in 1 .. n
      BY <2>1, <2>3
    <3>2. s[k + 1] \in 1 .. N /\ link[s[k + 1]] = IF k + 1 = n THEN NULL ELSE s[k + 1 + 1]
      BY <3>1 DEF IsList
    <3>3. c[k + 1] = link[s[k + 1]]
      BY <2>1, <2>2, <2>3, <3>2 DEF NULL
    <3>4. QED
      BY <2>1, <2>3, <3>2, <3>3
  <2>4. CASE ~(k < n)
    BY <2>1, <2>2, <2>4
  <2>5. QED
    BY <2>3, <2>4
<1> HIDE DEF S
<1>4. 0 .. M \subseteq S
  BY <1>2, <1>3, BoundedSetInduction
<1>5. QED
  BY <1>4 DEF S, c

(* What OnList and ListsSeparate say about the head of a list. *)
LEMMA OnListIsNodes ==
  ASSUME NEW link, NEW head, NEW N \in Nat, NEW n, NEW s, IsList(link, N, head, n, s)
  PROVE  /\ {Chain(link, head, N + 1)[k] : k \in 0 .. N + 1} \ {NULL} = Nodes(n, s)
         /\ Chain(link, head, N + 1)[N + 1] = NULL
<1> DEFINE c == Chain(link, head, N + 1)
<1>1. n \in Nat /\ s \in [1 .. n -> 1 .. N] /\ n <= N
  <2>1. Distinct(n, N, s)
    BY Zenon DEF IsList, Distinct
  <2>2. QED
    BY <2>1, DistinctBound, Zenon DEF Distinct
<1>2. \A k \in 0 .. N + 1 : c[k] = IF k < n THEN s[k + 1] ELSE NULL
  <2>1. N + 1 \in Nat
    OBVIOUS
  <2>2. QED
    BY <2>1, ChainOfList, ZenonT(30)
<1> HIDE DEF c
<1>3. c[N + 1] = NULL
  BY <1>1, <1>2
<1>4. ASSUME NEW i \in 1 .. n PROVE s[i] \in {c[k] : k \in 0 .. N + 1} \ {NULL}
  <2>1. i - 1 \in 0 .. N + 1 /\ i - 1 < n /\ i - 1 + 1 = i
    BY <1>1
  <2>2. c[i - 1] = s[i] /\ s[i] # NULL
    BY <1>1, <1>2, <2>1 DEF NULL
  <2>3. QED
    BY <2>1, <2>2
<1>5. ASSUME NEW k \in 0 .. N + 1, c[k] # NULL PROVE c[k] \in Nodes(n, s)
  <2>1. k < n /\ c[k] = s[k + 1]
    BY <1>2, <1>5
  <2>2. k + 1 \in 1 .. n
    BY <1>1, <2>1
  <2>3. QED
    BY <2>1, <2>2 DEF Nodes
<1>6. {c[k] : k \in 0 .. N + 1} \ {NULL} = Nodes(n, s)
  <2>1. Nodes(n, s) \subseteq {c[k] : k \in 0 .. N + 1} \ {NULL}
    BY <1>4 DEF Nodes
  <2>2. {c[k] : k \in 0 .. N + 1} \ {NULL} \subseteq Nodes(n, s)
    BY <1>5
  <2>3. QED
    BY <2>1, <2>2
<1>7. QED
  BY <1>3, <1>6 DEF c

(* A list depends on the links of its own headers only. *)
LEMMA ListFrame ==
  ASSUME NEW link, NEW link2, NEW head, NEW N, NEW n, NEW s, IsList(link, N, head, n, s),
         \A h \in Nodes(n, s) : link2[h] = link[h]
  PROVE  IsList(link2, N, head, n, s)
BY DEF IsList, Nodes

(* A list that is not empty begins with its head. *)
LEMMA HeadOfList ==
  ASSUME NEW link, NEW head, NEW N \in Nat, NEW n, NEW s, IsList(link, N, head, n, s)
  PROVE  /\ n \in Nat /\ Nodes(n, s) \subseteq 1 .. N
         /\ head = NULL <=> Nodes(n, s) = {}
         /\ head # NULL => head \in Nodes(n, s)
<1>1. n \in Nat /\ s \in [1 .. n -> 1 .. N]
  BY DEF IsList
<1>2. Nodes(n, s) \subseteq 1 .. N
  BY <1>1 DEF Nodes
<1>3. CASE n = 0
  BY <1>1, <1>2, <1>3 DEF IsList, Nodes
<1>4. CASE n # 0
  <2>1. 1 \in 1 .. n /\ head = s[1]
    BY <1>1, <1>4 DEF IsList
  <2>2. head \in Nodes(n, s)
    BY <2>1 DEF Nodes
  <2>3. head # NULL
    BY <1>1, <2>1 DEF NULL
  <2>4. QED
    BY <1>1, <1>2, <2>2, <2>3
<1>5. QED
  BY <1>3, <1>4

(* The first header is taken off. *)
LEMMA ListTail ==
  ASSUME NEW link, NEW head, NEW N \in Nat, NEW n, NEW s, IsList(link, N, head, n, s),
         head # NULL
  PROVE  LET t == [i \in 1 .. n - 1 |-> s[i + 1]]
         IN  /\ IsList(link, N, link[head], n - 1, t)
             /\ Nodes(n - 1, t) = Nodes(n, s) \ {head}
             /\ head \in Nodes(n, s)
             /\ n >= 1 /\ head = s[1]
<1> DEFINE t == [i \in 1 .. n - 1 |-> s[i + 1]]
<1>1. /\ n \in Nat /\ n >= 1 /\ n - 1 \in Nat /\ head = s[1] /\ 1 \in 1 .. n
      /\ s \in [1 .. n -> 1 .. N]
      /\ \A i, j \in 1 .. n : s[i] = s[j] => i = j
      /\ \A i \in 1 .. n : link[s[i]] = IF i = n THEN NULL ELSE s[i + 1]
  BY DEF IsList
<1>2. \A i \in 1 .. n - 1 : t[i] = s[i + 1] /\ i + 1 \in 1 .. n /\ t[i] \in 1 .. N
  BY <1>1
<1>3. t \in [1 .. n - 1 -> 1 .. N]
  BY <1>2
<1> HIDE DEF t
<1>4. \A i, j \in 1 .. n - 1 : t[i] = t[j] => i = j
  <2> SUFFICES ASSUME NEW i \in 1 .. n - 1, NEW j \in 1 .. n - 1, t[i] = t[j] PROVE i = j
    OBVIOUS
  <2>1. i + 1 = j + 1
    BY <1>1, <1>2
  <2>2. QED
    BY <1>1, <2>1
<1>5. \A i \in 1 .. n - 1 : link[t[i]] = IF i = n - 1 THEN NULL ELSE t[i + 1]
  <2> SUFFICES ASSUME NEW i \in 1 .. n - 1
               PROVE  link[t[i]] = IF i = n - 1 THEN NULL ELSE t[i + 1]
    OBVIOUS
  <2>1. link[t[i]] = IF i + 1 = n THEN NULL ELSE s[i + 1 + 1]
    BY <1>1, <1>2
  <2>2. i + 1 # n => i + 1 \in 1 .. n - 1
    BY <1>1
  <2>3. QED
    BY <1>1, <1>2, <2>1, <2>2
<1>6. link[head] = IF n - 1 = 0 THEN NULL ELSE t[1]
  BY <1>1, <1>2
<1>7. IsList(link, N, link[head], n - 1, t)
  BY <1>1, <1>3, <1>4, <1>5, <1>6 DEF IsList
<1>8. Nodes(n - 1, t) = Nodes(n, s) \ {head}
  <2>1. ASSUME NEW i \in 1 .. n - 1 PROVE t[i] \in Nodes(n, s) \ {head}
    BY <1>1, <1>2 DEF Nodes
  <2>2. ASSUME NEW i \in 1 .. n, s[i] # head PROVE s[i] \in Nodes(n - 1, t)
    <3>1. i - 1 \in 1 .. n - 1 /\ i - 1 + 1 = i
      BY <1>1, <2>2
    <3>2. t[i - 1] = s[i]
      BY <1>2, <3>1
    <3>3. QED
      BY <3>1, <3>2 DEF Nodes
  <2>3. QED
    BY <2>1, <2>2 DEF Nodes
<1>9. QED
  BY <1>1, <1>7, <1>8 DEF Nodes, t

(* The list s with h put in after its first k headers. *)
Inserted(n, s, k, h) ==
  [i \in 1 .. n + 1 |-> IF i <= k THEN s[i] ELSE IF i = k + 1 THEN h ELSE s[i - 1]]

(* link2 and head2 are link and head with h, a header of no list, put in   *)
(* after the first k headers of the list s.                                *)
IsInsertion(link, link2, N, head, head2, n, s, k, h) ==
  /\ N \in Nat /\ IsList(link, N, head, n, s)
  /\ k \in 0 .. n /\ h \in 1 .. N /\ h \notin Nodes(n, s)
  /\ head2 = IF k = 0 THEN h ELSE head
  /\ link2[h] = IF k = n THEN NULL ELSE s[k + 1]
  /\ k # 0 => link2[s[k]] = h
  /\ \A g \in Nodes(n, s) : k = 0 \/ g # s[k] => link2[g] = link[g]

(* What comes of it is a list with one header more. *)
LEMMA ListInsert ==
  ASSUME NEW N, NEW link, NEW link2, NEW head, NEW head2, NEW n, NEW s, NEW k, NEW h,
         IsInsertion(link, link2, N, head, head2, n, s, k, h)
  PROVE  /\ IsList(link2, N, head2, n + 1, Inserted(n, s, k, h))
         /\ Nodes(n + 1, Inserted(n, s, k, h)) = Nodes(n, s) \cup {h}
<1> DEFINE t == Inserted(n, s, k, h)
<1>1. /\ n \in Nat /\ n + 1 \in Nat /\ k \in Nat /\ k <= n
      /\ s \in [1 .. n -> 1 .. N]
      /\ \A i, j \in 1 .. n : s[i] = s[j] => i = j
      /\ head = IF n = 0 THEN NULL ELSE s[1]
      /\ \A i \in 1 .. n : link[s[i]] = IF i = n THEN NULL ELSE s[i + 1]
      /\ \A i \in 1 .. n : s[i] # h
  BY DEF IsInsertion, IsList, Nodes
<1>2. /\ N \in Nat /\ h \in 1 .. N
      /\ head2 = IF k = 0 THEN h ELSE head
      /\ link2[h] = IF k = n THEN NULL ELSE s[k + 1]
      /\ k # 0 => link2[s[k]] = h
      /\ \A i \in 1 .. n : k = 0 \/ s[i] # s[k] => link2[s[i]] = link[s[i]]
  BY DEF IsInsertion, Nodes
<1>3. /\ \A i \in 1 .. k : t[i] = s[i] /\ i \in 1 .. n /\ i \in 1 .. n + 1
      /\ t[k + 1] = h /\ k + 1 \in 1 .. n + 1
      /\ \A i \in k + 2 .. n + 1 : t[i] = s[i - 1] /\ i - 1 \in 1 .. n /\ i \in 1 .. n + 1
      /\ \A i \in 1 .. n + 1 : i \in 1 .. k \/ i = k + 1 \/ i \in k + 2 .. n + 1
  BY <1>1 DEF Inserted
<1>4. t \in [1 .. n + 1 -> 1 .. N]
  BY <1>2, <1>1 DEF Inserted
<1> HIDE DEF t
<1>5. ASSUME NEW i \in 1 .. n + 1, NEW j \in 1 .. n + 1, t[i] = t[j] PROVE i = j
  <2>1. CASE i = k + 1 \/ j = k + 1
    <3>1. \A l \in 1 .. k : t[l] # h
      BY <1>1, <1>3
    <3>2. \A l \in k + 2 .. n + 1 : t[l] # h
      BY <1>1, <1>3
    <3>3. QED
      BY <1>3, <1>5, <2>1, <3>1, <3>2
  <2>2. CASE i \in 1 .. k /\ j \in 1 .. k
    BY <1>1, <1>3, <1>5, <2>2
  <2>3. CASE i \in k + 2 .. n + 1 /\ j \in k + 2 .. n + 1
    <3>1. i - 1 = j - 1
      BY <1>1, <1>3, <1>5, <2>3
    <3>2. QED
      BY <1>1, <3>1
  <2>4. CASE i \in 1 .. k /\ j \in k + 2 .. n + 1
    <3>1. i = j - 1
      BY <1>1, <1>3, <1>5, <2>4
    <3>2. QED
      BY <1>1, <2>4, <3>1
  <2>5. CASE j \in 1 .. k /\ i \in k + 2 .. n + 1
    <3>1. j = i - 1
      BY <1>1, <1>3, <1>5, <2>5, SMTT(30)
    <3>2. QED
      BY <1>1, <2>5, <3>1
  <2>6. QED
    BY <1>3, <2>1, <2>2, <2>3, <2>4, <2>5
<1>6. ASSUME NEW i \in 1 .. n + 1 PROVE link2[t[i]] = IF i = n + 1 THEN NULL ELSE t[i + 1]
  <2>1. CASE i \in 1 .. k /\ i # k
    <3>1. i + 1 \in 1 .. k /\ i # n /\ i # n + 1 /\ k # 0 /\ k \in 1 .. n
      BY <1>1, <2>1
    <3>2. t[i] = s[i] /\ t[i + 1] = s[i + 1] /\ i \in 1 .. n /\ s[i] # s[k] /\ s[i] # h
      BY <1>1, <1>3, <2>1, <3>1
    <3>3. link2[s[i]] = link[s[i]]
      BY <1>2, <3>2
    <3>4. QED
      BY <1>1, <3>1, <3>2, <3>3
  <2>2. CASE i \in 1 .. k /\ i = k
    <3>1. i # n + 1 /\ k # 0 /\ k \in 1 .. n /\ t[i] = s[k] /\ s[k] # h /\ s[k] \in 1 .. N
      BY <1>1, <1>3, <2>2
    <3>2. QED
      BY <1>2, <1>3, <2>2, <3>1
  <2>3. CASE i = k + 1
    <3>1. t[i] = h /\ link2[h] = IF k = n THEN NULL ELSE s[k + 1]
      BY <1>2, <1>3, <2>3
    <3>2. CASE k = n
      BY <1>1, <2>3, <3>1, <3>2
    <3>3. CASE k # n
      <4>1. i + 1 \in k + 2 .. n + 1 /\ i # n + 1 /\ i + 1 - 1 = k + 1
        BY <1>1, <2>3, <3>3
      <4>2. QED
        BY <1>3, <3>1, <3>3, <4>1
    <3>4. QED
      BY <3>2, <3>3
  <2>4. CASE i \in k + 2 .. n + 1
    <3>1. t[i] = s[i - 1] /\ i - 1 \in 1 .. n /\ s[i - 1] \in 1 .. N /\ s[i - 1] # h
      BY <1>1, <1>3, <2>4
    <3>2. k # 0 => k \in 1 .. n /\ i - 1 # k
      BY <1>1, <2>4
    <3>3. k # 0 => s[i - 1] # s[k]
      BY <1>1, <3>1, <3>2
    <3>4. link2[s[i - 1]] = link[s[i - 1]]
      BY <1>2, <3>1, <3>3
    <3>5. link[s[i - 1]] = IF i - 1 = n THEN NULL ELSE s[i - 1 + 1]
      BY <1>1, <3>1
    <3>6. i # n + 1 => i + 1 \in k + 2 .. n + 1 /\ i + 1 - 1 = i - 1 + 1
      BY <1>1, <2>4
    <3>7. i # n + 1 => t[i + 1] = s[i - 1 + 1]
      BY <1>3, <3>6
    <3>8. QED
      BY <1>1, <3>1, <3>4, <3>5, <3>7
  <2>5. QED
    BY <1>3, <2>1, <2>2, <2>3, <2>4
<1>7. head2 = t[1]
  BY <1>2, <1>1, <1>3
<1>8. IsList(link2, N, head2, n + 1, t)
  BY <1>1, <1>4, <1>5, <1>6, <1>7 DEF IsList
<1>9. Nodes(n + 1, t) = Nodes(n, s) \cup {h}
  <2>1. ASSUME NEW i \in 1 .. n + 1 PROVE t[i] \in Nodes(n, s) \cup {h}
    BY <1>3 DEF Nodes
  <2>2. ASSUME NEW i \in 1 .. n PROVE s[i] \in Nodes(n + 1, t)
    <3>1. CASE i <= k
      <4>1. i \in 1 .. k
        BY <1>1, <3>1
      <4>2. QED
        BY <1>3, <4>1 DEF Nodes
    <3>2. CASE ~(i <= k)
      <4>1. i + 1 \in k + 2 .. n + 1 /\ i + 1 - 1 = i
        BY <1>1, <3>2
      <4>2. t[i + 1] = s[i] /\ i + 1 \in 1 .. n + 1
        BY <1>3, <4>1
      <4>3. QED
        BY <4>2 DEF Nodes
    <3>3. QED
      BY <3>1, <3>2
  <2>3. h \in Nodes(n + 1, t)
    BY <1>3 DEF Nodes
  <2>4. QED
    BY <2>1, <2>2, <2>3 DEF Nodes
<1>10. QED
  BY <1>8, <1>9 DEF t

-----------------------------------------------------------------------------
(* The two lists of the reader *)

(* What they are is what OnList collects, before a step ...                *)
LEMMA ListsAre ==
  ASSUME NEW n, NEW s, NEW m, NEW t, AreLists(n, s, m, t), Len(archive) \in Nat
  PROVE  DirList = Nodes(n, s) /\ LinkList = Nodes(m, t) /\ ListsSeparate
<1>1. OnList(dir_stack) = Nodes(n, s) /\ Walk(dir_stack)[Len(archive) + 1] = NULL
  BY OnListIsNodes DEF AreLists, OnList, Walk
<1>2. OnList(deferred_symlinks) = Nodes(m, t) /\ Walk(deferred_symlinks)[Len(archive) + 1] = NULL
  BY OnListIsNodes DEF AreLists, OnList, Walk
<1>3. QED
  BY <1>1, <1>2 DEF AreLists, DirList, LinkList, ListsSeparate

(* ... and after it.                                                       *)
LEMMA ListsAreAfter ==
  ASSUME NEW n, NEW s, NEW m, NEW t, AreLists(n, s, m, t)', Len(archive)' \in Nat
  PROVE  DirList' = Nodes(n, s) /\ LinkList' = Nodes(m, t) /\ ListsSeparate'
<1>1. OnList(dir_stack)' = Nodes(n, s) /\ (Walk(dir_stack)[Len(archive) + 1])' = NULL
  BY OnListIsNodes DEF AreLists, OnList, Walk
<1>2. /\ OnList(deferred_symlinks)' = Nodes(m, t)
      /\ (Walk(deferred_symlinks)[Len(archive) + 1])' = NULL
  BY OnListIsNodes DEF AreLists, OnList, Walk
<1>3. QED
  BY <1>1, <1>2 DEF AreLists, DirList, LinkList, ListsSeparate

(* A list is empty when its head is NULL; its headers are the archive's.   *)
LEMMA ListsFacts ==
  ASSUME Lists, Len(archive) \in Nat
  PROVE  /\ ListsSeparate
         /\ DirList \subseteq Headers /\ LinkList \subseteq Headers
         /\ DirList \cap LinkList = {}
         /\ dir_stack = NULL <=> DirList = {}
         /\ deferred_symlinks = NULL <=> LinkList = {}
         /\ dir_stack # NULL => dir_stack \in DirList
         /\ deferred_symlinks # NULL =>
              /\ deferred_symlinks \in LinkList
              /\ \A h \in LinkList : Hdr(h).len <= Hdr(deferred_symlinks).len
<1>1. PICK n, s, m, t : AreLists(n, s, m, t)
  BY DEF Lists
<1>2. DirList = Nodes(n, s) /\ LinkList = Nodes(m, t) /\ ListsSeparate
  BY <1>1, ListsAre
<1>3. /\ n \in Nat /\ s \in [1 .. n -> Headers] /\ m \in Nat /\ t \in [1 .. m -> Headers]
      /\ dir_stack = IF n = 0 THEN NULL ELSE s[1]
      /\ deferred_symlinks = IF m = 0 THEN NULL ELSE t[1]
  BY <1>1 DEF AreLists, IsList, Headers
<1>4. DirList \subseteq Headers /\ LinkList \subseteq Headers
  BY <1>1, <1>2, HeadOfList DEF AreLists, Headers
<1>5. /\ dir_stack = NULL <=> DirList = {}
      /\ dir_stack # NULL => dir_stack \in DirList
  BY <1>1, <1>2, HeadOfList DEF AreLists
<1>6. /\ deferred_symlinks = NULL <=> LinkList = {}
      /\ deferred_symlinks # NULL => deferred_symlinks \in LinkList
  BY <1>1, <1>2, HeadOfList DEF AreLists
<1>7. ASSUME deferred_symlinks # NULL, NEW h \in LinkList
      PROVE  Hdr(h).len <= Hdr(deferred_symlinks).len
  <2>1. PICK j \in 1 .. m : h = t[j]
    BY <1>2, <1>7 DEF Nodes
  <2>2. 1 \in 1 .. m /\ 1 <= j /\ deferred_symlinks = t[1]
    BY <1>3, <2>1
  <2>3. QED
    BY <1>1, <2>1, <2>2 DEF AreLists
<1>8. QED
  BY <1>1, <1>2, <1>4, <1>5, <1>6, <1>7 DEF AreLists

(* PopDirectory: the top of the stack goes. *)
LEMMA PopLists ==
  ASSUME Lists, Len(archive) \in Nat, dir_stack # NULL, dir_stack' = next[dir_stack],
         UNCHANGED <<archive, deferred_symlinks, next>>
  PROVE  Lists' /\ DirList' = DirList \ {dir_stack} /\ LinkList' = LinkList
<1>1. PICK n, s, m, t : AreLists(n, s, m, t)
  BY DEF Lists
<1> DEFINE s2 == [i \in 1 .. n - 1 |-> s[i + 1]]
<1>2. /\ IsList(next, Len(archive), next[dir_stack], n - 1, s2)
      /\ Nodes(n - 1, s2) = Nodes(n, s) \ {dir_stack}
  BY <1>1, ListTail, Zenon DEF AreLists
<1> HIDE DEF s2
<1>3. AreLists(n - 1, s2, m, t)'
  BY <1>1, <1>2 DEF AreLists, Hdr
<1>4. DirList' = Nodes(n - 1, s2) /\ LinkList' = Nodes(m, t) /\ Lists'
  <2>1. Len(archive)' \in Nat
    OBVIOUS
  <2>2. DirList' = Nodes(n - 1, s2) /\ LinkList' = Nodes(m, t)
    BY <1>3, <2>1, ListsAreAfter
  <2>3. QED
    BY <1>3, <2>2, ZenonT(30) DEF Lists
<1>5. DirList = Nodes(n, s) /\ LinkList = Nodes(m, t)
  BY <1>1, ListsAre
<1>6. QED
  BY <1>2, <1>4, <1>5, ZenonT(30)

(* TakeDeferred: the first of the links goes, and its _next is cleared. *)
LEMMA TakeLists ==
  ASSUME Lists, Len(archive) \in Nat, next \in [Headers -> 0 .. Len(archive)],
         deferred_symlinks # NULL,
         deferred_symlinks' = next[deferred_symlinks],
         next' = [next EXCEPT ![deferred_symlinks] = NULL],
         UNCHANGED <<archive, dir_stack>>
  PROVE  Lists' /\ DirList' = DirList /\ LinkList' = LinkList \ {deferred_symlinks}
<1>1. PICK n, s, m, t : AreLists(n, s, m, t)
  BY DEF Lists
<1> DEFINE t2 == [i \in 1 .. m - 1 |-> t[i + 1]]
<1>2. /\ IsList(next, Len(archive), next[deferred_symlinks], m - 1, t2)
      /\ Nodes(m - 1, t2) = Nodes(m, t) \ {deferred_symlinks}
      /\ deferred_symlinks \in Nodes(m, t) /\ m >= 1
  BY <1>1, ListTail, Zenon DEF AreLists
<1>3. \A i \in 1 .. m - 1 : t2[i] = t[i + 1]
  OBVIOUS
<1> HIDE DEF t2
<1>4. Nodes(n, s) \subseteq Headers /\ Nodes(m, t) \subseteq Headers /\ m \in Nat
  BY <1>1, HeadOfList DEF AreLists, Headers
<1>5. \A h \in Headers : h # deferred_symlinks => next'[h] = next[h]
  OBVIOUS
<1>6. deferred_symlinks \notin Nodes(n, s)
  BY <1>1, <1>2 DEF AreLists
<1>7. IsList(next', Len(archive), dir_stack, n, s)
  <2>1. \A h \in Nodes(n, s) : next'[h] = next[h]
    BY <1>4, <1>5, <1>6
  <2>2. QED
    BY <1>1, <2>1, ListFrame, Zenon DEF AreLists
<1>8. IsList(next', Len(archive), next[deferred_symlinks], m - 1, t2)
  <2>1. \A h \in Nodes(m - 1, t2) : next'[h] = next[h]
    BY <1>2, <1>4, <1>5
  <2>2. QED
    BY <1>2, <2>1, ListFrame, Zenon
<1>9. ASSUME NEW i \in 1 .. m - 1, NEW j \in 1 .. m - 1, i <= j
      PROVE  Hdr(t2[j]).len <= Hdr(t2[i]).len
  <2>1. i + 1 \in 1 .. m /\ j + 1 \in 1 .. m /\ i + 1 <= j + 1
    BY <1>4, <1>9, SMTT(30)
  <2>2. QED
    BY <1>1, <1>3, <2>1 DEF AreLists
<1>10. AreLists(n, s, m - 1, t2)'
  BY <1>1, <1>2, <1>7, <1>8, <1>9 DEF AreLists, Hdr
<1>11. DirList' = Nodes(n, s) /\ LinkList' = Nodes(m - 1, t2) /\ Lists'
  <2>1. Len(archive)' \in Nat
    OBVIOUS
  <2>2. DirList' = Nodes(n, s) /\ LinkList' = Nodes(m - 1, t2)
    BY <1>10, <2>1, ListsAreAfter
  <2>3. QED
    BY <1>10, <2>2, ZenonT(30) DEF Lists
<1>12. DirList = Nodes(n, s) /\ LinkList = Nodes(m, t)
  BY <1>1, ListsAre
<1>13. QED
  BY <1>2, <1>11, <1>12, ZenonT(30)

(* lha_reader_free: the stack goes, the links stay. *)
LEMMA FreeLists ==
  ASSUME Lists, Len(archive) \in Nat, dir_stack' = NULL,
         UNCHANGED <<archive, deferred_symlinks, next>>
  PROVE  Lists' /\ DirList' = {} /\ LinkList' = LinkList
<1>1. PICK n, s, m, t : AreLists(n, s, m, t)
  BY DEF Lists
<1> DEFINE e == [i \in 1 .. 0 |-> 0]
<1>2. e \in [1 .. 0 -> 1 .. Len(archive)] /\ Nodes(0, e) = {}
  BY DEF Nodes
<1> HIDE DEF e
<1>3. IsList(next, Len(archive), NULL, 0, e)
  BY <1>2 DEF IsList
<1>4. AreLists(0, e, m, t)'
  BY <1>1, <1>2, <1>3 DEF AreLists, Hdr
<1>5. DirList' = Nodes(0, e) /\ LinkList' = Nodes(m, t) /\ Lists'
  <2>1. Len(archive)' \in Nat
    OBVIOUS
  <2>2. DirList' = Nodes(0, e) /\ LinkList' = Nodes(m, t)
    BY <1>4, <2>1, ListsAreAfter
  <2>3. QED
    BY <1>4, <2>2, ZenonT(30) DEF Lists
<1>6. DirList = Nodes(n, s) /\ LinkList = Nodes(m, t)
  BY <1>1, ListsAre
<1>7. QED
  BY <1>2, <1>5, <1>6, ZenonT(30)

(* PushDirectory: the current file goes on top of the stack. *)
LEMMA PushLists ==
  ASSUME Lists, Len(archive) \in Nat, next \in [Headers -> 0 .. Len(archive)],
         curr_file \in Headers, curr_file \notin DirList \cup LinkList,
         next' = [next EXCEPT ![curr_file] = dir_stack],
         dir_stack' = curr_file,
         UNCHANGED <<archive, deferred_symlinks>>
  PROVE  Lists' /\ DirList' = DirList \cup {curr_file} /\ LinkList' = LinkList
<1>1. PICK n, s, m, t : AreLists(n, s, m, t)
  BY DEF Lists
<1>2. DirList = Nodes(n, s) /\ LinkList = Nodes(m, t)
  BY <1>1, ListsAre
<1>3. n \in Nat /\ Nodes(m, t) \subseteq Headers /\ 0 \in 0 .. n
  BY <1>1, HeadOfList DEF AreLists, Headers
<1>4. /\ next'[curr_file] = dir_stack
      /\ \A g \in Headers : g # curr_file => next'[g] = next[g]
      /\ IsList(next, Len(archive), dir_stack, n, s) /\ Nodes(n, s) \subseteq Headers
  BY <1>1, HeadOfList DEF AreLists, Headers
<1>5. PICK s2 : /\ IsList(next', Len(archive), dir_stack', n + 1, s2)
                /\ Nodes(n + 1, s2) = Nodes(n, s) \cup {curr_file}
  <2>1. PICK k \in 0 .. n : k = 0
    BY <1>3
  <2>2. /\ next'[curr_file] = IF k = n THEN NULL ELSE s[k + 1]
        /\ dir_stack' = IF k = 0 THEN curr_file ELSE dir_stack
    BY <1>4, <2>1 DEF IsList
  <2>3. \A g \in Nodes(n, s) : next'[g] = next[g]
    BY <1>2, <1>4
  <2>4. IsInsertion(next, next', Len(archive), dir_stack, dir_stack', n, s, k, curr_file)
    BY <1>2, <1>4, <2>1, <2>2, <2>3 DEF IsInsertion, Headers
  <2>5. QED
    BY <2>4, ListInsert
<1>6. IsList(next', Len(archive), deferred_symlinks, m, t)
  <2>1. \A h \in Nodes(m, t) : next'[h] = next[h]
    BY <1>2, <1>3, SMTT(30)
  <2>2. QED
    BY <1>1, <2>1, ListFrame, Zenon DEF AreLists
<1>7. AreLists(n + 1, s2, m, t)'
  BY <1>1, <1>2, <1>5, <1>6 DEF AreLists, Hdr
<1>8. DirList' = Nodes(n + 1, s2) /\ LinkList' = Nodes(m, t) /\ Lists'
  <2>1. Len(archive)' \in Nat
    OBVIOUS
  <2>2. DirList' = Nodes(n + 1, s2) /\ LinkList' = Nodes(m, t)
    BY <1>7, <2>1, ListsAreAfter
  <2>3. QED
    BY <1>7, <2>2, ZenonT(30) DEF Lists
<1>9. QED
  BY <1>2, <1>5, <1>8, ZenonT(30)

(* The headers that the loop of InsertDeferred passes over. *)
IsRover(k, path) ==
  /\ k \in Nat /\ path \in [1 .. k -> Headers]
  /\ \A i \in 1 .. k : path[i] = IF i - 1 = 0 THEN deferred_symlinks ELSE next[path[i - 1]]

(* They are the first k of a list, and the loop stands at the next one. *)
RoverAt(k, path, m, t) ==
  /\ k <= m
  /\ \A i \in 1 .. k : path[i] = t[i]
  /\ (IF k = 0 THEN deferred_symlinks ELSE next[path[k]])
       = IF k = m THEN NULL ELSE t[k + 1]

(* The loop stays on the list and ends at a place of it. *)
LEMMA RoverOnList ==
  ASSUME NEW m, NEW t, IsList(next, Len(archive), deferred_symlinks, m, t),
         NEW k, NEW path, IsRover(k, path)
  PROVE  RoverAt(k, path, m, t)
<1> DEFINE rover(i) == IF i = 0 THEN deferred_symlinks ELSE next[path[i]]
<1> DEFINE place(i) == IF i = m THEN NULL ELSE t[i + 1]
<1>1. /\ k \in Nat /\ path \in [1 .. k -> Headers]
      /\ \A i \in 1 .. k : path[i] = IF i - 1 = 0 THEN deferred_symlinks ELSE next[path[i - 1]]
  BY DEF IsRover
<1> DEFINE S == {i \in 0 .. k : i <= m /\ rover(i) = place(i) /\ (i # 0 => path[i] = t[i])}
<1>2. /\ m \in Nat
      /\ deferred_symlinks = IF m = 0 THEN NULL ELSE t[1]
      /\ \A i \in 1 .. m : next[t[i]] = IF i = m THEN NULL ELSE t[i + 1]
  BY DEF IsList
<1>3. 0 \in S
  BY <1>1, <1>2
<1>4. ASSUME NEW i \in 0 .. k - 1, i \in S PROVE i + 1 \in S
  <2>1. i + 1 \in 1 .. k /\ i + 1 # 0 /\ i + 1 - 1 = i
    BY <1>1, <1>4
  <2>2. path[i + 1] = rover(i) /\ path[i + 1] \in Headers
    BY <1>1, <2>1
  <2>3. rover(i) # NULL
    BY <2>2 DEF Headers, NULL
  <2>4. i <= m /\ i # m /\ rover(i) = t[i + 1]
    BY <1>4, <2>3
  <2>5. i + 1 \in 1 .. m
    BY <1>2, <2>1, <2>4
  <2>6. rover(i + 1) = place(i + 1)
    BY <1>2, <2>1, <2>2, <2>4, <2>5
  <2>7. QED
    BY <1>2, <2>1, <2>2, <2>4, <2>5, <2>6, SMTT(30)
<1> HIDE DEF S
<1>5. 0 .. k \subseteq S
  BY <1>1, <1>3, <1>4, BoundedSetInduction, Zenon
<1>6. k \in S /\ \A i \in 1 .. k : i \in S
  BY <1>1, <1>5, SMTT(30)
<1>7. k <= m /\ rover(k) = place(k)
  BY <1>6 DEF S
<1>8. ASSUME NEW i \in 1 .. k PROVE path[i] = t[i]
  <2>1. i \in S /\ i # 0
    BY <1>1, <1>6
  <2>2. QED
    BY <2>1, Zenon DEF S
<1>9. QED
  BY <1>7, <1>8, ZenonT(30) DEF RoverAt

(* InsertDeferred: the current file goes in where the list stays sorted. *)
LEMMA InsertLists ==
  ASSUME Lists, archive \in Seq(Entries), next \in [Headers -> 0 .. Len(archive)],
         curr_file \in Headers, curr_file \notin DirList \cup LinkList,
         InsertDeferred, UNCHANGED <<archive, dir_stack>>
  PROVE  Lists' /\ DirList' = DirList /\ LinkList' = LinkList \cup {curr_file}
<1>1. Len(archive) \in Nat
  OBVIOUS
<1>2. PICK n, s, m, t : AreLists(n, s, m, t)
  BY DEF Lists
<1>3. DirList = Nodes(n, s) /\ LinkList = Nodes(m, t)
  BY <1>1, <1>2, ListsAre
<1>4. /\ IsList(next, Len(archive), dir_stack, n, s)
      /\ IsList(next, Len(archive), deferred_symlinks, m, t)
      /\ Nodes(n, s) \subseteq Headers /\ Nodes(m, t) \subseteq Headers
  BY <1>2, HeadOfList DEF AreLists, Headers
<1>5. m \in Nat /\ t \in [1 .. m -> Headers]
  BY <1>4, SMTT(30) DEF Headers, IsList
<1>6. PICK k \in 0 .. Len(archive) : \E path \in [1 .. k -> Headers] :
        /\ \A i \in 1 .. k :
             /\ path[i] = IF i - 1 = 0 THEN deferred_symlinks ELSE next[path[i - 1]]
             /\ Longer(path[i])
        /\ (IF k = 0 THEN deferred_symlinks ELSE next[path[k]]) # NULL =>
             ~Longer(IF k = 0 THEN deferred_symlinks ELSE next[path[k]])
        /\ IF k = 0
           THEN /\ next' = [next EXCEPT ![curr_file] = deferred_symlinks]
                /\ deferred_symlinks' = curr_file
           ELSE /\ next' = [next EXCEPT ![curr_file] = next[path[k]], ![path[k]] = curr_file]
                /\ UNCHANGED deferred_symlinks
  BY Zenon DEF InsertDeferred
<1>7. PICK path \in [1 .. k -> Headers] :
        /\ \A i \in 1 .. k :
             /\ path[i] = IF i - 1 = 0 THEN deferred_symlinks ELSE next[path[i - 1]]
             /\ Longer(path[i])
        /\ (IF k = 0 THEN deferred_symlinks ELSE next[path[k]]) # NULL =>
             ~Longer(IF k = 0 THEN deferred_symlinks ELSE next[path[k]])
        /\ IF k = 0
           THEN /\ next' = [next EXCEPT ![curr_file] = deferred_symlinks]
                /\ deferred_symlinks' = curr_file
           ELSE /\ next' = [next EXCEPT ![curr_file] = next[path[k]], ![path[k]] = curr_file]
                /\ UNCHANGED deferred_symlinks
  BY <1>6, Zenon
<1>8. /\ k <= m
      /\ \A i \in 1 .. k : path[i] = t[i]
      /\ (IF k = 0 THEN deferred_symlinks ELSE next[path[k]])
           = IF k = m THEN NULL ELSE t[k + 1]
  <2>1. IsRover(k, path)
    BY <1>1, <1>7 DEF IsRover
  <2>2. IsList(next, Len(archive), deferred_symlinks, m, t)
    BY <1>4
  <2>3. RoverAt(k, path, m, t)
    BY ONLY <2>1, <2>2, RoverOnList, Zenon
  <2>4. QED
    BY <2>3, Zenon DEF RoverAt
<1>9. /\ k \in 0 .. m
      /\ k # 0 => k \in 1 .. m /\ path[k] = t[k] /\ t[k] \in Headers /\ t[k] # curr_file
                  /\ t[k] \in Nodes(m, t)
  BY <1>1, <1>3, <1>5, <1>8, SMTT(30) DEF Nodes
<1>10. /\ next'[curr_file] = IF k = m THEN NULL ELSE t[k + 1]
       /\ k # 0 => next'[t[k]] = curr_file
       /\ \A g \in Headers : g # curr_file /\ (k = 0 \/ g # t[k]) => next'[g] = next[g]
       /\ deferred_symlinks' = IF k = 0 THEN curr_file ELSE deferred_symlinks
  <2>1. CASE k = 0
    <3>1. /\ next' = [next EXCEPT ![curr_file] = deferred_symlinks]
          /\ deferred_symlinks' = curr_file
      BY <1>7, <2>1, Zenon
    <3>2. deferred_symlinks = IF k = m THEN NULL ELSE t[k + 1]
      BY <1>8, <2>1
    <3>3. QED
      BY ONLY <2>1, <3>1, <3>2, next \in [Headers -> 0 .. Len(archive)], curr_file \in Headers
  <2>2. CASE k # 0
    <3>1. /\ next' = [next EXCEPT ![curr_file] = next[path[k]], ![path[k]] = curr_file]
          /\ deferred_symlinks' = deferred_symlinks
      BY <1>7, <2>2, Zenon
    <3>2. next[path[k]] = (IF k = m THEN NULL ELSE t[k + 1]) /\ path[k] = t[k]
      BY <1>8, <1>9, <2>2, Zenon
    <3>3. t[k] \in Headers /\ t[k] # curr_file
      BY <1>9, <2>2, Zenon
    <3>4. QED
      BY ONLY <2>2, <3>1, <3>2, <3>3, next \in [Headers -> 0 .. Len(archive)],
              curr_file \in Headers
  <2>3. QED
    BY <2>1, <2>2
<1>11. IsInsertion(next, next', Len(archive), deferred_symlinks, deferred_symlinks', m, t, k,
                  curr_file)
  <2>1. \A g \in Nodes(m, t) : k = 0 \/ g # t[k] => next'[g] = next[g]
    BY <1>3, <1>4, <1>10, ZenonT(30)
  <2>2. QED
    BY <1>1, <1>3, <1>4, <1>9, <1>10, <2>1, SMTT(30) DEF IsInsertion, Headers
<1>12. PICK t2 : /\ t2 = Inserted(m, t, k, curr_file)
                 /\ IsList(next', Len(archive), deferred_symlinks', m + 1, t2)
                 /\ Nodes(m + 1, t2) = Nodes(m, t) \cup {curr_file}
  BY <1>11, ListInsert
<1>13. IsList(next', Len(archive), dir_stack, n, s)
  <2>1. \A h \in Nodes(n, s) : next'[h] = next[h]
    <3>1. Nodes(n, s) \cap Nodes(m, t) = {}
      BY <1>2, Zenon DEF AreLists
    <3>2. QED
      BY <1>3, <1>4, <1>9, <1>10, <3>1, Zenon
  <2>2. QED
    BY <1>4, <2>1, ListFrame, Zenon
<1>14. ASSUME NEW i \in 1 .. m + 1, NEW j \in 1 .. m + 1, i <= j
       PROVE  Hdr(t2[j]).len <= Hdr(t2[i]).len
  <2> DEFINE l(h) == Hdr(h).len
  <2>1. SUFFICES l(t2[j]) <= l(t2[i])
    OBVIOUS
  <2>2. /\ \A h \in Headers : l(h) \in Nat
        /\ Curr.len = l(curr_file)
    BY ReaderAssumption DEF Headers, Hdr, Curr
  <2>3. \A a, b \in 1 .. m : a <= b => l(t[b]) <= l(t[a])
    BY <1>2 DEF AreLists
  <2>4. \A a \in 1 .. k : a \in 1 .. m /\ l(t[a]) > l(curr_file)
    <3>1. \A a \in 1 .. k : l(path[a]) > l(curr_file)
      BY <1>7, Zenon DEF Longer, Curr, Hdr
    <3>2. QED
      <4> HIDE DEF l
      <4>1. \A a \in 1 .. k : a \in 1 .. m
        BY <1>9, <1>5
      <4>2. QED
        BY <1>8, <3>1, <4>1
  <2>5. k # m => k + 1 \in 1 .. m /\ ~(l(t[k + 1]) > l(curr_file))
    <3>1. ASSUME k # m PROVE k + 1 \in 1 .. m /\ t[k + 1] # NULL
      BY <1>9, <1>5, <3>1, SMTT(30) DEF Headers, NULL
    <3>2. ASSUME k # m PROVE ~Longer(t[k + 1])
      BY <1>7, <1>8, <3>1, <3>2, SMTT(30)
    <3>3. QED
      BY <3>1, <3>2 DEF Longer, Curr, Hdr
  <2> HIDE DEF l
  <2>6. \A b \in k + 1 .. m : l(t[b]) <= l(curr_file)
    BY <1>9, <1>5, <2>2, <2>3, <2>5, SMTT(30)
  <2>7. /\ \A a \in 1 .. k : t2[a] = t[a]
        /\ t2[k + 1] = curr_file
        /\ \A b \in k + 2 .. m + 1 : t2[b] = t[b - 1] /\ b - 1 \in k + 1 .. m
    BY <1>9, <1>12, <1>5, SMTT(30) DEF Inserted
  <2>8. CASE i \in 1 .. k /\ j \in 1 .. k
    BY <1>14, <2>3, <2>4, <2>7, <2>8, SMTT(30)
  <2>9. CASE i \in 1 .. k /\ j = k + 1
    <3>1. t[i] \in Headers /\ l(t[i]) > l(curr_file)
      BY <1>5, <2>4, <2>9
    <3>2. t2[i] = t[i] /\ t2[j] = curr_file
      BY <2>7, <2>9
    <3>3. l(t[i]) \in Nat /\ l(curr_file) \in Nat
      BY <2>2, <3>1
    <3>4. QED
      BY <3>1, <3>2, <3>3
  <2>10. CASE i \in 1 .. k /\ j \in k + 2 .. m + 1
    <3>1. i \in 1 .. m /\ j - 1 \in 1 .. m /\ i <= j - 1
      BY <1>9, <1>5, <2>10
    <3>2. QED
      BY <2>3, <2>7, <2>10, <3>1
  <2>11. CASE i = k + 1 /\ j = k + 1
    BY <2>2, <2>7, <2>11, SMTT(30)
  <2>12. CASE i = k + 1 /\ j \in k + 2 .. m + 1
    BY <2>6, <2>7, <2>12, SMTT(30)
  <2>13. CASE i \in k + 2 .. m + 1 /\ j \in k + 2 .. m + 1
    <3>1. i - 1 \in 1 .. m /\ j - 1 \in 1 .. m /\ i - 1 <= j - 1
      BY <1>9, <1>5, <1>14, <2>13
    <3>2. QED
      BY <2>3, <2>7, <2>13, <3>1, SMTT(30)
  <2>14. QED
    BY <1>9, <1>5, <1>14, <2>8, <2>9, <2>10, <2>11, <2>12, <2>13, SMTT(30)
<1>15. AreLists(n, s, m + 1, t2)'
  BY <1>2, <1>3, <1>12, <1>13, <1>14, ZenonT(30) DEF AreLists, Hdr
<1>16. QED
  BY <1>1, <1>3, <1>12, <1>15, ListsAreAfter, SMTT(30) DEF Lists

-----------------------------------------------------------------------------
(* The effect of every call, for clients that use each file once *)

(* lha_reader_read and lha_reader_check have that effect. *)
LEMMA ReadHasEffect ==
  ASSUME LinkInv, lha_reader_read \/ lha_reader_check
  PROVE  ReadEffect
<1>1. UNCHANGED <<at, b_curr_file>>
  <2>1. CASE lha_reader_read
    BY <2>1, ConsumeFacts DEF lha_reader_read, basicVars
  <2>2. CASE lha_reader_check
    BY <2>2, ConsumeFacts DEF lha_reader_check, basicVars
  <2>3. QED
    BY <2>1, <2>2
<1>2. UNCHANGED <<inputVars, readerVars, listVars, refs, arch, skipped, deferred>>
  BY DEF lha_reader_read, lha_reader_check
<1>3. used' \in {"read", "checked", "bad"}
  BY DEF lha_reader_read, lha_reader_check
<1>4. curr_file_type # "START"
  BY DEF lha_reader_read, lha_reader_check, HasFile
<1>5. QED
  BY <1>1, <1>2, <1>3, <1>4 DEF ReadEffect

(* Whichever way lha_reader_extract goes, it has that effect. *)
LEMMA ExtractHasEffect ==
  ASSUME ~ExtractTwice, ListInv, lha_reader_extract
  PROVE  ExtractEffect
<1>1. /\ TypeInv /\ HasFile /\ used = "no" /\ Lists
      /\ UNCHANGED <<inputVars, readerVars, skipped>>
      /\ archive' = archive /\ archive \in Seq(Entries) /\ Len(archive) \in Nat
      /\ curr_file \in Headers
      /\ next \in [Headers -> 0 .. Len(archive)]
  BY CurrIsEntry DEF ListInv, LinkInv, TypeInv, lha_reader_extract, MayUse, inputVars
<1>2. \/ extract_file
      \/ curr_file_type = "NORMAL" /\ Curr.kind = "dir" /\ extract_directory
      \/ curr_file_type = "NORMAL" /\ Curr.danger /\ extract_placeholder_symlink
      \/ make_symlink \/ set_directory_metadata
  BY <1>1, CurrIsEntry, Zenon
     DEF lha_reader_extract, extract_normal, extract_symlink, HasFile
<1>3. UNCHANGED <<at, b_curr_file>> /\ used' \in {"yes", "failed"}
  <2>1. CASE extract_file
    BY <1>1, <2>1, ExtractFileHarmless, SMTT(30) DEF Harmless, extract_file, Returned
  <2>2. CASE ~extract_file
    BY <1>2, <2>2 DEF extract_directory, extract_placeholder_symlink, make_symlink,
                      set_directory_metadata, Returned, basicVars
  <2>3. QED
    BY <2>1, <2>2
<1>4. CASE UNCHANGED <<listVars, refs, deferred>>
  BY <1>1, <1>3, <1>4, ListsUnchanged DEF ExtractEffect
<1>5. curr_file_type = "NORMAL" => curr_file \notin DirList \cup LinkList \cup deferred
  BY <1>1 DEF ListInv, PosInv, BehindInv, Behind
<1>6. CASE curr_file_type = "NORMAL" /\ Curr.kind = "dir" /\ extract_directory
  <2>1. UNCHANGED deferred
    BY <1>6 DEF extract_directory
  <2>2. UNCHANGED <<listVars, refs>> \/ (PushDirectory /\ UNCHANGED deferred_symlinks)
    BY <1>6, Zenon DEF extract_directory
  <2>3. CASE PushDirectory /\ UNCHANGED deferred_symlinks
    <3>1. Lists' /\ DirList' = DirList \cup {curr_file} /\ LinkList' = LinkList
      BY <1>1, <1>5, <1>6, <2>3, PushLists DEF PushDirectory
    <3>2. refs' = lha_file_header_add_ref(refs, curr_file)
      BY <2>3 DEF PushDirectory
    <3>3. QED
      BY <1>1, <1>3, <1>5, <1>6, <2>1, <3>1, <3>2, SMTT(30) DEF ExtractEffect
  <2>4. QED
    BY <1>4, <2>1, <2>2, <2>3
<1>7. CASE curr_file_type = "NORMAL" /\ Curr.danger /\ extract_placeholder_symlink
  <2>1. \/ UNCHANGED <<listVars, refs, deferred>>
        \/ /\ InsertDeferred
           /\ refs' = lha_file_header_add_ref(refs, curr_file)
           /\ deferred' = deferred \cup {curr_file}
           /\ UNCHANGED dir_stack
    BY <1>7 DEF extract_placeholder_symlink, listVars
  <2>2. CASE /\ InsertDeferred
             /\ refs' = lha_file_header_add_ref(refs, curr_file)
             /\ deferred' = deferred \cup {curr_file}
             /\ UNCHANGED dir_stack
    <3>1. Lists' /\ DirList' = DirList /\ LinkList' = LinkList \cup {curr_file}
      BY <1>1, <1>5, <1>7, <2>2, InsertLists
    <3>2. QED
      BY <1>1, <1>3, <1>5, <1>7, <2>2, <3>1, SMTT(30) DEF ExtractEffect
  <2>3. QED
    BY <1>4, <2>1, <2>2
<1>8. CASE extract_file \/ make_symlink \/ set_directory_metadata
  BY <1>4, <1>8, Zenon DEF extract_file, make_symlink, set_directory_metadata
<1>9. QED
  BY <1>2, <1>6, <1>7, <1>8

(* lha_reader_extract does one of these things to the file system, and     *)
(* takes nothing off a list.                                               *)
LEMMA ExtractHasArchEffect ==
  ASSUME ~ExtractTwice, ListInv, lha_reader_extract
  PROVE  /\ ExtractEffect /\ ArchEffect
         /\ DirList \subseteq DirList' /\ LinkList \subseteq LinkList'
         /\ deferred \subseteq deferred'
<1>1. ExtractEffect /\ TypeInv /\ HasFile
  BY ExtractHasEffect, Zenon DEF ListInv, LinkInv, lha_reader_extract
<1>2. /\ DirList \subseteq DirList' /\ LinkList \subseteq LinkList'
      /\ deferred \subseteq deferred'
  BY <1>1 DEF ExtractEffect
<1>3. CASE curr_file_type = "NORMAL" /\ Curr.kind = "file"
  <2>1. extract_file
    BY <1>3 DEF lha_reader_extract, extract_normal
  <2>2. \/ arch' = arch
        \/ \E created \in CreateOutcomes(arch, Curr.target) : \E kind \in {"file", "partial"} :
             arch' = Create(arch, Curr.target, kind, created)
    BY <2>1, Zenon DEF extract_file, lha_arch_fopen
  <2>3. QED
    BY <1>1, <1>2, <1>3, <2>2 DEF ArchEffect, MakesEntry, Creates
<1>4. CASE curr_file_type = "NORMAL" /\ Curr.kind = "dir"
  <2>1. extract_directory
    BY <1>4 DEF lha_reader_extract, extract_normal
  <2>2. \/ arch' = arch
        \/ /\ "ok" \in MkdirOutcomes(arch, Curr.target)
           /\ \/ /\ dir_policy = "PLAIN"
                 /\ arch' = ApplyMetadata(lha_arch_mkdir(arch, Curr.target, "ok"),
                                          Curr.target, Curr.readonly)
              \/ /\ arch' = Owe(lha_arch_mkdir(arch, Curr.target, "ok"), Curr.target)
                 /\ PushDirectory
    BY <2>1, Zenon DEF extract_directory
  <2>3. PushDirectory => curr_file \in DirList'
    <3>1. curr_file \notin DirList \cup LinkList
      BY <1>1, <1>4, SMTT(30) DEF ListInv, PosInv, BehindInv, Behind, ExtractEffect
    <3>2. /\ Lists /\ archive' = archive /\ Len(archive) \in Nat /\ curr_file \in Headers
          /\ next \in [Headers -> 0 .. Len(archive)]
      BY <1>1, CurrIsEntry DEF ListInv, TypeInv, ExtractEffect, inputVars
    <3>3. PushDirectory => UNCHANGED deferred_symlinks
      BY <2>1, Zenon DEF extract_directory, listVars
    <3>4. QED
      BY <3>1, <3>2, <3>3, PushLists, SMTT(30) DEF PushDirectory
  <2>4. QED
    BY <1>1, <1>2, <1>4, <2>2, <2>3 DEF ArchEffect, MakesDirectory
<1>5. CASE curr_file_type = "NORMAL" /\ Curr.kind = "link" /\ Curr.danger
  <2>1. extract_placeholder_symlink
    BY <1>5 DEF lha_reader_extract, extract_normal, extract_symlink
  <2>2. PICK out \in CreateOutcomes(arch, Curr.target) :
          /\ arch' = Create(arch, Curr.target, "placeholder", out)
          /\ out = "ok" => deferred' = deferred \cup {curr_file}
    BY <2>1 DEF extract_placeholder_symlink, lha_arch_fopen
  <2>3. curr_file \notin deferred
    BY <1>1, <1>5 DEF ListInv, PosInv, BehindInv, Behind, ExtractEffect
  <2>4. out = "ok" => curr_file \in LinkList'
    BY <1>1, <2>2, <2>3 DEF ExtractEffect
  <2>5. QED
    BY <1>1, <1>2, <1>5, <2>2, <2>4 DEF ArchEffect, MakesEntry, Creates
<1>6. CASE /\ curr_file_type = "NORMAL" /\ Curr.kind = "link" /\ ~Curr.danger
           \/ curr_file_type = "DEFERRED_SYMLINK"
  <2>1. make_symlink
    BY <1>6, Zenon DEF lha_reader_extract, extract_normal, extract_symlink
  <2>2. PICK out \in CreateOutcomes(arch, Curr.target) :
          arch' = Create(arch, Curr.target, IF Curr.danger THEN "dlink" ELSE "link", out)
    BY <2>1 DEF make_symlink, lha_arch_symlink
  <2>3. PICK kind : kind = IF Curr.danger THEN "dlink" ELSE "link"
    OBVIOUS
  <2>4. kind \in Links /\ (kind = "dlink" => curr_file_type = "DEFERRED_SYMLINK")
    BY <1>6, <2>3 DEF Links
  <2>5. QED
    BY <1>1, <1>2, <1>6, <2>2, <2>3, <2>4 DEF ArchEffect, MakesEntry, Creates, Links
<1>7. CASE curr_file_type = "FAKE_DIR"
  BY <1>1, <1>2, <1>7
     DEF lha_reader_extract, set_directory_metadata, ArchEffect, SetsMetadata
<1>8. QED
  BY <1>1, <1>3, <1>4, <1>5, <1>6, <1>7, CurrIsEntry DEF HasFile

(* What lha_reader_next_file does to the basic reader first. *)
LEMMA AdvanceMoves ==
  ASSUME TypeInv, AdvanceInput
  PROVE  Moves
<1>1. CASE curr_file_type \in {"START", "NORMAL"} /\ lha_basic_reader_next_file
  BY <1>1 DEF lha_basic_reader_next_file, HeaderAt, TypeInv, Moves
<1>2. CASE curr_file_type \notin {"START", "NORMAL"} /\ UNCHANGED basicVars
  BY <1>2 DEF basicVars, Moves
<1>3. QED
  BY <1>1, <1>2 DEF AdvanceInput

(* lha_reader_next_file has that effect, and it takes the entry off the    *)
(* list it was on.                                                         *)
LEMMA NextHasEffect ==
  ASSUME ListInv, lha_reader_next_file
  PROVE  NextEffect
<1>1. /\ TypeInv /\ Lists /\ archive' = archive /\ Len(archive) \in Nat
      /\ next \in [Headers -> 0 .. Len(archive)]
  BY DEF ListInv, LinkInv, TypeInv, lha_reader_next_file, inputVars
<1>2. Moves
  BY <1>1, AdvanceMoves DEF lha_reader_next_file
<1>3. /\ dir_stack = NULL <=> DirList = {}
      /\ deferred_symlinks = NULL <=> LinkList = {}
      /\ dir_stack # NULL => dir_stack \in DirList
      /\ deferred_symlinks # NULL =>
           /\ deferred_symlinks \in LinkList
           /\ \A h \in LinkList : Hdr(h).len <= Hdr(deferred_symlinks).len
  BY <1>1, ListsFacts
<1>4. Lists' /\ (GivesDirectory \/ GivesFile \/ GivesLink \/ GivesNothing)
  <2>1. CASE PopDirectory
    <3>1. dir_stack # NULL
      BY <2>1 DEF PopDirectory, end_of_top_dir
    <3>2. Lists' /\ DirList' = DirList \ {dir_stack} /\ LinkList' = LinkList
      BY <1>1, <2>1, <3>1, PopLists DEF PopDirectory
    <3>3. QED
      BY <1>3, <2>1, <3>1, <3>2 DEF PopDirectory, GivesDirectory
  <2>2. CASE TakeInput
    <3>1. Lists' /\ DirList' = DirList /\ LinkList' = LinkList
      BY <1>1, <2>2, ListsUnchanged DEF TakeInput
    <3>2. QED
      BY <2>2, <3>1 DEF TakeInput, GivesFile
  <2>3. CASE TakeDeferred
    <3>1. Lists' /\ DirList' = DirList /\ LinkList' = LinkList \ {deferred_symlinks}
      BY <1>1, <2>3, TakeLists DEF TakeDeferred
    <3>2. dir_stack = NULL
      BY <2>3 DEF TakeDeferred, end_of_top_dir
    <3>3. QED
      BY <1>3, <2>3, <3>1, <3>2 DEF TakeDeferred, GivesLink
  <2>4. CASE EndOfInput
    <3>1. Lists' /\ DirList' = DirList /\ LinkList' = LinkList
      BY <1>1, <2>4, ListsUnchanged DEF EndOfInput
    <3>2. dir_stack = NULL
      BY <2>4 DEF EndOfInput, end_of_top_dir
    <3>3. QED
      BY <1>3, <2>4, <3>1, <3>2 DEF EndOfInput, GivesNothing
  <2>5. QED
    BY <2>1, <2>2, <2>3, <2>4 DEF lha_reader_next_file
<1>5. QED
  BY <1>2, <1>4 DEF lha_reader_next_file, NextEffect

(* lha_reader_free has that effect. *)
LEMMA FreeHasEffect ==
  ASSUME ListInv, lha_reader_free
  PROVE  FreeEffect
<1>1. Lists /\ archive' = archive /\ Len(archive) \in Nat
  BY DEF ListInv, LinkInv, TypeInv, lha_reader_free, inputVars
<1>2. Lists' /\ DirList' = {} /\ LinkList' = LinkList
  BY <1>1, FreeLists DEF lha_reader_free
<1>3. QED
  BY <1>2 DEF lha_reader_free, FreeEffect

(* Those are all the steps there are. *)
LEMMA StepKinds ==
  ASSUME ListInv, [Next]_vars
  PROVE  \/ ReadEffect
         \/ lha_reader_extract
         \/ lha_reader_next_file /\ NextEffect
         \/ lha_reader_free /\ FreeEffect
         \/ IdleEffect
<1>1. CASE lha_reader_set_dir_policy \/ UNCHANGED vars
  BY <1>1 DEF lha_reader_set_dir_policy, vars, readerVars, IdleEffect
<1>2. QED
  BY <1>1, ReadHasEffect, NextHasEffect, FreeHasEffect DEF Next, ListInv

(* Every step has one of the effects ReaderStepProofs starts from. *)
LEMMA NextHasStepEffect ==
  ASSUME ~ExtractTwice, ListInv, [Next]_vars
  PROVE  StepEffect
BY StepKinds, ExtractHasArchEffect DEF StepEffect

(* What is on the list of links is headers. *)
LEMMA LinksAreHeaders ==
  ASSUME ListInv
  PROVE  LinkList \subseteq Headers
BY ListsFacts DEF ListInv, LinkInv, TypeInv

(* Every step keeps the lists lists. *)
LEMMA NextListInv ==
  ASSUME ~ExtractTwice, ListInv, [Next]_vars
  PROVE  ListInv'
<1>1. /\ TypeInv /\ TypeInv' /\ LinkInv' /\ Lists
      /\ at \in Nat /\ at' \in Nat
      /\ DirList \subseteq Headers /\ LinkList \subseteq Headers
      /\ deferred \subseteq Headers
      /\ HasFile => curr_file \in Headers
  <2>1. LinkInv'
    BY NextLinkInv DEF ListInv
  <2>2. TypeInv /\ TypeInv' /\ Lists /\ deferred \subseteq Headers
    BY <2>1 DEF ListInv, LinkInv, PosInv
  <2>3. at \in Nat /\ at' \in Nat /\ Len(archive) \in Nat
    BY <2>2 DEF TypeInv
  <2>4. DirList \subseteq Headers /\ LinkList \subseteq Headers
    BY <2>2, <2>3, ListsFacts
  <2>5. QED
    BY <2>1, <2>2, <2>3, <2>4, CurrIsEntry
<1>2. CASE ReadEffect \/ IdleEffect
  <2>1. UNCHANGED <<archive, curr_file, curr_file_type, listVars, deferred, at, b_curr_file>>
    BY <1>2 DEF ReadEffect, IdleEffect, inputVars, readerVars, basicVars, clientVars
  <2>2. /\ used' \in {"no", "read", "checked", "bad", "yes", "failed"}
        /\ curr_file_type = "START" => used' = used
        /\ used # "no" => used' # "no"
    BY <1>2 DEF ReadEffect, IdleEffect, clientVars, ListInv, PosInv
  <2>3. Lists' /\ DirList' = DirList /\ LinkList' = LinkList
    BY <1>1, <2>1, ListsUnchanged
  <2>4. PosInv'
    BY <2>1, <2>2, SMTT(30) DEF ListInv, PosInv, Headers
  <2>5. BehindInv'
    BY <2>1, <2>2, <2>3 DEF ListInv, BehindInv, Behind, Hdr, Curr
  <2>6. QED
    BY <1>1, <2>3, <2>4, <2>5, SMTT(30) DEF ListInv
<1>3. CASE ExtractEffect
  <2>1. /\ UNCHANGED <<archive, curr_file, curr_file_type, at, b_curr_file>>
        /\ used' \in {"yes", "failed"} /\ HasFile /\ Lists'
    BY <1>3 DEF ExtractEffect, inputVars, readerVars
  <2>2. /\ DirList' = DirList \/ (curr_file_type = "NORMAL" /\ Curr.kind = "dir"
                                    /\ DirList' = DirList \cup {curr_file})
        /\ \/ LinkList' = LinkList /\ deferred' = deferred
           \/ /\ curr_file_type = "NORMAL" /\ Curr.danger
              /\ LinkList' = LinkList \cup {curr_file}
              /\ deferred' = deferred \cup {curr_file}
    BY <1>3 DEF ExtractEffect
  <2>3. PosInv'
    BY <1>1, <2>1, <2>2, Zenon DEF ListInv, PosInv, Headers, HasFile
  <2>4. curr_file_type = "NORMAL" => curr_file = at
    BY SMTT(30) DEF ListInv, PosInv
  <2>5. BehindInv'
    BY <1>1, <2>1, <2>2, <2>4, SMTT(30) DEF ListInv, BehindInv, Behind, Hdr, Curr, HasFile
  <2>6. QED
    BY <1>1, <2>1, <2>3, <2>5 DEF ListInv
<1>4. CASE NextEffect
  <2>1. /\ UNCHANGED <<archive, deferred>> /\ used' = "no" /\ Lists' /\ Moves
        /\ GivesDirectory \/ GivesFile \/ GivesLink \/ GivesNothing
    BY <1>4 DEF NextEffect, inputVars
  <2>2. at' >= at /\ b_curr_file' \in {NULL, at'}
    BY <1>1, <2>1, SMTT(30) DEF Moves, ListInv, PosInv
  <2>3. PosInv'
    BY <2>1, <2>2
       DEF ListInv, PosInv, GivesDirectory, GivesFile, GivesLink, GivesNothing, Headers
  <2>4. ASSUME NEW h \in Headers, Behind(h) PROVE h <= at' /\ h # b_curr_file'
    BY <1>1, <2>1, <2>2, <2>4, SMTT(30) DEF Behind, Moves, Headers, NULL
  <2>5. /\ DirList' \subseteq DirList
        /\ LinkList' \subseteq LinkList
        /\ curr_file_type' = "FAKE_DIR" => curr_file' \in DirList
        /\ curr_file_type' = "DEFERRED_SYMLINK" => curr_file' \in LinkList \ LinkList'
    BY <2>1, SMTT(30) DEF GivesDirectory, GivesFile, GivesLink, GivesNothing
  <2>6. BehindInv'
    BY <1>1, <2>1, <2>4, <2>5, SMTT(30) DEF ListInv, BehindInv, Behind, Hdr, Curr
  <2>7. QED
    BY <1>1, <2>1, <2>3, <2>6 DEF ListInv
<1>5. CASE FreeEffect
  <2>1. PosInv'
    BY <1>5, SMTT(30) DEF FreeEffect, ListInv, PosInv, inputVars, clientVars, Headers
  <2>2. BehindInv'
    BY <1>1, <1>5
       DEF FreeEffect, ListInv, BehindInv, Behind, inputVars, clientVars, Hdr, Headers, NULL
  <2>3. QED
    BY <1>1, <1>5, <2>1, <2>2, SMTT(30) DEF FreeEffect, ListInv
<1>6. QED
  BY <1>2, <1>3, <1>4, <1>5, StepKinds, ExtractHasEffect

(* In the initial states both lists are empty. *)
LEMMA InitListInv ==
  ASSUME Init
  PROVE  ListInv /\ DirList = {} /\ LinkList = {}
<1>1. LinkInv /\ Len(archive) \in Nat
  BY InitLinkInv, InitialArchive DEF Init
<1> DEFINE e == [i \in 1 .. 0 |-> 0]
<1>2. e \in [1 .. 0 -> 1 .. Len(archive)] /\ Nodes(0, e) = {}
  BY DEF Nodes
<1> HIDE DEF e
<1>3. IsList(next, Len(archive), NULL, 0, e)
  BY <1>2 DEF IsList
<1>4. AreLists(0, e, 0, e)
  BY <1>2, <1>3 DEF AreLists, Init, ReaderInit
<1>5. Lists /\ DirList = {} /\ LinkList = {}
  BY <1>1, <1>2, <1>4, ListsAre, SMTT(30) DEF Lists
<1>6. PosInv
  BY DEF Init, ReaderInit, BasicInit, PosInv, NULL
<1>7. BehindInv
  BY <1>5 DEF Init, ReaderInit, BehindInv
<1>8. QED
  BY <1>1, <1>5, <1>6, <1>7 DEF ListInv

-----------------------------------------------------------------------------
(* The reader is well formed *)

(* AdvanceInput: the reference to what was current goes, and the basic     *)
(* reader has one to the header it is at.                                  *)
LEMMA AdvanceRefs ==
  ASSUME ListInv, RefInv, curr_file_type \notin {"EOF", "FREED"}, AdvanceInput
  PROVE  /\ refs' \in [Headers -> Nat]
         /\ \A h \in Headers :
              refs'[h] = Count(h = b_curr_file') + Count(h \in DirList) + Count(h \in deferred)
<1>1. /\ TypeInv /\ at \in Nat /\ b_curr_file \in 0 .. Len(archive)
      /\ HasFile => curr_file \in Headers
      /\ b_curr_file \in {NULL, at}
      /\ \A h \in DirList \cup deferred : Behind(h)
  <2>1. TypeInv /\ PosInv /\ BehindInv
    BY DEF ListInv, LinkInv
  <2>2. at \in Nat /\ b_curr_file \in 0 .. Len(archive)
    BY <2>1 DEF TypeInv
  <2>3. HasFile => curr_file \in Headers
    BY <2>1, CurrIsEntry
  <2>4. b_curr_file \in {NULL, at} /\ \A h \in DirList \cup deferred : Behind(h)
    BY <2>1, Zenon DEF PosInv, BehindInv
  <2>5. QED
    BY <2>1, <2>2, <2>3, <2>4
<1>2. /\ refs \in [Headers -> Nat]
      /\ \A h \in Headers :
           refs[h] = Count(h = b_curr_file) + Count(h \in DirList)
                     + Count(curr_file_type = "FAKE_DIR" /\ h = curr_file)
                     + Count(h \in deferred)
  BY DEF RefInv
<1>3. CASE curr_file_type \notin {"START", "NORMAL"}
  <2>1. /\ b_curr_file' = b_curr_file
        /\ refs' = IF curr_file_type = "FAKE_DIR"
                   THEN lha_file_header_free(refs, curr_file) ELSE refs
    BY <1>3 DEF AdvanceInput, basicVars
  <2>2. CASE curr_file_type = "FAKE_DIR"
    <3>1. curr_file \in Headers
      BY <1>1, <2>2 DEF HasFile
    <3>2. refs' = [refs EXCEPT ![curr_file] = IF @ = 0 THEN 0 ELSE @ - 1]
      BY <2>1, <2>2 DEF lha_file_header_free
    <3>3. QED
      BY <1>2, <2>1, <2>2, <3>1, <3>2, SMTT(30) DEF Count
  <2>3. CASE curr_file_type # "FAKE_DIR"
    BY <1>2, <2>1, <2>3, SMTT(30) DEF Count
  <2>4. QED
    BY <2>2, <2>3
<1>4. CASE curr_file_type \in {"START", "NORMAL"}
  <2>1. lha_basic_reader_next_file
    BY <1>4 DEF AdvanceInput
  <2> DEFINE freed == IF b_curr_file # NULL THEN lha_file_header_free(refs, b_curr_file) ELSE refs
  <2>2. /\ freed \in [Headers -> Nat]
        /\ \A h \in Headers : freed[h] = Count(h \in DirList) + Count(h \in deferred)
    <3>1. CASE b_curr_file # NULL
      <4>1. b_curr_file \in Headers
        BY <1>1, <3>1 DEF Headers, NULL
      <4>2. freed = [refs EXCEPT ![b_curr_file] = IF @ = 0 THEN 0 ELSE @ - 1]
        BY <3>1 DEF lha_file_header_free
      <4> HIDE DEF freed
      <4>3. QED
        BY <1>2, <1>4, <4>1, <4>2 DEF Count
    <3>2. CASE b_curr_file = NULL
      BY <1>2, <1>4, <3>2, SMTT(30) DEF Count, Headers, NULL
    <3>3. QED
      BY <3>1, <3>2
  <2>3. \/ /\ at < lastHeader /\ b_curr_file' = at + 1
           /\ refs' = [freed EXCEPT ![at + 1] = 1]
        \/ b_curr_file' = NULL /\ refs' = freed
    BY <2>1 DEF lha_basic_reader_next_file, HeaderAt
  <2> HIDE DEF freed
  <2>4. CASE /\ at < lastHeader /\ b_curr_file' = at + 1
             /\ refs' = [freed EXCEPT ![at + 1] = 1]
    <3>1. at + 1 \in Headers
      BY <1>1, <2>4 DEF TypeInv, Headers
    <3>2. at + 1 \notin DirList /\ at + 1 \notin deferred
      BY <1>1 DEF Behind
    <3>3. QED
      BY <2>2, <2>4, <3>1, <3>2 DEF Count
  <2>5. CASE b_curr_file' = NULL /\ refs' = freed
    BY <2>2, <2>5 DEF Count, Headers, NULL
  <2>6. QED
    BY <2>3, <2>4, <2>5
<1>5. QED
  BY <1>3, <1>4

(* Every step keeps the counts exact. *)
LEMMA NextRefInv ==
  ASSUME ~ExtractTwice, ListInv, RefInv, [Next]_vars
  PROVE  RefInv'
<1>1. CASE lha_reader_extract
  <2>1. ExtractEffect
    BY <1>1, ExtractHasEffect
  <2>2. UNCHANGED <<archive, curr_file, curr_file_type, b_curr_file>> /\ curr_file \in Headers
    BY <2>1, CurrIsEntry DEF ExtractEffect, inputVars, readerVars, ListInv, LinkInv
  <2>3. CASE DirList' = DirList /\ UNCHANGED <<refs, deferred>>
    BY <2>2, <2>3 DEF RefInv, Headers
  <2>4. CASE /\ curr_file \notin DirList
             /\ DirList' = DirList \cup {curr_file} /\ UNCHANGED deferred
             /\ refs' = lha_file_header_add_ref(refs, curr_file)
    <3>1. /\ refs' \in [Headers -> Nat]
          /\ \A h \in Headers : refs'[h] = refs[h] + Count(h = curr_file)
      BY <2>2, <2>4 DEF RefInv, lha_file_header_add_ref, Count
    <3>2. \A h \in Headers : Count(h \in DirList') = Count(h \in DirList) + Count(h = curr_file)
      BY <2>4 DEF Count
    <3>3. QED
      BY <2>2, <2>4, <3>1, <3>2, SMTT(30) DEF RefInv, Headers, Count
  <2>5. CASE /\ curr_file \notin deferred
             /\ DirList' = DirList /\ deferred' = deferred \cup {curr_file}
             /\ refs' = lha_file_header_add_ref(refs, curr_file)
    <3>1. /\ refs' \in [Headers -> Nat]
          /\ \A h \in Headers : refs'[h] = refs[h] + Count(h = curr_file)
      BY <2>2, <2>5 DEF RefInv, lha_file_header_add_ref, Count
    <3>2. \A h \in Headers : Count(h \in deferred') = Count(h \in deferred) + Count(h = curr_file)
      BY <2>5 DEF Count
    <3>3. QED
      BY <2>2, <2>5, <3>1, <3>2, SMTT(30) DEF RefInv, Headers, Count
  <2>6. QED
    BY <2>1, <2>3, <2>4, <2>5 DEF ExtractEffect
<1>2. CASE lha_reader_next_file /\ NextEffect
  <2>1. /\ refs' \in [Headers -> Nat]
        /\ \A h \in Headers :
             refs'[h] = Count(h = b_curr_file') + Count(h \in DirList) + Count(h \in deferred)
    BY <1>2, AdvanceRefs DEF lha_reader_next_file
  <2>2. UNCHANGED <<archive, deferred>>
    BY <1>2 DEF NextEffect, inputVars
  <2>3. \A h \in Headers :
          Count(h \in DirList)
            = Count(h \in DirList') + Count(curr_file_type' = "FAKE_DIR" /\ h = curr_file')
    <3>1. CASE GivesDirectory
      BY <3>1 DEF GivesDirectory, Count
    <3>2. CASE GivesFile \/ GivesLink \/ GivesNothing
      <4>1. DirList' = DirList /\ curr_file_type' # "FAKE_DIR"
        BY <3>2 DEF GivesFile, GivesLink, GivesNothing
      <4>2. QED
        BY <4>1 DEF Count
    <3>3. QED
      BY <1>2, <3>1, <3>2 DEF NextEffect
  <2>4. ASSUME NEW h \in Headers
        PROVE  refs'[h] = Count(h = b_curr_file') + Count(h \in DirList')
                          + Count(curr_file_type' = "FAKE_DIR" /\ h = curr_file')
                          + Count(h \in deferred')
    BY <2>1, <2>2, <2>3 DEF Count
  <2>5. Headers' = Headers
    BY <2>2, SMTT(30) DEF Headers
  <2>6. QED
    BY <2>1, <2>4, <2>5 DEF RefInv
<1>3. CASE lha_reader_free /\ FreeEffect
  <2>1. refs' = [h \in Headers |-> refs[h] - (IF h \in DirList THEN 1 ELSE 0)
                                           - (IF h = b_curr_file THEN 1 ELSE 0)]
    BY <1>3 DEF lha_reader_free, DirList
  <2>2. \A h \in Headers : refs[h] >= Count(h = b_curr_file) + Count(h \in DirList)
    BY <1>3 DEF FreeEffect, RefInv, Count
  <2>3. refs' \in [Headers -> Nat]
    BY <2>1, <2>2 DEF RefInv, Count
  <2>4. QED
    BY <1>3, <2>3 DEF FreeEffect, RefInv, inputVars, Headers
<1>4. CASE ReadEffect \/ IdleEffect
  <2>1. UNCHANGED <<archive, curr_file, curr_file_type, b_curr_file, listVars, deferred, refs>>
    BY <1>4 DEF ReadEffect, IdleEffect, inputVars, readerVars, basicVars, clientVars
  <2>2. DirList' = DirList
    BY <2>1, ListsUnchanged
  <2>3. QED
    BY <2>1, <2>2, SMTT(30) DEF RefInv, Headers
<1>5. QED
  BY <1>1, <1>2, <1>3, <1>4, StepKinds, SMTT(30)

(* Every step keeps these fields in their range. *)
LEMMA NextRestInv ==
  ASSUME ~ExtractTwice, ListInv, RestInv, [Next]_vars
  PROVE  RestInv'
<1>1. UNCHANGED inputVars
  BY ZenonT(30) DEF Next, vars, lha_reader_next_file, lha_reader_read, lha_reader_check,
         lha_reader_extract, lha_reader_set_dir_policy, lha_reader_free
<1>2. dir_policy' \in Policies /\ skipped' \in {0, 1}
  BY StepKinds, ExtractHasEffect
     DEF RestInv, ReadEffect, ExtractEffect, NextEffect, FreeEffect, IdleEffect,
         readerVars, clientVars
<1>3. QED
  BY <1>1, <1>2 DEF RestInv, inputVars, CLen

(* The initial states satisfy it. *)
LEMMA InitWholeInv ==
  ASSUME Init
  PROVE  WholeInv
<1>1. ListInv /\ DirList = {}
  BY InitListInv, Zenon
<1>2. /\ TypeInv /\ lastHeader \in 0 .. Len(archive) /\ lastData \in 0 .. CLen(lastHeader)
      /\ CLen(lastHeader) \in Nat
  BY <1>1, CLenType, ZenonT(30) DEF ListInv, LinkInv, TypeInv, Init, BasicInit
<1>3. RefInv
  BY <1>1, SMTT(30) DEF Init, BasicInit, ReaderInit, RefInv, Count, Headers, NULL
<1>4. RestInv
  BY <1>2 DEF Init, BasicInit, ReaderInit, RestInv, Policies
<1>5. DecoderInv
  BY SMTT(30) DEF Init, ReaderInit, DecoderInv, DecodersExact
<1>6. AlignInv
  <2>1. off = 0 /\ b_remaining = 0 /\ b_eof = 0 /\ b_curr_file = NULL
    BY Zenon DEF Init, BasicInit
  <2>2. lastData \in Nat
    BY <1>2
  <2>3. QED
    BY <2>1, <2>2 DEF AlignInv, Aligned
<1>7. QED
  BY <1>1, <1>3, <1>4, <1>5, <1>6, SMTT(30) DEF WholeInv

(* Every step keeps it. *)
LEMMA NextWholeInv ==
  ASSUME ~ExtractTwice, WholeInv, [Next]_vars
  PROVE  WholeInv'
BY NextListInv, NextRefInv, NextRestInv, NextDecoderInv, NextAlignInv
   DEF WholeInv, ListInv, LinkInv

(* It is more than what the runs check. *)
LEMMA WholeIsWellFormed ==
  ASSUME ~ExtractTwice, WholeInv
  PROVE  WellFormed
<1>1. TypeInv /\ Len(archive) \in Nat
  BY DEF WholeInv, ListInv, LinkInv, TypeInv
<1>2. decoders \in Nat
  BY DEF WholeInv, DecoderInv, DecodersExact
<1>3. BasicTypeOK
  BY <1>1, SMTT(30) DEF WholeInv, RestInv, AlignInv, RefInv, TypeInv, BasicTypeOK
<1>4. TypeOK
  BY <1>1, <1>2, <1>3, SMTT(30)
     DEF WholeInv, ListInv, RestInv, DecoderInv, PosInv, TypeInv, TypeOK
<1>5. ListsSeparate
  BY <1>1, ListsFacts DEF WholeInv, ListInv
<1>6. RefsExact
  BY DEF WholeInv, RefInv, RefsExact, Count, DirList
<1>7. QED
  BY <1>4, <1>5, <1>6 DEF WellFormed

(* However the calls of a client that uses each file once are ordered, and *)
(* whatever the archive, the two lists threaded through the one _next      *)
(* field stay two disjoint lists without a cycle, and every header has     *)
(* exactly the references the reader holds.                                *)
THEOREM ReaderIsWellFormed ==
  ASSUME ~ExtractTwice
  PROVE  Spec => []WellFormed
<1>1. Init => WholeInv
  BY InitWholeInv
<1>2. WholeInv /\ [Next]_vars => WholeInv'
  BY NextWholeInv
<1>3. WholeInv => WellFormed
  BY WholeIsWellFormed
<1>4. QED
  BY <1>1, <1>2, <1>3, PTL DEF Spec

-----------------------------------------------------------------------------
(* What the client and the file system see *)

(* The reader's initial states are initial states of the iteration. *)
LEMMA IterationInit ==
  ASSUME Init
  PROVE  Iteration!Init
<1>1. ListInv /\ DirList = {} /\ LinkList = {} /\ archive \in Seq(Entries)
  BY InitListInv, InitialArchive DEF Init
<1>2. [h \in Headers |-> Hdr(h).len] \in Seq(Nat)
  BY <1>1, PathLens
<1>3. curr_file_type = "START" /\ at = 0
  BY DEF Init, ReaderInit, BasicInit
<1>4. QED
  BY <1>1, <1>2, <1>3 DEF Iteration!Init, Iteration!Nothing, DirList, LinkList

(* The reader, with its stream, its lists and its reference counts, is an  *)
(* implementation of ReaderIteration: the files in order and each once,    *)
(* every directory created once more, then the links held back, the        *)
(* longest paths first, for every archive and every order of the calls.    *)
THEOREM ReaderIterates ==
  ASSUME ~ExtractTwice
  PROVE  Spec => Iterates
<1>1. Init => ListInv /\ Iteration!Init
  BY InitListInv, IterationInit
<1>2. ListInv /\ [Next]_vars => ListInv' /\ [Iteration!Next]_Iteration!iterVars
  BY NextListInv, NextHasStepEffect, LinksAreHeaders, IterationStep
<1>3. QED
  BY <1>1, <1>2, PTL DEF Spec, Iterates, Iteration!Spec

(* When a deferred link is about to be made no dangerous link is at a path *)
(* that leads to it, whatever the archive, the policy and the client, as   *)
(* long as each file is used once: the list is kept sorted by insertions   *)
(* at any time and in any order.                                           *)
THEOREM LinksDoNotDepend ==
  ASSUME ~ExtractTwice
  PROVE  Spec => []LinkNotThroughLink
<1>1. Init => ListInv /\ LongestInv
  BY InitListInv DEF Init, ReaderInit, LongestInv
<1>2. ListInv /\ LongestInv /\ [Next]_vars => ListInv' /\ LongestInv'
  BY NextListInv, NextHasStepEffect, LinksAreHeaders, StepLongestInv
<1>3. ListInv /\ LongestInv => LinkNotThroughLink
  <2>1. SUFFICES ASSUME ListInv, LongestInv, curr_file_type = "DEFERRED_SYMLINK",
                        NEW q \in Paths, ProperPrefix(q, Curr.target), arch.fs[q] = "dlink"
                 PROVE  FALSE
    BY SMTT(30) DEF LinkNotThroughLink
  <2>2. PICK h \in Headers : Hdr(h).target = q /\ Hdr(h).len >= Curr.len
    BY <2>1, SMTT(30) DEF LongestInv
  <2>3. HasFile /\ TypeInv /\ archive \in Seq(Entries)
    BY <2>1, ZenonT(30) DEF HasFile, ListInv, LinkInv, TypeInv
  <2>4. Curr \in Entries /\ Hdr(h) \in Entries /\ Hdr(h).len \in Nat
    BY <2>3, CurrIsEntry, LenType, SMTT(30)
  <2>5. Hdr(h).len < Curr.len /\ Curr.len \in Nat
    BY <2>1, <2>2, <2>4, ReaderAssumption
  <2>6. QED
    BY <2>2, <2>4, <2>5, SMTT(30)
<1>4. QED
  BY <1>1, <1>2, <1>3, PTL DEF Spec

(* When the end is reported and everything given was extracted, every      *)
(* directory that was created has had its metadata applied: for every      *)
(* policy, also one that changes, every failure of a system call and every *)
(* place where the archive may be cut off.                                 *)
THEOREM DirectoriesGetMetadata ==
  ASSUME ~ExtractTwice
  PROVE  Spec => []EveryDirGetsMetadata
<1>1. Init => ListInv /\ TreeInv /\ OwedInv
  BY InitListInv, InitTreeInv, Zenon DEF OwedInv
<1>2. ListInv /\ TreeInv /\ OwedInv /\ [Next]_vars => ListInv' /\ TreeInv' /\ OwedInv'
  BY NextListInv, NextHasStepEffect, StepTreeInv, StepOwedInv, ZenonT(30)
<1>3. ListInv /\ OwedInv => EveryDirGetsMetadata
  <2>1. ASSUME ListInv, OwedInv, curr_file_type = "EOF" PROVE DirList = {}
    <3>1. dir_stack = NULL /\ Lists /\ Len(archive) \in Nat
      BY <2>1 DEF ListInv, LinkInv, NothingElseLeft, TypeInv
    <3>2. QED
      BY <3>1, ListsFacts
  <2>2. QED
    BY <2>1 DEF OwedInv, EveryDirGetsMetadata
<1>4. QED
  BY <1>1, <1>2, <1>3, PTL DEF Spec

(* Without faults of the file system no placeholder is ever forgotten: as  *)
(* long as what is given is extracted, its link is still to come, or the   *)
(* archive itself made its directory read-only in between.                 *)
THEOREM PlaceholdersStayPending ==
  ASSUME ~ExtractTwice
  PROVE  Spec => []PlaceholdersPending
<1>1. Init => ListInv /\ TreeInv /\ PendingInv
  BY InitListInv, InitTreeInv DEF PendingInv
<1>2. ListInv /\ TreeInv /\ PendingInv /\ [Next]_vars => ListInv' /\ TreeInv' /\ PendingInv'
  BY NextListInv, NextHasStepEffect, StepTreeInv, StepPendingInv, ZenonT(30)
<1>3. PendingInv => PlaceholdersPending
  BY DEF PendingInv, PlaceholdersPending, LinkList
<1>4. QED
  BY <1>1, <1>2, <1>3, PTL DEF Spec

(* A directory is given back for its metadata only when nothing but        *)
(* deferred links will still be made in it: under END_OF_FILE in every     *)
(* archive, under END_OF_DIR in those that keep directories together.      *)
THEOREM MetadataComesLast ==
  ASSUME ~ExtractTwice
  PROVE  Spec => []MetadataLast
<1>1. Init => ListInv /\ RestInv /\ MetadataInv
  <2>1. ASSUME Init PROVE MetadataInv
    BY <2>1, InitTreeInv DEF Init, ReaderInit, MetadataInv, AppliedInv, MetadataLast
  <2>2. QED
    BY <2>1, InitWholeInv, SMTT(30) DEF WholeInv
<1>2. ListInv /\ RestInv /\ MetadataInv /\ [Next]_vars => ListInv' /\ RestInv' /\ MetadataInv'
  BY NextListInv, NextRestInv, StepMetadataInv, NextHasStepEffect, ZenonT(30)
<1>3. MetadataInv => MetadataLast
  BY DEF MetadataInv
<1>4. QED
  BY <1>1, <1>2, <1>3, PTL DEF Spec
=============================================================================
