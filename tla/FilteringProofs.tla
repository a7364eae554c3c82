--------------------------- MODULE FilteringProofs ---------------------------
(***************************************************************************)
(* What Chosen returns.  The lemmas are proved by induction on the length  *)
(* of the sequence; CountingUp has a set of numbers in the place of the    *)
(* predicate, so that it can be used with any.                             *)
(***************************************************************************)
EXTENDS Filtering, SequenceTheorems, WellFoundedInduction, TLAPS

\* The least number of a set.
LEMMA LeastNumber ==
  ASSUME NEW T \in SUBSET Nat, T # {}
  PROVE  \E x \in T : \A y \in T : x <= y
<1>1. PICK x \in T : \A y \in T : <<y, x>> \notin OpToRel(<, Nat)
  BY NatLessThanWellFounded, WFMin
<1>2. \A y \in T : ~(y < x)
  BY <1>1 DEF OpToRel
<1> QED
  BY <1>2

LEMMA CountingUp ==
  ASSUME NEW T, 0 \in T, \A n \in Nat : n \in T => n + 1 \in T
  PROVE  Nat \subseteq T
<1>1. SUFFICES ASSUME Nat \ T # {} PROVE FALSE
  OBVIOUS
<1>2. PICK x \in Nat \ T : \A y \in Nat \ T : x <= y
  BY <1>1, LeastNumber
<1>3. x # 0 /\ x - 1 \in Nat /\ x - 1 \notin Nat \ T
  BY <1>2
<1>4. x - 1 + 1 \in T
  BY <1>3
<1> QED
  BY <1>2, <1>4

(***************************************************************************)
(* The function in Chosen: it exists, there is only one, and what it gives *)
(* for n is what is chosen of the first n elements.                        *)
(***************************************************************************)
Choosing(f, s, K, m) ==
  f = [n \in 0 .. m |->
         IF n = 0 THEN <<>>
         ELSE IF s[n] \in K THEN Append(f[n - 1], s[n]) ELSE f[n - 1]]

LEMMA ChoosingStep ==
  ASSUME NEW f, NEW s, NEW K, NEW m \in Nat, Choosing(f, s, K, m)
  PROVE  /\ f[0] = <<>>
         /\ \A n \in 0 .. m - 1 :
              f[n + 1] = IF s[n + 1] \in K THEN Append(f[n], s[n + 1]) ELSE f[n]
<1>1. \A n \in 0 .. m :
        f[n] = IF n = 0 THEN <<>>
               ELSE IF s[n] \in K THEN Append(f[n - 1], s[n]) ELSE f[n - 1]
  BY DEF Choosing
<1>2. ASSUME NEW n \in 0 .. m - 1
      PROVE  f[n + 1] = IF s[n + 1] \in K THEN Append(f[n], s[n + 1]) ELSE f[n]
  <2>1. n + 1 \in 0 .. m /\ n + 1 # 0 /\ n + 1 - 1 = n
    OBVIOUS
  <2> QED
    BY <1>1, <2>1
<1>3. f[0] = <<>>
  BY <1>1
<1> QED
  BY <1>2, <1>3

LEMMA ChoosingExists ==
  ASSUME NEW s, NEW K, NEW m \in Nat
  PROVE  \E f : Choosing(f, s, K, m)
<1> DEFINE T == {n \in Nat : \E f : Choosing(f, s, K, n)}
<1>1. 0 \in T
  <2> DEFINE g == [n \in 0 .. 0 |-> <<>>]
  <2>1. Choosing(g, s, K, 0)
    BY DEF Choosing
  <2> QED
    BY <2>1
<1>2. ASSUME NEW m1 \in Nat, m1 \in T PROVE m1 + 1 \in T
  <2>1. PICK f : Choosing(f, s, K, m1)
    BY <1>2
  <2> DEFINE g == [n \in 0 .. m1 + 1 |->
                     IF n <= m1 THEN f[n]
                     ELSE IF s[n] \in K THEN Append(f[n - 1], s[n]) ELSE f[n - 1]]
  <2>2. \A n \in 0 .. m1 : g[n] = f[n]
    OBVIOUS
  <2>6. \A n \in 0 .. m1 :
          f[n] = IF n = 0 THEN <<>>
                 ELSE IF s[n] \in K THEN Append(f[n - 1], s[n]) ELSE f[n - 1]
    BY <2>1 DEF Choosing
  <2>3. ASSUME NEW n \in 0 .. m1 + 1
        PROVE  g[n] = IF n = 0 THEN <<>>
                      ELSE IF s[n] \in K THEN Append(g[n - 1], s[n]) ELSE g[n - 1]
    BY <2>2, <2>6
  <2>4. g = [n \in 0 .. m1 + 1 |->
               IF n = 0 THEN <<>>
               ELSE IF s[n] \in K THEN Append(g[n - 1], s[n]) ELSE g[n - 1]]
    BY <2>3
  <2> HIDE DEF g
  <2>5. Choosing(g, s, K, m1 + 1)
    BY <2>4, Zenon DEF Choosing
  <2> QED
    BY <2>5
<1> HIDE DEF T
<1>3. Nat \subseteq T
  BY <1>1, <1>2, CountingUp
<1> QED
  BY <1>3 DEF T

LEMMA ChoosingAgree ==
  ASSUME NEW s, NEW t, NEW K, NEW L, NEW f, NEW g, NEW k \in Nat, NEW m \in Nat,
         NEW h \in Nat, Choosing(f, s, K, k), Choosing(g, t, L, m), h <= k, h <= m,
         \A n \in 1 .. h : s[n] = t[n] /\ (s[n] \in K <=> t[n] \in L)
  PROVE  f[h] = g[h]
<1> DEFINE T == {n \in Nat : n <= h => f[n] = g[n]}
<1>1. 0 \in T
  BY ChoosingStep
<1>2. ASSUME NEW n \in Nat, n \in T PROVE n + 1 \in T
  <2> SUFFICES ASSUME n + 1 <= h PROVE f[n + 1] = g[n + 1]
    OBVIOUS
  <2>1. n \in 0 .. k - 1 /\ n \in 0 .. m - 1 /\ f[n] = g[n] /\ n + 1 \in 1 .. h
    BY <1>2
  <2>2. f[n + 1] = IF s[n + 1] \in K THEN Append(f[n], s[n + 1]) ELSE f[n]
    BY <2>1, ChoosingStep
  <2>3. g[n + 1] = IF t[n + 1] \in L THEN Append(g[n], t[n + 1]) ELSE g[n]
    BY <2>1, ChoosingStep
  <2> QED
    BY <2>1, <2>2, <2>3
<1> HIDE DEF T
<1>3. Nat \subseteq T
  BY <1>1, <1>2, CountingUp
<1> QED
  BY <1>3 DEF T

LEMMA ChosenIs ==
  ASSUME NEW S, NEW s \in Seq(S), NEW K
  PROVE  \E f : Choosing(f, s, K, Len(s)) /\ Chosen(s, K) = f[Len(s)]
<1> DEFINE IsF(f) == Choosing(f, s, K, Len(s))
<1>1. \E f : IsF(f)
  BY Len(s) \in Nat, ChoosingExists, Zenon
<1>2. Chosen(s, K) = (CHOOSE f : IsF(f))[Len(s)]
  BY DEF Chosen, Choosing
<1> HIDE DEF IsF
<1>3. IsF(CHOOSE f : IsF(f))
  BY <1>1
<1> QED
  BY <1>2, <1>3 DEF IsF

\* Only the elements of the sequence matter, and whether they are in the set.
LEMMA ChosenSame ==
  ASSUME NEW S, NEW s \in Seq(S), NEW t \in Seq(S), NEW K, NEW L, s = t,
         \A n \in 1 .. Len(s) : s[n] \in K <=> s[n] \in L
  PROVE  Chosen(s, K) = Chosen(t, L)
<1>1. PICK f : Choosing(f, s, K, Len(s)) /\ Chosen(s, K) = f[Len(s)]
  BY ChosenIs
<1>2. PICK g : Choosing(g, t, L, Len(t)) /\ Chosen(t, L) = g[Len(t)]
  BY ChosenIs
<1>3. f[Len(s)] = g[Len(s)]
  BY <1>1, <1>2, ChoosingAgree
<1> QED
  BY <1>1, <1>2, <1>3

\* What is chosen are elements of the sequence that are in the set, all of them.
LEMMA ChosenElements ==
  ASSUME NEW S, NEW s \in Seq(S), NEW K
  PROVE  /\ Chosen(s, K) \in Seq(S)
         /\ \A i \in DOMAIN Chosen(s, K) :
              \E n \in DOMAIN s : s[n] \in K /\ Chosen(s, K)[i] = s[n]
         /\ \A n \in DOMAIN s : s[n] \in K => \E i \in DOMAIN Chosen(s, K) : Chosen(s, K)[i] = s[n]
<1>1. PICK f : Choosing(f, s, K, Len(s)) /\ Chosen(s, K) = f[Len(s)]
  BY ChosenIs
<1>2. DOMAIN s = 1 .. Len(s) /\ Len(s) \in Nat
  OBVIOUS
<1> DEFINE Good(c, m) ==
             /\ c \in Seq(S)
             /\ \A i \in DOMAIN c : \E n \in 1 .. m : s[n] \in K /\ c[i] = s[n]
             /\ \A n \in 1 .. m : s[n] \in K => \E i \in DOMAIN c : c[i] = s[n]
           T == {m \in Nat : m <= Len(s) => Good(f[m], m)}
<1>3. Good(f[0], 0)
  <2>1. f[0] = <<>>
    BY <1>1, <1>2, ChoosingStep
  <2> HIDE DEF Good
  <2>2. Good(<<>>, 0)
    BY DEF Good
  <2> QED
    BY <2>1, <2>2
<1>4. ASSUME NEW m \in Nat, m + 1 <= Len(s), Good(f[m], m)
      PROVE  Good(f[m + 1], m + 1)
  <2> DEFINE c == f[m]
             d == f[m + 1]
             e == s[m + 1]
  <2>1. m \in 0 .. Len(s) - 1 /\ m + 1 \in 1 .. Len(s) /\ Good(c, m)
    BY <1>2, <1>4
  <2>2. d = IF e \in K THEN Append(c, e) ELSE c
    BY SMTT(30), <1>1, <1>2, <2>1, ChoosingStep
  <2>3. e \in S
    BY <1>2, <2>1
  <2>4. \A n \in 1 .. m + 1 : n \in 1 .. m \/ n = m + 1
    OBVIOUS
  <2>5. 1 .. m \subseteq 1 .. m + 1 /\ m + 1 \in 1 .. m + 1
    OBVIOUS
  <2> HIDE DEF c, d
  <2>6. CASE e \notin K
    BY <2>1, <2>2, <2>4, <2>5, <2>6 DEF c, d
  <2>7. CASE e \in K
    <3> HIDE DEF e
    <3>1. d = Append(c, e) /\ c \in Seq(S)
      BY <2>1, <2>2, <2>7
    <3>2. /\ d \in Seq(S) /\ DOMAIN c = 1 .. Len(c) /\ Len(c) \in Nat
          /\ DOMAIN d = 1 .. Len(c) + 1
          /\ \A i \in 1 .. Len(c) : d[i] = c[i]
          /\ d[Len(c) + 1] = e
      BY <3>1, <2>3
    <3>3. ASSUME NEW i \in DOMAIN d PROVE \E n \in 1 .. m + 1 : s[n] \in K /\ d[i] = s[n]
      <4>1. CASE i \in 1 .. Len(c)
        BY <2>1, <2>5, <3>2, <4>1
      <4>2. CASE i = Len(c) + 1
        BY <2>5, <2>7, <3>2, <4>2 DEF e
      <4> QED
        BY <3>2, <4>1, <4>2
    <3>4. ASSUME NEW n \in 1 .. m + 1, s[n] \in K PROVE \E i \in DOMAIN d : d[i] = s[n]
      <4>1. CASE n \in 1 .. m
        <5>1. PICK i \in DOMAIN c : c[i] = s[n]
          BY <2>1, <3>4, <4>1
        <5> QED
          BY <3>2, <5>1
      <4>2. CASE n = m + 1
        BY <3>2, <4>2 DEF e
      <4> QED
        BY <2>4, <4>1, <4>2
    <3> QED
      BY <3>2, <3>3, <3>4 DEF d
  <2> QED
    BY <2>6, <2>7
<1>5. Nat \subseteq T
  <2> HIDE DEF Good
  <2>1. 0 \in T /\ \A m \in Nat : m \in T => m + 1 \in T
    BY <1>2, <1>3, <1>4
  <2> HIDE DEF T
  <2> QED
    BY <2>1, CountingUp
<1>6. Good(f[Len(s)], Len(s))
  BY <1>2, <1>5
<1> QED
  BY ZenonT(30), <1>1, <1>2, <1>6

\* What is chosen of a prefix, and then what else is chosen of the sequence.
LEMMA ChosenSplit ==
  ASSUME NEW S, NEW s \in Seq(S), NEW K, NEW L, NEW k \in 0 .. Len(s),
         \A n \in 1 .. k : s[n] \notin L,
         \A n \in k + 1 .. Len(s) : s[n] \in K <=> s[n] \in L
  PROVE  Chosen(s, K) = Chosen(SubSeq(s, 1, k), K) \o Chosen(s, L)
<1> DEFINE p == SubSeq(s, 1, k)
<1>0. Len(s) \in Nat /\ k \in Nat /\ k <= Len(s) /\ DOMAIN s = 1 .. Len(s)
  OBVIOUS
<1>1. p \in Seq(S) /\ Len(p) = k /\ \A n \in 1 .. k : p[n] = s[n]
  BY <1>0
<1>2. PICK f : Choosing(f, s, K, Len(s)) /\ Chosen(s, K) = f[Len(s)]
  BY ChosenIs
<1>3. PICK g : Choosing(g, s, L, Len(s)) /\ Chosen(s, L) = g[Len(s)]
  BY ChosenIs
<1>4. PICK h : Choosing(h, p, K, k) /\ Chosen(p, K) = h[k]
  BY <1>1, ChosenIs
<1> HIDE DEF p
<1>5. h[k] = f[k]
  <2>1. \A n \in 1 .. k : p[n] = s[n] /\ (p[n] \in K <=> s[n] \in K)
    BY <1>1
  <2>2. k \in Nat /\ Len(s) \in Nat /\ k <= k /\ k <= Len(s)
    BY <1>0
  <2>3. Choosing(h, p, K, k) /\ Choosing(f, s, K, Len(s))
    BY <1>2, <1>4
  <2> HIDE <1>2, <1>4
  <2> QED
    BY <2>1, <2>2, <2>3, ChoosingAgree, SMTT(30)
<1>6. h[k] \in Seq(S)
  BY <1>1, <1>4, ChosenElements
<1> DEFINE c == h[k]
           Good(n) == /\ n <= k => g[n] = <<>>
                      /\ k <= n /\ n <= Len(s) => g[n] \in Seq(S) /\ f[n] = c \o g[n]
           T == {n \in Nat : Good(n)}
<1> HIDE DEF c
<1>7. Good(0)
  <2>1. g[0] = <<>>
    BY <1>0, <1>3, ChoosingStep
  <2>2. c \o <<>> = c /\ <<>> \in Seq(S)
    BY <1>6 DEF c
  <2>3. k <= 0 => f[0] = c
    BY <1>0, <1>5 DEF c
  <2> QED
    BY <2>1, <2>2, <2>3
<1>8. ASSUME NEW n \in Nat, Good(n) PROVE Good(n + 1)
  <2>1. CASE n + 1 > Len(s)
    BY <1>0, <2>1
  <2>2. CASE n + 1 <= Len(s)
    <3> DEFINE e == s[n + 1]
    <3>1. n \in 0 .. Len(s) - 1 /\ n + 1 \in 1 .. Len(s) /\ e \in S
      BY <1>0, <2>2
    <3>2. f[n + 1] = IF s[n + 1] \in K THEN Append(f[n], s[n + 1]) ELSE f[n]
      BY <1>0, <1>2, <3>1, ChoosingStep
    <3>3. g[n + 1] = IF s[n + 1] \in L THEN Append(g[n], s[n + 1]) ELSE g[n]
      <4>1. \A i \in 0 .. Len(s) - 1 :
              g[i + 1] = IF s[i + 1] \in L THEN Append(g[i], s[i + 1]) ELSE g[i]
        BY <1>0, <1>3, ChoosingStep, Zenon
      <4> QED
        BY <3>1, <4>1
    <3> HIDE DEF e
    <3>4. CASE n + 1 <= k
      <4>1. e \notin L /\ g[n] = <<>>
        BY <1>0, <1>8, <3>1, <3>4 DEF e
      <4>2. g[n + 1] = <<>>
        BY <3>3, <4>1 DEF e
      <4>3. c \o <<>> = c /\ <<>> \in Seq(S)
        BY <1>6 DEF c
      <4>4. k = n + 1 => f[n + 1] = c
        BY <1>5 DEF c
      <4> QED
        BY <3>1, <3>4, <4>2, <4>3, <4>4
    <3>5. CASE k <= n
      <4>1. (e \in K <=> e \in L) /\ g[n] \in Seq(S) /\ f[n] = c \o g[n]
        BY <1>0, <1>8, <3>1, <3>5 DEF e
      <4>2. c \o Append(g[n], e) = Append(c \o g[n], e) /\ Append(g[n], e) \in Seq(S)
        <5>1. c \in Seq(S) /\ g[n] \in Seq(S) /\ e \in S
          BY <1>6, <3>1, <4>1 DEF c
        <5> QED
          BY SMTT(30), <5>1
      <4>3. g[n + 1] \in Seq(S) /\ f[n + 1] = c \o g[n + 1]
        BY <3>2, <3>3, <4>1, <4>2 DEF e
      <4> QED
        BY <3>5, <4>3, <1>0
    <3> QED
      BY <1>0, <3>4, <3>5
  <2> QED
    BY <1>0, <2>1, <2>2
<1>9. Nat \subseteq T
  <2> HIDE DEF Good
  <2>1. 0 \in T /\ \A n \in Nat : n \in T => n + 1 \in T
    BY <1>7, <1>8
  <2> HIDE DEF T
  <2> QED
    BY <2>1, CountingUp
<1>10. f[Len(s)] = c \o g[Len(s)]
  BY <1>0, <1>9
<1> QED
  BY <1>2, <1>3, <1>4, <1>10 DEF p, c
\* What comes after a sequence comes after it piece by piece.
LEMMA AppendAfter ==
  ASSUME NEW S, NEW p \in Seq(S), NEW q \in Seq(S), NEW e \in S
  PROVE  p \o Append(q, e) = Append(p \o q, e)
<1> DEFINE a == p \o Append(q, e)
           b == Append(p \o q, e)
<1>1. Len(p) \in Nat /\ Len(q) \in Nat
  OBVIOUS
<1>2. a \in Seq(S) /\ Len(a) = Len(p) + Len(q) + 1 /\ b \in Seq(S) /\ Len(b) = Len(p) + Len(q) + 1
  BY <1>1
<1>3. ASSUME NEW i \in 1 .. Len(a) PROVE a[i] = b[i]
  <2>1. i \in 1 .. Len(p) + Len(q) + 1
    BY <1>2
  <2>2. CASE i \in 1 .. Len(p)
    <3>1. a[i] = p[i] /\ b[i] = p[i]
      BY <1>1, <2>1, <2>2
    <3> QED
      BY <3>1
  <2>3. CASE i \in Len(p) + 1 .. Len(p) + Len(q)
    <3>1. i - Len(p) \in 1 .. Len(q)
      BY <1>1, <2>3
    <3>2. a[i] = q[i - Len(p)] /\ b[i] = q[i - Len(p)]
      BY <1>1, <2>1, <2>3, <3>1
    <3> QED
      BY <3>2
  <2>4. CASE i = Len(p) + Len(q) + 1
    <3>1. a[i] = e /\ b[i] = e
      BY <1>1, <2>1, <2>4
    <3> QED
      BY <3>1
  <2> QED
    BY <1>1, <2>1, <2>2, <2>3, <2>4
<1> HIDE DEF a, b
<1>4. a = b
  BY <1>2, <1>3, SeqEqual
<1> QED
  BY <1>4 DEF a, b

LEMMA ChosenAppend ==
  ASSUME NEW S, NEW s \in Seq(S), NEW x \in S, NEW K
  PROVE  Chosen(Append(s, x), K) = IF x \in K THEN Append(Chosen(s, K), x) ELSE Chosen(s, K)
<1> DEFINE m == Len(s)
           t == Append(s, x)
           l == m + 1
<1>1. m \in Nat /\ t \in Seq(S) /\ l \in Nat /\ l = m + 1 /\ Len(t) = l /\ t[l] = x /\ \A n \in 1 .. m : s[n] = t[n]
  OBVIOUS
<1>2. PICK f : Choosing(f, s, K, m) /\ Chosen(s, K) = f[m]
  BY ChosenIs
<1> HIDE DEF m, t, l
<1>3. PICK g : Choosing(g, t, K, l) /\ Chosen(t, K) = g[l]
  BY <1>1, ChosenIs
<1>4. f[m] = g[m]
  <2>1. m <= m /\ m <= l /\ \A n \in 1 .. m : s[n] = t[n] /\ (s[n] \in K <=> t[n] \in K)
    BY <1>1
  <2> QED
    BY <1>1, <1>2, <1>3, <2>1, ChoosingAgree
<1>5. \A n \in 0 .. l - 1 : g[n + 1] = IF t[n + 1] \in K THEN Append(g[n], t[n + 1]) ELSE g[n]
  BY <1>1, <1>3, ChoosingStep
<1>6. m \in 0 .. l - 1
  BY <1>1
<1> QED
  BY <1>1, <1>2, <1>3, <1>4, <1>5, <1>6 DEF t

LEMMA ChosenOfNothing ==
  ASSUME NEW K
  PROVE  Chosen(<<>>, K) = <<>>
<1> DEFINE e == Chosen(<<>>, K)
<1>1. <<>> \in Seq({}) /\ DOMAIN <<>> = {}
  OBVIOUS
<1>2. e \in Seq({}) /\ \A i \in DOMAIN e : \E n \in DOMAIN <<>> : <<>>[n] \in K /\ e[i] = <<>>[n]
  BY <1>1, ChosenElements
<1> HIDE DEF e
<1>3. DOMAIN e = 1 .. Len(e) /\ Len(e) \in Nat /\ DOMAIN e = {}
  BY <1>1, <1>2
<1>4. Len(e) = 0
  <2>1. 1 \notin 1 .. Len(e)
    BY <1>3
  <2> QED
    BY <1>3, <2>1
<1>5. e = <<>>
  BY <1>2, <1>4
<1> QED
  BY <1>5 DEF e

LEMMA ChosenConcat ==
  ASSUME NEW S, NEW p \in Seq(S), NEW q \in Seq(S), NEW K
  PROVE  Chosen(p \o q, K) = Chosen(p, K) \o Chosen(q, K)
<1> DEFINE c == Chosen(p, K)
           T == {n \in Nat : n <= Len(q) => Chosen(p \o SubSeq(q, 1, n), K) = c \o Chosen(SubSeq(q, 1, n), K)}
<1>1. c \in Seq(S)
  BY ChosenElements
<1> HIDE DEF c
<1>2. 0 \in T
  <2>1. SubSeq(q, 1, 0) = <<>> /\ p \o <<>> = p /\ c \o <<>> = c /\ <<>> \in Seq(S) /\ DOMAIN <<>> = {}
    BY <1>1
  <2>2. Chosen(<<>>, K) = <<>>
    BY ChosenOfNothing
  <2>3. Chosen(p \o SubSeq(q, 1, 0), K) = c
    BY <2>1 DEF c
  <2>4. c \o Chosen(SubSeq(q, 1, 0), K) = c
    BY <2>1, <2>2
  <2> QED
    BY <2>3, <2>4
<1>3. ASSUME NEW n \in Nat, n \in T PROVE n + 1 \in T
  <2>1. ASSUME n + 1 <= Len(q)
        PROVE  Chosen(p \o SubSeq(q, 1, n + 1), K) = c \o Chosen(SubSeq(q, 1, n + 1), K)
    <3> DEFINE t == SubSeq(q, 1, n)
               x == q[n + 1]
               pt == p \o t
               d == Chosen(t, K)
    <3>1. t \in Seq(S) /\ x \in S /\ SubSeq(q, 1, n + 1) = Append(t, x) /\ n <= Len(q)
      BY <2>1
    <3>2. Chosen(pt, K) = c \o d
      BY <1>3, <3>1
    <3> HIDE DEF t, x
    <3>3. p \o Append(t, x) = Append(pt, x) /\ pt \in Seq(S) /\ d \in Seq(S)
      BY <3>1, AppendAfter, ChosenElements
    <3> HIDE DEF pt
    <3>4. Chosen(Append(pt, x), K) = IF x \in K THEN Append(Chosen(pt, K), x) ELSE Chosen(pt, K)
      BY <3>1, <3>3, ChosenAppend
    <3>5. Chosen(Append(t, x), K) = IF x \in K THEN Append(d, x) ELSE d
      BY <3>1, ChosenAppend
    <3> HIDE DEF d
    <3>6. c \o Append(d, x) = Append(c \o d, x)
      BY SMTT(30), <1>1, <3>1, <3>3, AppendAfter
    <3>7. Chosen(Append(pt, x), K) = c \o Chosen(Append(t, x), K)
      BY <3>2, <3>4, <3>5, <3>6
    <3> QED
      BY <3>1, <3>3, <3>7
  <2>2. n + 1 \in Nat
    OBVIOUS
  <2> QED
    BY <2>1, <2>2
<1> HIDE DEF T
<1>4. Nat \subseteq T
  BY <1>2, <1>3, CountingUp
<1> DEFINE m == Len(q)
<1>5. m \in Nat /\ m <= m /\ SubSeq(q, 1, m) = q
  OBVIOUS
<1> HIDE DEF m
<1>6. m \in {n \in Nat : n <= Len(q) => Chosen(p \o SubSeq(q, 1, n), K) = c \o Chosen(SubSeq(q, 1, n), K)}
  BY <1>4, <1>5 DEF T
<1>7. Chosen(p \o SubSeq(q, 1, m), K) = c \o Chosen(SubSeq(q, 1, m), K)
  BY <1>5, <1>6 DEF m
<1> QED
  BY <1>5, <1>7 DEF c
=============================================================================
