----------------------------- MODULE ListLemmas -----------------------------
(***************************************************************************)
(* Facts about the operators the models take from the community modules:   *)
(* the least and the greatest element of a set of numbers, the element     *)
(* inserted into or removed from a list, and the fold of a list.           *)
(***************************************************************************)
EXTENDS Integers, SequencesExt, SequenceTheorems, WellFoundedInduction, TLAPS

\* A set of natural numbers that is not empty has a least element, and
\* Min, which CHOOSEs one, returns it.
LEMMA MinIsLeast ==
  ASSUME NEW S, S \subseteq Nat, S # {}
  PROVE  Min(S) \in S /\ \A x \in S : Min(S) <= x
<1>1. PICK m \in S : \A y \in S : ~ (<<y, m>> \in OpToRel(<, Nat))
  BY NatLessThanWellFounded, WFMin, Zenon
<1>2. \A y \in S : m <= y
  <2>1. TAKE y \in S
  <2>2. ~ (y < m)
    BY <1>1 DEF OpToRel
  <2> QED
    BY <2>2
<1> QED
  BY <1>2 DEF Min

\* The same for the greatest element of a set bounded by n.
LEMMA MaxIsGreatest ==
  ASSUME NEW n \in Nat, NEW S, S \subseteq 0 .. n, S # {}
  PROVE  Max(S) \in S /\ \A x \in S : x <= Max(S)
<1> DEFINE T == {n - x : x \in S}
<1>1. T \subseteq Nat /\ T # {}
  <2>1. \A x \in S : n - x \in Nat
    OBVIOUS
  <2>2. PICK x \in S : TRUE
    OBVIOUS
  <2>3. n - x \in T
    BY <2>2
  <2> QED
    BY <2>1, <2>3
<1>2. Min(T) \in T /\ \A y \in T : Min(T) <= y
  BY <1>1, MinIsLeast
<1>3. PICK m \in S : Min(T) = n - m
  BY <1>2
<1>4. \A x \in S : x <= m
  <2>1. TAKE x \in S
  <2>2. n - x \in T
    OBVIOUS
  <2>3. n - m <= n - x
    BY <1>2, <1>3, <2>2
  <2>4. x \in 0 .. n /\ m \in 0 .. n
    OBVIOUS
  <2> QED
    BY <2>3, <2>4
<1>5. \E x \in S : \A y \in S : x >= y
  <2>1. \A y \in S : m >= y
    BY <1>4
  <2> QED
    BY <2>1
<1>6. Max(S) \in S /\ \A y \in S : Max(S) >= y
  BY <1>5, Zenon DEF Max
<1> QED
  BY <1>6

\* The elements of a list put together of two.
LEMMA ConcatElements ==
  ASSUME NEW S, NEW a \in Seq(S), NEW b \in Seq(S), NEW r, r = a \o b
  PROVE  /\ r \in Seq(S)
         /\ Len(r) = Len(a) + Len(b)
         /\ \A k \in 1 .. Len(a) : r[k] = a[k]
         /\ \A k \in 1 .. Len(b) : r[Len(a) + k] = b[k]
<1>1. /\ r \in Seq(S)
      /\ Len(r) = Len(a) + Len(b)
      /\ \A k \in 1 .. Len(a) + Len(b) : r[k] = IF k <= Len(a) THEN a[k] ELSE b[k - Len(a)]
  BY ConcatProperties
<1>2. Len(a) \in Nat /\ Len(b) \in Nat
  BY LenProperties
<1>3. ASSUME NEW k \in 1 .. Len(b) PROVE r[Len(a) + k] = b[k]
  <2>1. Len(a) + k \in 1 .. Len(a) + Len(b) /\ ~(Len(a) + k <= Len(a)) /\ Len(a) + k - Len(a) = k
    BY <1>2
  <2> QED
    BY <1>1, <2>1
<1> QED
  BY <1>1, <1>2, <1>3

\* The first i - 1 elements of a list, and those from element i on.
LEMMA FrontElements ==
  ASSUME NEW S, NEW s \in Seq(S), NEW i \in 1 .. Len(s) + 1
  PROVE  /\ SubSeq(s, 1, i - 1) \in Seq(S)
         /\ Len(SubSeq(s, 1, i - 1)) = i - 1
         /\ \A k \in 1 .. i - 1 : SubSeq(s, 1, i - 1)[k] = s[k]
<1>1. Len(s) \in Nat /\ \A k \in 1 .. i - 1 : s[k] \in S
  BY ElementOfSeq, LenProperties
<1> QED
  BY <1>1, SubSeqProperties

LEMMA BackElements ==
  ASSUME NEW S, NEW s \in Seq(S), NEW i \in 1 .. Len(s) + 1
  PROVE  /\ SubSeq(s, i, Len(s)) \in Seq(S)
         /\ Len(SubSeq(s, i, Len(s))) = Len(s) + 1 - i
         /\ \A k \in 1 .. Len(s) + 1 - i : SubSeq(s, i, Len(s))[k] = s[i + k - 1]
<1>1. Len(s) \in Nat /\ \A k \in i .. Len(s) : s[k] \in S
  BY ElementOfSeq, LenProperties
<1> QED
  BY <1>1, SubSeqProperties

\* A list without its ends, and a list between two new ends.
LEMMA MiddleElements ==
  ASSUME NEW S, NEW l \in Seq(S), 2 <= Len(l)
  PROVE  /\ SubSeq(l, 2, Len(l) - 1) \in Seq(S)
         /\ Len(SubSeq(l, 2, Len(l) - 1)) = Len(l) - 2 /\ Len(l) - 2 \in Nat
         /\ DOMAIN SubSeq(l, 2, Len(l) - 1) = 1 .. Len(l) - 2
         /\ \A k \in 1 .. Len(l) - 2 : /\ SubSeq(l, 2, Len(l) - 1)[k] = l[k + 1]
                                      /\ l[k + 1] \in S
<1>1. Len(l) \in Nat /\ \A k \in 1 .. Len(l) : l[k] \in S
  BY ElementOfSeq, LenProperties
<1>2. \A k \in 2 .. Len(l) - 1 : l[k] \in S
  BY <1>1
<1> DEFINE n == SubSeq(l, 2, Len(l) - 1)
<1>3. /\ n \in Seq(S)
      /\ Len(n) = IF 2 <= Len(l) - 1 THEN (Len(l) - 1) - 2 + 1 ELSE 0
      /\ \A k \in 1 .. (Len(l) - 1) - 2 + 1 : n[k] = l[2 + k - 1]
  BY <1>1, <1>2, SubSeqProperties
<1> HIDE DEF n
<1>4. Len(n) = Len(l) - 2 /\ Len(l) - 2 \in Nat /\ DOMAIN n = 1 .. Len(l) - 2
  <2>1. Len(n) = Len(l) - 2 /\ Len(l) - 2 \in Nat
    <3> DEFINE len == Len(l)
    <3>1. len \in Nat /\ 2 <= len /\ Len(n) = IF 2 <= len - 1 THEN (len - 1) - 2 + 1 ELSE 0
      BY <1>1, <1>3
    <3> HIDE DEF len
    <3>2. Len(n) = len - 2 /\ len - 2 \in Nat
      BY <3>1
    <3> QED BY <3>2 DEF len
  <2>2. DOMAIN n = 1 .. Len(n)
    BY <1>3
  <2> QED BY <2>1, <2>2
<1>5. ASSUME NEW k \in 1 .. Len(l) - 2 PROVE n[k] = l[k + 1] /\ l[k + 1] \in S
  <2>1. k \in 1 .. (Len(l) - 1) - 2 + 1 /\ 2 + k - 1 = k + 1 /\ k + 1 \in 1 .. Len(l)
    BY <1>1
  <2> QED BY <1>1, <1>3, <2>1
<1> QED
  BY <1>3, <1>4, <1>5 DEF n

LEMMA EndsElements ==
  ASSUME NEW S, NEW a \in S, NEW s \in Seq(S), NEW b \in S, NEW r, r = <<a>> \o s \o <<b>>
  PROVE  /\ r \in Seq(S) /\ Len(s) \in Nat /\ Len(r) = Len(s) + 2
         /\ r[1] = a /\ r[Len(s) + 2] = b
         /\ \A i \in 1 .. Len(s) : r[i + 1] = s[i]
<1> DEFINE p == <<a>> \o s
           n == Len(s)
<1>0. n \in Nat /\ <<a>> \in Seq(S) /\ <<b>> \in Seq(S) /\ Len(<<a>>) = 1 /\ Len(<<b>>) = 1
  OBVIOUS
<1>1. /\ p \in Seq(S) /\ Len(p) = 1 + n
      /\ \A i \in 1 .. 1 + n : p[i] = IF i <= 1 THEN <<a>>[i] ELSE s[i - 1]
  BY <1>0, ConcatProperties
<1> HIDE DEF p
<1>2. /\ r \in Seq(S) /\ Len(r) = Len(p) + 1
      /\ \A i \in 1 .. Len(p) + 1 : r[i] = IF i <= Len(p) THEN p[i] ELSE <<b>>[i - Len(p)]
  BY <1>0, <1>1, ConcatProperties DEF p
<1>3. p[1] = a /\ \A i \in 1 .. n : p[i + 1] = s[i]
  <2>1. 1 \in 1 .. 1 + n /\ \A i \in 1 .. n : i + 1 \in 1 .. 1 + n /\ ~(i + 1 <= 1) /\ (i + 1) - 1 = i
    BY <1>0
  <2> QED BY <1>1, <2>1
<1>4. /\ 1 \in 1 .. Len(p) + 1 /\ 1 <= Len(p) /\ \A i \in 1 .. n : i + 1 \in 1 .. Len(p) + 1 /\ i + 1 <= Len(p)
      /\ n + 2 \in 1 .. Len(p) + 1 /\ ~(n + 2 <= Len(p)) /\ (n + 2) - Len(p) = 1
  BY <1>0, <1>1
<1> HIDE DEF n
<1>5. r[1] = a /\ \A i \in 1 .. n : r[i + 1] = s[i]
  BY <1>2, <1>3, <1>4
<1>6. r[n + 2] = b
  <2>1. r[n + 2] = <<b>>[(n + 2) - Len(p)]
    BY <1>2, <1>4
  <2>2. <<b>>[1] = b
    OBVIOUS
  <2> QED BY <1>4, <2>1, <2>2
<1> QED
  BY <1>0, <1>1, <1>2, <1>5, <1>6 DEF n

\* Inserting e makes it the element i; those before stay, those behind move up.
LEMMA InsertAtProperties ==
  ASSUME NEW S, NEW s \in Seq(S), NEW e \in S, NEW i \in 1 .. Len(s) + 1
  PROVE  /\ InsertAt(s, i, e) \in Seq(S)
         /\ Len(InsertAt(s, i, e)) = Len(s) + 1
         /\ \A k \in 1 .. Len(s) + 1 :
              InsertAt(s, i, e)[k] =
                IF k < i THEN s[k] ELSE IF k = i THEN e ELSE s[k - 1]
<1> DEFINE a == SubSeq(s, 1, i - 1)
           b == SubSeq(s, i, Len(s))
           c == a \o <<e>>
           r == c \o b
<1>1. Len(s) \in Nat /\ i - 1 \in Nat /\ Len(s) + 1 - i \in Nat /\ i \in Nat
  BY LenProperties
<1>2. a \in Seq(S) /\ Len(a) = i - 1 /\ \A k \in 1 .. i - 1 : a[k] = s[k]
  BY FrontElements
<1>3. /\ b \in Seq(S) /\ Len(b) = Len(s) + 1 - i
      /\ \A k \in 1 .. Len(s) + 1 - i : b[k] = s[i + k - 1]
  BY BackElements
<1>4. <<e>> \in Seq(S) /\ Len(<<e>>) = 1 /\ <<e>>[1] = e
  OBVIOUS
<1>5. InsertAt(s, i, e) = r
  BY DEF InsertAt
<1> HIDE DEF a, b, r
<1> HIDE DEF c
<1>6. /\ c \in Seq(S) /\ Len(c) = Len(a) + Len(<<e>>)
      /\ \A k \in 1 .. Len(a) : c[k] = a[k]
      /\ \A k \in 1 .. Len(<<e>>) : c[Len(a) + k] = <<e>>[k]
  BY <1>2, <1>4, ConcatElements DEF c
<1>7. Len(c) = i /\ c[i] = e /\ \A k \in 1 .. i - 1 : c[k] = s[k]
  <2>1. Len(c) = i
    BY <1>1, <1>2, <1>4, <1>6
  <2>2. c[Len(a) + 1] = <<e>>[1] /\ Len(a) + 1 = i
    BY <1>1, <1>2, <1>4, <1>6
  <2>3. \A k \in 1 .. i - 1 : c[k] = s[k]
    BY <1>2, <1>6
  <2> QED
    BY <1>4, <2>1, <2>2, <2>3
<1>8. /\ r \in Seq(S) /\ Len(r) = Len(c) + Len(b)
      /\ \A k \in 1 .. Len(c) : r[k] = c[k]
      /\ \A k \in 1 .. Len(b) : r[Len(c) + k] = b[k]
  <2>1. c \in Seq(S) /\ b \in Seq(S) /\ r = c \o b
    BY <1>3, <1>6 DEF r
  <2> QED
    BY <2>1, ConcatElements
<1>9. ASSUME NEW k \in 1 .. Len(s) + 1
      PROVE  r[k] = IF k < i THEN s[k] ELSE IF k = i THEN e ELSE s[k - 1]
  <2>1. CASE k <= i
    <3>1. r[k] = c[k]
      BY <1>1, <1>7, <1>8, <2>1
    <3> QED
      BY <1>1, <1>7, <2>1, <3>1
  <2>2. CASE k > i
    <3>1. /\ k - i \in 1 .. Len(s) + 1 - i /\ i + (k - i) - 1 = k - 1
          /\ i + (k - i) = k
      BY <1>1, <2>2
    <3>2. r[k] = b[k - i]
      BY <1>3, <1>7, <1>8, <3>1
    <3>3. b[k - i] = s[k - 1]
      BY <1>3, <3>1
    <3> QED
      BY <1>1, <2>2, <3>2, <3>3
  <2> QED
    BY <1>1, <2>1, <2>2
<1>10. r \in Seq(S) /\ Len(r) = Len(s) + 1
  BY <1>1, <1>3, <1>7, <1>8
<1> QED
  BY <1>5, <1>9, <1>10

\* Removing the element i moves those behind it down.
LEMMA RemoveAtProperties ==
  ASSUME NEW S, NEW s \in Seq(S), NEW i \in 1 .. Len(s)
  PROVE  /\ RemoveAt(s, i) \in Seq(S)
         /\ Len(RemoveAt(s, i)) = Len(s) - 1
         /\ \A k \in 1 .. Len(s) - 1 :
              RemoveAt(s, i)[k] = IF k < i THEN s[k] ELSE s[k + 1]
<1> DEFINE a == SubSeq(s, 1, i - 1)
           b == SubSeq(s, i + 1, Len(s))
           r == a \o b
<1>1. /\ Len(s) \in Nat /\ i - 1 \in Nat /\ Len(s) - i \in Nat
      /\ i \in 1 .. Len(s) + 1 /\ i + 1 \in 1 .. Len(s) + 1
      /\ Len(s) + 1 - (i + 1) = Len(s) - i
  BY LenProperties
<1>2. a \in Seq(S) /\ Len(a) = i - 1 /\ \A k \in 1 .. i - 1 : a[k] = s[k]
  BY <1>1, FrontElements
<1>3. /\ b \in Seq(S) /\ Len(b) = Len(s) - i
      /\ \A k \in 1 .. Len(s) - i : b[k] = s[i + 1 + k - 1]
  <2>1. /\ b \in Seq(S) /\ Len(b) = Len(s) + 1 - (i + 1)
        /\ \A k \in 1 .. Len(s) + 1 - (i + 1) : b[k] = s[i + 1 + k - 1]
    BY <1>1, BackElements
  <2> QED
    BY <1>1, <2>1
<1>4. RemoveAt(s, i) = r
  BY DEF RemoveAt
<1> HIDE DEF a, b, r
<1>5. /\ r \in Seq(S) /\ Len(r) = Len(a) + Len(b)
      /\ \A k \in 1 .. Len(a) : r[k] = a[k]
      /\ \A k \in 1 .. Len(b) : r[Len(a) + k] = b[k]
  <2>1. a \in Seq(S) /\ b \in Seq(S) /\ r = a \o b
    BY <1>2, <1>3 DEF r
  <2> QED
    BY <2>1, ConcatElements
<1>6. ASSUME NEW k \in 1 .. Len(s) - 1
      PROVE  r[k] = IF k < i THEN s[k] ELSE s[k + 1]
  <2>1. CASE k < i
    <3>1. k \in 1 .. i - 1
      BY <1>1, <2>1
    <3> QED
      BY <1>2, <1>5, <2>1, <3>1
  <2>2. CASE k >= i
    <3>1. /\ k - (i - 1) \in 1 .. Len(s) - i /\ i + 1 + (k - (i - 1)) - 1 = k + 1
          /\ (i - 1) + (k - (i - 1)) = k
      BY <1>1, <2>2
    <3>2. r[k] = b[k - (i - 1)]
      BY <1>2, <1>3, <1>5, <3>1
    <3>3. b[k - (i - 1)] = s[k + 1]
      BY <1>3, <3>1
    <3> QED
      BY <1>1, <2>2, <3>2, <3>3
  <2> QED
    BY <1>1, <2>1, <2>2
<1>7. r \in Seq(S) /\ Len(r) = Len(s) - 1
  BY <1>1, <1>2, <1>3, <1>5
<1> QED
  BY <1>4, <1>6, <1>7

\* Taking out the element that was put in, and putting in the one taken out.
LEMMA RemoveInserted ==
  ASSUME NEW S, NEW s \in Seq(S), NEW e \in S, NEW i \in 1 .. Len(s) + 1
  PROVE  RemoveAt(InsertAt(s, i, e), i) = s
<1> DEFINE n == Len(s)
           t == InsertAt(s, i, e)
           u == RemoveAt(t, i)
<1>1. n \in Nat /\ i \in 1 .. n + 1
  BY LenProperties
<1>2. t \in Seq(S) /\ Len(t) = n + 1
  BY InsertAtProperties
<1>3. \A k \in 1 .. n + 1 : t[k] = IF k < i THEN s[k] ELSE IF k = i THEN e ELSE s[k - 1]
  BY InsertAtProperties
<1> HIDE DEF t
<1>4. i \in 1 .. Len(t)
  BY <1>1, <1>2
<1>5. u \in Seq(S) /\ Len(u) = Len(t) - 1
  BY <1>2, <1>4, RemoveAtProperties
<1>6. \A k \in 1 .. Len(t) - 1 : u[k] = IF k < i THEN t[k] ELSE t[k + 1]
  BY <1>2, <1>4, RemoveAtProperties
<1> HIDE DEF u, n
<1>7. ASSUME NEW k \in 1 .. n PROVE u[k] = s[k]
  <2>1. k \in 1 .. n + 1 /\ k + 1 \in 1 .. n + 1 /\ k + 1 - 1 = k /\ k \in 1 .. Len(t) - 1
    BY <1>1, <1>2
  <2>2. CASE k < i
    BY <1>3, <1>6, <2>1, <2>2
  <2>3. CASE ~(k < i)
    <3>1. ~(k + 1 < i) /\ k + 1 # i
      BY <1>1, <2>3
    <3> QED
      BY <1>3, <1>6, <2>1, <2>3, <3>1
  <2> QED
    BY <2>2, <2>3
<1>8. Len(u) = n
  BY <1>1, <1>2, <1>5
<1>9. u = s
  BY <1>5, <1>7, <1>8, SeqEqual DEF n
<1> QED
  BY <1>9 DEF u, t

\* The element k of the list with e inserted at i, and that InsertAt has it there.
Inserted(s, i, e, k) == IF k < i THEN s[k] ELSE IF k = i THEN e ELSE s[k - 1]

LEMMA InsertedElements ==
  ASSUME NEW S, NEW s \in Seq(S), NEW e \in S, NEW i \in 1 .. Len(s) + 1
  PROVE  \A k \in 1 .. Len(s) + 1 : InsertAt(s, i, e)[k] = Inserted(s, i, e, k)
<1>1. \A k \in 1 .. Len(s) + 1 :
        InsertAt(s, i, e)[k] = IF k < i THEN s[k] ELSE IF k = i THEN e ELSE s[k - 1]
  BY InsertAtProperties
<1> QED
  BY <1>1 DEF Inserted

\* The element inserted is there.
LEMMA InsertedElement ==
  ASSUME NEW S, NEW s \in Seq(S), NEW e \in S, NEW i \in 1 .. Len(s) + 1
  PROVE  InsertAt(s, i, e)[i] = e
<1>1. \A k \in 1 .. Len(s) + 1 :
        InsertAt(s, i, e)[k] = IF k < i THEN s[k] ELSE IF k = i THEN e ELSE s[k - 1]
  BY InsertAtProperties
<1> QED
  BY <1>1

LEMMA InsertRemoved ==
  ASSUME NEW S, NEW s \in Seq(S), NEW i \in 1 .. Len(s)
  PROVE  InsertAt(RemoveAt(s, i), i, s[i]) = s
<1> DEFINE n == Len(s)
           t == RemoveAt(s, i)
           e == s[i]
           u == InsertAt(t, i, e)
<1>1. n \in Nat /\ i \in 1 .. n /\ e \in S
  BY LenProperties
<1>2. t \in Seq(S) /\ Len(t) = n - 1
  BY RemoveAtProperties
<1>3. \A k \in 1 .. n - 1 : t[k] = IF k < i THEN s[k] ELSE s[k + 1]
  BY RemoveAtProperties
<1> HIDE DEF t, e
<1>4. i \in 1 .. Len(t) + 1
  BY <1>1, <1>2
<1>5. u \in Seq(S) /\ Len(u) = Len(t) + 1
  BY <1>1, <1>2, <1>4, InsertAtProperties
<1>6. \A k \in 1 .. Len(t) + 1 : u[k] = IF k < i THEN t[k] ELSE IF k = i THEN e ELSE t[k - 1]
  BY <1>1, <1>2, <1>4, InsertAtProperties
<1> HIDE DEF u, n
<1>7. ASSUME NEW k \in 1 .. n PROVE u[k] = s[k]
  <2>1. k \in 1 .. Len(t) + 1 /\ k - 1 + 1 = k
    BY <1>1, <1>2
  <2>2. CASE k < i
    <3>1. k \in 1 .. n - 1
      BY <1>1, <2>2
    <3> QED
      BY <1>3, <1>6, <2>1, <2>2, <3>1
  <2>3. CASE k = i
    BY <1>1, <1>6, <2>1, <2>3 DEF e
  <2>4. CASE k > i
    <3>1. k - 1 \in 1 .. n - 1 /\ ~(k - 1 < i) /\ ~(k < i) /\ k # i
      BY <1>1, <2>4
    <3> QED
      BY <1>3, <1>6, <2>1, <3>1
  <2> QED
    BY <1>1, <2>2, <2>3, <2>4
<1>8. Len(u) = n
  BY <1>1, <1>2, <1>5
<1>9. u = s
  BY <1>5, <1>7, <1>8, SeqEqual DEF n
<1> QED
  BY <1>9 DEF u, t, e

-----------------------------------------------------------------------------
(* Induction, and folds over a list.                                       *)

\* Induction over a range of numbers: the least one that is not in G would have a
\* predecessor in G.
LEMMA Induction ==
  ASSUME NEW N \in Nat, NEW G, 0 \in G, \A k \in 1 .. N : k - 1 \in G => k \in G
  PROVE  \A k \in 0 .. N : k \in G
<1> DEFINE T == {k \in 0 .. N : k \notin G}
<1>1. SUFFICES ASSUME T # {} PROVE FALSE
  OBVIOUS
<1>2. T \subseteq Nat
  OBVIOUS
<1>3. PICK m \in T : \A k \in T : m <= k
  <2> HIDE DEF T
  <2> QED BY <1>1, <1>2, MinIsLeast
<1>4. m \in 1 .. N /\ m \notin G
  BY <1>3
<1>5. m - 1 \in 0 .. N /\ m - 1 \notin T
  BY <1>3, <1>4
<1> QED
  BY <1>4, <1>5

\* The ranges that begin with 1 are taken apart from their greatest number.
LEMMA RangesOf ==
  ASSUME NEW N \in Nat, NEW k \in 1 .. N
  PROVE  /\ 1 .. k # {} /\ 1 .. k \in SUBSET (1 .. N)
         /\ Max(1 .. k) = k /\ (1 .. k) \ {k} = 1 .. k - 1
<1>1. 1 .. k # {} /\ 1 .. k \in SUBSET (1 .. N) /\ (1 .. k) \ {k} = 1 .. k - 1
  OBVIOUS
<1>2. k \in 1 .. k /\ \A y \in 1 .. k : k >= y
  OBVIOUS
<1>3. \A x \in 1 .. k : (\A y \in 1 .. k : x >= y) => x = k
  OBVIOUS
<1>4. Max(1 .. k) \in 1 .. k /\ \A y \in 1 .. k : Max(1 .. k) >= y
  BY <1>2 DEF Max
<1> QED
  BY <1>1, <1>3, <1>4

\* What FoldLeft makes of each set of indices, for the function f as operation.
Folding(it, f, base, n) ==
  /\ it[{}] = base
  /\ \A s \in SUBSET DOMAIN n : s # {} => it[s] = f[<<it[s \ {Max(s)}], n[Max(s)]>>]

\* The same as long as the values stay in R, and the values on the way through the list.
FoldingIn(it, R, f, base, n) ==
  /\ it[{}] = base
  /\ \A s \in SUBSET DOMAIN n :
       s # {} /\ it[s \ {Max(s)}] \in R => it[s] = f[<<it[s \ {Max(s)}], n[Max(s)]>>]
Walk(h, it, R, f, base, n) ==
  /\ h \in [0 .. Len(n) -> R]
  /\ h[0] = base /\ \A k \in 1 .. Len(n) : h[k] = f[<<h[k - 1], n[k]>>]
  /\ h[Len(n)] = it[DOMAIN n]

\* A folding goes through the list from the front.
LEMMA FoldPath ==
  ASSUME NEW R, NEW E, NEW f \in [R \X E -> R], NEW base \in R, NEW n \in Seq(E), NEW it,
         FoldingIn(it, R, f, base, n)
  PROVE  \E h : Walk(h, it, R, f, base, n)
<1> DEFINE h == [k \in 0 .. Len(n) |-> it[1 .. k]]
           G == {k \in 0 .. Len(n) : h[k] \in R}
<1>0. /\ it[{}] = base
      /\ \A s \in SUBSET DOMAIN n :
           s # {} /\ it[s \ {Max(s)}] \in R => it[s] = f[<<it[s \ {Max(s)}], n[Max(s)]>>]
  BY DEF FoldingIn
<1>1. Len(n) \in Nat /\ DOMAIN n = 1 .. Len(n) /\ \A k \in 1 .. Len(n) : n[k] \in E
  OBVIOUS
<1>2. h[0] = base
  <2>1. 1 .. 0 = {}
    OBVIOUS
  <2> QED BY <1>0, <1>1, <2>1
<1>3. ASSUME NEW k \in 1 .. Len(n), h[k - 1] \in R
      PROVE  h[k] = f[<<h[k - 1], n[k]>>] /\ h[k] \in R
  <2>1. /\ 1 .. k # {} /\ 1 .. k \in SUBSET (1 .. Len(n))
        /\ Max(1 .. k) = k /\ (1 .. k) \ {k} = 1 .. k - 1
    BY <1>1, RangesOf
  <2>2. k - 1 \in 0 .. Len(n) /\ k \in 0 .. Len(n)
    BY <1>1
  <2>3. h[k - 1] = it[1 .. k - 1] /\ h[k] = it[1 .. k]
    BY <2>2
  <2>4. it[1 .. k] = f[<<it[1 .. k - 1], n[k]>>]
    <3> HIDE DEF h
    <3> QED BY <1>0, <1>1, <1>3, <2>1, <2>3
  <2>5. n[k] \in E
    BY <1>1
  <2> HIDE DEF h
  <2>6. <<h[k - 1], n[k]>> \in R \X E
    BY <1>3, <2>5
  <2> QED
    BY <2>3, <2>4, <2>6
<1>4. 0 \in G /\ \A k \in 1 .. Len(n) : k - 1 \in G => k \in G
  <2>1. 0 \in 0 .. Len(n) /\ \A k \in 1 .. Len(n) : k \in 0 .. Len(n)
    BY <1>1
  <2>2. h[0] \in R
    BY <1>2
  <2> HIDE DEF h
  <2> QED BY <2>1, <2>2, <1>3
<1>5. \A k \in 0 .. Len(n) : k \in G
  <2> HIDE DEF G
  <2> QED BY <1>1, <1>4, Induction
<1>6. h \in [0 .. Len(n) -> R]
  <2>1. \A k \in 0 .. Len(n) : h[k] \in R
    <3> HIDE DEF h
    <3> QED BY <1>5
  <2> QED BY <2>1
<1>7. \A k \in 1 .. Len(n) : h[k] = f[<<h[k - 1], n[k]>>]
  <2> SUFFICES ASSUME NEW k \in 1 .. Len(n) PROVE h[k] = f[<<h[k - 1], n[k]>>]
    OBVIOUS
  <2>1. k - 1 \in 0 .. Len(n)
    BY <1>1
  <2> HIDE DEF h
  <2>2. h[k - 1] \in R
    BY <1>6, <2>1
  <2> QED BY <1>3, <2>2
<1>8. h[Len(n)] = it[DOMAIN n]
  BY <1>1
<1> QED
  <2> HIDE DEF h, G
  <2> QED BY <1>2, <1>6, <1>7, <1>8 DEF Walk

\* A set of numbers up to k is one up to k - 1 or has k as its greatest.
LEMMA GreatestOfSubset ==
  ASSUME NEW k \in Nat, k # 0, NEW s \in SUBSET (1 .. k)
  PROVE  /\ k \in s => Max(s) = k /\ s \ {k} \in SUBSET (1 .. k - 1)
         /\ k \notin s => s \in SUBSET (1 .. k - 1)
         /\ s # {} => Max(s) \in s /\ s \ {Max(s)} \in SUBSET (1 .. k)
<1>1. s # {} => Max(s) \in s /\ \A x \in s : x <= Max(s)
  <2>1. s \subseteq 0 .. k
    OBVIOUS
  <2> QED BY <2>1, MaxIsGreatest
<1>2. \A x \in s : x \in 1 .. k
  OBVIOUS
<1>3. k \in s => Max(s) = k
  <2> SUFFICES ASSUME k \in s PROVE Max(s) = k
    OBVIOUS
  <2>1. Max(s) \in s /\ k <= Max(s)
    BY <1>1
  <2>2. Max(s) \in 1 .. k
    BY <1>2, <2>1
  <2> QED BY <2>1, <2>2
<1>4. s \ {k} \in SUBSET (1 .. k - 1)
  OBVIOUS
<1>5. k \notin s => s \ {k} = s
  OBVIOUS
<1> QED
  BY <1>1, <1>3, <1>4, <1>5

\* Every folding with a typed operation exists.
LEMMA FoldExists ==
  ASSUME NEW R, NEW E, NEW f \in [R \X E -> R], NEW base \in R, NEW n \in Seq(E)
  PROVE  \E g \in [SUBSET DOMAIN n -> R] : Folding(g, f, base, n)
<1> DEFINE Good(g, k) == /\ g \in [SUBSET (1 .. k) -> R] /\ g[{}] = base
                         /\ \A s \in SUBSET (1 .. k) :
                              s # {} => g[s] = f[<<g[s \ {Max(s)}], n[Max(s)]>>]
           G == {k \in 0 .. Len(n) : \E g : Good(g, k)}
<1>1. Len(n) \in Nat /\ DOMAIN n = 1 .. Len(n) /\ \A k \in 1 .. Len(n) : n[k] \in E
  OBVIOUS
<1>2. 0 \in G
  <2> DEFINE g == [s \in SUBSET (1 .. 0) |-> base]
  <2>1. \A s \in SUBSET (1 .. 0) : s = {}
    OBVIOUS
  <2>2. g \in [SUBSET (1 .. 0) -> R] /\ g[{}] = base
    OBVIOUS
  <2>3. Good(g, 0)
    <3> HIDE DEF g
    <3> QED BY <2>1, <2>2
  <2> HIDE DEF Good
  <2> QED BY <1>1, <2>3
<1>3. ASSUME NEW k \in 1 .. Len(n), k - 1 \in G PROVE k \in G
  <2>0. k \in Nat /\ k # 0 /\ n[k] \in E
    BY <1>1
  <2>1. PICK g : Good(g, k - 1)
    BY <1>3
  <2> DEFINE e == [s \in SUBSET (1 .. k) |-> IF k \in s THEN f[<<g[s \ {k}], n[k]>>] ELSE g[s]]
  <2>2. \A s \in SUBSET (1 .. k) :
          /\ k \in s => Max(s) = k /\ s \ {k} \in SUBSET (1 .. k - 1)
          /\ k \notin s => s \in SUBSET (1 .. k - 1)
          /\ s # {} => Max(s) \in s /\ s \ {Max(s)} \in SUBSET (1 .. k)
    BY <2>0, GreatestOfSubset
  <2>3. \A s \in SUBSET (1 .. k - 1) : g[s] \in R
    BY <2>1
  <2>4. e \in [SUBSET (1 .. k) -> R]
    <3> SUFFICES ASSUME NEW s \in SUBSET (1 .. k)
                 PROVE  (IF k \in s THEN f[<<g[s \ {k}], n[k]>>] ELSE g[s]) \in R
      OBVIOUS
    <3>1. CASE k \in s
      <4>1. <<g[s \ {k}], n[k]>> \in R \X E
        BY <2>0, <2>2, <2>3, <3>1
      <4> QED BY <3>1, <4>1
    <3>2. CASE k \notin s
      BY <2>2, <2>3, <3>2
    <3> QED BY <3>1, <3>2
  <2>5. e[{}] = base
    <3>1. {} \in SUBSET (1 .. k) /\ k \notin {}
      OBVIOUS
    <3>2. e[{}] = g[{}]
      BY <3>1
    <3> QED BY <3>2, <2>1
  <2>6. ASSUME NEW s \in SUBSET (1 .. k), s # {}
        PROVE  e[s] = f[<<e[s \ {Max(s)}], n[Max(s)]>>]
    <3>1. CASE k \in s
      <4>1. Max(s) = k /\ s \ {k} \in SUBSET (1 .. k) /\ k \notin s \ {k}
        BY <2>2, <3>1
      <4>2. e[s] = f[<<g[s \ {k}], n[k]>>] /\ e[s \ {k}] = g[s \ {k}]
        BY <3>1, <4>1
      <4> HIDE DEF e
      <4> QED BY <4>1, <4>2
    <3>2. CASE k \notin s
      <4>1. s \in SUBSET (1 .. k - 1) /\ s \ {Max(s)} \in SUBSET (1 .. k) /\ k \notin s \ {Max(s)}
        BY <2>2, <2>6, <3>2
      <4>2. e[s] = g[s] /\ e[s \ {Max(s)}] = g[s \ {Max(s)}]
        BY <3>2, <4>1
      <4>3. g[s] = f[<<g[s \ {Max(s)}], n[Max(s)]>>]
        BY <2>1, <2>6, <4>1
      <4> HIDE DEF e
      <4> QED BY <4>2, <4>3
    <3> QED BY <3>1, <3>2
  <2>7. Good(e, k)
    <3> HIDE DEF e
    <3> QED BY <2>4, <2>5, <2>6
  <2>8. k \in 0 .. Len(n)
    BY <1>1
  <2> HIDE DEF Good, e
  <2> QED BY <2>7, <2>8
<1>4. \A k \in 0 .. Len(n) : k \in G
  <2> HIDE DEF G
  <2> QED BY <1>1, <1>2, <1>3, Induction
<1>5. \E g : Good(g, Len(n))
  <2> HIDE DEF Good
  <2> QED BY <1>1, <1>4
<1> QED
  BY <1>1, <1>5 DEF Folding
=============================================================================
