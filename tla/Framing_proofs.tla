--------------------------- MODULE Framing_proofs ---------------------------
(***************************************************************************)
(* Proofs about the receive loop, for any stream and any cut of it.        *)
(***************************************************************************)
EXTENDS Framing, FiniteSetTheorems, WellFoundedInduction, SequenceTheorems, TLAPS

-----------------------------------------------------------------------------
(***************************************************************************)
(* Induction over the natural numbers.  The library's theorems about it    *)
(* take the induction hypothesis as an operator, which the provers cannot  *)
(* instantiate; here it is a set, and the least number outside it comes    *)
(* from the strict subsets of a finite set, which are well-founded.        *)
(***************************************************************************)
LEMMA LeastNumber ==
  ASSUME NEW T \in SUBSET Nat, T # {} PROVE \E x \in T : \A y \in T : x <= y
<1>1. PICK n \in T : TRUE
  OBVIOUS
<1> DEFINE A == {0 .. m : m \in {k \in T : k <= n}}
<1>2. IsWellFoundedOn(StrictSubsetOrdering(0 .. n), FiniteSubsetsOf(0 .. n))
  BY FS_StrictSubsetOrderingWellFounded
<1>3. A \subseteq FiniteSubsetsOf(0 .. n)
  <2>1. SUFFICES ASSUME NEW m \in T, m <= n PROVE 0 .. m \in SUBSET (0 .. n) /\ IsFiniteSet(0 .. m)
    BY DEF FiniteSubsetsOf
  <2>2. m \in Nat /\ n \in Nat
    OBVIOUS
  <2>3. QED
    BY <2>1, <2>2, FS_Interval
<1>4. A # {}
  <2>1. n <= n /\ n \in T
    OBVIOUS
  <2>2. 0 .. n \in A
    BY <2>1
  <2>3. QED
    BY <2>2
<1> HIDE DEF A
<1>5. PICK x \in A : \A y \in A : ~ (<<y, x>> \in StrictSubsetOrdering(0 .. n))
  BY <1>2, <1>3, <1>4, WFMin
<1>6. PICK m \in T : m <= n /\ x = 0 .. m
  BY <1>5 DEF A
<1>7. ASSUME NEW y \in T, y < m PROVE FALSE
  <2>1. y \in Nat /\ m \in Nat /\ n \in Nat /\ y <= n
    BY <1>6, <1>7
  <2>2. 0 .. y \in A
    BY <2>1 DEF A
  <2>3. 0 .. y \in SUBSET (0 .. n) /\ 0 .. m \in SUBSET (0 .. n)
    BY <2>1, <1>6
  <2>4. 0 .. y \subseteq 0 .. m /\ 0 .. y # 0 .. m
    <3>1. m \in 0 .. m /\ m \notin 0 .. y
      BY <2>1, <1>7
    <3>2. QED
      BY <2>1, <1>7, <3>1
  <2>5. <<0 .. y, x>> \in StrictSubsetOrdering(0 .. n)
    BY <2>3, <2>4, <1>6 DEF StrictSubsetOrdering
  <2>6. QED
    BY <2>2, <2>5, <1>5
<1>8. QED
  BY <1>7

LEMMA InductTo ==
  ASSUME NEW m \in Nat, NEW A, 0 \in A, \A n \in 0 .. m - 1 : n \in A => n + 1 \in A
  PROVE  0 .. m \subseteq A
<1> DEFINE T == {n \in 0 .. m : n \notin A}
<1>1. SUFFICES ASSUME T # {} PROVE FALSE
  OBVIOUS
<1>2. PICK x \in T : \A y \in T : x <= y
  <2>1. T \in SUBSET Nat
    OBVIOUS
  <2> HIDE DEF T
  <2>2. QED
    BY <1>1, <2>1, LeastNumber
<1>3. x \in 1 .. m /\ x - 1 \in 0 .. m - 1
  OBVIOUS
<1>4. x - 1 \in A
  BY <1>2, <1>3
<1>5. (x - 1) + 1 \in A
  BY <1>3, <1>4
<1>6. QED
  BY <1>3, <1>5

\* f follows step from base on, up to m; there is such an f.
Follows(f, m, D, base, step) ==
  f \in [0 .. m -> D] /\ f[0] = base /\ \A k \in 1 .. m : f[k] = step[f[k - 1]]

LEMMA Recursion ==
  ASSUME NEW m \in Nat, NEW D, NEW base \in D, NEW step \in [D -> D]
  PROVE  \E f : Follows(f, m, D, base, step)
<1> DEFINE F(f, n) == [k \in 0 .. n |-> IF k = 0 THEN base ELSE step[f[k - 1]]]
           A == {n \in Nat : \E f \in [0 .. n -> D] : f = F(f, n)}
<1>1. 0 \in A
  <2>1. [k \in 0 .. 0 |-> base] \in [0 .. 0 -> D]
    OBVIOUS
  <2>2. \A f : [k \in 0 .. 0 |-> base] = F(f, 0)
    OBVIOUS
  <2>3. QED
    BY <2>1, <2>2
<1>2. ASSUME NEW n \in 0 .. m - 1, n \in A PROVE n + 1 \in A
  <2>1. PICK f \in [0 .. n -> D] : f = F(f, n)
    BY <1>2
  <2> DEFINE g == [k \in 0 .. n + 1 |-> IF k = n + 1 THEN step[f[n]] ELSE f[k]]
  <2>2. g \in [0 .. n + 1 -> D]
    <3>1. step[f[n]] \in D
      BY <2>1
    <3>2. QED
      BY <2>1, <3>1
  <2>3. ASSUME NEW k \in 0 .. n + 1
        PROVE  g[k] = IF k = 0 THEN base ELSE step[g[k - 1]]
    <3>1. CASE k = n + 1
      <4>1. g[k - 1] = f[n] /\ k # 0
        BY <3>1
      <4>2. QED
        BY <3>1, <4>1
    <3>2. CASE k \in 1 .. n
      <4>1. g[k - 1] = f[k - 1] /\ g[k] = f[k] /\ k \in 0 .. n /\ k # 0
        BY <3>2
      <4>2. f[k] = step[f[k - 1]]
        BY <2>1, <4>1
      <4>3. QED
        BY <4>1, <4>2
    <3>3. CASE k = 0
      BY <2>1, <3>3
    <3>4. QED
      BY <3>1, <3>2, <3>3
  <2>4. g = F(g, n + 1)
    BY <2>3
  <2>5. n + 1 \in Nat
    OBVIOUS
  <2> HIDE DEF g, F
  <2>6. QED
    BY <2>2, <2>4, <2>5
<1>3. 0 .. m \subseteq A
  <2> HIDE DEF A
  <2>1. QED
    BY <1>1, <1>2, InductTo
<1>4. PICK f \in [0 .. m -> D] : f = F(f, m)
  <2>1. m \in A
    BY <1>3
  <2>2. QED
    BY <2>1
<1>5. Follows(f, m, D, base, step)
  BY <1>4 DEF Follows
<1>6. QED
  BY <1>5

-----------------------------------------------------------------------------
(***************************************************************************)
(* Answers: what set_parameter writes, and where.                          *)
(***************************************************************************)
Octets == 0 .. 255

LEMMA BytesAre ==
  ASSUME NEW b \in Seq(Octets), NEW p \in Nat, NEW n \in Nat, p + n <= Len(b)
  PROVE  /\ Bytes(b, p, n) \in Seq(Octets) /\ Len(Bytes(b, p, n)) = n
         /\ \A k \in 1 .. n : Bytes(b, p, n)[k] = b[p + k]
<1>1. \A i \in p + 1 .. p + n : b[i] \in Octets
  OBVIOUS
<1>2. /\ Bytes(b, p, n) \in Seq(Octets)
      /\ Len(Bytes(b, p, n)) = IF p + 1 <= p + n THEN (p + n) - (p + 1) + 1 ELSE 0
      /\ \A i \in 1 .. (p + n) - (p + 1) + 1 : Bytes(b, p, n)[i] = b[(p + 1) + i - 1]
  BY <1>1, SubSeqProperties DEF Bytes
<1>3. QED
  BY <1>2

LEMMA OverwriteIs ==
  ASSUME NEW b \in Seq(Octets), NEW p \in Nat, NEW s \in Seq(Octets)
  PROVE  /\ Overwrite(b, p, s) \in Seq(Octets) /\ Len(Overwrite(b, p, s)) = Len(b)
         /\ \A k \in 1 .. Len(b) : Overwrite(b, p, s)[k] =
              IF k - 1 \in p .. (p + Len(s) - 1) THEN s[k - p] ELSE b[k]
<1> DEFINE e(k) == IF k - 1 \in p .. (p + Len(s) - 1) THEN s[k - p] ELSE b[k]
<1>1. ASSUME NEW k \in 1 .. Len(b) PROVE e(k) \in Octets
  <2>1. CASE k - 1 \in p .. (p + Len(s) - 1)
    <3>1. k - p \in 1 .. Len(s)
      BY <2>1
    <3>2. s[k - p] \in Octets
      BY <3>1
    <3>3. QED
      BY <2>1, <3>2
  <2>2. CASE k - 1 \notin p .. (p + Len(s) - 1)
    <3>1. b[k] \in Octets
      BY <1>1
    <3>2. QED
      BY <2>2, <3>1
  <2>3. QED
    BY <2>1, <2>2
<1> HIDE DEF e
<1>2. [k \in 1 .. Len(b) |-> e(k)] \in Seq(Octets) /\ Len([k \in 1 .. Len(b) |-> e(k)]) = Len(b)
  BY <1>1
<1>3. Overwrite(b, p, s) = [k \in 1 .. Len(b) |-> e(k)]
  BY DEF Overwrite, e
<1>4. QED
  BY <1>2, <1>3 DEF e

LEMMA WithErrorIs ==
  ASSUME NEW b \in Seq(Octets), NEW p \in Nat, NEW e \in Octets
  PROVE  /\ WithError(b, p, e) \in Seq(Octets) /\ Len(WithError(b, p, e)) = Len(b)
         /\ \A k \in 1 .. Len(b) : k <= p => WithError(b, p, e)[k] = b[k]
<1> DEFINE s == <<130, e, 0>>
<1>1. s \in Seq(Octets) /\ Len(s) = 3
  BY DEF Octets
<1>2. PICK q \in Nat : q = p + 2
  OBVIOUS
<1>3. WithError(b, p, e) = Overwrite(b, q, s)
  BY <1>2 DEF WithError
<1> HIDE DEF s
<1>4. /\ Overwrite(b, q, s) \in Seq(Octets) /\ Len(Overwrite(b, q, s)) = Len(b)
      /\ \A k \in 1 .. Len(b) : Overwrite(b, q, s)[k] =
           IF k - 1 \in q .. (q + Len(s) - 1) THEN s[k - q] ELSE b[k]
  BY <1>1, OverwriteIs, SMTT(30)
<1>5. QED
  BY <1>1, <1>2, <1>3, <1>4

LEMMA AnswerIs == ASSUME NEW did, NEW n PROVE Answer(did, n) \in {0, 3, 4}
BY DEF Answer

\* What set_parameter may have made of b and where it may stand, with data at p and
\* of n bytes.  At least 3 bytes of data are behind for 5 that were written.
Results(b, p, n) ==
  {o \in [b : Seq(Octets), p : Nat, next : 0 .. n, top : Nat] :
     /\ Len(o.b) = Len(b) /\ p <= o.p
     /\ 3 * o.p <= 3 * p + 5 * o.next /\ 3 * o.top <= 3 * p + 5 * o.next
     /\ \A x \in 1 .. Len(b) : x <= p => o.b[x] = b[x]}

\* The three ends of an item, and the one it comes to.
ItemSize(o, src) == 3 + (Byte(src, o.next + 2) % 128)
Whole(o, src) == o.next + ItemSize(o, src) <= Len(src)
ErrorOf(o, src) == Answer(Bytes(src, o.next, 2), Byte(src, o.next + 2) % 128)
Copied(o, src) == Overwrite(o.b, o.p, Bytes(src, o.next, ItemSize(o, src)))

CutItem(o, src) ==
  [b |-> WithError(Overwrite(o.b, o.p, Bytes(src, o.next, 2)), o.p, 1), p |-> o.p + 5,
   next |-> Len(src), top |-> Further(o.top, o.p + 5)]
Accepted(o, src) ==
  [b |-> Copied(o, src), p |-> o.p + ItemSize(o, src), next |-> o.next + ItemSize(o, src),
   top |-> Further(o.top, o.p + ItemSize(o, src))]
Refused(o, src) ==
  [b |-> WithError(Copied(o, src), o.p, ErrorOf(o, src)), p |-> o.p + 5,
   next |-> o.next + ItemSize(o, src),
   top |-> Further(Further(o.top, o.p + ItemSize(o, src)), o.p + 5)]

LEMMA ItemCases ==
  ASSUME NEW n \in Nat, NEW b, NEW p, NEW src \in Seq(Octets), Len(src) = n,
         NEW o \in Results(b, p, n), n - o.next >= 3
  PROVE  /\ ItemSize(o, src) \in 3 .. 130
         /\ ~Whole(o, src) => Item(o, src) = CutItem(o, src)
         /\ Whole(o, src) /\ ErrorOf(o, src) = 0 => Item(o, src) = Accepted(o, src)
         /\ Whole(o, src) /\ ErrorOf(o, src) # 0 => Item(o, src) = Refused(o, src)
<1>1. o.next \in Nat /\ o.next + 3 <= n /\ o.p \in Nat
  BY DEF Results
<1> DEFINE ctrl == Byte(src, o.next + 2)
           m == ctrl % 128
           end == o.next + 3 + m
<1>2. m \in 0 .. 127
  <2>1. ctrl \in Octets
    BY <1>1 DEF Byte
  <2> HIDE DEF ctrl
  <2>2. QED
    BY <2>1 DEF Octets
<1>3. ItemSize(o, src) = 3 + m /\ end = o.next + 3 + m
  BY DEF ItemSize
<1>4. Item(o, src) =
        CASE end > Len(src) -> CutItem(o, src)
          [] end <= Len(src) /\ ErrorOf(o, src) = 0 ->
               [b |-> Copied(o, src), p |-> o.p + 3 + m, next |-> end,
                top |-> Further(o.top, o.p + 3 + m)]
          [] OTHER ->
               [b |-> WithError(Copied(o, src), o.p, ErrorOf(o, src)), p |-> o.p + 5, next |-> end,
                top |-> Further(Further(o.top, o.p + 3 + m), o.p + 5)]
  BY <1>3 DEF Item, CutItem, Copied, ErrorOf
<1> HIDE DEF m, end
<1>5. /\ ItemSize(o, src) \in 3 .. 130 /\ end = o.next + ItemSize(o, src)
      /\ o.p + 3 + m = o.p + ItemSize(o, src)
  <2>1. PICK q \in Nat, r \in Nat, x \in 0 .. 127 : q = o.p /\ r = o.next /\ x = m
    BY <1>1, <1>2
  <2>2. ItemSize(o, src) = 3 + x /\ end = r + 3 + x
    BY <1>3, <2>1
  <2>3. 3 + x \in 3 .. 130 /\ r + 3 + x = r + (3 + x) /\ q + 3 + x = q + (3 + x)
    OBVIOUS
  <2>4. QED
    BY <2>1, <2>2, <2>3
<1>6. /\ Accepted(o, src) = [b |-> Copied(o, src), p |-> o.p + 3 + m, next |-> end,
                             top |-> Further(o.top, o.p + 3 + m)]
      /\ Refused(o, src) =
           [b |-> WithError(Copied(o, src), o.p, ErrorOf(o, src)), p |-> o.p + 5, next |-> end,
            top |-> Further(Further(o.top, o.p + 3 + m), o.p + 5)]
      /\ Whole(o, src) <=> end <= Len(src)
  BY <1>5 DEF Accepted, Refused, Whole
<1>7. end \in Nat /\ Len(src) \in Nat
  <2>1. PICK r \in Nat, x \in 3 .. 130 : r = o.next /\ x = ItemSize(o, src)
    BY <1>1, <1>5
  <2>2. end = r + x
    BY <1>5, <2>1
  <2>3. end \in Nat
    BY <2>2
  <2>4. QED
    BY <2>3
<1>8. QED
  BY <1>4, <1>5, <1>6, <1>7

LEMMA ItemType ==
  ASSUME NEW b \in Seq(Octets), NEW p \in Nat, NEW n \in Nat, NEW src \in Seq(Octets), Len(src) = n,
         NEW o \in Results(b, p, n), n - o.next >= 3
  PROVE  Item(o, src) \in Results(b, p, n)
<1>1. PICK q \in Nat, r \in Nat, c \in Seq(Octets), t \in Nat :
        q = o.p /\ r = o.next /\ c = o.b /\ t = o.top
  BY DEF Results
<1>2. /\ r + 3 <= n /\ p <= q /\ Len(c) = Len(b)
      /\ 3 * q <= 3 * p + 5 * r /\ 3 * t <= 3 * p + 5 * r
      /\ \A x \in 1 .. Len(b) : x <= p => c[x] = b[x]
  <2>1. /\ p <= o.p /\ Len(o.b) = Len(b) /\ 3 * o.p <= 3 * p + 5 * o.next
        /\ 3 * o.top <= 3 * p + 5 * o.next /\ \A x \in 1 .. Len(b) : x <= p => o.b[x] = b[x]
    BY DEF Results
  <2>2. r + 3 <= n
    BY <1>1
  <2>3. QED
    BY <1>1, <2>1, <2>2
<1>3. PICK m \in 3 .. 130 : m = ItemSize(o, src)
  BY ItemCases
<1> DEFINE Keeps(d) == /\ d \in Seq(Octets) /\ Len(d) = Len(b)
                       /\ \A x \in 1 .. Len(b) : x <= p => d[x] = b[x]
<1>4. ASSUME NEW s \in Seq(Octets) PROVE Keeps(Overwrite(c, q, s))
  <2>1. \A x \in 1 .. Len(b) : x <= p => x - 1 \notin q .. (q + Len(s) - 1)
    BY <1>2
  <2>2. QED
    BY <1>2, <2>1, OverwriteIs
<1>5. ASSUME NEW d, Keeps(d), NEW e \in Octets PROVE Keeps(WithError(d, q, e))
  <2>1. d \in Seq(Octets) /\ Len(d) = Len(b) /\ \A x \in 1 .. Len(b) : x <= p => d[x] = b[x]
    BY <1>5
  <2>2. /\ WithError(d, q, e) \in Seq(Octets) /\ Len(WithError(d, q, e)) = Len(d)
        /\ \A x \in 1 .. Len(d) : x <= q => WithError(d, q, e)[x] = d[x]
    BY <2>1, WithErrorIs
  <2>3. \A x \in 1 .. Len(b) : x <= p => x <= q /\ x \in 1 .. Len(d)
    BY <1>2, <2>1
  <2>4. QED
    BY <2>1, <2>2, <2>3
<1>6. ASSUME NEW d, Keeps(d), NEW u \in Nat, p <= u, NEW v \in 0 .. n, NEW w \in Nat,
             3 * u <= 3 * p + 5 * v, 3 * w <= 3 * p + 5 * v
      PROVE  [b |-> d, p |-> u, next |-> v, top |-> w] \in Results(b, p, n)
  BY <1>6 DEF Results
<1> HIDE DEF Keeps
<1>7. CASE ~Whole(o, src)
  <2>1. Bytes(src, r, 2) \in Seq(Octets)
    <3>1. r + 2 <= Len(src) /\ 2 \in Nat
      BY <1>2
    <3>2. QED
      BY <3>1, BytesAre
  <2>2. Keeps(WithError(Overwrite(c, q, Bytes(src, r, 2)), q, 1))
    BY <1>4, <1>5, <2>1 DEF Octets
  <2>3. CutItem(o, src) =
          [b |-> WithError(Overwrite(c, q, Bytes(src, r, 2)), q, 1), p |-> q + 5, next |-> n,
           top |-> Further(t, q + 5)]
    BY <1>1 DEF CutItem
  <2>4. /\ q + 5 \in Nat /\ p <= q + 5 /\ n \in 0 .. n /\ Further(t, q + 5) \in Nat
        /\ 3 * (q + 5) <= 3 * p + 5 * n /\ 3 * Further(t, q + 5) <= 3 * p + 5 * n
    BY <1>2 DEF Further
  <2>5. CutItem(o, src) \in Results(b, p, n)
    BY <1>6, <2>2, <2>3, <2>4
  <2>6. QED
    BY <1>7, <2>5, ItemCases
<1>8. CASE Whole(o, src)
  <2>1. r + m <= n
    BY <1>1, <1>3, <1>8 DEF Whole
  <2>2. Bytes(src, r, m) \in Seq(Octets)
    <3>1. r + m <= Len(src) /\ m \in Nat
      BY <2>1
    <3>2. QED
      BY <3>1, BytesAre
  <2>3. Keeps(Copied(o, src))
    BY <1>1, <1>3, <1>4, <2>2 DEF Copied
  <2>4. r + m \in 0 .. n /\ q + m \in Nat /\ p <= q + m /\ q + 5 \in Nat /\ p <= q + 5
    BY <1>2, <2>1
  <2>5. CASE ErrorOf(o, src) = 0
    <3>1. Accepted(o, src) =
            [b |-> Copied(o, src), p |-> q + m, next |-> r + m, top |-> Further(t, q + m)]
      BY <1>1, <1>3 DEF Accepted
    <3>4. /\ Further(t, q + m) \in Nat /\ 3 * (q + m) <= 3 * p + 5 * (r + m)
          /\ 3 * Further(t, q + m) <= 3 * p + 5 * (r + m)
      BY <1>2 DEF Further
    <3>2. Accepted(o, src) \in Results(b, p, n)
      BY <1>6, <2>3, <2>4, <3>1, <3>4
    <3>3. QED
      BY <1>8, <2>5, <3>2, ItemCases
  <2>6. CASE ErrorOf(o, src) # 0
    <3>1. ErrorOf(o, src) \in Octets
      BY AnswerIs DEF ErrorOf, Octets
    <3>2. Keeps(WithError(Copied(o, src), q, ErrorOf(o, src)))
      BY <1>5, <2>3, <3>1
    <3>3. Refused(o, src) =
            [b |-> WithError(Copied(o, src), q, ErrorOf(o, src)), p |-> q + 5, next |-> r + m,
             top |-> Further(Further(t, q + m), q + 5)]
      BY <1>1, <1>3 DEF Refused
    <3>6. /\ Further(Further(t, q + m), q + 5) \in Nat /\ 3 * (q + 5) <= 3 * p + 5 * (r + m)
          /\ 3 * Further(Further(t, q + m), q + 5) <= 3 * p + 5 * (r + m)
      BY <1>2 DEF Further
    <3>4. Refused(o, src) \in Results(b, p, n)
      BY <1>6, <2>4, <3>2, <3>3, <3>6
    <3>5. QED
      BY <1>8, <2>6, <3>4, ItemCases
  <2>7. QED
    BY <2>5, <2>6
<1>9. QED
  BY <1>7, <1>8
\* Items, as its definition reads.
LEMMA ItemsAre ==
  ASSUME NEW b \in Seq(Octets), NEW p \in Nat, NEW n \in Nat, p + n <= Len(b)
  PROVE  /\ Items(b, p, n)[0] = [b |-> b, p |-> p, next |-> 0, top |-> p]
         /\ \A k \in 1 .. n \div 3 : Items(b, p, n)[k] =
              IF n - Items(b, p, n)[k - 1].next < 3 THEN Items(b, p, n)[k - 1]
              ELSE Item(Items(b, p, n)[k - 1], Bytes(b, p, n))
         /\ \A k \in 0 .. n \div 3 : Items(b, p, n)[k] \in Results(b, p, n)
<1> DEFINE src == Bytes(b, p, n)
           D == Results(b, p, n)
           m == n \div 3
           base == [b |-> b, p |-> p, next |-> 0, top |-> p]
           Next3(o) == IF n - o.next < 3 THEN o ELSE Item(o, src)
           F(f) == [k \in 0 .. m |-> IF k = 0 THEN base ELSE Next3(f[k - 1])]
           step == [o \in D |-> Next3(o)]
           I == Items(b, p, n)
<1>1. I = CHOOSE f : f = F(f)
  BY DEF Items
<1>2. src \in Seq(Octets) /\ Len(src) = n
  BY BytesAre
<1>3. ASSUME NEW o \in D PROVE Next3(o) \in D
  <2> HIDE DEF src
  <2>1. CASE n - o.next < 3
    BY <2>1
  <2>2. CASE ~(n - o.next < 3)
    <3>1. PICK r \in 0 .. n : r = o.next
      BY DEF Results
    <3>2. n - o.next >= 3
      BY <2>2, <3>1
    <3>3. Item(o, src) \in D
      BY <1>2, <3>2, ItemType
    <3>4. QED
      BY <2>2, <3>3
  <2>3. QED
    BY <2>1, <2>2
<1>4. base \in D
  BY DEF Results
<1>5. m \in Nat
  OBVIOUS
<1> HIDE DEF src, D, base, Next3, m
<1>6. step \in [D -> D]
  BY <1>3
<1>7. \E f : f = F(f)
  <2>1. PICK f : Follows(f, m, D, base, step)
    <3> HIDE DEF step
    <3>1. QED
      BY <1>4, <1>5, <1>6, Recursion
  <2>2. ASSUME NEW k \in 0 .. m PROVE f[k] = IF k = 0 THEN base ELSE Next3(f[k - 1])
    <3>1. CASE k = 0
      BY <2>1, <3>1 DEF Follows
    <3>2. CASE k # 0
      <4>1. k - 1 \in 0 .. m /\ k \in 1 .. m
        BY <1>5, <3>2
      <4>2. f[k - 1] \in D /\ f[k] = step[f[k - 1]]
        BY <2>1, <4>1 DEF Follows
      <4>3. QED
        BY <3>2, <4>2
    <3>3. QED
      BY <3>1, <3>2
  <2>3. f = F(f)
    BY <2>1, <2>2 DEF Follows
  <2>4. QED
    BY <2>3
<1> HIDE DEF F, I
<1>8. I = F(I)
  BY <1>1, <1>7
<1>9. I[0] = base /\ \A k \in 1 .. m : I[k] = Next3(I[k - 1])
  BY <1>5, <1>8 DEF F
<1>10. \A k \in 0 .. m : I[k] \in D
  <2> DEFINE A == {k \in 0 .. m : I[k] \in D}
  <2>1. 0 \in A
    BY <1>4, <1>5, <1>9
  <2>2. ASSUME NEW k \in 0 .. m - 1, k \in A PROVE k + 1 \in A
    <3>1. k + 1 \in 1 .. m /\ k + 1 \in 0 .. m /\ (k + 1) - 1 = k /\ I[k] \in D
      BY <1>5, <2>2
    <3>2. I[k + 1] = Next3(I[k])
      BY <1>9, <3>1
    <3>3. QED
      BY <1>3, <3>1, <3>2
  <2> HIDE DEF A
  <2>3. 0 .. m \subseteq A
    BY <1>5, <2>1, <2>2, InductTo
  <2>4. QED
    BY <2>3 DEF A
<1>11. QED
  BY <1>9, <1>10 DEF I, D, m, base, Next3, src

\* The same, of a function that is Items.
Followed(f, b, p, n, src) ==
  /\ f[0] = [b |-> b, p |-> p, next |-> 0, top |-> p]
  /\ \A k \in 1 .. n \div 3 : f[k] = IF n - f[k - 1].next < 3 THEN f[k - 1] ELSE Item(f[k - 1], src)
  /\ \A k \in 0 .. n \div 3 : f[k] \in Results(b, p, n)

LEMMA ItemsFollowed ==
  ASSUME NEW b \in Seq(Octets), NEW p \in Nat, NEW n \in Nat, p + n <= Len(b)
  PROVE  Followed(Items(b, p, n), b, p, n, Bytes(b, p, n))
BY ItemsAre, ZenonT(60) DEF Followed

\* The bytes up to p of b are left alone, and so is the length; and an answer
\* ends no further than MaxPast bytes behind b.
LEMMA HandlingKeeps ==
  ASSUME NEW b \in Seq(Octets), NEW p \in Nat, p + FrameSize(b, p) <= Len(b), p + FrameHead <= Len(b)
  PROVE  /\ frame_handle(b, p) \in Seq(Octets) /\ Len(frame_handle(b, p)) = Len(b)
         /\ \A x \in 1 .. Len(b) : x <= p + FrameHead + 1 => frame_handle(b, p)[x] = b[x]
         /\ FrameTop(b, p) \in Nat /\ FrameTop(b, p) <= Len(b) + MaxPast
<1>1. PICK h \in Nat, n \in Octets : h = FrameHead /\ n = Length(b, p) /\ h >= 5
  BY FramingAssumption DEF Length, Byte
<1>2. CASE IsSet(b, p)
  <2>1. PICK q \in Nat, m \in Nat : q = p + FrameHead + 1 /\ m = n - 1
    <3>1. n >= 1
      BY <1>1, <1>2 DEF IsSet
    <3>2. n - 1 \in Nat /\ p + h + 1 \in Nat
      BY <3>1 DEF Octets
    <3>3. QED
      BY <1>1, <3>2
  <2>2. q + m <= Len(b)
    <3>1. p + (h + n + 1) <= Len(b)
      BY <1>1 DEF FrameSize
    <3>2. QED
      BY <1>1, <2>1, <3>1 DEF Octets
  <2>3. PICK o \in Results(b, q, m) : o = Items(b, q, m)[m \div 3]
    <3>1. m \div 3 \in 0 .. m \div 3
      OBVIOUS
    <3>2. QED
      BY <2>2, <3>1, ItemsAre
  <2>4. frame_handle(b, p) = o.b /\ FrameTop(b, p) = o.top
    BY <1>1, <1>2, <2>1, <2>3 DEF frame_handle, set_parameter, FrameTop, AnswerTop
  <2>5. o.top \in Nat /\ o.top <= Len(b) + MaxPast
    <3>1. PICK t \in Nat, v \in 0 .. m : t = o.top /\ 3 * t <= 3 * q + 5 * v
      BY DEF Results
    <3>2. m <= 254 /\ q + m + 1 <= Len(b)
      <4>1. PICK l \in Nat : l = Len(b) /\ p + (h + n + 1) <= l
        BY <1>1 DEF FrameSize
      <4>2. q = p + h + 1 /\ n \in 0 .. 255 /\ m = n - 1
        BY <1>1, <2>1 DEF Octets
      <4>3. m <= 254 /\ q + m + 1 <= l
        BY <4>1, <4>2
      <4>4. QED
        BY <4>1, <4>3
    <3>3. t <= Len(b) + 168
      BY <3>1, <3>2
    <3>4. QED
      BY <3>1, <3>3 DEF MaxPast
  <2>6. QED
    BY <2>1, <2>3, <2>4, <2>5 DEF Results
<1>3. CASE ~IsSet(b, p)
  <2>1. frame_handle(b, p) = b /\ FrameTop(b, p) = 0
    BY <1>3 DEF frame_handle, FrameTop
  <2>2. QED
    BY <2>1 DEF MaxPast
<1>4. QED
  BY <1>2, <1>3
-----------------------------------------------------------------------------
(***************************************************************************)
(* Frames: where one is found, and that one is read the same wherever it   *)
(* lies.                                                                   *)
(***************************************************************************)
LEMMA LengthIs ==
  ASSUME NEW b \in Seq(Octets), NEW p \in Nat, p + FrameHead <= Len(b)
  PROVE  Length(b, p) \in Octets /\ FrameSize(b, p) = FrameHead + Length(b, p) + 1
<1>1. PICK h \in Nat : h = FrameHead /\ h >= 5
  BY FramingAssumption
<1>2. PICK k \in 1 .. Len(b) : k = p + h
  BY <1>1
<1>3. (p + FrameHead - 1) + 1 = k
  BY <1>1, <1>2
<1>4. Length(b, p) = b[k]
  BY <1>3 DEF Length, Byte
<1>5. QED
  BY <1>2, <1>4 DEF FrameSize

\* Of the places from 0 to n where a frame could start, the first is found, if any.
LEMMA FoundIs ==
  ASSUME NEW b \in Seq(Octets), NEW n \in Nat, n = Len(b) % 256
  PROVE  \/ /\ get_smart_frame(b) = NULL
            /\ \A p \in 0 .. n - FrameHead : ~IsFrame(b, n, p)
         \/ /\ get_smart_frame(b) \in 0 .. n - FrameHead
            /\ IsFrame(b, n, get_smart_frame(b))
            /\ \A p \in 0 .. n - FrameHead : IsFrame(b, n, p) => get_smart_frame(b) <= p
<1> DEFINE T == {p \in 0 .. n - FrameHead : IsFrame(b, n, p)}
<1>1. get_smart_frame(b) = First(T)
  BY DEF get_smart_frame
<1>2. CASE T = {}
  BY <1>1, <1>2 DEF First
<1>3. CASE T # {}
  <2>1. T \in SUBSET Nat
    BY FramingAssumption
  <2>2. First(T) = CHOOSE x \in T : \A y \in T : x <= y
    BY <1>3 DEF First, Min
  <2> HIDE DEF T
  <2>3. \E x \in T : \A y \in T : x <= y
    BY <1>3, <2>1, LeastNumber
  <2>4. First(T) \in T /\ \A y \in T : First(T) <= y
    BY <2>2, <2>3
  <2>5. QED
    BY <1>1, <2>4 DEF T
<1>4. QED
  BY <1>2, <1>3

\* A frame is one at any other place with the same bytes, and as long.
LEMMA FrameMoves ==
  ASSUME NEW b \in Seq(Octets), NEW p \in Nat, NEW n \in Nat, n <= Len(b), p + FrameHead <= n,
         NEW c \in Seq(Octets), NEW q \in Nat, NEW m \in Nat, m <= Len(c),
         IsFrame(b, n, p), q + FrameSize(b, p) <= m,
         \A x \in 1 .. FrameSize(b, p) : b[p + x] = c[q + x]
  PROVE  IsFrame(c, m, q) /\ FrameSize(c, q) = FrameSize(b, p)
<1>1. PICK h \in Nat, l \in Octets : h = FrameHead /\ h >= 5 /\ l = Length(b, p)
  BY FramingAssumption, LengthIs
<1>2. FrameSize(b, p) = h + l + 1 /\ h + l + 1 \in Nat /\ h + l \in Nat
  <2>1. FrameSize(b, p) = h + l + 1
    BY <1>1 DEF FrameSize
  <2>2. l \in Nat
    BY DEF Octets
  <2>3. QED
    BY <2>1, <2>2
<1>3. \A x \in 1 .. (h + l + 1) : b[p + x] = c[q + x]
  BY <1>2
<1>4. /\ (p + h - 1) + 1 = p + h /\ (q + h - 1) + 1 = q + h
      /\ (p + (h + l)) + 1 = p + (h + l + 1) /\ (q + (h + l)) + 1 = q + (h + l + 1)
      /\ p + h + l = p + (h + l) /\ q + h + l = q + (h + l)
      /\ h \in 1 .. (h + l + 1) /\ 1 \in 1 .. (h + l + 1) /\ (h + l + 1) \in 1 .. (h + l + 1)
  <2>1. l \in Nat
    BY DEF Octets
  <2>2. QED
    BY <1>1, <2>1, SMTT(30)
<1>5. Length(c, q) = l
  <2>1. Length(b, p) = b[p + h] /\ Length(c, q) = c[q + h]
    BY <1>1, <1>4 DEF Length, Byte
  <2>2. QED
    BY <1>1, <1>3, <1>4, <2>1
<1>6. FrameSize(c, q) = h + l + 1
  BY <1>1, <1>5 DEF FrameSize
<1>7. Byte(c, q) = STC
  <2>1. Byte(b, p) = STC
    BY DEF IsFrame
  <2>2. QED
    BY <1>3, <1>4, <2>1 DEF Byte
<1>8. Byte(b, p + h + l) = Byte(c, q + h + l)
  BY <1>3, <1>4, SMTT(30) DEF Byte
<1>9. Bytes(b, p, h + l) = Bytes(c, q, h + l)
  <2>1. PICK k \in Nat : k = h + l
    BY <1>2
  <2>2. p + k <= Len(b) /\ q + k <= Len(c)
    <3>1. p + (h + l + 1) <= n /\ q + (h + l + 1) <= m
      BY <1>2 DEF IsFrame
    <3>2. QED
      BY <2>1, <3>1 DEF Octets
  <2>3. /\ Bytes(b, p, k) \in Seq(Octets) /\ Len(Bytes(b, p, k)) = k
        /\ \A x \in 1 .. k : Bytes(b, p, k)[x] = b[p + x]
    BY <2>2, BytesAre
  <2>4. /\ Bytes(c, q, k) \in Seq(Octets) /\ Len(Bytes(c, q, k)) = k
        /\ \A x \in 1 .. k : Bytes(c, q, k)[x] = c[q + x]
    BY <2>2, BytesAre
  <2>5. \A x \in 1 .. k : b[p + x] = c[q + x]
    <3>1. 1 .. k \subseteq 1 .. (h + l + 1)
      BY <1>2, <2>1
    <3>2. QED
      BY <1>3, <3>1
  <2>6. Bytes(b, p, k) = Bytes(c, q, k)
    <3>1. \A x \in 1 .. k : Bytes(b, p, k)[x] = Bytes(c, q, k)[x]
      BY <2>3, <2>4, <2>5
    <3>2. QED
      BY <2>3, <2>4, <3>1, SeqEqual
  <2>7. QED
    BY <2>1, <2>6
<1>10. Byte(b, p + h + l) = Checksum(Bytes(b, p, h + l))
  <2>1. p + h + l = p + FrameHead + Length(b, p)
    BY <1>1
  <2>2. QED
    BY <1>1, <2>1 DEF IsFrame
<1>11. Byte(c, q + FrameHead + Length(c, q)) = Checksum(Bytes(c, q, FrameHead + Length(c, q)))
  BY <1>1, <1>5, <1>8, <1>9, <1>10
<1>12. q + FrameSize(c, q) <= m
  BY <1>2, <1>6
<1>13. QED
  BY <1>2, <1>6, <1>7, <1>11, <1>12 DEF IsFrame
-----------------------------------------------------------------------------
(***************************************************************************)
(* The loop.  raw is the part of the stream that the last read returned,   *)
(* and what is about to be handled is a frame where it lies in rxbuf.      *)
(***************************************************************************)
Placed == Len(raw) <= pos /\ raw = Bytes(stream, pos - Len(raw), Len(raw))

FoundIsFrame ==
  /\ pc = "handle" => /\ frame_len <= found /\ found + FrameHead <= Len(rxbuf)
                      /\ IsFrame(rxbuf, Len(rxbuf), found)
  /\ pc # "handle" => found = NULL

Inv == TypeOK /\ Placed /\ FoundIsFrame

LEMMA InvTypes ==
  ASSUME Inv
  PROVE  /\ stream \in Seq(Octets) /\ rxbuf \in Seq(Octets) /\ raw \in Seq(Octets)
         /\ pos \in Nat /\ pos <= Len(stream) /\ Len(raw) = Len(rxbuf) /\ Len(raw) <= pos
         /\ frame_len \in Nat /\ frame_len <= Len(rxbuf) /\ handled \in Seq(Nat)
         /\ before \in Nat /\ before <= Len(handled)
BY FramingAssumption DEF Inv, TypeOK, Placed, Octets

LEMMA InvInit == Init => Inv
<1>1. SUFFICES ASSUME Init PROVE Inv
  OBVIOUS
<1>2. stream \in Streams /\ stream \in Seq(0 .. 255)
  BY <1>1, FramingAssumption DEF Init
<1>3. TypeOK
  BY <1>1, <1>2, FramingAssumption DEF Init, TypeOK, MaxPast
<1>4. Placed
  <2>1. Bytes(stream, 0, 0) \in Seq(Octets) /\ Len(Bytes(stream, 0, 0)) = 0
    <3>1. 0 + 0 <= Len(stream)
      BY <1>2
    <3>2. QED
      BY <1>2, <3>1, BytesAre DEF Octets
  <2>2. Bytes(stream, 0, 0) = <<>>
    BY <2>1
  <2>3. raw = <<>> /\ pos = 0 /\ Len(raw) = 0
    BY <1>1 DEF Init
  <2>4. Len(raw) <= pos /\ pos - Len(raw) = 0
    <3>1. 0 <= 0 /\ 0 - 0 = 0
      OBVIOUS
    <3>2. QED
      BY <2>3, <3>1, Zenon
  <2>5. QED
    BY <2>2, <2>3, <2>4 DEF Placed
<1>5. QED
  BY <1>1, <1>3, <1>4 DEF Init, Inv, FoundIsFrame

\* What a read returns, and from where.
LEMMA ReadIs ==
  ASSUME Inv, Read
  PROVE  \E n \in 1 .. ReadSize :
           /\ pos + n <= Len(stream) /\ raw' = Bytes(stream, pos, n) /\ pos' = pos + n
           /\ raw' \in Seq(Octets) /\ Len(raw') = n /\ rxbuf' = raw'
           /\ \A x \in 1 .. n : raw'[x] = stream[pos + x]
<1>1. PICK n \in 1 .. ReadSize :
        pos + n <= Len(stream) /\ raw' = Bytes(stream, pos, n) /\ pos' = pos + n
  BY DEF Read
<1>2. stream \in Seq(Octets) /\ pos \in Nat
  BY InvTypes
<1>3. n \in Nat
  BY <1>1, FramingAssumption
<1>4. /\ Bytes(stream, pos, n) \in Seq(Octets) /\ Len(Bytes(stream, pos, n)) = n
      /\ \A x \in 1 .. n : Bytes(stream, pos, n)[x] = stream[pos + x]
  BY <1>1, <1>2, <1>3, BytesAre
<1>5. rxbuf' = raw'
  BY DEF Read
<1>6. QED
  BY <1>1, <1>4, <1>5

LEMMA InvRead == ASSUME Inv, Read PROVE Inv'
<1>1. PICK n \in 1 .. ReadSize :
        /\ pos + n <= Len(stream) /\ raw' = Bytes(stream, pos, n) /\ pos' = pos + n
        /\ raw' \in Seq(Octets) /\ Len(raw') = n /\ rxbuf' = raw'
  BY ReadIs
<1>2. n \in Nat /\ n <= ReadSize /\ pos \in Nat /\ Len(stream) \in Nat
  BY InvTypes, FramingAssumption
<1>3. /\ stream' = stream /\ handled' = handled /\ altered' = altered /\ found' = found
      /\ frame_len' = 0 /\ pc = "select" /\ pc' = "parse" /\ before' = Len(handled)
      /\ reach' = 0
  BY DEF Read
<1>4. found' = NULL
  BY <1>3 DEF Inv, FoundIsFrame
<1>5. TypeOK'
  <2>1. /\ stream \in Streams /\ handled \in Seq(Nat) /\ altered \subseteq 1 .. Len(handled)
    BY DEF Inv, TypeOK
  <2>2. pos' \in 0 .. Len(stream') /\ Len(rxbuf') = Len(raw') /\ Len(raw') <= ReadSize
    BY <1>1, <1>2, <1>3
  <2>3. frame_len' \in 0 .. Len(rxbuf') /\ before' \in 0 .. Len(handled')
    BY <1>1, <1>2, <1>3, <2>1
  <2>4. reach' \in 0 .. Len(raw') + MaxPast
    BY <1>1, <1>2, <1>3 DEF MaxPast
  <2>5. QED
    BY <1>1, <1>3, <1>4, <2>1, <2>2, <2>3, <2>4 DEF TypeOK, Octets
<1>6. Placed'
  <2>1. Len(raw') <= pos' /\ pos' - Len(raw') = pos
    BY <1>1, <1>2
  <2>2. QED
    BY <1>1, <1>3, <2>1 DEF Placed
<1>7. QED
  BY <1>3, <1>5, <1>6 DEF Inv, FoundIsFrame
LEMMA UnparsedIs ==
  ASSUME Inv
  PROVE  /\ Unparsed \in Seq(Octets) /\ Len(Unparsed) = Len(rxbuf) - frame_len
         /\ \A x \in 1 .. Len(rxbuf) - frame_len : Unparsed[x] = rxbuf[frame_len + x]
<1>1. rxbuf \in Seq(Octets) /\ frame_len \in Nat /\ frame_len <= Len(rxbuf)
  BY InvTypes
<1>2. PICK n \in Nat : n = Len(rxbuf) - frame_len
  BY <1>1
<1>3. frame_len + n <= Len(rxbuf)
  BY <1>1, <1>2
<1>4. QED
  BY <1>1, <1>2, <1>3, BytesAre DEF Unparsed

\* What Parse finds, and where.
LEMMA ParseIs ==
  ASSUME Inv, Parse
  PROVE  \/ pc' = "select" /\ found' = NULL
         \/ /\ pc' = "handle" /\ frame_len < Len(rxbuf)
            /\ found' = frame_len + get_smart_frame(Unparsed)
            /\ found' \in Nat /\ frame_len <= found' /\ found' + FrameHead <= Len(rxbuf)
            /\ IsFrame(rxbuf, Len(rxbuf), found')
<1>1. SUFFICES ASSUME ~(pc' = "select" /\ found' = NULL)
               PROVE  /\ pc' = "handle" /\ frame_len < Len(rxbuf)
                      /\ found' = frame_len + get_smart_frame(Unparsed)
                      /\ found' \in Nat /\ frame_len <= found' /\ found' + FrameHead <= Len(rxbuf)
                      /\ IsFrame(rxbuf, Len(rxbuf), found')
  OBVIOUS
<1>2. /\ frame_len < Len(rxbuf) /\ get_smart_frame(Unparsed) # NULL
      /\ pc' = "handle" /\ found' = frame_len + get_smart_frame(Unparsed)
  BY <1>1 DEF Parse
<1>3. PICK r \in Nat, f \in Nat, h \in Nat :
        r = Len(rxbuf) /\ f = frame_len /\ f <= r /\ h = FrameHead /\ h >= 5 /\ rxbuf \in Seq(Octets)
  BY InvTypes, FramingAssumption
<1>4. PICK u \in Seq(Octets) : u = Unparsed /\ Len(u) = r - f /\ \A x \in 1 .. r - f : u[x] = rxbuf[f + x]
  BY <1>3, UnparsedIs
<1>5. PICK n \in Nat : n = Len(u) % 256 /\ n <= r - f
  <2>1. PICK l \in Nat : l = Len(u)
    BY <1>4
  <2>2. l % 256 \in Nat /\ l % 256 <= l
    OBVIOUS
  <2>3. QED
    BY <1>4, <2>1, <2>2
<1>6. PICK p \in 0 .. n - h : p = get_smart_frame(u) /\ IsFrame(u, n, p)
  <2>1. get_smart_frame(u) # NULL
    BY <1>2, <1>4
  <2>2. get_smart_frame(u) \in 0 .. n - FrameHead /\ IsFrame(u, n, get_smart_frame(u))
    BY <1>5, <2>1, FoundIs
  <2>3. QED
    BY <1>3, <2>2
<1>7. PICK z \in Nat : z = FrameSize(u, p) /\ p + z <= n
  <2>1. p \in Nat /\ p + FrameHead <= Len(u)
    <3>1. p \in Nat /\ p + h <= n /\ n <= r - f
      BY <1>5, <1>6
    <3>2. p + h <= r - f
      BY <3>1
    <3>3. QED
      BY <1>3, <1>4, <3>1, <3>2
  <2>2. Length(u, p) \in Octets /\ FrameSize(u, p) = FrameHead + Length(u, p) + 1
    BY <2>1, LengthIs
  <2>3. FrameSize(u, p) \in Nat
    <3>1. PICK l \in Octets : l = Length(u, p)
      BY <2>2
    <3>2. h + l + 1 \in Nat
      BY DEF Octets
    <3>3. QED
      BY <1>3, <2>2, <3>1, <3>2
  <2>4. p + FrameSize(u, p) <= n
    BY <1>6 DEF IsFrame
  <2>5. QED
    BY <2>3, <2>4
<1>8. PICK q \in Nat : q = f + p /\ q + z <= r /\ q + h <= r /\ f <= q
  <2>1. p \in Nat /\ p + h <= n /\ n <= r - f /\ p + z <= n
    BY <1>5, <1>6, <1>7
  <2>2. (f + p) + z <= r /\ (f + p) + h <= r /\ f <= f + p /\ f + p \in Nat
    BY <2>1
  <2>3. QED
    BY <2>2
<1>9. IsFrame(rxbuf, r, q)
  <2>1. \A x \in 1 .. z : u[p + x] = rxbuf[q + x]
    <3>1. SUFFICES ASSUME NEW x \in 1 .. z PROVE u[p + x] = rxbuf[q + x]
      OBVIOUS
    <3>2. p + x \in 1 .. (r - f) /\ f + (p + x) = q + x
      <4>1. p \in Nat /\ n <= r - f /\ p + z <= n /\ q = f + p
        BY <1>5, <1>6, <1>7, <1>8
      <4>2. QED
        BY <4>1
    <3>3. QED
      BY <1>4, <3>2
  <2>2. p \in Nat /\ n <= Len(u) /\ p + FrameHead <= n /\ r <= Len(rxbuf)
    BY <1>3, <1>4, <1>5, <1>6
  <2>3. q + FrameSize(u, p) <= r /\ \A x \in 1 .. FrameSize(u, p) : u[p + x] = rxbuf[q + x]
    BY <1>7, <1>8, <2>1
  <2>4. QED
    BY <1>3, <1>6, <2>2, <2>3, FrameMoves
<1>10. found' = q
  BY <1>2, <1>3, <1>4, <1>6, <1>8
<1>11. QED
  BY <1>2, <1>3, <1>8, <1>9, <1>10

LEMMA InvParse == ASSUME Inv, Parse PROVE Inv'
<1>1. /\ stream' = stream /\ pos' = pos /\ rxbuf' = rxbuf /\ raw' = raw /\ frame_len' = frame_len
      /\ handled' = handled /\ before' = before /\ altered' = altered /\ reach' = reach
  BY DEF Parse
<1>2. Len(rxbuf) \in Nat /\ FrameHead \in Nat /\ FrameHead >= 5 /\ frame_len \in Nat
  BY InvTypes, FramingAssumption
<1>3. CASE pc' = "select" /\ found' = NULL
  BY <1>1, <1>3 DEF Inv, TypeOK, Placed, FoundIsFrame
<1>4. CASE /\ pc' = "handle" /\ found' \in Nat
           /\ frame_len <= found' /\ found' + FrameHead <= Len(rxbuf)
           /\ IsFrame(rxbuf, Len(rxbuf), found')
  <2>1. found' \in 0 .. Len(rxbuf)
    BY <1>2, <1>4
  <2>2. TypeOK'
    BY <1>1, <1>4, <2>1 DEF Inv, TypeOK
  <2>3. Placed'
    BY <1>1 DEF Inv, Placed
  <2>4. FoundIsFrame'
    <3>1. IsFrame(rxbuf', Len(rxbuf'), found')
      BY <1>1, <1>4
    <3>2. QED
      BY <1>1, <1>4, <3>1 DEF FoundIsFrame
  <2>5. QED
    BY <2>2, <2>3, <2>4 DEF Inv
<1>5. QED
  BY <1>3, <1>4, ParseIs
\* The frame at found, and what handling it does to the buffer.
LEMMA HandleIs ==
  ASSUME Inv, Handle
  PROVE  \E z \in Nat :
           /\ z = FrameSize(rxbuf, found) /\ found \in Nat /\ found + z <= Len(rxbuf)
           /\ found + FrameHead <= Len(rxbuf) /\ FrameHead + 1 <= z
           /\ frame_len <= found /\ IsFrame(rxbuf, Len(rxbuf), found) /\ frame_len' = frame_len + z
           /\ rxbuf' = frame_handle(rxbuf, found)
           /\ rxbuf' \in Seq(Octets) /\ Len(rxbuf') = Len(rxbuf)
           /\ \A x \in 1 .. Len(rxbuf) : x <= found + FrameHead + 1 => rxbuf'[x] = rxbuf[x]
           /\ reach' \in 0 .. Len(rxbuf) + MaxPast
<1>1. /\ rxbuf \in Seq(Octets) /\ pc = "handle" /\ frame_len' = frame_len + FrameSize(rxbuf, found)
      /\ rxbuf' = frame_handle(rxbuf, found)
  BY InvTypes DEF Handle
<1>2. /\ frame_len <= found /\ found + FrameHead <= Len(rxbuf)
      /\ IsFrame(rxbuf, Len(rxbuf), found)
  BY <1>1 DEF Inv, FoundIsFrame
<1>3. found \in Nat
  <2>1. found \in {NULL} \cup 0 .. Len(rxbuf) /\ frame_len \in Nat
    BY InvTypes DEF Inv, TypeOK
  <2>2. found # NULL
    BY <1>2, <2>1 DEF NULL
  <2>3. QED
    BY <2>1, <2>2
<1>4. Length(rxbuf, found) \in Octets /\ FrameSize(rxbuf, found) = FrameHead + Length(rxbuf, found) + 1
  BY <1>1, <1>2, <1>3, LengthIs
<1>5. PICK z \in Nat : z = FrameSize(rxbuf, found) /\ FrameHead + 1 <= z
  <2>1. PICK h \in Nat, l \in Octets : h = FrameHead /\ l = Length(rxbuf, found)
    BY <1>4, FramingAssumption
  <2>2. h + l + 1 \in Nat /\ h + 1 <= h + l + 1
    BY DEF Octets
  <2>3. QED
    BY <1>4, <2>1, <2>2
<1>6. found + z <= Len(rxbuf)
  BY <1>2, <1>5 DEF IsFrame
<1>7. /\ frame_handle(rxbuf, found) \in Seq(Octets) /\ Len(frame_handle(rxbuf, found)) = Len(rxbuf)
      /\ \A x \in 1 .. Len(rxbuf) :
           x <= found + FrameHead + 1 => frame_handle(rxbuf, found)[x] = rxbuf[x]
      /\ FrameTop(rxbuf, found) \in Nat /\ FrameTop(rxbuf, found) <= Len(rxbuf) + MaxPast
  BY <1>1, <1>2, <1>3, <1>5, <1>6, HandlingKeeps
<1>8. reach' \in 0 .. Len(rxbuf) + MaxPast
  <2>1. reach \in 0 .. Len(rxbuf) + MaxPast
    BY DEF Inv, TypeOK
  <2>2. reach' = Further(reach, FrameTop(rxbuf, found))
    BY DEF Handle
  <2>3. QED
    BY <1>7, <2>1, <2>2 DEF Further, MaxPast
<1>9. QED
  BY <1>1, <1>2, <1>3, <1>5, <1>6, <1>7, <1>8

LEMMA InvHandle == ASSUME Inv, Handle PROVE Inv'
<1>1. PICK z \in Nat :
        /\ found \in Nat /\ found + z <= Len(rxbuf) /\ frame_len <= found
        /\ frame_len' = frame_len + z /\ rxbuf' \in Seq(Octets) /\ Len(rxbuf') = Len(rxbuf)
        /\ reach' \in 0 .. Len(rxbuf) + MaxPast
  BY HandleIs
<1>2. /\ stream' = stream /\ pos' = pos /\ raw' = raw /\ before' = before
      /\ found' = NULL /\ pc' \in {"select", "parse"}
      /\ handled' = Append(handled, (pos - Len(rxbuf)) + found)
      /\ altered' \subseteq altered \cup {Len(handled) + 1}
  BY DEF Handle, AddHandled
<1>3. /\ pos \in Nat /\ Len(rxbuf) \in Nat /\ Len(rxbuf) <= pos /\ frame_len \in Nat
      /\ handled \in Seq(Nat) /\ before \in Nat /\ before <= Len(handled)
      /\ Len(raw) = Len(rxbuf) /\ raw \in Seq(Octets)
  BY InvTypes
<1>4. frame_len' \in 0 .. Len(rxbuf')
  BY <1>1, <1>3
<1>5. handled' \in Seq(Nat) /\ Len(handled') = Len(handled) + 1
  <2>1. (pos - Len(rxbuf)) + found \in Nat
    BY <1>1, <1>3
  <2>2. QED
    BY <1>2, <1>3, <2>1
<1>6. before' \in 0 .. Len(handled') /\ altered' \subseteq 1 .. Len(handled')
  <2>1. altered \subseteq 1 .. Len(handled) /\ Len(handled) \in Nat
    BY <1>3 DEF Inv, TypeOK
  <2>2. 1 .. Len(handled) \subseteq 1 .. Len(handled) + 1 /\ Len(handled) + 1 \in 1 .. Len(handled) + 1
    BY <2>1
  <2>3. altered' \subseteq 1 .. Len(handled')
    BY <1>2, <1>5, <2>1, <2>2, Zenon
  <2>4. PICK l \in Nat, m \in Nat : l = before /\ m = Len(handled) /\ l <= m
    BY <1>3, <2>1
  <2>5. l \in 0 .. m + 1
    BY <2>4
  <2>6. QED
    BY <1>2, <1>5, <2>3, <2>4, <2>5
<1>7. TypeOK'
  <2>1. /\ stream' \in Streams /\ pos' \in 0 .. Len(stream') /\ Len(raw') <= ReadSize
    BY <1>2 DEF Inv, TypeOK
  <2>2. /\ Len(rxbuf') = Len(raw') /\ {rxbuf', raw'} \subseteq Seq(0 .. 255)
        /\ reach' \in 0 .. Len(raw') + MaxPast
    BY <1>1, <1>2, <1>3 DEF Octets
  <2>3. QED
    BY <1>2, <1>4, <1>5, <1>6, <2>1, <2>2 DEF TypeOK
<1>8. Placed'
  BY <1>2 DEF Inv, Placed
<1>9. FoundIsFrame'
  BY <1>2 DEF FoundIsFrame
<1>10. QED
  BY <1>7, <1>8, <1>9 DEF Inv

LEMMA InvInductive == Inv /\ [Next]_vars => Inv'
<1>1. SUFFICES ASSUME Inv, [Next]_vars PROVE Inv'
  OBVIOUS
<1>2. CASE Read
  BY <1>1, <1>2, InvRead
<1>3. CASE Parse
  BY <1>1, <1>3, InvParse
<1>4. CASE Handle
  BY <1>1, <1>4, InvHandle
<1>5. CASE UNCHANGED vars
  BY <1>1, <1>5 DEF vars, Inv, TypeOK, Placed, FoundIsFrame
<1>6. QED
  BY <1>1, <1>2, <1>3, <1>4, <1>5 DEF Next

\* Every variable keeps to its values; in particular the loop never takes more of
\* rxbuf for done than was read into it, and no answer is written further than
\* 168 bytes behind what was read, whatever the frames hold.
THEOREM TypeCorrect == Spec => []TypeOK
<1>1. Inv => TypeOK
  BY DEF Inv
<1>2. QED
  BY InvInit, InvInductive, <1>1, PTL DEF Spec

-----------------------------------------------------------------------------
\* Where the bytes of raw come from.
LEMMA RawIs ==
  ASSUME Inv
  PROVE  \E from \in Nat :
           /\ from = pos - Len(rxbuf) /\ from + Len(raw) = pos /\ from + Len(raw) <= Len(stream)
           /\ \A x \in 1 .. Len(raw) : raw[x] = stream[from + x]
<1>1. /\ stream \in Seq(Octets) /\ pos \in Nat /\ pos <= Len(stream) /\ Len(raw) = Len(rxbuf)
      /\ Len(raw) <= pos /\ raw \in Seq(Octets)
  BY InvTypes
<1>2. PICK from \in Nat, n \in Nat : from = pos - Len(raw) /\ n = Len(raw) /\ from + n = pos
  <2>1. PICK n \in Nat, p \in Nat : n = Len(raw) /\ p = pos /\ n <= p
    BY <1>1
  <2>2. p - n \in Nat /\ (p - n) + n = p
    BY <2>1
  <2>3. QED
    BY <2>1, <2>2
<1>3. from + n <= Len(stream)
  BY <1>1, <1>2
<1>4. \A x \in 1 .. n : Bytes(stream, from, n)[x] = stream[from + x]
  BY <1>1, <1>3, BytesAre
<1>5. raw = Bytes(stream, from, n)
  BY <1>2 DEF Inv, Placed
<1>6. QED
  BY <1>1, <1>2, <1>3, <1>4, <1>5

SentAsFrame(h) == h + FrameHead <= Len(stream) /\ IsFrame(stream, Len(stream), h)

\* A frame that is handled as it was read is one of the stream.
LEMMA HandledIsSent ==
  ASSUME Inv, Handle, Len(handled) + 1 \notin altered'
  PROVE  SentAsFrame((pos - Len(rxbuf)) + found)
<1>1. PICK z \in Nat :
        /\ z = FrameSize(rxbuf, found) /\ found \in Nat /\ found + z <= Len(rxbuf)
        /\ found + FrameHead <= Len(rxbuf) /\ FrameHead + 1 <= z
        /\ IsFrame(rxbuf, Len(rxbuf), found)
  BY HandleIs
<1>2. PICK from \in Nat :
        /\ from = pos - Len(rxbuf) /\ from + Len(raw) = pos /\ from + Len(raw) <= Len(stream)
        /\ \A x \in 1 .. Len(raw) : raw[x] = stream[from + x]
  BY RawIs
<1>3. /\ stream \in Seq(Octets) /\ rxbuf \in Seq(Octets) /\ raw \in Seq(Octets)
      /\ Len(raw) = Len(rxbuf)
  BY InvTypes
<1>4. Bytes(rxbuf, found, z) = Bytes(raw, found, z)
  BY <1>1 DEF Handle, AddHandled
<1>5. \A x \in 1 .. z : rxbuf[found + x] = stream[from + found + x]
  <2>1. ASSUME NEW x \in 1 .. z PROVE rxbuf[found + x] = stream[from + found + x]
    <3>1. rxbuf[found + x] = Bytes(rxbuf, found, z)[x]
      BY <1>1, <1>3, BytesAre, ZenonT(30)
    <3>2. found + z <= Len(raw)
      BY <1>1, <1>3
    <3>3. raw[found + x] = Bytes(raw, found, z)[x]
      BY <1>1, <1>3, <3>2, BytesAre, ZenonT(30)
    <3>4. found + x \in 1 .. Len(raw) /\ from + found + x = from + (found + x)
      BY <1>1, <1>3, <3>2
    <3>5. QED
      BY <1>2, <1>4, <3>1, <3>3, <3>4
  <2>2. QED
    BY <2>1
<1>6. PICK h \in Nat, q \in Nat, r \in Nat, m \in Nat :
        h = FrameHead /\ q = from + found /\ r = Len(rxbuf) /\ m = Len(stream)
  <2>1. from + found \in Nat /\ Len(rxbuf) \in Nat /\ Len(stream) \in Nat /\ FrameHead \in Nat
    BY <1>1, <1>3, FramingAssumption
  <2>2. QED
    BY <2>1
<1>7. q + z <= m /\ q + h <= m /\ found + h <= r
  <2>1. PICK f \in Nat : f = found
    BY <1>1
  <2>2. q = from + f /\ f + z <= r /\ f + h <= r /\ from + r <= m
    BY <1>1, <1>2, <1>3, <1>6, <2>1
  <2>3. q + z <= m /\ q + h <= m
    BY <2>2
  <2>4. QED
    BY <2>1, <2>2, <2>3
<1>8. IsFrame(stream, m, q)
  <2>1. \A x \in 1 .. FrameSize(rxbuf, found) : rxbuf[found + x] = stream[q + x]
    BY <1>1, <1>5, <1>6
  <2>2. /\ found \in Nat /\ r <= Len(rxbuf) /\ found + FrameHead <= r /\ m <= Len(stream)
        /\ IsFrame(rxbuf, r, found) /\ q + FrameSize(rxbuf, found) <= m
    BY <1>1, <1>6, <1>7
  <2>3. QED
    BY <1>3, <1>6, <2>1, <2>2, FrameMoves
<1>9. QED
  BY <1>2, <1>6, <1>7, <1>8 DEF SentAsFrame

LEMMA SentInductive == Inv /\ HandledWasSent /\ [Next]_vars => HandledWasSent'
<1>1. SUFFICES ASSUME Inv, HandledWasSent, [Next]_vars PROVE HandledWasSent'
  OBVIOUS
<1>2. CASE Handle
  <2>1. /\ stream' = stream /\ handled' = Append(handled, (pos - Len(rxbuf)) + found)
        /\ altered \subseteq altered'
    BY <1>2 DEF Handle, AddHandled
  <2>2. handled \in Seq(Nat) /\ (pos - Len(rxbuf)) + found \in Nat
    <3>1. PICK r \in Nat, p \in Nat, f \in Nat : r = Len(rxbuf) /\ p = pos /\ f = found /\ r <= p
      BY <1>1, <1>2, InvTypes, HandleIs
    <3>2. (p - r) + f \in Nat
      BY <3>1
    <3>3. QED
      BY <1>1, <3>1, <3>2, InvTypes
  <2>3. /\ Len(handled') = Len(handled) + 1
        /\ \A k \in 1 .. Len(handled) : handled'[k] = handled[k]
        /\ handled'[Len(handled) + 1] = (pos - Len(rxbuf)) + found
    BY <2>1, <2>2
  <2>4. ASSUME NEW k \in 1 .. Len(handled'), k \notin altered' PROVE SentAsFrame(handled'[k])
    <3>1. CASE k \in 1 .. Len(handled)
      <4>1. k \notin altered
        BY <2>1, <2>4
      <4>2. SentAsFrame(handled[k])
        BY <1>1, <3>1, <4>1 DEF HandledWasSent, SentAsFrame
      <4>3. QED
        BY <2>3, <3>1, <4>2
    <3>2. CASE k = Len(handled) + 1
      BY <1>1, <1>2, <2>3, <2>4, <3>2, HandledIsSent
    <3>3. k \in 1 .. Len(handled) \/ k = Len(handled) + 1
      BY <2>2, <2>3, <2>4
    <3>4. QED
      BY <3>1, <3>2, <3>3
  <2>5. QED
    BY <2>1, <2>4 DEF HandledWasSent, SentAsFrame
<1>3. CASE ~Handle
  <2>1. stream' = stream /\ handled' = handled /\ altered' = altered
    BY <1>1, <1>3 DEF Next, Read, Parse, vars
  <2>2. QED
    BY <1>1, <2>1 DEF HandledWasSent
<1>4. QED
  BY <1>2, <1>3

\* Whatever the MCU sends and wherever the reads cut it, the loop handles nothing but
\* frames of the stream, checksum and all, except one that an answer to an earlier
\* frame of the same read has reached into.
THEOREM OnlySentIsHandled == Spec => []HandledWasSent
<1>1. Init => HandledWasSent
  BY DEF Init, HandledWasSent
<1>2. QED
  BY InvInit, InvInductive, <1>1, SentInductive, PTL DEF Spec
-----------------------------------------------------------------------------
(***************************************************************************)
(* A frame is answered the same wherever it lies: what comes after p in b  *)
(* and after q in c is the same, as far as b reaches, and stays so.        *)
(***************************************************************************)
Alike(b, p, c, q) == \A x \in 1 .. (Len(b) - p) : b[p + x] = c[q + x]
Fits(b, p, c, q) == p <= Len(b) /\ q + (Len(b) - p) <= Len(c)

LEMMA OverwriteAlike ==
  ASSUME NEW b \in Seq(Octets), NEW p \in Nat, NEW c \in Seq(Octets), NEW q \in Nat, NEW d \in Nat,
         NEW s \in Seq(Octets), Fits(b, p, c, q), Alike(b, p, c, q)
  PROVE  Alike(Overwrite(b, p + d, s), p, Overwrite(c, q + d, s), q)
<1>1. PICK v \in Nat, w \in Nat, l \in Nat, m \in Nat, r \in Nat :
        v = p + d /\ w = q + d /\ l = Len(b) /\ m = Len(c) /\ r = Len(s)
  <2>1. p + d \in Nat /\ q + d \in Nat /\ Len(b) \in Nat /\ Len(c) \in Nat /\ Len(s) \in Nat
    OBVIOUS
  <2>2. QED
    BY <2>1
<1>2. /\ Len(Overwrite(b, v, s)) = l
      /\ \A k \in 1 .. l : Overwrite(b, v, s)[k] = IF k - 1 \in v .. (v + r - 1) THEN s[k - v] ELSE b[k]
  <2>1. /\ Len(Overwrite(b, v, s)) = Len(b)
        /\ \A k \in 1 .. Len(b) :
             Overwrite(b, v, s)[k] = IF k - 1 \in v .. (v + Len(s) - 1) THEN s[k - v] ELSE b[k]
    BY OverwriteIs
  <2>2. QED
    BY <1>1, <2>1
<1>3. \A k \in 1 .. m : Overwrite(c, w, s)[k] = IF k - 1 \in w .. (w + r - 1) THEN s[k - w] ELSE c[k]
  BY <1>1, OverwriteIs
<1>4. ASSUME NEW x \in 1 .. (l - p) PROVE Overwrite(b, v, s)[p + x] = Overwrite(c, w, s)[q + x]
  <2>1. p <= l /\ q + (l - p) <= m /\ b[p + x] = c[q + x]
    BY <1>1 DEF Fits, Alike
  <2>2. p + x \in 1 .. l /\ q + x \in 1 .. m
    BY <2>1
  <2>3. /\ (p + x) - 1 \in v .. (v + r - 1) <=> x - 1 \in d .. (d + r - 1)
        /\ (q + x) - 1 \in w .. (w + r - 1) <=> x - 1 \in d .. (d + r - 1)
        /\ (p + x) - v = x - d /\ (q + x) - w = x - d
    BY <1>1
  <2>4. CASE x - 1 \in d .. (d + r - 1)
    BY <1>2, <1>3, <2>2, <2>3, <2>4
  <2>5. CASE x - 1 \notin d .. (d + r - 1)
    BY <1>2, <1>3, <2>1, <2>2, <2>3, <2>5
  <2>6. QED
    BY <2>4, <2>5
<1>5. QED
  BY <1>1, <1>2, <1>4 DEF Alike

LEMMA WithErrorAlike ==
  ASSUME NEW b \in Seq(Octets), NEW p \in Nat, NEW c \in Seq(Octets), NEW q \in Nat, NEW d \in Nat,
         NEW e \in Octets, Fits(b, p, c, q), Alike(b, p, c, q)
  PROVE  Alike(WithError(b, p + d, e), p, WithError(c, q + d, e), q)
<1> DEFINE s == <<130, e, 0>>
<1>1. s \in Seq(Octets)
  BY DEF Octets
<1>2. PICK f \in Nat : f = d + 2 /\ p + d + 2 = p + f /\ q + d + 2 = q + f
  <2>1. d + 2 \in Nat /\ p + d + 2 = p + (d + 2) /\ q + d + 2 = q + (d + 2)
    OBVIOUS
  <2>2. QED
    BY <2>1
<1>3. WithError(b, p + d, e) = Overwrite(b, p + f, s) /\ WithError(c, q + d, e) = Overwrite(c, q + f, s)
  BY <1>2 DEF WithError
<1> HIDE DEF s
<1>4. QED
  BY <1>1, <1>3, OverwriteAlike

Twins(o, u, p, q) ==
  /\ o.next = u.next /\ Alike(o.b, p, u.b, q)
  /\ \E d \in Nat : o.p = p + d /\ u.p = q + d

LEMMA ItemTwins ==
  ASSUME NEW b \in Seq(Octets), NEW p \in Nat, NEW c \in Seq(Octets), NEW q \in Nat, Fits(b, p, c, q),
         NEW n \in Nat, NEW src \in Seq(Octets), Len(src) = n, NEW i \in Nat, NEW j \in Nat,
         NEW o \in Results(b, i, n), NEW u \in Results(c, j, n), n - o.next >= 3, Twins(o, u, p, q)
  PROVE  Twins(Item(o, src), Item(u, src), p, q)
<1>1. PICK d \in Nat, r \in 0 .. n : o.p = p + d /\ u.p = q + d /\ r = o.next /\ r = u.next
  BY DEF Twins, Results
<1>2. PICK f \in Seq(Octets), g \in Seq(Octets) :
        f = o.b /\ g = u.b /\ Len(f) = Len(b) /\ Len(g) = Len(c) /\ Alike(f, p, g, q)
  BY DEF Twins, Results
<1>3. Fits(f, p, g, q)
  BY <1>2 DEF Fits
<1>4. PICK m \in 3 .. 130 : m = ItemSize(o, src) /\ m = ItemSize(u, src)
  <2>1. ItemSize(o, src) \in 3 .. 130
    BY ItemCases
  <2>2. ItemSize(u, src) = ItemSize(o, src)
    BY <1>1 DEF ItemSize
  <2>3. QED
    BY <2>1, <2>2
<1>5. PICK e : e = ErrorOf(o, src) /\ e = ErrorOf(u, src) /\ e \in Octets
  <2>1. ErrorOf(u, src) = ErrorOf(o, src)
    BY <1>1 DEF ErrorOf
  <2>2. ErrorOf(o, src) \in Octets
    BY AnswerIs DEF ErrorOf, Octets
  <2>3. QED
    BY <2>1, <2>2
<1>6. Whole(u, src) <=> Whole(o, src)
  BY <1>1, <1>4 DEF Whole
<1>7. r + 2 <= Len(src) /\ r \in Nat /\ n - u.next >= 3
  <2>1. n - r >= 3
    BY <1>1
  <2>2. r \in Nat /\ r + 2 <= n
    BY <2>1
  <2>3. QED
    BY <1>1, <2>1, <2>2
<1>8. ASSUME NEW s \in Seq(Octets)
      PROVE  /\ Alike(Overwrite(f, p + d, s), p, Overwrite(g, q + d, s), q)
             /\ \A z \in Octets : Alike(WithError(Overwrite(f, p + d, s), p + d, z), p,
                                        WithError(Overwrite(g, q + d, s), q + d, z), q)
  <2>1. p + d \in Nat /\ q + d \in Nat
    OBVIOUS
  <2>2. PICK v \in Seq(Octets), w \in Seq(Octets) :
          /\ v = Overwrite(f, p + d, s) /\ w = Overwrite(g, q + d, s)
          /\ Len(v) = Len(f) /\ Len(w) = Len(g)
    BY <2>1, OverwriteIs, SMTT(30)
  <2>3. Alike(v, p, w, q)
    BY <1>2, <1>3, <2>2, OverwriteAlike
  <2>4. Fits(v, p, w, q)
    BY <1>3, <2>2 DEF Fits
  <2>5. \A z \in Octets : Alike(WithError(v, p + d, z), p, WithError(w, q + d, z), q)
    BY <2>3, <2>4, WithErrorAlike
  <2>6. QED
    BY <2>2, <2>3, <2>5
<1>9. CASE ~Whole(o, src)
  <2>1. PICK s \in Seq(Octets) : s = Bytes(src, r, 2)
    <3>1. 2 \in Nat
      OBVIOUS
    <3>2. QED
      BY <1>7, <3>1, BytesAre
  <2>2. Item(o, src) = CutItem(o, src) /\ Item(u, src) = CutItem(u, src)
    BY <1>6, <1>7, <1>9, ItemCases
  <2>3. /\ CutItem(o, src) = [b |-> WithError(Overwrite(f, p + d, s), p + d, 1), p |-> p + d + 5, next |-> n,
                             top |-> Further(o.top, p + d + 5)]
        /\ CutItem(u, src) = [b |-> WithError(Overwrite(g, q + d, s), q + d, 1), p |-> q + d + 5, next |-> n,
                             top |-> Further(u.top, q + d + 5)]
    BY <1>1, <1>2, <2>1 DEF CutItem
  <2>4. d + 5 \in Nat /\ p + d + 5 = p + (d + 5) /\ q + d + 5 = q + (d + 5)
    OBVIOUS
  <2>5. 1 \in Octets
    BY DEF Octets
  <2>6. Alike(WithError(Overwrite(f, p + d, s), p + d, 1), p, WithError(Overwrite(g, q + d, s), q + d, 1), q)
    BY <1>8, <2>5
  <2>7. QED
    BY <2>2, <2>3, <2>4, <2>6 DEF Twins
<1>10. CASE Whole(o, src)
  <2>1. PICK s \in Seq(Octets) : s = Bytes(src, r, m)
    <3>1. o.next + ItemSize(o, src) <= Len(src)
      BY <1>10 DEF Whole
    <3>2. r + m <= Len(src) /\ m \in Nat
      <4>1. r + m = o.next + ItemSize(o, src)
        BY <1>1, <1>4
      <4>2. r + m <= Len(src)
        BY <3>1, <4>1
      <4>3. QED
        BY <4>2
    <3>3. QED
      BY <1>7, <3>2, BytesAre
  <2>2. Copied(o, src) = Overwrite(f, p + d, s) /\ Copied(u, src) = Overwrite(g, q + d, s)
    BY <1>1, <1>2, <1>4, <2>1 DEF Copied
  <2>3. CASE e = 0
    <3>1. Item(o, src) = Accepted(o, src) /\ Item(u, src) = Accepted(u, src)
      <4>1. Whole(o, src) /\ ErrorOf(o, src) = 0 /\ Whole(u, src) /\ ErrorOf(u, src) = 0
        BY <1>5, <1>6, <1>10, <2>3
      <4>2. Item(o, src) = Accepted(o, src)
        BY <4>1, ItemCases
      <4>3. Item(u, src) = Accepted(u, src)
        BY <1>7, <4>1, ItemCases
      <4>4. QED
        BY <4>2, <4>3
    <3>2. /\ Accepted(o, src) = [b |-> Overwrite(f, p + d, s), p |-> p + d + m, next |-> r + m,
                                top |-> Further(o.top, p + d + m)]
          /\ Accepted(u, src) = [b |-> Overwrite(g, q + d, s), p |-> q + d + m, next |-> r + m,
                                top |-> Further(u.top, q + d + m)]
      BY <1>1, <1>4, <2>2 DEF Accepted
    <3>3. d + m \in Nat /\ p + d + m = p + (d + m) /\ q + d + m = q + (d + m)
      OBVIOUS
    <3>4. QED
      BY <1>8, <3>1, <3>2, <3>3 DEF Twins
  <2>4. CASE e # 0
    <3>1. Item(o, src) = Refused(o, src) /\ Item(u, src) = Refused(u, src)
      <4>1. Whole(o, src) /\ ErrorOf(o, src) # 0 /\ Whole(u, src) /\ ErrorOf(u, src) # 0
        BY <1>5, <1>6, <1>10, <2>4
      <4>2. Item(o, src) = Refused(o, src)
        BY <4>1, ItemCases
      <4>3. Item(u, src) = Refused(u, src)
        BY <1>7, <4>1, ItemCases
      <4>4. QED
        BY <4>2, <4>3
    <3>2. /\ Refused(o, src) = [b |-> WithError(Overwrite(f, p + d, s), p + d, e), p |-> p + d + 5, next |-> r + m,
                               top |-> Further(Further(o.top, p + d + m), p + d + 5)]
          /\ Refused(u, src) = [b |-> WithError(Overwrite(g, q + d, s), q + d, e), p |-> q + d + 5, next |-> r + m,
                               top |-> Further(Further(u.top, q + d + m), q + d + 5)]
      BY <1>1, <1>4, <1>5, <2>2 DEF Refused
    <3>3. d + 5 \in Nat /\ p + d + 5 = p + (d + 5) /\ q + d + 5 = q + (d + 5)
      OBVIOUS
    <3>4. QED
      BY <1>5, <1>8, <3>1, <3>2, <3>3, SMTT(30) DEF Twins
  <2>5. QED
    BY <2>3, <2>4
<1>11. QED
  BY <1>9, <1>10
LEMMA ItemsTwins ==
  ASSUME NEW b \in Seq(Octets), NEW p \in Nat, NEW c \in Seq(Octets), NEW q \in Nat,
         Fits(b, p, c, q), Alike(b, p, c, q), NEW d \in Nat, NEW n \in Nat, p + d + n <= Len(b)
  PROVE  Alike(set_parameter(b, p + d, n), p, set_parameter(c, q + d, n), q)
<1>1. PICK i \in Nat, j \in Nat, l \in Nat, r \in Nat :
        i = p + d /\ j = q + d /\ l = Len(b) /\ r = Len(c)
  <2>1. p + d \in Nat /\ q + d \in Nat /\ Len(b) \in Nat /\ Len(c) \in Nat
    OBVIOUS
  <2>2. QED
    BY <2>1
<1>2. i + n <= l /\ j + n <= r /\ p <= l /\ q + (l - p) <= r
  BY <1>1 DEF Fits
<1>3. PICK src \in Seq(Octets) : src = Bytes(b, i, n) /\ src = Bytes(c, j, n) /\ Len(src) = n
  <2>1. i + n <= Len(b) /\ j + n <= Len(c)
    BY <1>1, <1>2
  <2>2. /\ Bytes(b, i, n) \in Seq(Octets) /\ Len(Bytes(b, i, n)) = n
        /\ \A k \in 1 .. n : Bytes(b, i, n)[k] = b[i + k]
    BY <2>1, BytesAre, ZenonT(30)
  <2>3. /\ Bytes(c, j, n) \in Seq(Octets) /\ Len(Bytes(c, j, n)) = n
        /\ \A k \in 1 .. n : Bytes(c, j, n)[k] = c[j + k]
    BY <2>1, BytesAre
  <2>4. ASSUME NEW k \in 1 .. n PROVE b[i + k] = c[j + k]
    <3>1. i + k = p + (d + k) /\ j + k = q + (d + k) /\ d + k \in 1 .. (l - p)
      BY <1>1, <1>2
    <3>2. \A x \in 1 .. (l - p) : b[p + x] = c[q + x]
      BY <1>1 DEF Alike
    <3>3. QED
      BY <3>1, <3>2
  <2>5. \A k \in 1 .. n : Bytes(b, i, n)[k] = Bytes(c, j, n)[k]
    BY <2>2, <2>3, <2>4
  <2>6. Bytes(b, i, n) = Bytes(c, j, n)
    BY <2>2, <2>3, <2>5, SeqEqual
  <2>7. QED
    BY <2>2, <2>6
<1> DEFINE m == n \div 3
           I == Items(b, i, n)
           J == Items(c, j, n)
<1>4. m \in Nat
  OBVIOUS
<1>5. /\ I[0] = [b |-> b, p |-> i, next |-> 0, top |-> i]
      /\ \A k \in 1 .. m : I[k] = IF n - I[k - 1].next < 3 THEN I[k - 1] ELSE Item(I[k - 1], src)
      /\ \A k \in 0 .. m : I[k] \in Results(b, i, n)
  <2>1. i + n <= Len(b)
    BY <1>1, <1>2
  <2>2. Followed(Items(b, i, n), b, i, n, src)
    BY <1>3, <2>1, ItemsFollowed
  <2>3. QED
    BY <2>2 DEF Followed
<1>6. /\ J[0] = [b |-> c, p |-> j, next |-> 0, top |-> j]
      /\ \A k \in 1 .. m : J[k] = IF n - J[k - 1].next < 3 THEN J[k - 1] ELSE Item(J[k - 1], src)
      /\ \A k \in 0 .. m : J[k] \in Results(c, j, n)
  <2>1. j + n <= Len(c)
    BY <1>1, <1>2
  <2>2. Followed(Items(c, j, n), c, j, n, src)
    BY <1>3, <2>1, ItemsFollowed
  <2>3. QED
    BY <2>2 DEF Followed
<1> HIDE DEF m, I, J
<1> DEFINE A == {k \in 0 .. m : Twins(I[k], J[k], p, q)}
<1>7. 0 \in A
  <2>1. Twins(I[0], J[0], p, q)
    <3>1. I[0].next = J[0].next
      BY <1>5, <1>6
    <3>2. I[0].b = b /\ J[0].b = c /\ I[0].p = p + d /\ J[0].p = q + d
      BY <1>1, <1>5, <1>6
    <3>3. Alike(I[0].b, p, J[0].b, q)
      BY <1>1, <3>2
    <3>4. \E y \in Nat : I[0].p = p + y /\ J[0].p = q + y
      BY <1>1, <3>2
    <3>5. QED
      BY <3>1, <3>3, <3>4 DEF Twins
  <2>2. QED
    BY <1>4, <2>1
<1>8. ASSUME NEW k \in 0 .. m - 1, k \in A PROVE k + 1 \in A
  <2>1. k + 1 \in 1 .. m /\ k + 1 \in 0 .. m /\ k \in 0 .. m /\ (k + 1) - 1 = k
    BY <1>4
  <2>2. PICK o \in Results(b, i, n), u \in Results(c, j, n) : o = I[k] /\ u = J[k] /\ Twins(o, u, p, q)
    BY <1>5, <1>6, <1>8, <2>1
  <2>3. /\ I[k + 1] = IF n - o.next < 3 THEN o ELSE Item(o, src)
        /\ J[k + 1] = IF n - u.next < 3 THEN u ELSE Item(u, src)
    BY <1>5, <1>6, <2>1, <2>2
  <2>4. PICK y \in 0 .. n : y = o.next /\ y = u.next
    BY <2>2 DEF Results, Twins
  <2>5. CASE n - y < 3
    BY <2>1, <2>2, <2>3, <2>4, <2>5
  <2>6. CASE n - y >= 3
    <3>1. Twins(Item(o, src), Item(u, src), p, q)
      BY <1>3, <2>2, <2>4, <2>6, ItemTwins
    <3>2. ~(n - y < 3)
      BY <2>6
    <3>3. QED
      BY <2>1, <2>3, <2>4, <3>1, <3>2
  <2>7. QED
    BY <2>5, <2>6
<1>9. m \in A
  <2> HIDE DEF A
  <2>1. 0 .. m \subseteq A
    BY <1>4, <1>7, <1>8, InductTo
  <2>2. QED
    BY <1>4, <2>1
<1>10. Alike(I[m].b, p, J[m].b, q)
  BY <1>9 DEF Twins
<1>11. QED
  BY <1>1, <1>10 DEF set_parameter, I, J, m

LEMMA HandlingAlike ==
  ASSUME NEW b \in Seq(Octets), NEW p \in Nat, NEW c \in Seq(Octets), NEW q \in Nat,
         Fits(b, p, c, q), Alike(b, p, c, q),
         p + FrameHead <= Len(b), p + FrameSize(b, p) <= Len(b)
  PROVE  Alike(frame_handle(b, p), p, frame_handle(c, q), q)
<1>1. PICK h \in Nat, n \in Nat, l \in Nat :
        h = FrameHead /\ h >= 5 /\ n = Length(b, p) /\ l = Len(b) /\ FrameSize(b, p) = h + n + 1
  <2>1. Length(b, p) \in Nat /\ FrameSize(b, p) = FrameHead + Length(b, p) + 1
    <3>1. Length(b, p) \in Octets /\ FrameSize(b, p) = FrameHead + Length(b, p) + 1
      BY LengthIs
    <3>2. PICK y \in Octets : y = Length(b, p)
      BY <3>1
    <3>3. y \in Nat
      BY DEF Octets
    <3>4. QED
      BY <3>1, <3>2, <3>3
  <2>2. QED
    BY <2>1, FramingAssumption
<1>2. p + (h + n + 1) <= l
  BY <1>1
<1>3. \A x \in 1 .. (l - p) : b[p + x] = c[q + x]
  BY <1>1 DEF Alike
<1>4. n = Length(c, q)
  <2>1. (p + h - 1) + 1 = p + h /\ (q + h - 1) + 1 = q + h /\ h \in 1 .. (l - p)
    BY <1>1, <1>2
  <2>2. Length(b, p) = b[p + h] /\ Length(c, q) = c[q + h]
    BY <1>1, <2>1 DEF Length, Byte
  <2>3. QED
    BY <1>1, <1>3, <2>1, <2>2
<1>5. Byte(b, p + FrameHead) = Byte(c, q + FrameHead)
  <2>1. (p + h) + 1 = p + (h + 1) /\ (q + h) + 1 = q + (h + 1) /\ h + 1 \in 1 .. (l - p)
    BY <1>1, <1>2
  <2>2. Byte(b, p + FrameHead) = b[p + (h + 1)] /\ Byte(c, q + FrameHead) = c[q + (h + 1)]
    BY <1>1, <2>1 DEF Byte
  <2>3. QED
    BY <1>3, <2>1, <2>2
<1>6. CASE Length(b, p) >= 1 /\ Byte(b, p + FrameHead) % 8 \in SetCommands
  <2>1. n >= 1
    BY <1>1, <1>6
  <2>2. PICK d \in Nat, m \in Nat : d = h + 1 /\ m = n - 1 /\ p + h + 1 = p + d /\ q + h + 1 = q + d
    <3>1. h + 1 \in Nat /\ n - 1 \in Nat /\ p + h + 1 = p + (h + 1) /\ q + h + 1 = q + (h + 1)
      BY <2>1
    <3>2. QED
      BY <3>1
  <2>3. /\ frame_handle(b, p) = set_parameter(b, p + d, m)
        /\ frame_handle(c, q) = set_parameter(c, q + d, m)
    BY <1>1, <1>4, <1>5, <1>6, <2>2 DEF frame_handle, IsSet
  <2>4. p + d + m <= Len(b)
    <3>1. p + d + m <= l
      BY <1>2, <2>2
    <3>2. QED
      BY <1>1, <3>1
  <2>5. QED
    BY <2>3, <2>4, ItemsTwins
<1>7. CASE ~(Length(b, p) >= 1 /\ Byte(b, p + FrameHead) % 8 \in SetCommands)
  <2>1. frame_handle(b, p) = b /\ frame_handle(c, q) = c
    BY <1>1, <1>4, <1>5, <1>7 DEF frame_handle, IsSet
  <2>2. QED
    BY <2>1
<1>8. QED
  BY <1>6, <1>7
-----------------------------------------------------------------------------
(***************************************************************************)
(* Streams of whole frames.                                                *)
(***************************************************************************)

\* Places of which the first is 0, and each other one is after the frame at the one
\* before it.
Chains(s) ==
  {l \in Seq(Nat) :
     /\ Len(l) >= 1 /\ l[1] = 0 /\ \A i \in 1 .. Len(l) : l[i] <= Len(s)
     /\ \A i \in 1 .. Len(l) - 1 :
          /\ l[i] + FrameHead <= Len(s) /\ IsFrame(s, Len(s), l[i])
          /\ l[i + 1] = l[i] + FrameSize(s, l[i])}

LEMMA ChainGrows ==
  ASSUME NEW s \in Seq(Octets), NEW l \in Chains(s)
  PROVE  WithNext(l, s) \in Chains(s)
<1>1. PICK n \in Nat : n = Len(l) /\ n >= 1 /\ l \in Seq(Nat)
  BY DEF Chains
<1>2. PICK e \in Nat : e = l[n] /\ e = Last(l)
  <2>1. Last(l) = l[n] /\ n \in 1 .. Len(l)
    BY <1>1 DEF Last
  <2>2. l[n] \in Nat
    BY <1>1, <2>1
  <2>3. QED
    BY <2>1, <2>2
<1>3. CASE e + FrameHead <= Len(s) /\ IsFrame(s, Len(s), e)
  <2>1. WithNext(l, s) = Append(l, e + FrameSize(s, e))
    BY <1>2, <1>3 DEF WithNext
  <2>2. PICK z \in Nat : z = FrameSize(s, e)
    <3>1. Length(s, e) \in Octets /\ FrameSize(s, e) = FrameHead + Length(s, e) + 1
      BY <1>3, LengthIs
    <3>2. PICK y \in Octets, h \in Nat : y = Length(s, e) /\ h = FrameHead
      BY <3>1, FramingAssumption
    <3>3. h + y + 1 \in Nat
      BY DEF Octets
    <3>4. QED
      BY <3>1, <3>2, <3>3
  <2>3. e + z <= Len(s)
    BY <1>3, <2>2 DEF IsFrame
  <2>4. PICK k \in Seq(Nat) :
          /\ k = Append(l, e + z) /\ Len(k) = n + 1 /\ k[n + 1] = e + z
          /\ \A i \in 1 .. n : k[i] = l[i]
    <3>1. PICK x \in Nat : x = e + z
      OBVIOUS
    <3>2. /\ Append(l, x) \in Seq(Nat) /\ Len(Append(l, x)) = Len(l) + 1
          /\ Append(l, x)[Len(l) + 1] = x /\ \A i \in 1 .. Len(l) : Append(l, x)[i] = l[i]
      BY <1>1, AppendProperties
    <3>3. QED
      BY <1>1, <3>1, <3>2
  <2>5. k[1] = 0
    BY <1>1, <2>4 DEF Chains
  <2>6. ASSUME NEW i \in 1 .. n + 1 PROVE k[i] <= Len(s)
    <3>1. CASE i \in 1 .. n
      BY <1>1, <2>4, <3>1 DEF Chains
    <3>2. CASE i = n + 1
      BY <2>3, <2>4, <3>2
    <3>3. QED
      BY <3>1, <3>2
  <2>7. ASSUME NEW i \in 1 .. n
        PROVE  /\ k[i] + FrameHead <= Len(s) /\ IsFrame(s, Len(s), k[i])
               /\ k[i + 1] = k[i] + FrameSize(s, k[i])
    <3>1. CASE i = n
      BY <1>2, <1>3, <2>2, <2>4, <3>1
    <3>2. CASE i \in 1 .. n - 1
      <4>1. i \in 1 .. n /\ i + 1 \in 1 .. n
        BY <3>2
      <4>2. k[i] = l[i] /\ k[i + 1] = l[i + 1]
        BY <2>4, <4>1
      <4>3. /\ l[i] + FrameHead <= Len(s) /\ IsFrame(s, Len(s), l[i])
            /\ l[i + 1] = l[i] + FrameSize(s, l[i])
        BY <1>1, <3>2 DEF Chains
      <4>4. QED
        BY <4>2, <4>3
    <3>3. QED
      BY <3>1, <3>2
  <2>8. Len(k) >= 1 /\ Len(k) - 1 = n
    BY <2>4
  <2>9. k \in Chains(s)
    BY <2>4, <2>5, <2>6, <2>7, <2>8 DEF Chains
  <2>10. QED
    BY <2>1, <2>2, <2>4, <2>9
<1>4. CASE ~(e + FrameHead <= Len(s) /\ IsFrame(s, Len(s), e))
  <2>1. WithNext(l, s) = l
    BY <1>2, <1>4 DEF WithNext
  <2>2. QED
    BY <2>1
<1>5. QED
  BY <1>3, <1>4

LEMMA StartsAre ==
  ASSUME NEW s \in Seq(Octets)
  PROVE  Starts(s) \in Chains(s)
<1> DEFINE m == Len(s) \div FrameHead
           D == Chains(s)
           F(f) == [k \in 0 .. m |-> IF k = 0 THEN <<0>> ELSE WithNext(f[k - 1], s)]
           step == [l \in D |-> WithNext(l, s)]
           at == CHOOSE f : f = F(f)
<1>1. Starts(s) = at[m]
  BY DEF Starts
<1>2. m \in Nat
  <2>1. PICK h \in Nat, n \in Nat : h = FrameHead /\ h >= 5 /\ n = Len(s)
    BY FramingAssumption
  <2>2. n \div h \in Nat
    BY <2>1
  <2>3. QED
    BY <2>1, <2>2
<1>3. <<0>> \in D
  BY DEF Chains
<1>4. \A l \in D : WithNext(l, s) \in D
  BY ChainGrows
<1> HIDE DEF m, D
<1>5. step \in [D -> D]
  BY <1>4
<1>6. \E f : f = F(f)
  <2>1. PICK f : Follows(f, m, D, <<0>>, step)
    <3> HIDE DEF step
    <3>1. QED
      BY <1>2, <1>3, <1>5, Recursion
  <2>2. ASSUME NEW k \in 0 .. m PROVE f[k] = IF k = 0 THEN <<0>> ELSE WithNext(f[k - 1], s)
    <3>1. CASE k = 0
      BY <2>1, <3>1 DEF Follows
    <3>2. CASE k # 0
      <4>1. k - 1 \in 0 .. m /\ k \in 1 .. m
        BY <1>2, <3>2
      <4>2. f[k - 1] \in D /\ f[k] = step[f[k - 1]]
        BY <2>1, <4>1 DEF Follows
      <4>3. QED
        BY <3>2, <4>2
    <3>3. QED
      BY <3>1, <3>2
  <2>3. f = F(f)
    BY <2>1, <2>2 DEF Follows
  <2>4. QED
    BY <2>3
<1>7. at = F(at)
  <2> HIDE DEF F
  <2>1. QED
    BY <1>6
<1> HIDE DEF at
<1>8. at[0] = <<0>> /\ \A k \in 1 .. m : at[k] = WithNext(at[k - 1], s)
  BY <1>2, <1>7
<1> HIDE DEF F
<1> DEFINE A == {k \in 0 .. m : at[k] \in D}
<1>9. 0 \in A
  BY <1>2, <1>3, <1>8
<1>10. ASSUME NEW k \in 0 .. m - 1, k \in A PROVE k + 1 \in A
  <2>1. k + 1 \in 1 .. m /\ k + 1 \in 0 .. m /\ (k + 1) - 1 = k /\ at[k] \in D
    BY <1>2, <1>10
  <2>2. at[k + 1] = WithNext(at[k], s)
    BY <1>8, <2>1
  <2>3. QED
    BY <1>4, <2>1, <2>2
<1>11. m \in A
  <2> HIDE DEF A
  <2>1. 0 .. m \subseteq A
    BY <1>2, <1>9, <1>10, InductTo
  <2>2. QED
    BY <1>2, <2>1
<1>12. QED
  BY <1>1, <1>11 DEF D

LEMMA ChainRises ==
  ASSUME NEW s \in Seq(Octets), NEW l \in Chains(s), NEW i \in 1 .. Len(l), NEW j \in 1 .. Len(l), i < j
  PROVE  l[i] < l[j]
<1>1. PICK n \in Nat : n = Len(l) /\ l \in Seq(Nat)
  BY DEF Chains
<1>2. ASSUME NEW k \in 1 .. n - 1 PROVE l[k] < l[k + 1]
  <2>1. PICK e \in Nat, d \in Nat : e = l[k] /\ d = l[k + 1]
    <3>1. k \in 1 .. n /\ k + 1 \in 1 .. n
      OBVIOUS
    <3>2. l[k] \in Nat /\ l[k + 1] \in Nat
      BY <1>1, <3>1
    <3>3. QED
      BY <3>2
  <2>2. e + FrameHead <= Len(s) /\ d = e + FrameSize(s, e)
    BY <1>1, <2>1 DEF Chains
  <2>3. Length(s, e) \in Octets /\ FrameSize(s, e) = FrameHead + Length(s, e) + 1
    BY <2>2, LengthIs
  <2>4. PICK y \in Octets, h \in Nat : y = Length(s, e) /\ h = FrameHead
    BY <2>3, FramingAssumption
  <2>5. e < e + (h + y + 1)
    BY DEF Octets
  <2>6. QED
    BY <2>1, <2>2, <2>3, <2>4, <2>5
<1> DEFINE A == {k \in Nat : i + 1 + k <= n => l[i] < l[i + 1 + k]}
<1>3. 0 \in A
  <2>1. i + 1 + 0 = i + 1 /\ i \in 1 .. n - 1
    BY <1>1
  <2>2. QED
    BY <1>2, <2>1
<1>4. ASSUME NEW k \in 0 .. n - 1, k \in A PROVE k + 1 \in A
  <2>1. SUFFICES ASSUME i + 1 + (k + 1) <= n PROVE l[i] < l[i + 1 + (k + 1)]
    OBVIOUS
  <2>2. PICK x \in 1 .. n - 1 : x = i + 1 + k /\ x + 1 = i + 1 + (k + 1)
    BY <1>1, <2>1
  <2>3. x <= n
    OBVIOUS
  <2>4. l[i] < l[x]
    BY <1>4, <2>2, <2>3
  <2>5. l[x] < l[x + 1]
    BY <1>2
  <2>6. l[i] \in Nat /\ l[x] \in Nat /\ l[x + 1] \in Nat
    <3>1. i \in 1 .. n /\ x \in 1 .. n /\ x + 1 \in 1 .. n
      BY <1>1
    <3>2. QED
      BY <1>1, <3>1
  <2>7. QED
    BY <2>2, <2>4, <2>5, <2>6
<1>5. PICK k \in 0 .. n : j = i + 1 + k
  <2>1. j - (i + 1) \in 0 .. n /\ j = i + 1 + (j - (i + 1))
    BY <1>1
  <2>2. QED
    BY <2>1
<1>6. 0 .. n \subseteq A
  <2> HIDE DEF A
  <2>1. QED
    BY <1>3, <1>4, InductTo
<1>7. i + 1 + k <= n
  BY <1>1, <1>5
<1>8. QED
  BY <1>5, <1>6, <1>7
-----------------------------------------------------------------------------
(***************************************************************************)
(* A read of nothing but whole frames.  The loop has handled the first of  *)
(* them, as many as the handled places are more than before the read, and  *)
(* stands at the next one; what comes after is still as it was read, since *)
(* no answer is longer than the frame it answers.                          *)
(***************************************************************************)
Lined(i, j) ==
  LET starts == Starts(stream)
      from == pos - Len(rxbuf)
      m == Len(handled) - before
  IN /\ i + m <= j
     /\ \A k \in 1 .. m : handled[before + k] = starts[i + (k - 1)]
     /\ frame_len = starts[i + m] - from
     /\ \A x \in 1 .. Len(rxbuf) : x > frame_len => rxbuf[x] = stream[from + x]
     /\ i < j => rxbuf[1] = STC
     /\ pc = "handle" => found = frame_len /\ i + m < j
     /\ pc = "select" => i + m = j

WholeFrames(i, j) ==
  /\ WellFormed(stream) /\ Len(raw) < 256
  /\ i \in 1 .. Len(Starts(stream)) /\ j \in 1 .. Len(Starts(stream))
  /\ Starts(stream)[i] = pos - Len(raw) /\ Starts(stream)[j] = pos

Aligned == \A i, j \in Nat : WholeFrames(i, j) => Lined(i, j)

\* The numbers such a read is about: r bytes of st, the last of them at p.
Numbers(st, p, r, i, j, s, from, n) ==
  /\ s \in Chains(st) /\ s = Starts(st) /\ s \in Seq(Nat) /\ n = Len(s)
  /\ from = p - r /\ p = from + r /\ p <= Len(st)
  /\ i \in 1 .. n /\ j \in 1 .. n /\ i <= j /\ s[i] = from /\ s[j] = p

LEMMA NumbersAre ==
  ASSUME NEW st \in Seq(Octets), NEW p \in Nat, NEW r \in Nat, r <= p, p <= Len(st),
         NEW i \in 1 .. Len(Starts(st)), NEW j \in 1 .. Len(Starts(st)),
         Starts(st)[i] = p - r, Starts(st)[j] = p
  PROVE  \E s \in Chains(st), from \in Nat, n \in Nat : Numbers(st, p, r, i, j, s, from, n)
<1>1. PICK s \in Chains(st) : s = Starts(st) /\ s \in Seq(Nat)
  BY StartsAre DEF Chains
<1>2. PICK n \in Nat : n = Len(s)
  BY <1>1
<1>3. PICK from \in Nat : from = p - r /\ from + r = p
  OBVIOUS
<1>4. i \in 1 .. n /\ j \in 1 .. n /\ s[i] = from /\ s[j] = p
  BY <1>1, <1>2, <1>3
<1>5. i <= j
  <2>1. SUFFICES ASSUME j < i PROVE FALSE
    BY <1>4
  <2>2. s[j] < s[i]
    BY <1>2, <1>4, <2>1, ChainRises
  <2>3. QED
    BY <1>3, <1>4, <2>2
<1>6. Numbers(st, p, r, i, j, s, from, n)
  BY <1>1, <1>2, <1>3, <1>4, <1>5 DEF Numbers
<1>7. QED
  BY <1>6

LEMMA WholeIs ==
  ASSUME Inv, NEW i \in Nat, NEW j \in Nat, WholeFrames(i, j)
  PROVE  \E r \in Nat, s \in Chains(stream), from \in Nat, n \in Nat :
           r = Len(rxbuf) /\ r < 256 /\ Numbers(stream, pos, r, i, j, s, from, n)
<1>1. /\ stream \in Seq(Octets) /\ pos \in Nat /\ pos <= Len(stream)
      /\ Len(raw) = Len(rxbuf) /\ Len(raw) <= pos /\ rxbuf \in Seq(Octets)
  BY InvTypes
<1>2. PICK r \in Nat, p \in Nat : r = Len(rxbuf) /\ p = pos /\ r <= p /\ p <= Len(stream)
  BY <1>1
<1>3. /\ i \in 1 .. Len(Starts(stream)) /\ j \in 1 .. Len(Starts(stream)) /\ r < 256
      /\ Starts(stream)[i] = p - r /\ Starts(stream)[j] = p
  BY <1>1, <1>2 DEF WholeFrames
<1>4. \E s \in Chains(stream), from \in Nat, n \in Nat : Numbers(stream, p, r, i, j, s, from, n)
  BY <1>1, <1>2, <1>3, NumbersAre
<1>5. QED
  BY <1>2, <1>3, <1>4

LEMMA AlignedInit == Init => Aligned
<1>1. SUFFICES ASSUME Init, NEW i \in Nat, NEW j \in Nat, WholeFrames(i, j) PROVE Lined(i, j)
  BY DEF Aligned
<1>2. Inv
  BY <1>1, InvInit
<1>3. PICK r \in Nat, s \in Chains(stream), from \in Nat, n \in Nat :
        r = Len(rxbuf) /\ Numbers(stream, pos, r, i, j, s, from, n)
  BY <1>1, <1>2, WholeIs
<1>4. /\ rxbuf = <<>> /\ frame_len = 0 /\ handled = <<>> /\ before = 0 /\ pc = "select" /\ pos = 0
      /\ Len(rxbuf) = 0 /\ Len(handled) = 0
  BY <1>1 DEF Init
<1>5. r = 0 /\ from = 0
  BY <1>3, <1>4 DEF Numbers
<1>6. i = j
  <2>1. /\ s \in Chains(stream) /\ i \in 1 .. Len(s) /\ j \in 1 .. Len(s) /\ i <= j
        /\ s[i] = 0 /\ s[j] = 0
    BY <1>3, <1>4, <1>5 DEF Numbers
  <2>2. SUFFICES ASSUME i < j PROVE FALSE
    BY <2>1
  <2>3. s[i] < s[j]
    BY <1>2, <2>1, <2>2, ChainRises, InvTypes
  <2>4. QED
    BY <2>1, <2>3
<1>7. PICK m \in Nat : m = 0 /\ m = Len(handled) - before /\ i + m = i
  BY <1>4
<1>8. frame_len = Starts(stream)[i + m] - (pos - Len(rxbuf))
  BY <1>3, <1>4, <1>5, <1>7 DEF Numbers
<1>9. QED
  BY <1>4, <1>6, <1>7, <1>8 DEF Lined

LEMMA AlignedRead == ASSUME Inv, Read PROVE Aligned'
<1>1. SUFFICES ASSUME NEW i \in Nat, NEW j \in Nat, WholeFrames(i, j)' PROVE Lined(i, j)'
  BY DEF Aligned
<1>2. PICK z \in 1 .. ReadSize :
        /\ pos + z <= Len(stream) /\ pos' = pos + z /\ Len(raw') = z /\ rxbuf' = raw'
        /\ \A x \in 1 .. z : raw'[x] = stream[pos + x]
  BY ReadIs
<1>3. /\ stream' = stream /\ handled' = handled /\ before' = Len(handled)
      /\ frame_len' = 0 /\ pc' = "parse"
  BY DEF Read
<1>4. stream \in Seq(Octets) /\ pos \in Nat /\ z \in Nat /\ z >= 1
  BY InvTypes, FramingAssumption
<1>5. PICK q \in Nat : q = pos + z /\ z <= q /\ q <= Len(stream) /\ q - z = pos
  <2>1. pos + z \in Nat /\ z <= pos + z /\ (pos + z) - z = pos
    BY <1>4
  <2>2. QED
    BY <1>2, <2>1
<1>6. PICK s \in Chains(stream), from \in Nat, n \in Nat : Numbers(stream, q, z, i, j, s, from, n)
  <2>1. /\ i \in 1 .. Len(Starts(stream)) /\ j \in 1 .. Len(Starts(stream))
        /\ Starts(stream)[i] = q - z /\ Starts(stream)[j] = q
    BY <1>1, <1>2, <1>3, <1>5 DEF WholeFrames
  <2>2. QED
    BY <1>4, <1>5, <2>1, NumbersAre
<1>7. from = pos /\ s[i] = pos /\ s = Starts(stream) /\ i <= j
  BY <1>5, <1>6 DEF Numbers
<1>8. PICK m \in Nat : m = 0 /\ m = Len(handled') - before' /\ i + m = i
  <2>1. Len(handled) \in Nat
    BY InvTypes
  <2>2. QED
    BY <1>3, <2>1
<1>9. pos' - Len(rxbuf') = pos
  BY <1>2, <1>5
<1>10. frame_len' = Starts(stream')[i + m] - (pos' - Len(rxbuf'))
  BY <1>3, <1>4, <1>7, <1>8, <1>9
<1>11. \A x \in 1 .. Len(rxbuf') : rxbuf'[x] = stream'[(pos' - Len(rxbuf')) + x]
  BY <1>2, <1>3, <1>9
<1>12. ASSUME i < j PROVE rxbuf'[1] = STC
  <2>1. i \in 1 .. Len(s) - 1 /\ s \in Chains(stream)
    BY <1>6, <1>12 DEF Numbers
  <2>2. IsFrame(stream, Len(stream), s[i])
    BY <2>1 DEF Chains
  <2>3. stream[pos + 1] = STC
    BY <1>7, <2>2 DEF IsFrame, Byte
  <2>4. 1 \in 1 .. z
    BY <1>4
  <2>5. QED
    BY <1>2, <2>3, <2>4
<1>13. \A x \in 1 .. m : FALSE
  BY <1>8
<1>14. QED
  BY <1>3, <1>7, <1>8, <1>10, <1>11, <1>12, <1>13 DEF Lined
\* Where the loop stands, in numbers: e is the next frame's place in the stream,
\* f in rxbuf, and m frames of this read have been handled.
Stands(i, j, r, s, from, n, m, f, e) ==
  /\ r = Len(rxbuf) /\ r < 256 /\ Numbers(stream, pos, r, i, j, s, from, n)
  /\ m = Len(handled) - before /\ i + m <= j /\ i + m \in 1 .. n /\ e = s[i + m]
  /\ f = frame_len /\ e = from + f /\ f <= r
  /\ \A x \in 1 .. r : x > f => rxbuf[x] = stream[from + x]

LEMMA StandsAt ==
  ASSUME Inv, NEW i \in Nat, NEW j \in Nat, WholeFrames(i, j), Lined(i, j)
  PROVE  \E r \in Nat, s \in Chains(stream), from \in Nat, n \in Nat, m \in Nat, f \in Nat, e \in Nat :
           Stands(i, j, r, s, from, n, m, f, e)
<1>1. PICK r \in Nat, s \in Chains(stream), from \in Nat, n \in Nat :
        r = Len(rxbuf) /\ r < 256 /\ Numbers(stream, pos, r, i, j, s, from, n)
  BY WholeIs
<1>2. /\ s = Starts(stream) /\ from = pos - Len(rxbuf) /\ s \in Seq(Nat) /\ n = Len(s)
      /\ i \in 1 .. n /\ j \in 1 .. n
  BY <1>1 DEF Numbers
<1>3. PICK m \in Nat : m = Len(handled) - before
  <2>1. PICK l \in Nat, b \in Nat : l = Len(handled) /\ b = before /\ b <= l
    BY InvTypes
  <2>2. l - b \in Nat
    BY <2>1
  <2>3. QED
    BY <2>1, <2>2
<1>4. i + m <= j
  BY <1>3 DEF Lined
<1>5. i + m \in 1 .. n
  BY <1>2, <1>4
<1>6. PICK e \in Nat : e = s[i + m]
  BY <1>2, <1>5
<1>7. PICK f \in Nat : f = frame_len /\ f <= r
  BY <1>1, InvTypes
<1>8. f = e - from
  BY <1>2, <1>3, <1>6, <1>7 DEF Lined
<1>9. e = from + f
  BY <1>8
<1>10. \A x \in 1 .. r : x > f => rxbuf[x] = stream[from + x]
  BY <1>1, <1>2, <1>7 DEF Lined
<1>11. Stands(i, j, r, s, from, n, m, f, e)
  BY <1>1, <1>3, <1>4, <1>5, <1>6, <1>7, <1>9, <1>10 DEF Stands
<1>12. QED
  BY <1>11

LEMMA AlignedParse == ASSUME Inv, Aligned, pc = "parse", Parse PROVE Aligned'
<1>1. /\ stream' = stream /\ pos' = pos /\ rxbuf' = rxbuf /\ raw' = raw /\ frame_len' = frame_len
      /\ handled' = handled /\ before' = before
  BY DEF Parse
<1>2. SUFFICES ASSUME NEW i \in Nat, NEW j \in Nat, WholeFrames(i, j) PROVE Lined(i, j)'
  BY <1>1 DEF Aligned, WholeFrames
<1>3. Lined(i, j)
  BY <1>2 DEF Aligned
<1>4a. PICK r \in Nat, s \in Chains(stream), from \in Nat, n \in Nat, m \in Nat, f \in Nat, e \in Nat :
         Stands(i, j, r, s, from, n, m, f, e)
  BY <1>2, <1>3, StandsAt
<1>4. /\ r = Len(rxbuf) /\ r < 256 /\ Numbers(stream, pos, r, i, j, s, from, n)
      /\ m = Len(handled) - before /\ i + m <= j /\ i + m \in 1 .. n /\ e = s[i + m]
      /\ f = frame_len /\ e = from + f /\ f <= r
      /\ \A x \in 1 .. r : x > f => rxbuf[x] = stream[from + x]
  BY <1>4a DEF Stands
<1>5. /\ s \in Chains(stream) /\ s \in Seq(Nat) /\ n = Len(s) /\ pos = from + r /\ pos <= Len(stream)
      /\ j \in 1 .. n /\ s[j] = from + r
  BY <1>4 DEF Numbers
<1>6. CASE i + m = j
  <2>1. f = r
    <3>1. from + f = from + r
      BY <1>4, <1>5, <1>6
    <3>2. QED
      BY <3>1
  <2>2. ~(f < r)
    BY <2>1
  <2>3. ~(frame_len < Len(rxbuf))
    BY <1>4, <2>2
  <2>4. pc' = "select"
    BY <2>3, ParseIs
  <2>5. QED
    BY <1>1, <1>3, <1>4, <1>6, <2>4 DEF Lined
<1>7. CASE i + m # j
  <2>1. i + m < j /\ i + m \in 1 .. n - 1 /\ i + m + 1 \in 1 .. n
    <3>1. i + m \in 1 .. n /\ i + m <= j /\ j \in 1 .. n
      BY <1>4, <1>5
    <3>2. QED
      BY <1>7, <3>1
  <2>2. PICK z \in Nat, d \in Nat :
          /\ e + FrameHead <= Len(stream) /\ IsFrame(stream, Len(stream), e)
          /\ z = FrameSize(stream, e) /\ d = s[i + m + 1] /\ d = e + z
    <3>1. /\ e + FrameHead <= Len(stream) /\ IsFrame(stream, Len(stream), e)
          /\ s[i + m + 1] = e + FrameSize(stream, e)
      BY <1>4, <1>5, <2>1 DEF Chains
    <3>2. s[i + m + 1] \in Nat
      BY <1>5, <2>1
    <3>3. Length(stream, e) \in Octets /\ FrameSize(stream, e) = FrameHead + Length(stream, e) + 1
      BY <3>1, LengthIs, InvTypes
    <3>4. PICK y \in Octets, h \in Nat : y = Length(stream, e) /\ h = FrameHead
      BY <3>3, FramingAssumption
    <3>5. h + y + 1 \in Nat
      BY DEF Octets
    <3>6. QED
      BY <3>1, <3>2, <3>3, <3>4, <3>5
  <2>3. d <= from + r
    <3>1. CASE i + m + 1 = j
      <4>1. d = from + r
        BY <1>5, <2>2, <3>1
      <4>2. QED
        BY <4>1
    <3>2. CASE i + m + 1 < j
      <4>1. s[i + m + 1] < s[j]
        BY <1>5, <2>1, <3>2, ChainRises, InvTypes
      <4>2. QED
        BY <1>5, <2>2, <4>1
    <3>3. QED
      BY <1>5, <2>1, <3>1, <3>2
  <2>4. f + z <= r
    <3>1. d = (from + f) + z
      BY <1>4, <2>2
    <3>2. QED
      BY <2>3, <3>1
  <2>5. PICK u \in Seq(Octets) : u = Unparsed /\ Len(u) = r - f /\ \A x \in 1 .. r - f : u[x] = rxbuf[f + x]
    BY <1>4, UnparsedIs
  <2>6. PICK v \in Nat : v = r - f /\ v = Len(u) % 256
    <3>1. r - f \in Nat /\ (r - f) % 256 = r - f
      <4>1. r < 256 /\ f <= r
        BY <1>4
      <4>2. QED
        BY <4>1
    <3>2. QED
      BY <2>5, <3>1
  <2>7. IsFrame(u, v, 0) /\ FrameHead <= v
    <3>1. \A x \in 1 .. z : stream[e + x] = u[0 + x]
      <4>1. SUFFICES ASSUME NEW x \in 1 .. z PROVE stream[e + x] = u[0 + x]
        OBVIOUS
      <4>2. /\ 0 + x = x /\ x \in 1 .. r - f /\ f + x \in 1 .. r /\ f + x > f
            /\ (from + f) + x = from + (f + x)
        BY <2>4
      <4>3. QED
        BY <1>4, <2>5, <4>2
    <3>2. PICK h \in Nat, l \in Nat : h = FrameHead /\ l = Len(stream) /\ e + h <= l
      <4>1. FrameHead \in Nat /\ Len(stream) \in Nat
        BY FramingAssumption, InvTypes
      <4>2. QED
        BY <2>2, <4>1
    <3>3. 0 + z <= v
      BY <2>4, <2>6
    <3>4. IsFrame(u, v, 0) /\ FrameSize(u, 0) = z
      <4>1. /\ e \in Nat /\ l <= Len(stream) /\ e + FrameHead <= l /\ v <= Len(u) /\ 0 \in Nat
            /\ IsFrame(stream, l, e) /\ 0 + FrameSize(stream, e) <= v
            /\ \A x \in 1 .. FrameSize(stream, e) : stream[e + x] = u[0 + x]
        BY <2>2, <2>5, <2>6, <3>1, <3>2, <3>3
      <4>2. stream \in Seq(Octets)
        BY InvTypes
      <4>3. QED
        BY <2>2, <4>1, <4>2, FrameMoves
    <3>5. h <= z
      <4>1. Length(stream, e) \in Octets /\ FrameSize(stream, e) = FrameHead + Length(stream, e) + 1
        BY <2>2, LengthIs, InvTypes
      <4>2. PICK y \in Octets : y = Length(stream, e) /\ z = h + y + 1
        BY <2>2, <3>2, <4>1
      <4>3. y \in Nat
        BY DEF Octets
      <4>4. h <= h + y + 1
        BY <4>3
      <4>5. QED
        BY <4>2, <4>4
    <3>6. h <= v
      BY <3>3, <3>5
    <3>7. QED
      BY <3>2, <3>4, <3>6
  <2>8. get_smart_frame(u) = 0
    <3>1. PICK h \in Nat : h = FrameHead
      BY FramingAssumption
    <3>2. 0 \in 0 .. v - h
      BY <2>7, <3>1
    <3>3. get_smart_frame(u) \in 0 .. v - h /\ get_smart_frame(u) <= 0
      BY <2>6, <2>7, <3>1, <3>2, FoundIs
    <3>4. QED
      BY <3>3
  <2>9. pc' = "handle" /\ found' = frame_len
    <3>1. f < r
      BY <2>2, <2>4, <2>7, <2>6, FramingAssumption
    <3>2. 0 # NULL
      BY DEF NULL
    <3>3. f + 0 = f
      OBVIOUS
    <3>4. QED
      BY <1>4, <2>5, <2>8, <3>1, <3>2, <3>3 DEF Parse
  <2>10. QED
    BY <1>1, <1>3, <1>4, <2>1, <2>9 DEF Lined
<1>8. QED
  BY <1>6, <1>7
LEMMA AlignedHandle == ASSUME Inv, Aligned, Handle PROVE Aligned'
<1>1. /\ stream' = stream /\ pos' = pos /\ raw' = raw /\ before' = before /\ pc = "handle"
      /\ handled' = Append(handled, (pos - Len(rxbuf)) + found)
  BY DEF Handle, AddHandled
<1>2. SUFFICES ASSUME NEW i \in Nat, NEW j \in Nat, WholeFrames(i, j) PROVE Lined(i, j)'
  BY <1>1 DEF Aligned, WholeFrames
<1>3. Lined(i, j)
  BY <1>2 DEF Aligned
<1>4a. PICK r \in Nat, s \in Chains(stream), from \in Nat, n \in Nat, m \in Nat, f \in Nat, e \in Nat :
         Stands(i, j, r, s, from, n, m, f, e)
  BY <1>2, <1>3, StandsAt
<1>4. /\ r = Len(rxbuf) /\ Numbers(stream, pos, r, i, j, s, from, n)
      /\ m = Len(handled) - before /\ i + m <= j /\ i + m \in 1 .. n /\ e = s[i + m]
      /\ f = frame_len /\ e = from + f /\ f <= r
      /\ \A x \in 1 .. r : x > f => rxbuf[x] = stream[from + x]
  BY <1>4a DEF Stands
<1>5. /\ s = Starts(stream) /\ s \in Seq(Nat) /\ n = Len(s) /\ from = pos - r /\ pos = from + r
      /\ pos <= Len(stream) /\ j \in 1 .. n /\ i \in 1 .. n
  BY <1>4 DEF Numbers
<1>6. f = found /\ i + m < j
  BY <1>1, <1>3, <1>4 DEF Lined
<1>7. i + m \in 1 .. n - 1 /\ i + (m + 1) \in 1 .. n /\ i + m + 1 = i + (m + 1) /\ i + (m + 1) <= j
  <2>1. i + m \in 1 .. n /\ j \in 1 .. n
    BY <1>4, <1>5
  <2>2. QED
    BY <1>6, <2>1
<1>8. PICK z \in Nat :
        /\ z = FrameSize(rxbuf, f) /\ f + z <= r /\ f + FrameHead <= r
        /\ IsFrame(rxbuf, r, f) /\ frame_len' = f + z
        /\ rxbuf' = frame_handle(rxbuf, f) /\ rxbuf' \in Seq(Octets) /\ Len(rxbuf') = r
        /\ \A x \in 1 .. r : x <= f + FrameHead + 1 => rxbuf'[x] = rxbuf[x]
  BY <1>4, <1>6, HandleIs
<1>9. stream \in Seq(Octets) /\ rxbuf \in Seq(Octets)
  BY InvTypes
<1>10. Alike(rxbuf, f, stream, e) /\ Fits(rxbuf, f, stream, e)
  <2>1. ASSUME NEW x \in 1 .. r - f PROVE rxbuf[f + x] = stream[e + x]
    <3>1. f + x \in 1 .. r /\ f + x > f /\ from + (f + x) = (from + f) + x
      OBVIOUS
    <3>2. QED
      BY <1>4, <3>1
  <2>2. (from + f) + (r - f) = from + r
    OBVIOUS
  <2>3. e + (r - f) <= Len(stream)
    BY <1>4, <1>5, <2>2
  <2>4. QED
    BY <1>4, <2>1, <2>3 DEF Alike, Fits
<1>11. /\ e + FrameHead <= Len(stream) /\ IsFrame(stream, Len(stream), e)
       /\ s[i + m + 1] = e + FrameSize(stream, e)
  BY <1>4, <1>5, <1>7 DEF Chains
\* The frame as long in rxbuf as in the stream: the next one is where the loop goes on.
<1>12. FrameSize(stream, e) = z
  <2>1. PICK l \in Nat : l = Len(stream)
    BY <1>9
  <2>2. e + z <= l
    <3>1. (from + f) + z <= from + r
      BY <1>8
    <3>2. from + r <= l
      BY <1>5, <2>1
    <3>3. e + z <= from + r
      BY <1>4, <3>1
    <3>4. QED
      BY <3>2, <3>3
  <2>3. \A x \in 1 .. z : rxbuf[f + x] = stream[e + x]
    <3>1. \A x \in 1 .. z : x \in 1 .. r - f
      BY <1>8
    <3>2. QED
      BY <1>4, <1>10, <3>1 DEF Alike
  <2>4. /\ r <= Len(rxbuf) /\ l <= Len(stream) /\ e + FrameSize(rxbuf, f) <= l
        /\ \A x \in 1 .. FrameSize(rxbuf, f) : rxbuf[f + x] = stream[e + x]
    BY <1>4, <1>8, <2>1, <2>2, <2>3
  <2>5. f + FrameHead <= r /\ IsFrame(rxbuf, r, f)
    BY <1>8
  <2>6. FrameSize(stream, e) = FrameSize(rxbuf, f)
    BY <1>9, <2>4, <2>5, FrameMoves
  <2>7. QED
    BY <1>8, <2>6
<1>13. frame_len' = Starts(stream')[i + (m + 1)] - (pos' - Len(rxbuf'))
  <2>1. f + z = ((from + f) + z) - from
    OBVIOUS
  <2>2. f + z = (e + z) - from
    BY <1>4, <2>1
  <2>3. s[i + (m + 1)] = e + z
    BY <1>7, <1>11, <1>12
  <2>4. QED
    BY <1>1, <1>5, <1>8, <2>2, <2>3
\* Past the frame, rxbuf is still what was read.
<1>14. ASSUME NEW x \in 1 .. r, x > f + z PROVE rxbuf'[x] = stream[from + x]
  <2>1. PICK c \in Seq(Octets) : c = frame_handle(stream, e) /\ Len(c) = Len(stream)
    <3>1. e + FrameSize(stream, e) <= Len(stream)
      BY <1>11 DEF IsFrame
    <3>2. QED
      BY <1>9, <1>11, <3>1, HandlingKeeps
  <2>2. Alike(rxbuf', f, c, e)
    <3>1. f + FrameHead <= Len(rxbuf) /\ f + FrameSize(rxbuf, f) <= Len(rxbuf)
      BY <1>4, <1>8
    <3>2. QED
      BY <1>8, <1>9, <1>10, <2>1, <3>1, HandlingAlike
  <2>3. PICK y \in 1 .. r - f, w \in Nat, d \in Nat, l \in Nat :
          /\ x = f + y /\ y = z + w /\ w >= 1 /\ d = e + z /\ l = Len(stream) /\ e + y = d + w
          /\ from + x = e + y /\ d + w <= l /\ d <= l
    <3>1. x - f \in 1 .. r - f /\ (x - f) - z \in Nat /\ (x - f) - z >= 1
      BY <1>14
    <3>2. (from + f) + z \in Nat /\ Len(stream) \in Nat
      BY <1>9
    <3>3. from + r <= Len(stream)
      BY <1>5
    <3>4. /\ from + x = (from + f) + (x - f)
          /\ (from + f) + (x - f) = ((from + f) + z) + ((x - f) - z)
          /\ ((from + f) + z) + ((x - f) - z) <= Len(stream) /\ (from + f) + z <= Len(stream)
      BY <1>14, <3>2, <3>3
    <3>5. x = f + (x - f) /\ x - f = z + ((x - f) - z)
      OBVIOUS
    <3>6. QED
      BY <1>4, <3>1, <3>2, <3>4, <3>5
  <2>4. rxbuf'[x] = c[d + w]
    BY <1>8, <2>2, <2>3 DEF Alike
  <2>5. PICK v \in Nat : v = l - d /\ d + v <= Len(stream) /\ d + v <= Len(c) /\ w \in 1 .. v
    <3>1. l - d \in Nat /\ d + (l - d) = l /\ w \in 1 .. l - d
      BY <2>3
    <3>2. d + (l - d) <= Len(stream) /\ d + (l - d) <= Len(c)
      <4>1. l = Len(stream) /\ l = Len(c) /\ l <= l
        BY <2>1, <2>3
      <4>2. QED
        BY <3>1, <4>1
    <3>3. QED
      BY <3>1, <3>2
  <2>6. Bytes(c, d, v) = Bytes(stream, d, v)
    <3>1. i + m \in 1 .. Len(Starts(stream)) - 1 /\ Starts(stream)[i + m] = e /\ Starts(stream)[i + m + 1] = d
      BY <1>4, <1>5, <1>7, <1>11, <1>12, <2>3
    <3>2. Bytes(frame_handle(stream, e), d, Len(stream) - d) = Bytes(stream, d, Len(stream) - d)
      BY <1>2, <3>1 DEF WholeFrames, WellFormed
    <3>3. QED
      BY <2>1, <2>3, <2>5, <3>2
  <2>7. Bytes(c, d, v)[w] = c[d + w]
    <3>1. \A g \in 1 .. v : Bytes(c, d, v)[g] = c[d + g]
      BY <2>5, BytesAre
    <3>2. QED
      BY <2>5, <3>1
  <2>8. Bytes(stream, d, v)[w] = stream[d + w]
    <3>1. \A g \in 1 .. v : Bytes(stream, d, v)[g] = stream[d + g]
      BY <1>9, <2>5, BytesAre
    <3>2. QED
      BY <2>5, <3>1
  <2>9. QED
    BY <2>3, <2>4, <2>6, <2>7, <2>8
<1>15. rxbuf'[1] = STC /\ 5 <= r
  <2>1. PICK h \in Nat : h = FrameHead /\ h >= 5 /\ f + h <= r
    BY <1>8, FramingAssumption
  <2>2. 1 \in 1 .. r /\ 1 <= f + h + 1 /\ 5 <= r
    BY <2>1
  <2>3. rxbuf'[1] = rxbuf[1]
    BY <1>8, <2>1, <2>2
  <2>4. i < j
    BY <1>5, <1>6
  <2>5. QED
    BY <1>3, <2>2, <2>3, <2>4 DEF Lined
\* So it does not begin with "close".
<1>16. pc' = "parse"
  <2>1. Bytes(rxbuf', 0, 5)[1] = rxbuf'[0 + 1]
    <3>1. 0 + 5 <= Len(rxbuf') /\ 1 \in 1 .. 5 /\ 0 \in Nat /\ 5 \in Nat
      BY <1>8, <1>15
    <3>2. PICK b \in Seq(Octets) : b = rxbuf'
      BY <1>8
    <3>3. \A y \in 1 .. 5 : Bytes(b, 0, 5)[y] = b[0 + y]
      BY <3>1, <3>2, BytesAre
    <3>4. QED
      BY <3>1, <3>2, <3>3
  <2>2. Bytes(rxbuf', 0, 5) # Close
    BY <1>15, <2>1 DEF Close, STC
  <2>3. QED
    BY <2>2 DEF Handle
<1>17. PICK k \in Nat, b \in Nat : k = Len(handled) /\ b = before /\ k = b + m /\ m + 1 = (k + 1) - b
  <2>1. PICK k \in Nat, b \in Nat : k = Len(handled) /\ b = before
    BY InvTypes
  <2>2. m = k - b
    BY <1>4, <2>1
  <2>3. k = b + m /\ m + 1 = (k + 1) - b
    BY <2>2
  <2>4. QED
    BY <2>1, <2>3
<1>18. /\ Len(handled') = k + 1 /\ handled'[k + 1] = e
       /\ \A y \in 1 .. k : handled'[y] = handled[y]
  <2>1. (pos - Len(rxbuf)) + found = e /\ handled \in Seq(Nat)
    BY <1>4, <1>5, <1>6, InvTypes
  <2>2. handled' = Append(handled, e)
    BY <1>1, <2>1
  <2>3. /\ Len(Append(handled, e)) = Len(handled) + 1
        /\ Append(handled, e)[Len(handled) + 1] = e
        /\ \A y \in 1 .. Len(handled) : Append(handled, e)[y] = handled[y]
    BY <2>1, AppendProperties
  <2>4. QED
    BY <1>17, <2>2, <2>3
<1>19. Len(handled') - before' = m + 1
  BY <1>1, <1>17, <1>18
<1>20. ASSUME NEW y \in 1 .. m + 1 PROVE handled'[b + y] = s[i + (y - 1)]
  <2>1. CASE y = m + 1
    <3>1. b + y = k + 1 /\ y - 1 = m
      BY <1>17, <2>1
    <3>2. QED
      BY <1>4, <1>18, <3>1
  <2>2. CASE y \in 1 .. m
    <3>1. b + y \in 1 .. k
      BY <1>17, <2>2
    <3>2. handled[b + y] = s[i + (y - 1)]
      BY <1>3, <1>4, <1>5, <1>17, <2>2 DEF Lined
    <3>3. QED
      BY <1>18, <3>1, <3>2
  <2>3. y = m + 1 \/ y \in 1 .. m
    OBVIOUS
  <2>4. QED
    BY <2>1, <2>2, <2>3
<1>21. \A x \in 1 .. Len(rxbuf') : x > frame_len' => rxbuf'[x] = stream'[(pos' - Len(rxbuf')) + x]
  BY <1>1, <1>5, <1>8, <1>14
<1>22. \A y \in 1 .. (Len(handled') - before') : handled'[before' + y] = Starts(stream')[i + (y - 1)]
  BY <1>1, <1>5, <1>17, <1>19, <1>20
<1>23. QED
  BY <1>7, <1>13, <1>15, <1>16, <1>19, <1>21, <1>22 DEF Lined

LEMMA AlignedInductive == Inv /\ Aligned /\ [Next]_vars => Aligned'
<1>1. SUFFICES ASSUME Inv, Aligned, [Next]_vars PROVE Aligned'
  OBVIOUS
<1>2. CASE Read
  BY <1>1, <1>2, AlignedRead
<1>3. CASE Parse
  <2>1. pc = "parse"
    BY <1>3 DEF Parse
  <2>2. QED
    BY <1>1, <1>3, <2>1, AlignedParse
<1>4. CASE Handle
  BY <1>1, <1>4, AlignedHandle
<1>5. CASE UNCHANGED vars
  BY <1>1, <1>5 DEF vars, Aligned, WholeFrames, Lined
<1>6. QED
  BY <1>1, <1>2, <1>3, <1>4, <1>5 DEF Next

LEMMA AlignedIsInOrder == Inv /\ Aligned => FramesInOrder
<1>1. SUFFICES ASSUME Inv, Aligned, pc = "select", Len(raw) < 256, WellFormed(stream),
                      NEW i \in 1 .. Len(Starts(stream)), NEW j \in 1 .. Len(Starts(stream)),
                      Starts(stream)[i] = pos - Len(raw), Starts(stream)[j] = pos
               PROVE  SubSeq(handled, before + 1, Len(handled)) = SubSeq(Starts(stream), i, j - 1)
  BY DEF FramesInOrder
<1>2. i \in Nat /\ j \in Nat /\ WholeFrames(i, j) /\ Lined(i, j)
  <2>1. i \in Nat /\ j \in Nat
    OBVIOUS
  <2>2. WholeFrames(i, j)
    BY <1>1 DEF WholeFrames
  <2>3. QED
    BY <1>1, <2>1, <2>2 DEF Aligned
<1>3. PICK s \in Seq(Nat) : s = Starts(stream)
  BY <1>1, StartsAre, InvTypes DEF Chains
<1>4. PICK n \in Nat, k \in Nat, b \in Nat :
        n = Len(s) /\ k = Len(handled) /\ b = before /\ b <= k /\ handled \in Seq(Nat)
  BY <1>1, <1>3, InvTypes
<1>5. PICK m \in Nat : m = k - b
  <2>1. b <= k
    BY <1>4
  <2>2. k - b \in Nat
    BY <2>1
  <2>3. QED
    BY <2>2
<1>6. i + m = j /\ \A x \in 1 .. m : handled[b + x] = s[i + (x - 1)]
  BY <1>1, <1>2, <1>3, <1>4, <1>5 DEF Lined
<1>7. i \in 1 .. n /\ j \in 1 .. n
  BY <1>3, <1>4
<1>8. PICK c \in Seq(Nat) :
        c = SubSeq(handled, b + 1, k) /\ Len(c) = m /\ \A x \in 1 .. m : c[x] = handled[b + x]
  <2>1. \A x \in b + 1 .. k : handled[x] \in Nat
    BY <1>4
  <2>2. /\ SubSeq(handled, b + 1, k) \in Seq(Nat)
        /\ Len(SubSeq(handled, b + 1, k)) = IF b + 1 <= k THEN k - (b + 1) + 1 ELSE 0
        /\ \A x \in 1 .. k - (b + 1) + 1 : SubSeq(handled, b + 1, k)[x] = handled[(b + 1) + x - 1]
    BY <1>4, <2>1, SubSeqProperties, SMTT(30)
  <2>3. k - (b + 1) + 1 = m /\ m = IF b + 1 <= k THEN k - (b + 1) + 1 ELSE 0
    BY <1>4, <1>5
  <2>4. \A x \in 1 .. m : (b + 1) + x - 1 = b + x
    BY <1>4
  <2>5. PICK c \in Seq(Nat) : c = SubSeq(handled, b + 1, k)
    BY <2>2
  <2>6. Len(c) = m /\ \A x \in 1 .. m : c[x] = handled[(b + 1) + x - 1]
    BY <2>2, <2>3, <2>5
  <2>7. QED
    BY <2>4, <2>5, <2>6, ZenonT(30)
<1>9. PICK d \in Seq(Nat) :
        d = SubSeq(s, i, j - 1) /\ Len(d) = m /\ \A x \in 1 .. m : d[x] = s[i + (x - 1)]
  <2>1. \A x \in i .. j - 1 : s[x] \in Nat
    BY <1>4, <1>7
  <2>2. /\ SubSeq(s, i, j - 1) \in Seq(Nat)
        /\ Len(SubSeq(s, i, j - 1)) = IF i <= j - 1 THEN (j - 1) - i + 1 ELSE 0
        /\ \A x \in 1 .. (j - 1) - i + 1 : SubSeq(s, i, j - 1)[x] = s[i + x - 1]
    BY <2>1, SubSeqProperties
  <2>3. (j - 1) - i + 1 = m /\ m = IF i <= j - 1 THEN (j - 1) - i + 1 ELSE 0
    BY <1>6, <1>7
  <2>4. \A x \in 1 .. m : i + x - 1 = i + (x - 1)
    BY <1>7
  <2>5. QED
    BY <2>2, <2>3, <2>4
<1>10. \A x \in 1 .. m : c[x] = d[x]
  BY <1>6, <1>8, <1>9
<1>11. c = d
  BY <1>8, <1>9, <1>10, SeqEqual
<1>12. QED
  BY <1>3, <1>4, <1>8, <1>9, <1>11

\* Of a read of fewer than 256 bytes that is nothing but whole frames, none of them
\* answered by more than its own bytes, each is handled, once, and in the order they
\* came, however many they are and whatever they hold.
THEOREM EachFrameInOrder == Spec => []FramesInOrder
BY InvInit, InvInductive, AlignedInit, AlignedInductive, AlignedIsInOrder, PTL DEF Spec
-----------------------------------------------------------------------------
(***************************************************************************)
(* Which streams those are: an item that is accepted is answered by        *)
(* itself, and an error takes no more than the five bytes from the item    *)
(* on, so that the answers stay in the frame if every item that is refused *)
(* has two bytes of data.                                                  *)
(***************************************************************************)
Roomy(o, src) ==
  \/ Whole(o, src) /\ ErrorOf(o, src) = 0
  \/ o.next + 5 <= Len(src) /\ ItemSize(o, src) >= 5

\* Nothing after the data is written, in b or behind it, and no answer is further
\* on than its item.
Inside(o, b, p, n) ==
  /\ o.p <= p + o.next /\ o.top <= p + n
  /\ \A x \in 1 .. Len(b) : x > p + n => o.b[x] = b[x]

LEMMA OverwriteInside ==
  ASSUME NEW b \in Seq(Octets), NEW p \in Nat, NEW s \in Seq(Octets), NEW m \in Nat, p + Len(s) <= m
  PROVE  \A x \in 1 .. Len(b) : x > m => Overwrite(b, p, s)[x] = b[x]
<1>1. \A k \in 1 .. Len(b) : Overwrite(b, p, s)[k] =
        IF k - 1 \in p .. (p + Len(s) - 1) THEN s[k - p] ELSE b[k]
  BY OverwriteIs
<1>2. ASSUME NEW x \in 1 .. Len(b), x > m PROVE x - 1 \notin p .. (p + Len(s) - 1)
  <2>1. PICK l \in Nat : l = Len(s) /\ p + l <= m
    OBVIOUS
  <2>2. x - 1 \notin p .. (p + l - 1)
    BY <1>2, <2>1
  <2>3. QED
    BY <2>1, <2>2
<1>3. QED
  BY <1>1, <1>2

LEMMA ItemInside ==
  ASSUME NEW b \in Seq(Octets), NEW p \in Nat, NEW n \in Nat, NEW src \in Seq(Octets), Len(src) = n,
         NEW o \in Results(b, p, n), n - o.next >= 3, Inside(o, b, p, n), Roomy(o, src)
  PROVE  Inside(Item(o, src), b, p, n)
<1>0. PICK t \in Nat : t = o.top /\ t <= p + n
  BY DEF Results, Inside
<1>1. PICK q \in Nat, r \in 0 .. n, c \in Seq(Octets) :
        /\ q = o.p /\ r = o.next /\ c = o.b /\ Len(c) = Len(b) /\ q <= p + r /\ r + 3 <= n
        /\ \A x \in 1 .. Len(b) : x > p + n => c[x] = b[x]
  <2>1. PICK q \in Nat, r \in 0 .. n, c \in Seq(Octets) : q = o.p /\ r = o.next /\ c = o.b /\ Len(c) = Len(b)
    BY DEF Results
  <2>2. n - r >= 3
    BY <2>1
  <2>3. r + 3 <= n
    BY <2>2
  <2>4. q <= p + r /\ \A x \in 1 .. Len(b) : x > p + n => c[x] = b[x]
    BY <2>1 DEF Inside
  <2>5. QED
    BY <2>1, <2>3, <2>4
<1>2. PICK m \in 3 .. 130 : m = ItemSize(o, src)
  BY ItemCases
\* What is written at q stays inside, if it is no longer than the item or its rest.
<1>3. ASSUME NEW s \in Seq(Octets), NEW u \in Nat, q <= u, u + Len(s) <= q + (n - r), NEW d \in Seq(Octets),
             Len(d) = Len(b), \A x \in 1 .. Len(b) : x > p + n => d[x] = b[x]
      PROVE  /\ Overwrite(d, u, s) \in Seq(Octets) /\ Len(Overwrite(d, u, s)) = Len(b)
             /\ \A x \in 1 .. Len(b) : x > p + n => Overwrite(d, u, s)[x] = b[x]
  <2>1. u + Len(s) <= p + n /\ p + n \in Nat
    <3>1. PICK l \in Nat : l = Len(s)
      OBVIOUS
    <3>2. u + l <= q + (n - r) /\ q <= p + r
      BY <1>1, <1>3, <3>1
    <3>3. u + l <= p + n
      BY <3>2
    <3>4. QED
      BY <3>1, <3>3
  <2>2. \A x \in 1 .. Len(d) : x > p + n => Overwrite(d, u, s)[x] = d[x]
    BY <2>1, OverwriteInside
  <2>3. Overwrite(d, u, s) \in Seq(Octets) /\ Len(Overwrite(d, u, s)) = Len(d)
    BY OverwriteIs
  <2>4. QED
    BY <1>3, <2>2, <2>3
<1>4. ASSUME NEW e \in Octets, NEW d \in Seq(Octets), r + 5 <= n,
             Len(d) = Len(b), \A x \in 1 .. Len(b) : x > p + n => d[x] = b[x]
      PROVE  \A x \in 1 .. Len(b) : x > p + n => WithError(d, q, e)[x] = b[x]
  <2> DEFINE s == <<130, e, 0>>
  <2>1. s \in Seq(Octets) /\ Len(s) = 3
    BY DEF Octets
  <2>2. WithError(d, q, e) = Overwrite(d, q + 2, s)
    BY DEF WithError
  <2> HIDE DEF s
  <2>3. q + 2 \in Nat /\ q <= q + 2 /\ (q + 2) + 3 <= q + (n - r)
    BY <1>4
  <2>4. (q + 2) + Len(s) <= q + (n - r)
    BY <2>1, <2>3
  <2>5. \A x \in 1 .. Len(b) : x > p + n => Overwrite(d, q + 2, s)[x] = b[x]
    BY <1>3, <1>4, <2>1, <2>3, <2>4
  <2>6. QED
    BY <2>2, <2>5
<1>5. CASE Whole(o, src)
  <2>1. r + m <= n
    <3>1. r + m = o.next + ItemSize(o, src)
      BY <1>1, <1>2
    <3>2. o.next + ItemSize(o, src) <= Len(src)
      BY <1>5 DEF Whole
    <3>3. QED
      BY <3>1, <3>2
  <2>2. PICK s \in Seq(Octets) : s = Bytes(src, r, m) /\ Len(s) = m
    <3>1. r + m <= Len(src) /\ m \in Nat /\ r \in Nat
      BY <2>1
    <3>2. Bytes(src, r, m) \in Seq(Octets) /\ Len(Bytes(src, r, m)) = m
      BY <3>1, BytesAre
    <3>3. QED
      BY <3>2
  <2>3. PICK d \in Seq(Octets) :
          /\ d = Copied(o, src) /\ Len(d) = Len(b) /\ \A x \in 1 .. Len(b) : x > p + n => d[x] = b[x]
    <3>1. q + m <= q + (n - r) /\ q <= q
      BY <2>1
    <3>2. q + Len(s) <= q + (n - r)
      BY <2>2, <3>1
    <3>3. Copied(o, src) = Overwrite(c, q, s)
      BY <1>1, <1>2, <2>2 DEF Copied
    <3>4. Len(c) = Len(b) /\ \A x \in 1 .. Len(b) : x > p + n => c[x] = b[x]
      BY <1>1
    <3>5. /\ Overwrite(c, q, s) \in Seq(Octets) /\ Len(Overwrite(c, q, s)) = Len(b)
          /\ \A x \in 1 .. Len(b) : x > p + n => Overwrite(c, q, s)[x] = b[x]
      BY <1>3, <3>1, <3>2, <3>4
    <3>6. QED
      BY <3>3, <3>5
  <2>4. CASE ErrorOf(o, src) = 0
    <3>1. Item(o, src) = [b |-> d, p |-> q + m, next |-> r + m, top |-> Further(t, q + m)]
      <4>1. Item(o, src) = Accepted(o, src)
        BY <1>5, <2>4, ItemCases
      <4>2. QED
        BY <1>0, <1>1, <1>2, <2>3, <4>1 DEF Accepted
    <3>2. q + m <= p + (r + m) /\ Further(t, q + m) <= p + n
      <4>1. q <= p + r /\ t <= p + n /\ r + m <= n
        BY <1>0, <1>1, <2>1
      <4>2. q + m <= p + (r + m) /\ q + m <= p + n
        BY <4>1
      <4>3. QED
        BY <4>1, <4>2 DEF Further
    <3>3. /\ Item(o, src).b = d /\ Item(o, src).p = q + m
          /\ Item(o, src).next = r + m /\ Item(o, src).top = Further(t, q + m)
      BY <3>1
    <3>4. Item(o, src).p <= p + Item(o, src).next /\ Item(o, src).top <= p + n
      BY <3>2, <3>3
    <3>5. \A x \in 1 .. Len(b) : x > p + n => Item(o, src).b[x] = b[x]
      BY <2>3, <3>3
    <3>6. QED
      BY <3>4, <3>5 DEF Inside
  <2>5. CASE ErrorOf(o, src) # 0
    <3>1. PICK e \in Octets : e = ErrorOf(o, src)
      <4>1. ErrorOf(o, src) \in {0, 3, 4}
        BY AnswerIs DEF ErrorOf
      <4>2. ErrorOf(o, src) \in Octets
        BY <4>1 DEF Octets
      <4>3. QED
        BY <4>2
    <3>2. Item(o, src) = [b |-> WithError(d, q, e), p |-> q + 5, next |-> r + m,
                          top |-> Further(Further(t, q + m), q + 5)]
      <4>1. Item(o, src) = Refused(o, src)
        BY <1>5, <2>5, ItemCases
      <4>2. QED
        BY <1>0, <1>1, <1>2, <2>3, <3>1, <4>1 DEF Refused
    <3>3. r + 5 <= n /\ m >= 5
      BY <1>1, <1>2, <2>5 DEF Roomy
    <3>4. q + 5 <= p + (r + m) /\ Further(Further(t, q + m), q + 5) <= p + n
      <4>1. q <= p + r /\ m >= 5 /\ t <= p + n /\ r + m <= n
        BY <1>0, <1>1, <2>1, <3>3
      <4>2. QED
        BY <4>1 DEF Further
    <3>5. \A x \in 1 .. Len(b) : x > p + n => WithError(d, q, e)[x] = b[x]
      BY <1>4, <2>3, <3>3
    <3>6. /\ Item(o, src).b = WithError(d, q, e) /\ Item(o, src).p = q + 5
          /\ Item(o, src).next = r + m /\ Item(o, src).top = Further(Further(t, q + m), q + 5)
      BY <3>2
    <3>7. Item(o, src).p <= p + Item(o, src).next /\ Item(o, src).top <= p + n
      BY <3>4, <3>6
    <3>8. \A x \in 1 .. Len(b) : x > p + n => Item(o, src).b[x] = b[x]
      BY <3>5, <3>6
    <3>9. QED
      BY <3>7, <3>8 DEF Inside
  <2>6. QED
    BY <2>4, <2>5
<1>6. CASE ~Whole(o, src)
  <2>1. r + 5 <= n
    BY <1>1, <1>6 DEF Roomy
  <2>2. PICK s \in Seq(Octets) : s = Bytes(src, r, 2) /\ Len(s) = 2
    <3>1. r + 2 <= Len(src) /\ 2 \in Nat /\ r \in Nat
      BY <2>1
    <3>2. Bytes(src, r, 2) \in Seq(Octets) /\ Len(Bytes(src, r, 2)) = 2
      BY <3>1, BytesAre
    <3>3. QED
      BY <3>2
  <2>3. PICK d \in Seq(Octets) :
          d = Overwrite(c, q, s) /\ Len(d) = Len(b) /\ \A x \in 1 .. Len(b) : x > p + n => d[x] = b[x]
    <3>1. q + 2 <= q + (n - r) /\ q <= q
      BY <2>1
    <3>2. q + Len(s) <= q + (n - r)
      BY <2>2, <3>1
    <3>3. Len(c) = Len(b) /\ \A x \in 1 .. Len(b) : x > p + n => c[x] = b[x]
      BY <1>1
    <3>4. /\ Overwrite(c, q, s) \in Seq(Octets) /\ Len(Overwrite(c, q, s)) = Len(b)
          /\ \A x \in 1 .. Len(b) : x > p + n => Overwrite(c, q, s)[x] = b[x]
      BY <1>3, <3>1, <3>2, <3>3
    <3>5. QED
      BY <3>4
  <2>4. Item(o, src) = [b |-> WithError(d, q, 1), p |-> q + 5, next |-> n,
                        top |-> Further(t, q + 5)]
    <3>1. Item(o, src) = CutItem(o, src)
      BY <1>6, ItemCases
    <3>2. QED
      BY <1>0, <1>1, <2>2, <2>3, <3>1 DEF CutItem
  <2>5. q + 5 <= p + n /\ Further(t, q + 5) <= p + n
    <3>1. q <= p + r /\ r + 5 <= n /\ t <= p + n
      BY <1>0, <1>1, <2>1
    <3>2. QED
      BY <3>1 DEF Further
  <2>6. \A x \in 1 .. Len(b) : x > p + n => WithError(d, q, 1)[x] = b[x]
    <3>1. 1 \in Octets
      BY DEF Octets
    <3>2. QED
      BY <1>4, <2>1, <2>3, <3>1
  <2>7. QED
    BY <2>4, <2>5, <2>6 DEF Inside
<1>7. QED
  BY <1>5, <1>6

\* set_parameter's answers to n bytes of data leave what comes after them alone, in any
\* buffer and behind it, if each item they reach is accepted or has two bytes of data:
\* only a refused item with less of it makes the answer run into the next frame, or past
\* what was read.
THEOREM AnswersStayInside ==
  ASSUME NEW b \in Seq(Octets), NEW p \in Nat, NEW n \in Nat, p + n <= Len(b),
         \A k \in 0 .. n \div 3 : n - Items(b, p, n)[k].next >= 3 =>
                                    Roomy(Items(b, p, n)[k], Bytes(b, p, n))
  PROVE  /\ AnswerTop(b, p, n) <= p + n
         /\ \A x \in 1 .. Len(b) : x > p + n => set_parameter(b, p, n)[x] = b[x]
<1> DEFINE m == n \div 3
           I == Items(b, p, n)
<1>1. PICK src \in Seq(Octets) : src = Bytes(b, p, n) /\ Len(src) = n
  BY BytesAre
<1>2. m \in Nat
  OBVIOUS
<1>3. I[0] = [b |-> b, p |-> p, next |-> 0, top |-> p]
  BY ItemsAre
<1>4. \A k \in 1 .. m : I[k] = IF n - I[k - 1].next < 3 THEN I[k - 1] ELSE Item(I[k - 1], src)
  BY <1>1, ItemsAre
<1>5. \A k \in 0 .. m : I[k] \in Results(b, p, n) /\ (n - I[k].next >= 3 => Roomy(I[k], src))
  BY <1>1, ItemsAre
<1>6. set_parameter(b, p, n) = I[m].b /\ AnswerTop(b, p, n) = I[m].top
  BY DEF set_parameter, AnswerTop
<1> HIDE DEF m, I
<1> DEFINE A == {k \in 0 .. m : Inside(I[k], b, p, n)}
<1>7. 0 \in A
  <2>1. I[0].b = b /\ I[0].p = p /\ I[0].next = 0 /\ I[0].top = p
    BY <1>3
  <2>2. p <= p + 0 /\ p <= p + n
    OBVIOUS
  <2>3. Inside(I[0], b, p, n)
    BY <2>1, <2>2 DEF Inside
  <2>4. QED
    BY <1>2, <2>3
<1>8. ASSUME NEW k \in 0 .. m - 1, k \in A PROVE k + 1 \in A
  <2>1. k + 1 \in 1 .. m /\ k + 1 \in 0 .. m /\ k \in 0 .. m /\ (k + 1) - 1 = k
    BY <1>2
  <2>2. PICK o \in Results(b, p, n) : o = I[k] /\ Inside(o, b, p, n) /\ (n - o.next >= 3 => Roomy(o, src))
    BY <1>5, <1>8, <2>1
  <2>3. I[k + 1] = IF n - o.next < 3 THEN o ELSE Item(o, src)
    BY <1>4, <2>1, <2>2
  <2>4. PICK y \in 0 .. n : y = o.next
    BY <2>2 DEF Results
  <2>5. CASE n - y < 3
    BY <2>1, <2>2, <2>3, <2>4, <2>5
  <2>6. CASE n - y >= 3
    <3>1. Inside(Item(o, src), b, p, n)
      BY <1>1, <2>2, <2>4, <2>6, ItemInside
    <3>2. ~(n - y < 3)
      BY <2>6
    <3>3. QED
      BY <2>1, <2>3, <2>4, <3>1, <3>2
  <2>7. QED
    BY <2>5, <2>6
<1>9. m \in A
  <2> HIDE DEF A
  <2>1. 0 .. m \subseteq A
    BY <1>2, <1>7, <1>8, InductTo
  <2>2. QED
    BY <1>2, <2>1
<1>10. QED
  BY <1>6, <1>9 DEF Inside
=============================================================================
