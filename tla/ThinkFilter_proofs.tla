------------------------- MODULE ThinkFilter_proofs -------------------------
(***************************************************************************)
(* For all tags, all answers and every cut of them into chunks: what the   *)
(* filter shows is the visible text, and it holds back less than a tag.    *)
(***************************************************************************)
EXTENDS ThinkFilter, SequenceTheorems, FiniteSetTheorems, WellFoundedInduction, TLAPS

Strings == Seq(Characters)

-----------------------------------------------------------------------------
(* Least and greatest numbers.                                              *)

LEMMA LeastNatural ==
  ASSUME NEW T \in SUBSET Nat, T # {}
  PROVE  \E m \in T : \A n \in T : m <= n
<1> DEFINE R == {p \in Nat \X Nat : p[1] < p[2]}
<1>1. IsWellFoundedOn(R, Nat)
  BY NatLessThanWellFounded DEF OpToRel
<1>2. PICK m \in T : \A n \in T : <<n, m>> \notin R
  BY <1>1, WFMin
<1> SUFFICES ASSUME NEW n \in T PROVE m <= n
  OBVIOUS
<1>3. <<n, m>> \notin R
  BY <1>2
<1>4. m \in Nat /\ n \in Nat
  OBVIOUS
<1>5. ~(n < m)
  BY <1>3, <1>4
<1> QED
  BY <1>4, <1>5

LEMMA MinIsLeast ==
  ASSUME NEW T \in SUBSET Nat, T # {}
  PROVE  Min(T) \in T /\ \A n \in T : Min(T) <= n
<1>1. \E m \in T : \A n \in T : m <= n
  BY LeastNatural
<1> QED
  BY <1>1 DEF Min

LEMMA MaxIsGreatest ==
  ASSUME NEW N \in Nat, NEW T \in SUBSET (0 .. N), T # {}
  PROVE  Max(T) \in T /\ \A n \in T : n <= Max(T)
<1> DEFINE U == {N - n : n \in T}
<1>1. U \in SUBSET Nat /\ U # {}
  <2>1. \A n \in T : N - n \in Nat
    OBVIOUS
  <2>2. PICK n \in T : TRUE
    OBVIOUS
  <2>3. N - n \in U
    OBVIOUS
  <2>4. U \in SUBSET Nat
    BY <2>1, Zenon
  <2> QED
    BY <2>3, <2>4, Zenon
<1>2. PICK m \in U : \A n \in U : m <= n
  <2> HIDE DEF U
  <2> QED
    BY <1>1, LeastNatural
<1>3. PICK k \in T : m = N - k
  OBVIOUS
<1>4. \A n \in T : n <= k
  <2> SUFFICES ASSUME NEW n \in T PROVE n <= k
    OBVIOUS
  <2>1. N - n \in U
    OBVIOUS
  <2>2. m <= N - n
    BY <1>2, <2>1
  <2> QED
    BY <1>3, <2>2
<1>5. \A n \in T : k >= n
  BY <1>4
<1>6. \E x \in T : \A y \in T : x >= y
  BY <1>5
<1>7. Max(T) \in T /\ \A n \in T : Max(T) >= n
  BY <1>6 DEF Max
<1> QED
  BY <1>7

-----------------------------------------------------------------------------
(* Parts of strings.                                                        *)

\* The part of s from p to q
LEMMA Slice ==
  ASSUME NEW s \in Strings, NEW q \in 0 .. Len(s), NEW p \in 1 .. q + 1
  PROVE  /\ SubSeq(s, p, q) \in Strings
         /\ Len(SubSeq(s, p, q)) = q - p + 1
         /\ \A i \in 1 .. q - p + 1 : SubSeq(s, p, q)[i] = s[p + i - 1]
<1>1. \A i \in p .. q : s[i] \in Characters
  BY ElementOfSeq DEF Strings
<1>2. p \in Int /\ q \in Int
  BY LenProperties DEF Strings
<1> QED
  BY <1>1, <1>2, SubSeqProperties DEF Strings

LEMMA SliceOfSlice ==
  ASSUME NEW s \in Strings, NEW q \in 0 .. Len(s), NEW p \in 1 .. q + 1,
         NEW j \in 0 .. q - p + 1, NEW i \in 1 .. j + 1
  PROVE  SubSeq(SubSeq(s, p, q), i, j) = SubSeq(s, p + i - 1, p + j - 1)
<1> DEFINE b == SubSeq(s, p, q)
           c == SubSeq(b, i, j)
           d == SubSeq(s, p + i - 1, p + j - 1)
<1>0. Len(s) \in Nat
  BY LenProperties DEF Strings
<1>1. /\ b \in Strings /\ Len(b) = q - p + 1
      /\ \A k \in 1 .. q - p + 1 : b[k] = s[p + k - 1]
  BY Slice
<1>2. p + j - 1 \in 0 .. Len(s) /\ p + i - 1 \in 1 .. (p + j - 1) + 1
  BY <1>0
<1>3. /\ d \in Strings /\ Len(d) = j - i + 1
      /\ \A k \in 1 .. j - i + 1 : d[k] = s[(p + i - 1) + k - 1]
  BY <1>2, Slice
<1> HIDE DEF b, d
<1>4. /\ c \in Strings /\ Len(c) = j - i + 1
      /\ \A k \in 1 .. j - i + 1 : c[k] = b[i + k - 1]
  BY <1>1, Slice
<1> HIDE DEF c
<1>5. \A k \in 1 .. j - i + 1 : c[k] = d[k]
  <2> SUFFICES ASSUME NEW k \in 1 .. j - i + 1 PROVE c[k] = d[k]
    OBVIOUS
  <2>1. i + k - 1 \in 1 .. q - p + 1 /\ p + (i + k - 1) - 1 = (p + i - 1) + k - 1
    BY <1>0
  <2> QED
    BY <1>1, <1>3, <1>4, <2>1
<1>6. c = d
  BY <1>3, <1>4, <1>5, SeqEqual DEF Strings
<1> QED
  BY <1>6 DEF b, c, d

LEMMA Associative ==
  ASSUME NEW a \in Strings, NEW b \in Strings, NEW c \in Strings
  PROVE  (a \o b) \o c = a \o (b \o c)
BY ConcatAssociative DEF Strings

LEMMA Joined ==
  ASSUME NEW a \in Strings, NEW b \in Strings
  PROVE  a \o b \in Strings /\ Len(a \o b) = Len(a) + Len(b)
BY ConcatProperties DEF Strings

LEMMA Adjacent ==
  ASSUME NEW s \in Strings, NEW r \in 0 .. Len(s), NEW q \in 0 .. r, NEW p \in 1 .. q + 1
  PROVE  SubSeq(s, p, q) \o SubSeq(s, q + 1, r) = SubSeq(s, p, r)
<1>1. Len(s) \in Nat
  BY LenProperties DEF Strings
<1>2. p \in 1 .. Len(s) + 1 /\ q \in p - 1 .. Len(s) /\ r \in q .. Len(s)
  BY <1>1
<1> QED
  BY <1>2, ConcatAdjacentSubSeq DEF Strings

-----------------------------------------------------------------------------
(* Tags.                                                                    *)

Tags == {OpenTag, CloseTag}

LEMMA TagIs ==
  ASSUME NEW tag \in Tags
  PROVE  tag \in Strings /\ Len(tag) \in Nat \ {0}
BY ThinkFilterAssumption, EmptySeq DEF Tags, Strings

LEMMA OccursIs ==
  ASSUME NEW s \in Strings, NEW tag \in Tags, NEW i \in Nat \ {0}
  PROVE  Occurs(s, tag, i)
           <=> /\ i + Len(tag) - 1 <= Len(s)
               /\ \A j \in 1 .. Len(tag) : s[i + j - 1] = tag[j]
<1>0. Len(s) \in Nat /\ tag \in Strings /\ Len(tag) \in Nat \ {0}
  BY TagIs, LenProperties DEF Strings
<1> SUFFICES ASSUME i + Len(tag) - 1 <= Len(s)
             PROVE  SubSeq(s, i, i + Len(tag) - 1) = tag
                      <=> \A j \in 1 .. Len(tag) : s[i + j - 1] = tag[j]
  BY DEF Occurs
<1> DEFINE q == i + Len(tag) - 1
           b == SubSeq(s, i, q)
<1>1. q \in 0 .. Len(s) /\ i \in 1 .. q + 1
  BY <1>0
<1>2. /\ b \in Strings /\ Len(b) = Len(tag)
      /\ \A j \in 1 .. Len(tag) : b[j] = s[i + j - 1]
  <2>1. q - i + 1 = Len(tag)
    BY <1>0
  <2> HIDE DEF q
  <2> QED
    BY <1>1, <2>1, Slice
<1> HIDE DEF q, b
<1>3. (\A j \in 1 .. Len(tag) : b[j] = tag[j]) => b = tag
  BY <1>0, <1>2, SeqEqual DEF Strings
<1>4. b = tag <=> \A j \in 1 .. Len(tag) : s[i + j - 1] = tag[j]
  BY <1>2, <1>3
<1> QED
  BY <1>4 DEF q, b

\* A tag in a part of a string is a tag in the string.
LEMMA SliceOccurs ==
  ASSUME NEW s \in Strings, NEW q \in 0 .. Len(s), NEW p \in 1 .. q + 1,
         NEW tag \in Tags, NEW i \in Nat \ {0}
  PROVE  Occurs(SubSeq(s, p, q), tag, i)
           <=> Occurs(s, tag, p + i - 1) /\ p + i - 1 + Len(tag) - 1 <= q
<1> DEFINE b == SubSeq(s, p, q)
<1>0. Len(s) \in Nat /\ Len(tag) \in Nat \ {0} /\ p + i - 1 \in Nat \ {0}
  BY TagIs, LenProperties DEF Strings
<1>1. /\ b \in Strings /\ Len(b) = q - p + 1
      /\ \A j \in 1 .. q - p + 1 : b[j] = s[p + j - 1]
  BY Slice
<1> HIDE DEF b
<1>2. Occurs(b, tag, i)
        <=> /\ i + Len(tag) - 1 <= Len(b)
            /\ \A j \in 1 .. Len(tag) : b[i + j - 1] = tag[j]
  BY <1>1, OccursIs
<1>3. Occurs(s, tag, p + i - 1)
        <=> /\ p + i - 1 + Len(tag) - 1 <= Len(s)
            /\ \A j \in 1 .. Len(tag) : s[(p + i - 1) + j - 1] = tag[j]
  BY <1>0, OccursIs
<1>4. ASSUME i + Len(tag) - 1 <= q - p + 1, NEW j \in 1 .. Len(tag)
      PROVE  b[i + j - 1] = s[(p + i - 1) + j - 1]
  <2>1. i + j - 1 \in 1 .. q - p + 1 /\ p + (i + j - 1) - 1 = (p + i - 1) + j - 1
    BY <1>0, <1>4
  <2> QED
    BY <1>1, <2>1
<1>5. /\ i + Len(tag) - 1 <= q - p + 1 <=> p + i - 1 + Len(tag) - 1 <= q
      /\ p + i - 1 + Len(tag) - 1 <= q => p + i - 1 + Len(tag) - 1 <= Len(s)
  BY <1>0
<1>6. Occurs(b, tag, i) <=> Occurs(s, tag, p + i - 1) /\ p + i - 1 + Len(tag) - 1 <= q
  BY <1>1, <1>2, <1>3, <1>4, <1>5
<1> QED
  BY <1>6 DEF b

\* What the buffer keeps: less than the tag, and every beginning of it that
\* the buffer ends with.
LEMMA OverlapIs ==
  ASSUME NEW b \in Strings, NEW tag \in Tags
  PROVE  /\ Overlap(b, tag) \in 0 .. Len(tag) - 1 /\ Overlap(b, tag) <= Len(b)
         /\ \A n \in 1 .. Len(tag) - 1 :
              n <= Len(b) /\ (\A j \in 1 .. n : b[Len(b) - n + j] = tag[j])
                => n <= Overlap(b, tag)
<1>0. Len(b) \in Nat /\ tag \in Strings /\ Len(tag) \in Nat \ {0}
  BY TagIs, LenProperties DEF Strings
<1> DEFINE S == {n \in 1 .. Len(tag) - 1 : n <= Len(b) /\ IsSuffix(SubSeq(tag, 1, n), b)}
           T == {0} \cup S
<1>1. Max(T) \in T /\ \A n \in T : n <= Max(T)
  <2>1. T \in SUBSET (0 .. Len(tag) - 1) /\ T # {} /\ Len(tag) - 1 \in Nat
    BY <1>0
  <2> HIDE DEF T
  <2> QED
    BY <2>1, MaxIsGreatest
<1>2. Overlap(b, tag) = Max(T)
  BY DEF Overlap
<1>3. Max(T) \in 0 .. Len(tag) - 1 /\ Max(T) <= Len(b)
  <2>1. CASE Max(T) = 0
    BY <1>0, <2>1
  <2>2. CASE Max(T) \in S
    BY <1>0, <2>2
  <2> QED
    BY <1>1, <2>1, <2>2
<1>4. ASSUME NEW n \in 1 .. Len(tag) - 1, n <= Len(b),
             \A j \in 1 .. n : b[Len(b) - n + j] = tag[j]
      PROVE  IsSuffix(SubSeq(tag, 1, n), b)
  <2> DEFINE c == SubSeq(tag, 1, n)
             rc == Reverse(c)
             rb == Reverse(b)
  <2>1. c \in Strings /\ Len(c) = n /\ \A j \in 1 .. n : c[j] = tag[j]
    <3>1. n \in 0 .. Len(tag) /\ 1 \in 1 .. n + 1
      BY <1>0
    <3>2. /\ c \in Strings /\ Len(c) = n - 1 + 1
          /\ \A j \in 1 .. n - 1 + 1 : c[j] = tag[1 + j - 1]
      BY <1>0, <3>1, Slice
    <3> QED
      BY <3>1, <3>2
  <2> HIDE DEF c
  <2>2. rb \in Strings /\ Len(rb) = Len(b) /\ \A j \in 1 .. Len(b) : rb[j] = b[(Len(b) - j) + 1]
    BY <1>0 DEF Reverse, Strings
  <2>3. rc \in Strings /\ Len(rc) = n /\ \A j \in 1 .. n : rc[j] = c[(n - j) + 1]
    BY <2>1 DEF Reverse, Strings
  <2> HIDE DEF rc, rb
  <2>4. \A j \in 1 .. n : rc[j] = rb[j]
    <3> SUFFICES ASSUME NEW j \in 1 .. n PROVE rc[j] = rb[j]
      OBVIOUS
    <3>1. (n - j) + 1 \in 1 .. n /\ Len(b) - n + ((n - j) + 1) = (Len(b) - j) + 1 /\ j \in 1 .. Len(b)
      BY <1>0, <1>4
    <3>2. b[Len(b) - n + ((n - j) + 1)] = tag[(n - j) + 1]
      BY <1>4, <3>1
    <3> QED
      BY <2>1, <2>2, <2>3, <3>1, <3>2
  <2>5. SubSeq(rc, 1, n) = rc
    BY <2>3, SubSeqFull DEF Strings
  <2>6. SubSeq(rb, 1, n) = rc
    <3>1. n \in 0 .. Len(rb) /\ 1 \in 1 .. n + 1
      BY <1>0, <1>4, <2>2
    <3>2. /\ SubSeq(rb, 1, n) \in Strings /\ Len(SubSeq(rb, 1, n)) = n - 1 + 1
          /\ \A j \in 1 .. n - 1 + 1 : SubSeq(rb, 1, n)[j] = rb[1 + j - 1]
      BY <2>2, <3>1, Slice
    <3>3. \A j \in 1 .. n : SubSeq(rb, 1, n)[j] = rc[j]
      BY <2>4, <3>2
    <3>4. Len(SubSeq(rb, 1, n)) = Len(rc)
      BY <2>3, <3>2
    <3> QED
      BY <2>3, <3>2, <3>3, <3>4, SeqEqual DEF Strings
  <2> QED
    BY <1>4, <2>2, <2>3, <2>5, <2>6 DEF IsSuffix, IsPrefix, rc, rb, c
<1> HIDE DEF T
<1>5. ASSUME NEW n \in 1 .. Len(tag) - 1, n <= Len(b),
             \A j \in 1 .. n : b[Len(b) - n + j] = tag[j]
      PROVE  n <= Max(T)
  <2>1. n \in T
    BY <1>4, <1>5 DEF T
  <2> QED
    BY <1>1, <2>1
<1> QED
  BY <1>2, <1>3, <1>5

-----------------------------------------------------------------------------
(* The visible text is well defined: each place depends on later ones only, *)
(* so the function exists from the end of the text on.                      *)

\* What is visible from i on, by what is visible from later places on
VisibleAt(V, s, i) ==
  IF i > Len(s) THEN <<>>
  ELSE IF ~Occurs(s, OpenTag, i) THEN <<s[i]>> \o V[i + 1]
  ELSE IF Ends(s, i) = {} THEN <<>> ELSE V[Min(Ends(s, i))]

LEMMA EndsLater ==
  ASSUME NEW s \in Strings, NEW i \in 1 .. Len(s)
  PROVE  /\ Ends(s, i) \subseteq i + 1 .. Len(s) + 1
         /\ Ends(s, i) # {} => /\ Min(Ends(s, i)) \in Ends(s, i)
                               /\ \A j \in Ends(s, i) : Min(Ends(s, i)) <= j
<1>0. /\ Len(s) \in Nat /\ Len(OpenTag) \in Nat \ {0} /\ Len(CloseTag) \in Nat \ {0}
      /\ CloseTag \in Tags
  BY TagIs, LenProperties DEF Strings, Tags
<1>1. ASSUME NEW e \in Ends(s, i) PROVE e \in i + 1 .. Len(s) + 1
  <2>1. PICK k \in Finds(s, CloseTag) : k >= i + Len(OpenTag) /\ e = k + Len(CloseTag)
    BY DEF Ends
  <2>2. k \in 1 .. Len(s) /\ k + Len(CloseTag) - 1 <= Len(s)
    BY <2>1 DEF Finds, Occurs
  <2> QED
    BY <1>0, <2>1, <2>2
<1>2. Ends(s, i) \in SUBSET Nat
  BY <1>0, <1>1
<1> QED
  BY <1>1, <1>2, MinIsLeast

LEMMA VisibleAtLocal ==
  ASSUME NEW s \in Strings, NEW i \in 1 .. Len(s) + 1, NEW g, NEW h,
         \A j \in i + 1 .. Len(s) + 1 : g[j] = h[j]
  PROVE  VisibleAt(g, s, i) = VisibleAt(h, s, i)
<1>0. Len(s) \in Nat
  BY LenProperties DEF Strings
<1>1. CASE i > Len(s)
  BY <1>1 DEF VisibleAt
<1>2. CASE ~(i > Len(s))
  <2>1. i \in 1 .. Len(s) /\ i + 1 \in i + 1 .. Len(s) + 1
    BY <1>0, <1>2
  <2>2. g[i + 1] = h[i + 1]
    BY <2>1
  <2>3. Ends(s, i) # {} => Min(Ends(s, i)) \in i + 1 .. Len(s) + 1
    BY <2>1, EndsLater
  <2>4. Ends(s, i) # {} => g[Min(Ends(s, i))] = h[Min(Ends(s, i))]
    BY <2>3
  <2> QED
    BY <2>2, <2>4 DEF VisibleAt
<1> QED
  BY <1>1, <1>2

LEMMA VisibleFromIs ==
  ASSUME NEW s \in Strings
  PROVE  VisibleFrom(s) = [i \in 1 .. Len(s) + 1 |-> VisibleAt(VisibleFrom(s), s, i)]
<1>0. Len(s) \in Nat
  BY LenProperties DEF Strings
<1> DEFINE L == Len(s)
           D(k) == L + 1 - k .. L + 1
           P(g, k) == g = [i \in D(k) |-> VisibleAt(g, s, i)]
           Bad == {k \in 0 .. L : ~ \E g : P(g, k)}
<1>1. Bad = {}
  <2> SUFFICES ASSUME Bad # {} PROVE FALSE
    OBVIOUS
  <2>1. PICK m \in Bad : \A k \in Bad : m <= k
    <3>1. Bad \in SUBSET Nat
      OBVIOUS
    <3> HIDE DEF Bad
    <3> QED
      BY <3>1, LeastNatural
  <2>2. m \in 0 .. L /\ ~ \E g : P(g, m)
    OBVIOUS
  <2>3. CASE m = 0
    <3> DEFINE g == [i \in D(0) |-> <<>>]
    <3>1. D(0) = {L + 1}
      BY <1>0
    <3>2. VisibleAt(g, s, L + 1) = <<>>
      BY <1>0 DEF VisibleAt
    <3>3. P(g, 0)
      <4> HIDE DEF D
      <4>1. \A i \in D(0) : VisibleAt(g, s, i) = <<>>
        BY <3>1, <3>2
      <4> QED
        BY <4>1
    <3> QED
      BY <2>2, <2>3, <3>3
  <2>4. CASE m # 0
    <3>1. m - 1 \in 0 .. L /\ ~(m <= m - 1)
      BY <1>0, <2>2, <2>4
    <3>2. m - 1 \notin Bad
      BY <2>1, <3>1
    <3>3. PICK g : P(g, m - 1)
      BY <3>1, <3>2
    <3> DEFINE i0 == L + 1 - m
               h == [i \in D(m) |-> IF i = i0 THEN VisibleAt(g, s, i) ELSE g[i]]
    <3>4. /\ D(m) = D(m - 1) \cup {i0} /\ i0 \notin D(m - 1)
          /\ \A i \in D(m) : i \in 1 .. L + 1 /\ i + 1 .. L + 1 \subseteq D(m - 1)
      BY <1>0, <2>2, <2>4
    <3> HIDE DEF D, i0
    <3>5. \A i \in D(m - 1) : h[i] = g[i]
      BY <3>4
    <3>6. ASSUME NEW i \in D(m) PROVE VisibleAt(h, s, i) = VisibleAt(g, s, i)
      <4>1. \A j \in i + 1 .. Len(s) + 1 : h[j] = g[j]
        BY <3>4, <3>5
      <4> HIDE DEF h
      <4> QED
        BY <3>4, <4>1, VisibleAtLocal
    <3>7. \A i \in D(m - 1) : g[i] = VisibleAt(g, s, i)
      BY <3>3
    <3>8. \A i \in D(m) : h[i] = VisibleAt(h, s, i)
      <4>1. \A i \in D(m) : h[i] = VisibleAt(g, s, i)
        BY <3>4, <3>7
      <4> HIDE DEF h
      <4> QED
        BY <3>6, <4>1
    <3>9. h = [i \in D(m) |-> h[i]]
      OBVIOUS
    <3> HIDE DEF h
    <3>10. P(h, m)
      BY <3>8, <3>9
    <3> QED
      BY <2>2, <3>10
  <2> QED
    BY <2>3, <2>4
<1>2. L \in 0 .. L
  BY <1>0
<1>3. PICK g : P(g, L)
  BY <1>1, <1>2
<1>4. D(L) = 1 .. L + 1
  BY <1>0
<1>5. g = [i \in 1 .. Len(s) + 1 |-> VisibleAt(g, s, i)]
  BY <1>3, <1>4
<1> HIDE DEF L, D, P, Bad
<1>6. \E V : V = [i \in 1 .. Len(s) + 1 |-> VisibleAt(V, s, i)]
  BY <1>5, Zenon
<1> QED
  BY <1>6, Zenon DEF VisibleFrom, VisibleAt

LEMMA VisibleSteps ==
  ASSUME NEW s \in Strings, NEW V, V = VisibleFrom(s)
  PROVE  /\ V[Len(s) + 1] = <<>>
         /\ \A i \in 1 .. Len(s) :
              /\ ~Occurs(s, OpenTag, i) => V[i] = <<s[i]>> \o V[i + 1]
              /\ Occurs(s, OpenTag, i) /\ Ends(s, i) = {} => V[i] = <<>>
              /\ Occurs(s, OpenTag, i) /\ Ends(s, i) # {} => V[i] = V[Min(Ends(s, i))]
<1>0. Len(s) \in Nat
  BY LenProperties DEF Strings
<1>1. V = [i \in 1 .. Len(s) + 1 |-> VisibleAt(V, s, i)]
  BY VisibleFromIs, Zenon
<1>2. \A i \in 1 .. Len(s) + 1 : V[i] = VisibleAt(V, s, i)
  <2> DEFINE F == [i \in 1 .. Len(s) + 1 |-> VisibleAt(V, s, i)]
  <2>1. \A i \in 1 .. Len(s) + 1 : F[i] = VisibleAt(V, s, i)
    OBVIOUS
  <2>2. V = F
    BY <1>1, Zenon
  <2> HIDE DEF F
  <2> QED
    BY <2>1, <2>2, Zenon
<1>3. V[Len(s) + 1] = <<>>
  <2>1. Len(s) + 1 \in 1 .. Len(s) + 1 /\ Len(s) + 1 > Len(s)
    BY <1>0
  <2>2. V[Len(s) + 1] = VisibleAt(V, s, Len(s) + 1)
    BY <1>2, <2>1, Zenon
  <2> QED
    BY <2>1, <2>2, Zenon DEF VisibleAt
<1>4. ASSUME NEW i \in 1 .. Len(s)
      PROVE  /\ ~Occurs(s, OpenTag, i) => V[i] = <<s[i]>> \o V[i + 1]
             /\ Occurs(s, OpenTag, i) /\ Ends(s, i) = {} => V[i] = <<>>
             /\ Occurs(s, OpenTag, i) /\ Ends(s, i) # {} => V[i] = V[Min(Ends(s, i))]
  <2>1. i \in 1 .. Len(s) + 1 /\ ~(i > Len(s))
    BY <1>0
  <2>2. V[i] = VisibleAt(V, s, i)
    BY <1>2, <2>1
  <2> QED
    BY <2>1, <2>2, Zenon DEF VisibleAt
<1> QED
  BY <1>3, <1>4

LEMMA VisibleTypes ==
  ASSUME NEW s \in Strings, NEW i \in 1 .. Len(s) + 1
  PROVE  VisibleFrom(s)[i] \in Strings
<1>0. Len(s) \in Nat /\ <<>> \in Strings
  BY LenProperties, EmptySeq DEF Strings
<1> DEFINE V == VisibleFrom(s)
           Bad == {k \in 0 .. Len(s) : V[Len(s) + 1 - k] \notin Strings}
<1> HIDE DEF V
<1>1. Bad = {}
  <2> SUFFICES ASSUME Bad # {} PROVE FALSE
    OBVIOUS
  <2>1. PICK m \in Bad : \A k \in Bad : m <= k
    <3>1. Bad \in SUBSET Nat
      OBVIOUS
    <3> HIDE DEF Bad
    <3> QED
      BY <3>1, LeastNatural
  <2> DEFINE j == Len(s) + 1 - m
  <2>2. m \in 0 .. Len(s) /\ V[j] \notin Strings
    OBVIOUS
  <2>3. \A k \in j + 1 .. Len(s) + 1 : V[k] \in Strings
    <3> SUFFICES ASSUME NEW k \in j + 1 .. Len(s) + 1 PROVE V[k] \in Strings
      OBVIOUS
    <3>1. Len(s) + 1 - k \in 0 .. Len(s) /\ ~(m <= Len(s) + 1 - k)
          /\ Len(s) + 1 - (Len(s) + 1 - k) = k
      BY <1>0, <2>2
    <3>2. Len(s) + 1 - k \notin Bad
      BY <2>1, <3>1
    <3> QED
      BY <3>1, <3>2
  <2>4. j \in 1 .. Len(s) + 1 /\ (j = Len(s) + 1 \/ j \in 1 .. Len(s))
    BY <1>0, <2>2
  <2> HIDE DEF j
  <2>5. V[Len(s) + 1] = <<>>
    BY VisibleSteps DEF V
  <2>6. CASE j \in 1 .. Len(s)
    <3>1. j + 1 \in j + 1 .. Len(s) + 1
      BY <1>0, <2>6
    <3>2. s[j] \in Characters
      BY <2>6, ElementOfSeq DEF Strings
    <3>3. <<s[j]>> \o V[j + 1] \in Strings
      <4>1. <<s[j]>> \in Strings
        BY <3>2 DEF Strings
      <4> QED
        BY <2>3, <3>1, <4>1, ConcatProperties DEF Strings
    <3>4. Ends(s, j) # {} => V[Min(Ends(s, j))] \in Strings
      BY <2>3, <2>6, EndsLater
    <3>5. \/ V[j] = <<s[j]>> \o V[j + 1]
          \/ V[j] = <<>>
          \/ Ends(s, j) # {} /\ V[j] = V[Min(Ends(s, j))]
      BY <2>6, VisibleSteps, Zenon DEF V
    <3> QED
      BY <1>0, <2>2, <3>3, <3>4, <3>5
  <2> QED
    BY <1>0, <2>2, <2>4, <2>5, <2>6
<1>2. Len(s) + 1 - i \in 0 .. Len(s) /\ Len(s) + 1 - (Len(s) + 1 - i) = i
  BY <1>0
<1>3. V[i] \in Strings
  BY <1>1, <1>2
<1> QED
  BY <1>3 DEF V

\* Where no block begins, the text is visible as it is.
LEMMA NoBlock ==
  ASSUME NEW s \in Strings, NEW q \in 1 .. Len(s) + 1, NEW p \in 1 .. q,
         \A k \in p .. q - 1 : ~Occurs(s, OpenTag, k)
  PROVE  VisibleFrom(s)[p] = SubSeq(s, p, q - 1) \o VisibleFrom(s)[q]
<1> DEFINE V == VisibleFrom(s)
           Bad == {n \in 0 .. q - p : V[q - n] # SubSeq(s, q - n, q - 1) \o V[q]}
<1>0. Len(s) \in Nat /\ q \in Nat /\ p \in Nat
  BY LenProperties DEF Strings
<1>1. \A i \in 1 .. Len(s) + 1 : V[i] \in Strings
  BY VisibleTypes
<1>2. \A i \in 1 .. Len(s) : ~Occurs(s, OpenTag, i) => V[i] = <<s[i]>> \o V[i + 1]
  BY VisibleSteps
<1> HIDE DEF V
<1>3. Bad = {}
  <2> SUFFICES ASSUME Bad # {} PROVE FALSE
    OBVIOUS
  <2>1. PICK m \in Bad : \A k \in Bad : m <= k
    <3>1. Bad \in SUBSET Nat
      OBVIOUS
    <3> HIDE DEF Bad
    <3> QED
      BY <3>1, LeastNatural
  <2>2. m \in 0 .. q - p /\ V[q - m] # SubSeq(s, q - m, q - 1) \o V[q]
    OBVIOUS
  <2>3. CASE m = 0
    <3>1. SubSeq(s, q, q - 1) = <<>>
      BY <1>0, SubSeqEmpty
    <3>2. <<>> \o V[q] = V[q]
      BY <1>1, ConcatEmptySeq DEF Strings
    <3>3. q - m = q
      BY <1>0, <2>3
    <3> QED
      BY <2>2, <3>1, <3>2, <3>3
  <2>4. CASE m # 0
    <3> DEFINE j == q - m
    <3>1. /\ m - 1 \in 0 .. q - p /\ ~(m <= m - 1) /\ q - (m - 1) = j + 1
          /\ j \in p .. q - 1 /\ j \in 1 .. Len(s) /\ q - 1 \in j .. Len(s)
          /\ j + 1 \in 1 .. (q - 1) + 1 /\ q - 1 \in 0 .. Len(s)
      BY <1>0, <2>2, <2>4
    <3>2. m - 1 \notin Bad
      BY <2>1, <3>1
    <3>3. V[j + 1] = SubSeq(s, j + 1, q - 1) \o V[q]
      BY <3>1, <3>2
    <3> HIDE DEF j
    <3>4. V[j] = <<s[j]>> \o V[j + 1]
      BY <1>2, <3>1
    <3>5. SubSeq(s, j, q - 1) = <<s[j]>> \o SubSeq(s, j + 1, q - 1)
      BY <3>1, SubSeqRecursiveFirst DEF Strings
    <3>6. s[j] \in Characters
      BY <3>1, ElementOfSeq DEF Strings
    <3>7. <<s[j]>> \in Strings /\ SubSeq(s, j + 1, q - 1) \in Strings
      BY <3>1, <3>6, Slice DEF Strings
    <3>8. (<<s[j]>> \o SubSeq(s, j + 1, q - 1)) \o V[q] = <<s[j]>> \o (SubSeq(s, j + 1, q - 1) \o V[q])
      <4> DEFINE x == <<s[j]>>
                 y == SubSeq(s, j + 1, q - 1)
                 z == V[q]
      <4>1. x \in Strings /\ y \in Strings /\ z \in Strings
        BY <1>0, <1>1, <3>7
      <4> HIDE DEF x, y, z
      <4>2. (x \o y) \o z = x \o (y \o z)
        BY <4>1, Associative
      <4> QED
        BY <4>2, Zenon DEF x, y, z
    <3>9. V[j] = SubSeq(s, j, q - 1) \o V[q]
      BY <3>3, <3>4, <3>5, <3>8
    <3> QED
      BY <2>2, <3>9 DEF j
  <2> QED
    BY <2>3, <2>4
<1>4. q - p \in 0 .. q - p /\ q - (q - p) = p
  BY <1>0
<1>5. V[p] = SubSeq(s, p, q - 1) \o V[q]
  BY <1>3, <1>4
<1> QED
  BY <1>5 DEF V

-----------------------------------------------------------------------------
(* Strings with some characters left out.                                   *)

Embeds(a, b) ==
  \E e \in [1 .. Len(a) -> 1 .. Len(b)] :
    /\ \A i, j \in 1 .. Len(a) : i < j => e[i] < e[j]
    /\ \A i \in 1 .. Len(a) : b[e[i]] = a[i]

LEMMA EmbedsEmpty ==
  ASSUME NEW b \in Strings
  PROVE  Embeds(<<>>, b)
<1> DEFINE e == [i \in 1 .. 0 |-> 1]
<1>1. Len(<<>>) = 0 /\ 1 .. 0 = {}
  OBVIOUS
<1>2. e \in [1 .. 0 -> 1 .. Len(b)]
  BY <1>1
<1> HIDE DEF e
<1> QED
  BY <1>1, <1>2 DEF Embeds

LEMMA EmbedsAppend ==
  ASSUME NEW a \in Strings, NEW b \in Strings, NEW w \in Strings, Embeds(a, b)
  PROVE  Embeds(a \o w, b \o w)
<1>0. Len(a) \in Nat /\ Len(b) \in Nat /\ Len(w) \in Nat
  BY LenProperties DEF Strings
<1>1. PICK e \in [1 .. Len(a) -> 1 .. Len(b)] :
        /\ \A i, j \in 1 .. Len(a) : i < j => e[i] < e[j]
        /\ \A i \in 1 .. Len(a) : b[e[i]] = a[i]
  BY DEF Embeds
<1>2. /\ Len(a \o w) = Len(a) + Len(w)
      /\ \A i \in 1 .. Len(a) + Len(w) : (a \o w)[i] = IF i <= Len(a) THEN a[i] ELSE w[i - Len(a)]
  BY ConcatProperties DEF Strings
<1>3. /\ Len(b \o w) = Len(b) + Len(w)
      /\ \A i \in 1 .. Len(b) + Len(w) : (b \o w)[i] = IF i <= Len(b) THEN b[i] ELSE w[i - Len(b)]
  BY ConcatProperties DEF Strings
<1> DEFINE f == [i \in 1 .. Len(a) + Len(w) |->
                   IF i <= Len(a) THEN e[i] ELSE Len(b) + (i - Len(a))]
<1>4. \A i \in 1 .. Len(a) : e[i] \in 1 .. Len(b)
  OBVIOUS
<1>5. ASSUME NEW i \in 1 .. Len(a) + Len(w)
      PROVE  /\ f[i] \in 1 .. Len(b) + Len(w)
             /\ i <= Len(a) => f[i] = e[i] /\ i \in 1 .. Len(a) /\ f[i] <= Len(b)
             /\ ~(i <= Len(a)) => f[i] = Len(b) + (i - Len(a)) /\ ~(f[i] <= Len(b))
  BY <1>0, <1>4
<1>6. f = [i \in 1 .. Len(a) + Len(w) |-> f[i]]
  OBVIOUS
<1> HIDE DEF f
<1>7. f \in [1 .. Len(a) + Len(w) -> 1 .. Len(b) + Len(w)]
  BY <1>5, <1>6
<1>8. ASSUME NEW i \in 1 .. Len(a) + Len(w), NEW j \in 1 .. Len(a) + Len(w), i < j
      PROVE  f[i] < f[j]
  <2>1. CASE j <= Len(a)
    <3>1. i <= Len(a)
      BY <1>0, <1>8, <2>1
    <3> QED
      BY <1>1, <1>5, <1>8, <2>1, <3>1
  <2>2. CASE ~(j <= Len(a)) /\ i <= Len(a)
    BY <1>0, <1>5, <2>2
  <2>3. CASE ~(j <= Len(a)) /\ ~(i <= Len(a))
    BY <1>0, <1>5, <1>8, <2>3
  <2> QED
    BY <2>1, <2>2, <2>3
<1>9. ASSUME NEW i \in 1 .. Len(a) + Len(w)
      PROVE  (b \o w)[f[i]] = (a \o w)[i]
  <2>1. CASE i <= Len(a)
    BY <1>1, <1>2, <1>3, <1>5, <2>1
  <2>2. CASE ~(i <= Len(a))
    <3>1. f[i] - Len(b) = i - Len(a)
      BY <1>0, <1>5, <2>2
    <3> QED
      BY <1>2, <1>3, <1>5, <2>2, <3>1
  <2> QED
    BY <2>1, <2>2
<1> QED
  BY <1>2, <1>3, <1>7, <1>8, <1>9 DEF Embeds

LEMMA EmbedsPrefix ==
  ASSUME NEW a \in Strings, NEW w \in Strings, NEW b \in Strings, Embeds(a \o w, b)
  PROVE  Embeds(a, b)
<1>0. Len(a) \in Nat /\ Len(b) \in Nat /\ Len(w) \in Nat
  BY LenProperties DEF Strings
<1>1. /\ Len(a \o w) = Len(a) + Len(w)
      /\ \A i \in 1 .. Len(a) + Len(w) : (a \o w)[i] = IF i <= Len(a) THEN a[i] ELSE w[i - Len(a)]
  BY ConcatProperties DEF Strings
<1>2. PICK e \in [1 .. Len(a) + Len(w) -> 1 .. Len(b)] :
        /\ \A i, j \in 1 .. Len(a) + Len(w) : i < j => e[i] < e[j]
        /\ \A i \in 1 .. Len(a) + Len(w) : b[e[i]] = (a \o w)[i]
  BY <1>1 DEF Embeds
<1> DEFINE f == [i \in 1 .. Len(a) |-> e[i]]
<1>3. \A i \in 1 .. Len(a) : i \in 1 .. Len(a) + Len(w) /\ i <= Len(a)
  BY <1>0
<1>4. f \in [1 .. Len(a) -> 1 .. Len(b)] /\ \A i \in 1 .. Len(a) : f[i] = e[i]
  BY <1>3
<1> HIDE DEF f
<1>5. \A i \in 1 .. Len(a) : b[f[i]] = a[i]
  BY <1>1, <1>2, <1>3, <1>4
<1>6. \A i, j \in 1 .. Len(a) : i < j => f[i] < f[j]
  BY <1>2, <1>3, <1>4
<1> QED
  BY <1>4, <1>5, <1>6 DEF Embeds

LEMMA EmbedsMore ==
  ASSUME NEW a \in Strings, NEW b \in Strings, NEW w \in Strings, Embeds(a, b)
  PROVE  Embeds(a, b \o w)
<1>1. Embeds(a \o w, b \o w)
  BY EmbedsAppend
<1>2. b \o w \in Strings
  BY ConcatProperties DEF Strings
<1> QED
  BY <1>1, <1>2, EmbedsPrefix

\* The place of the next element, by the place of the last one
PlaceAt(f, a, b, i) ==
  IF i = 0 THEN 0
  ELSE Min({j \in f[i - 1] + 1 .. Len(b) : b[j] = a[i]} \cup {Len(b) + 1})

LEMMA PlacesIs ==
  ASSUME NEW a \in Strings, NEW b \in Strings
  PROVE  Places(a, b) = [i \in 0 .. Len(a) |-> PlaceAt(Places(a, b), a, b, i)]
<1>0. Len(a) \in Nat
  BY LenProperties DEF Strings
<1> DEFINE P(g, k) == g = [i \in 0 .. k |-> PlaceAt(g, a, b, i)]
           Bad == {k \in 0 .. Len(a) : ~ \E g : P(g, k)}
<1>1. Bad = {}
  <2> SUFFICES ASSUME Bad # {} PROVE FALSE
    OBVIOUS
  <2>1. PICK m \in Bad : \A k \in Bad : m <= k
    <3>1. Bad \in SUBSET Nat
      OBVIOUS
    <3> HIDE DEF Bad
    <3> QED
      BY <3>1, LeastNatural
  <2>2. m \in 0 .. Len(a) /\ ~ \E g : P(g, m)
    OBVIOUS
  <2>3. CASE m = 0
    <3> DEFINE g == [i \in {0} |-> 0]
    <3>1. 0 .. 0 = {0}
      OBVIOUS
    <3>2. PlaceAt(g, a, b, 0) = 0
      BY DEF PlaceAt
    <3>3. P(g, 0)
      BY <3>1, <3>2
    <3> QED
      BY <2>2, <2>3, <3>3
  <2>4. CASE m # 0
    <3>1. m - 1 \in 0 .. Len(a) /\ ~(m <= m - 1)
      BY <1>0, <2>2, <2>4
    <3>2. m - 1 \notin Bad
      BY <2>1, <3>1
    <3>3. PICK g : P(g, m - 1)
      BY <3>1, <3>2
    <3> DEFINE h == [i \in 0 .. m |-> IF i = m THEN PlaceAt(g, a, b, i) ELSE g[i]]
    <3>4. \A i \in 0 .. m : i = m \/ i \in 0 .. m - 1
      BY <2>2
    <3>5. \A i \in 0 .. m - 1 : h[i] = g[i] /\ i \in 0 .. m
      BY <2>2
    <3>6. ASSUME NEW i \in 0 .. m PROVE PlaceAt(h, a, b, i) = PlaceAt(g, a, b, i)
      <4>1. i # 0 => i - 1 \in 0 .. m - 1
        BY <2>2
      <4>2. i # 0 => h[i - 1] = g[i - 1]
        BY <3>5, <4>1
      <4> HIDE DEF h
      <4> QED
        BY <4>2 DEF PlaceAt
    <3>7. \A i \in 0 .. m - 1 : g[i] = PlaceAt(g, a, b, i)
      BY <3>3
    <3>8. \A i \in 0 .. m : h[i] = PlaceAt(g, a, b, i)
      BY <3>4, <3>5, <3>7
    <3>9. h = [i \in 0 .. m |-> h[i]]
      OBVIOUS
    <3> HIDE DEF h
    <3>10. P(h, m)
      BY <3>6, <3>8, <3>9
    <3> QED
      BY <2>2, <3>10
  <2> QED
    BY <2>3, <2>4
<1>2. PICK g : P(g, Len(a))
  BY <1>0, <1>1
<1>3. \E At : At = [i \in 0 .. Len(a) |-> PlaceAt(At, a, b, i)]
  BY <1>2
<1> QED
  BY <1>3, Zenon DEF Places, PlaceAt

\* The earliest places are no later than any others.
LEMMA EmbedsIsPart ==
  ASSUME NEW a \in Strings, NEW b \in Strings, Embeds(a, b)
  PROVE  IsPartOf(a, b)
<1>0. Len(a) \in Nat /\ Len(b) \in Nat
  BY LenProperties DEF Strings
<1>1. PICK e \in [1 .. Len(a) -> 1 .. Len(b)] :
        /\ \A i, j \in 1 .. Len(a) : i < j => e[i] < e[j]
        /\ \A i \in 1 .. Len(a) : b[e[i]] = a[i]
  BY DEF Embeds
<1> DEFINE f == Places(a, b)
           Good(i) == f[i] \in Nat /\ IF i = 0 THEN f[i] = 0 ELSE f[i] <= e[i]
           Bad == {i \in 0 .. Len(a) : ~Good(i)}
<1>2. \A i \in 0 .. Len(a) : f[i] = PlaceAt(f, a, b, i)
  <2>1. f = [i \in 0 .. Len(a) |-> PlaceAt(f, a, b, i)]
    BY PlacesIs, Zenon
  <2> HIDE DEF f
  <2> QED
    BY <2>1
<1> HIDE DEF f
<1>3. Bad = {}
  <2> SUFFICES ASSUME Bad # {} PROVE FALSE
    OBVIOUS
  <2>1. PICK m \in Bad : \A k \in Bad : m <= k
    <3>1. Bad \in SUBSET Nat
      OBVIOUS
    <3> HIDE DEF Bad
    <3> QED
      BY <3>1, LeastNatural
  <2>2. m \in 0 .. Len(a) /\ ~Good(m)
    OBVIOUS
  <2>3. CASE m = 0
    <3>1. f[0] = 0
      <4>1. f[0] = PlaceAt(f, a, b, 0)
        BY <1>0, <1>2
      <4> QED
        BY <4>1, Zenon DEF PlaceAt
    <3> QED
      BY <2>2, <2>3, <3>1
  <2>4. CASE m # 0
    <3>1. m - 1 \in 0 .. Len(a) /\ ~(m <= m - 1) /\ m \in 1 .. Len(a)
          /\ (m - 1 # 0 => m - 1 \in 1 .. Len(a) /\ m - 1 < m)
      BY <1>0, <2>2, <2>4
    <3>2. Good(m - 1)
      BY <2>1, <3>1
    <3>3. e[m] \in 1 .. Len(b) /\ b[e[m]] = a[m]
      BY <1>1, <3>1
    <3>4. m - 1 # 0 => e[m - 1] < e[m] /\ e[m - 1] \in 1 .. Len(b)
      BY <1>1, <3>1
    <3>5. f[m - 1] \in Nat /\ f[m - 1] < e[m]
      BY <3>2, <3>3, <3>4
    <3> DEFINE T == {j \in f[m - 1] + 1 .. Len(b) : b[j] = a[m]} \cup {Len(b) + 1}
    <3>6. f[m] = Min(T)
      BY <1>2, <2>2, <2>4 DEF PlaceAt
    <3>7. T \in SUBSET Nat /\ T # {} /\ e[m] \in T
      BY <1>0, <3>3, <3>5
    <3> HIDE DEF T
    <3>8. Min(T) \in T /\ Min(T) <= e[m]
      BY <3>7, MinIsLeast
    <3>9. Good(m)
      BY <2>4, <3>6, <3>7, <3>8
    <3> QED
      BY <2>2, <3>9
  <2> QED
    BY <2>3, <2>4
<1>4. Good(Len(a))
  BY <1>0, <1>3
<1>5. Len(a) # 0 => e[Len(a)] \in 1 .. Len(b)
  BY <1>0, <1>1
<1>6. f[Len(a)] <= Len(b)
  BY <1>0, <1>4, <1>5
<1> QED
  BY <1>6 DEF IsPartOf, f

-----------------------------------------------------------------------------
(* The two ways to go on in the buffer, the part of s from p to q.          *)

LEMMA KeptIs ==
  ASSUME NEW s \in Strings, NEW q \in 0 .. Len(s), NEW p \in 1 .. q + 1,
         NEW tag \in Tags, Finds(SubSeq(s, p, q), tag) = {},
         NEW m, m = Overlap(SubSeq(s, p, q), tag)
  PROVE  /\ m \in 0 .. q - p + 1 /\ m < Len(tag)
         /\ Keep(SubSeq(s, p, q), tag) = SubSeq(s, q - m + 1, q)
         /\ LET kept == Keep(SubSeq(s, p, q), tag) IN
            Before(SubSeq(s, p, q), Len(SubSeq(s, p, q)) - Len(kept) + 1) = SubSeq(s, p, q - m)
         /\ \A k \in p .. q - m : ~Occurs(s, tag, k)
<1> DEFINE b == SubSeq(s, p, q)
<1>0. /\ Len(s) \in Nat /\ q \in Nat /\ p \in Nat \ {0}
      /\ tag \in Strings /\ Len(tag) \in Nat \ {0}
  BY TagIs, LenProperties DEF Strings
<1>1. /\ b \in Strings /\ Len(b) = q - p + 1
      /\ \A j \in 1 .. q - p + 1 : b[j] = s[p + j - 1]
  BY Slice
<1>2. /\ m \in 0 .. Len(tag) - 1 /\ m <= Len(b)
      /\ \A n \in 1 .. Len(tag) - 1 :
           n <= Len(b) /\ (\A j \in 1 .. n : b[Len(b) - n + j] = tag[j]) => n <= m
  BY <1>1, OverlapIs
<1>3. m \in 0 .. q - p + 1 /\ m < Len(tag) /\ m \in Nat
  BY <1>0, <1>1, <1>2
<1>4. Keep(b, tag) = SubSeq(s, q - m + 1, q)
  <2>1. q - p + 1 \in 0 .. q - p + 1 /\ (q - p + 1) - m + 1 \in 1 .. (q - p + 1) + 1
    BY <1>0, <1>3
  <2>2. SubSeq(b, (q - p + 1) - m + 1, q - p + 1)
          = SubSeq(s, p + ((q - p + 1) - m + 1) - 1, p + (q - p + 1) - 1)
    BY <2>1, SliceOfSlice
  <2>3. p + ((q - p + 1) - m + 1) - 1 = q - m + 1 /\ p + (q - p + 1) - 1 = q
    BY <1>0, <1>3
  <2> HIDE DEF b
  <2>4. Keep(b, tag) = SubSeq(b, (q - p + 1) - m + 1, q - p + 1)
    BY <1>1 DEF Keep, From, b
  <2> QED
    BY <2>2, <2>3, <2>4
<1>5. Before(b, Len(b) - Len(Keep(b, tag)) + 1) = SubSeq(s, p, q - m)
  <2>1. Len(Keep(b, tag)) = m
    <3>1. q \in 0 .. Len(s) /\ q - m + 1 \in 1 .. q + 1 /\ q - (q - m + 1) + 1 = m
      BY <1>0, <1>3
    <3>2. Len(SubSeq(s, q - m + 1, q)) = q - (q - m + 1) + 1
      BY <3>1, Slice
    <3> HIDE DEF b
    <3> QED
      BY <1>4, <3>1, <3>2
  <2>2. (q - p + 1) - m \in 0 .. q - p + 1 /\ 1 \in 1 .. ((q - p + 1) - m) + 1
    BY <1>0, <1>3
  <2>3. SubSeq(b, 1, (q - p + 1) - m) = SubSeq(s, p + 1 - 1, p + ((q - p + 1) - m) - 1)
    BY <2>2, SliceOfSlice
  <2>4. p + 1 - 1 = p /\ p + ((q - p + 1) - m) - 1 = q - m
    BY <1>0, <1>3
  <2> HIDE DEF b
  <2>5. Before(b, Len(b) - Len(Keep(b, tag)) + 1) = SubSeq(b, 1, (q - p + 1) - m)
    <3>1. (Len(b) - Len(Keep(b, tag)) + 1) - 1 = (q - p + 1) - m
      BY <1>0, <1>1, <1>3, <2>1
    <3> QED
      BY <3>1 DEF Before
  <2> QED
    BY <2>3, <2>4, <2>5
<1>6. ASSUME NEW k \in p .. q - m, Occurs(s, tag, k) PROVE FALSE
  <2>1. k \in Nat \ {0} /\ k <= q
    BY <1>0, <1>3
  <2>2. \A j \in 1 .. Len(tag) : s[k + j - 1] = tag[j]
    BY <1>6, <2>1, OccursIs
  <2>3. CASE k + Len(tag) - 1 <= q
    <3>1. k - p + 1 \in 1 .. q - p + 1 /\ k - p + 1 \in Nat \ {0} /\ p + (k - p + 1) - 1 = k
      BY <1>0, <2>1
    <3>2. Occurs(b, tag, k - p + 1)
      BY <1>6, <2>3, <3>1, SliceOccurs
    <3> HIDE DEF b
    <3>3. k - p + 1 \in Finds(b, tag)
      BY <1>1, <3>1, <3>2 DEF Finds
    <3> QED
      BY <3>3 DEF b
  <2>4. CASE ~(k + Len(tag) - 1 <= q)
    <3> DEFINE n == q - k + 1
    <3>1. n \in 1 .. Len(tag) - 1 /\ n <= q - p + 1 /\ ~(n <= m)
      BY <1>0, <1>3, <2>1, <2>4
    <3>2. \A j \in 1 .. n : b[(q - p + 1) - n + j] = tag[j]
      <4> SUFFICES ASSUME NEW j \in 1 .. n PROVE b[(q - p + 1) - n + j] = tag[j]
        OBVIOUS
      <4>1. /\ (q - p + 1) - n + j \in 1 .. q - p + 1 /\ j \in 1 .. Len(tag)
            /\ p + ((q - p + 1) - n + j) - 1 = k + j - 1
        BY <1>0, <2>1, <2>4
      <4> HIDE DEF b, n
      <4> QED
        BY <1>1, <2>2, <4>1
    <3> HIDE DEF b, n
    <3> QED
      BY <1>1, <1>2, <3>1, <3>2
  <2> QED
    BY <2>3, <2>4
<1> QED
  BY <1>3, <1>4, <1>5, <1>6

LEMMA EarlierPlace ==
  ASSUME NEW p \in Nat \ {0}, NEW q \in Nat, NEW i \in 1 .. q - p + 1,
         NEW l \in Nat \ {0}, NEW j \in p .. (p + i - 1) - 1,
         (p + i - 1) + l - 1 <= q
  PROVE  /\ j - p + 1 \in 1 .. q - p + 1 /\ j - p + 1 \in Nat \ {0} /\ p + (j - p + 1) - 1 = j
         /\ j + l - 1 <= q /\ ~(i <= j - p + 1)
OBVIOUS

LEMMA BehindPlace ==
  ASSUME NEW p \in Nat \ {0}, NEW q \in Nat, NEW i \in 1 .. q - p + 1,
         NEW l \in Nat \ {0}, (p + i - 1) + l - 1 <= q
  PROVE  /\ q - p + 1 \in 0 .. q - p + 1 /\ i + l \in 1 .. (q - p + 1) + 1
         /\ p + (i + l) - 1 = (p + i - 1) + l /\ p + (q - p + 1) - 1 = q
         /\ (p + i - 1) + l \in p + 1 .. q + 1
OBVIOUS

\* What is shown and what is left to read, once the buffer begins at q
LEMMA StillRead ==
  ASSUME NEW m \in Nat, NEW n \in Nat, NEW at \in Nat, NEW k \in Int, NEW q \in Int,
         NEW r \in Nat, at <= k, k <= r, q >= k, (r - at + 1) + m + n <= r
  PROVE  (m + n) + (k - at) + (r - q + 1) <= r /\ n + (k - at) <= r
OBVIOUS

\* The first tag in the buffer is at k.
Found(s, p, q, tag, k) ==
  LET b == SubSeq(s, p, q)
      i == Min(Finds(b, tag))
  IN /\ k \in p .. q /\ k + Len(tag) \in p + 1 .. q + 1
     /\ Occurs(s, tag, k) /\ \A j \in p .. k - 1 : ~Occurs(s, tag, j)
     /\ From(b, i + Len(tag)) = SubSeq(s, k + Len(tag), q)
     /\ Before(b, i) = SubSeq(s, p, k - 1)

LEMMA FoundIs ==
  ASSUME NEW s \in Strings, NEW q \in 0 .. Len(s), NEW p \in 1 .. q + 1,
         NEW tag \in Tags, Finds(SubSeq(s, p, q), tag) # {}
  PROVE  \E k : Found(s, p, q, tag, k)
<1> DEFINE b == SubSeq(s, p, q)
           i == Min(Finds(b, tag))
           k == p + i - 1
<1>0. /\ Len(s) \in Nat /\ q \in Nat /\ p \in Nat \ {0}
      /\ tag \in Strings /\ Len(tag) \in Nat \ {0}
  BY TagIs, LenProperties DEF Strings
<1>1. b \in Strings /\ Len(b) = q - p + 1
  BY Slice
<1>2. Finds(b, tag) \in SUBSET Nat
  BY DEF Finds
<1>3. i \in Finds(b, tag) /\ \A j \in Finds(b, tag) : i <= j
  BY <1>2, MinIsLeast
<1>4. i \in 1 .. q - p + 1 /\ Occurs(b, tag, i) /\ i \in Nat \ {0}
  <2> HIDE DEF b, i
  <2> QED
    BY <1>1, <1>3 DEF Finds
<1> HIDE DEF i
<1>5. Occurs(s, tag, k) /\ k + Len(tag) - 1 <= q
  BY <1>4, SliceOccurs
<1>6. k \in p .. q /\ k \in Nat \ {0}
  BY <1>0, <1>4
<1>7. ASSUME NEW j \in p .. k - 1, Occurs(s, tag, j) PROVE FALSE
  <2>1. /\ j - p + 1 \in 1 .. q - p + 1 /\ j - p + 1 \in Nat \ {0} /\ p + (j - p + 1) - 1 = j
        /\ j + Len(tag) - 1 <= q /\ ~(i <= j - p + 1)
    BY <1>0, <1>4, <1>5, EarlierPlace
  <2>2. Occurs(b, tag, j - p + 1)
    BY <1>7, <2>1, SliceOccurs
  <2> HIDE DEF b
  <2>3. j - p + 1 \in Finds(b, tag)
    BY <1>1, <2>1, <2>2 DEF Finds
  <2> QED
    BY <1>3, <2>1, <2>3
<1>8. From(b, i + Len(tag)) = SubSeq(s, k + Len(tag), q) /\ k + Len(tag) \in p + 1 .. q + 1
  <2>1. /\ q - p + 1 \in 0 .. q - p + 1 /\ i + Len(tag) \in 1 .. (q - p + 1) + 1
        /\ p + (i + Len(tag)) - 1 = k + Len(tag) /\ p + (q - p + 1) - 1 = q
        /\ k + Len(tag) \in p + 1 .. q + 1
    BY <1>0, <1>4, <1>5, BehindPlace
  <2>2. SubSeq(b, i + Len(tag), q - p + 1) = SubSeq(s, p + (i + Len(tag)) - 1, p + (q - p + 1) - 1)
    BY <2>1, SliceOfSlice
  <2> HIDE DEF b, k
  <2> QED
    BY <1>1, <2>1, <2>2 DEF From
<1>9. Before(b, i) = SubSeq(s, p, k - 1)
  <2>1. i - 1 \in 0 .. q - p + 1 /\ 1 \in 1 .. (i - 1) + 1
    BY <1>0, <1>4
  <2>2. SubSeq(b, 1, i - 1) = SubSeq(s, p + 1 - 1, p + (i - 1) - 1)
    BY <2>1, SliceOfSlice
  <2>3. p + 1 - 1 = p /\ p + (i - 1) - 1 = k - 1
    BY <1>0, <1>4
  <2> HIDE DEF b, k
  <2> QED
    BY <2>2, <2>3 DEF Before
<1>10. Found(s, p, q, tag, k)
  <2> HIDE DEF b, k, i
  <2>1. \A j \in p .. k - 1 : ~Occurs(s, tag, j)
    BY <1>7
  <2> QED
    BY <1>5, <1>6, <1>8, <1>9, <2>1, Zenon DEF Found, b, i
<1> QED
  BY <1>10

-----------------------------------------------------------------------------
(* What has been shown, and where the filter is: it has shown the part c of *)
(* the visible text, but for what it has dropped, and what is still to come *)
(* is visible from r on.  That is the beginning of the buffer, or in a block *)
(* the place where the block began.                                         *)

InBlock(s, at, r) ==
  /\ r \in 1 .. Len(s) /\ Occurs(s, OpenTag, r) /\ r + Len(OpenTag) <= at
  /\ \A k \in r + Len(OpenTag) .. at - 1 : ~Occurs(s, CloseTag, k)

Seen(s, at, ins, out, drop, c, r) ==
  /\ c \in Strings /\ r \in 1 .. Len(s) + 1
  /\ IF ins THEN InBlock(s, at, r) ELSE r = at
  /\ c \o VisibleFrom(s)[r] = Visible(s)
  /\ Embeds(out, c)
  /\ ~drop => out = c

LEMMA OutOfBlock ==
  ASSUME NEW s \in Strings, NEW p \in 1 .. Len(s) + 1, NEW out, NEW drop, NEW c, NEW r,
         Seen(s, p, TRUE, out, drop, c, r),
         NEW k \in p .. Len(s), Occurs(s, CloseTag, k),
         \A j \in p .. k - 1 : ~Occurs(s, CloseTag, j),
         NEW q, q = k + Len(CloseTag), q <= Len(s) + 1
  PROVE  Seen(s, q, FALSE, out, drop, c, q)
<1>0. /\ Len(s) \in Nat /\ p \in Nat \ {0} /\ k \in Nat \ {0}
      /\ Len(OpenTag) \in Nat \ {0} /\ Len(CloseTag) \in Nat \ {0}
  BY TagIs, LenProperties DEF Strings, Tags
<1>1. /\ r \in 1 .. Len(s) /\ Occurs(s, OpenTag, r) /\ r + Len(OpenTag) <= p
      /\ \A j \in r + Len(OpenTag) .. p - 1 : ~Occurs(s, CloseTag, j)
  BY DEF Seen, InBlock
<1>2. Ends(s, r) \subseteq r + 1 .. Len(s) + 1
  BY <1>1, EndsLater
<1>3. q \in Ends(s, r)
  <2>1. k \in Finds(s, CloseTag) /\ k >= r + Len(OpenTag)
    BY <1>0, <1>1 DEF Finds
  <2> QED
    BY <2>1 DEF Ends
<1>4. ASSUME NEW e \in Ends(s, r) PROVE q <= e
  <2>1. PICK j \in Finds(s, CloseTag) : j >= r + Len(OpenTag) /\ e = j + Len(CloseTag)
    BY DEF Ends
  <2>2. j \in 1 .. Len(s) /\ Occurs(s, CloseTag, j)
    BY DEF Finds
  <2>3. ~(j < k)
    <3> SUFFICES ASSUME j < k PROVE FALSE
      OBVIOUS
    <3>1. j \in r + Len(OpenTag) .. p - 1 \/ j \in p .. k - 1
      BY <1>0, <1>1, <2>1, <2>2
    <3> QED
      BY <1>1, <2>2, <3>1
  <2> QED
    BY <1>0, <2>1, <2>2, <2>3
<1>5. Min(Ends(s, r)) = q
  <2>1. Min(Ends(s, r)) \in Ends(s, r) /\ Min(Ends(s, r)) <= q
    BY <1>1, <1>3, EndsLater
  <2>2. q <= Min(Ends(s, r)) /\ Min(Ends(s, r)) \in Int /\ q \in Int
    BY <1>0, <1>2, <1>3, <1>4, <2>1
  <2> QED
    BY <2>1, <2>2
<1>6. VisibleFrom(s)[r] = VisibleFrom(s)[q]
  <2>1. Ends(s, r) # {}
    BY <1>3
  <2>2. VisibleFrom(s)[r] = VisibleFrom(s)[Min(Ends(s, r))]
    BY <1>1, <2>1, VisibleSteps, Zenon
  <2> QED
    BY <1>5, <2>2, Zenon
<1>7. q \in 1 .. Len(s) + 1
  BY <1>0
<1> QED
  BY <1>6, <1>7 DEF Seen

\* In a block: what this call has collected (w) is dropped.
LEMMA StillInBlock ==
  ASSUME NEW s \in Strings, NEW p \in 1 .. Len(s) + 1,
         NEW a \in Strings, NEW w \in Strings, NEW drop \in BOOLEAN, NEW c, NEW r,
         Seen(s, p, TRUE, a \o w, drop, c, r),
         NEW q \in p .. Len(s) + 1, \A k \in p .. q - 1 : ~Occurs(s, CloseTag, k),
         NEW d, d <=> drop \/ w # <<>>
  PROVE  Seen(s, q, TRUE, a, d, c, r)
<1>0. /\ Len(s) \in Nat /\ p \in Nat /\ q \in Nat /\ Len(OpenTag) \in Nat
  BY TagIs, LenProperties DEF Strings, Tags
<1>1. /\ c \in Strings /\ r \in 1 .. Len(s) + 1 /\ InBlock(s, p, r)
      /\ c \o VisibleFrom(s)[r] = Visible(s) /\ Embeds(a \o w, c) /\ (~drop => a \o w = c)
  BY DEF Seen
<1>2. InBlock(s, q, r)
  <2>1. /\ r \in 1 .. Len(s) /\ Occurs(s, OpenTag, r) /\ r + Len(OpenTag) <= p
        /\ \A j \in r + Len(OpenTag) .. p - 1 : ~Occurs(s, CloseTag, j)
    BY <1>1 DEF InBlock
  <2>2. r + Len(OpenTag) <= q
    BY <1>0, <2>1
  <2>3. ASSUME NEW k \in r + Len(OpenTag) .. q - 1 PROVE ~Occurs(s, CloseTag, k)
    <3>1. k \in r + Len(OpenTag) .. p - 1 \/ k \in p .. q - 1
      BY <1>0, <2>1
    <3> QED
      BY <2>1, <3>1
  <2> QED
    BY <2>1, <2>2, <2>3 DEF InBlock
<1>3. Embeds(a, c)
  BY <1>1, EmbedsPrefix
<1>4. w = <<>> => a \o w = a
  BY ConcatEmptySeq DEF Strings
<1> QED
  BY <1>1, <1>2, <1>3, <1>4 DEF Seen

\* Outside: no block begins before q.
LEMMA ShownUpTo ==
  ASSUME NEW s \in Strings, NEW p \in 1 .. Len(s) + 1, NEW q \in p .. Len(s) + 1,
         NEW a \in Strings, NEW drop, NEW c, NEW r,
         Seen(s, p, FALSE, a, drop, c, r),
         \A k \in p .. q - 1 : ~Occurs(s, OpenTag, k),
         NEW w, w = SubSeq(s, p, q - 1)
  PROVE  w \in Strings /\ Seen(s, q, FALSE, a \o w, drop, c \o w, q)
<1>0. Len(s) \in Nat /\ q \in 1 .. Len(s) + 1 /\ p \in 1 .. q
  BY LenProperties DEF Strings
<1>1. /\ c \in Strings /\ r = p /\ c \o VisibleFrom(s)[p] = Visible(s)
      /\ Embeds(a, c) /\ (~drop => a = c)
  BY DEF Seen
<1>2. w \in Strings
  <2>1. q - 1 \in 0 .. Len(s) /\ p \in 1 .. (q - 1) + 1
    BY <1>0
  <2> QED
    BY <2>1, Slice
<1>3. VisibleFrom(s)[p] = w \o VisibleFrom(s)[q]
  BY <1>0, NoBlock
<1>4. VisibleFrom(s)[q] \in Strings
  BY <1>0, VisibleTypes
<1> DEFINE v == VisibleFrom(s)[q]
<1>5. (c \o w) \o v = c \o (w \o v)
  <2> HIDE DEF v
  <2>1. v \in Strings
    BY <1>4 DEF v
  <2>2. c \in Strings
    BY <1>1
  <2> QED
    BY <1>2, <2>1, <2>2, Associative
<1>6. (c \o w) \o VisibleFrom(s)[q] = Visible(s)
  BY <1>1, <1>3, <1>5, Zenon
<1>7. c \o w \in Strings
  BY <1>1, <1>2, ConcatProperties DEF Strings
<1>8. Embeds(a \o w, c \o w)
  BY <1>1, <1>2, EmbedsAppend
<1> QED
  BY <1>0, <1>1, <1>2, <1>6, <1>7, <1>8 DEF Seen

LEMMA IntoBlock ==
  ASSUME NEW s \in Strings, NEW k \in 1 .. Len(s), NEW out, NEW drop, NEW c,
         Seen(s, k, FALSE, out, drop, c, k), Occurs(s, OpenTag, k)
  PROVE  Seen(s, k + Len(OpenTag), TRUE, out, drop, c, k)
<1>1. k \in Nat /\ Len(OpenTag) \in Nat
  BY TagIs DEF Tags
<1>2. k + Len(OpenTag) <= k + Len(OpenTag)
      /\ k + Len(OpenTag) .. (k + Len(OpenTag)) - 1 = {}
  BY <1>1
<1>3. InBlock(s, k + Len(OpenTag), k)
  BY <1>2 DEF InBlock
<1> QED
  BY <1>3 DEF Seen

Sought(ins) == IF ins THEN CloseTag ELSE OpenTag
Rest(s, p, ins) == IF ins THEN <<>> ELSE SubSeq(s, p, Len(s))

\* At the end: what is left is shorter than the tag that is looked for.
LEMMA AtTheEnd ==
  ASSUME NEW s \in Strings, NEW p \in 1 .. Len(s) + 1, NEW ins \in BOOLEAN,
         NEW out \in Strings, NEW drop, NEW c, NEW r,
         Seen(s, p, ins, out, drop, c, r),
         Len(s) - p + 1 < Len(Sought(ins))
  PROVE  /\ Rest(s, p, ins) \in Strings
         /\ IsPartOf(out \o Rest(s, p, ins), Visible(s))
         /\ ~drop => out \o Rest(s, p, ins) = Visible(s)
<1> DEFINE w == Rest(s, p, ins)
<1>a. w = IF ins THEN <<>> ELSE SubSeq(s, p, Len(s))
  BY DEF Rest
<1> HIDE DEF w
<1>b. Len(s) - p + 1 < Len(IF ins THEN CloseTag ELSE OpenTag)
  BY DEF Sought
<1>0. /\ Len(s) \in Nat /\ p \in Nat \ {0} /\ <<>> \in Strings
      /\ Len(OpenTag) \in Nat \ {0} /\ Len(CloseTag) \in Nat \ {0}
  BY TagIs, LenProperties, EmptySeq DEF Strings, Tags
<1> SUFFICES w \in Strings /\ VisibleFrom(s)[r] = w
  <2>1. /\ c \in Strings /\ c \o VisibleFrom(s)[r] = Visible(s)
        /\ Embeds(out, c) /\ (~drop => out = c)
    BY DEF Seen
  <2>2. out \o w \in Strings /\ c \o w \in Strings
    BY <2>1, ConcatProperties DEF Strings
  <2>3. Embeds(out \o w, c \o w)
    BY <2>1, EmbedsAppend
  <2>4. /\ w \in Strings
        /\ IsPartOf(out \o w, Visible(s))
        /\ ~drop => out \o w = Visible(s)
    BY <2>1, <2>2, <2>3, EmbedsIsPart
  <2> QED
    BY <2>4, Zenon DEF w
<1>1. CASE ins
  <2>1. InBlock(s, p, r)
    BY <1>1 DEF Seen
  <2>2. /\ r \in 1 .. Len(s) /\ Occurs(s, OpenTag, r) /\ r + Len(OpenTag) <= p
        /\ \A j \in r + Len(OpenTag) .. p - 1 : ~Occurs(s, CloseTag, j)
    BY <2>1 DEF InBlock
  <2>3. ASSUME NEW j \in Finds(s, CloseTag), j >= r + Len(OpenTag) PROVE FALSE
    <3>1. j \in 1 .. Len(s) /\ Occurs(s, CloseTag, j) /\ j + Len(CloseTag) - 1 <= Len(s)
      BY DEF Finds, Occurs
    <3>2. j \in r + Len(OpenTag) .. p - 1
      BY <1>0, <1>1, <1>b, <2>2, <2>3, <3>1
    <3> QED
      BY <2>2, <3>1, <3>2
  <2>4. Ends(s, r) = {}
    BY <2>3 DEF Ends
  <2>5. VisibleFrom(s)[r] = <<>>
    BY <2>2, <2>4, VisibleSteps
  <2> QED
    BY <1>0, <1>1, <1>a, <2>5
<1>2. CASE ~ins
  <2>1. r = p
    BY <1>2 DEF Seen
  <2>2. ASSUME NEW k \in p .. (Len(s) + 1) - 1 PROVE ~Occurs(s, OpenTag, k)
    BY <1>0, <1>2, <1>b DEF Occurs
  <2>3. /\ Len(s) + 1 \in 1 .. Len(s) + 1 /\ p \in 1 .. Len(s) + 1 /\ (Len(s) + 1) - 1 = Len(s)
        /\ Len(s) \in 0 .. Len(s)
    BY <1>0
  <2>4. VisibleFrom(s)[p] = SubSeq(s, p, (Len(s) + 1) - 1) \o VisibleFrom(s)[Len(s) + 1]
    BY <2>2, <2>3, NoBlock
  <2>5. VisibleFrom(s)[Len(s) + 1] = <<>>
    BY VisibleSteps
  <2>6. SubSeq(s, p, Len(s)) \in Strings
    BY <2>3, Slice
  <2>7. SubSeq(s, p, Len(s)) \o <<>> = SubSeq(s, p, Len(s))
    BY <2>6, ConcatEmptySeq DEF Strings
  <2> QED
    BY <1>2, <1>a, <2>1, <2>3, <2>4, <2>5, <2>6, <2>7
<1> QED
  BY <1>1, <1>2

-----------------------------------------------------------------------------
(* The invariant.                                                           *)

At      == read - Len(buffer) + 1                \* where the buffer begins
Pending == IF phase = "scan" THEN output ELSE <<>>
Told    == shown \o Pending

\* The buffer is the part of the answer that has been read and not done with.
BufferInv ==
  /\ text \in Strings /\ read \in 0 .. Len(text)
  /\ inside \in BOOLEAN /\ dropped \in BOOLEAN
  /\ phase \in {"wait", "scan", "done"}
  /\ output \in Strings /\ shown \in Strings /\ buffer \in Strings
  /\ phase # "done" => At \in 1 .. read + 1 /\ buffer = SubSeq(text, At, read)

\* Nothing is shown or kept twice.
LengthInv ==
  /\ Len(output) <= Len(text)
  /\ Len(buffer) + Len(Told) <= read

SeenInv ==
  IF phase = "done" THEN ShowsTheVisible
  ELSE \E c, r : Seen(text, At, inside, Told, dropped, c, r)

FilterInv == BufferInv /\ LengthInv /\ SeenInv /\ HoldsBackLittle

LEMMA FilterInit == Init => FilterInv
<1> SUFFICES ASSUME Init PROVE FilterInv
  OBVIOUS
<1>0. /\ text \in Strings /\ Len(text) \in Nat
      /\ <<>> \in Strings /\ Len(<<>>) = 0 /\ <<>> \o <<>> = <<>>
  BY ThinkFilterAssumption, LenProperties, EmptySeq, ConcatEmptySeq DEF Init, Strings
<1>1. Len(OpenTag) \in Nat \ {0}
  BY TagIs DEF Tags
<1>2. At = 1 /\ Told = <<>>
  BY <1>0 DEF Init, At, Told, Pending
<1>3. SubSeq(text, 1, 0) = <<>>
  BY <1>0, SubSeqEmpty
<1>4. BufferInv
  <2>1. /\ text \in Strings /\ read \in 0 .. Len(text)
        /\ inside \in BOOLEAN /\ dropped \in BOOLEAN
        /\ phase \in {"wait", "scan", "done"}
        /\ output \in Strings /\ shown \in Strings /\ buffer \in Strings
    <3>1. /\ read = 0 /\ inside = FALSE /\ dropped = FALSE /\ phase = "wait"
          /\ output = <<>> /\ shown = <<>> /\ buffer = <<>>
      BY DEF Init
    <3>2. read \in 0 .. Len(text)
      BY <1>0, <3>1
    <3> QED
      BY <1>0, <3>1, <3>2
  <2>2. At \in 1 .. read + 1
    BY <1>2 DEF Init
  <2>3. buffer = SubSeq(text, At, read)
    BY <1>2, <1>3 DEF Init
  <2> QED
    BY <2>1, <2>2, <2>3 DEF BufferInv
<1>5. LengthInv
  BY <1>0, <1>2 DEF Init, LengthInv
<1>6. HoldsBackLittle
  BY <1>0, <1>1 DEF Init, HoldsBackLittle
<1>7. Seen(text, At, inside, Told, dropped, <<>>, 1)
  <2>1. 1 \in 1 .. Len(text) + 1
    BY <1>0
  <2>2. <<>> \o VisibleFrom(text)[1] = Visible(text)
    BY <1>0, <2>1, VisibleTypes, ConcatEmptySeq DEF Visible, Strings
  <2> QED
    BY <1>0, <1>2, <2>1, <2>2, EmbedsEmpty DEF Seen, Init
<1>8. SeenInv
  BY <1>7, Zenon DEF SeenInv, Init
<1> QED
  BY <1>4, <1>5, <1>6, <1>8 DEF FilterInv

LEMMA ProcessStep ==
  ASSUME FilterInv, NEW n \in 1 .. Len(text) - read, Process(n)
  PROVE  FilterInv'
<1> DEFINE s == text
           w == SubSeq(text, read + 1, read + n)
<1>0. /\ Len(text) \in Nat /\ read \in Nat /\ read + n \in 0 .. Len(text)
      /\ text \in Strings /\ read \in 0 .. Len(text) /\ n \in Nat
      /\ buffer \in Strings /\ shown \in Strings /\ output \in Strings /\ Len(buffer) \in Nat
      /\ <<>> \in Strings /\ Len(<<>>) = 0
  BY LenProperties, EmptySeq DEF FilterInv, BufferInv, Strings
<1>1. At \in 1 .. read + 1 /\ buffer = SubSeq(text, At, read)
  BY DEF FilterInv, BufferInv, Process
<1>2. w \in Strings /\ Len(w) = n
  <2>1. read + 1 \in 1 .. (read + n) + 1 /\ (read + n) - (read + 1) + 1 = n
    BY <1>0
  <2> QED
    BY <1>0, <2>1, Slice
<1>3. buffer' = SubSeq(text, At, read + n)
  <2>1. read \in 0 .. read + n
    BY <1>0
  <2> QED
    BY <1>0, <1>1, <2>1, Adjacent DEF Process
<1>4. buffer' \in Strings /\ Len(buffer') = Len(buffer) + n
  BY <1>0, <1>2, ConcatProperties DEF Process, Strings
<1>5. At' = At
  BY <1>0, <1>4 DEF At, Process
<1>6. Told' = Told
  BY DEF Told, Pending, Process
<1>7. BufferInv'
  <2>1. At' \in 1 .. read' + 1 /\ buffer' = SubSeq(text', At', read')
    BY <1>0, <1>1, <1>3, <1>5 DEF Process
  <2> QED
    BY <1>0, <1>4, <2>1 DEF FilterInv, BufferInv, Process
<1>8. LengthInv'
  <2>1. Len(Told) \in Nat /\ Len(buffer) + Len(Told) <= read
    BY <1>0, ConcatProperties, LenProperties DEF FilterInv, LengthInv, Told, Pending, Strings
  <2>2. Len(buffer') + Len(Told') <= read'
    BY <1>0, <1>4, <1>6, <2>1 DEF Process
  <2>3. Len(output') <= Len(text')
    BY <1>0 DEF Process
  <2> QED
    BY <2>2, <2>3 DEF LengthInv
<1>9. SeenInv'
  <2>1. PICK c, r : Seen(text, At, inside, Told, dropped, c, r)
    BY DEF FilterInv, SeenInv, Process
  <2>2. Seen(text', At', inside', Told', dropped', c, r)
    BY <1>5, <1>6, <2>1 DEF Process
  <2>3. phase' # "done"
    BY DEF Process
  <2> QED
    BY <2>2, <2>3 DEF SeenInv
<1>10. HoldsBackLittle'
  BY DEF HoldsBackLittle, Process
<1> QED
  BY <1>7, <1>8, <1>9, <1>10 DEF FilterInv

\* What every step in the loop finds
LEMMA InLoop ==
  ASSUME FilterInv, phase = "scan"
  PROVE  /\ text \in Strings /\ Len(text) \in Nat /\ read \in 0 .. Len(text) /\ read \in Nat
         /\ buffer \in Strings /\ shown \in Strings /\ output \in Strings /\ Told \in Strings
         /\ Len(buffer) \in Nat /\ Len(shown) \in Nat /\ Len(output) \in Nat
         /\ inside \in BOOLEAN /\ dropped \in BOOLEAN
         /\ At \in 1 .. read + 1 /\ At \in Nat \ {0} /\ At <= Len(text) + 1
         /\ buffer = SubSeq(text, At, read) /\ Len(buffer) = read - At + 1
         /\ Told = shown \o output /\ Len(Told) = Len(shown) + Len(output)
         /\ Len(buffer) + Len(shown) + Len(output) <= read
         /\ \E c, r : Seen(text, At, inside, Told, dropped, c, r)
<1>1. /\ text \in Strings /\ Len(text) \in Nat /\ read \in 0 .. Len(text) /\ read \in Nat
      /\ buffer \in Strings /\ shown \in Strings /\ output \in Strings
      /\ Len(buffer) \in Nat /\ Len(shown) \in Nat /\ Len(output) \in Nat
      /\ inside \in BOOLEAN /\ dropped \in BOOLEAN
  BY LenProperties DEF FilterInv, BufferInv, Strings
<1>2. At \in 1 .. read + 1 /\ buffer = SubSeq(text, At, read)
  BY DEF FilterInv, BufferInv
<1>3. Told = shown \o output /\ Told \in Strings /\ Len(Told) = Len(shown) + Len(output)
  BY <1>1, ConcatProperties DEF Told, Pending, Strings
<1>4. Len(buffer) = read - At + 1
  BY <1>1 DEF At
<1>5. Len(buffer) + Len(Told) <= read
  BY DEF FilterInv, LengthInv
<1>6. \E c, r : Seen(text, At, inside, Told, dropped, c, r)
  BY DEF FilterInv, SeenInv
<1>7. At \in Nat \ {0} /\ At <= Len(text) + 1
  BY <1>1, <1>2
<1>8. Len(buffer) + Len(shown) + Len(output) <= read
  BY <1>1, <1>3, <1>5
<1> QED
  BY <1>1, <1>2, <1>3, <1>4, <1>6, <1>7, <1>8

\* What every step in the loop leaves: the buffer begins at q.
LEMMA LoopStep ==
  ASSUME FilterInv, phase = "scan", UNCHANGED <<text, read>>,
         NEW q \in At .. read + 1, buffer' = SubSeq(text, q, read),
         inside' \in BOOLEAN, dropped' \in BOOLEAN, phase' \in {"wait", "scan"},
         output' \in Strings, shown' \in Strings,
         Len(output') <= read,
         Len(Told') + (read - q + 1) <= read,
         \E c, r : Seen(text, q, inside', Told', dropped', c, r),
         phase' = "wait" => read - q + 1 < Len(IF inside' THEN CloseTag ELSE OpenTag)
  PROVE  FilterInv'
<1>0. /\ text \in Strings /\ Len(text) \in Nat /\ read \in 0 .. Len(text) /\ read \in Nat
      /\ At \in 1 .. read + 1 /\ At \in Nat \ {0}
  BY InLoop
<1>1. q \in 1 .. read + 1
  BY <1>0
<1>2. buffer' \in Strings /\ Len(buffer') = read - q + 1
  BY <1>0, <1>1, Slice
<1>3. At' = q
  BY <1>0, <1>1, <1>2 DEF At
<1>4. BufferInv'
  BY <1>0, <1>1, <1>2, <1>3 DEF BufferInv
<1>5. LengthInv'
  <2>1. Told' \in Strings
    <3>1. <<>> \in Strings
      BY EmptySeq DEF Strings
    <3>2. Pending' \in Strings
      BY <3>1 DEF Pending
    <3> QED
      BY <3>2, ConcatProperties DEF Told, Strings
  <2>2. Len(Told') \in Nat /\ Len(output') \in Nat
    BY <2>1, LenProperties DEF Strings
  <2>3. Len(buffer') + Len(Told') <= read'
    BY <1>0, <1>1, <1>2, <2>2
  <2>4. Len(output') <= Len(text')
    BY <1>0, <2>2
  <2> QED
    BY <2>3, <2>4 DEF LengthInv
<1>6. SeenInv'
  <2>1. PICK c, r : Seen(text, q, inside', Told', dropped', c, r)
    OBVIOUS
  <2>2. Seen(text', At', inside', Told', dropped', c, r)
    BY <1>3, <2>1
  <2> QED
    BY <2>2 DEF SeenInv
<1>7. HoldsBackLittle'
  BY <1>2 DEF HoldsBackLittle
<1> QED
  BY <1>4, <1>5, <1>6, <1>7 DEF FilterInv

LEMMA SkipBlockStep == ASSUME FilterInv, SkipBlock PROVE FilterInv'
<1> DEFINE b == SubSeq(text, At, read)
           i == Min(Finds(b, CloseTag))
<1>0. /\ CloseTag \in Tags /\ Len(CloseTag) \in Nat \ {0} /\ phase = "scan" /\ inside
      /\ text \in Strings /\ Len(text) \in Nat /\ read \in 0 .. Len(text) /\ read \in Nat
      /\ shown \in Strings /\ output \in Strings /\ dropped \in BOOLEAN
      /\ At \in 1 .. read + 1 /\ At \in 1 .. Len(text) + 1 /\ At \in Nat \ {0}
      /\ buffer = b /\ Len(buffer) = read - At + 1
      /\ Len(Told) = Len(shown) + Len(output) /\ Len(shown) \in Nat /\ Len(output) \in Nat
      /\ Len(buffer) + Len(shown) + Len(output) <= read
  <2>1. phase = "scan" /\ inside
    BY DEF SkipBlock
  <2> QED
    BY <2>1, InLoop, TagIs DEF Tags
<1>1. Finds(b, CloseTag) # {}
  BY <1>0 DEF SkipBlock
<1>f. PICK k : Found(text, At, read, CloseTag, k)
  BY <1>0, <1>1, FoundIs
<1>2. /\ k \in At .. read /\ k + Len(CloseTag) \in At + 1 .. read + 1
      /\ Occurs(text, CloseTag, k) /\ \A j \in At .. k - 1 : ~Occurs(text, CloseTag, j)
      /\ From(b, i + Len(CloseTag)) = SubSeq(text, k + Len(CloseTag), read)
  BY <1>f, Zenon DEF Found
<1> DEFINE q == k + Len(CloseTag)
<1>3. buffer' = SubSeq(text, q, read)
  <2> HIDE DEF b, q
  <2>1. buffer' = From(b, i + Len(CloseTag))
    BY <1>0 DEF SkipBlock
  <2> QED
    BY <1>2, <2>1 DEF q
<1> HIDE DEF b, i
<1>4. q \in At .. read + 1 /\ q <= Len(text) + 1 /\ k \in At .. Len(text)
  <2>1. k \in At .. read /\ k + Len(CloseTag) \in At + 1 .. read + 1
    BY <1>2
  <2> QED
    BY <1>0, <2>1
<1>5. PICK c, r : Seen(text, At, TRUE, Told, dropped, c, r)
  <2>1. \E c, r : Seen(text, At, inside, Told, dropped, c, r) /\ inside = TRUE
    BY <1>0, InLoop
  <2> QED
    BY <2>1
<1>6. Seen(text, q, FALSE, Told, dropped, c, q)
  BY <1>0, <1>2, <1>4, <1>5, OutOfBlock
<1> HIDE DEF q
<1>7. Told' = Told
  BY DEF SkipBlock, Told, Pending
<1>8. \E c1, r1 : Seen(text, q, inside', Told', dropped', c1, r1)
  BY <1>6, <1>7 DEF SkipBlock
<1>9. Len(Told') + (read - q + 1) <= read /\ Len(output') <= read
  BY <1>0, <1>4, <1>7 DEF SkipBlock
<1> QED
  BY <1>0, <1>3, <1>4, <1>8, <1>9, LoopStep DEF SkipBlock

LEMMA EnterBlockStep == ASSUME FilterInv, EnterBlock PROVE FilterInv'
<1> DEFINE b == SubSeq(text, At, read)
           i == Min(Finds(b, OpenTag))
<1>0. /\ OpenTag \in Tags /\ Len(OpenTag) \in Nat \ {0} /\ phase = "scan" /\ ~inside
      /\ text \in Strings /\ Len(text) \in Nat /\ read \in 0 .. Len(text) /\ read \in Nat
      /\ shown \in Strings /\ output \in Strings /\ Told \in Strings /\ dropped \in BOOLEAN
      /\ At \in 1 .. read + 1 /\ At \in 1 .. Len(text) + 1 /\ At \in Nat \ {0}
      /\ buffer = b /\ Len(buffer) = read - At + 1
      /\ Told = shown \o output
      /\ Len(Told) = Len(shown) + Len(output) /\ Len(shown) \in Nat /\ Len(output) \in Nat
      /\ Len(buffer) + Len(shown) + Len(output) <= read
  <2>1. phase = "scan" /\ ~inside
    BY DEF EnterBlock
  <2> QED
    BY <2>1, InLoop, TagIs DEF Tags
<1>1. Finds(b, OpenTag) # {}
  BY <1>0 DEF EnterBlock
<1>f. PICK k : Found(text, At, read, OpenTag, k)
  BY <1>0, <1>1, FoundIs
<1>2. /\ k \in At .. read /\ k + Len(OpenTag) \in At + 1 .. read + 1
      /\ Occurs(text, OpenTag, k) /\ \A j \in At .. k - 1 : ~Occurs(text, OpenTag, j)
      /\ From(b, i + Len(OpenTag)) = SubSeq(text, k + Len(OpenTag), read)
      /\ Before(b, i) = SubSeq(text, At, k - 1)
  BY <1>f, Zenon DEF Found
<1> DEFINE q == k + Len(OpenTag)
           w == SubSeq(text, At, k - 1)
<1>3. buffer' = SubSeq(text, q, read) /\ output' = output \o w
  <2> HIDE DEF b, q, w
  <2>1. buffer' = From(b, i + Len(OpenTag)) /\ output' = output \o Before(b, i)
    BY <1>0 DEF EnterBlock
  <2> QED
    BY <1>2, <2>1 DEF q, w
<1> HIDE DEF b, i
<1>4. /\ q \in At .. read + 1 /\ k \in At .. Len(text) + 1 /\ k \in 1 .. Len(text)
      /\ k - 1 \in 0 .. Len(text) /\ At \in 1 .. (k - 1) + 1 /\ k \in Nat
      /\ (k - 1) - At + 1 = k - At
  <2>1. k \in At .. read /\ k + Len(OpenTag) \in At + 1 .. read + 1
    BY <1>2
  <2> QED
    BY <1>0, <2>1
<1>5. PICK c, r : Seen(text, At, FALSE, Told, dropped, c, r)
  <2>1. \E c, r : Seen(text, At, inside, Told, dropped, c, r) /\ inside = FALSE
    BY <1>0, InLoop
  <2> QED
    BY <2>1
<1>6. w \in Strings /\ Len(w) = k - At
  <2>1. w \in Strings /\ Len(w) = (k - 1) - At + 1
    BY <1>0, <1>4, Slice
  <2> QED
    BY <1>4, <2>1
<1>7. Seen(text, k, FALSE, Told \o w, dropped, c \o w, k)
  BY <1>0, <1>2, <1>4, <1>5, ShownUpTo
<1>8. Seen(text, q, TRUE, Told \o w, dropped, c \o w, k)
  BY <1>0, <1>2, <1>4, <1>7, IntoBlock
<1> HIDE DEF w
<1>9. Told' = Told \o w
  <2>1. Told' = shown \o (output \o w)
    BY <1>0, <1>3 DEF EnterBlock, Told, Pending
  <2>2. (shown \o output) \o w = shown \o (output \o w)
    <3>1. shown \in Strings /\ output \in Strings /\ w \in Strings
      BY <1>0, <1>6
    <3> QED
      BY <3>1, Associative, Zenon
  <2>3. Told = shown \o output
    BY <1>0
  <2> QED
    BY <2>1, <2>2, <2>3, Zenon
<1>10. /\ output' \in Strings /\ Len(output') = Len(output) + Len(w)
       /\ Len(Told') = Len(Told) + Len(w)
  <2>1. output \o w \in Strings /\ Len(output \o w) = Len(output) + Len(w)
    BY <1>0, <1>6, Joined
  <2>2. Len(Told \o w) = Len(Told) + Len(w)
    BY <1>0, <1>6, Joined
  <2> QED
    BY <1>3, <1>9, <2>1, <2>2
<1>11. Len(Told') + (read - q + 1) <= read /\ Len(output') <= read
  <2>1. q >= k /\ q \in Int
    BY <1>0, <1>4
  <2> HIDE DEF q
  <2>2. /\ Len(Told') = (Len(shown) + Len(output)) + (k - At)
        /\ Len(output') = Len(output) + (k - At)
    BY <1>0, <1>6, <1>10
  <2>3. (read - At + 1) + Len(shown) + Len(output) <= read /\ k <= read
    BY <1>0, <1>2
  <2>4. /\ (Len(shown) + Len(output)) + (k - At) + (read - q + 1) <= read
        /\ Len(output) + (k - At) <= read
    BY <1>0, <1>4, <2>1, <2>3, StillRead
  <2> QED
    BY <2>2, <2>4
<1> HIDE DEF q
<1>12. \E c1, r1 : Seen(text, q, inside', Told', dropped', c1, r1)
  BY <1>8, <1>9 DEF EnterBlock
<1> QED
  BY <1>0, <1>3, <1>4, <1>10, <1>11, <1>12, LoopStep DEF EnterBlock

LEMMA AwaitCloseStep == ASSUME FilterInv, AwaitClose PROVE FilterInv'
<1> DEFINE m == Overlap(SubSeq(text, At, read), CloseTag)
           q == read - m + 1
<1>0. /\ CloseTag \in Tags /\ Len(CloseTag) \in Nat \ {0} /\ phase = "scan" /\ inside
      /\ text \in Strings /\ Len(text) \in Nat /\ read \in 0 .. Len(text) /\ read \in Nat
      /\ shown \in Strings /\ output \in Strings /\ dropped \in BOOLEAN
      /\ At \in 1 .. read + 1 /\ At \in 1 .. Len(text) + 1 /\ At \in Nat \ {0}
      /\ buffer = SubSeq(text, At, read) /\ Len(buffer) = read - At + 1
      /\ Told = shown \o output
      /\ Len(shown) \in Nat /\ Len(output) \in Nat
      /\ Len(buffer) + Len(shown) + Len(output) <= read
  <2>1. phase = "scan" /\ inside
    BY DEF AwaitClose
  <2> QED
    BY <2>1, InLoop, TagIs DEF Tags
<1>1. Finds(SubSeq(text, At, read), CloseTag) = {}
  BY <1>0 DEF AwaitClose
<1>2. /\ m \in 0 .. read - At + 1 /\ m < Len(CloseTag)
      /\ Keep(SubSeq(text, At, read), CloseTag) = SubSeq(text, q, read)
      /\ \A k \in At .. read - m : ~Occurs(text, CloseTag, k)
  BY <1>0, <1>1, KeptIs
<1>3. buffer' = SubSeq(text, q, read)
  BY <1>0, <1>2 DEF AwaitClose
<1> HIDE DEF m
<1>4. q \in At .. read + 1 /\ q \in At .. Len(text) + 1 /\ q - 1 = read - m /\ read - q + 1 = m
  BY <1>0, <1>2
<1>5. PICK c, r : Seen(text, At, TRUE, Told, dropped, c, r)
  <2>1. \E c, r : Seen(text, At, inside, Told, dropped, c, r) /\ inside = TRUE
    BY <1>0, InLoop
  <2> QED
    BY <2>1
<1> HIDE DEF q
<1>6. Seen(text, q, TRUE, shown, dropped', c, r)
  <2>1. Seen(text, At, TRUE, shown \o output, dropped, c, r)
    BY <1>0, <1>5
  <2>2. \A k \in At .. q - 1 : ~Occurs(text, CloseTag, k)
    BY <1>2, <1>4
  <2>3. /\ text \in Strings /\ At \in 1 .. Len(text) + 1 /\ q \in At .. Len(text) + 1
        /\ shown \in Strings /\ output \in Strings /\ dropped \in BOOLEAN
        /\ dropped' <=> dropped \/ output # <<>>
    BY <1>0, <1>4 DEF AwaitClose
  <2> QED
    BY <2>1, <2>2, <2>3, StillInBlock
<1>7. shown \o <<>> = shown
  BY <1>0, ConcatEmptySeq DEF Strings
<1>8. Told' = shown /\ shown' = shown
  BY <1>7 DEF AwaitClose, Return, Told, Pending
<1>9. \E c1, r1 : Seen(text, q, inside', Told', dropped', c1, r1)
  <2>1. inside' = TRUE /\ dropped' = (dropped \/ output # <<>>)
    BY <1>0 DEF AwaitClose
  <2> QED
    BY <1>6, <1>8, <2>1
<1>10. Len(Told') + (read - q + 1) <= read /\ Len(output') <= read
  BY <1>0, <1>2, <1>4, <1>8 DEF AwaitClose
<1>11. /\ inside' /\ inside' \in BOOLEAN /\ dropped' \in BOOLEAN /\ phase' = "wait"
       /\ output' \in Strings /\ shown' \in Strings /\ UNCHANGED <<text, read>>
  BY <1>0, <1>8 DEF AwaitClose, Return
<1> QED
  BY <1>0, <1>2, <1>3, <1>4, <1>9, <1>10, <1>11, LoopStep

LEMMA ShowRestStep == ASSUME FilterInv, ShowRest PROVE FilterInv'
<1> DEFINE b == SubSeq(text, At, read)
           m == Overlap(b, OpenTag)
           q == read - m + 1
           w == SubSeq(text, At, read - m)
<1>0. /\ OpenTag \in Tags /\ Len(OpenTag) \in Nat \ {0} /\ phase = "scan" /\ ~inside
      /\ text \in Strings /\ Len(text) \in Nat /\ read \in 0 .. Len(text) /\ read \in Nat
      /\ shown \in Strings /\ output \in Strings /\ Told \in Strings /\ dropped \in BOOLEAN
      /\ At \in 1 .. read + 1 /\ At \in 1 .. Len(text) + 1 /\ At \in Nat \ {0}
      /\ buffer = b /\ Len(buffer) = read - At + 1
      /\ Told = shown \o output
      /\ Len(Told) = Len(shown) + Len(output) /\ Len(shown) \in Nat /\ Len(output) \in Nat
      /\ Len(buffer) + Len(shown) + Len(output) <= read
  <2>1. phase = "scan" /\ ~inside
    BY DEF ShowRest
  <2> QED
    BY <2>1, InLoop, TagIs DEF Tags
<1>1. Finds(b, OpenTag) = {}
  BY <1>0 DEF ShowRest
<1>2. /\ m \in 0 .. read - At + 1 /\ m < Len(OpenTag)
      /\ Keep(b, OpenTag) = SubSeq(text, q, read)
      /\ Before(b, Len(b) - Len(Keep(b, OpenTag)) + 1) = w
      /\ \A k \in At .. read - m : ~Occurs(text, OpenTag, k)
  BY <1>0, <1>1, KeptIs
<1>3. buffer' = SubSeq(text, q, read) /\ shown' = shown \o (output \o w) /\ phase' = "wait"
  <2> HIDE DEF b, m, q, w
  <2> QED
    BY <1>0, <1>2 DEF ShowRest, Return
<1> HIDE DEF m
<1>4. /\ q \in At .. read + 1 /\ q \in At .. Len(text) + 1 /\ q - 1 = read - m
      /\ read - q + 1 = m /\ m \in Nat
      /\ read - m \in 0 .. Len(text) /\ At \in 1 .. (read - m) + 1
  <2>1. m \in 0 .. read - At + 1
    BY <1>2
  <2> QED
    BY <1>0, <2>1
<1>5. PICK c, r : Seen(text, At, FALSE, Told, dropped, c, r)
  <2>1. \E c, r : Seen(text, At, inside, Told, dropped, c, r) /\ inside = FALSE
    BY <1>0, InLoop
  <2> QED
    BY <2>1
<1>6. w \in Strings /\ Len(w) = (read - m) - At + 1
  BY <1>0, <1>4, Slice
<1> HIDE DEF q
<1>7. Seen(text, q, FALSE, Told \o w, dropped, c \o w, q)
  BY <1>0, <1>2, <1>4, <1>5, ShownUpTo
<1> HIDE DEF w
<1>8. Told \o w = shown \o (output \o w)
  <2>1. (shown \o output) \o w = shown \o (output \o w)
    <3>1. shown \in Strings /\ output \in Strings /\ w \in Strings
      BY <1>0, <1>6
    <3> QED
      BY <3>1, Associative, Zenon
  <2>2. Told = shown \o output
    BY <1>0
  <2> QED
    BY <2>1, <2>2, Zenon
<1>9. Told \o w \in Strings /\ Len(Told \o w) = Len(Told) + Len(w)
  BY <1>0, <1>6, ConcatProperties DEF Strings
<1>10. Told' = Told \o w /\ shown' = Told \o w
  <2>1. (Told \o w) \o <<>> = Told \o w
    BY <1>9, ConcatEmptySeq DEF Strings
  <2> QED
    BY <1>3, <1>8, <2>1 DEF Told, Pending
<1>11. Len(Told') + (read - q + 1) <= read /\ Len(output') <= read
  <2>1. Len(Told') = Len(Told) + ((read - m) - At + 1)
    BY <1>6, <1>9, <1>10
  <2>2. /\ Len(Told) + ((read - m) - At + 1) + m = Len(shown) + Len(output) + (read - At + 1)
        /\ Len(Told) + ((read - m) - At + 1) \in Int
    BY <1>0, <1>4
  <2>3. Len(output') = Len(output)
    BY DEF ShowRest
  <2>4. Len(shown) + Len(output) + (read - At + 1) <= read /\ Len(output) <= read
    BY <1>0
  <2> QED
    BY <1>4, <2>1, <2>2, <2>3, <2>4
<1>12. /\ inside' = FALSE /\ dropped' = dropped
       /\ output' \in Strings /\ shown' \in Strings /\ UNCHANGED <<text, read>>
  BY <1>0, <1>9, <1>10 DEF ShowRest
<1>13. \E c1, r1 : Seen(text, q, inside', Told', dropped', c1, r1)
  BY <1>7, <1>10, <1>12
<1> QED
  BY <1>0, <1>2, <1>3, <1>4, <1>11, <1>12, <1>13, LoopStep

LEMMA EmptyStep == ASSUME FilterInv, Empty PROVE FilterInv'
<1>0. /\ phase = "scan" /\ buffer = <<>> /\ Len(<<>>) = 0
      /\ text \in Strings /\ Len(text) \in Nat /\ read \in 0 .. Len(text) /\ read \in Nat
      /\ shown \in Strings /\ output \in Strings /\ Told \in Strings
      /\ dropped \in BOOLEAN /\ inside \in BOOLEAN
      /\ At \in Nat \ {0} /\ buffer = SubSeq(text, At, read) /\ Len(buffer) = read - At + 1
      /\ Told = shown \o output
      /\ Len(Told) = Len(shown) + Len(output) /\ Len(shown) \in Nat /\ Len(output) \in Nat
      /\ Len(buffer) + Len(shown) + Len(output) <= read
      /\ \E c, r : Seen(text, At, inside, Told, dropped, c, r)
  BY InLoop, EmptySeq DEF Empty
<1>1. shown' = Told /\ phase' = "wait" /\ UNCHANGED <<text, read, buffer, inside, output, dropped>>
  BY <1>0 DEF Empty, Return
<1>2. Told' = Told
  <2>1. Told \o <<>> = Told
    BY <1>0, ConcatEmptySeq DEF Strings
  <2> QED
    BY <1>1, <2>1 DEF Told, Pending
<1>3. At \in At .. read + 1 /\ read - At + 1 = 0
  BY <1>0
<1>4. Len(IF inside' THEN CloseTag ELSE OpenTag) \in Nat \ {0}
  BY TagIs DEF Tags
<1>5. Len(Told') + (read - At + 1) <= read /\ Len(output') <= read
  BY <1>0, <1>1, <1>2, <1>3
<1>6. \E c, r : Seen(text, At, inside', Told', dropped', c, r)
  BY <1>0, <1>1, <1>2
<1>7. read - At + 1 < Len(IF inside' THEN CloseTag ELSE OpenTag)
  BY <1>3, <1>4
<1>8. buffer' = SubSeq(text, At, read)
  BY <1>0, <1>1
<1> QED
  BY <1>0, <1>1, <1>3, <1>5, <1>6, <1>7, <1>8, LoopStep

LEMMA FlushStep == ASSUME FilterInv, Flush PROVE FilterInv'
<1>0. /\ phase = "wait" /\ read = Len(text)
      /\ text \in Strings /\ Len(text) \in Nat /\ inside \in BOOLEAN /\ dropped \in BOOLEAN
      /\ shown \in Strings /\ output \in Strings /\ buffer \in Strings
      /\ Len(buffer) \in Nat /\ Len(shown) \in Nat
      /\ At \in 1 .. read + 1 /\ buffer = SubSeq(text, At, read)
      /\ <<>> \in Strings /\ Len(<<>>) = 0 /\ Len(output) <= Len(text)
  BY LenProperties, EmptySeq DEF FilterInv, BufferInv, LengthInv, Flush, Strings
<1>1. Told = shown
  BY <1>0, ConcatEmptySeq DEF Told, Pending, Strings
<1>2. Len(buffer) + Len(shown) <= read /\ Len(buffer) = Len(text) - At + 1
  BY <1>0, <1>1 DEF FilterInv, LengthInv, At
<1>3. PICK c, r : Seen(text, At, inside, shown, dropped, c, r)
  BY <1>0, <1>1 DEF FilterInv, SeenInv
<1>4. Len(text) - At + 1 < Len(Sought(inside))
  BY <1>0, <1>2 DEF FilterInv, HoldsBackLittle, Sought
<1>5. Remainder = Rest(text, At, inside)
  BY <1>0 DEF Remainder, Rest
<1>6. /\ Remainder \in Strings
      /\ IsPartOf(shown \o Remainder, Visible(text))
      /\ ~dropped => shown \o Remainder = Visible(text)
  <2>1. At \in 1 .. Len(text) + 1
    BY <1>0
  <2>2. text \in Strings /\ inside \in BOOLEAN /\ shown \in Strings
    BY <1>0
  <2> QED
    BY <1>3, <1>4, <1>5, <2>1, <2>2, AtTheEnd
<1>7. shown' \in Strings /\ Len(shown') = Len(shown) + Len(Remainder) /\ shown' = shown \o Remainder
  BY <1>0, <1>6, ConcatProperties DEF Flush, Strings
<1>8. Len(Remainder) <= Len(buffer)
  BY <1>0 DEF Remainder
<1>9. Told' = shown'
  BY <1>0, <1>7, ConcatEmptySeq DEF Told, Pending, Flush, Strings
<1>10. BufferInv'
  BY <1>0, <1>7 DEF BufferInv, Flush
<1>11. LengthInv'
  <2>1. Len(shown') <= read
    BY <1>0, <1>2, <1>6, <1>7, <1>8, LenProperties DEF Strings
  <2>2. Len(buffer') + Len(Told') <= read'
    BY <1>0, <1>7, <1>9, <2>1, LenProperties DEF Flush, Strings
  <2> QED
    BY <1>0, <2>2 DEF LengthInv, Flush
<1>12. SeenInv'
  BY <1>6, <1>7 DEF SeenInv, ShowsTheVisible, Flush
<1>13. HoldsBackLittle'
  BY DEF HoldsBackLittle, Flush
<1> QED
  BY <1>10, <1>11, <1>12, <1>13 DEF FilterInv

LEMMA FilterStep == FilterInv /\ [Next]_vars => FilterInv'
<1> SUFFICES ASSUME FilterInv, [Next]_vars PROVE FilterInv'
  OBVIOUS
<1>1. CASE UNCHANGED vars
  <2>1. /\ UNCHANGED <<text, read, buffer, inside, output, shown, dropped, phase>>
        /\ At' = At /\ Told' = Told
    BY <1>1 DEF vars, At, Told, Pending
  <2>2. BufferInv' /\ LengthInv' /\ HoldsBackLittle'
    BY <2>1 DEF FilterInv, BufferInv, LengthInv, HoldsBackLittle
  <2>3. SeenInv'
    BY <2>1 DEF FilterInv, SeenInv, ShowsTheVisible
  <2> QED
    BY <2>2, <2>3 DEF FilterInv
<1>2. CASE Next
  BY <1>2, ProcessStep, SkipBlockStep, AwaitCloseStep, ShowRestStep, EnterBlockStep,
     EmptyStep, FlushStep DEF Next
<1> QED
  BY <1>1, <1>2

LEMMA FilterInvariant == Spec => []FilterInv
BY FilterInit, FilterStep, PTL DEF Spec

\* The variables have their types, and no string grows beyond the answer,
\* however long the answer and the tags are (_ThinkStreamFilter).
THEOREM FilterTypes == Spec => []TypeOK
<1>1. FilterInv => TypeOK
  <2> SUFFICES ASSUME FilterInv PROVE TypeOK
    OBVIOUS
  <2>1. /\ Len(text) \in Nat /\ read \in 0 .. Len(text) /\ buffer \in Strings /\ shown \in Strings
        /\ Pending \in Strings /\ Len(output) <= Len(text) /\ Len(buffer) + Len(Told) <= read
    BY LenProperties, EmptySeq DEF FilterInv, BufferInv, LengthInv, Pending, Strings
  <2>2. /\ Len(Told) = Len(shown) + Len(Pending) /\ Len(shown) \in Nat
        /\ Len(Pending) \in Nat /\ Len(buffer) \in Nat
    BY <2>1, ConcatProperties, LenProperties DEF Told, Strings
  <2>3. Len(buffer) <= Len(text) /\ Len(shown) <= Len(text)
    BY <2>1, <2>2
  <2> QED
    BY <2>1, <2>3 DEF TypeOK, FilterInv, BufferInv
<1> QED
  BY <1>1, FilterInvariant, PTL

\* Between two chunks less than a tag is held back, whatever the tags and the
\* answer are and however the answer is cut.
THEOREM LittleIsHeldBack == Spec => []HoldsBackLittle
<1>1. FilterInv => HoldsBackLittle
  BY DEF FilterInv
<1> QED
  BY <1>1, FilterInvariant, PTL

\* Whatever the tags and the answer are, and however the answer is cut into
\* chunks: nothing of a block is ever shown, and if no call drops what it has
\* collected, the reader has in the end seen exactly the visible text.
THEOREM VisibleIsShown == Spec => []ShowsTheVisible
<1>1. FilterInv => ShowsTheVisible
  <2> SUFFICES ASSUME FilterInv, phase # "done" PROVE ShowsTheVisible
    BY DEF FilterInv, SeenInv
  <2>1. PICK c, r : Seen(text, At, inside, Told, dropped, c, r)
    BY DEF FilterInv, SeenInv
  <2>2. /\ text \in Strings /\ shown \in Strings /\ Pending \in Strings
    BY EmptySeq DEF FilterInv, BufferInv, Pending, Strings
  <2>3. /\ c \in Strings /\ r \in 1 .. Len(text) + 1
        /\ c \o VisibleFrom(text)[r] = Visible(text) /\ Embeds(Told, c)
    BY <2>1 DEF Seen
  <2>4. Embeds(shown, c)
    BY <2>2, <2>3, EmbedsPrefix DEF Told
  <2>5. VisibleFrom(text)[r] \in Strings
    BY <2>2, <2>3, VisibleTypes
  <2>6. Embeds(shown, Visible(text)) /\ Visible(text) \in Strings
    <3> DEFINE v == VisibleFrom(text)[r]
    <3>1. v \in Strings /\ c \o v = Visible(text)
      BY <2>3, <2>5
    <3> HIDE DEF v
    <3>2. Embeds(shown, c \o v) /\ c \o v \in Strings
      BY <2>2, <2>3, <2>4, <3>1, EmbedsMore, ConcatProperties DEF Strings
    <3> QED
      BY <3>1, <3>2
  <2> QED
    BY <2>2, <2>6, EmbedsIsPart DEF ShowsTheVisible
<1> QED
  BY <1>1, FilterInvariant, PTL

=============================================================================
