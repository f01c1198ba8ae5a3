--------------------------- MODULE AiStream_proofs ---------------------------
(***************************************************************************)
(* Proofs about AiStream: for any streams, answers, prompt and number of   *)
(* attempts and restarts.                                                  *)
(***************************************************************************)
EXTENDS AiStream, SequenceTheorems, FiniteSetTheorems, WellFoundedInduction, TLAPS

\* < on the natural numbers, as a set of pairs, is well-founded.
LEMMA NatLess == IsWellFoundedOn({p \in Nat \X Nat : p[1] < p[2]}, Nat)
BY NatLessThanWellFounded DEF OpToRel

\* A set of natural numbers has a least element.
LEMMA LeastNatural ==
  ASSUME NEW T \in SUBSET Nat, T # {}
  PROVE  \E m \in T : \A n \in T : m <= n
<1> DEFINE R == {p \in Nat \X Nat : p[1] < p[2]}
<1>1. PICK m \in T : \A n \in T : <<n, m>> \notin R
  BY NatLess, WFMin
<1> SUFFICES ASSUME NEW n \in T PROVE m <= n
  OBVIOUS
<1>2. <<n, m>> \notin R
  BY <1>1
<1>3. m \in Nat /\ n \in Nat
  OBVIOUS
<1>4. ~(n < m)
  BY <1>2, <1>3
<1> QED
  BY <1>3, <1>4

-----------------------------------------------------------------------------
(* Flattening.  FlattenSeq is a recursive function of the community        *)
(* modules: that it is defined on every prefix of the sequence, and in one *)
(* way only, follows from the least prefix of which that is not so.        *)

\* f[i] is the concatenation of the first i members of s.
IsFlat(f, s, n) ==
  \A i \in 1 .. n : f[i] = IF i = 1 THEN s[i] ELSE f[i - 1] \o s[i]

LEMMA FlatExists ==
  ASSUME NEW S, NEW s \in Seq(Seq(S)), NEW n \in 1 .. Len(s)
  PROVE  \E f \in [1 .. n -> Seq(S)] : IsFlat(f, s, n)
<1> DEFINE Good(m) == \E f \in [1 .. m -> Seq(S)] : IsFlat(f, s, m)
           T == {m \in 1 .. Len(s) : ~Good(m)}
<1>0. \A i \in 1 .. Len(s) : s[i] \in Seq(S)
  OBVIOUS
<1> SUFFICES ASSUME T # {} PROVE FALSE
  OBVIOUS
<1>t. T \in SUBSET Nat
  OBVIOUS
<1>g. \A m \in T : m \in 1 .. Len(s) /\ ~Good(m)
  OBVIOUS
<1>h. \A m \in 1 .. Len(s) : m \notin T => Good(m)
  OBVIOUS
<1> HIDE DEF T
<1>1. PICK m \in T : \A i \in T : m <= i
  BY <1>t, LeastNatural
<1>2. m \in 1 .. Len(s) /\ ~Good(m)
  BY <1>g
<1>3. CASE m = 1
  <2> DEFINE f == [i \in 1 .. 1 |-> s[1]]
  <2>1. f \in [1 .. 1 -> Seq(S)]
    BY <1>0, <1>2, <1>3
  <2>2. IsFlat(f, s, 1)
    BY DEF IsFlat
  <2> QED
    BY <1>2, <1>3, <2>1, <2>2
<1>4. CASE m > 1
  <2>1. m - 1 \in 1 .. Len(s) /\ ~(m <= m - 1)
    BY <1>2, <1>4
  <2>2. Good(m - 1)
    <3>1. m - 1 \notin T
      BY <1>1, <2>1
    <3> HIDE DEF Good
    <3> QED
      BY <1>h, <2>1, <3>1
  <2>3. PICK f \in [1 .. m - 1 -> Seq(S)] : IsFlat(f, s, m - 1)
    BY <2>2
  <2> DEFINE g == [i \in 1 .. m |-> IF i < m THEN f[i] ELSE f[m - 1] \o s[m]]
  <2>4. f[m - 1] \in Seq(S) /\ s[m] \in Seq(S)
    BY <1>0, <1>2, <1>4
  <2>5. f[m - 1] \o s[m] \in Seq(S)
    BY <2>4
  <2>6. \A i \in 1 .. m : i < m => f[i] \in Seq(S)
    <3> SUFFICES ASSUME NEW i \in 1 .. m, i < m PROVE f[i] \in Seq(S)
      OBVIOUS
    <3>1. i \in 1 .. m - 1
      BY <1>2
    <3> QED
      BY <3>1
  <2>7. g \in [1 .. m -> Seq(S)]
    <3>1. \A i \in 1 .. m : (IF i < m THEN f[i] ELSE f[m - 1] \o s[m]) \in Seq(S)
      BY <2>5, <2>6
    <3> QED
      BY <3>1
  <2>8. IsFlat(g, s, m)
    <3> SUFFICES ASSUME NEW i \in 1 .. m
                 PROVE  g[i] = IF i = 1 THEN s[i] ELSE g[i - 1] \o s[i]
      BY DEF IsFlat
    <3>1. CASE i = m
      <4>1. i - 1 \in 1 .. m /\ i - 1 < m /\ i # 1 /\ ~(i < m)
        BY <3>1, <1>2, <1>4
      <4> QED
        BY <3>1, <4>1
    <3>2. CASE i < m
      <4>1. i \in 1 .. m - 1
        BY <3>2, <1>2
      <4>2. f[i] = IF i = 1 THEN s[i] ELSE f[i - 1] \o s[i]
        BY <4>1, <2>3 DEF IsFlat
      <4>3. g[i] = f[i]
        BY <3>2
      <4>4. ASSUME i # 1 PROVE g[i - 1] = f[i - 1]
        <5>1. i - 1 \in 1 .. m /\ i - 1 < m
          BY <4>1, <4>4, <1>2
        <5> QED
          BY <5>1
      <4> QED
        BY <4>2, <4>3, <4>4
    <3> QED
      BY <3>1, <3>2, <1>2
  <2> HIDE DEF g
  <2> QED
    BY <1>2, <2>7, <2>8
<1> QED
  BY <1>2, <1>3, <1>4

LEMMA FlatUnique ==
  ASSUME NEW s, NEW n \in Nat, NEW f, NEW g, IsFlat(f, s, n), IsFlat(g, s, n)
  PROVE  \A i \in 1 .. n : f[i] = g[i]
<1> DEFINE T == {i \in 1 .. n : f[i] # g[i]}
<1> SUFFICES ASSUME T # {} PROVE FALSE
  OBVIOUS
<1>t. T \in SUBSET Nat
  OBVIOUS
<1>g. \A m \in 1 .. n : m \in T <=> f[m] # g[m]
  OBVIOUS
<1>h. T \subseteq 1 .. n
  OBVIOUS
<1> HIDE DEF T
<1>1. PICK m \in T : \A i \in T : m <= i
  BY <1>t, LeastNatural
<1>2. m \in 1 .. n /\ f[m] # g[m]
  BY <1>g, <1>h
<1>3. f[m] = (IF m = 1 THEN s[m] ELSE f[m - 1] \o s[m])
      /\ g[m] = (IF m = 1 THEN s[m] ELSE g[m - 1] \o s[m])
  BY <1>2 DEF IsFlat
<1>4. m # 1
  BY <1>2, <1>3
<1>5. m - 1 \in 1 .. n /\ ~(m <= m - 1)
  BY <1>2, <1>4
<1>6. f[m - 1] = g[m - 1]
  BY <1>1, <1>5, <1>g
<1> QED
  BY <1>2, <1>3, <1>4, <1>6

\* The function FlattenSeq chooses
LEMMA FlattenIs ==
  ASSUME NEW S, NEW s \in Seq(Seq(S)), Len(s) > 0
  PROVE  \E f : IsFlat(f, s, Len(s)) /\ FlattenSeq(s) = f[Len(s)]
                /\ f[Len(s)] \in Seq(S)
<1> DEFINE n == Len(s)
           F(f) == f = [i \in 1 .. n |-> IF i = 1 THEN s[i] ELSE f[i - 1] \o s[i]]
           c == CHOOSE f : F(f)
<1>0. n \in 1 .. Len(s) /\ n \in Nat
  OBVIOUS
<1>1. PICK f \in [1 .. n -> Seq(S)] : IsFlat(f, s, n)
  BY <1>0, FlatExists
<1>2. F(f)
  <2> DEFINE h == [i \in 1 .. n |-> IF i = 1 THEN s[i] ELSE f[i - 1] \o s[i]]
  <2>1. \A i \in 1 .. n : f[i] = h[i]
    BY <1>1 DEF IsFlat
  <2> QED
    BY <2>1
<1>3. F(c)
  BY <1>2
<1> DEFINE R(x, i) == IF i = 1 THEN s[i] ELSE x[i - 1] \o s[i]
<1>4. c = [i \in 1 .. n |-> R(c, i)]
  BY <1>3
<1>5. FlattenSeq(s) = c[n]
  BY <1>0 DEF FlattenSeq
<1> HIDE DEF c, R
<1>6. \A i \in 1 .. n : c[i] = R(c, i)
  BY <1>4
<1>7. IsFlat(c, s, n)
  BY <1>6 DEF IsFlat, R
<1> HIDE DEF n
<1>8. c[n] = f[n]
  BY <1>0, <1>1, <1>7, FlatUnique
<1>9. f[n] \in Seq(S)
  BY <1>0, <1>1 DEF n
<1> QED
  BY <1>5, <1>7, <1>8, <1>9 DEF n

LEMMA FlattenNothing == FlattenSeq(<<>>) = <<>>
BY DEF FlattenSeq

LEMMA FlattenType ==
  ASSUME NEW S, NEW s \in Seq(Seq(S))
  PROVE  FlattenSeq(s) \in Seq(S)
<1>1. CASE Len(s) = 0
  <2>1. s = <<>>
    BY <1>1
  <2>2. <<>> \in Seq(S)
    OBVIOUS
  <2> QED
    BY <2>1, <2>2, FlattenNothing
<1>2. CASE Len(s) > 0
  BY <1>2, FlattenIs
<1> QED
  BY <1>1, <1>2

LEMMA FlattenAppend ==
  ASSUME NEW S, NEW s \in Seq(Seq(S)), NEW t \in Seq(S)
  PROVE  FlattenSeq(Append(s, t)) = FlattenSeq(s) \o t
<1> DEFINE u == Append(s, t)
<1>1. u \in Seq(Seq(S)) /\ Len(u) = Len(s) + 1 /\ Len(u) > 0 /\ u[Len(u)] = t
  OBVIOUS
<1>2. \A i \in 1 .. Len(s) : u[i] = s[i]
  OBVIOUS
<1> HIDE DEF u
<1>3. PICK f : IsFlat(f, u, Len(u)) /\ FlattenSeq(u) = f[Len(u)] /\ f[Len(u)] \in Seq(S)
  BY <1>1, FlattenIs
<1>4. CASE Len(s) = 0
  <2>1. f[1] = u[1]
    BY <1>1, <1>3, <1>4 DEF IsFlat
  <2>2. s = <<>>
    BY <1>4
  <2>3. FlattenSeq(u) = t
    BY <1>1, <1>3, <1>4, <2>1
  <2> QED
    BY <2>2, <2>3, FlattenNothing DEF u
<1>5. CASE Len(s) > 0
  <2>1. PICK g : IsFlat(g, s, Len(s)) /\ FlattenSeq(s) = g[Len(s)]
    BY <1>5, FlattenIs
  <2>2. IsFlat(f, s, Len(s))
    <3> SUFFICES ASSUME NEW i \in 1 .. Len(s)
                 PROVE  f[i] = IF i = 1 THEN s[i] ELSE f[i - 1] \o s[i]
      BY DEF IsFlat
    <3>1. i \in 1 .. Len(u)
      BY <1>1
    <3>2. f[i] = IF i = 1 THEN u[i] ELSE f[i - 1] \o u[i]
      BY <3>1, <1>3 DEF IsFlat
    <3> QED
      BY <3>2, <1>2
  <2>3. f[Len(s)] = g[Len(s)]
    BY <2>1, <2>2, <1>5, FlatUnique
  <2>4. Len(u) \in 1 .. Len(u) /\ Len(u) # 1 /\ Len(u) - 1 = Len(s)
    BY <1>1, <1>5
  <2>5. f[Len(u)] = f[Len(u) - 1] \o u[Len(u)]
    BY <2>4, <1>3 DEF IsFlat
  <2>6. f[Len(u)] = f[Len(s)] \o t
    BY <2>5, <2>4, <1>1
  <2> QED
    BY <1>3, <2>1, <2>3, <2>6 DEF u
<1> QED
  BY <1>4, <1>5

-----------------------------------------------------------------------------
(* The events of a stream, as a sequence on its own.                       *)

Text == Seq(Pieces)
EventType == [kind : EventKinds, text : Text]
Events == Seq(EventType)

DeltasIn(e) == [i \in DOMAIN e |-> IF e[i].kind = "delta" THEN e[i].text ELSE <<>>]

\* Deltas and Streamed of the events e
DeltaText(e) == FlattenSeq(DeltasIn(e))
HasDelta(e) == \E i \in DOMAIN e : e[i].kind = "delta"

\* meta, and deltas so far; the same with done at the end
Began(e) == Len(e) > 0 /\ e[1].kind = "meta" /\ \A i \in 2 .. Len(e) : e[i].kind = "delta"
Closed(e) ==
  /\ Len(e) > 1 /\ e[1].kind = "meta" /\ e[Len(e)].kind = "done"
  /\ \A i \in 2 .. Len(e) - 1 : e[i].kind = "delta"

\* What EventsInOrder and DoneIsWhatWasShown say of one stream
InOrder(e) ==
  \A i \in DOMAIN e :
    /\ e[i].kind = "meta" <=> i = 1
    /\ e[i].kind \in {"error", "saved"} => i = Len(e)
    /\ e[i].kind = "done" => i = Len(e) \/ e[i + 1].kind = "saved"
    /\ e[i].kind = "saved" => e[i - 1].kind = "done"
DoneShown(e) ==
  \A i \in DOMAIN e : e[i].kind = "done" /\ HasDelta(e) => e[i].text = DeltaText(e)

LEMMA TextFacts ==
  /\ <<>> \in Text
  /\ \A t, u \in Text : t \o u \in Text /\ t \o <<>> = t /\ <<>> \o t = t
  /\ \A t \in Text : t # <<>> => /\ Head(t) \in Pieces /\ Tail(t) \in Text
                                 /\ <<Head(t)>> \in Text /\ <<Head(t)>> \o Tail(t) = t
  /\ \A t, u, v \in Text : (t \o u) \o v = t \o (u \o v)
  /\ \A t \in Text, c \in Pieces : Append(t, c) \in Text /\ Append(t, c) = t \o <<c>>
<1>1. <<>> \in Text
  BY DEF Text
<1>2. \A t, u \in Text : t \o u \in Text /\ t \o <<>> = t /\ <<>> \o t = t
  BY DEF Text
<1>3. ASSUME NEW t \in Text, t # <<>>
      PROVE  /\ Head(t) \in Pieces /\ Tail(t) \in Text
             /\ <<Head(t)>> \in Text /\ <<Head(t)>> \o Tail(t) = t
  <2>1. Head(t) \in Pieces /\ Tail(t) \in Text /\ <<Head(t)>> \in Text
    BY <1>3 DEF Text
  <2>2. <<Head(t)>> \o Tail(t) = t
    BY <1>3 DEF Text
  <2> QED
    BY <2>1, <2>2
<1>4. \A t, u, v \in Text : (t \o u) \o v = t \o (u \o v)
  BY DEF Text
<1>5. \A t \in Text, c \in Pieces : Append(t, c) \in Text /\ Append(t, c) = t \o <<c>>
  BY DEF Text
<1> QED
  BY <1>1, <1>2, <1>3, <1>4, <1>5

LEMMA Associative ==
  ASSUME NEW t \in Text, NEW u \in Text, NEW v \in Text
  PROVE  (t \o u) \o v = t \o (u \o v)
BY TextFacts

LEMMA EventFacts ==
  ASSUME NEW e \in Events, NEW x \in EventType
  PROVE  /\ Append(e, x) \in Events
         /\ Len(Append(e, x)) = Len(e) + 1
         /\ Append(e, x)[Len(e) + 1] = x
         /\ \A i \in 1 .. Len(e) : Append(e, x)[i] = e[i]
         /\ DOMAIN e = 1 .. Len(e)
         /\ DOMAIN Append(e, x) = 1 .. Len(e) + 1
         /\ Len(e) \in Nat
BY DEF Events

LEMMA NoEvents ==
  /\ <<>> \in Events
  /\ DeltaText(<<>>) = <<>> /\ ~HasDelta(<<>>)
  /\ InOrder(<<>>) /\ DoneShown(<<>>)
<1>1. <<>> \in Events
  BY DEF Events
<1>2. DeltasIn(<<>>) = <<>>
  BY DEF DeltasIn
<1> QED
  BY <1>1, <1>2, FlattenNothing DEF DeltaText, HasDelta, InOrder, DoneShown

LEMMA DeltasInType ==
  ASSUME NEW e \in Events
  PROVE  DeltasIn(e) \in Seq(Text) /\ Len(DeltasIn(e)) = Len(e)
<1>1. \A i \in 1 .. Len(e) : e[i] \in EventType
  BY DEF Events
<1>2. \A i \in 1 .. Len(e) : (IF e[i].kind = "delta" THEN e[i].text ELSE <<>>) \in Text
  BY <1>1, TextFacts DEF EventType
<1>3. DOMAIN e = 1 .. Len(e) /\ Len(e) \in Nat
  BY DEF Events
<1> QED
  BY <1>2, <1>3 DEF DeltasIn

LEMMA DeltaTextType ==
  ASSUME NEW e \in Events
  PROVE  DeltaText(e) \in Text
BY DeltasInType, FlattenType DEF DeltaText, Text

LEMMA DeltaAppend ==
  ASSUME NEW e \in Events, NEW x \in EventType
  PROVE  /\ DeltaText(Append(e, x)) = IF x.kind = "delta" THEN DeltaText(e) \o x.text
                                                          ELSE DeltaText(e)
         /\ HasDelta(Append(e, x)) <=> HasDelta(e) \/ x.kind = "delta"
<1> DEFINE t == IF x.kind = "delta" THEN x.text ELSE <<>>
           a == Append(e, x)
<1>1. t \in Text
  BY TextFacts DEF EventType
<1>2. DeltasIn(e) \in Seq(Text) /\ Len(DeltasIn(e)) = Len(e)
  BY DeltasInType
<1>3. DeltasIn(a) = Append(DeltasIn(e), t)
  <2>1. DeltasIn(a) \in Seq(Text) /\ Len(DeltasIn(a)) = Len(a)
    BY DeltasInType, EventFacts
  <2>2. Append(DeltasIn(e), t) \in Seq(Text)
        /\ Len(Append(DeltasIn(e), t)) = Len(e) + 1
        /\ \A i \in 1 .. Len(e) : Append(DeltasIn(e), t)[i] = DeltasIn(e)[i]
        /\ Append(DeltasIn(e), t)[Len(e) + 1] = t
    BY <1>1, <1>2
  <2>3. /\ Len(a) = Len(e) + 1 /\ a[Len(e) + 1] = x /\ \A i \in 1 .. Len(e) : a[i] = e[i]
        /\ DOMAIN e = 1 .. Len(e) /\ DOMAIN a = 1 .. Len(e) + 1 /\ Len(e) \in Nat
    BY EventFacts
  <2>4. \A i \in 1 .. Len(e) : DeltasIn(a)[i] = DeltasIn(e)[i]
    BY <2>3 DEF DeltasIn
  <2>5. DeltasIn(a)[Len(e) + 1] = t
    BY <2>3 DEF DeltasIn
  <2> HIDE DEF a, t
  <2> QED
    BY <2>1, <2>2, <2>3, <2>4, <2>5
<1>4. DeltaText(a) = DeltaText(e) \o t
  <2> HIDE DEF t
  <2> QED
    BY <1>1, <1>2, <1>3, FlattenAppend DEF DeltaText, Text
<1>5. DeltaText(e) \o <<>> = DeltaText(e)
  BY DeltaTextType, TextFacts
<1>6. HasDelta(a) <=> HasDelta(e) \/ x.kind = "delta"
  BY EventFacts DEF HasDelta
<1> QED
  BY <1>4, <1>5, <1>6

\* meta, deltas and done put a stream into these shapes.
LEMMA ShapeAppend ==
  ASSUME NEW e \in Events, NEW x \in EventType
  PROVE  /\ e = <<>> /\ x.kind = "meta" => Began(Append(e, x))
         /\ Began(e) /\ x.kind = "delta" => Began(Append(e, x))
         /\ Began(e) /\ x.kind = "done" => Closed(Append(e, x))
<1> DEFINE a == Append(e, x)
<1>1. /\ Len(a) = Len(e) + 1 /\ a[Len(e) + 1] = x /\ \A i \in 1 .. Len(e) : a[i] = e[i]
      /\ Len(e) \in Nat /\ (e = <<>> => Len(e) = 0)
  BY EventFacts
<1> HIDE DEF a
<1>2. ASSUME e = <<>>, x.kind = "meta" PROVE Began(a)
  BY <1>1, <1>2 DEF Began
<1>3. ASSUME Began(e), x.kind = "delta" PROVE Began(a)
  <2>1. Len(a) > 0 /\ a[1].kind = "meta"
    BY <1>1, <1>3 DEF Began
  <2>2. ASSUME NEW i \in 2 .. Len(a) PROVE a[i].kind = "delta"
    <3>1. CASE i = Len(e) + 1
      BY <3>1, <1>1, <1>3
    <3>2. CASE i \in 2 .. Len(e)
      <4>1. e[i].kind = "delta" /\ i \in 1 .. Len(e)
        BY <3>2, <1>1, <1>3 DEF Began
      <4> QED
        BY <4>1, <1>1
    <3> QED
      BY <3>1, <3>2, <2>2, <1>1
  <2> QED
    BY <2>1, <2>2 DEF Began
<1>4. ASSUME Began(e), x.kind = "done" PROVE Closed(a)
  <2>1. Len(a) > 1 /\ a[1].kind = "meta" /\ a[Len(a)].kind = "done"
    BY <1>1, <1>4 DEF Began
  <2>2. ASSUME NEW i \in 2 .. Len(a) - 1 PROVE a[i].kind = "delta"
    <3>1. i \in 2 .. Len(e) /\ i \in 1 .. Len(e)
      BY <1>1, <2>2
    <3> QED
      BY <3>1, <1>1, <1>4 DEF Began
  <2> QED
    BY <2>1, <2>2 DEF Closed
<1> QED
  BY <1>2, <1>3, <1>4 DEF a

LEMMA BeganInOrder ==
  ASSUME NEW e \in Events, Began(e)
  PROVE  InOrder(e) /\ \A i \in DOMAIN e : e[i].kind \in {"meta", "delta"}
<1>1. DOMAIN e = 1 .. Len(e) /\ Len(e) \in Nat
  BY DEF Events
<1>2. ASSUME NEW i \in DOMAIN e
      PROVE  (i = 1 /\ e[i].kind = "meta") \/ (i # 1 /\ e[i].kind = "delta")
  <2>1. CASE i = 1
    BY <2>1 DEF Began
  <2>2. CASE i \in 2 .. Len(e)
    BY <2>2 DEF Began
  <2> QED
    BY <2>1, <2>2, <1>1
<1> QED
  BY <1>2 DEF InOrder

LEMMA ClosedInOrder ==
  ASSUME NEW e \in Events, Closed(e)
  PROVE  InOrder(e)
<1>1. DOMAIN e = 1 .. Len(e) /\ Len(e) \in Nat
  BY DEF Events
<1>2. ASSUME NEW i \in DOMAIN e
      PROVE  \/ i = 1 /\ e[i].kind = "meta"
             \/ i # 1 /\ e[i].kind = "delta"
             \/ i # 1 /\ i = Len(e) /\ e[i].kind = "done"
  <2>1. CASE i = 1
    BY <2>1 DEF Closed
  <2>2. CASE i \in 2 .. Len(e) - 1
    BY <2>2 DEF Closed
  <2>3. CASE i = Len(e)
    BY <2>3 DEF Closed
  <2> QED
    BY <2>1, <2>2, <2>3, <1>1
<1> QED
  BY <1>2 DEF InOrder

\* An error ends a stream that has no done, saved one that has.
LEMMA LastInOrder ==
  ASSUME NEW e \in Events, NEW x \in EventType,
         (Began(e) /\ x.kind = "error") \/ (Closed(e) /\ x.kind = "saved")
  PROVE  InOrder(Append(e, x))
<1> DEFINE a == Append(e, x)
<1>1. /\ Len(a) = Len(e) + 1 /\ a[Len(e) + 1] = x /\ \A i \in 1 .. Len(e) : a[i] = e[i]
      /\ Len(e) \in Nat /\ DOMAIN a = 1 .. Len(e) + 1 /\ DOMAIN e = 1 .. Len(e)
  BY EventFacts
<1> HIDE DEF a
<1>2. Len(e) >= 1 /\ e[1].kind = "meta"
  BY DEF Began, Closed
<1>3. ASSUME NEW i \in DOMAIN a
      PROVE  /\ a[i].kind = "meta" <=> i = 1
             /\ a[i].kind \in {"error", "saved"} => i = Len(a)
             /\ a[i].kind = "done" => i = Len(a) \/ a[i + 1].kind = "saved"
             /\ a[i].kind = "saved" => a[i - 1].kind = "done"
  <2>1. CASE i = 1
    BY <2>1, <1>1, <1>2
  <2>2. CASE i \in 2 .. Len(e) /\ Began(e)
    <3>1. a[i] = e[i] /\ e[i].kind = "delta" /\ i # 1
      BY <2>2, <1>1 DEF Began
    <3> QED
      BY <3>1
  <2>3. CASE i \in 2 .. Len(e) - 1 /\ Closed(e)
    <3>1. a[i] = e[i] /\ e[i].kind = "delta" /\ i # 1
      BY <2>3, <1>1 DEF Closed
    <3> QED
      BY <3>1
  <2>4. CASE i = Len(e) /\ Closed(e)
    <3>1. a[i].kind = "done" /\ i # 1 /\ a[i + 1].kind = "saved"
      BY <2>4, <1>1, <1>2 DEF Closed, Began
    <3> QED
      BY <3>1
  <2>5. CASE i = Len(e) + 1
    <3>1. a[i] = x /\ i = Len(a) /\ i # 1
      BY <2>5, <1>1, <1>2
    <3>2. x.kind = "saved" => Closed(e) /\ a[i - 1].kind = "done"
      <4>1. i - 1 = Len(e) /\ Len(e) \in 1 .. Len(e)
        BY <2>5, <1>1, <1>2
      <4> QED
        BY <4>1, <1>1 DEF Closed
    <3> QED
      BY <3>1, <3>2
  <2> QED
    BY <2>1, <2>2, <2>3, <2>4, <2>5, <1>1
<1> QED
  BY <1>3 DEF InOrder, a

LEMMA DoneShownAppend ==
  ASSUME NEW e \in Events, NEW x \in EventType, DoneShown(e),
         x.kind = "delta" => Began(e),
         x.kind = "done" /\ HasDelta(e) => x.text = DeltaText(e)
  PROVE  DoneShown(Append(e, x))
<1> DEFINE a == Append(e, x)
<1>1. /\ a[Len(e) + 1] = x /\ \A i \in 1 .. Len(e) : a[i] = e[i]
      /\ Len(e) \in Nat /\ DOMAIN a = 1 .. Len(e) + 1 /\ DOMAIN e = 1 .. Len(e)
  BY EventFacts
<1>2. /\ x.kind # "delta" => DeltaText(a) = DeltaText(e)
      /\ HasDelta(a) <=> HasDelta(e) \/ x.kind = "delta"
  BY DeltaAppend
<1> HIDE DEF a
<1>3. ASSUME NEW i \in DOMAIN a, a[i].kind = "done", HasDelta(a)
      PROVE  a[i].text = DeltaText(a)
  <2>1. CASE i = Len(e) + 1
    <3>1. x.kind = "done"
      BY <1>1, <1>3, <2>1
    <3> QED
      BY <1>1, <1>2, <1>3, <2>1, <3>1
  <2>2. CASE i \in DOMAIN e
    <3>1. e[i] = a[i] /\ e[i].kind = "done"
      BY <2>2, <1>1, <1>3
    <3>2. ~Began(e)
      BY <2>2, <3>1, BeganInOrder
    <3>3. x.kind # "delta"
      BY <3>2
    <3> QED
      BY <3>1, <3>3, <2>2, <1>2, <1>3 DEF DoneShown
  <2> QED
    BY <2>1, <2>2, <1>1
<1> QED
  BY <1>3 DEF DoneShown, a

-----------------------------------------------------------------------------
(* Types.                                                                  *)

Types ==
  /\ provider \in Providers
  /\ disabled \in BOOLEAN
  /\ restarts \in 0 .. MaxRestarts
  /\ cache \in Text \cup {NoText}
  /\ complete \in SUBSET Text
  /\ phase \in [Streams -> Phases]
  /\ given \in [Streams -> Text \cup {NoText}]
  /\ rest \in [Streams -> Text]
  /\ held \in [Streams -> Text]
  /\ pending \in [Streams -> BOOLEAN]
  /\ attempt \in [Streams -> 0 .. Attempts - 1]
  /\ full \in [Streams -> Text]
  /\ events \in [Streams -> Events]

\* A step of stream k leaves the other streams alone.
Others(k) ==
  /\ provider' = provider
  /\ complete \subseteq complete'
  /\ \A j \in Streams \ {k} :
       /\ phase'[j] = phase[j] /\ given'[j] = given[j] /\ rest'[j] = rest[j]
       /\ held'[j] = held[j] /\ pending'[j] = pending[j] /\ full'[j] = full[j]
       /\ events'[j] = events[j]

LEMMA AnswersAreTexts ==
  /\ \A p \in Providers : \A t \in Responses[p] : t \in Text
  /\ Placeholder \in Text /\ ErrorText \in Text
<1>1. ASSUME NEW p \in Providers, NEW t \in Responses[p] PROVE t \in Text
  <2>1. t \in AllResponses
    BY DEF AllResponses
  <2>2. t \in Seq(Range(t))
    BY <2>1, AiStreamAssumption
  <2>3. Range(t) \subseteq Pieces
    BY <2>1 DEF Pieces
  <2> QED
    BY <2>2, <2>3 DEF Text
<1>2. "placeholder" \in Pieces /\ "error" \in Pieces
  <2>1. "placeholder" \in Range(Placeholder) /\ "error" \in Range(ErrorText)
    <3>1. 1 \in DOMAIN Placeholder /\ Placeholder[1] = "placeholder"
          /\ 1 \in DOMAIN ErrorText /\ ErrorText[1] = "error"
      BY DEF Placeholder, ErrorText
    <3> QED
      BY <3>1 DEF Range
  <2> QED
    BY <2>1 DEF Pieces
<1>3. Placeholder \in Text /\ ErrorText \in Text
  BY <1>2 DEF Placeholder, ErrorText, Text
<1> QED
  BY <1>1, <1>3

LEMMA HitType ==
  ASSUME Types
  PROVE  Hit \in Text \cup {NoText} /\ Purged \in Text \cup {NoText}
BY DEF Types, Hit, Purged

LEMMA EventIs ==
  ASSUME NEW kind, NEW t
  PROVE  /\ Event(kind, t).kind = kind /\ Event(kind, t).text = t
         /\ kind \in EventKinds /\ t \in Text => Event(kind, t) \in EventType
BY DEF Event, EventType

LEMMA SendIs ==
  ASSUME Types, NEW k \in Streams, NEW kind \in EventKinds, NEW t \in Text, Send(k, kind, t)
  PROVE  /\ events' \in [Streams -> Events]
         /\ events'[k] = Append(events[k], Event(kind, t))
         /\ \A j \in Streams \ {k} : events'[j] = events[j]
<1>1. events \in [Streams -> Events]
  BY DEF Types
<1>2. Append(events[k], Event(kind, t)) \in Events
  BY <1>1, EventIs, EventFacts
<1>3. events' = [events EXCEPT ![k] = Append(events[k], Event(kind, t))]
  BY DEF Send
<1> QED
  BY <1>1, <1>2, <1>3

LEMMA DeliverIs ==
  ASSUME Types, NEW k \in Streams, NEW t \in Text, Deliver(k, t)
  PROVE  /\ events' \in [Streams -> Events]
         /\ events'[k] = Append(events[k], Event("delta", t))
         /\ \A j \in Streams \ {k} : events'[j] = events[j]
         /\ full' \in [Streams -> Text]
         /\ full'[k] = full[k] \o t
         /\ \A j \in Streams \ {k} : full'[j] = full[j]
<1>1. "delta" \in EventKinds
  BY DEF EventKinds
<1>2. full \in [Streams -> Text]
  BY DEF Types
<1>3. full[k] \o t \in Text
  BY <1>2, TextFacts
<1>4. full' = [full EXCEPT ![k] = full[k] \o t] /\ Send(k, "delta", t)
  BY DEF Deliver
<1> QED
  BY <1>1, <1>2, <1>3, <1>4, SendIs

LEMMA GotoIs ==
  ASSUME Types, NEW k \in Streams, NEW p \in Phases, Goto(k, p)
  PROVE  /\ phase' \in [Streams -> Phases] /\ phase'[k] = p
         /\ \A j \in Streams \ {k} : phase'[j] = phase[j]
BY DEF Types, Goto

LEMMA RaiseIs ==
  ASSUME Types, NEW k \in Streams, Raise(k)
  PROVE  /\ events' \in [Streams -> Events]
         /\ events'[k] = Append(events[k], Event("error", <<>>))
         /\ \A j \in Streams \ {k} : events'[j] = events[j]
         /\ phase' \in [Streams -> Phases] /\ phase'[k] = "ended"
         /\ \A j \in Streams \ {k} : phase'[j] = phase[j]
<1>1. "error" \in EventKinds /\ "ended" \in Phases /\ <<>> \in Text
  BY TextFacts DEF EventKinds, Phases
<1> QED
  BY <1>1, SendIs, GotoIs DEF Raise

LEMMA StepTypes ==
  ASSUME Types, NEW k \in Streams, Step(k) \/ Disconnect(k)
  PROVE  Types' /\ Others(k)
<1>0. /\ <<>> \in Text
      /\ \A p \in {"bareMeta", "bareDone", "ended", "meta", "refused", "done", "open", "collected",
                   "connect", "read", "echo", "cache", "save"} : p \in Phases
      /\ {"meta", "done", "saved"} \subseteq EventKinds
  BY TextFacts DEF Phases, EventKinds
<1>f. /\ provider \in Providers /\ cache \in Text \cup {NoText}
      /\ phase[k] \in Phases /\ given[k] \in Text \cup {NoText} /\ rest[k] \in Text
      /\ held[k] \in Text /\ full[k] \in Text /\ pending[k] \in BOOLEAN
      /\ attempt[k] \in 0 .. Attempts - 1
  BY DEF Types
<1>h. Hit \in Text \cup {NoText} /\ Purged \in Text \cup {NoText}
  BY HitType
<1>a. \A p \in Providers : \A t \in Responses[p] : t \in Text
  BY AnswersAreTexts
<1>1. CASE PrepareEmpty(k)
  BY <1>1, <1>0, GotoIs DEF Types, Others, own, PrepareEmpty
<1>2. CASE Bare(k)
  <2>1. PICK kind \in {"meta", "done"}, p \in {"bareDone", "ended"} :
          Send(k, kind, <<>>) /\ Goto(k, p)
    BY <1>2 DEF Bare
  <2> QED
    BY <1>2, <2>1, <1>0, SendIs, GotoIs DEF Types, Others, Bare
<1>3. ASSUME NEW allowed \in BOOLEAN, Prepare(k, allowed)
      PROVE  Types' /\ Others(k)
  <2>1. PICK p \in Phases : Goto(k, p)
    BY <1>3, <1>0 DEF Prepare
  <2> QED
    BY <1>3, <2>1, <1>h, GotoIs DEF Types, Others, Prepare
<1>4. CASE Meta(k)
  <2>1. PICK p \in Phases : Goto(k, p)
    BY <1>4, <1>0 DEF Meta
  <2> QED
    BY <1>4, <2>1, <1>0, SendIs, GotoIs DEF Types, Others, Meta
<1>5. CASE OpenDisabled(k)
  BY <1>5, <1>0, AnswersAreTexts, DeliverIs, GotoIs DEF Types, Others, own, OpenDisabled
<1>6. CASE OpenCached(k)
  BY <1>6, <1>0, <1>h, DeliverIs, GotoIs DEF Types, Others, own, OpenCached
<1>7. CASE OpenMiss(k)
  BY <1>7, <1>0, <1>h, GotoIs DEF Types, Others, own, OpenMiss
<1>8. ASSUME NEW t \in Responses[provider], Connect(k, t)
      PROVE  Types' /\ Others(k)
  BY <1>8, <1>0, <1>f, <1>a, GotoIs DEF Types, Others, Connect
<1>9. CASE Read(k)
  <2>1. Tail(rest[k]) \in Text /\ <<Head(rest[k])>> \in Text
    BY <1>9, <1>f, TextFacts DEF Read
  <2> QED
    BY <1>9, <2>1, DeliverIs DEF Types, Others, Read
<1>10. CASE ReadPending(k)
  <2> DEFINE t == Append(held[k], Head(rest[k]))
  <2>1. Tail(rest[k]) \in Text /\ t \in Text
    BY <1>10, <1>f, TextFacts DEF ReadPending
  <2>2. /\ rest' = [rest EXCEPT ![k] = Tail(rest[k])]
        /\ IF t \in Openings
           THEN held' = [held EXCEPT ![k] = t] /\ UNCHANGED <<pending, full, events>>
           ELSE /\ held' = [held EXCEPT ![k] = <<>>]
                /\ pending' = [pending EXCEPT ![k] = FALSE]
                /\ Deliver(k, t)
        /\ UNCHANGED <<provider, disabled, restarts, cache, complete, phase, given, attempt>>
    BY <1>10 DEF ReadPending
  <2> HIDE DEF t
  <2>3. CASE t \in Openings
    BY <2>1, <2>2, <2>3 DEF Types, Others
  <2>4. CASE t \notin Openings
    BY <2>1, <2>2, <2>4, <1>0, DeliverIs DEF Types, Others
  <2> QED
    BY <2>3, <2>4
<1>11. CASE Flush(k)
  <2>1. Append(held[k], Head(rest[k])) \in Text
    BY <1>11, <1>f, TextFacts DEF Flush
  <2> QED
    BY <1>11, <2>1, <1>0 DEF Types, Others, Flush
<1>28. CASE Skip(k)
  <2>1. Tail(rest[k]) \in Text
    BY <1>28, <1>f, TextFacts DEF Skip
  <2> QED
    BY <1>28, <2>1 DEF Types, Others, Skip
<1>29. CASE Close(k)
  BY <1>29, <1>0 DEF Types, Others, Close
<1>12. CASE EndOfStream(k)
  BY <1>12, <1>0, <1>f, GotoIs DEF Types, Others, own, EndOfStream
<1>13. CASE EndInDoubt(k)
  <2>1. /\ full' \in [Streams -> Text] /\ events' \in [Streams -> Events]
        /\ \A j \in Streams \ {k} : full'[j] = full[j] /\ events'[j] = events[j]
    BY <1>13, <1>f, DeliverIs DEF EndInDoubt
  <2>2. complete' \in SUBSET Text /\ complete \subseteq complete'
    BY <1>13, <2>1 DEF EndInDoubt, Types
  <2> QED
    BY <1>13, <1>0, <2>1, <2>2, GotoIs DEF Types, Others, EndInDoubt
<1>14. CASE EndInEcho(k)
  BY <1>14, <1>0, GotoIs DEF Types, Others, own, EndInEcho
<1>15. ASSUME NEW t \in Responses[provider], EchoFallback(k, t)
      PROVE  Types' /\ Others(k)
  <2>1. t \in Text /\ cache' \in Text \cup {NoText}
    BY <1>15, <1>f, <1>a DEF EchoFallback
  <2>2. CASE t # <<>>
    BY <1>15, <2>1, <2>2, <1>0, DeliverIs, GotoIs DEF Types, Others, EchoFallback
  <2>3. CASE t = <<>>
    BY <1>15, <2>1, <2>3, RaiseIs DEF Types, Others, EchoFallback
  <2> QED
    BY <2>2, <2>3
<1>16. CASE Break(k)
  BY <1>16, RaiseIs DEF Types, Others, own, Break
<1>17. CASE Retry(k)
  <2>1. attempt' \in [Streams -> 0 .. Attempts - 1]
    <3>1. attempt[k] + 1 \in 0 .. Attempts - 1
      BY <1>17, <1>f, AiStreamAssumption DEF Retry
    <3>2. attempt' = [attempt EXCEPT ![k] = attempt[k] + 1]
      BY <1>17 DEF Retry
    <3> QED
      BY <3>1, <3>2 DEF Types
  <2> QED
    BY <1>17, <2>1, <1>0, GotoIs DEF Types, Others, Retry
<1>18. CASE GiveUp(k)
  BY <1>18, <1>0, AnswersAreTexts, DeliverIs, GotoIs DEF Types, Others, own, GiveUp
<1>19. ASSUME NEW t \in Responses[provider] \cup {cache}, Fallback(k, t)
      PROVE  Types' /\ Others(k)
  <2>1. t \in Text /\ cache' \in Text \cup {NoText}
    BY <1>19, <1>f, <1>h, <1>a DEF Fallback, SummaryTexts
  <2> QED
    BY <1>19, <2>1, <1>0, GotoIs DEF Types, Others, Fallback
<1>20. CASE FallbackFails(k)
  BY <1>20, <1>0, <1>h, GotoIs DEF Types, Others, own, FallbackFails
<1>21. CASE FallbackNull(k)
  BY <1>21, RaiseIs DEF Types, Others, own, FallbackNull
<1>22. CASE Collected(k)
  BY <1>22, <1>0, GotoIs DEF Types, Others, own, Collected
<1>23. CASE CacheResult(k)
  <2>1. cache' \in Text \cup {NoText}
    BY <1>23, <1>f DEF CacheResult
  <2> QED
    BY <1>23, <2>1, <1>0, GotoIs DEF Types, Others, CacheResult, own
<1>24. CASE Done(k)
  <2>1. PICK t \in Text : Send(k, "done", t)
    BY <1>24, <1>f DEF Done
  <2> QED
    BY <1>24, <2>1, <1>0, SendIs, GotoIs DEF Types, Others, Done
<1>25. CASE Save(k)
  <2>1. PICK t \in Text : Send(k, "saved", t)
    BY <1>25, <1>f DEF Save
  <2> QED
    BY <1>25, <2>1, <1>0, SendIs, GotoIs DEF Types, Others, Save
<1>26. CASE SaveFails(k)
  BY <1>26, <1>0, GotoIs DEF Types, Others, own, SaveFails
<1>27. CASE Disconnect(k)
  BY <1>27, <1>0, GotoIs DEF Types, Others, own, Disconnect
<1> QED
  BY <1>1, <1>2, <1>3, <1>4, <1>5, <1>6, <1>7, <1>8, <1>9, <1>10, <1>11, <1>12, <1>13, <1>14, <1>15, <1>16, <1>17, <1>18, <1>19, <1>20, <1>21, <1>22, <1>23, <1>24, <1>25, <1>26, <1>27, <1>28, <1>29 DEF Step

-----------------------------------------------------------------------------
(* What a stream holds back.                                               *)

\* Only Perplexity compares with the prompt, and only what is read is held.
HeldOK(k) ==
  /\ held[k] # <<>> => phase[k] \in {"read", "ended"} /\ pending[k]
  /\ pending[k] => provider = "perplexity"

LEMMA HeldStep ==
  ASSUME Types, NEW k \in Streams, HeldOK(k), Step(k) \/ Disconnect(k)
  PROVE  HeldOK(k)'
<1>0. Types' /\ Others(k)
  BY StepTypes
<1>p. provider' = provider
  BY <1>0 DEF Others
<1>1. ASSUME held'[k] = held[k], pending'[k] = pending[k],
             held[k] = <<>> \/ phase'[k] = "ended" \/ phase'[k] = phase[k]
      PROVE  HeldOK(k)'
  BY <1>1, <1>p DEF HeldOK
<1>2. ASSUME held' = held, pending' = pending,
             phase[k] \notin {"read", "ended"} \/ provider = "mistral" \/ held[k] = <<>>
      PROVE  HeldOK(k)'
  <2>1. held[k] = <<>>
    BY <1>2 DEF HeldOK
  <2> QED
    BY <1>1, <1>2, <2>1
<1>3. ASSUME held' = held, pending' = pending, Goto(k, "ended")
      PROVE  HeldOK(k)'
  <2>1. phase'[k] = "ended"
    BY <1>3, GotoIs DEF Phases
  <2> QED
    BY <1>1, <1>3, <2>1
<1>4. CASE PrepareEmpty(k) \/ OpenMiss(k)
  BY <1>4, <1>2 DEF PrepareEmpty, OpenMiss, own, At
<1>5. CASE Bare(k) \/ Meta(k)
  BY <1>5, <1>2 DEF Bare, Meta, At
<1>6. CASE \E allowed \in BOOLEAN : Prepare(k, allowed)
  BY <1>6, <1>2 DEF Prepare, At
<1>7. CASE OpenDisabled(k) \/ OpenCached(k)
  BY <1>7, <1>2 DEF OpenDisabled, OpenCached, At
<1>8. CASE \E t \in Responses[provider] : Connect(k, t)
  BY <1>8, <1>2 DEF Connect, At
<1>9. CASE Read(k)
  <2>1. held' = held /\ pending' = pending /\ held[k] = <<>>
    BY <1>9 DEF Read, HeldOK
  <2> QED
    BY <2>1, <1>2
<1>10. CASE ReadPending(k)
  <2> DEFINE t == Append(held[k], Head(rest[k]))
  <2>1. /\ pending[k] /\ phase' = phase /\ phase[k] = "read"
        /\ \/ held' = [held EXCEPT ![k] = t] /\ pending' = pending
           \/ /\ held' = [held EXCEPT ![k] = <<>>]
              /\ pending' = [pending EXCEPT ![k] = FALSE]
    BY <1>10 DEF ReadPending, At
  <2> HIDE DEF t
  <2>2. CASE held' = [held EXCEPT ![k] = t] /\ pending' = pending
    BY <2>1, <2>2, <1>p DEF HeldOK
  <2>3. CASE /\ held' = [held EXCEPT ![k] = <<>>]
             /\ pending' = [pending EXCEPT ![k] = FALSE]
    BY <2>3, <1>p DEF HeldOK, Types
  <2> QED
    BY <2>1, <2>2, <2>3
<1>11. CASE Flush(k)
  <2>1. pending[k] /\ phase' = phase /\ phase[k] = "read" /\ pending' = pending
    BY <1>11 DEF Flush, At
  <2> QED
    BY <2>1, <1>p DEF HeldOK
<1>21. CASE Skip(k) \/ Close(k)
  <2>1. held' = held /\ pending' = pending /\ phase' = phase
    BY <1>21 DEF Skip, Close
  <2> QED
    BY <2>1, <1>1
<1>12. CASE EndOfStream(k)
  BY <1>12, <1>2 DEF EndOfStream, own
<1>13. CASE EndInDoubt(k) \/ EndInEcho(k)
  <2>1. held' = [held EXCEPT ![k] = <<>>] /\ pending' = pending
    BY <1>13 DEF EndInDoubt, EndInEcho
  <2>2. held'[k] = <<>> /\ pending'[k] = pending[k]
    BY <2>1 DEF Types
  <2> QED
    BY <2>2, <1>p DEF HeldOK
<1>14. CASE \E t \in Responses[provider] : EchoFallback(k, t)
  BY <1>14, <1>2 DEF EchoFallback, At
<1>15. CASE Break(k) \/ FallbackNull(k)
  BY <1>15, <1>3 DEF Break, FallbackNull, Raise
<1>16. CASE Retry(k) \/ GiveUp(k)
  BY <1>16, <1>2 DEF Retry, GiveUp
<1>17. CASE \E t \in Responses[provider] \cup {cache} : Fallback(k, t)
  BY <1>17, <1>2 DEF Fallback, At
<1>18. CASE FallbackFails(k) \/ Collected(k) \/ CacheResult(k)
  BY <1>18, <1>2 DEF FallbackFails, Collected, CacheResult, At, own
<1>19. CASE Done(k) \/ Save(k) \/ SaveFails(k)
  BY <1>19, <1>2 DEF Done, Save, SaveFails, At, own
<1>20. CASE Disconnect(k)
  BY <1>20, <1>3 DEF Disconnect, own
<1> QED
  BY <1>4, <1>5, <1>6, <1>7, <1>8, <1>9, <1>10, <1>11, <1>12, <1>13, <1>14, <1>15, <1>16,
     <1>17, <1>18, <1>19, <1>20, <1>21 DEF Step

-----------------------------------------------------------------------------
(* The events and the text that has been shown.                            *)

Silent == {"new", "refused", "bareMeta", "meta"}
Talking == {"bareDone", "open", "connect", "read", "echo", "collected", "cache", "done"}

\* Nothing more is shown; and where a text of the cache may take a stream
Late == {"cache", "done", "save", "ended"}
Served == {"meta", "done", "save", "ended"}

ShapeOK(k) ==
  /\ phase[k] \in Silent => events[k] = <<>>
  /\ phase[k] \in Talking => Began(events[k])
  /\ phase[k] = "save" => Closed(events[k])
  /\ InOrder(events[k])

\* In phase p, g given, f collected and e sent: what was shown is what is
\* collected, until a fallback answers that was not shown at all; a text of the
\* cache is shown in one piece.
TextOK(p, g, f, e) ==
  /\ p \notin Late \/ HasDelta(e) => f = DeltaText(e)
  /\ p = "bareDone" \/ g # NoText => ~HasDelta(e)
  /\ g # NoText => p \in Served
  /\ DoneShown(e)

ShownOK(k) == TextOK(phase[k], given[k], full[k], events[k])

LEMMA SentShape ==
  ASSUME Types, NEW k \in Streams, ShapeOK(k), NEW kind \in EventKinds, NEW t \in Text,
         Send(k, kind, t), phase'[k] \in Phases,
         \/ /\ phase[k] \in Silent /\ kind = "meta"
            /\ phase'[k] \in Talking \cup {"ended"}
         \/ /\ phase[k] \in Talking /\ kind = "delta"
            /\ phase'[k] \in Talking \cup {"ended"}
         \/ phase[k] \in Talking /\ kind = "done" /\ phase'[k] \in {"save", "ended"}
         \/ phase[k] \in Talking /\ kind = "error" /\ phase'[k] = "ended"
         \/ phase[k] = "save" /\ kind = "saved" /\ phase'[k] = "ended"
  PROVE  ShapeOK(k)'
<1> DEFINE e == events[k]
           x == Event(kind, t)
           a == Append(e, x)
<1>1. e \in Events /\ x \in EventType /\ x.kind = kind
  BY EventIs DEF Types
<1>2. events'[k] = a /\ a \in Events
  BY <1>1, SendIs, EventFacts
<1>3. /\ phase[k] \in Silent => e = <<>>
      /\ phase[k] \in Talking => Began(e)
      /\ phase[k] = "save" => Closed(e)
  BY DEF ShapeOK
<1>4. Began(a) \/ Closed(a) => InOrder(a)
  BY <1>2, BeganInOrder, ClosedInOrder
<1>s. /\ e = <<>> /\ kind = "meta" => Began(a)
      /\ Began(e) /\ kind = "delta" => Began(a)
      /\ Began(e) /\ kind = "done" => Closed(a)
  BY <1>1, ShapeAppend
<1>l. (Began(e) /\ kind = "error") \/ (Closed(e) /\ kind = "saved") => InOrder(a)
  BY <1>1, LastInOrder
<1> HIDE DEF e, x, a
<1>5. \/ Began(a) /\ phase'[k] \in Talking \cup {"ended"}
      \/ Closed(a) /\ phase'[k] \in {"save", "ended"}
      \/ InOrder(a) /\ phase'[k] = "ended"
  BY <1>3, <1>s, <1>l
<1> QED
  BY <1>2, <1>4, <1>5 DEF ShapeOK, Silent, Talking

LEMMA TextQuiet ==
  ASSUME NEW p, NEW q, NEW g, NEW f, NEW e, TextOK(p, g, f, e),
         \/ q = p
         \/ /\ q # "bareDone"
            /\ p \in Late => q \in Late
            /\ g # NoText => q \in Served
  PROVE  TextOK(q, g, f, e)
BY DEF TextOK

LEMMA TextSent ==
  ASSUME NEW p, NEW g, NEW f, NEW e \in Events, NEW x \in EventType, TextOK(p, g, f, e),
         x.kind # "delta", x.kind = "done" /\ HasDelta(e) => x.text = f
  PROVE  TextOK(p, g, f, Append(e, x))
<1>1. /\ HasDelta(Append(e, x)) <=> HasDelta(e)
      /\ DeltaText(Append(e, x)) = DeltaText(e)
  BY DeltaAppend
<1>2. DoneShown(Append(e, x))
  <2>1. DoneShown(e) /\ (HasDelta(e) => f = DeltaText(e))
    BY DEF TextOK
  <2> QED
    BY <2>1, DoneShownAppend
<1> QED
  BY <1>1, <1>2 DEF TextOK

LEMMA TextDelivered ==
  ASSUME NEW p, NEW g, NEW f, NEW e \in Events, NEW t \in Text, TextOK(p, g, f, e),
         p \notin Late \cup Served \cup {"bareDone"}, Began(e)
  PROVE  TextOK(p, g, f \o t, Append(e, Event("delta", t)))
<1> DEFINE x == Event("delta", t)
<1>1. x \in EventType /\ x.kind = "delta" /\ x.text = t
  BY EventIs DEF EventKinds
<1> HIDE DEF x
<1>2. g = NoText /\ f = DeltaText(e) /\ DoneShown(e)
  BY DEF TextOK
<1>3. DeltaText(Append(e, x)) = f \o t
  BY <1>1, <1>2, DeltaAppend
<1>4. DoneShown(Append(e, x))
  BY <1>1, <1>2, DoneShownAppend
<1> QED
  BY <1>2, <1>3, <1>4 DEF TextOK, x

\* The three ways a step of a stream treats its events
LEMMA QuietStep ==
  ASSUME Types, NEW k \in Streams, ShapeOK(k), ShownOK(k),
         events'[k] = events[k], given'[k] = given[k], full'[k] = full[k],
         \/ phase'[k] = phase[k] \/ phase'[k] = "ended"
         \/ /\ phase[k] \in Talking /\ phase'[k] \in Talking \ {"bareDone"}
            /\ phase[k] \in Late => phase'[k] \in Late
            /\ phase'[k] \in Served \/ phase[k] \notin Served
  PROVE  ShapeOK(k)' /\ ShownOK(k)'
<1>1. ShapeOK(k)'
  BY DEF ShapeOK, Silent, Talking
<1>2. given[k] # NoText => phase[k] \in Served
  BY DEF ShownOK, TextOK
<1>3. \/ phase'[k] = phase[k]
      \/ /\ phase'[k] # "bareDone"
         /\ phase[k] \in Late => phase'[k] \in Late
         /\ given[k] # NoText => phase'[k] \in Served
  BY <1>2 DEF Late, Served
<1>4. TextOK(phase'[k], given[k], full[k], events[k])
  BY <1>3, TextQuiet DEF ShownOK
<1> QED
  BY <1>1, <1>4 DEF ShownOK

LEMMA SendStep ==
  ASSUME Types, NEW k \in Streams, ShapeOK(k), ShownOK(k), NEW kind \in EventKinds, NEW t \in Text,
         Send(k, kind, t), given'[k] = given[k], full'[k] = full[k], phase'[k] \in Phases,
         \/ /\ phase[k] \in Silent /\ kind = "meta" /\ phase'[k] \in Talking \ {"bareDone"}
            /\ given[k] # NoText => phase'[k] = "done"
         \/ /\ phase[k] \in Talking /\ kind = "done" /\ phase'[k] \in {"save", "ended"}
            /\ HasDelta(events[k]) => t = full[k]
         \/ phase[k] \in Talking /\ kind = "error" /\ phase'[k] = "ended"
         \/ phase[k] = "save" /\ kind = "saved" /\ phase'[k] = "ended"
  PROVE  ShapeOK(k)' /\ ShownOK(k)'
<1> DEFINE x == Event(kind, t)
<1>1. ShapeOK(k)'
  BY SentShape
<1>2. events[k] \in Events /\ x \in EventType /\ x.kind = kind /\ x.text = t /\ kind # "delta"
  BY EventIs DEF Types
<1>3. events'[k] = Append(events[k], x)
  BY SendIs
<1> HIDE DEF x
<1>4. TextOK(phase[k], given[k], full[k], Append(events[k], x))
  BY <1>2, TextSent DEF ShownOK
<1>5. \/ phase'[k] = phase[k]
      \/ /\ phase'[k] # "bareDone"
         /\ phase[k] \in Late => phase'[k] \in Late
         /\ given[k] # NoText => phase'[k] \in Served
  BY DEF Late, Served, Silent, Talking
<1>6. TextOK(phase'[k], given[k], full[k], Append(events[k], x))
  BY <1>4, <1>5, TextQuiet
<1> QED
  BY <1>1, <1>3, <1>6 DEF ShownOK

LEMMA DeliverStep ==
  ASSUME Types, NEW k \in Streams, ShapeOK(k), ShownOK(k), NEW t \in Text,
         Deliver(k, t), given'[k] = given[k],
         phase[k] \in {"open", "connect", "read", "echo"},
         phase'[k] \in {"read", "collected"}
  PROVE  ShapeOK(k)' /\ ShownOK(k)'
<1>1. "delta" \in EventKinds /\ Send(k, "delta", t) /\ phase'[k] \in Phases
  BY DEF Deliver, EventKinds, Phases
<1>2. phase[k] \in Talking /\ phase'[k] \in Talking
  BY DEF Talking
<1>3. ShapeOK(k)'
  BY <1>1, <1>2, SentShape
<1>4. events[k] \in Events /\ Began(events[k])
  BY <1>2 DEF Types, ShapeOK
<1>5. phase[k] \notin Late \cup Served \cup {"bareDone"} /\ phase'[k] # "bareDone"
  BY DEF Late, Served
<1>6. TextOK(phase[k], given[k], full[k] \o t, Append(events[k], Event("delta", t)))
  BY <1>4, <1>5, TextDelivered DEF ShownOK
<1>7. given[k] = NoText
  BY <1>5 DEF ShownOK, TextOK
<1>8. TextOK(phase'[k], given[k], full[k] \o t, Append(events[k], Event("delta", t)))
  BY <1>5, <1>6, <1>7, TextQuiet
<1>9. events'[k] = Append(events[k], Event("delta", t)) /\ full'[k] = full[k] \o t
  BY DeliverIs
<1> QED
  BY <1>3, <1>8, <1>9 DEF ShownOK

LEMMA ShownStep ==
  ASSUME Types, NEW k \in Streams, HeldOK(k), ShapeOK(k), ShownOK(k), Step(k) \/ Disconnect(k)
  PROVE  ShapeOK(k)' /\ ShownOK(k)'
<1>0. Types' /\ Others(k)
  BY StepTypes
<1>f. /\ provider \in Providers /\ given[k] \in Text \cup {NoText} /\ rest[k] \in Text
      /\ held[k] \in Text /\ full[k] \in Text /\ <<>> \in Text
  BY TextFacts DEF Types
<1>g. \A p \in Phases : Goto(k, p) => phase'[k] = p
  BY GotoIs
<1>p. Silent \cup Talking \cup {"ended", "save"} \subseteq Phases
  BY DEF Silent, Talking, Phases
<1>a. \A p \in Providers : \A t \in Responses[p] : t \in Text
  BY AnswersAreTexts
<1>1. CASE PrepareEmpty(k)
  <2>1. /\ phase[k] = "new" /\ phase'[k] = "bareMeta" /\ events[k] = <<>>
        /\ events' = events /\ given' = given /\ full' = full
    BY <1>1, <1>g, <1>p DEF PrepareEmpty, At, own, Silent, ShapeOK
  <2>2. given[k] = NoText /\ full[k] = DeltaText(events[k])
    BY <2>1 DEF ShownOK, TextOK, Served, Late
  <2> QED
    BY <2>1, <2>2, NoEvents DEF ShapeOK, ShownOK, TextOK, Silent, Talking
<1>2. CASE Bare(k)
  <2>1. CASE At(k, "bareMeta") /\ Send(k, "meta", <<>>) /\ Goto(k, "bareDone")
    <3>1. phase[k] = "bareMeta" /\ phase'[k] = "bareDone" /\ events[k] = <<>>
          /\ given' = given /\ full' = full /\ given[k] = NoText /\ full[k] = DeltaText(events[k])
      BY <2>1, <1>2, <1>g, <1>p
         DEF Bare, At, ShapeOK, ShownOK, TextOK, Silent, Talking, Served, Late
    <3>2. ShapeOK(k)'
      BY <2>1, <3>1, <1>f, <1>p, SentShape DEF Silent, Talking, EventKinds
    <3> DEFINE x == Event("meta", <<>>)
    <3>3. x \in EventType /\ x.kind = "meta"
      BY <1>f, EventIs DEF EventKinds
    <3>4. events'[k] = Append(events[k], x)
      BY <2>1, <1>f, SendIs DEF EventKinds
    <3>5. events[k] \in Events
      BY DEF Types
    <3> HIDE DEF x
    <3>6. /\ ~HasDelta(events'[k]) /\ DeltaText(events'[k]) = full[k]
          /\ DoneShown(events'[k])
      <4>1. /\ DeltaText(Append(events[k], x)) = DeltaText(events[k])
            /\ HasDelta(Append(events[k], x)) <=> HasDelta(events[k])
        BY <3>3, <3>5, DeltaAppend
      <4>2. ~HasDelta(events[k]) /\ DoneShown(events[k])
        BY <3>1, NoEvents
      <4>3. DoneShown(Append(events[k], x))
        BY <3>3, <3>5, <4>2, DoneShownAppend
      <4> QED
        BY <3>1, <3>4, <4>1, <4>2, <4>3
    <3> QED
      BY <3>1, <3>2, <3>6 DEF ShownOK, TextOK
  <2>2. CASE At(k, "bareDone") /\ Send(k, "done", <<>>) /\ Goto(k, "ended")
    <3>1. phase[k] = "bareDone" /\ phase'[k] = "ended" /\ given' = given /\ full' = full
      BY <2>2, <1>2, <1>g, <1>p DEF Bare, At
    <3>2. ~HasDelta(events[k])
      BY <3>1 DEF ShownOK, TextOK
    <3> QED
      BY <2>2, <3>1, <3>2, <1>f, <1>p, SendStep DEF Talking, EventKinds
  <2> QED
    BY <1>2, <2>1, <2>2 DEF Bare
<1>3. ASSUME NEW allowed \in BOOLEAN, Prepare(k, allowed)
      PROVE  ShapeOK(k)' /\ ShownOK(k)'
  <2>1. /\ phase[k] = "new" /\ phase'[k] \in {"meta", "refused"} /\ events[k] = <<>>
        /\ events' = events /\ given'[k] = Hit /\ full' = full
        /\ Hit # NoText => phase'[k] = "meta"
    BY <1>3, <1>g, <1>p DEF Prepare, At, Silent, ShapeOK, Types
  <2>2. full[k] = DeltaText(events[k])
    BY <2>1 DEF ShownOK, TextOK, Late
  <2>3. ShapeOK(k)'
    BY <2>1, NoEvents DEF ShapeOK, Silent, Talking
  <2> QED
    BY <2>1, <2>2, <2>3, NoEvents DEF ShownOK, TextOK, Served
<1>4. CASE Meta(k)
  <2>1. /\ phase[k] = "meta" /\ phase'[k] = (IF given[k] # NoText THEN "done" ELSE "open")
        /\ Send(k, "meta", <<>>) /\ given' = given /\ full' = full
    BY <1>4, <1>g, <1>p DEF Meta, At, Talking
  <2> QED
    BY <2>1, <1>f, <1>p, SendStep DEF Silent, Talking, EventKinds
<1>5. CASE OpenDisabled(k)
  <2>1. phase[k] = "open" /\ phase'[k] = "collected" /\ Deliver(k, Placeholder) /\ given' = given
    BY <1>5, <1>g, <1>p DEF OpenDisabled, At, Talking
  <2> QED
    BY <2>1, AnswersAreTexts, DeliverStep
<1>6. CASE OpenCached(k)
  <2>1. /\ phase[k] = "open" /\ phase'[k] = "collected" /\ Deliver(k, Hit) /\ given' = given
        /\ Hit # NoText
    BY <1>6, <1>g, <1>p DEF OpenCached, At, Talking
  <2>2. Hit \in Text
    BY <2>1, HitType
  <2> QED
    BY <2>1, <2>2, DeliverStep
<1>7. CASE OpenMiss(k)
  <2>1. phase[k] = "open" /\ phase'[k] = "connect"
        /\ events' = events /\ given' = given /\ full' = full
    BY <1>7, <1>g, <1>p DEF OpenMiss, At, own, Talking
  <2> QED
    BY <2>1, QuietStep DEF Talking, Late, Served
<1>8. ASSUME NEW t \in Responses[provider], Connect(k, t)
      PROVE  ShapeOK(k)' /\ ShownOK(k)'
  <2>1. phase[k] = "connect" /\ phase'[k] = "read"
        /\ events' = events /\ given' = given /\ full' = full
    BY <1>8, <1>g, <1>p DEF Connect, At, Talking
  <2> QED
    BY <2>1, QuietStep DEF Talking, Late, Served
<1>9. CASE Read(k)
  <2>1. /\ phase[k] = "read" /\ phase' = phase /\ Deliver(k, <<Head(rest[k])>>)
        /\ given' = given /\ rest[k] # <<>>
    BY <1>9 DEF Read, At
  <2>2. <<Head(rest[k])>> \in Text
    BY <2>1, <1>f, TextFacts
  <2> QED
    BY <2>1, <2>2, DeliverStep
<1>10. CASE ReadPending(k)
  <2> DEFINE t == Append(held[k], Head(rest[k]))
  <2>1. t \in Text
    BY <1>10, <1>f, TextFacts DEF ReadPending
  <2>2. /\ phase[k] = "read" /\ phase' = phase /\ given' = given
        /\ Deliver(k, t) \/ UNCHANGED <<full, events>>
    BY <1>10 DEF ReadPending, At
  <2> HIDE DEF t
  <2> QED
    BY <2>1, <2>2, DeliverStep, QuietStep
<1>11. CASE Flush(k) \/ Skip(k) \/ Close(k)
  BY <1>11, QuietStep DEF Flush, Skip, Close
<1>12. CASE EndOfStream(k)
  <2>1. phase[k] = "read" /\ phase'[k] = "collected"
        /\ events' = events /\ given' = given /\ full' = full
    BY <1>12, <1>g, <1>p DEF EndOfStream, At, own, Talking
  <2> QED
    BY <2>1, QuietStep DEF Talking, Late, Served
<1>13. CASE EndInDoubt(k)
  <2>1. phase[k] = "read" /\ phase'[k] = "collected" /\ Deliver(k, held[k]) /\ given' = given
    BY <1>13, <1>g, <1>p DEF EndInDoubt, At, Talking
  <2> QED
    BY <2>1, <1>f, DeliverStep
<1>14. CASE EndInEcho(k)
  <2>1. phase[k] = "read" /\ phase'[k] = "echo"
        /\ events' = events /\ given' = given /\ full' = full
    BY <1>14, <1>g, <1>p DEF EndInEcho, At, Talking
  <2> QED
    BY <2>1, QuietStep DEF Talking, Late, Served
<1>15. ASSUME NEW t \in Responses[provider], EchoFallback(k, t)
       PROVE  ShapeOK(k)' /\ ShownOK(k)'
  <2>1. phase[k] = "echo" /\ given' = given /\ t \in Text
    BY <1>15, <1>f, <1>a DEF EchoFallback, At
  <2>2. CASE Deliver(k, t) /\ Goto(k, "collected")
    BY <2>1, <2>2, <1>g, <1>p, DeliverStep DEF Talking
  <2>3. CASE Raise(k) /\ UNCHANGED full
    BY <2>1, <2>3, <1>f, <1>g, <1>p, SendStep DEF Raise, Talking, EventKinds
  <2> QED
    BY <1>15, <2>2, <2>3 DEF EchoFallback
<1>16. CASE Break(k) \/ FallbackNull(k)
  <2>1. /\ phase[k] \in {"connect", "read", "echo", "collected"} /\ given' = given /\ full' = full
        /\ Send(k, "error", <<>>) /\ phase'[k] = "ended"
    BY <1>16, <1>g, <1>p DEF Break, FallbackNull, Raise, At
  <2> QED
    BY <2>1, <1>f, <1>p, SendStep DEF Talking, EventKinds
<1>17. CASE Retry(k)
  <2>1. phase[k] \in {"connect", "read"} /\ phase'[k] = "connect"
        /\ events' = events /\ given' = given /\ full' = full
    BY <1>17, <1>g, <1>p DEF Retry, Talking
  <2> QED
    BY <2>1, QuietStep DEF Talking, Late, Served
<1>18. CASE GiveUp(k)
  <2>1. /\ phase[k] \in {"connect", "read"} /\ phase'[k] = "collected"
        /\ Deliver(k, ErrorText) /\ given' = given
    BY <1>18, <1>g, <1>p DEF GiveUp, Talking
  <2> QED
    BY <2>1, AnswersAreTexts, DeliverStep
<1>19. ASSUME NEW t \in Responses[provider] \cup {cache}, Fallback(k, t)
       PROVE  ShapeOK(k)' /\ ShownOK(k)'
  <2>1. /\ phase[k] = "collected" /\ phase'[k] = "cache" /\ ~HasDelta(events[k])
        /\ events' = events /\ given' = given
    BY <1>19, <1>g, <1>p DEF Fallback, At, Talking, Streamed, HasDelta
  <2>2. given[k] = NoText /\ DoneShown(events[k])
    BY <2>1 DEF ShownOK, TextOK, Served
  <2>3. ShapeOK(k)'
    BY <2>1 DEF ShapeOK, Silent, Talking
  <2> QED
    BY <2>1, <2>2, <2>3 DEF ShownOK, TextOK, Late
<1>20. CASE FallbackFails(k) \/ Collected(k)
  <2>1. /\ phase[k] = "collected" /\ phase'[k] = "cache"
        /\ events' = events /\ given' = given /\ full' = full
    BY <1>20, <1>g, <1>p DEF FallbackFails, Collected, At, own, Talking
  <2> QED
    BY <2>1, QuietStep DEF Talking, Late, Served
<1>21. CASE CacheResult(k)
  <2>1. /\ phase[k] = "cache" /\ phase'[k] = "done"
        /\ events' = events /\ given' = given /\ full' = full
    BY <1>21, <1>g, <1>p DEF CacheResult, At, own, Talking
  <2> QED
    BY <2>1, QuietStep DEF Talking, Late, Served
<1>22. CASE Done(k)
  <2> DEFINE t == IF given[k] # NoText THEN given[k] ELSE full[k]
  <2>1. /\ phase[k] = "done" /\ phase'[k] = "save" /\ given' = given /\ full' = full
        /\ Send(k, "done", t)
    BY <1>22, <1>g, <1>p DEF Done, At
  <2>2. t \in Text /\ (HasDelta(events[k]) => t = full[k])
    BY <1>f DEF ShownOK, TextOK
  <2> HIDE DEF t
  <2> QED
    BY <2>1, <2>2, <1>p, SendStep DEF Talking, EventKinds
<1>23. CASE Save(k)
  <2> DEFINE t == IF given[k] # NoText THEN given[k] ELSE full[k]
  <2>1. /\ phase[k] = "save" /\ phase'[k] = "ended" /\ given' = given /\ full' = full
        /\ Send(k, "saved", t) /\ t \in Text
    BY <1>23, <1>g, <1>p, <1>f DEF Save, At
  <2> HIDE DEF t
  <2> QED
    BY <2>1, <1>p, SendStep DEF EventKinds
<1>24. CASE SaveFails(k) \/ Disconnect(k)
  <2>1. phase'[k] = "ended" /\ events' = events /\ given' = given /\ full' = full
    BY <1>24, <1>g, <1>p DEF SaveFails, Disconnect, own
  <2> QED
    BY <2>1, QuietStep
<1> QED
  BY <1>1, <1>2, <1>3, <1>4, <1>5, <1>6, <1>7, <1>8, <1>9, <1>10, <1>11, <1>12, <1>13, <1>14,
     <1>15, <1>16, <1>17, <1>18, <1>19, <1>20, <1>21, <1>22, <1>23, <1>24 DEF Step

-----------------------------------------------------------------------------
(* Perplexity: the echo of the prompt and the fragments of an answer.      *)

\* Before the answer arrives
Before == {"new", "refused", "bareMeta", "bareDone", "meta", "open", "connect"}

\* In phase p, with d shown, g given and q whether the answer is in doubt:
\* nothing is shown while it is, and what is shown of an answer that arrives
\* has left the prompt for good.
EchoIn(p, d, g, q) ==
  /\ g \notin Echoes /\ d \notin Echoes \cap Openings
  /\ p \in Before \cup {"echo"} => d = <<>>
  /\ p \in Before => q
  /\ p = "read" => IF q THEN d = <<>> ELSE d \notin Openings \cup {<<>>}

\* In phase p, f collected and c the complete answers: what is collected when a
\* stream has ended is one of them, the empty text or the placeholder.
WholeIn(p, f, c) == p \in {"collected", "cache"} => f \in c \cup {<<>>, Placeholder}

EchoOK(k) == EchoIn(phase[k], DeltaText(events[k]), given[k], pending[k])
WholeOK(k) == WholeIn(phase[k], full[k], complete)
CacheOK == cache \in complete \cup {NoText, <<>>, Placeholder}

\* A longer text is no beginning of the prompt if the shorter one is none.
LEMMA LeftForGood ==
  ASSUME NEW d \in Text, NEW c \in Pieces, d \notin Openings \cup {<<>>}
  PROVE  d \o <<c>> \notin Openings \cup {<<>>}
<1> DEFINE t == d \o <<c>>
<1>1. /\ Len(t) > 1 /\ t # <<>>
      /\ SubSeq(t, 1, Len(t) - 1) = d
  <2>1. t \in Seq(Pieces) /\ Len(t) = Len(d) + 1 /\ Len(d) > 0 /\ Len(d) \in Nat
    BY DEF Text
  <2>2. \A i \in 1 .. Len(d) : t[i] = d[i]
    BY DEF Text
  <2> DEFINE u == SubSeq(t, 1, Len(t) - 1)
  <2>3. u \in Seq(Pieces) /\ Len(u) = Len(d) /\ \A i \in 1 .. Len(d) : u[i] = t[i]
    BY <2>1
  <2>4. u = d
    <3> HIDE DEF u, t
    <3> QED
      BY <2>1, <2>2, <2>3 DEF Text
  <2> QED
    BY <2>1, <2>4
<1> HIDE DEF t
<1>o. \A u \in Openings : Len(u) > 1 => SubSeq(u, 1, Len(u) - 1) \in Openings
  BY AiStreamAssumption
<1>2. ASSUME t \in Openings PROVE d \in Openings
  <2>1. SubSeq(t, 1, Len(t) - 1) \in Openings
    BY <1>1, <1>o, <1>2
  <2> QED
    BY <1>1, <2>1
<1> QED
  BY <1>1, <1>2 DEF t

LEMMA SentDelta ==
  ASSUME Types, NEW k \in Streams, NEW kind \in EventKinds, NEW t \in Text,
         Send(k, kind, t), kind # "delta"
  PROVE  DeltaText(events'[k]) = DeltaText(events[k])
<1>1. /\ events[k] \in Events /\ Event(kind, t) \in EventType
      /\ Event(kind, t).kind # "delta"
  BY EventIs DEF Types
<1> QED
  BY <1>1, SendIs, DeltaAppend

LEMMA DeliveredDelta ==
  ASSUME Types, NEW k \in Streams, NEW t \in Text, Deliver(k, t)
  PROVE  DeltaText(events'[k]) = DeltaText(events[k]) \o t
<1>1. /\ events[k] \in Events /\ Event("delta", t) \in EventType
      /\ Event("delta", t).kind = "delta" /\ Event("delta", t).text = t
  BY EventIs DEF Types, EventKinds
<1>2. events'[k] = Append(events[k], Event("delta", t))
  BY DeliverIs
<1>3. DeltaText(Append(events[k], Event("delta", t))) = DeltaText(events[k]) \o t
  BY <1>1, DeltaAppend
<1> QED
  BY <1>2, <1>3

\* What the cache gives Perplexity is no echo, but a complete answer.
LEMMA HitIsAnAnswer ==
  ASSUME provider = "perplexity", CacheOK
  PROVE  /\ Hit \notin Echoes
         /\ Hit # NoText => Hit \in complete \cup {<<>>, Placeholder}
         /\ Purged \in complete \cup {NoText, <<>>, Placeholder}
BY AiStreamAssumption DEF Hit, Purged, CacheOK

\* The stream shows nothing new and leaves or keeps its phase.
LEMMA EchoQuiet ==
  ASSUME NEW k, EchoOK(k), WholeOK(k), complete \subseteq complete',
         DeltaText(events'[k]) = DeltaText(events[k]),
         given'[k] = given[k], pending'[k] = pending[k], full'[k] = full[k],
         \/ phase'[k] = phase[k]
         \/ phase[k] \in Before /\ phase'[k] \in Before
         \/ phase'[k] \in {"done", "save", "ended"}
         \/ phase[k] = "collected" /\ phase'[k] = "cache"
  PROVE  EchoOK(k)' /\ WholeOK(k)'
<1>1. EchoIn(phase'[k], DeltaText(events[k]), given[k], pending[k])
  BY DEF EchoOK, EchoIn, Before
<1>2. WholeIn(phase'[k], full[k], complete')
  BY DEF WholeOK, WholeIn, Before
<1> QED
  BY <1>1, <1>2 DEF EchoOK, WholeOK

\* The answer of the cache, of a fallback or of DISABLE_AI is all that is shown.
LEMMA EchoAnswered ==
  ASSUME Types, NEW k \in Streams, ShownOK(k), EchoOK(k),
         phase[k] \in {"open", "echo"}, NEW t \in Text, Deliver(k, t),
         t \notin Echoes, t \in complete' \cup {<<>>, Placeholder},
         given'[k] = given[k], pending'[k] = pending[k], phase'[k] = "collected"
  PROVE  EchoOK(k)' /\ WholeOK(k)'
<1>1. DeltaText(events[k]) = <<>> /\ given[k] \notin Echoes
  BY DEF EchoOK, EchoIn, Before
<1>2. full[k] = <<>>
  BY <1>1 DEF ShownOK, TextOK, Late
<1>3. DeltaText(events'[k]) = t /\ full'[k] = t
  <2>1. DeltaText(events'[k]) = DeltaText(events[k]) \o t /\ full'[k] = full[k] \o t
    BY DeliverIs, DeliveredDelta
  <2>2. <<>> \o t = t
    BY TextFacts
  <2> QED
    BY <2>1, <2>2, <1>1, <1>2
<1> QED
  BY <1>1, <1>3 DEF EchoOK, EchoIn, WholeOK, WholeIn, Before

LEMMA EchoStep ==
  ASSUME Types, provider = "perplexity", NEW k \in Streams,
         HeldOK(k), ShownOK(k), EchoOK(k), WholeOK(k), CacheOK, Step(k) \/ Disconnect(k)
  PROVE  EchoOK(k)' /\ WholeOK(k)' /\ CacheOK'
<1>f. /\ given[k] \in Text \cup {NoText} /\ rest[k] \in Text
      /\ held[k] \in Text /\ full[k] \in Text /\ <<>> \in Text
      /\ DeltaText(events[k]) \in Text
  BY TextFacts, DeltaTextType DEF Types
<1>g. \A p \in Phases : Goto(k, p) => phase'[k] = p
  BY GotoIs
<1>p. Before \cup {"refused", "done", "save", "ended", "read", "echo", "collected", "cache"}
        \subseteq Phases
  BY DEF Before, Phases
<1>k. {"meta", "done", "saved", "error"} \subseteq EventKinds \ {"delta"}
  BY DEF EventKinds
<1>a. \A t \in Responses["perplexity"] : t \in Text
  BY AnswersAreTexts DEF Providers
<1>m. complete \subseteq complete'
  BY StepTypes DEF Others
<1>c. cache' = cache \/ cache' = Purged => CacheOK'
  BY <1>m, HitIsAnAnswer DEF CacheOK
<1>d. provider # "mistral"
  OBVIOUS
<1>1. CASE PrepareEmpty(k)
  <2>1. phase[k] = "new" /\ phase'[k] = "bareMeta"
    BY <1>1, <1>g, <1>p DEF PrepareEmpty, At, Before
  <2>2. UNCHANGED <<cache, given, rest, held, pending, full, events>>
    BY <1>1 DEF PrepareEmpty, own
  <2> QED
    BY <2>1, <2>2, <1>c, <1>m, EchoQuiet DEF Before
<1>2. CASE Bare(k)
  <2>1. \/ phase[k] = "bareMeta" /\ phase'[k] = "bareDone" /\ Send(k, "meta", <<>>)
        \/ phase'[k] = "ended" /\ Send(k, "done", <<>>)
    BY <1>2, <1>g, <1>p DEF Bare, At, Before
  <2>2. UNCHANGED <<cache, given, rest, held, pending, full>>
    BY <1>2 DEF Bare
  <2>3. DeltaText(events'[k]) = DeltaText(events[k])
    BY <2>1, <1>f, <1>k, SentDelta
  <2> QED
    BY <2>1, <2>2, <2>3, <1>c, <1>m, EchoQuiet DEF Before
<1>3. ASSUME NEW allowed \in BOOLEAN, Prepare(k, allowed)
      PROVE  EchoOK(k)' /\ WholeOK(k)' /\ CacheOK'
  <2>1. /\ phase[k] = "new" /\ phase'[k] \in {"meta", "refused"} /\ given'[k] = Hit
        /\ cache' = Purged
    BY <1>3, <1>g, <1>p DEF Prepare, At, Before, Types
  <2>2. UNCHANGED <<rest, held, pending, full, events>>
    BY <1>3 DEF Prepare
  <2>3. EchoOK(k)'
    BY <2>1, <2>2, HitIsAnAnswer DEF EchoOK, EchoIn, Before
  <2>4. WholeOK(k)'
    BY <2>1, <2>2 DEF WholeOK, WholeIn
  <2> QED
    BY <2>1, <2>3, <2>4, <1>c
<1>4. CASE Meta(k)
  <2>1. phase[k] = "meta" /\ phase'[k] \in {"done", "open"} /\ Send(k, "meta", <<>>)
    BY <1>4, <1>g, <1>p DEF Meta, At, Before
  <2>2. UNCHANGED <<cache, given, rest, held, pending, full>>
    BY <1>4 DEF Meta
  <2>3. DeltaText(events'[k]) = DeltaText(events[k])
    BY <2>1, <1>f, <1>k, SentDelta
  <2> QED
    BY <2>1, <2>2, <2>3, <1>c, <1>m, EchoQuiet DEF Before
<1>5. CASE OpenDisabled(k)
  <2>1. phase[k] = "open" /\ phase'[k] = "collected" /\ Deliver(k, Placeholder)
    BY <1>5, <1>g, <1>p DEF OpenDisabled, At
  <2>2. UNCHANGED <<cache, given, rest, held, pending>>
    BY <1>5 DEF OpenDisabled
  <2>3. Placeholder \notin Echoes /\ Placeholder \in Text
    BY AiStreamAssumption, AnswersAreTexts
  <2> QED
    BY <2>1, <2>2, <2>3, <1>c, EchoAnswered, <1>m
<1>6. CASE OpenCached(k)
  <2>1. phase[k] = "open" /\ phase'[k] = "collected" /\ Deliver(k, Hit) /\ Hit # NoText
    BY <1>6, <1>g, <1>p DEF OpenCached, At
  <2>2. UNCHANGED <<cache, given, rest, held, pending>>
    BY <1>6 DEF OpenCached
  <2>3. Hit \notin Echoes /\ Hit \in complete \cup {<<>>, Placeholder} /\ Hit \in Text
    BY <2>1, HitIsAnAnswer, HitType
  <2> QED
    BY <2>1, <2>2, <2>3, <1>c, EchoAnswered, <1>m
<1>7. CASE OpenMiss(k)
  <2>1. phase[k] = "open" /\ phase'[k] = "connect" /\ cache' = Purged
    BY <1>7, <1>g, <1>p DEF OpenMiss, At, Before
  <2>2. UNCHANGED <<given, rest, held, pending, full, events>>
    BY <1>7 DEF OpenMiss, own
  <2> QED
    BY <2>1, <2>2, <1>c, <1>m, EchoQuiet DEF Before
<1>8. ASSUME NEW t \in Responses[provider], Connect(k, t)
      PROVE  EchoOK(k)' /\ WholeOK(k)' /\ CacheOK'
  <2>1. phase[k] = "connect" /\ phase'[k] = "read" /\ rest'[k] = t
    BY <1>8, <1>g, <1>p DEF Connect, At, Types
  <2>2. UNCHANGED <<cache, given, held, pending, full, events>>
    BY <1>8 DEF Connect
  <2>3. DeltaText(events[k]) = <<>> /\ pending[k]
    BY <2>1 DEF EchoOK, EchoIn, Before
  <2>6. EchoOK(k)'
    BY <2>1, <2>2, <2>3 DEF EchoOK, EchoIn, Before
  <2>7. WholeOK(k)'
    BY <2>1 DEF WholeOK, WholeIn
  <2> QED
    BY <2>2, <2>6, <2>7, <1>c
<1>9. CASE Read(k)
  <2> DEFINE c == Head(rest[k])
  <2>1. /\ phase[k] = "read" /\ phase' = phase /\ rest[k] # <<>> /\ ~pending[k]
        /\ Deliver(k, <<c>>)
    BY <1>9 DEF Read, At
  <2>2. UNCHANGED <<cache, given, held, pending>>
    BY <1>9 DEF Read
  <2>3. c \in Pieces /\ <<c>> \in Text
    BY <2>1, <1>f, TextFacts
  <2> HIDE DEF c
  <2>4. DeltaText(events'[k]) = DeltaText(events[k]) \o <<c>>
    BY <2>1, <2>3, DeliveredDelta
  <2>5. DeltaText(events[k]) \notin Openings \cup {<<>>} /\ given[k] \notin Echoes
    BY <2>1 DEF EchoOK, EchoIn
  <2>6. DeltaText(events'[k]) \notin Openings \cup {<<>>}
    BY <2>3, <2>4, <2>5, <1>f, LeftForGood
  <2>7. EchoOK(k)'
    BY <2>1, <2>2, <2>5, <2>6 DEF EchoOK, EchoIn, Before
  <2>8. WholeOK(k)'
    BY <2>1 DEF WholeOK, WholeIn
  <2> QED
    BY <2>2, <2>7, <2>8, <1>c
<1>10. CASE ReadPending(k)
  <2> DEFINE c == Head(rest[k])
             t == Append(held[k], c)
  <2>1. /\ phase[k] = "read" /\ phase' = phase /\ rest[k] # <<>> /\ pending[k]
        /\ UNCHANGED <<cache, given>>
    BY <1>10 DEF ReadPending, At
  <2>2. \/ UNCHANGED <<pending, full, events>>
        \/ t \notin Openings /\ pending'[k] = FALSE /\ Deliver(k, t)
    BY <1>10 DEF ReadPending, Types
  <2>3. c \in Pieces
    BY <2>1, <1>f, TextFacts
  <2>t. t \in Text /\ t # <<>>
    <3>1. t \in Text
      BY <2>3, <1>f, TextFacts
    <3>2. held[k] \in Seq(Pieces)
      BY <1>f DEF Text
    <3>3. t # <<>>
      BY <3>2
    <3> QED
      BY <3>1, <3>3
  <2> HIDE DEF c, t
  <2>5. DeltaText(events[k]) = <<>> /\ given[k] \notin Echoes
    BY <2>1 DEF EchoOK, EchoIn
  <2>6. WholeOK(k)'
    BY <2>1 DEF WholeOK, WholeIn
  <2>8. CASE UNCHANGED <<pending, full, events>>
    <3>1. EchoOK(k)'
      BY <2>1, <2>8 DEF EchoOK
    <3> QED
      BY <2>1, <2>6, <3>1, <1>c
  <2>9. CASE t \notin Openings /\ pending'[k] = FALSE /\ Deliver(k, t)
    <3>1. DeltaText(events'[k]) = t
      <4>1. DeltaText(events'[k]) = DeltaText(events[k]) \o t
        BY <2>t, <2>9, DeliveredDelta
      <4>2. <<>> \o t = t
        BY <2>t, TextFacts
      <4> QED
        BY <4>1, <4>2, <2>5
    <3>2. EchoOK(k)'
      BY <2>1, <2>t, <2>5, <2>9, <3>1 DEF EchoOK, EchoIn, Before
    <3> QED
      BY <2>1, <2>6, <3>2, <1>c
  <2> QED
    BY <2>2, <2>8, <2>9
<1>11. CASE Flush(k) \/ Skip(k) \/ Close(k)
  <2>1. UNCHANGED <<phase, cache, given, pending, full, events>>
    BY <1>11 DEF Flush, Skip, Close
  <2> QED
    BY <2>1, <1>m, <1>c, EchoQuiet
<1>12. CASE EndOfStream(k)
  <2>1. /\ phase[k] = "read" /\ phase'[k] = "collected" /\ rest[k] = <<>> /\ held[k] = <<>>
        /\ full[k] \in complete'
    BY <1>12, <1>g, <1>p DEF EndOfStream, At
  <2>2. UNCHANGED <<cache, given, rest, held, pending, full, events>>
    BY <1>12 DEF EndOfStream, own
  <2>4. EchoOK(k)'
    BY <2>1, <2>2 DEF EchoOK, EchoIn, Before
  <2>5. WholeOK(k)'
    BY <2>1, <2>2 DEF WholeOK, WholeIn
  <2> QED
    BY <2>2, <2>4, <2>5, <1>c
<1>13. CASE EndInDoubt(k)
  <2>1. /\ phase[k] = "read" /\ phase'[k] = "collected" /\ rest[k] = <<>> /\ held[k] # <<>>
        /\ held[k] \notin Echoes /\ Deliver(k, held[k]) /\ full'[k] \in complete'
    BY <1>13, <1>g, <1>p DEF EndInDoubt, At
  <2>2. UNCHANGED <<cache, given, rest, pending>>
    BY <1>13 DEF EndInDoubt
  <2>3. DeltaText(events[k]) = <<>> /\ given[k] \notin Echoes
    BY <2>1 DEF HeldOK, EchoOK, EchoIn
  <2>4. DeltaText(events'[k]) = held[k]
    <3>1. DeltaText(events'[k]) = DeltaText(events[k]) \o held[k]
      BY <2>1, <1>f, DeliveredDelta
    <3>2. <<>> \o held[k] = held[k]
      BY <1>f, TextFacts
    <3> QED
      BY <3>1, <3>2, <2>3
  <2>6. EchoOK(k)'
    BY <2>1, <2>2, <2>3, <2>4 DEF EchoOK, EchoIn, Before
  <2>7. WholeOK(k)'
    BY <2>1 DEF WholeOK, WholeIn
  <2> QED
    BY <2>2, <2>6, <2>7, <1>c
<1>14. CASE EndInEcho(k)
  <2>1. phase[k] = "read" /\ phase'[k] = "echo" /\ held[k] \in Echoes
    BY <1>14, <1>g, <1>p DEF EndInEcho, At
  <2>2. UNCHANGED <<cache, given, rest, pending, full, events>>
    BY <1>14 DEF EndInEcho
  <2>3. held[k] # <<>>
    BY <2>1, AiStreamAssumption
  <2>4. DeltaText(events[k]) = <<>>
    BY <2>1, <2>3 DEF HeldOK, EchoOK, EchoIn
  <2>5. EchoOK(k)'
    BY <2>1, <2>2, <2>4 DEF EchoOK, EchoIn, Before
  <2>6. WholeOK(k)'
    BY <2>1 DEF WholeOK, WholeIn
  <2> QED
    BY <2>2, <2>5, <2>6, <1>c
<1>15. ASSUME NEW t \in Responses[provider], EchoFallback(k, t)
       PROVE  EchoOK(k)' /\ WholeOK(k)' /\ CacheOK'
  <2>1. /\ phase[k] = "echo" /\ t \in Responses["perplexity"] \ Echoes /\ t \in Text
        /\ cache' \in {cache, t} /\ t \in complete'
    BY <1>15, <1>a DEF EchoFallback, At, SummaryTexts
  <2>2. UNCHANGED <<given, rest, held, pending>>
    BY <1>15 DEF EchoFallback
  <2>3. CacheOK'
    BY <2>1, <1>m DEF CacheOK
  <2>4. CASE Deliver(k, t) /\ Goto(k, "collected")
    <3>1. phase'[k] = "collected"
      BY <2>4, <1>g, <1>p
    <3> QED
      BY <2>1, <2>2, <2>3, <2>4, <3>1, EchoAnswered, <1>m
  <2>5. CASE Raise(k) /\ UNCHANGED full
    <3>1. phase'[k] = "ended" /\ Send(k, "error", <<>>)
      BY <2>5, <1>g, <1>p DEF Raise
    <3>2. DeltaText(events'[k]) = DeltaText(events[k])
      BY <3>1, <1>f, <1>k, SentDelta
    <3> QED
      BY <2>2, <2>3, <2>5, <3>1, <3>2, <1>m, EchoQuiet
  <2> QED
    BY <1>15, <2>4, <2>5 DEF EchoFallback
<1>16. CASE Break(k)
  <2>1. phase'[k] = "ended" /\ Send(k, "error", <<>>)
    BY <1>16, <1>g, <1>p DEF Break, Raise
  <2>2. UNCHANGED <<cache, given, rest, held, pending, full>>
    BY <1>16 DEF Break
  <2>3. DeltaText(events'[k]) = DeltaText(events[k])
    BY <2>1, <1>f, <1>k, SentDelta
  <2> QED
    BY <2>1, <2>2, <2>3, <1>c, <1>m, EchoQuiet
<1>17. ~Retry(k) /\ ~GiveUp(k) /\ ~FallbackNull(k)
  BY <1>d DEF Retry, GiveUp, FallbackNull
<1>18. ASSUME NEW t \in Responses[provider] \cup {cache}, Fallback(k, t)
       PROVE  EchoOK(k)' /\ WholeOK(k)' /\ CacheOK'
  <2>1. phase[k] = "collected" /\ phase'[k] = "cache" /\ full'[k] = t
    BY <1>18, <1>g, <1>p DEF Fallback, At, Types
  <2>2. UNCHANGED <<given, rest, held, pending, events>>
    BY <1>18 DEF Fallback
  <2>3. \/ Hit # NoText /\ t = Hit /\ cache' = cache
        \/ t \in complete' /\ cache' \in {Purged, t}
    BY <1>18, <1>d DEF Fallback, SummaryTexts
  <2>4. t \in complete' \cup {<<>>, Placeholder} /\ CacheOK'
    <3>1. CASE Hit # NoText /\ t = Hit /\ cache' = cache
      BY <3>1, <1>m, <1>c, HitIsAnAnswer
    <3>2. CASE t \in complete' /\ cache' \in {Purged, t}
      BY <3>2, <1>m, HitIsAnAnswer DEF CacheOK
    <3> QED
      BY <2>3, <3>1, <3>2
  <2>5. EchoOK(k)'
    BY <2>1, <2>2 DEF EchoOK, EchoIn, Before
  <2>6. WholeOK(k)'
    BY <2>1, <2>4 DEF WholeOK, WholeIn
  <2> QED
    BY <2>4, <2>5, <2>6
<1>19. CASE FallbackFails(k) \/ Collected(k)
  <2>1. /\ phase[k] = "collected" /\ phase'[k] = "cache"
        /\ cache' = cache \/ cache' = Purged
    BY <1>19, <1>g, <1>p DEF FallbackFails, Collected, At
  <2>2. UNCHANGED <<given, rest, held, pending, full, events>>
    BY <1>19 DEF FallbackFails, Collected, own
  <2> QED
    BY <2>1, <2>2, <1>c, <1>m, EchoQuiet
<1>20. CASE CacheResult(k)
  <2>1. phase[k] = "cache" /\ phase'[k] = "done" /\ cache' \in {cache, full[k]}
    BY <1>20, <1>g, <1>p DEF CacheResult, At
  <2>2. UNCHANGED <<given, rest, held, pending, full, events>>
    BY <1>20 DEF CacheResult, own
  <2>3. full[k] \in complete \cup {<<>>, Placeholder}
    BY <2>1 DEF WholeOK, WholeIn
  <2>4. CacheOK'
    BY <2>1, <2>3, <1>m DEF CacheOK
  <2> QED
    BY <2>1, <2>2, <2>4, <1>m, EchoQuiet
<1>21. CASE Done(k) \/ Save(k)
  <2>1. PICK kind \in {"done", "saved"}, t \in Text : Send(k, kind, t)
    BY <1>21, <1>f DEF Done, Save
  <2>2. phase'[k] \in {"save", "ended"}
    BY <1>21, <1>g, <1>p DEF Done, Save
  <2>3. UNCHANGED <<cache, given, rest, held, pending, full>>
    BY <1>21 DEF Done, Save
  <2>4. DeltaText(events'[k]) = DeltaText(events[k])
    BY <2>1, <1>k, SentDelta
  <2> QED
    BY <2>2, <2>3, <2>4, <1>c, <1>m, EchoQuiet
<1>22. CASE SaveFails(k) \/ Disconnect(k)
  <2>1. phase'[k] = "ended"
    BY <1>22, <1>g, <1>p DEF SaveFails, Disconnect
  <2>2. UNCHANGED <<cache, given, rest, held, pending, full, events>>
    BY <1>22 DEF SaveFails, Disconnect, own
  <2> QED
    BY <2>1, <2>2, <1>c, <1>m, EchoQuiet
<1> QED
  BY <1>1, <1>2, <1>3, <1>4, <1>5, <1>6, <1>7, <1>8, <1>9, <1>10, <1>11, <1>12, <1>13, <1>14,
     <1>15, <1>16, <1>17, <1>18, <1>19, <1>20, <1>21, <1>22 DEF Step

-----------------------------------------------------------------------------
(* The inductive invariant.                                                *)

Perplexed(k) == EchoOK(k) /\ WholeOK(k)

IInv ==
  /\ Types
  /\ \A k \in Streams : HeldOK(k) /\ ShapeOK(k) /\ ShownOK(k)
  /\ provider = "perplexity" => CacheOK /\ \A k \in Streams : Perplexed(k)

LEMMA InitInv == Init => IInv
<1> SUFFICES ASSUME Init PROVE IInv
  OBVIOUS
<1>1. Types
  <2>1. <<>> \in Text /\ <<>> \in Events /\ 0 \in 0 .. Attempts - 1 /\ 0 \in 0 .. MaxRestarts
    BY TextFacts, NoEvents, AiStreamAssumption
  <2> QED
    BY <2>1 DEF Init, Types, Phases
<1>2. ASSUME NEW k \in Streams
      PROVE  HeldOK(k) /\ ShapeOK(k) /\ ShownOK(k)
  <2>1. /\ phase[k] = "new" /\ given[k] = NoText /\ held[k] = <<>> /\ full[k] = <<>>
        /\ events[k] = <<>>
    BY DEF Init
  <2>2. HeldOK(k)
    BY DEF Init, HeldOK
  <2>3. ShapeOK(k)
    BY <2>1, NoEvents DEF ShapeOK, Silent, Talking
  <2>4. ShownOK(k)
    BY <2>1, NoEvents DEF ShownOK, TextOK, Served
  <2> QED
    BY <2>2, <2>3, <2>4
<1>3. ASSUME provider = "perplexity", NEW k \in Streams PROVE Perplexed(k)
  <2>1. /\ phase[k] = "new" /\ given[k] = NoText /\ events[k] = <<>> /\ pending[k]
    BY <1>3 DEF Init
  <2>2. NoText \notin Echoes /\ <<>> \notin Echoes
    BY AiStreamAssumption
  <2>3. EchoOK(k)
    BY <2>1, <2>2, NoEvents DEF EchoOK, EchoIn
  <2>4. WholeOK(k)
    BY <2>1 DEF WholeOK, WholeIn
  <2> QED
    BY <2>3, <2>4 DEF Perplexed
<1>4. CacheOK
  BY DEF Init, CacheOK
<1> QED
  BY <1>1, <1>2, <1>3, <1>4 DEF IInv

\* What holds of a stream depends on nothing a step of another one changes.
LEMMA OthersStep ==
  ASSUME NEW k \in Streams, NEW j \in Streams \ {k}, Others(k)
  PROVE  /\ HeldOK(j) => HeldOK(j)'
         /\ ShapeOK(j) => ShapeOK(j)'
         /\ ShownOK(j) => ShownOK(j)'
         /\ Perplexed(j) => Perplexed(j)'
<1>1. /\ phase'[j] = phase[j] /\ given'[j] = given[j] /\ rest'[j] = rest[j]
      /\ held'[j] = held[j] /\ pending'[j] = pending[j] /\ full'[j] = full[j]
      /\ events'[j] = events[j] /\ provider' = provider /\ complete \subseteq complete'
  BY DEF Others
<1>2. HeldOK(j) => HeldOK(j)'
  BY <1>1 DEF HeldOK
<1>3. ShapeOK(j) => ShapeOK(j)'
  BY <1>1 DEF ShapeOK
<1>4. ShownOK(j) => ShownOK(j)'
  BY <1>1 DEF ShownOK
<1>5. Perplexed(j) => Perplexed(j)'
  <2>1. EchoOK(j) => EchoOK(j)'
    BY <1>1 DEF EchoOK
  <2>2. WholeOK(j) => WholeOK(j)'
    BY <1>1 DEF WholeOK, WholeIn
  <2> QED
    BY <2>1, <2>2 DEF Perplexed
<1> QED
  BY <1>2, <1>3, <1>4, <1>5

LEMMA StreamStep ==
  ASSUME IInv, NEW k \in Streams, Step(k) \/ Disconnect(k)
  PROVE  IInv'
<1>1. Types /\ HeldOK(k) /\ ShapeOK(k) /\ ShownOK(k)
  BY DEF IInv
<1>2. Types' /\ Others(k)
  BY <1>1, StepTypes
<1>3. HeldOK(k)' /\ ShapeOK(k)' /\ ShownOK(k)'
  BY <1>1, HeldStep, ShownStep
<1>4. ASSUME NEW j \in Streams PROVE HeldOK(j)' /\ ShapeOK(j)' /\ ShownOK(j)'
  <2>1. CASE j = k
    BY <1>3, <2>1
  <2>2. CASE j # k
    BY <1>2, <2>2, OthersStep DEF IInv
  <2> QED
    BY <2>1, <2>2
<1>5. ASSUME provider' = "perplexity"
      PROVE  CacheOK' /\ \A j \in Streams : Perplexed(j)'
  <2>1. provider = "perplexity"
    BY <1>2, <1>5 DEF Others
  <2>2. CacheOK /\ EchoOK(k) /\ WholeOK(k)
    BY <2>1 DEF IInv, Perplexed
  <2>3. EchoOK(k)' /\ WholeOK(k)' /\ CacheOK'
    BY <1>1, <2>1, <2>2, EchoStep
  <2>4. ASSUME NEW j \in Streams PROVE Perplexed(j)'
    <3>1. CASE j = k
      BY <2>3, <3>1 DEF Perplexed
    <3>2. CASE j # k
      BY <1>2, <2>1, <3>2, OthersStep DEF IInv
    <3> QED
      BY <3>1, <3>2
  <2> QED
    BY <2>3, <2>4
<1> QED
  BY <1>2, <1>4, <1>5 DEF IInv

\* Nothing happens to the streams, or they all end.
LEMMA WorldStep ==
  ASSUME IInv, Forget \/ Restart \/ UNCHANGED vars
  PROVE  IInv'
<1>1. Types
  BY DEF IInv
<1>2. /\ UNCHANGED <<provider, complete, own>>
      /\ cache' = cache \/ cache' = NoText
      /\ phase' = phase \/ phase' = [k \in Streams |-> IF phase[k] = "new" THEN "new" ELSE "ended"]
  BY DEF Forget, Restart, vars
<1>3. Types'
  <2>1. restarts' \in 0 .. MaxRestarts /\ disabled' \in BOOLEAN
    <3>1. CASE Restart
      <4>1. restarts + 1 \in 0 .. MaxRestarts
        BY <1>1, <3>1, AiStreamAssumption DEF Types, Restart
      <4> QED
        BY <3>1, <4>1 DEF Restart
    <3>2. CASE Forget \/ UNCHANGED vars
      BY <1>1, <3>2 DEF Types, Forget, vars
    <3> QED
      BY <3>1, <3>2
  <2>2. phase' \in [Streams -> Phases]
    BY <1>1, <1>2 DEF Types, Phases
  <2> QED
    BY <1>1, <1>2, <2>1, <2>2 DEF Types, own
<1>4. ASSUME NEW k \in Streams
      PROVE  /\ phase'[k] = phase[k] \/ phase'[k] = "ended"
             /\ given'[k] = given[k] /\ rest'[k] = rest[k] /\ held'[k] = held[k]
             /\ pending'[k] = pending[k] /\ full'[k] = full[k] /\ events'[k] = events[k]
  BY <1>2 DEF own
<1>5. ASSUME NEW k \in Streams PROVE HeldOK(k)' /\ ShapeOK(k)' /\ ShownOK(k)'
  <2>1. HeldOK(k) /\ ShapeOK(k) /\ ShownOK(k)
    BY DEF IInv
  <2>2. ShapeOK(k)' /\ ShownOK(k)'
    BY <1>1, <1>4, <2>1, QuietStep
  <2>3. HeldOK(k)'
    BY <1>2, <1>4, <2>1 DEF HeldOK
  <2> QED
    BY <2>2, <2>3
<1>6. ASSUME provider' = "perplexity", NEW k \in Streams PROVE Perplexed(k)'
  <2>1. EchoOK(k) /\ WholeOK(k)
    BY <1>2, <1>6 DEF IInv, Perplexed
  <2>2. DeltaText(events'[k]) = DeltaText(events[k])
    BY <1>4
  <2> QED
    BY <1>2, <1>4, <2>1, <2>2, EchoQuiet DEF Perplexed
<1>7. ASSUME provider' = "perplexity" PROVE CacheOK'
  BY <1>2, <1>7 DEF IInv, CacheOK
<1> QED
  BY <1>3, <1>5, <1>6, <1>7 DEF IInv

LEMMA NextInv == IInv /\ [Next]_vars => IInv'
<1> SUFFICES ASSUME IInv, [Next]_vars PROVE IInv'
  OBVIOUS
<1>1. CASE \E k \in Streams : Step(k) \/ Disconnect(k)
  BY <1>1, StreamStep
<1>2. CASE Forget \/ Restart \/ UNCHANGED vars
  BY <1>2, WorldStep
<1> QED
  BY <1>1, <1>2 DEF Next

LEMMA InvAlways == Spec => []IInv
BY InitInv, NextInv, PTL DEF Spec

-----------------------------------------------------------------------------
(* The theorems.                                                           *)

LEMMA DeltasAre ==
  ASSUME NEW k
  PROVE  Deltas(k) = DeltaText(events[k]) /\ (Streamed(k) <=> HasDelta(events[k]))
BY DEF Deltas, DeltaText, DeltasIn, Streamed, HasDelta

LEMMA RangeOfText ==
  ASSUME NEW t \in Text
  PROVE  Range(t) \subseteq Pieces
BY DEF Text, Range

\* Every variable has its type, and only a response of which it is open whether
\* it is an echo is held back (perplexity.py: buffered_chunks).
THEOREM StreamTypes == Spec => []TypeOK
<1>1. IInv => TypeOK
  <2> SUFFICES ASSUME IInv PROVE TypeOK
    OBVIOUS
  <2>1. Types
    BY DEF IInv
  <2>2. cache = NoText \/ Range(cache) \subseteq Pieces
    BY <2>1, RangeOfText DEF Types
  <2>3. ASSUME NEW k \in Streams
        PROVE  /\ given[k] = NoText \/ Range(given[k]) \subseteq Pieces
               /\ held[k] # <<>> => phase[k] \in {"read", "ended"} /\ pending[k]
               /\ pending[k] \in BOOLEAN
               /\ attempt[k] \in 0 .. Attempts - 1
               /\ \A i \in DOMAIN events[k] : events[k][i].kind \in EventKinds
    <3>1. given[k] = NoText \/ Range(given[k]) \subseteq Pieces
      BY <2>1, RangeOfText DEF Types
    <3>2. held[k] # <<>> => phase[k] \in {"read", "ended"} /\ pending[k]
      BY DEF IInv, HeldOK
    <3>3. pending[k] \in BOOLEAN /\ attempt[k] \in 0 .. Attempts - 1 /\ events[k] \in Events
      BY <2>1 DEF Types
    <3>4. \A i \in DOMAIN events[k] : events[k][i] \in EventType
      BY <3>3 DEF Events
    <3> QED
      BY <3>1, <3>2, <3>3, <3>4 DEF EventType
  <2> QED
    BY <2>1, <2>2, <2>3 DEF Types, TypeOK
<1> QED
  BY <1>1, InvAlways, PTL

\* The events of every stream come in the order the client relies on: meta,
\* deltas, then an error or done, and saved only after done, whatever fails.
THEOREM EventsComeInOrder == Spec => []EventsInOrder
<1>1. IInv => EventsInOrder
  <2> SUFFICES ASSUME IInv, NEW k \in Streams, NEW i \in DOMAIN events[k]
               PROVE  LET kind == Kinds(k) IN
                        /\ kind[i] = "meta" <=> i = 1
                        /\ kind[i] \in {"error", "saved"} => i = Len(kind)
                        /\ kind[i] = "done" => i = Len(kind) \/ kind[i + 1] = "saved"
                        /\ kind[i] = "saved" => kind[i - 1] = "done"
    BY DEF EventsInOrder
  <2> DEFINE e == events[k]
             kind == Kinds(k)
  <2>1. InOrder(e) /\ e \in Events
    BY DEF IInv, ShapeOK, Types
  <2>2. DOMAIN e = 1 .. Len(e) /\ Len(e) \in Nat
    BY <2>1 DEF Events
  <2>3. kind = [n \in 1 .. Len(e) |-> e[n].kind]
    BY <2>2 DEF Kinds
  <2>4. Len(kind) = Len(e)
    <3>1. kind \in Seq({e[n].kind : n \in 1 .. Len(e)}) /\ DOMAIN kind = 1 .. Len(e)
      BY <2>2, <2>3
    <3> HIDE DEF kind
    <3> QED
      BY <3>1, <2>2
  <2>5. i \in 1 .. Len(e)
    BY <2>2
  <2>6. /\ e[i].kind = "meta" <=> i = 1
        /\ e[i].kind \in {"error", "saved"} => i = Len(e)
        /\ e[i].kind = "done" => i = Len(e) \/ e[i + 1].kind = "saved"
        /\ e[i].kind = "saved" => e[i - 1].kind = "done"
    BY <2>1 DEF InOrder
  <2> HIDE DEF e, kind
  <2>7. \A n \in 1 .. Len(e) : kind[n] = e[n].kind
    BY <2>3
  <2>8. i # Len(e) => i + 1 \in 1 .. Len(e)
    BY <2>2, <2>5
  <2>9. i # 1 => i - 1 \in 1 .. Len(e)
    BY <2>2, <2>5
  <2>10. e[i].kind = "saved" => i # 1
    BY <2>6
  <2> QED
    BY <2>4, <2>5, <2>6, <2>7, <2>8, <2>9, <2>10 DEF kind
<1> QED
  BY <1>1, InvAlways, PTL

\* The text of done is the text of the deltas the client has shown, however
\* often Mistral was asked again after it had sent chunks.
THEOREM DoneRepeatsTheDeltas == Spec => []DoneIsWhatWasShown
<1>1. IInv => DoneIsWhatWasShown
  BY DeltasAre DEF IInv, ShownOK, TextOK, DoneShown, DoneIsWhatWasShown
<1> QED
  BY <1>1, InvAlways, PTL

\* Perplexity: a response that only repeats the beginning of the prompt is not
\* shown, and no echo is served from the cache.
THEOREM NoEchoIsShown == Spec => []NoEcho
<1>1. IInv => NoEcho
  <2> SUFFICES ASSUME IInv, provider = "perplexity", NEW k \in Streams
               PROVE  /\ Deltas(k) \notin Echoes \cap Openings
                      /\ ServedFromCache(k) \notin Echoes
    BY DEF NoEcho
  <2>1. given[k] \notin Echoes /\ DeltaText(events[k]) \notin Echoes \cap Openings
    BY DEF IInv, Perplexed, EchoOK, EchoIn
  <2>2. NoText \notin Echoes
    BY AiStreamAssumption
  <2> QED
    BY <2>1, <2>2, DeltasAre DEF ServedFromCache
<1> QED
  BY <1>1, InvAlways, PTL

\* Perplexity: the cache holds answers whose request ended without an exception,
\* the empty one or the placeholder, never what had been collected when an
\* exception, a disconnection or a restart ended a stream.
THEOREM FragmentsAreNotCached == Spec => []NoFragmentCached
<1>1. IInv => NoFragmentCached
  BY DEF IInv, CacheOK, NoFragmentCached
<1> QED
  BY <1>1, InvAlways, PTL
=============================================================================
