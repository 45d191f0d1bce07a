---------------------------- MODULE Queues_proofs ----------------------------
(***************************************************************************)
(* What the queue operations do to the packets in a queue, and that they   *)
(* keep a queue free of repetitions.                                       *)
(***************************************************************************)
EXTENDS Queues, SequenceTheorems, TLAPS

LEMMA ElemsType ==
    ASSUME NEW S, NEW q \in Seq(S)
    PROVE  Elems(q) \subseteq S
BY DEF Elems

LEMMA ElemsEmpty ==
    Elems(<<>>) = {} /\ Distinct(<<>>)
BY DEF Elems, Distinct

LEMMA ElemsNonEmpty ==
    ASSUME NEW S, NEW q \in Seq(S), q # <<>>
    PROVE  Head(q) \in S /\ Head(q) \in Elems(q) /\ Tail(q) \in Seq(S)
BY DEF Elems

LEMMA ElemsConcat ==
    ASSUME NEW S, NEW q \in Seq(S), NEW r \in Seq(S)
    PROVE  /\ q \o r \in Seq(S)
           /\ Elems(q \o r) = Elems(q) \cup Elems(r)
           /\ Distinct(q \o r) <=>
                Distinct(q) /\ Distinct(r) /\ Elems(q) \cap Elems(r) = {}
<1> DEFINE qr == q \o r
<1>1. /\ qr \in Seq(S) /\ Len(qr) = Len(q) + Len(r)
      /\ \A i \in 1..Len(q) : qr[i] = q[i]
      /\ \A i \in 1..Len(r) : qr[Len(q) + i] = r[i]
  OBVIOUS
<1>2. /\ DOMAIN qr = 1..(Len(q) + Len(r))
      /\ DOMAIN q = 1..Len(q) /\ DOMAIN r = 1..Len(r)
      /\ Len(q) \in Nat /\ Len(r) \in Nat
  BY <1>1
<1> HIDE DEF qr
<1>3. \A i \in DOMAIN qr : i \in DOMAIN q \/ (i - Len(q) \in DOMAIN r /\ qr[i] = r[i - Len(q)])
  BY <1>1, <1>2
<1>4. Elems(qr) \subseteq Elems(q) \cup Elems(r)
  BY <1>1, <1>2, <1>3 DEF Elems
<1>5. Elems(q) \subseteq Elems(qr)
  BY <1>1, <1>2 DEF Elems
<1>6. Elems(r) \subseteq Elems(qr)
  <2> SUFFICES ASSUME NEW i \in DOMAIN r PROVE r[i] \in Elems(qr)
    BY DEF Elems
  <2>1. Len(q) + i \in DOMAIN qr /\ r[i] = qr[Len(q) + i]
    BY <1>1, <1>2
  <2> QED
    BY <2>1 DEF Elems
<1>7. ASSUME Distinct(q), Distinct(r), Elems(q) \cap Elems(r) = {}
      PROVE  Distinct(qr)
  <2> SUFFICES ASSUME NEW i \in DOMAIN qr, NEW j \in DOMAIN qr, i # j
               PROVE  qr[i] # qr[j]
    BY DEF Distinct
  <2>1. i \in DOMAIN q => qr[i] = q[i] /\ qr[i] \in Elems(q)
    BY <1>1, <1>2 DEF Elems
  <2>2. j \in DOMAIN q => qr[j] = q[j] /\ qr[j] \in Elems(q)
    BY <1>1, <1>2 DEF Elems
  <2>3. i \notin DOMAIN q => /\ i - Len(q) \in DOMAIN r
                             /\ qr[i] = r[i - Len(q)] /\ qr[i] \in Elems(r)
    BY <1>3 DEF Elems
  <2>4. j \notin DOMAIN q => /\ j - Len(q) \in DOMAIN r
                             /\ qr[j] = r[j - Len(q)] /\ qr[j] \in Elems(r)
    BY <1>3 DEF Elems
  <2>5. i - Len(q) # j - Len(q)
    BY <1>2
  <2> QED
    BY <1>7, <2>1, <2>2, <2>3, <2>4, <2>5 DEF Distinct
<1>8. ASSUME Distinct(qr)
      PROVE  Distinct(q) /\ Distinct(r) /\ Elems(q) \cap Elems(r) = {}
  <2>1. Distinct(q)
    BY <1>1, <1>2, <1>8 DEF Distinct
  <2>2. Distinct(r)
    <3> SUFFICES ASSUME NEW i \in DOMAIN r, NEW j \in DOMAIN r, i # j
                 PROVE  r[i] # r[j]
      BY DEF Distinct
    <3>1. Len(q) + i \in DOMAIN qr /\ Len(q) + j \in DOMAIN qr /\ Len(q) + i # Len(q) + j
      BY <1>2
    <3> QED
      BY <1>1, <1>2, <1>8, <3>1 DEF Distinct
  <2>3. ASSUME NEW i \in DOMAIN q, NEW j \in DOMAIN r PROVE q[i] # r[j]
    <3>1. i \in DOMAIN qr /\ Len(q) + j \in DOMAIN qr /\ i # Len(q) + j
      BY <1>2
    <3> QED
      BY <1>1, <1>2, <1>8, <3>1 DEF Distinct
  <2> QED
    BY <2>1, <2>2, <2>3 DEF Elems
<1> QED
  BY <1>1, <1>4, <1>5, <1>6, <1>7, <1>8 DEF qr

LEMMA ElemsSingle ==
    ASSUME NEW S, NEW x \in S
    PROVE  <<x>> \in Seq(S) /\ Elems(<<x>>) = {x} /\ Distinct(<<x>>)
BY DEF Elems, Distinct

LEMMA ElemsAppend ==
    ASSUME NEW S, NEW q \in Seq(S), NEW x \in S
    PROVE  /\ Append(q, x) \in Seq(S)
           /\ Elems(Append(q, x)) = Elems(q) \cup {x}
           /\ Distinct(Append(q, x)) <=> Distinct(q) /\ x \notin Elems(q)
<1> DEFINE r == <<x>>
<1>1. Append(q, x) = q \o r
  BY AppendIsConcat
<1>2. r \in Seq(S) /\ Elems(r) = {x} /\ Distinct(r)
  BY ElemsSingle
<1> HIDE DEF r
<1>3. /\ q \o r \in Seq(S)
      /\ Elems(q \o r) = Elems(q) \cup Elems(r)
      /\ Distinct(q \o r) <=>
           Distinct(q) /\ Distinct(r) /\ Elems(q) \cap Elems(r) = {}
  BY <1>2, ElemsConcat
<1> QED
  BY <1>1, <1>2, <1>3

\* Splitting a queue after its first n packets.
LEMMA ElemsSplit ==
    ASSUME NEW S, NEW q \in Seq(S), NEW n \in 0..Len(q)
    PROVE  /\ Front(q, n) \in Seq(S) /\ Rest(q, n) \in Seq(S)
           /\ Elems(q) = Elems(Front(q, n)) \cup Elems(Rest(q, n))
           /\ Distinct(q) => /\ Distinct(Front(q, n)) /\ Distinct(Rest(q, n))
                             /\ Elems(Front(q, n)) \cap Elems(Rest(q, n)) = {}
<1>1. Front(q, n) \in Seq(S) /\ Rest(q, n) \in Seq(S)
  BY SubSeqProperties DEF Front, Rest
<1>2. Front(q, n) \o Rest(q, n) = q
  <2>1. /\ Len(q) \in Nat /\ n \in Int
        /\ 1 \in 1..Len(q) + 1 /\ n \in (1 - 1)..Len(q) /\ Len(q) \in n..Len(q)
    OBVIOUS
  <2>2. SubSeq(q, 1, n) \o SubSeq(q, n + 1, Len(q)) = SubSeq(q, 1, Len(q))
    BY <2>1, ConcatAdjacentSubSeq
  <2> QED
    BY <2>2, SubSeqFull DEF Front, Rest
<1> DEFINE a == Front(q, n)
           b == Rest(q, n)
<1> HIDE DEF a, b
<1>3. a \in Seq(S) /\ b \in Seq(S) /\ a \o b = q
  BY <1>1, <1>2 DEF a, b
<1>4. /\ Elems(a \o b) = Elems(a) \cup Elems(b)
      /\ Distinct(a \o b) <=> Distinct(a) /\ Distinct(b) /\ Elems(a) \cap Elems(b) = {}
  BY <1>3, ElemsConcat, ZenonT(30)
<1> QED
  BY <1>3, <1>4 DEF a, b

LEMMA ElemsTail ==
    ASSUME NEW S, NEW q \in Seq(S), q # <<>>
    PROVE  /\ Head(q) \in S /\ Tail(q) \in Seq(S)
           /\ Elems(q) = {Head(q)} \cup Elems(Tail(q))
           /\ Distinct(q) => Distinct(Tail(q)) /\ Head(q) \notin Elems(Tail(q))
<1> DEFINE h == <<Head(q)>>
           r == Tail(q)
<1>1. Head(q) \in S /\ r \in Seq(S) /\ q = h \o r
  OBVIOUS
<1>2. h \in Seq(S) /\ Elems(h) = {Head(q)}
  BY <1>1, ElemsSingle
<1> HIDE DEF h, r
<1>3. /\ Elems(h \o r) = Elems(h) \cup Elems(r)
      /\ Distinct(h \o r) <=> Distinct(h) /\ Distinct(r) /\ Elems(h) \cap Elems(r) = {}
  BY <1>1, <1>2, ElemsConcat
<1> QED
  BY <1>1, <1>2, <1>3 DEF r

\* Unlinking a packet.
LEMMA ElemsRemoveAt ==
    ASSUME NEW S, NEW q \in Seq(S), NEW i \in DOMAIN q
    PROVE  /\ RemoveAt(q, i) \in Seq(S)
           /\ q[i] \in Elems(q) /\ q[i] \in S
           /\ Distinct(q) => /\ Distinct(RemoveAt(q, i))
                             /\ Elems(RemoveAt(q, i)) = Elems(q) \ {q[i]}
<1> DEFINE a == SubSeq(q, 1, i - 1)
           b == SubSeq(q, i + 1, Len(q))
           m == SubSeq(q, i, Len(q))
<1>0. i \in 1..Len(q) /\ Len(q) \in Nat /\ q[i] \in S
  OBVIOUS
<1>1. a \in Seq(S) /\ b \in Seq(S) /\ m \in Seq(S)
  BY <1>0, SubSeqProperties
<1> DEFINE x == <<q[i]>>
<1>2. m = x \o b
  <2>1. i \in 1..Len(q) /\ Len(q) \in i..Len(q)
    BY <1>0
  <2> QED
    BY <2>1, SubSeqRecursiveFirst
<1>x. x \in Seq(S) /\ Elems(x) = {q[i]} /\ Distinct(x)
  BY <1>0, ElemsSingle
<1>3. a \o m = q
  <2>1. /\ 1 \in 1..Len(q) + 1 /\ i - 1 \in (1 - 1)..Len(q)
        /\ Len(q) \in (i - 1)..Len(q) /\ (i - 1) + 1 = i
    BY <1>0
  <2>2. SubSeq(q, 1, i - 1) \o SubSeq(q, (i - 1) + 1, Len(q)) = SubSeq(q, 1, Len(q))
    BY <2>1, ConcatAdjacentSubSeq
  <2> QED
    BY <2>1, <2>2, SubSeqFull
<1>4. RemoveAt(q, i) = a \o b
  BY DEF RemoveAt
<1> HIDE DEF a, b, m, x
<1>5. /\ Elems(m) = Elems(x) \cup Elems(b)
      /\ Distinct(m) <=> Distinct(x) /\ Distinct(b) /\ Elems(x) \cap Elems(b) = {}
  BY <1>1, <1>2, <1>x, ElemsConcat
<1>6. /\ Elems(q) = Elems(a) \cup Elems(m)
      /\ Distinct(q) <=> Distinct(a) /\ Distinct(m) /\ Elems(a) \cap Elems(m) = {}
  BY <1>1, <1>3, ElemsConcat, ZenonT(30)
<1>7. /\ a \o b \in Seq(S)
      /\ Elems(a \o b) = Elems(a) \cup Elems(b)
      /\ Distinct(a \o b) <=> Distinct(a) /\ Distinct(b) /\ Elems(a) \cap Elems(b) = {}
  BY <1>1, ElemsConcat
<1> QED
  <2>1. q[i] \in Elems(q)
    BY <1>5, <1>6, <1>x
  <2> QED
    BY <1>0, <1>4, <1>5, <1>6, <1>7, <1>x, <2>1
=============================================================================
