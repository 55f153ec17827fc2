----------------------------- MODULE QueueLemmas -----------------------------
(* Facts about the message queues: sequences that grow at the end and are  *)
(* read from the front.                                                    *)
EXTENDS Naturals, Sequences, TLAPS

(* A queue put to is a queue.                                              *)
LEMMA AppendType ==
    ASSUME NEW S, NEW q \in Seq(S), NEW e \in S
    PROVE  Append(q, e) \in Seq(S)
  OBVIOUS

LEMMA AppendElements ==
    ASSUME NEW S, NEW q \in Seq(S), NEW e
    PROVE  /\ Len(q) \in Nat /\ Len(Append(q, e)) = Len(q) + 1
           /\ \A i \in DOMAIN Append(q, e) :
                \/ i \in DOMAIN q /\ Append(q, e)[i] = q[i]
                \/ i = Len(q) + 1 /\ Append(q, e)[i] = e
  OBVIOUS

LEMMA ConcatType ==
    ASSUME NEW S, NEW q \in Seq(S), NEW d \in S, NEW e \in S
    PROVE  /\ q \o <<>> \in Seq(S)
           /\ q \o <<e>> \in Seq(S)
           /\ q \o <<d, e>> \in Seq(S)
           /\ q \o <<>> \o <<e>> \in Seq(S)
           /\ q \o <<d>> \o <<e>> \in Seq(S)
  <1>1. <<>> \in Seq(S) /\ <<e>> \in Seq(S) /\ <<d>> \in Seq(S) /\ <<d, e>> \in Seq(S)
    OBVIOUS
  <1>2. \A r \in Seq(S) : q \o r \in Seq(S)
    OBVIOUS
  <1>3. \A p, r \in Seq(S) : p \o r \in Seq(S)
    OBVIOUS
  <1>4. q \o <<>> \in Seq(S) /\ q \o <<d>> \in Seq(S)
    BY <1>1, <1>2
  <1> QED
    BY <1>1, <1>2, <1>3, <1>4

(* A queue read from is a queue, and its elements were there before.       *)
LEMMA TailType ==
    ASSUME NEW S, NEW q \in Seq(S), q # <<>>
    PROVE  /\ Head(q) \in S
           /\ Tail(q) \in Seq(S)
           /\ Head(q) = q[1] /\ 1 \in DOMAIN q
           /\ \A i \in DOMAIN Tail(q) : i + 1 \in DOMAIN q /\ Tail(q)[i] = q[i + 1]
  OBVIOUS

LEMMA TailLength ==
    ASSUME NEW S, NEW q \in Seq(S), q # <<>>
    PROVE  /\ Len(q) \in Nat /\ Len(q) >= 1 /\ Len(Tail(q)) = Len(q) - 1
           /\ \A i \in DOMAIN Tail(q) : i \in Nat
  OBVIOUS

(* What is not in a queue and is not put is not in it afterwards.          *)
Lacks(q, e) == \A i \in DOMAIN q : q[i] # e

LEMMA AppendLacks ==
    ASSUME NEW S, NEW q \in Seq(S), NEW e, NEW d, d # e, Lacks(q, e)
    PROVE  Lacks(Append(q, d), e)
  BY DEF Lacks

LEMMA ConcatLacks ==
    ASSUME NEW S, NEW q \in Seq(S), NEW e, NEW c, NEW d, c # e, d # e, Lacks(q, e)
    PROVE  Lacks(q \o <<c, d>>, e)
  BY DEF Lacks

LEMMA TailLacks ==
    ASSUME NEW S, NEW q \in Seq(S), q # <<>>, NEW e, Lacks(q, e)
    PROVE  Head(q) # e /\ Lacks(Tail(q), e)
  BY TailType DEF Lacks

(* An element that can only be the last of a queue: it stays the last, and *)
(* once it is the first, nothing follows.                                  *)
LEMMA TailKeepsLast ==
    ASSUME NEW S, NEW q \in Seq(S), q # <<>>, NEW e,
           \A i \in DOMAIN q : q[i] = e => i = Len(q)
    PROVE  \A i \in DOMAIN Tail(q) : Tail(q)[i] = e => i = Len(Tail(q))
  OBVIOUS

LEMMA LastOnly ==
    ASSUME NEW S, NEW q \in Seq(S), q # <<>>, NEW e, Head(q) = e,
           \A i \in DOMAIN q : q[i] = e => i = Len(q)
    PROVE  Tail(q) = <<>>
  OBVIOUS

LEMMA AppendLast ==
    ASSUME NEW S, NEW q \in Seq(S), NEW e, Lacks(q, e)
    PROVE  \A i \in DOMAIN Append(q, e) : Append(q, e)[i] = e => i = Len(Append(q, e))
  BY DEF Lacks

(* What comes behind or before what.                                       *)
FollowedBy(q, a, b) == \A i \in DOMAIN q : q[i] = a => \E j \in DOMAIN q : j > i /\ q[j] = b
PrecededBy(q, a, b) == \A i \in DOMAIN q : q[i] = a => \E j \in DOMAIN q : j < i /\ q[j] = b
NoneAfter(q, a, b)  == \A i, j \in DOMAIN q : q[i] = a /\ j > i => q[j] # b

LEMMA TailOrder ==
    ASSUME NEW S, NEW q \in Seq(S), q # <<>>, NEW a, NEW b
    PROVE  /\ FollowedBy(q, a, b) => /\ FollowedBy(Tail(q), a, b)
                                     /\ Head(q) = a => ~Lacks(Tail(q), b)
           /\ PrecededBy(q, a, b) => /\ Head(q) # a
                                     /\ Head(q) # b => PrecededBy(Tail(q), a, b)
           /\ NoneAfter(q, a, b)  => /\ NoneAfter(Tail(q), a, b)
                                     /\ Head(q) = a => Lacks(Tail(q), b)
  <1>1. /\ Head(q) = q[1] /\ 1 \in DOMAIN q
        /\ \A i \in DOMAIN Tail(q) : i + 1 \in DOMAIN q /\ Tail(q)[i] = q[i + 1] /\ i \in Nat
        /\ \A i \in DOMAIN q : i \in Nat /\ i >= 1
        /\ \A i \in DOMAIN q : i = 1 \/ (i - 1 \in DOMAIN Tail(q) /\ Tail(q)[i - 1] = q[i])
    OBVIOUS
  <1>2. ASSUME FollowedBy(q, a, b) PROVE FollowedBy(Tail(q), a, b)
    <2> SUFFICES ASSUME NEW i \in DOMAIN Tail(q), Tail(q)[i] = a
                 PROVE  \E j \in DOMAIN Tail(q) : j > i /\ Tail(q)[j] = b
      BY DEF FollowedBy
    <2>1. PICK j \in DOMAIN q : j > i + 1 /\ q[j] = b
      BY <1>1, <1>2 DEF FollowedBy
    <2>2. j - 1 \in DOMAIN Tail(q) /\ Tail(q)[j - 1] = b /\ j - 1 > i
      BY <1>1, <2>1
    <2> QED
      BY <2>2
  <1>3. ASSUME FollowedBy(q, a, b), Head(q) = a PROVE ~Lacks(Tail(q), b)
    <2>1. PICK j \in DOMAIN q : j > 1 /\ q[j] = b
      BY <1>1, <1>3 DEF FollowedBy
    <2>2. j - 1 \in DOMAIN Tail(q) /\ Tail(q)[j - 1] = b
      BY <1>1, <2>1
    <2> QED
      BY <2>2 DEF Lacks
  <1>4. ASSUME PrecededBy(q, a, b) PROVE Head(q) # a
    BY <1>1, <1>4 DEF PrecededBy
  <1>5. ASSUME PrecededBy(q, a, b), Head(q) # b PROVE PrecededBy(Tail(q), a, b)
    <2> SUFFICES ASSUME NEW i \in DOMAIN Tail(q), Tail(q)[i] = a
                 PROVE  \E j \in DOMAIN Tail(q) : j < i /\ Tail(q)[j] = b
      BY DEF PrecededBy
    <2>1. PICK j \in DOMAIN q : j < i + 1 /\ q[j] = b
      BY <1>1, <1>5 DEF PrecededBy
    <2>2. j # 1
      BY <1>1, <1>5, <2>1
    <2>3. j - 1 \in DOMAIN Tail(q) /\ Tail(q)[j - 1] = b /\ j - 1 < i
      BY <1>1, <2>1, <2>2
    <2> QED
      BY <2>3
  <1>6. ASSUME NoneAfter(q, a, b) PROVE NoneAfter(Tail(q), a, b)
    <2> SUFFICES ASSUME NEW i \in DOMAIN Tail(q), NEW j \in DOMAIN Tail(q), Tail(q)[i] = a, j > i
                 PROVE  Tail(q)[j] # b
      BY DEF NoneAfter
    <2>1. i + 1 \in DOMAIN q /\ j + 1 \in DOMAIN q /\ q[i + 1] = a /\ j + 1 > i + 1
      BY <1>1
    <2> QED
      BY <1>1, <1>6, <2>1 DEF NoneAfter
  <1>7. ASSUME NoneAfter(q, a, b), Head(q) = a PROVE Lacks(Tail(q), b)
    <2> SUFFICES ASSUME NEW j \in DOMAIN Tail(q) PROVE Tail(q)[j] # b
      BY DEF Lacks
    <2>1. j + 1 \in DOMAIN q /\ j + 1 > 1 /\ Tail(q)[j] = q[j + 1]
      <3>1. j \in 1 .. Len(Tail(q))
        OBVIOUS
      <3> QED
        BY <1>1, <3>1
    <2> QED
      BY <1>1, <1>7, <2>1 DEF NoneAfter
  <1> QED
    BY <1>2, <1>3, <1>4, <1>5, <1>6, <1>7

LEMMA AppendOrder ==
    ASSUME NEW S, NEW q \in Seq(S), NEW a, NEW b, NEW d, a # b
    PROVE  /\ d # a /\ FollowedBy(q, a, b) => FollowedBy(Append(q, d), a, b)
           /\ d = b => FollowedBy(Append(q, d), a, b)
           /\ d # a \/ ~Lacks(q, b) =>
                 (PrecededBy(q, a, b) => PrecededBy(Append(q, d), a, b))
           /\ d # b \/ Lacks(q, a) => (NoneAfter(q, a, b) => NoneAfter(Append(q, d), a, b))
  <1> DEFINE r == Append(q, d)
             n == Len(q) + 1
  <1>1. /\ n \in Nat /\ n \in DOMAIN r /\ r[n] = d
        /\ \A i \in DOMAIN q : i \in DOMAIN r /\ r[i] = q[i] /\ i < n /\ i \in Nat
        /\ \A i \in DOMAIN r : i = n \/ (i \in DOMAIN q /\ r[i] = q[i])
    OBVIOUS
  <1> HIDE DEF r, n
  <1>2. d # a /\ FollowedBy(q, a, b) => FollowedBy(r, a, b)
    BY <1>1 DEF FollowedBy
  <1>3. d = b => FollowedBy(r, a, b)
    BY <1>1 DEF FollowedBy
  <1>4. d # a \/ ~Lacks(q, b) => (PrecededBy(q, a, b) => PrecededBy(r, a, b))
    BY <1>1 DEF PrecededBy, Lacks
  <1>5. d # b \/ Lacks(q, a) => (NoneAfter(q, a, b) => NoneAfter(r, a, b))
    BY <1>1 DEF NoneAfter, Lacks
  <1> QED
    BY <1>2, <1>3, <1>4, <1>5 DEF r

(* What is in a queue stays until it is read.                              *)
LEMMA HasAppend ==
    ASSUME NEW S, NEW q \in Seq(S), NEW e, NEW d
    PROVE  /\ Lacks(Append(q, d), e) <=> Lacks(q, e) /\ d # e
           /\ \A c : q \o <<d, c>> = Append(Append(q, d), c)
  <1>1. Lacks(Append(q, d), e) <=> Lacks(q, e) /\ d # e
    <2> DEFINE r == Append(q, d)
               n == Len(q) + 1
    <2>1. /\ n \in DOMAIN r /\ r[n] = d
          /\ \A i \in DOMAIN q : i \in DOMAIN r /\ r[i] = q[i]
          /\ \A i \in DOMAIN r : i = n \/ (i \in DOMAIN q /\ r[i] = q[i])
      OBVIOUS
    <2> HIDE DEF r, n
    <2>2. Lacks(r, e) <=> Lacks(q, e) /\ d # e
      BY <2>1 DEF Lacks
    <2> QED
      BY <2>2 DEF r
  <1>2. \A c : q \o <<d, c>> = Append(Append(q, d), c)
    OBVIOUS
  <1> QED
    BY <1>1, <1>2

LEMMA HasTail ==
    ASSUME NEW S, NEW q \in Seq(S), q # <<>>, NEW e
    PROVE  Lacks(q, e) <=> Head(q) # e /\ Lacks(Tail(q), e)
  <1>1. /\ Head(q) = q[1] /\ 1 \in DOMAIN q
        /\ \A i \in DOMAIN Tail(q) : i + 1 \in DOMAIN q /\ Tail(q)[i] = q[i + 1]
        /\ \A i \in DOMAIN q : i = 1 \/ (i - 1 \in DOMAIN Tail(q) /\ Tail(q)[i - 1] = q[i])
    OBVIOUS
  <1> QED
    BY <1>1 DEF Lacks

LEMMA TailAppend ==
    ASSUME NEW S, NEW q \in Seq(S), q # <<>>, NEW e
    PROVE  Tail(Append(q, e)) = Append(Tail(q), e) /\ Append(q, e) # <<>> /\ Head(Append(q, e)) = Head(q)
  OBVIOUS
=============================================================================
