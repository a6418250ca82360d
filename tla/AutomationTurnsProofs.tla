----------------------- MODULE AutomationTurnsProofs -----------------------
(***************************************************************************)
(* Proofs about AutomationTurns, for any events, alerts, recovered answers *)
(* and bounds.                                                             *)
(***************************************************************************)
EXTENDS AutomationTurns, SequenceTheorems, FiniteSetTheorems, WellFoundedInduction, TLAPS

-----------------------------------------------------------------------------
(* Induction, over sets: what holds of the numbers, or the sequences, in a *)
(* set is said by the set.                                                 *)

SmallerThan == {r \in Nat \X Nat : r[1] < r[2]}

LEMMA Least ==
    ASSUME NEW S, S \subseteq Nat, S # {}
    PROVE  \E x \in S : \A y \in S : x <= y
<1>1. IsWellFoundedOn(SmallerThan, Nat)
  BY NatLessThanWellFounded DEF OpToRel, SmallerThan
<1>2. PICK x \in S : \A y \in S : ~ (<<y, x>> \in SmallerThan)
  BY <1>1, WFMin
<1>3. \A y \in S : x <= y
  <2> TAKE y \in S
  <2>1. ~ (<<y, x>> \in SmallerThan) /\ x \in Nat /\ y \in Nat
    BY <1>2
  <2>2. ~ (y < x)
    BY <2>1 DEF SmallerThan
  <2> QED
    BY <2>1, <2>2
<1> QED
  BY <1>3

LEMMA NumberInduction ==
    ASSUME NEW S, 0 \in S, \A n \in Nat : n \in S => n + 1 \in S
    PROVE  Nat \subseteq S
<1> SUFFICES ASSUME Nat \ S # {} PROVE FALSE
  OBVIOUS
<1>1. PICK x \in Nat \ S : \A y \in Nat \ S : x <= y
  BY Least
<1>2. x - 1 \in Nat /\ x - 1 \in S
  BY <1>1
<1> QED
  BY <1>1, <1>2

LEMMA SeqInduction ==
    ASSUME NEW X, NEW T, <<>> \in T,
           \A s \in Seq(X), x \in X : s \in T => Append(s, x) \in T
    PROVE  Seq(X) \subseteq T
<1> DEFINE N == {n \in Nat : \A s \in Seq(X) : Len(s) = n => s \in T}
<1>1. 0 \in N
  BY EmptySeq
<1>2. ASSUME NEW n \in Nat, n \in N
      PROVE  n + 1 \in N
  <2> SUFFICES ASSUME NEW s \in Seq(X), Len(s) = n + 1
               PROVE  s \in T
    OBVIOUS
  <2>1. s # <<>>
    BY EmptySeq
  <2>2. PICK r \in Seq(X), x \in X : s = Append(r, x)
    BY <2>1, SequenceEmptyOrAppend
  <2>3. Len(r) = n
    BY <2>2, AppendProperties, LenProperties
  <2> QED
    BY <1>2, <2>2, <2>3
<1> HIDE DEF N
<1>3. Nat \subseteq N
  BY <1>1, <1>2, NumberInduction
<1> QED
  BY <1>3, LenProperties DEF N

-----------------------------------------------------------------------------
(* What Only does.                                                         *)

\* f has what is taken of s, for each length up to n.
Takes(X, s, S, n, f) ==
    /\ f \in [0..n -> Seq(X)] /\ f[0] = <<>>
    /\ \A i \in 1..n : f[i] = IF s[i] \in S THEN Append(f[i - 1], s[i]) ELSE f[i - 1]

LEMMA SomeTakes ==
    ASSUME NEW X, NEW s \in Seq(X), NEW S
    PROVE  \E f : Takes(X, s, S, Len(s), f)
<1> DEFINE N == {n \in Nat : n <= Len(s) => \E f : Takes(X, s, S, n, f)}
<1>0. Len(s) \in Nat /\ \A i \in 1..Len(s) : s[i] \in X
  BY LenProperties
<1>1. 0 \in N
  <2>1. Takes(X, s, S, 0, [i \in 0..0 |-> <<>>])
    BY EmptySeq DEF Takes
  <2> QED
    BY <2>1
<1>2. ASSUME NEW n \in Nat, n \in N, n + 1 <= Len(s)
      PROVE  \E f : Takes(X, s, S, n + 1, f)
  <2>1. PICK f : Takes(X, s, S, n, f)
    BY <1>0, <1>2
  <2> DEFINE next == IF s[n + 1] \in S THEN Append(f[n], s[n + 1]) ELSE f[n]
  <2> DEFINE g == [i \in 0..(n + 1) |-> IF i = n + 1 THEN next ELSE f[i]]
  <2>2. f[n] \in Seq(X) /\ s[n + 1] \in X
    BY <1>0, <1>2, <2>1 DEF Takes
  <2>3. next \in Seq(X)
    BY <2>2, AppendProperties
  <2> HIDE DEF next
  <2>4. g \in [0..(n + 1) -> Seq(X)]
    BY <2>1, <2>3 DEF Takes
  <2>5. ASSUME NEW i \in 1..(n + 1)
        PROVE  g[i] = IF s[i] \in S THEN Append(g[i - 1], s[i]) ELSE g[i - 1]
    <3>1. CASE i = n + 1
      BY <3>1 DEF next
    <3>2. CASE i # n + 1
      BY <2>1, <3>2 DEF Takes
    <3> QED
      BY <3>1, <3>2
  <2>6. g[0] = <<>>
    BY <2>1 DEF Takes
  <2> HIDE DEF g
  <2> QED
    BY <2>4, <2>5, <2>6 DEF Takes
<1>3. \A n \in Nat : n \in N => n + 1 \in N
  BY <1>2
<1> HIDE DEF N
<1>4. Nat \subseteq N
  BY <1>1, <1>3, NumberInduction
<1> QED
  BY <1>0, <1>4 DEF N

LEMMA OnlyTakes ==
    ASSUME NEW X, NEW s \in Seq(X), NEW S, NEW f, Takes(X, s, S, Len(s), f)
    PROVE  Only(s, S) = f[Len(s)]
<1> DEFINE F(h) == [n \in 0..Len(s) |-> IF n = 0 THEN <<>>
                                        ELSE IF s[n] \in S THEN Append(h[n - 1], s[n])
                                                           ELSE h[n - 1]]
<1> DEFINE g == CHOOSE h : h = F(h)
<1>0. Len(s) \in Nat
  BY LenProperties
<1>1. f = F(f)
  <2>1. f = [n \in 0..Len(s) |-> f[n]]
    BY DEF Takes
  <2>2. ASSUME NEW n \in 0..Len(s)
        PROVE  f[n] = IF n = 0 THEN <<>> ELSE IF s[n] \in S THEN Append(f[n - 1], s[n])
                                              ELSE f[n - 1]
    <3>1. n = 0 \/ n \in 1..Len(s)
      BY <1>0
    <3> QED
      BY <3>1 DEF Takes
  <2> QED
    BY <2>1, <2>2
<1>2. g = F(g)
  BY <1>1
<1>3. Only(s, S) = g[Len(s)]
  BY DEF Only
<1> HIDE DEF g
<1>a. \A m \in 0..Len(s) :
        g[m] = IF m = 0 THEN <<>>
               ELSE IF s[m] \in S THEN Append(g[m - 1], s[m]) ELSE g[m - 1]
  BY <1>2
<1> HIDE DEF F
<1> DEFINE N == {n \in Nat : n <= Len(s) => f[n] = g[n]}
<1>4. 0 \in N
  BY <1>0, <1>a DEF Takes
<1>5. ASSUME NEW n \in Nat, n \in N
      PROVE  n + 1 \in N
  <2> SUFFICES ASSUME n + 1 <= Len(s)
               PROVE  f[n + 1] = g[n + 1]
    BY <1>5
  <2>1. f[n] = g[n] /\ n + 1 \in 1..Len(s) /\ (n + 1) - 1 = n
    BY <1>0, <1>5
  <2>2. f[n + 1] = IF s[n + 1] \in S THEN Append(f[n], s[n + 1]) ELSE f[n]
    BY <2>1 DEF Takes
  <2>3. g[n + 1] = IF s[n + 1] \in S THEN Append(g[n], s[n + 1]) ELSE g[n]
    BY <1>a, <2>1
  <2> QED
    BY <2>1, <2>2, <2>3
<1> HIDE DEF N
<1>6. Nat \subseteq N
  BY <1>4, <1>5, NumberInduction
<1> QED
  BY <1>0, <1>3, <1>6 DEF N

LEMMA OnlyEmpty == \A S : Only(<<>>, S) = <<>>
<1> TAKE S
<1>1. PICK f : Takes({}, <<>>, S, Len(<<>>), f)
  BY SomeTakes, EmptySeq
<1> QED
  BY <1>1, OnlyTakes, EmptySeq DEF Takes

LEMMA OnlyAppend ==
    ASSUME NEW X, NEW s \in Seq(X), NEW x \in X, NEW S
    PROVE  /\ Only(s, S) \in Seq(X)
           /\ Only(Append(s, x), S) = IF x \in S THEN Append(Only(s, S), x) ELSE Only(s, S)
<1> DEFINE t == Append(s, x)
<1>1. t \in Seq(X) /\ Len(t) = Len(s) + 1 /\ Len(s) \in Nat /\ t[Len(s) + 1] = x
      /\ \A i \in 1..Len(s) : t[i] = s[i]
  BY AppendProperties, LenProperties
<1> HIDE DEF t
<1>2. PICK f : Takes(X, t, S, Len(s) + 1, f)
  BY <1>1, SomeTakes
<1>3. Only(t, S) = f[Len(s) + 1]
  BY <1>1, <1>2, OnlyTakes
<1> DEFINE g == [i \in 0..Len(s) |-> f[i]]
<1>4. Takes(X, s, S, Len(s), g)
  BY <1>1, <1>2 DEF Takes
<1>5. Only(s, S) = f[Len(s)]
  BY <1>1, <1>4, OnlyTakes
<1>6. f[Len(s)] \in Seq(X)
      /\ f[Len(s) + 1] = IF x \in S THEN Append(f[Len(s)], x) ELSE f[Len(s)]
  BY <1>1, <1>2 DEF Takes
<1> QED
  BY <1>3, <1>5, <1>6 DEF t

LEMMA MembersOfAppend ==
    ASSUME NEW X, NEW s \in Seq(X), NEW x \in X
    PROVE  ToSet(Append(s, x)) = ToSet(s) \cup {x}
<1>1. /\ Len(s) \in Nat /\ DOMAIN s = 1..Len(s)
      /\ DOMAIN Append(s, x) = 1..(Len(s) + 1)
      /\ \A i \in 1..Len(s) : Append(s, x)[i] = s[i]
      /\ Append(s, x)[Len(s) + 1] = x
  BY AppendProperties, LenProperties
<1> QED
  BY <1>1 DEF ToSet

LEMMA MembersOfConcat ==
    ASSUME NEW X, NEW s \in Seq(X), NEW t \in Seq(X)
    PROVE  ToSet(s \o t) = ToSet(s) \cup ToSet(t)
<1>1. /\ Len(s) \in Nat /\ DOMAIN s = 1..Len(s) /\ Len(t) \in Nat /\ DOMAIN t = 1..Len(t)
      /\ DOMAIN (s \o t) = 1..(Len(s) + Len(t))
      /\ \A i \in 1..(Len(s) + Len(t)) :
           (s \o t)[i] = IF i <= Len(s) THEN s[i] ELSE t[i - Len(s)]
  BY ConcatProperties, LenProperties
<1>2. ToSet(s) \cup ToSet(t) \subseteq ToSet(s \o t)
  <2>1. ASSUME NEW i \in 1..Len(s) PROVE s[i] \in ToSet(s \o t)
    BY <1>1, <2>1 DEF ToSet
  <2>2. ASSUME NEW i \in 1..Len(t) PROVE t[i] \in ToSet(s \o t)
    <3>1. i + Len(s) \in 1..(Len(s) + Len(t)) /\ ~(i + Len(s) <= Len(s)) /\ (i + Len(s)) - Len(s) = i
      BY <1>1
    <3>2. (s \o t)[i + Len(s)] = t[i]
      BY <1>1, <3>1
    <3> QED
      BY <1>1, <3>1, <3>2 DEF ToSet
  <2> QED
    BY <1>1, <2>1, <2>2 DEF ToSet
<1>3. ToSet(s \o t) \subseteq ToSet(s) \cup ToSet(t)
  BY <1>1 DEF ToSet
<1> QED
  BY <1>2, <1>3

LEMMA MembersOfSeq ==
    ASSUME NEW X, NEW s \in Seq(X)
    PROVE  /\ ToSet(s) \subseteq X
           /\ ToSet(s) = {} <=> s = <<>>
           /\ \A S : ToSet(s) \subseteq S => s \in Seq(S)
<1>1. Len(s) \in Nat /\ DOMAIN s = 1..Len(s) /\ \A i \in 1..Len(s) : s[i] \in X
  BY LenProperties
<1>2. s = <<>> <=> Len(s) = 0
  BY EmptySeq, LenProperties
<1>3. ToSet(s) = {} <=> Len(s) = 0
  <2>1. CASE Len(s) = 0
    BY <1>1, <2>1 DEF ToSet
  <2>2. CASE Len(s) # 0
    <3>1. 1 \in 1..Len(s)
      BY <1>1, <2>2
    <3>2. s[1] \in ToSet(s)
      BY <1>1, <3>1 DEF ToSet
    <3> QED
      BY <2>2, <3>2
  <2> QED
    BY <2>1, <2>2
<1>4. ASSUME NEW S, ToSet(s) \subseteq S PROVE s \in Seq(S)
  <2>1. s = [i \in 1..Len(s) |-> s[i]]
    BY LenProperties
  <2>2. \A i \in 1..Len(s) : s[i] \in S
    BY <1>1, <1>4 DEF ToSet
  <2>3. s \in [1..Len(s) -> S]
    BY <2>1, <2>2
  <2> QED
    BY <1>1, <2>3, SeqDef
<1> QED
  BY <1>1, <1>2, <1>3, <1>4 DEF ToSet

LEMMA MembersOfEmpty == ToSet(<<>>) = {}
  BY MembersOfSeq, EmptySeq

LEMMA OnlyConcat ==
    ASSUME NEW X, NEW s \in Seq(X), NEW S
    PROVE  \A t \in Seq(X) : Only(s \o t, S) = Only(s, S) \o Only(t, S)
<1> DEFINE T == {u \in Seq(X) : Only(s \o u, S) = Only(s, S) \o Only(u, S)}
<1>0. Only(s, S) \in Seq(X)
  <2>1. CASE X = {}
    BY <2>1, OnlyEmpty, EmptySeq, MembersOfSeq
  <2>2. CASE X # {}
    BY <2>2, OnlyAppend
  <2> QED
    BY <2>1, <2>2
<1>1. <<>> \in T
  BY <1>0, OnlyEmpty, EmptySeq, ConcatEmptySeq
<1>2. ASSUME NEW u \in Seq(X), NEW x \in X, u \in T
      PROVE  Append(u, x) \in T
  <2>1. s \o Append(u, x) = Append(s \o u, x) /\ s \o u \in Seq(X) /\ Append(u, x) \in Seq(X)
    BY AppendIsConcat, ConcatAssociative, ConcatProperties, AppendProperties
  <2>2. /\ Only(u, S) \in Seq(X)
        /\ Only(Append(u, x), S) = IF x \in S THEN Append(Only(u, S), x) ELSE Only(u, S)
    BY OnlyAppend
  <2>3. Only(Append(s \o u, x), S)
          = IF x \in S THEN Append(Only(s \o u, S), x) ELSE Only(s \o u, S)
    <3>1. \A v \in Seq(X) : Only(Append(v, x), S)
                             = IF x \in S THEN Append(Only(v, S), x) ELSE Only(v, S)
      <4>1. ASSUME NEW v \in Seq(X)
            PROVE  Only(Append(v, x), S) = IF x \in S THEN Append(Only(v, S), x) ELSE Only(v, S)
        BY OnlyAppend, SMTT(30)
      <4> QED
        BY <4>1
    <3> QED
      BY <2>1, <3>1
  <2>4. Only(s, S) \o Append(Only(u, S), x) = Append(Only(s, S) \o Only(u, S), x)
    <3> DEFINE v == Only(s, S)
    <3> DEFINE w == Only(u, S)
    <3>1. v \in Seq(X) /\ w \in Seq(X) /\ v \o w \in Seq(X) /\ <<x>> \in Seq(X)
      BY <1>0, <2>2, ConcatProperties
    <3> HIDE DEF v, w
    <3>2. Append(w, x) = w \o <<x>> /\ Append(v \o w, x) = (v \o w) \o <<x>>
      BY <3>1, AppendIsConcat
    <3>3. v \o Append(w, x) = Append(v \o w, x)
      BY <3>1, <3>2, ConcatAssociative
    <3> QED
      BY <3>3 DEF v, w
  <2> QED
    BY <1>2, <2>1, <2>2, <2>3, <2>4
<1> HIDE DEF T
<1>3. Seq(X) \subseteq T
  BY <1>1, <1>2, SeqInduction
<1> QED
  BY <1>3 DEF T

LEMMA OnlyMembers ==
    ASSUME NEW X, NEW s \in Seq(X), NEW S
    PROVE  /\ Only(s, S) \in Seq(X)
           /\ ToSet(Only(s, S)) = ToSet(s) \cap S
<1> DEFINE T == {u \in Seq(X) : Only(u, S) \in Seq(X) /\ ToSet(Only(u, S)) = ToSet(u) \cap S}
<1>1. <<>> \in T
  BY OnlyEmpty, EmptySeq, MembersOfEmpty
<1>2. ASSUME NEW u \in Seq(X), NEW x \in X, u \in T
      PROVE  Append(u, x) \in T
  <2>1. Only(Append(u, x), S) = IF x \in S THEN Append(Only(u, S), x) ELSE Only(u, S)
    BY OnlyAppend
  <2>2. ToSet(Append(u, x)) = ToSet(u) \cup {x}
        /\ ToSet(Append(Only(u, S), x)) = ToSet(Only(u, S)) \cup {x}
    BY <1>2, MembersOfAppend
  <2>3. Append(u, x) \in Seq(X) /\ Append(Only(u, S), x) \in Seq(X)
    BY <1>2, AppendProperties
  <2> QED
    BY <1>2, <2>1, <2>2, <2>3
<1> HIDE DEF T
<1>3. Seq(X) \subseteq T
  BY <1>1, <1>2, SeqInduction
<1> QED
  BY <1>3 DEF T

\* Only what is in the sequence matters.
LEMMA OnlySame ==
    ASSUME NEW X, NEW s \in Seq(X), NEW S, NEW R, ToSet(s) \cap S = ToSet(s) \cap R
    PROVE  Only(s, S) = Only(s, R)
<1> DEFINE T == {u \in Seq(X) : ToSet(u) \cap S = ToSet(u) \cap R => Only(u, S) = Only(u, R)}
<1>1. <<>> \in T
  BY OnlyEmpty, EmptySeq
<1>2. ASSUME NEW u \in Seq(X), NEW x \in X, u \in T
      PROVE  Append(u, x) \in T
  <2>1. Append(u, x) \in Seq(X) /\ ToSet(Append(u, x)) = ToSet(u) \cup {x}
    BY AppendProperties, MembersOfAppend
  <2>2. Only(Append(u, x), S) = IF x \in S THEN Append(Only(u, S), x) ELSE Only(u, S)
    BY OnlyAppend
  <2>3. Only(Append(u, x), R) = IF x \in R THEN Append(Only(u, R), x) ELSE Only(u, R)
    BY OnlyAppend
  <2>4. ASSUME (ToSet(u) \cup {x}) \cap S = (ToSet(u) \cup {x}) \cap R
        PROVE  Only(u, S) = Only(u, R) /\ (x \in S <=> x \in R)
    <3>1. ToSet(u) \cap S = ToSet(u) \cap R /\ (x \in S <=> x \in R)
      BY <2>4
    <3> QED
      BY <1>2, <3>1
  <2> QED
    BY <2>1, <2>2, <2>3, <2>4
<1> HIDE DEF T
<1>3. Seq(X) \subseteq T
  BY <1>1, <1>2, SeqInduction
<1> QED
  BY <1>3 DEF T

LEMMA OnlyNone ==
    ASSUME NEW X, NEW s \in Seq(X), NEW S
    PROVE  Only(s, S) = <<>> <=> ToSet(s) \cap S = {}
  BY OnlyMembers, MembersOfSeq

LEMMA OnlyOnly ==
    ASSUME NEW X, NEW s \in Seq(X), NEW S, NEW R
    PROVE  Only(Only(s, S), R) = Only(s, S \cap R)
<1> DEFINE T == {u \in Seq(X) : Only(Only(u, S), R) = Only(u, S \cap R)}
<1>1. <<>> \in T
  BY OnlyEmpty, EmptySeq
<1>2. ASSUME NEW u \in Seq(X), NEW x \in X, u \in T
      PROVE  Append(u, x) \in T
  <2>1. Only(u, S) \in Seq(X)
    BY OnlyMembers
  <2>2. Only(Append(Only(u, S), x), R)
          = IF x \in R THEN Append(Only(Only(u, S), R), x) ELSE Only(Only(u, S), R)
    <3>1. ASSUME NEW v \in Seq(X)
          PROVE  Only(Append(v, x), R) = IF x \in R THEN Append(Only(v, R), x) ELSE Only(v, R)
      BY OnlyAppend, SMTT(30)
    <3> QED
      BY <2>1, <3>1
  <2>3. Only(Append(u, x), S) = IF x \in S THEN Append(Only(u, S), x) ELSE Only(u, S)
    BY OnlyAppend
  <2>4. Only(Append(u, x), S \cap R)
          = IF x \in S \cap R THEN Append(Only(u, S \cap R), x) ELSE Only(u, S \cap R)
    <3> DEFINE Q == S \cap R
    <3> HIDE DEF Q
    <3>1. Only(Append(u, x), Q) = IF x \in Q THEN Append(Only(u, Q), x) ELSE Only(u, Q)
      BY OnlyAppend
    <3> QED
      BY <3>1 DEF Q
  <2>5. Append(u, x) \in Seq(X) /\ Only(Only(u, S), R) = Only(u, S \cap R)
    BY <1>2, AppendProperties
  <2>6. Only(Only(Append(u, x), S), R) = Only(Append(u, x), S \cap R)
    <3>1. CASE x \in S
      <4>1. Only(Append(u, x), S) = Append(Only(u, S), x)
        BY <2>3, <3>1
      <4>2. Only(Only(Append(u, x), S), R)
              = IF x \in R THEN Append(Only(u, S \cap R), x) ELSE Only(u, S \cap R)
        BY <2>2, <2>5, <4>1
      <4> QED
        BY <2>4, <3>1, <4>2
    <3>2. CASE x \notin S
      BY <2>3, <2>4, <2>5, <3>2
    <3> QED
      BY <3>1, <3>2
  <2> QED
    BY <2>5, <2>6
<1> HIDE DEF T
<1>3. Seq(X) \subseteq T
  BY <1>1, <1>2, SeqInduction
<1> QED
  BY <1>3 DEF T

-----------------------------------------------------------------------------
(* What FlattenSeq does.                                                   *)

\* f has the first n sequences of ss in one, for each n.
Joins(X, ss, n, f) ==
    /\ f \in [1..n -> Seq(X)]
    /\ \A i \in 1..n : f[i] = IF i = 1 THEN ss[i] ELSE f[i - 1] \o ss[i]

LEMMA SomeJoins ==
    ASSUME NEW X, NEW ss \in Seq(Seq(X))
    PROVE  \E f : Joins(X, ss, Len(ss), f)
<1> DEFINE N == {n \in Nat : n <= Len(ss) => \E f : Joins(X, ss, n, f)}
<1>0. Len(ss) \in Nat /\ \A i \in 1..Len(ss) : ss[i] \in Seq(X)
  BY LenProperties
<1>1. 0 \in N
  <2>1. Joins(X, ss, 0, [i \in 1..0 |-> <<>>])
    BY EmptySeq DEF Joins
  <2> QED
    BY <2>1
<1>2. ASSUME NEW n \in Nat, n \in N, n + 1 <= Len(ss)
      PROVE  \E f : Joins(X, ss, n + 1, f)
  <2>1. PICK f : Joins(X, ss, n, f)
    BY <1>0, <1>2
  <2> DEFINE next == IF n = 0 THEN ss[1] ELSE f[n] \o ss[n + 1]
  <2> DEFINE g == [i \in 1..(n + 1) |-> IF i = n + 1 THEN next ELSE f[i]]
  <2>2. ss[n + 1] \in Seq(X) /\ (n # 0 => f[n] \in Seq(X))
    BY <1>0, <1>2, <2>1 DEF Joins
  <2>3. next \in Seq(X)
    BY <2>2, ConcatProperties
  <2>4. next = IF n + 1 = 1 THEN ss[n + 1] ELSE f[n] \o ss[n + 1]
    OBVIOUS
  <2> HIDE DEF next
  <2>5. g \in [1..(n + 1) -> Seq(X)]
    BY <2>1, <2>3 DEF Joins
  <2>6. ASSUME NEW i \in 1..(n + 1)
        PROVE  g[i] = IF i = 1 THEN ss[i] ELSE g[i - 1] \o ss[i]
    <3>1. CASE i = n + 1
      BY <2>4, <3>1
    <3>2. CASE i # n + 1
      <4>1. i \in 1..n /\ g[i] = f[i] /\ (i # 1 => i - 1 \in 1..n)
        BY <3>2
      <4>2. f[i] = IF i = 1 THEN ss[i] ELSE f[i - 1] \o ss[i]
        BY <2>1, <4>1 DEF Joins
      <4>3. i # 1 => g[i - 1] = f[i - 1]
        BY <3>2, <4>1
      <4> QED
        BY <4>1, <4>2, <4>3
    <3> QED
      BY <3>1, <3>2
  <2> HIDE DEF g
  <2> QED
    BY <2>5, <2>6 DEF Joins
<1>3. \A n \in Nat : n \in N => n + 1 \in N
  <2> TAKE n \in Nat
  <2> HAVE n \in N
  <2>1. n + 1 <= Len(ss) => \E f : Joins(X, ss, n + 1, f)
    <3> HIDE DEF N
    <3> QED
      BY <1>2
  <2> QED
    BY <2>1
<1> HIDE DEF N
<1>4. Nat \subseteq N
  BY <1>1, <1>3, NumberInduction
<1> QED
  BY <1>0, <1>4 DEF N

LEMMA FlattenEmpty == FlattenSeq(<<>>) = <<>>
  BY DEF FlattenSeq

LEMMA FlattenJoins ==
    ASSUME NEW X, NEW ss \in Seq(Seq(X)), ss # <<>>, NEW f, Joins(X, ss, Len(ss), f)
    PROVE  FlattenSeq(ss) = f[Len(ss)]
<1> DEFINE F(h) == [i \in 1..Len(ss) |-> IF i = 1 THEN ss[i] ELSE h[i - 1] \o ss[i]]
<1> DEFINE g == CHOOSE h : h = F(h)
<1>0. Len(ss) \in Nat \ {0}
  BY EmptySeq, LenProperties
<1>1. f = F(f)
  <2>1. f = [i \in 1..Len(ss) |-> f[i]]
    BY DEF Joins
  <2>2. \A i \in 1..Len(ss) : f[i] = IF i = 1 THEN ss[i] ELSE f[i - 1] \o ss[i]
    BY DEF Joins
  <2> QED
    BY <2>1, <2>2
<1>2. g = F(g)
  BY <1>1
<1>3. FlattenSeq(ss) = g[Len(ss)]
  BY <1>0 DEF FlattenSeq
<1> HIDE DEF g
<1>a. \A i \in 1..Len(ss) : g[i] = IF i = 1 THEN ss[i] ELSE g[i - 1] \o ss[i]
  BY <1>2
<1> HIDE DEF F
<1> DEFINE N == {n \in Nat : n + 1 <= Len(ss) => f[n + 1] = g[n + 1]}
<1>4. 0 \in N
  <2>1. 1 \in 1..Len(ss)
    BY <1>0
  <2>2. f[1] = ss[1]
    BY <2>1 DEF Joins
  <2>3. g[1] = ss[1]
    BY <1>a, <2>1
  <2> QED
    BY <2>2, <2>3
<1>5. ASSUME NEW n \in Nat, n \in N
      PROVE  n + 1 \in N
  <2> DEFINE m == n + 1
  <2> SUFFICES ASSUME m + 1 <= Len(ss)
               PROVE  f[m + 1] = g[m + 1]
    BY <1>5
  <2>1. f[m] = g[m] /\ m + 1 \in 1..Len(ss) /\ (m + 1) - 1 = m /\ m + 1 # 1
    BY <1>0, <1>5
  <2> HIDE DEF m
  <2>2. f[m + 1] = f[m] \o ss[m + 1]
    BY <2>1 DEF Joins
  <2>3. g[m + 1] = g[m] \o ss[m + 1]
    BY <1>a, <2>1
  <2> QED
    BY <2>1, <2>2, <2>3
<1> HIDE DEF N
<1>6. Nat \subseteq N
  BY <1>4, <1>5, NumberInduction
<1>7. Len(ss) - 1 \in N /\ (Len(ss) - 1) + 1 = Len(ss)
  BY <1>0, <1>6
<1> QED
  BY <1>0, <1>3, <1>7 DEF N

LEMMA FlattenAppend ==
    ASSUME NEW X, NEW ss \in Seq(Seq(X)), NEW s \in Seq(X)
    PROVE  /\ FlattenSeq(ss) \in Seq(X)
           /\ FlattenSeq(Append(ss, s)) = FlattenSeq(ss) \o s
<1> DEFINE tt == Append(ss, s)
<1>1. tt \in Seq(Seq(X)) /\ tt # <<>> /\ Len(tt) = Len(ss) + 1 /\ tt[Len(ss) + 1] = s
      /\ \A i \in 1..Len(ss) : tt[i] = ss[i]
  BY AppendProperties
<1>2. Len(ss) \in Nat /\ (ss = <<>> <=> Len(ss) = 0)
  BY LenProperties, EmptySeq
<1>0. FlattenSeq(tt) = FlattenSeq(Append(ss, s))
  OBVIOUS
<1> HIDE DEF tt
<1>3. PICK f : Joins(X, tt, Len(ss) + 1, f)
  BY <1>1, SomeJoins
<1>4. FlattenSeq(tt) = f[Len(ss) + 1]
  BY <1>1, <1>3, FlattenJoins
<1>5. CASE ss = <<>>
  <2>1. f[Len(ss) + 1] = s
    BY <1>1, <1>2, <1>3, <1>5 DEF Joins
  <2> QED
    BY <1>0, <1>4, <1>5, <2>1, FlattenEmpty, EmptySeq, ConcatEmptySeq
<1>6. CASE ss # <<>>
  <2> DEFINE g == [i \in 1..Len(ss) |-> f[i]]
  <2>1. Joins(X, ss, Len(ss), g)
    <3>1. g \in [1..Len(ss) -> Seq(X)]
      BY <1>2, <1>3 DEF Joins
    <3>2. ASSUME NEW i \in 1..Len(ss)
          PROVE  g[i] = IF i = 1 THEN ss[i] ELSE g[i - 1] \o ss[i]
      <4>1. /\ i \in 1..(Len(ss) + 1) /\ g[i] = f[i] /\ tt[i] = ss[i]
            /\ i # 1 => i - 1 \in 1..Len(ss)
        BY <1>1, <1>2
      <4>2. f[i] = IF i = 1 THEN tt[i] ELSE f[i - 1] \o tt[i]
        BY <1>3, <4>1 DEF Joins
      <4>3. i # 1 => g[i - 1] = f[i - 1]
        BY <4>1
      <4> QED
        BY <4>1, <4>2, <4>3
    <3> HIDE DEF g
    <3> QED
      BY <3>1, <3>2 DEF Joins
  <2>2. FlattenSeq(ss) = f[Len(ss)]
    BY <1>2, <1>6, <2>1, FlattenJoins
  <2>3. f[Len(ss)] \in Seq(X) /\ f[Len(ss) + 1] = f[Len(ss)] \o s
    <3>1. /\ Len(ss) \in 1..(Len(ss) + 1) /\ Len(ss) + 1 \in 1..(Len(ss) + 1)
          /\ Len(ss) + 1 # 1 /\ (Len(ss) + 1) - 1 = Len(ss)
      BY <1>2, <1>6
    <3>2. f[Len(ss)] \in Seq(X)
      BY <1>3, <3>1 DEF Joins
    <3>3. f[Len(ss) + 1] = f[(Len(ss) + 1) - 1] \o tt[Len(ss) + 1]
      BY <1>3, <3>1 DEF Joins
    <3> QED
      BY <1>1, <3>1, <3>2, <3>3
  <2> QED
    BY <1>0, <1>4, <2>2, <2>3
<1> QED
  BY <1>5, <1>6

LEMMA FlattenHead ==
    ASSUME NEW X
    PROVE  \A ss \in Seq(Seq(X)) : ss # <<>> =>
             /\ Head(ss) \in Seq(X) /\ Tail(ss) \in Seq(Seq(X))
             /\ FlattenSeq(ss) = Head(ss) \o FlattenSeq(Tail(ss))
<1> DEFINE T == {u \in Seq(Seq(X)) :
                   u # <<>> => FlattenSeq(u) = Head(u) \o FlattenSeq(Tail(u))}
<1>1. <<>> \in T
  BY EmptySeq
<1>2. ASSUME NEW u \in Seq(Seq(X)), NEW s \in Seq(X), u \in T
      PROVE  Append(u, s) \in T
  <2>1. CASE u = <<>>
    <3>1. Head(Append(u, s)) = s /\ Tail(Append(u, s)) = <<>>
      BY <2>1, HeadTailAppend
    <3>2. FlattenSeq(Append(u, s)) = s
      <4>1. FlattenSeq(Append(u, s)) = FlattenSeq(u) \o s
        BY FlattenAppend
      <4> QED
        BY <2>1, <4>1, FlattenEmpty, ConcatEmptySeq
    <3> QED
      BY <3>1, <3>2, FlattenEmpty, ConcatEmptySeq, AppendProperties
  <2>2. CASE u # <<>>
    <3>1. Head(Append(u, s)) = Head(u) /\ Tail(Append(u, s)) = Append(Tail(u), s)
      BY <2>2, HeadTailAppend
    <3>2. Head(u) \in Seq(X) /\ Tail(u) \in Seq(Seq(X))
      BY <2>2, HeadTailProperties
    <3>3. FlattenSeq(Append(u, s)) = FlattenSeq(u) \o s
      BY FlattenAppend
    <3>a. /\ FlattenSeq(Append(Tail(u), s)) = FlattenSeq(Tail(u)) \o s
          /\ FlattenSeq(Tail(u)) \in Seq(X)
      BY <3>2, FlattenAppend
    <3>4. FlattenSeq(u) = Head(u) \o FlattenSeq(Tail(u))
      BY <1>2, <2>2
    <3>5. \A h, t \in Seq(X) : (h \o t) \o s = h \o (t \o s)
      BY ConcatAssociative, SMTT(30)
    <3> QED
      BY <3>1, <3>2, <3>3, <3>a, <3>4, <3>5, AppendProperties
  <2> QED
    BY <2>1, <2>2
<1> HIDE DEF T
<1>3. Seq(Seq(X)) \subseteq T
  BY <1>1, <1>2, SeqInduction
<1> QED
  BY <1>3, HeadTailProperties DEF T

LEMMA FlattenType ==
    ASSUME NEW X, NEW ss \in Seq(Seq(X))
    PROVE  FlattenSeq(ss) \in Seq(X)
  BY FlattenAppend, EmptySeq

-----------------------------------------------------------------------------
(* The inductive invariant.                                                *)

InFlight(p) == stage[p] \in {"waiting", "resolving", "injecting", "running"}

\* Who is in the order is under way, and only its head has begun.
SlotInv ==
    /\ \A i \in DOMAIN tails : InFlight(tails[i]) /\ (i > 1 => stage[tails[i]] = "waiting")
    /\ \A p \in Resumes : InFlight(p) => p \in ToSet(tails)

\* An alert is answered by its answers in turn.
GivenInv == \A a \in Alerts, n \in 1..MaxAnswers : n > given[a] => stage[<<a, n>>] = "none"

Taken == FlattenSeq(turn.pending)

\* What is on its way to the branch was handed over by its action.
Handed == ToSet(turn.failed) \cup ToSet(Taken) \cup ToSet(queue)

HeldInv ==
    /\ \A p \in ToSet(Line) : stage[p] # "none"
    /\ \A p \in Handed \cup ToSet(turn.landed) : stage[p] = "returned"
    /\ ToSet(turn.landed) \subseteq ToSet(branch)

Held(p) == InFlight(p) \/ p \in ToSet(Line)

AnswerInv ==
    \A a \in Alerts, m \in 1..MaxAnswers :
      Held(<<a, m>>) =>
        /\ alert[a] # "open"
        /\ \A n \in 1..MaxAnswers : Held(<<a, n>>) => m = n

DeskInv ==
    /\ desk # "none" => status = "running" /\ live = None
    /\ desk = "none" => ToSet(queue) \subseteq Events
    /\ ToSet(turn.landed) \cup ToSet(turn.failed) \cup ToSet(Taken) \subseteq Events
    /\ desk = "gui" => ToSet(queue) \subseteq ToSet(branch)
    /\ \A r \in Recovered : stage[r] # "none" => r \in note \/ Saved(r)

\* p is the first of the two in s, if any of them is there.
Before(p, e, s) == Only(s, {p, e}) # <<>> => Head(Only(s, {p, e})) = p

Behind(p, e) == \E i, j \in DOMAIN tails : i < j /\ tails[i] = p /\ tails[j] = e

AheadInv ==
    \A e \in Events : \A p \in ahead[e] :
      /\ stage[p] # "none"
      /\ p \in ToSet(tails) => e \notin ToSet(Line) /\ Behind(p, e)
      /\ p \in ToSet(Line) => Before(p, e, Line)

FollowInv ==
    LET A == ToSet(accepted) IN
    /\ Only(Line, A) = accepted
    /\ \A x \in A : Only(accepted, {x}) = <<x>> /\ stage[x] = "returned"
    /\ Only(branch, A) = Only(branch, A \ ToSet(turn.landed)) \o Only(turn.landed, A)

IInv ==
    /\ TypeOK /\ SlotInv /\ GivenInv /\ HeldInv /\ AnswerInv
    /\ ~intruded => DeskInv /\ AheadInv /\ FollowInv

-----------------------------------------------------------------------------
(* The types, in three parts.                                              *)

ControlTypes ==
    /\ stage \in [Prompts -> Stages]
    /\ tails \in Seq(Prompts) /\ IsInjective(tails)
    /\ \A p \in Prompts : stage[p] = "waiting" => p \in ToSet(tails)
    /\ live \in Prompts \cup {None}
    /\ \A p \in Prompts : stage[p] = "running" <=> p = live

DataTypes ==
    /\ turn \in [pending : Seq(Seq(Prompts)), landed : Seq(Prompts), failed : Seq(Prompts)]
    /\ live = None => turn = NoFollowUps
    /\ queue \in Seq(Prompts) /\ branch \in Seq(Prompts)

OtherTypes ==
    /\ alert \in [Alerts -> {"open", "answered", "dismissed"}]
    /\ given \in [Alerts -> 0..MaxAnswers] /\ note \subseteq Recovered
    /\ budget \in [Prompts -> 0..ContinueBudget]
    /\ status \in {"idle", "running"} /\ desk \in {"none", "gui", "server"}
    /\ accepted \in Seq(Events) /\ intruded \in BOOLEAN
    /\ ahead \in [Events -> SUBSET Resumes]
    /\ {retries, faults, deskTurns, crashes} \subseteq Nat

LEMMA TypeParts == TypeOK <=> ControlTypes /\ DataTypes /\ OtherTypes
  BY DEF TypeOK, ControlTypes, DataTypes, OtherTypes

LEMMA PromptKinds ==
    /\ Prompts = Events \cup Resumes /\ None \notin Prompts
    /\ \A e \in Events : e \notin Resumes /\ e \notin Answers
    /\ \A r \in Recovered : r \in Resumes /\ r \notin Answers /\ r \notin Events
    /\ \A a \in Alerts, n \in 1..MaxAnswers :
         <<a, n>> \in Answers /\ <<a, n>> \in Resumes /\ <<a, n>> \notin Events
           /\ <<a, n>> \notin Recovered
    /\ \A p \in Answers : p[1] \in Alerts /\ p[2] \in 1..MaxAnswers /\ p = <<p[1], p[2]>>
  BY BoundsAssumption DEF Prompts, Resumes, Answers

-----------------------------------------------------------------------------
(* What a step does to the place of one prompt.                            *)

\* Who may move: whose action is under way, or an event that comes.
Moves(p) == InFlight(p) \/ (p \in Events /\ stage[p] = "none")

Enqueued(p) ==
    /\ Wait(p) /\ p \notin ToSet(tails)
    /\ \/ stage[p] = "none" /\ live' = live
       \/ p \in Events /\ live = p /\ live' = None

Left(p) ==
    /\ \E s \in {"returned", "failed"} : MoveTo(p, s)
    /\ LeaveSlot(p) /\ (p \in ToSet(tails) => OwnsSlot(p))
    /\ Moves(p)
    /\ \/ live = p /\ live' = None
       \/ live # p /\ live' = live

Advanced(p) ==
    /\ UNCHANGED tails /\ (p \in ToSet(tails) => OwnsSlot(p))
    /\ Moves(p)
    /\ \/ MoveTo(p, "running") /\ live = None /\ live' = p
       \/ /\ \E s \in {"resolving", "injecting"} : MoveTo(p, s)
          /\ \/ live = p /\ live' = None
             \/ live # p /\ live' = live

Emptied ==
    /\ Crash /\ tails' = <<>> /\ live' = None
    /\ stage' \in [Prompts -> Stages] /\ \A p \in Prompts : ~InFlight(p)'
    /\ \A p \in Prompts : stage[p] = "none" => stage'[p] = "none" \/ p \in note
    /\ \A p \in Prompts : stage'[p] = "none" => stage[p] = "none"

ControlStep ==
    \/ UNCHANGED <<stage, tails, live>>
    \/ \E p \in Prompts : Enqueued(p) \/ Left(p) \/ Advanced(p)
    \/ Emptied

LEMMA Order ==
    ASSUME ControlTypes
    PROVE  /\ Len(tails) \in Nat /\ DOMAIN tails = 1..Len(tails)
           /\ ToSet(tails) \subseteq Prompts
           /\ \A i \in 1..Len(tails) : tails[i] \in Prompts /\ tails[i] \in ToSet(tails)
           /\ \A p \in ToSet(tails) : \E i \in 1..Len(tails) : tails[i] = p
           /\ \A i, j \in 1..Len(tails) : tails[i] = tails[j] => i = j
           /\ tails = <<>> <=> Len(tails) = 0
           /\ \A p : OwnsSlot(p) <=> tails # <<>> /\ tails[1] = p
           /\ \A p : OwnsSlot(p) => p \in ToSet(tails)
<1>1. /\ Len(tails) \in Nat /\ DOMAIN tails = 1..Len(tails)
      /\ \A i \in 1..Len(tails) : tails[i] \in Prompts
      /\ tails = <<>> <=> Len(tails) = 0
  BY LenProperties, EmptySeq DEF ControlTypes
<1>2. tails # <<>> => Head(tails) = tails[1] /\ 1 \in 1..Len(tails)
  BY <1>1 DEF ControlTypes
<1> QED
  BY <1>1, <1>2 DEF ControlTypes, ToSet, IsInjective, OwnsSlot

LEMMA Leaving ==
    ASSUME ControlTypes, NEW p \in Prompts, p \in ToSet(tails) => OwnsSlot(p), LeaveSlot(p)
    PROVE  /\ tails' \in Seq(Prompts) /\ IsInjective(tails')
           /\ ToSet(tails') = ToSet(tails) \ {p}
           /\ \A i \in DOMAIN tails' :
                \/ i \in DOMAIN tails /\ tails'[i] = tails[i]
                \/ i + 1 \in DOMAIN tails /\ tails'[i] = tails[i + 1]
           /\ \A x, y : Behind(x, y) /\ x # p => Behind(x, y)'
<1>1. CASE OwnsSlot(p)
  <2>1. /\ tails # <<>> /\ tails[1] = p /\ tails' = Tail(tails)
    BY <1>1, Order DEF LeaveSlot
  <2>2. /\ tails' \in Seq(Prompts) /\ Len(tails') = Len(tails) - 1
        /\ \A i \in 1..(Len(tails) - 1) : tails'[i] = tails[i + 1]
        /\ DOMAIN tails' = 1..(Len(tails) - 1)
    BY <2>1, HeadTailProperties, LenProperties DEF ControlTypes
  <2>3. Len(tails) \in Nat \ {0} /\ DOMAIN tails = 1..Len(tails)
    BY <2>1, Order
  <2>4. \A i \in DOMAIN tails' : i + 1 \in DOMAIN tails /\ tails'[i] = tails[i + 1] /\ i + 1 # 1
    BY <2>2, <2>3
  <2>5. \A j \in DOMAIN tails : j # 1 => j - 1 \in DOMAIN tails' /\ tails'[j - 1] = tails[j]
    BY <2>2, <2>3
  <2>6. IsInjective(tails')
    BY <2>2, <2>3, <2>4, Order DEF IsInjective
  <2>7. ToSet(tails') \subseteq ToSet(tails) \ {p}
    BY <2>1, <2>3, <2>4, Order DEF ToSet
  <2>8. ToSet(tails) \ {p} \subseteq ToSet(tails')
    <3> SUFFICES ASSUME NEW x \in ToSet(tails), x # p
                 PROVE  x \in ToSet(tails')
      OBVIOUS
    <3>1. PICK i \in 1..Len(tails) : tails[i] = x
      BY Order
    <3>2. i - 1 \in DOMAIN tails' /\ tails'[i - 1] = x
      BY <2>1, <2>3, <2>5, <3>1
    <3> QED
      BY <3>2 DEF ToSet
  <2>9. ASSUME NEW x, NEW y, Behind(x, y), x # p
        PROVE  Behind(x, y)'
    <3>1. PICK i, j \in DOMAIN tails : i < j /\ tails[i] = x /\ tails[j] = y
      BY <2>9 DEF Behind
    <3>2. i # 1 /\ j # 1
      BY <2>1, <2>3, <2>9, <3>1
    <3>3. /\ i - 1 \in DOMAIN tails' /\ tails'[i - 1] = x
          /\ j - 1 \in DOMAIN tails' /\ tails'[j - 1] = y /\ i - 1 < j - 1
      BY <2>3, <2>5, <3>1, <3>2
    <3> QED
      BY <3>3 DEF Behind
  <2> QED
    BY <2>2, <2>4, <2>6, <2>7, <2>8, <2>9
<1>2. CASE ~OwnsSlot(p)
  BY <1>2 DEF LeaveSlot, ControlTypes, Behind
<1> QED
  BY <1>1, <1>2

LEMMA Queueing ==
    ASSUME ControlTypes, NEW p \in Prompts, p \notin ToSet(tails), tails' = Append(tails, p)
    PROVE  /\ tails' \in Seq(Prompts) /\ IsInjective(tails')
           /\ ToSet(tails') = ToSet(tails) \cup {p}
           /\ \A i \in DOMAIN tails' :
                \/ i \in DOMAIN tails /\ tails'[i] = tails[i]
                \/ tails'[i] = p
           /\ \A x, y : Behind(x, y) => Behind(x, y)'
           /\ \A x \in ToSet(tails) : Behind(x, p)'
<1>1. /\ Len(tails) \in Nat /\ DOMAIN tails = 1..Len(tails)
      /\ DOMAIN tails' = 1..(Len(tails) + 1) /\ tails' \in Seq(Prompts)
      /\ \A i \in 1..Len(tails) : tails'[i] = tails[i]
      /\ tails'[Len(tails) + 1] = p
  BY Order, AppendProperties, LenProperties DEF ControlTypes
<1>2. ToSet(tails') = ToSet(tails) \cup {p}
  BY MembersOfAppend DEF ControlTypes
<1>3. IsInjective(tails')
  BY <1>1, Order DEF IsInjective
<1>4. ASSUME NEW x, NEW y, Behind(x, y)
      PROVE  Behind(x, y)'
  BY <1>1, <1>4 DEF Behind
<1>5. ASSUME NEW x \in ToSet(tails)
      PROVE  Behind(x, p)'
  <2>1. PICK i \in 1..Len(tails) : tails[i] = x
    BY Order
  <2>2. i < Len(tails) + 1 /\ i \in DOMAIN tails' /\ Len(tails) + 1 \in DOMAIN tails'
    BY <1>1
  <2> QED
    BY <1>1, <2>1, <2>2 DEF Behind
<1> QED
  BY <1>1, <1>2, <1>3, <1>4, <1>5

LEMMA ControlKeeps ==
    ASSUME TypeOK, SlotInv, ControlStep
    PROVE  ControlTypes' /\ SlotInv'
<1>0. ControlTypes /\ DOMAIN tails = 1..Len(tails)
  BY TypeParts, Order
<1>1. CASE UNCHANGED <<stage, tails, live>>
  BY <1>0, <1>1 DEF ControlTypes, SlotInv, InFlight
<1>2. ASSUME NEW p \in Prompts, Enqueued(p)
      PROVE  ControlTypes' /\ SlotInv'
  <2>1. /\ p \notin ToSet(tails) /\ tails' = Append(tails, p)
        /\ stage' = [stage EXCEPT ![p] = "waiting"]
        /\ \/ stage[p] = "none" /\ live' = live
           \/ p \in Events /\ live = p /\ live' = None
    BY <1>2 DEF Enqueued, Wait, MoveTo
  <2>2. /\ stage'[p] = "waiting" /\ \A q \in Prompts : q # p => stage'[q] = stage[q]
        /\ stage' \in [Prompts -> Stages]
    BY <1>0, <2>1 DEF ControlTypes, Stages
  <2>3. ControlTypes'
    BY <1>0, <2>1, <2>2, Queueing, PromptKinds DEF ControlTypes
  <2>4. \A i \in DOMAIN tails' : InFlight(tails[i])' /\ (i > 1 => stage'[tails'[i]] = "waiting")
    <3> TAKE i \in DOMAIN tails'
    <3>1. CASE tails'[i] = p
      BY <2>2, <3>1 DEF InFlight
    <3>2. CASE tails'[i] # p
      <4>1. i \in DOMAIN tails /\ tails'[i] = tails[i] /\ tails[i] \in Prompts
        BY <1>0, <2>1, <3>2, Queueing, Order
      <4> QED
        BY <2>2, <3>2, <4>1 DEF SlotInv, InFlight
    <3> QED
      BY <3>1, <3>2
  <2>5. \A q \in Resumes : InFlight(q)' => q \in ToSet(tails')
    BY <1>0, <2>1, <2>2, Queueing, PromptKinds DEF SlotInv, InFlight
  <2> QED
    BY <2>3, <2>4, <2>5 DEF SlotInv
<1>3. ASSUME NEW p \in Prompts, Left(p)
      PROVE  ControlTypes' /\ SlotInv'
  <2>1. PICK s \in {"returned", "failed"} : stage' = [stage EXCEPT ![p] = s]
    BY <1>3 DEF Left, MoveTo
  <2>2. /\ stage'[p] = s /\ \A q \in Prompts : q # p => stage'[q] = stage[q]
        /\ stage' \in [Prompts -> Stages]
    BY <1>0, <2>1 DEF ControlTypes, Stages
  <2>3. /\ tails' \in Seq(Prompts) /\ IsInjective(tails')
        /\ ToSet(tails') = ToSet(tails) \ {p}
        /\ \A i \in DOMAIN tails' :
             \/ i \in DOMAIN tails /\ tails'[i] = tails[i]
             \/ i + 1 \in DOMAIN tails /\ tails'[i] = tails[i + 1]
    BY <1>0, <1>3, Leaving DEF Left
  <2>4. ControlTypes'
    <3>1. live' \in Prompts \cup {None}
          /\ \A q \in Prompts : stage'[q] = "running" <=> q = live'
      BY <1>0, <1>3, <2>2, PromptKinds DEF ControlTypes, Left
    <3> QED
      BY <1>0, <2>2, <2>3, <3>1 DEF ControlTypes
  <2>5. \A i \in DOMAIN tails' : InFlight(tails[i])' /\ (i > 1 => stage'[tails'[i]] = "waiting")
    <3> TAKE i \in DOMAIN tails'
    <3>1. tails'[i] \in ToSet(tails') /\ tails'[i] # p /\ tails'[i] \in Prompts
      <4>1. tails'[i] \in ToSet(tails')
        BY DEF ToSet
      <4>2. ToSet(tails) \subseteq Prompts
        BY <1>0, MembersOfSeq DEF ControlTypes
      <4> QED
        BY <2>3, <4>1, <4>2
    <3>2. /\ InFlight(tails'[i]) /\ (i > 1 => stage[tails'[i]] = "waiting")
      <4>1. DOMAIN tails' \subseteq Nat
        BY <2>3, LenProperties
      <4>2. CASE i \in DOMAIN tails /\ tails'[i] = tails[i]
        BY <4>2 DEF SlotInv, InFlight
      <4>3. CASE i + 1 \in DOMAIN tails /\ tails'[i] = tails[i + 1]
        <5>1. i \in Nat /\ (i > 1 => i + 1 > 1)
          BY <4>1
        <5> QED
          BY <4>3, <5>1 DEF SlotInv, InFlight
      <4> QED
        BY <2>3, <4>2, <4>3
    <3> QED
      BY <2>2, <3>1, <3>2 DEF InFlight
  <2>6. \A q \in Resumes : InFlight(q)' => q \in ToSet(tails')
    BY <2>2, <2>3, PromptKinds DEF SlotInv, InFlight
  <2> QED
    BY <2>4, <2>5, <2>6 DEF SlotInv
<1>4. ASSUME NEW p \in Prompts, Advanced(p)
      PROVE  ControlTypes' /\ SlotInv'
  <2>1. PICK s \in {"resolving", "injecting", "running"} :
           /\ stage' = [stage EXCEPT ![p] = s]
           /\ \/ s = "running" /\ live = None /\ live' = p
              \/ s # "running" /\ live = p /\ live' = None
              \/ s # "running" /\ live # p /\ live' = live
    BY <1>4 DEF Advanced, MoveTo
  <2>2. /\ stage'[p] = s /\ \A q \in Prompts : q # p => stage'[q] = stage[q]
        /\ stage' \in [Prompts -> Stages] /\ tails' = tails
    BY <1>0, <1>4, <2>1 DEF ControlTypes, Stages, Advanced
  <2>3. ControlTypes'
    <3>1. live' \in Prompts \cup {None}
          /\ \A q \in Prompts : stage'[q] = "running" <=> q = live'
      BY <1>0, <2>1, <2>2, PromptKinds DEF ControlTypes
    <3>2. \A q \in Prompts : stage'[q] = "waiting" => q \in ToSet(tails')
      BY <1>0, <2>1, <2>2 DEF ControlTypes
    <3> QED
      BY <1>0, <2>2, <3>1, <3>2 DEF ControlTypes
  <2>4. \A i \in DOMAIN tails' : InFlight(tails[i])' /\ (i > 1 => stage'[tails'[i]] = "waiting")
    <3> TAKE i \in DOMAIN tails'
    <3>1. i \in 1..Len(tails) /\ tails'[i] = tails[i] /\ tails[i] \in Prompts
          /\ tails[i] \in ToSet(tails)
      BY <1>0, <2>2, Order
    <3>2. CASE tails[i] = p
      <4>1. OwnsSlot(p) /\ 1 \in 1..Len(tails) /\ Len(tails) \in Nat /\ tails[1] = p
        BY <1>0, <1>4, <3>1, <3>2, Order DEF Advanced
      <4>2. i = 1
        BY <1>0, <3>1, <3>2, <4>1, Order
      <4> QED
        BY <2>2, <3>1, <3>2, <4>2 DEF InFlight
    <3>3. CASE tails[i] # p
      BY <1>0, <2>2, <3>1, <3>3 DEF SlotInv, InFlight
    <3> QED
      BY <3>2, <3>3
  <2>5. \A q \in Resumes : InFlight(q)' => q \in ToSet(tails')
    BY <1>4, <2>2, PromptKinds DEF SlotInv, InFlight, Advanced, Moves
  <2> QED
    BY <2>3, <2>4, <2>5 DEF SlotInv
<1>5. CASE Emptied
  <2>1. tails' \in Seq(Prompts) /\ IsInjective(tails') /\ DOMAIN tails' = {}
    BY <1>5 DEF Emptied, IsInjective
  <2>2. \A q \in Prompts : stage'[q] # "waiting" /\ stage'[q] # "running"
    BY <1>5 DEF Emptied, InFlight
  <2> QED
    BY <1>5, <2>1, <2>2, PromptKinds DEF Emptied, ControlTypes, SlotInv
<1> QED
  BY <1>1, <1>2, <1>3, <1>4, <1>5 DEF ControlStep

\* Who has begun is the head, or not in the order at all.
LEMMA OnlyTheHeadBegins ==
    ASSUME TypeOK, SlotInv, NEW p \in Prompts, stage[p] # "waiting"
    PROVE  p \in ToSet(tails) => OwnsSlot(p) /\ InFlight(p)
<1> SUFFICES ASSUME p \in ToSet(tails)
             PROVE  OwnsSlot(p) /\ InFlight(p)
  OBVIOUS
<1>1. PICK i \in 1..Len(tails) : tails[i] = p /\ DOMAIN tails = 1..Len(tails) /\ Len(tails) \in Nat
  BY TypeParts, Order
<1>2. InFlight(p) /\ i = 1
  BY <1>1 DEF SlotInv
<1>3. tails # <<>>
  BY <1>1, TypeParts, Order
<1> QED
  BY <1>1, <1>2, <1>3, TypeParts, Order

LEMMA Leaves ==
    ASSUME NEW p \in Prompts, Return(p) \/ Throw(p)
    PROVE  LeaveSlot(p) /\ \E s \in {"returned", "failed"} : MoveTo(p, s)
  BY DEF Return, Throw

LEMMA InjectControls ==
    ASSUME TypeOK, SlotInv, NEW p \in Prompts, Inject(p), live' = live, live # p,
           p \in ToSet(tails) => OwnsSlot(p), Moves(p)
    PROVE  Left(p) \/ Advanced(p)
<1>1. CASE MoveTo(p, "injecting") /\ UNCHANGED tails
  BY <1>1 DEF Advanced
<1>2. CASE Return(p)
  BY <1>2, Leaves DEF Left
<1> QED
  BY <1>1, <1>2 DEF Inject, Restart

LEMMA RunControls ==
    ASSUME NEW p \in Prompts, NEW b, Run(p, b), UNCHANGED tails, live = None,
           p \in ToSet(tails) => OwnsSlot(p), Moves(p)
    PROVE  Advanced(p)
  BY DEF Run, Advanced

LEMMA FireControls ==
    ASSUME TypeOK, SlotInv, NEW e \in Events, Fire(e)
    PROVE  Enqueued(e) \/ Left(e) \/ Advanced(e)
<1>0. e \in Prompts /\ e \notin Resumes /\ stage[e] = "none" /\ live # e
  BY PromptKinds, TypeParts DEF Fire, ControlTypes
<1>1. e \notin ToSet(tails)
  BY <1>0, OnlyTheHeadBegins DEF InFlight
<1>2. CASE Wait(e) /\ live' = live
  BY <1>0, <1>1, <1>2 DEF Enqueued
<1>3. CASE Return(e) /\ live' = live
  BY <1>0, <1>1, <1>3, Leaves DEF Left, Moves
<1>4. CASE Inject(e) /\ live' = live
  BY <1>0, <1>1, <1>4, InjectControls DEF Moves
<1>5. CASE Run(e, branch) /\ live = None /\ UNCHANGED tails
  BY <1>0, <1>1, <1>5, RunControls DEF Moves
<1> QED
  BY <1>2, <1>3, <1>4, <1>5 DEF Fire

LEMMA EnterControls ==
    ASSUME TypeOK, SlotInv, NEW p \in Prompts, Enter(p)
    PROVE  Left(p) \/ Advanced(p)
<1>0. OwnsSlot(p) /\ stage[p] = "waiting" /\ live = None /\ InFlight(p) /\ live # p
  BY PromptKinds DEF Enter, InFlight
<1>1. CASE Inject(p) /\ live' = live
  BY <1>0, <1>1, InjectControls DEF Moves
<1>2. CASE MoveTo(p, "resolving") /\ live' = live /\ UNCHANGED tails
  BY <1>0, <1>2 DEF Advanced, Moves
<1>3. CASE Run(p, branch) /\ UNCHANGED tails
  BY <1>0, <1>3, RunControls DEF Moves
<1> QED
  BY <1>1, <1>2, <1>3 DEF Enter

LEMMA ResolvedControls ==
    ASSUME TypeOK, SlotInv, NEW p \in Prompts, Resolved(p)
    PROVE  Left(p) \/ Advanced(p)
<1>0. stage[p] = "resolving" /\ InFlight(p) /\ live # p
      /\ (p \in ToSet(tails) => OwnsSlot(p))
  BY OnlyTheHeadBegins, TypeParts DEF Resolved, InFlight, ControlTypes
<1>1. CASE Inject(p) /\ live' = live
  BY <1>0, <1>1, InjectControls DEF Moves
<1>2. CASE live = None /\ Run(p, branch) /\ UNCHANGED tails
  BY <1>0, <1>2, RunControls DEF Moves
<1> QED
  BY <1>1, <1>2 DEF Resolved

\* A policy hook, or the wait for a turn to end, is over.
LEMMA InjectingControls ==
    ASSUME TypeOK, SlotInv, NEW p \in Prompts,
           Refused(p) \/ Spliced(p) \/ Restarted(p) \/ SettleTimeout(p)
    PROVE  Left(p)
<1>1. CASE Refused(p) \/ Spliced(p) \/ Restarted(p)
  <2>1. /\ stage[p] = "injecting" /\ InFlight(p) /\ live # p /\ live' = live
        /\ p \in ToSet(tails) => OwnsSlot(p)
    BY <1>1, OnlyTheHeadBegins, TypeParts
    DEF Refused, Spliced, Restarted, InFlight, ControlTypes
  <2>2. Return(p) \/ Throw(p)
    BY <1>1 DEF Refused, Spliced, Restarted, Restart
  <2> QED
    BY <2>1, <2>2, Leaves DEF Left, Moves
<1>2. CASE SettleTimeout(p)
  <2>1. /\ OwnsSlot(p) /\ stage[p] = "waiting" /\ InFlight(p) /\ live # p /\ live' = live
        /\ Throw(p)
    BY <1>2, TypeParts DEF SettleTimeout, InFlight, ControlTypes
  <2> QED
    BY <2>1, Leaves DEF Left, Moves
<1> QED
  BY <1>1, <1>2

LEMMA TurnEndControls ==
    ASSUME TypeOK, SlotInv, NEW p \in Prompts, TurnEnds(p)
    PROVE  Enqueued(p) \/ Left(p) \/ Advanced(p) \/ UNCHANGED <<stage, tails, live>>
<1>0. /\ live = p /\ stage[p] = "running" /\ InFlight(p)
      /\ p \in ToSet(tails) => OwnsSlot(p)
  BY OnlyTheHeadBegins, TypeParts DEF TurnEnds, InFlight, ControlTypes
<1>1. CASE (Throw(p) \/ Return(p)) /\ live' = None
  BY <1>0, <1>1, Leaves DEF Left, Moves
<1>2. CASE ContinueTurn(p)
  <2>1. CASE OwnsSlot(p) /\ MoveTo(p, "resolving") /\ live' = None /\ UNCHANGED tails
    BY <1>0, <2>1 DEF Advanced, Moves
  <2>2. CASE ~OwnsSlot(p) /\ Wait(p) /\ live' = None
    <3>1. p \notin ToSet(tails)
      BY <1>0, <2>2
    <3>2. p \in Events
      BY <1>0, <3>1, PromptKinds DEF SlotInv
    <3> QED
      BY <1>0, <2>2, <3>1, <3>2 DEF Enqueued
  <2>3. CASE live' = p /\ UNCHANGED <<stage, tails>>
    BY <1>0, <2>3
  <2> QED
    BY <1>2, <2>1, <2>2, <2>3 DEF ContinueTurn
<1> QED
  BY <1>1, <1>2 DEF TurnEnds

LEMMA AnswerControls ==
    ASSUME TypeOK, SlotInv, GivenInv, NEW a \in Alerts, Answer(a)
    PROVE  LET p == <<a, given[a] + 1>>
           IN  p \in Answers /\ stage[p] = "none" /\ Enqueued(p)
<1> DEFINE p == <<a, given[a] + 1>>
<1>1. given[a] + 1 \in 1..MaxAnswers /\ given[a] + 1 > given[a]
  BY BoundsAssumption, TypeParts DEF Answer, OtherTypes
<1>2. p \in Answers /\ p \in Prompts /\ stage[p] = "none"
  BY <1>1, PromptKinds DEF GivenInv
<1>3. p \notin ToSet(tails)
  BY <1>2, OnlyTheHeadBegins DEF InFlight
<1> QED
  BY <1>2, <1>3 DEF Answer, Enqueued

LEMMA RecoverControls ==
    ASSUME TypeOK, SlotInv, NEW r \in Recovered, Recover(r)
    PROVE  Enqueued(r)
<1>1. r \in Prompts /\ stage[r] = "none"
  BY PromptKinds DEF Recover
<1>2. r \notin ToSet(tails)
  BY <1>1, OnlyTheHeadBegins DEF InFlight
<1> QED
  BY <1>1, <1>2 DEF Recover, Enqueued

LEMMA CrashControls ==
    ASSUME TypeOK, Crash
    PROVE  Emptied
<1>1. stage \in [Prompts -> Stages]
  BY TypeParts DEF ControlTypes
<1>2. /\ stage' = [p \in Prompts |->
                     IF p \in note \/ stage[p] \in {"waiting", "resolving", "injecting", "running"}
                       THEN "failed" ELSE stage[p]]
      /\ tails' = <<>> /\ live' = None
  BY DEF Crash
<1> QED
  BY <1>1, <1>2 DEF Emptied, InFlight, Stages

LEMMA ControlSteps ==
    ASSUME TypeOK, SlotInv, GivenInv, [Next]_vars
    PROVE  ControlStep
<1>1. ASSUME NEW e \in Events, Fire(e) PROVE ControlStep
  BY <1>1, FireControls, PromptKinds DEF ControlStep
<1>2. ASSUME NEW a \in Alerts, Answer(a) PROVE ControlStep
  BY <1>2, AnswerControls, PromptKinds DEF ControlStep, Resumes
<1>3. ASSUME NEW r \in Recovered, Recover(r) PROVE ControlStep
  BY <1>3, RecoverControls, PromptKinds DEF ControlStep
<1>4. ASSUME NEW p \in Prompts,
             \/ Enter(p) \/ SettleTimeout(p) \/ Resolved(p) \/ Refused(p) \/ Spliced(p)
             \/ Restarted(p) \/ TurnEnds(p)
      PROVE  ControlStep
  BY <1>4, EnterControls, ResolvedControls, InjectingControls, TurnEndControls DEF ControlStep
<1>5. CASE Crash
  BY <1>5, CrashControls DEF ControlStep
<1>6. CASE \/ \E a \in Alerts : Dismiss(a)
           \/ \E r \in Recovered : Reconcile(r)
           \/ PrepareStep \/ Boundary \/ AttemptRestart \/ DeskSteps
           \/ \E kind \in {"gui", "server"} : DeskStarts(kind)
           \/ \E s \in {"idle", "running"} : DeskEnds(s)
  BY <1>6 DEF Dismiss, Reconcile, PrepareStep, Boundary, AttemptRestart, DeskSteps, DeskStarts,
              DeskEnds, actions, ControlStep
<1>7. CASE UNCHANGED vars
  BY <1>7 DEF vars, actions, ControlStep
<1> QED
  BY <1>1, <1>2, <1>3, <1>4, <1>5, <1>6, <1>7 DEF Next

LEMMA GivenKept ==
    ASSUME TypeOK, GivenInv, given' = given,
           \A q \in Answers : stage[q] = "none" => stage'[q] = "none"
    PROVE  GivenInv'
  BY PromptKinds DEF GivenInv

LEMMA GivenByOne ==
    ASSUME TypeOK, GivenInv, given' = given, NEW p \in Prompts,
           Enqueued(p) \/ Left(p) \/ Advanced(p), p \notin Answers \/ stage[p] # "none"
    PROVE  GivenInv'
<1>1. PICK s : stage' = [stage EXCEPT ![p] = s]
  BY DEF Enqueued, Wait, Left, Advanced, MoveTo
<1>2. \A q \in Prompts : q # p => stage'[q] = stage[q]
  BY <1>1, TypeParts DEF ControlTypes
<1> QED
  BY <1>2, GivenKept, PromptKinds DEF Resumes

LEMMA GivenStep ==
    ASSUME TypeOK, SlotInv, GivenInv, [Next]_vars
    PROVE  GivenInv'
<1>1. ASSUME NEW e \in Events, Fire(e) PROVE GivenInv'
  <2>1. given' = given /\ e \in Prompts /\ e \notin Answers
    BY <1>1, PromptKinds DEF Fire
  <2> QED
    BY <1>1, <2>1, FireControls, GivenByOne
<1>2. ASSUME NEW a \in Alerts, Answer(a) PROVE GivenInv'
  <2>1. /\ given' = [given EXCEPT ![a] = @ + 1]
        /\ stage' = [stage EXCEPT ![<<a, given[a] + 1>>] = "waiting"]
    BY <1>2 DEF Answer, Wait, MoveTo
  <2>2. given \in [Alerts -> 0..MaxAnswers] /\ stage \in [Prompts -> Stages]
    BY TypeParts DEF ControlTypes, OtherTypes
  <2>3. ASSUME NEW b \in Alerts, NEW n \in 1..MaxAnswers, n > given'[b]
        PROVE  stage'[<<b, n>>] = "none"
    <3>0. given[b] \in Nat /\ n \in Nat /\ <<b, n>> \in Prompts
      BY <2>2, BoundsAssumption, PromptKinds
    <3>1. n > given[b] /\ (b = a => n # given[a] + 1)
      BY <2>1, <2>2, <2>3, <3>0
    <3>2. <<b, n>> # <<a, given[a] + 1>>
      BY <3>1
    <3> QED
      BY <2>1, <2>2, <3>0, <3>1, <3>2 DEF GivenInv
  <2> QED
    BY <2>3 DEF GivenInv
<1>3. ASSUME NEW r \in Recovered, Recover(r) PROVE GivenInv'
  <2>1. given' = given /\ r \in Prompts /\ r \notin Answers
    BY <1>3, PromptKinds DEF Recover
  <2> QED
    BY <1>3, <2>1, RecoverControls, GivenByOne
<1>4. ASSUME NEW p \in Prompts,
             \/ Enter(p) \/ SettleTimeout(p) \/ Resolved(p) \/ Refused(p) \/ Spliced(p)
             \/ Restarted(p) \/ TurnEnds(p)
      PROVE  GivenInv'
  <2>1. given' = given
    BY <1>4 DEF Enter, SettleTimeout, Resolved, Refused, Spliced, Restarted, TurnEnds
  <2>2. stage[p] # "none"
    BY <1>4, TypeParts
    DEF Enter, SettleTimeout, Resolved, Refused, Spliced, Restarted, TurnEnds, ControlTypes
  <2>3. CASE UNCHANGED <<stage, tails, live>>
    BY <2>1, <2>3, GivenKept
  <2>4. CASE Enqueued(p) \/ Left(p) \/ Advanced(p)
    BY <2>1, <2>2, <2>4, GivenByOne
  <2> QED
    BY <1>4, <2>3, <2>4, EnterControls, ResolvedControls, InjectingControls, TurnEndControls
<1>5. CASE Crash
  <2>1. given' = given /\ note \subseteq Recovered
    BY <1>5, TypeParts DEF Crash, disk, OtherTypes
  <2>2. \A q \in Answers : stage[q] = "none" => stage'[q] = "none"
    BY <1>5, <2>1, CrashControls, PromptKinds DEF Emptied, Resumes
  <2> QED
    BY <2>1, <2>2, GivenKept
<1>6. CASE UNCHANGED <<given, stage>>
  BY <1>6 DEF GivenInv
<1> QED
  BY <1>1, <1>2, <1>3, <1>4, <1>5, <1>6
  DEF Next, Dismiss, Reconcile, PrepareStep, Boundary, AttemptRestart, DeskSteps, DeskStarts,
      DeskEnds, actions, disk, vars

-----------------------------------------------------------------------------
(* The types of what is on disk and of what was counted.                   *)

DiskTypes ==
    /\ alert \in [Alerts -> {"open", "answered", "dismissed"}]
    /\ note \subseteq Recovered

LEMMA ThrowTypes ==
    ASSUME TypeOK, NEW p \in Prompts, Throw(p) \/ Return(p)
    PROVE  DiskTypes'
<1>1. DiskTypes
  BY TypeParts DEF OtherTypes, DiskTypes
<1>2. CASE UNCHANGED <<alert, note>>
  BY <1>1, <1>2 DEF DiskTypes
<1>3. CASE alert' = Reopened(p) /\ note' = StillRecorded(p)
  <2>1. note' \subseteq Recovered
    BY <1>1, <1>3 DEF StillRecorded, DiskTypes
  <2>2. alert' \in [Alerts -> {"open", "answered", "dismissed"}]
    BY <1>1, <1>3 DEF Reopened, DiskTypes
  <2> QED
    BY <2>1, <2>2 DEF DiskTypes
<1> QED
  BY <1>2, <1>3 DEF Throw, Return

LEMMA OtherTypesKept ==
    ASSUME TypeOK, DiskTypes', UNCHANGED <<given, budget, accepted, ahead, bounds>>,
           status' \in {"idle", "running"}, desk' \in {"none", "gui", "server"},
           intruded' \in BOOLEAN
    PROVE  OtherTypes'
  BY TypeParts DEF OtherTypes, DiskTypes, bounds

LEMMA InjectTypes ==
    ASSUME TypeOK, NEW p \in Prompts, Inject(p) \/ Restart(p)
    PROVE  /\ DiskTypes' /\ status' \in {"idle", "running"} /\ desk' \in {"none", "gui", "server"}
           /\ intruded' \in BOOLEAN
<1>1. CASE Restart(p)
  BY <1>1, ThrowTypes DEF Restart, Begin
<1>2. CASE UNCHANGED <<alert, note, status, desk, intruded>>
  BY <1>2, TypeParts DEF OtherTypes, DiskTypes
<1> QED
  BY <1>1, <1>2 DEF Inject

LEMMA OtherTypesStep ==
    ASSUME TypeOK, [Next]_vars
    PROVE  OtherTypes'
<1>0. OtherTypes /\ DiskTypes
  BY TypeParts DEF OtherTypes, DiskTypes
<1>1. ASSUME NEW e \in Events, Fire(e) PROVE OtherTypes'
  <2>0. e \in Prompts
    BY PromptKinds
  <2>1. DiskTypes' /\ status' \in {"idle", "running"} /\ desk' \in {"none", "gui", "server"}
        /\ intruded' \in BOOLEAN /\ UNCHANGED <<given, budget, bounds>>
    <3>1. CASE Return(e) /\ UNCHANGED <<status, desk, intruded>>
      BY <1>0, <1>1, <2>0, <3>1, ThrowTypes DEF OtherTypes, Fire
    <3>2. CASE Inject(e)
      BY <1>1, <2>0, <3>2, InjectTypes DEF Fire
    <3>3. CASE UNCHANGED <<alert, note, desk, intruded>> /\ status' \in {status, "running"}
      BY <1>0, <1>1, <3>3 DEF OtherTypes, DiskTypes, Fire
    <3> QED
      BY <1>1, <3>1, <3>2, <3>3 DEF Fire, Run
  <2>2. accepted' \in Seq(Events)
    <3>1. accepted' = accepted \/ accepted' = Append(accepted, e)
      BY <1>1 DEF Fire
    <3>2. accepted \in Seq(Events)
      BY <1>0 DEF OtherTypes
    <3>3. Append(accepted, e) \in Seq(Events)
      BY <3>2, AppendProperties
    <3> QED
      BY <3>1, <3>2, <3>3
  <2>3. ahead' \in [Events -> SUBSET Resumes]
    BY <1>0, <1>1 DEF Fire, OnTheWay, OtherTypes
  <2> QED
    BY <1>0, <2>1, <2>2, <2>3 DEF OtherTypes, DiskTypes, bounds
<1>2. ASSUME NEW a \in Alerts, Answer(a) PROVE OtherTypes'
  <2>1. alert' = [alert EXCEPT ![a] = "answered"] /\ given' = [given EXCEPT ![a] = @ + 1]
        /\ given[a] < MaxAnswers /\ UNCHANGED <<note, budget, status, desk, history, bounds>>
    BY <1>2 DEF Answer
  <2>2. given' \in [Alerts -> 0..MaxAnswers]
    <3>1. MaxAnswers \in Nat /\ given \in [Alerts -> 0..MaxAnswers]
      BY <1>0, BoundsAssumption DEF OtherTypes
    <3>2. given[a] + 1 \in 0..MaxAnswers
      BY <2>1, <3>1
    <3> QED
      BY <2>1, <3>1, <3>2
  <2> QED
    BY <1>0, <2>1, <2>2 DEF OtherTypes, bounds, history
<1>3. ASSUME NEW a \in Alerts, Dismiss(a) PROVE OtherTypes'
  BY <1>0, <1>3 DEF Dismiss, OtherTypes, actions, bounds, history
<1>4. ASSUME NEW r \in Recovered, Recover(r) \/ Reconcile(r) PROVE OtherTypes'
  BY <1>0, <1>4 DEF Recover, Reconcile, OtherTypes, actions, bounds, history
<1>5. ASSUME NEW p \in Prompts, Enter(p) \/ Resolved(p) PROVE OtherTypes'
  <2>1. UNCHANGED <<given, budget, accepted, ahead, bounds>>
    BY <1>5 DEF Enter, Resolved
  <2>2. CASE Inject(p)
    BY <1>5, <2>1, <2>2, InjectTypes, OtherTypesKept
  <2>3. CASE UNCHANGED <<alert, note, desk, intruded>> /\ status' \in {"idle", "running"}
    BY <1>0, <2>1, <2>3 DEF OtherTypes, bounds
  <2> QED
    BY <1>5, <2>2, <2>3 DEF Enter, Resolved, Run
<1>6. ASSUME NEW p \in Prompts, Refused(p) \/ Spliced(p) \/ SettleTimeout(p)
      PROVE OtherTypes'
  <2>1. UNCHANGED <<given, budget, status, desk, history, bounds>> /\ (Throw(p) \/ Return(p))
    BY <1>6 DEF Refused, Spliced, SettleTimeout
  <2> QED
    BY <1>0, <2>1, ThrowTypes DEF OtherTypes, DiskTypes, bounds, history
<1>7. ASSUME NEW p \in Prompts, Restarted(p) PROVE OtherTypes'
  <2>1. UNCHANGED <<given, budget, accepted, ahead, bounds>> /\ Restart(p)
    BY <1>7 DEF Restarted
  <2> QED
    BY <2>1, InjectTypes, OtherTypesKept
<1>8. ASSUME NEW p \in Prompts, TurnEnds(p) PROVE OtherTypes'
  <2>1. UNCHANGED <<given, desk, history, retries, deskTurns, crashes>>
    BY <1>8 DEF TurnEnds
  <2>2. faults' \in Nat
    <3>1. Fault \/ NoFault
      BY <1>8 DEF TurnEnds, Settle
    <3>2. faults \in Nat
      BY <1>0 DEF OtherTypes
    <3> QED
      BY <3>1, <3>2 DEF Fault, NoFault
  <2>3. status' \in {"idle", "running"}
    BY <1>8 DEF TurnEnds, ContinueTurn
  <2>4. DiskTypes'
    <3>1. Throw(p) \/ Return(p) \/ UNCHANGED <<alert, note>>
      BY <1>8 DEF TurnEnds, ContinueTurn
    <3> QED
      BY <1>0, <3>1, ThrowTypes DEF DiskTypes
  <2>5. budget' \in [Prompts -> 0..ContinueBudget]
    <3>1. budget' = budget \/ (budget[p] > 0 /\ budget' = [budget EXCEPT ![p] = @ - 1])
      BY <1>8 DEF TurnEnds, ContinueTurn
    <3> QED
      <4>1. budget \in [Prompts -> 0..ContinueBudget] /\ ContinueBudget \in Nat
        BY <1>0, BoundsAssumption DEF OtherTypes
      <4>2. budget[p] > 0 => budget[p] - 1 \in 0..ContinueBudget
        BY <4>1
      <4> QED
        BY <3>1, <4>1, <4>2
  <2> QED
    BY <1>0, <2>1, <2>2, <2>3, <2>4, <2>5 DEF OtherTypes, DiskTypes, history
<1>9. CASE Boundary
  <2>1. UNCHANGED <<disk, actions, status, desk, history, retries, deskTurns, crashes>>
        /\ (Fault \/ NoFault)
    BY <1>9 DEF Boundary
  <2>2. faults \in Nat /\ faults' \in Nat
    BY <1>0, <2>1 DEF Fault, NoFault, OtherTypes
  <2> QED
    BY <1>0, <2>1, <2>2 DEF OtherTypes, disk, actions, history
<1>10. CASE AttemptRestart \/ PrepareStep \/ DeskSteps
  <2>1. UNCHANGED <<disk, actions, status, desk, history, faults, deskTurns, crashes>>
        /\ retries' \in {retries, retries + 1}
    BY <1>10 DEF AttemptRestart, PrepareStep, DeskSteps, bounds
  <2>2. retries' \in Nat
    BY <1>0, <2>1 DEF OtherTypes
  <2> QED
    BY <1>0, <2>1, <2>2 DEF OtherTypes, disk, actions, history
<1>11. ASSUME NEW kind \in {"gui", "server"}, DeskStarts(kind) PROVE OtherTypes'
  <2>1. UNCHANGED <<disk, actions, accepted, ahead, retries, faults, crashes>>
        /\ deskTurns' = deskTurns + 1 /\ Begin(kind, Kept)
    BY <1>11 DEF DeskStarts
  <2>2. deskTurns' \in Nat
    BY <1>0, <2>1 DEF OtherTypes
  <2> QED
    BY <1>0, <2>1, <2>2 DEF OtherTypes, disk, actions, Begin
<1>12. ASSUME NEW s \in {"idle", "running"}, DeskEnds(s) PROVE OtherTypes'
  BY <1>0, <1>12 DEF DeskEnds, OtherTypes, disk, actions, history, bounds
<1>13. CASE Crash
  <2>1. accepted' \in Seq(Events)
    BY <1>0, <1>13, OnlyMembers DEF Crash, OtherTypes
  <2>2. crashes' \in Nat
    BY <1>0, <1>13 DEF Crash, OtherTypes
  <2> QED
    BY <1>0, <1>13, <2>1, <2>2 DEF Crash, OtherTypes, disk
<1>14. CASE UNCHANGED vars
  BY <1>0, <1>14 DEF vars, OtherTypes, disk, actions, history, bounds
<1> QED
  BY <1>1, <1>2, <1>3, <1>4, <1>5, <1>6, <1>7, <1>8, <1>9, <1>10, <1>11, <1>12, <1>13, <1>14
  DEF Next

-----------------------------------------------------------------------------
(* What a step does to the conversation, the live turn and the queue.      *)

Quiet == UNCHANGED <<branch, turn, queue, accepted, desk, intruded>>

\* A turn begins with its prompt.
Spoken(p) ==
    /\ branch' = Append(branch, p) /\ UNCHANGED <<turn, queue, accepted, desk, intruded>>
    /\ live = None /\ live' = p
    /\ stage' = [stage EXCEPT ![p] = "running"]
    /\ Moves(p)
    /\ p \in ToSet(tails) => OwnsSlot(p)
    /\ stage[p] \in {"none", "waiting", "resolving"}
    /\ status = "idle" \/ desk = "none"

\* A prompt joins the live turn.
Joined(e) ==
    /\ queue' = Append(queue, e) /\ accepted' = Append(accepted, e)
    /\ UNCHANGED <<branch, turn, desk, intruded>>
    /\ live # None /\ tails = <<>> /\ ahead' = [ahead EXCEPT ![e] = OnTheWay]
    /\ stage[e] = "none" /\ stage' = [stage EXCEPT ![e] = "returned"]

\* A prompt starts an interactive turn over.
Restarts(p) ==
    /\ Restart(p) /\ UNCHANGED <<live, turn, accepted>>
    /\ Moves(p) /\ (p \in ToSet(tails) => OwnsSlot(p))

DataStep ==
    \/ Quiet
    \/ \E p \in Prompts : Spoken(p)
    \/ \E e \in Events : Joined(e)
    \/ \E p \in Prompts : Restarts(p) \/ Spliced(p) \/ TurnEnds(p)
    \/ \E kind \in {"gui", "server"} : DeskStarts(kind)
    \/ DeskSteps \/ \E s \in {"idle", "running"} : DeskEnds(s)
    \/ PrepareStep \/ Boundary \/ AttemptRestart
    \/ Crash

LEMMA RunForms ==
    ASSUME TypeOK, NEW p \in Prompts, Run(p, branch), live = None,
           UNCHANGED <<queue, accepted, desk, intruded>>,
           Moves(p), p \in ToSet(tails) => OwnsSlot(p),
           stage[p] \in {"none", "waiting", "resolving"}, status = "idle" \/ desk = "none"
    PROVE  Quiet \/ Spoken(p)
<1>1. turn = NoFollowUps
  BY TypeParts DEF DataTypes
<1>2. /\ live' = p /\ turn' = turn /\ stage' = [stage EXCEPT ![p] = "running"]
      /\ branch' = branch \/ branch' = Append(branch, p)
  BY <1>1 DEF Run, MoveTo
<1> QED
  BY <1>2 DEF Quiet, Spoken

LEMMA InjectForms ==
    ASSUME NEW p \in Prompts, Inject(p), UNCHANGED <<live, turn, accepted>>,
           Moves(p), p \in ToSet(tails) => OwnsSlot(p)
    PROVE  Quiet \/ Restarts(p)
  BY DEF Inject, Quiet, Restarts

LEMMA DataForms ==
    ASSUME TypeOK, SlotInv, [Next]_vars
    PROVE  DataStep
<1>1. ASSUME NEW e \in Events, Fire(e) PROVE DataStep
  <2>0. e \in Prompts /\ e \notin Resumes /\ stage[e] = "none"
        /\ (e \in ToSet(tails) => OwnsSlot(e))
    BY <1>1, PromptKinds, OnlyTheHeadBegins DEF Fire
  <2>1. CASE /\ Wait(e)
             /\ UNCHANGED <<alert, note, live, turn, queue, branch, status, desk, accepted,
                            intruded>>
    BY <2>1 DEF DataStep, Quiet
  <2>2. CASE ~BarrierUp /\ live # None /\ Return(e) /\ queue' = Append(queue, e)
             /\ accepted' = Append(accepted, e)
             /\ UNCHANGED <<live, turn, branch, status, desk, intruded>>
    BY <1>1, <2>0, <2>2 DEF DataStep, Joined, Return, MoveTo, BarrierUp, Fire
  <2>3. CASE Inject(e) /\ UNCHANGED <<live, turn, accepted>>
    BY <2>0, <2>3, InjectForms DEF DataStep, Moves
  <2>4. CASE live = None /\ Run(e, branch) /\ status = "idle"
             /\ UNCHANGED <<tails, alert, note, queue, desk, accepted, intruded>>
    BY <2>0, <2>4, RunForms DEF DataStep, Moves
  <2> QED
    BY <1>1, <2>1, <2>2, <2>3, <2>4 DEF Fire
<1>2. ASSUME NEW p \in Prompts, Enter(p) PROVE DataStep
  <2>0. stage[p] = "waiting" /\ OwnsSlot(p) /\ InFlight(p) /\ live = None /\ accepted' = accepted
    BY <1>2 DEF Enter, InFlight
  <2>1. CASE Inject(p) /\ UNCHANGED <<live, turn>>
    BY <2>0, <2>1, InjectForms DEF DataStep, Moves
  <2>2. CASE UNCHANGED <<tails, alert, note, live, turn, queue, branch, desk, intruded>>
    BY <2>0, <2>2 DEF DataStep, Quiet
  <2>3. CASE Run(p, branch) /\ UNCHANGED <<tails, alert, note, queue, desk, intruded>>
             /\ (status = "idle" \/ desk = "none")
    BY <2>0, <2>3, RunForms DEF DataStep, Moves
  <2> QED
    BY <1>2, <2>1, <2>2, <2>3 DEF Enter
<1>3. ASSUME NEW p \in Prompts, Resolved(p) PROVE DataStep
  <2>0. stage[p] = "resolving" /\ InFlight(p) /\ accepted' = accepted
        /\ (p \in ToSet(tails) => OwnsSlot(p))
    BY <1>3, OnlyTheHeadBegins DEF Resolved, InFlight
  <2>1. CASE Inject(p) /\ UNCHANGED <<live, turn>>
    BY <2>0, <2>1, InjectForms DEF DataStep, Moves
  <2>2. CASE desk = "none" /\ live = None /\ Run(p, branch)
             /\ UNCHANGED <<tails, alert, note, queue, desk, intruded>>
    BY <2>0, <2>2, RunForms DEF DataStep, Moves
  <2> QED
    BY <1>3, <2>1, <2>2 DEF Resolved
<1>4. ASSUME NEW p \in Prompts, Restarted(p) PROVE DataStep
  <2>1. stage[p] = "injecting" /\ Moves(p) /\ (p \in ToSet(tails) => OwnsSlot(p))
    BY <1>4, OnlyTheHeadBegins DEF Restarted, Moves, InFlight
  <2> QED
    BY <1>4, <2>1 DEF Restarted, Restarts, DataStep
<1>5. ASSUME NEW p \in Prompts, Spliced(p) \/ TurnEnds(p) PROVE DataStep
  BY <1>5 DEF DataStep
<1>6. CASE Quiet
  BY <1>6 DEF DataStep
<1>7. CASE \/ \E kind \in {"gui", "server"} : DeskStarts(kind)
           \/ DeskSteps \/ \E s \in {"idle", "running"} : DeskEnds(s)
           \/ PrepareStep \/ Boundary \/ AttemptRestart \/ Crash
  BY <1>7 DEF DataStep
<1>8. \/ \E a \in Alerts : Answer(a) \/ Dismiss(a)
      \/ \E r \in Recovered : Recover(r) \/ Reconcile(r)
      \/ \E p \in Prompts : SettleTimeout(p) \/ Refused(p)
      \/ UNCHANGED vars
      => Quiet
  BY DEF Answer, Dismiss, Recover, Reconcile, SettleTimeout, Refused, vars, history, Quiet
<1> QED
  BY <1>1, <1>2, <1>3, <1>4, <1>5, <1>6, <1>7, <1>8 DEF Next

LEMMA KeptType ==
    ASSUME TypeOK
    PROVE  /\ Kept \in Seq(Prompts)
           /\ ToSet(branch) \subseteq ToSet(Kept)
           /\ ToSet(Kept) \subseteq ToSet(branch) \cup ToSet(queue)
  BY TypeParts, ConcatProperties, MembersOfConcat DEF DataTypes, Kept

LEMMA LandType ==
    ASSUME NEW b \in Seq(Prompts), NEW s \in Seq(Prompts)
    PROVE  /\ Land(b, s) \in Seq(Prompts)
           /\ ToSet(Land(b, s)) = ToSet(b) \cup ToSet(s)
<1> DEFINE S == Prompts \ ToSet(b)
<1>1. Only(s, S) \in Seq(Prompts) /\ ToSet(Only(s, S)) = ToSet(s) \cap S
  BY OnlyMembers
<1>2. ToSet(s) \subseteq Prompts
  BY MembersOfSeq
<1> HIDE DEF S
<1>3. b \o Only(s, S) \in Seq(Prompts)
      /\ ToSet(b \o Only(s, S)) = ToSet(b) \cup ToSet(Only(s, S))
  BY <1>1, ConcatProperties, MembersOfConcat
<1> QED
  BY <1>1, <1>2, <1>3 DEF Land, S

\* A boundary saves a, and puts back b.
Flushed(a, b) ==
    /\ a \o b = Head(turn.pending)
    /\ branch' = Land(branch, a)
    /\ turn' = [pending |-> Tail(turn.pending), landed |-> turn.landed \o a,
                failed |-> turn.failed \o b]
    /\ turn.failed = <<>> \/ a = <<>>
    /\ UNCHANGED <<queue, stage, accepted, desk, intruded>>

LEMMA Halves ==
    ASSUME NEW X, NEW s \in Seq(X), NEW k \in 0..Len(s)
    PROVE  /\ SubSeq(s, 1, k) \in Seq(X) /\ SubSeq(s, k + 1, Len(s)) \in Seq(X)
           /\ SubSeq(s, 1, k) \o SubSeq(s, k + 1, Len(s)) = s
           /\ k = 0 => SubSeq(s, 1, k) = <<>>
<1>1. Len(s) \in Nat /\ k \in Nat /\ \A i \in 1..Len(s) : s[i] \in X
  BY LenProperties
<1>2. SubSeq(s, 1, k) \o SubSeq(s, k + 1, Len(s)) = SubSeq(s, 1, Len(s))
  <2>1. 1 \in 1..(Len(s) + 1) /\ k \in (1 - 1)..Len(s) /\ Len(s) \in k..Len(s)
    BY <1>1
  <2> QED
    BY <2>1, ConcatAdjacentSubSeq
<1>3. SubSeq(s, 1, Len(s)) = s
  BY SubSeqFull
<1>4. SubSeq(s, 1, k) \in Seq(X)
  <2>1. 1 \in Int /\ k \in Int /\ \A i \in 1..k : s[i] \in X
    BY <1>1
  <2> QED
    BY <2>1, SubSeqProperties
<1>5. SubSeq(s, k + 1, Len(s)) \in Seq(X)
  <2>1. k + 1 \in Int /\ Len(s) \in Int /\ \A i \in (k + 1)..Len(s) : s[i] \in X
    BY <1>1
  <2> QED
    BY <2>1, SubSeqProperties
<1>6. k = 0 => SubSeq(s, 1, k) = <<>>
  <2>1. 1 \in Int /\ k \in Int /\ (k = 0 => k < 1)
    BY <1>1
  <2> QED
    BY <2>1, SubSeqEmpty
<1> QED
  BY <1>2, <1>3, <1>4, <1>5, <1>6

LEMMA BoundaryForm ==
    ASSUME TypeOK, Boundary
    PROVE  \E a, b \in Seq(Prompts) : Flushed(a, b)
<1> DEFINE batch == Head(turn.pending)
<1> DEFINE Flush(k) ==
             /\ branch' = Land(branch, SubSeq(batch, 1, k))
             /\ turn' = [pending |-> Tail(turn.pending),
                         landed  |-> turn.landed \o SubSeq(batch, 1, k),
                         failed  |-> turn.failed \o SubSeq(batch, k + 1, Len(batch))]
<1>1. batch \in Seq(Prompts)
  BY HeadTailProperties, TypeParts DEF Boundary, DataTypes
<1>2. Len(batch) \in Nat
  BY <1>1, LenProperties
<1> HIDE DEF Flush, batch
<1>3. PICK k \in 0..Len(batch) : Flush(k) /\ (turn.failed = <<>> \/ k = 0)
  <2>1. \/ turn.failed # <<>> /\ Flush(0)
        \/ turn.failed = <<>> /\ Flush(Len(batch))
        \/ turn.failed = <<>> /\ \E i \in 0..(Len(batch) - 1) : Flush(i)
    BY DEF Boundary, Flush, batch
  <2>2. 0 \in 0..Len(batch) /\ Len(batch) \in 0..Len(batch)
        /\ \A i \in 0..(Len(batch) - 1) : i \in 0..Len(batch)
    BY <1>2
  <2> QED
    BY <2>1, <2>2
<1> DEFINE a == SubSeq(batch, 1, k)
<1> DEFINE b == SubSeq(batch, k + 1, Len(batch))
<1>4. a \in Seq(Prompts) /\ b \in Seq(Prompts) /\ a \o b = batch /\ (k = 0 => a = <<>>)
  BY <1>1, <1>3, Halves
<1>5. UNCHANGED <<queue, stage, accepted, desk, intruded>>
  BY DEF Boundary, actions, history
<1>6. Flushed(a, b)
  BY <1>3, <1>4, <1>5 DEF Flushed, Flush, batch
<1> QED
  BY <1>4, <1>6

\* The end of a turn saves c and x, and puts y back.
Settled(c, x, y) ==
    /\ c \o (x \o y) = turn.failed \o (Taken \o queue)
    /\ branch' = Land(Land(branch, c), x)
    /\ queue' = y /\ turn' = NoFollowUps
    /\ UNCHANGED <<accepted, desk, intruded>>

LEMMA Associates ==
    ASSUME NEW X
    PROVE  \A s, t, u \in Seq(X) : (s \o t) \o u = s \o (t \o u)
  BY ConcatAssociative

LEMMA TurnEndForm ==
    ASSUME TypeOK, NEW p \in Prompts, TurnEnds(p)
    PROVE  \E c, x, y \in Seq(Prompts) : Settled(c, x, y)
<1>0. turn.failed \in Seq(Prompts) /\ Taken \in Seq(Prompts) /\ queue \in Seq(Prompts)
  BY TypeParts, FlattenType DEF DataTypes, Taken
<1>1. PICK broke \in BOOLEAN :
        LET b == Land(branch, IF broke THEN turn.failed ELSE turn.failed \o Taken)
            s == IF broke THEN Taken \o queue ELSE queue
        IN  \E k \in 0..Len(s) : Settle(b, s, k)
  BY DEF TurnEnds, Taken
<1> DEFINE c == IF broke THEN turn.failed ELSE turn.failed \o Taken
<1> DEFINE s == IF broke THEN Taken \o queue ELSE queue
<1>2. c \in Seq(Prompts) /\ s \in Seq(Prompts)
      /\ c \o s = turn.failed \o (Taken \o queue)
  <2>0. \A u, v, w \in Seq(Prompts) : (u \o v) \o w = u \o (v \o w)
    BY Associates
  <2>1. (turn.failed \o Taken) \o queue = turn.failed \o (Taken \o queue)
    BY <1>0, <2>0
  <2>2. turn.failed \o Taken \in Seq(Prompts) /\ Taken \o queue \in Seq(Prompts)
    BY <1>0, ConcatProperties
  <2> QED
    BY <1>0, <2>1, <2>2
<1>3. PICK k \in 0..Len(s) : Settle(Land(branch, c), s, k)
  BY <1>1
<1> HIDE DEF c, s
<1> DEFINE x == SubSeq(s, 1, k)
<1> DEFINE y == SubSeq(s, k + 1, Len(s))
<1>4. x \in Seq(Prompts) /\ y \in Seq(Prompts) /\ x \o y = s
  BY <1>2, <1>3, Halves
<1>5. branch' = Land(Land(branch, c), x) /\ queue' = y
  BY <1>3 DEF Settle
<1>6. turn' = NoFollowUps /\ UNCHANGED <<accepted, desk, intruded>>
  BY DEF TurnEnds, history
<1>7. Settled(c, x, y)
  BY <1>2, <1>4, <1>5, <1>6 DEF Settled
<1> QED
  BY <1>2, <1>4, <1>7

-----------------------------------------------------------------------------
(* Which prompts there are in the conversation, the live turn and the queue *)

PieceTypes ==
    /\ turn \in [pending : Seq(Seq(Prompts)), landed : Seq(Prompts), failed : Seq(Prompts)]
    /\ queue \in Seq(Prompts) /\ branch \in Seq(Prompts)

LEMMA PromptsJoin ==
    /\ \A s, t \in Seq(Prompts) :
         s \o t \in Seq(Prompts) /\ ToSet(s \o t) = ToSet(s) \cup ToSet(t)
    /\ \A s, t, u \in Seq(Prompts) : (s \o t) \o u = s \o (t \o u)
    /\ \A s \in Seq(Prompts), x \in Prompts :
         /\ Append(s, x) \in Seq(Prompts) /\ ToSet(Append(s, x)) = ToSet(s) \cup {x}
    /\ \A s \in Seq(Prompts) :
         s \o <<>> = s /\ <<>> \o s = s /\ ToSet(s) \subseteq Prompts
    /\ <<>> \in Seq(Prompts) /\ ToSet(<<>>) = {}
<1>1. \A s, t \in Seq(Prompts) :
         s \o t \in Seq(Prompts) /\ ToSet(s \o t) = ToSet(s) \cup ToSet(t)
  BY ConcatProperties, MembersOfConcat
<1>2. \A s, t, u \in Seq(Prompts) : (s \o t) \o u = s \o (t \o u)
  BY Associates
<1>3. \A s \in Seq(Prompts), x \in Prompts :
         Append(s, x) \in Seq(Prompts) /\ ToSet(Append(s, x)) = ToSet(s) \cup {x}
  BY AppendProperties, MembersOfAppend
<1>4. \A s \in Seq(Prompts) : s \o <<>> = s /\ <<>> \o s = s /\ ToSet(s) \subseteq Prompts
  BY ConcatEmptySeq, MembersOfSeq
<1>5. <<>> \in Seq(Prompts) /\ ToSet(<<>>) = {}
  BY EmptySeq, MembersOfEmpty
<1> QED
  BY <1>1, <1>2, <1>3, <1>4, <1>5

LEMMA Chains ==
    /\ \A a, b, c \in Seq(Prompts) :
         /\ a \o (b \o c) \in Seq(Prompts)
         /\ ToSet(a \o (b \o c)) = ToSet(a) \cup ToSet(b) \cup ToSet(c)
<1>1. ASSUME NEW a \in Seq(Prompts), NEW b \in Seq(Prompts), NEW c \in Seq(Prompts)
      PROVE  /\ a \o (b \o c) \in Seq(Prompts)
             /\ ToSet(a \o (b \o c)) = ToSet(a) \cup ToSet(b) \cup ToSet(c)
  <2> DEFINE t == b \o c
  <2>1. t \in Seq(Prompts) /\ ToSet(t) = ToSet(b) \cup ToSet(c)
    BY PromptsJoin
  <2> HIDE DEF t
  <2>2. a \o t \in Seq(Prompts) /\ ToSet(a \o t) = ToSet(a) \cup ToSet(t)
    BY <2>1, PromptsJoin
  <2> QED
    BY <2>1, <2>2 DEF t
<1> QED
  BY <1>1

LEMMA FourJoined ==
    ASSUME NEW a \in Seq(Prompts)
    PROVE  \A b, c, d \in Seq(Prompts) : ((a \o b) \o c) \o d = a \o (b \o (c \o d))
<1> TAKE b, c, d \in Seq(Prompts)
<1>1. ((a \o b) \o c) \o d = (a \o b) \o (c \o d)
  <2> DEFINE t == a \o b
  <2>1. t \in Seq(Prompts)
    BY PromptsJoin
  <2> HIDE DEF t
  <2>2. (t \o c) \o d = t \o (c \o d)
    BY <2>1, PromptsJoin, SMTT(30)
  <2> QED
    BY <2>2 DEF t
<1>2. (a \o b) \o (c \o d) = a \o (b \o (c \o d))
  <2> DEFINE t == c \o d
  <2>1. t \in Seq(Prompts)
    BY PromptsJoin
  <2> HIDE DEF t
  <2>2. (a \o b) \o t = a \o (b \o t)
    BY <2>1, PromptsJoin
  <2> QED
    BY <2>2 DEF t
<1> QED
  BY <1>1, <1>2

LEMMA Pieces ==
    ASSUME PieceTypes
    PROVE  /\ turn.failed \in Seq(Prompts) /\ turn.landed \in Seq(Prompts)
           /\ turn.pending \in Seq(Seq(Prompts)) /\ Taken \in Seq(Prompts)
           /\ Line \in Seq(Prompts) /\ ToSet(Line) = ToSet(branch) \cup Handed
           /\ ToSet(Line) \subseteq Prompts
           /\ Line = branch \o (turn.failed \o (Taken \o queue))
<1>1. /\ turn.failed \in Seq(Prompts) /\ turn.landed \in Seq(Prompts)
      /\ turn.pending \in Seq(Seq(Prompts)) /\ Taken \in Seq(Prompts)
      /\ branch \in Seq(Prompts) /\ queue \in Seq(Prompts)
  BY FlattenType DEF PieceTypes, Taken
<1>2. /\ branch \o turn.failed \in Seq(Prompts)
      /\ ToSet(branch \o turn.failed) = ToSet(branch) \cup ToSet(turn.failed)
  BY <1>1, PromptsJoin
<1>3. /\ (branch \o turn.failed) \o Taken \in Seq(Prompts)
      /\ ToSet((branch \o turn.failed) \o Taken) = ToSet(branch \o turn.failed) \cup ToSet(Taken)
  BY <1>1, <1>2, PromptsJoin
<1>4. /\ ((branch \o turn.failed) \o Taken) \o queue \in Seq(Prompts)
      /\ ToSet(((branch \o turn.failed) \o Taken) \o queue) =
           ToSet((branch \o turn.failed) \o Taken) \cup ToSet(queue)
  BY <1>1, <1>3, PromptsJoin
<1>5. Line = ((branch \o turn.failed) \o Taken) \o queue
  BY DEF Line, Taken
<1>6. ToSet(Line) = ToSet(branch) \cup Handed
  BY <1>2, <1>3, <1>4, <1>5 DEF Handed
<1>7. ToSet(Line) \subseteq Prompts
  BY <1>4, <1>5, PromptsJoin
<1>8. Line = branch \o (turn.failed \o (Taken \o queue))
  <2> DEFINE f == turn.failed
  <2>1. f \in Seq(Prompts) /\ Line = ((branch \o f) \o Taken) \o queue
    BY <1>1, <1>5
  <2> HIDE DEF f
  <2>2. Line = branch \o (f \o (Taken \o queue))
    <3>1. /\ branch \in Seq(Prompts) /\ Taken \in Seq(Prompts) /\ queue \in Seq(Prompts)
      BY <1>1
    <3>2. \A b, c, d \in Seq(Prompts) :
            ((branch \o b) \o c) \o d = branch \o (b \o (c \o d))
      BY <3>1, FourJoined
    <3> QED
      BY <2>1, <3>1, <3>2
  <2> QED
    BY <2>2 DEF f
<1> QED
  BY <1>1, <1>4, <1>5, <1>6, <1>7, <1>8

\* Nothing comes but prompts that move; all but what the live turn saved stays.
Enters(q) == Moves(q) /\ (q \in ToSet(tails) => OwnsSlot(q))

MembersStep ==
    /\ PieceTypes'
    /\ \A q \in ToSet(branch') : q \in ToSet(Line) \/ (Enters(q) /\ stage'[q] # "none")
    /\ \A q \in Handed' \cup ToSet(turn'.landed) :
         \/ q \in Handed \cup ToSet(turn.landed)
         \/ Enters(q) /\ stage'[q] = "returned"
    /\ ToSet(turn'.landed) \subseteq ToSet(branch')
    /\ ToSet(branch) \ ToSet(turn.landed) \subseteq ToSet(branch')

LEMMA NothingTaken ==
    /\ FlattenSeq(NoFollowUps.pending) = <<>> /\ NoFollowUps.failed = <<>>
    /\ NoFollowUps.landed = <<>> /\ NoFollowUps.pending = <<>>
    /\ NoFollowUps \in [pending : Seq(Seq(Prompts)), landed : Seq(Prompts), failed : Seq(Prompts)]
    /\ ToSet(<<>>) = {}
<1>1. <<>> \in Seq(Prompts) /\ <<>> \in Seq(Seq(Prompts))
  BY EmptySeq
<1> QED
  BY <1>1, FlattenEmpty, MembersOfEmpty DEF NoFollowUps

LEMMA TypedPieces ==
    ASSUME TypeOK
    PROVE  PieceTypes /\ (live = None => turn = NoFollowUps /\ Taken = <<>>)
  BY TypeParts, NothingTaken DEF PieceTypes, DataTypes, Taken

LEMMA QuietMembers ==
    ASSUME TypeOK, HeldInv, Quiet
    PROVE  MembersStep
<1>1. PieceTypes
  BY TypedPieces
<1>2. UNCHANGED <<branch, turn, queue>>
  BY DEF Quiet
<1>3. Handed' = Handed /\ PieceTypes'
  BY <1>1, <1>2 DEF Handed, PieceTypes, Taken
<1> QED
  BY <1>1, <1>2, <1>3, Pieces DEF MembersStep, HeldInv

LEMMA SpokenMembers ==
    ASSUME TypeOK, HeldInv, NEW p \in Prompts, Spoken(p)
    PROVE  MembersStep
<1>1. PieceTypes /\ stage \in [Prompts -> Stages]
  BY TypedPieces, TypeParts DEF ControlTypes
<1>2. branch' = Append(branch, p) /\ UNCHANGED <<turn, queue>>
  BY DEF Spoken
<1>3. branch' \in Seq(Prompts) /\ ToSet(branch') = ToSet(branch) \cup {p}
  BY <1>1, <1>2, PromptsJoin DEF PieceTypes
<1>4. Handed' = Handed /\ PieceTypes'
  BY <1>1, <1>2, <1>3 DEF Handed, PieceTypes, Taken
<1>5. Enters(p) /\ stage'[p] = "running"
  BY <1>1 DEF Spoken, Enters
<1> QED
  BY <1>1, <1>2, <1>3, <1>4, <1>5, Pieces DEF MembersStep, HeldInv

LEMMA JoinedMembers ==
    ASSUME TypeOK, HeldInv, NEW e \in Events, Joined(e)
    PROVE  MembersStep
<1>1. PieceTypes /\ stage \in [Prompts -> Stages] /\ e \in Prompts
  BY TypedPieces, TypeParts, PromptKinds DEF ControlTypes
<1>2. queue' = Append(queue, e) /\ UNCHANGED <<turn, branch>>
  BY DEF Joined
<1>3. queue' \in Seq(Prompts) /\ ToSet(queue') = ToSet(queue) \cup {e}
  BY <1>1, <1>2, PromptsJoin DEF PieceTypes
<1>4. Handed' = Handed \cup {e} /\ PieceTypes'
  BY <1>1, <1>2, <1>3 DEF Handed, PieceTypes, Taken
<1>5. Enters(e) /\ stage'[e] = "returned"
  BY <1>1, MembersOfEmpty DEF Joined, Moves, Enters
<1> QED
  BY <1>1, <1>2, <1>4, <1>5, Pieces DEF MembersStep, HeldInv

LEMMA ReturnedStage ==
    ASSUME TypeOK, NEW p \in Prompts, Return(p)
    PROVE  stage'[p] = "returned"
  BY TypeParts DEF Return, MoveTo, ControlTypes

LEMMA RestartsMembers ==
    ASSUME TypeOK, HeldInv, NEW p \in Prompts, Restarts(p)
    PROVE  MembersStep
<1>1. PieceTypes
  BY TypedPieces
<1>2. branch' = Append(Kept, p) /\ queue' = <<>> /\ turn' = turn
  BY DEF Restarts, Restart, Begin
<1>3. branch' \in Seq(Prompts) /\ ToSet(branch') = ToSet(Kept) \cup {p}
  BY <1>2, KeptType, PromptsJoin
<1>4. Handed' \subseteq Handed /\ PieceTypes'
  BY <1>1, <1>2, <1>3, PromptsJoin DEF Handed, PieceTypes, Taken
<1>5. Enters(p) /\ stage'[p] = "returned"
  BY ReturnedStage DEF Restarts, Restart, Enters
<1>6. ToSet(Kept) \subseteq ToSet(Line) /\ ToSet(branch) \subseteq ToSet(Kept)
  BY <1>1, KeptType, Pieces DEF Handed
<1> QED
  BY <1>2, <1>3, <1>4, <1>5, <1>6 DEF MembersStep, HeldInv

LEMMA SplicedMembers ==
    ASSUME TypeOK, SlotInv, HeldInv, NEW p \in Prompts, Spliced(p)
    PROVE  MembersStep
<1>1. PieceTypes
  BY TypedPieces
<1>2. /\ queue' = Append(queue, p) /\ turn' = turn
      /\ branch' = branch \/ branch' = Append(branch, p)
  BY DEF Spliced
<1>3. /\ branch' \in Seq(Prompts) /\ queue' \in Seq(Prompts)
      /\ ToSet(queue') = ToSet(queue) \cup {p}
      /\ ToSet(branch) \subseteq ToSet(branch') /\ ToSet(branch') \subseteq ToSet(branch) \cup {p}
  <2>1. queue \in Seq(Prompts) /\ branch \in Seq(Prompts)
    BY <1>1 DEF PieceTypes
  <2>2. /\ Append(branch, p) \in Seq(Prompts) /\ Append(queue, p) \in Seq(Prompts)
        /\ ToSet(Append(queue, p)) = ToSet(queue) \cup {p}
        /\ ToSet(Append(branch, p)) = ToSet(branch) \cup {p}
    BY <2>1, PromptsJoin
  <2> QED
    BY <1>2, <2>1, <2>2
<1>4. Handed' = Handed \cup {p} /\ PieceTypes'
  BY <1>1, <1>2, <1>3 DEF Handed, PieceTypes, Taken
<1>5. Enters(p) /\ stage'[p] = "returned"
  BY ReturnedStage, OnlyTheHeadBegins DEF Spliced, Moves, InFlight, Enters
<1> QED
  BY <1>1, <1>2, <1>3, <1>4, <1>5, Pieces DEF MembersStep, HeldInv

\* An interactive turn takes what is in the queue, or leaves it out.
LEMMA DeskMembers ==
    ASSUME TypeOK, HeldInv, branch' = Kept, queue' = <<>>, turn' = turn
    PROVE  MembersStep
<1>1. PieceTypes
  BY TypedPieces
<1>2. Handed' \subseteq Handed /\ PieceTypes'
  BY <1>1, KeptType, PromptsJoin DEF Handed, PieceTypes, Taken
<1>3. ToSet(Kept) \subseteq ToSet(Line) /\ ToSet(branch) \subseteq ToSet(Kept)
  BY <1>1, KeptType, Pieces DEF Handed
<1> QED
  BY <1>2, <1>3 DEF MembersStep, HeldInv

LEMMA TurnEndMembers ==
    ASSUME TypeOK, HeldInv, NEW p \in Prompts, TurnEnds(p)
    PROVE  MembersStep
<1>1. PieceTypes
  BY TypedPieces
<1>2. PICK c, x, y \in Seq(Prompts) : Settled(c, x, y)
  BY TurnEndForm
<1>3. ToSet(c) \cup ToSet(x) \cup ToSet(y) = Handed
  <2>1. ToSet(c \o (x \o y)) = ToSet(c) \cup ToSet(x) \cup ToSet(y)
    BY Chains
  <2>2. ToSet(turn.failed \o (Taken \o queue)) = Handed
    <3>1. turn.failed \in Seq(Prompts) /\ Taken \in Seq(Prompts) /\ queue \in Seq(Prompts)
      BY <1>1, Pieces DEF PieceTypes
    <3> QED
      BY <3>1, Chains DEF Handed
  <2> QED
    BY <1>2, <2>1, <2>2 DEF Settled
<1>4. Land(branch, c) \in Seq(Prompts) /\ ToSet(Land(branch, c)) = ToSet(branch) \cup ToSet(c)
  BY <1>1, LandType DEF PieceTypes
<1>5. branch' \in Seq(Prompts) /\ ToSet(branch') = ToSet(branch) \cup ToSet(c) \cup ToSet(x)
  BY <1>2, <1>4, LandType DEF Settled
<1>6. Handed' = ToSet(y) /\ PieceTypes' /\ ToSet(turn'.landed) = {}
  BY <1>2, <1>5, NothingTaken DEF Settled, Handed, Taken, PieceTypes
<1> QED
  BY <1>1, <1>3, <1>5, <1>6, Pieces DEF MembersStep

LEMMA PrepareMembers ==
    ASSUME TypeOK, HeldInv, PrepareStep
    PROVE  /\ MembersStep /\ Line' = Line /\ branch' = branch /\ turn'.landed = turn.landed
           /\ Handed' = Handed
<1>1. PieceTypes
  BY TypedPieces
<1>2. /\ turn' = [turn EXCEPT !.pending = Append(@, queue)] /\ queue' = <<>>
      /\ branch' = branch
  BY DEF PrepareStep
<1>3. /\ turn'.pending = Append(turn.pending, queue) /\ turn'.failed = turn.failed
      /\ turn'.landed = turn.landed
  BY <1>1, <1>2 DEF PieceTypes
<1>4. Taken' = Taken \o queue /\ turn'.pending \in Seq(Seq(Prompts))
  <2>1. \A ss \in Seq(Seq(Prompts)), s \in Seq(Prompts) :
          /\ FlattenSeq(Append(ss, s)) = FlattenSeq(ss) \o s
          /\ Append(ss, s) \in Seq(Seq(Prompts))
    BY FlattenAppend, AppendProperties
  <2> QED
    BY <1>1, <1>3, <2>1, Pieces DEF PieceTypes, Taken
<1>5. PieceTypes'
  <2>1. turn.failed \in Seq(Prompts) /\ turn.landed \in Seq(Prompts)
    BY <1>1, Pieces
  <2>2. turn' = [pending |-> Append(turn.pending, queue), landed |-> turn.landed,
                 failed |-> turn.failed]
    BY <1>1, <1>2 DEF PieceTypes
  <2>3. turn' \in [pending : Seq(Seq(Prompts)), landed : Seq(Prompts), failed : Seq(Prompts)]
    BY <1>3, <1>4, <2>1, <2>2
  <2> QED
    BY <1>1, <1>2, <2>3, PromptsJoin DEF PieceTypes
<1>6. Handed' = Handed
  <2>1. ToSet(Taken') = ToSet(Taken) \cup ToSet(queue) /\ ToSet(queue') = {}
    BY <1>1, <1>2, <1>4, Pieces, PromptsJoin DEF PieceTypes
  <2> QED
    BY <1>3, <2>1 DEF Handed
<1>7. Line' = Line
  <2>0. /\ branch \in Seq(Prompts) /\ turn.failed \in Seq(Prompts)
        /\ Taken \in Seq(Prompts) /\ queue \in Seq(Prompts)
    BY <1>1, Pieces DEF PieceTypes
  <2>1. Line' = ((branch \o turn.failed) \o (Taken \o queue)) \o <<>>
    BY <1>2, <1>3, <1>4 DEF Line, Taken
  <2>2. (Taken \o queue) \o <<>> = Taken \o queue /\ Taken \o queue \in Seq(Prompts)
        /\ <<>> \in Seq(Prompts)
    BY <2>0, PromptsJoin
  <2>3. Line' = branch \o (turn.failed \o ((Taken \o queue) \o <<>>))
    <3> DEFINE t == Taken \o queue
           none == <<>>
    <3>1. t \in Seq(Prompts) /\ none \in Seq(Prompts)
      BY <2>2
    <3>2. Line' = ((branch \o turn.failed) \o t) \o none
      BY <2>1
    <3> HIDE DEF t, none
    <3>3. Line' = branch \o (turn.failed \o (t \o none))
      <4> DEFINE f == turn.failed
      <4>1. f \in Seq(Prompts) /\ Line' = ((branch \o f) \o t) \o none
        BY <2>0, <3>2
      <4> HIDE DEF f
      <4>2. Line' = branch \o (f \o (t \o none))
        <5>1. branch \in Seq(Prompts)
          BY <2>0
        <5>2. \A b, c, d \in Seq(Prompts) :
                ((branch \o b) \o c) \o d = branch \o (b \o (c \o d))
          BY <5>1, FourJoined
        <5> QED
          BY <3>1, <4>1, <5>2
      <4> QED
        BY <4>2 DEF f
    <3> QED
      BY <3>3 DEF t, none
  <2> QED
    BY <1>1, <2>2, <2>3, Pieces
<1> QED
  BY <1>1, <1>2, <1>3, <1>5, <1>6, <1>7, Pieces DEF MembersStep, HeldInv

-----------------------------------------------------------------------------
(* What is not in the conversation yet, and what a step makes of it.       *)

Rest == turn.failed \o (Taken \o queue)

LEMMA Rests ==
    ASSUME PieceTypes
    PROVE  Rest \in Seq(Prompts) /\ Line = branch \o Rest /\ ToSet(Rest) = Handed
<1>1. /\ turn.failed \in Seq(Prompts) /\ Taken \in Seq(Prompts) /\ queue \in Seq(Prompts)
      /\ Line = branch \o (turn.failed \o (Taken \o queue))
  BY Pieces DEF PieceTypes
<1> QED
  BY <1>1, Chains DEF Rest, Handed

LEMMA NextRests ==
    ASSUME PieceTypes'
    PROVE  Rest' \in Seq(Prompts) /\ Line' = branch' \o Rest' /\ ToSet(Rest') = Handed'
<1> DEFINE f == turn'.failed
           t == Taken'
<1>1. f \in Seq(Prompts) /\ t \in Seq(Prompts) /\ queue' \in Seq(Prompts)
      /\ branch' \in Seq(Prompts)
  BY FlattenType DEF PieceTypes, Taken
<1>2. /\ Line' = ((branch' \o f) \o t) \o queue' /\ Rest' = f \o (t \o queue')
      /\ Handed' = ToSet(f) \cup ToSet(t) \cup ToSet(queue')
  BY DEF Line, Rest, Handed, Taken
<1> HIDE DEF f, t
<1>3. \A b, c, d \in Seq(Prompts) : ((branch' \o b) \o c) \o d = branch' \o (b \o (c \o d))
  BY <1>1, FourJoined
<1>4. Line' = branch' \o (f \o (t \o queue'))
  BY <1>1, <1>2, <1>3
<1>5. /\ f \o (t \o queue') \in Seq(Prompts)
      /\ ToSet(f \o (t \o queue')) = ToSet(f) \cup ToSet(t) \cup ToSet(queue')
  BY <1>1, Chains
<1> QED
  BY <1>2, <1>4, <1>5

\* Without follow-ups of a live turn it is the queue.
LEMMA RestAlone ==
    /\ TypeOK /\ turn = NoFollowUps => Rest = queue
    /\ PieceTypes' /\ turn' = NoFollowUps => Rest' = queue'
<1>1. \A q \in Seq(Prompts) : <<>> \o (<<>> \o q) = q
  BY PromptsJoin
<1>2. ASSUME TypeOK, turn = NoFollowUps PROVE Rest = queue
  <2>1. queue \in Seq(Prompts) /\ turn.failed = <<>> /\ Taken = <<>>
    BY <1>2, TypedPieces, NothingTaken DEF PieceTypes, Taken
  <2> QED
    BY <1>1, <2>1 DEF Rest
<1>3. ASSUME PieceTypes', turn' = NoFollowUps PROVE Rest' = queue'
  <2>1. queue' \in Seq(Prompts) /\ turn'.failed = <<>> /\ Taken' = <<>>
    BY <1>3, NothingTaken DEF PieceTypes, Taken
  <2> QED
    BY <1>1, <2>1 DEF Rest
<1> QED
  BY <1>2, <1>3

\* A step of an automation's turn saves the first of them, c and x, and keeps y.
Saves(c, x, y) ==
    /\ Rest = c \o (x \o y) /\ Rest' = y
    /\ branch' = Land(Land(branch, c), x)
    /\ UNCHANGED <<accepted, desk, intruded>>

LEMMA TurnEndSaves ==
    ASSUME TypeOK, HeldInv, NEW p \in Prompts, TurnEnds(p)
    PROVE  /\ \E c, x, y \in Seq(Prompts) : Saves(c, x, y)
           /\ turn' = NoFollowUps
<1>1. PICK c, x, y \in Seq(Prompts) : Settled(c, x, y)
  BY TurnEndForm
<1>2. turn' = NoFollowUps /\ queue' = y
  BY <1>1 DEF Settled
<1>3. Rest' = y
  BY <1>2, TurnEndMembers, RestAlone DEF MembersStep
<1>4. Saves(c, x, y)
  BY <1>1, <1>3 DEF Settled, Saves, Rest
<1> QED
  BY <1>2, <1>4

LEMMA LandNothing ==
    ASSUME NEW b \in Seq(Prompts)
    PROVE  Land(b, <<>>) = b
  BY OnlyEmpty, PromptsJoin DEF Land

LEMMA BoundarySaves ==
    ASSUME TypeOK, HeldInv, Boundary
    PROVE  /\ MembersStep
           /\ \E a, y \in Seq(Prompts) :
                Saves(a, <<>>, y) /\ turn'.landed = turn.landed \o a
<1>0. PieceTypes
  BY TypedPieces
<1>1. PICK a, b \in Seq(Prompts) : Flushed(a, b)
  BY BoundaryForm
<1> DEFINE f == turn.failed
           t == FlattenSeq(Tail(turn.pending))
           m == turn.landed
<1>2. /\ f \in Seq(Prompts) /\ m \in Seq(Prompts) /\ queue \in Seq(Prompts)
      /\ branch \in Seq(Prompts)
  BY <1>0, Pieces DEF PieceTypes
<1>3. /\ Tail(turn.pending) \in Seq(Seq(Prompts)) /\ t \in Seq(Prompts)
      /\ Taken = (a \o b) \o t
  <2>1. turn.pending \in Seq(Seq(Prompts)) /\ turn.pending # <<>>
    BY <1>0 DEF PieceTypes, Boundary
  <2>2. /\ Head(turn.pending) \in Seq(Prompts) /\ Tail(turn.pending) \in Seq(Seq(Prompts))
        /\ FlattenSeq(turn.pending) = Head(turn.pending) \o FlattenSeq(Tail(turn.pending))
    BY <2>1, FlattenHead
  <2>3. t \in Seq(Prompts)
    BY <2>2, FlattenType
  <2> QED
    BY <1>1, <2>2, <2>3 DEF Flushed, Taken
<1>4. /\ Taken' = t /\ turn'.failed = f \o b /\ turn'.landed = m \o a /\ queue' = queue
      /\ branch' = Land(branch, a) /\ (f = <<>> \/ a = <<>>)
  BY <1>1 DEF Flushed, Taken
<1>5. /\ branch' \in Seq(Prompts) /\ ToSet(branch') = ToSet(branch) \cup ToSet(a)
  BY <1>2, <1>4, LandType
<1>6. /\ f \o b \in Seq(Prompts) /\ ToSet(f \o b) = ToSet(f) \cup ToSet(b)
      /\ m \o a \in Seq(Prompts) /\ ToSet(m \o a) = ToSet(m) \cup ToSet(a)
      /\ ToSet((a \o b) \o t) = ToSet(a) \cup ToSet(b) \cup ToSet(t)
      /\ (a \o b) \o t = a \o (b \o t)
  <2> HIDE DEF f, m, t
  <2>1. (a \o b) \o t = a \o (b \o t)
    BY <1>3, PromptsJoin
  <2>2. ToSet((a \o b) \o t) = ToSet(a) \cup ToSet(b) \cup ToSet(t)
    BY <1>3, <2>1, Chains
  <2> QED
    BY <1>2, <2>1, <2>2, PromptsJoin
<1>7. PieceTypes'
  <2> HIDE DEF f, m, t
  <2>1. turn' = [pending |-> Tail(turn.pending), landed |-> m \o a, failed |-> f \o b]
    BY <1>1 DEF Flushed, f, m
  <2> QED
    BY <1>2, <1>3, <1>4, <1>5, <1>6, <2>1 DEF PieceTypes
<1>8. Handed' \cup ToSet(a) = Handed
  BY <1>3, <1>4, <1>6 DEF Handed
<1>9. MembersStep
  BY <1>0, <1>4, <1>5, <1>6, <1>7, <1>8, Pieces DEF MembersStep, HeldInv
<1> DEFINE y == (f \o b) \o (t \o queue)
<1>10. Rest' = y /\ y \in Seq(Prompts)
  BY <1>4, <1>7, NextRests DEF Rest
<1>11. Rest = a \o (<<>> \o y)
  <2>1. Rest = f \o (((a \o b) \o t) \o queue)
    BY <1>3 DEF Rest
  <2> HIDE DEF f, m, t
  <2>2. ((a \o b) \o t) \o queue = a \o (b \o (t \o queue))
    <3>1. \A u, v, w \in Seq(Prompts) : ((a \o u) \o v) \o w = a \o (u \o (v \o w))
      BY FourJoined
    <3>2. b \in Seq(Prompts) /\ t \in Seq(Prompts) /\ queue \in Seq(Prompts)
      BY <1>2, <1>3
    <3> QED
      BY <3>1, <3>2, Zenon
  <2> DEFINE r == t \o queue
  <2>3. r \in Seq(Prompts)
    BY <1>2, <1>3, PromptsJoin
  <2>4. Rest = f \o (a \o (b \o r)) /\ y = (f \o b) \o r
    BY <2>1, <2>2
  <2> HIDE DEF r, y
  <2>5. b \o r \in Seq(Prompts) /\ a \o (b \o r) \in Seq(Prompts)
    BY <2>3, PromptsJoin, Chains
  <2>6. CASE f = <<>>
    <3>1. Rest = a \o (b \o r) /\ y = b \o r
      BY <2>4, <2>5, <2>6, PromptsJoin
    <3> QED
      BY <2>5, <3>1, PromptsJoin
  <2>7. CASE a = <<>>
    <3>0. <<>> \o (b \o r) = b \o r
      BY <2>5, PromptsJoin
    <3>3. (f \o b) \o r = f \o (b \o r)
      <4>1. f \in Seq(Prompts) /\ r \in Seq(Prompts)
        BY <1>2, <2>3
      <4>2. \A u, v \in Seq(Prompts) : (f \o u) \o v = f \o (u \o v)
        BY <4>1, PromptsJoin
      <4> QED
        BY <4>1, <4>2
    <3>1. Rest = f \o (b \o r) /\ y = f \o (b \o r)
      BY <2>4, <2>7, <3>0, <3>3
    <3>2. y \in Seq(Prompts)
      BY <1>10
    <3> QED
      BY <2>7, <3>1, <3>2, PromptsJoin
  <2> QED
    BY <1>4, <2>6, <2>7 DEF f
<1>12. Land(branch, a) = Land(Land(branch, a), <<>>)
  BY <1>4, <1>5, LandNothing
<1>13. Saves(a, <<>>, y) /\ turn'.landed = turn.landed \o a
  BY <1>1, <1>4, <1>10, <1>11, <1>12 DEF Saves, Flushed
<1> QED
  BY <1>9, <1>10, <1>13

LEMMA RetryMembers ==
    ASSUME TypeOK, HeldInv, AttemptRestart
    PROVE  /\ MembersStep
           /\ Rest' = turn.landed \o Rest /\ turn' = NoFollowUps
           /\ branch' = Only(branch, Prompts \ ToSet(turn.landed))
           /\ UNCHANGED <<stage, tails, accepted, ahead, desk, intruded>>
<1>0. PieceTypes
  BY TypedPieces
<1> DEFINE f == turn.failed
           m == turn.landed
<1>1. /\ f \in Seq(Prompts) /\ m \in Seq(Prompts) /\ Taken \in Seq(Prompts)
      /\ queue \in Seq(Prompts) /\ branch \in Seq(Prompts)
  BY <1>0, Pieces DEF PieceTypes
<1>2. /\ queue' = ((m \o f) \o Taken) \o queue /\ turn' = NoFollowUps
      /\ branch' = Only(branch, Prompts \ ToSet(m)) /\ Rest = f \o (Taken \o queue)
      /\ UNCHANGED <<stage, tails, accepted, ahead, desk, intruded>>
  BY DEF AttemptRestart, Taken, Rest, actions, history
<1>3. ToSet(m) = ToSet(turn.landed)
  OBVIOUS
<1> HIDE DEF f, m
<1>4. queue' = m \o Rest
  <2>1. \A u, v, w \in Seq(Prompts) : ((m \o u) \o v) \o w = m \o (u \o (v \o w))
    BY <1>1, FourJoined
  <2>2. ((m \o f) \o Taken) \o queue = m \o (f \o (Taken \o queue))
    BY <1>1, <2>1, ZenonT(30)
  <2> QED
    BY <1>2, <2>2
<1>5. /\ Rest \in Seq(Prompts) /\ ToSet(Rest) = Handed
      /\ m \o Rest \in Seq(Prompts) /\ ToSet(m \o Rest) = ToSet(m) \cup Handed
  <2>1. Rest \in Seq(Prompts) /\ ToSet(Rest) = Handed
    BY <1>0, Rests
  <2> QED
    BY <1>1, <2>1, PromptsJoin
<1>6. /\ branch' \in Seq(Prompts)
      /\ ToSet(branch') = ToSet(branch) \cap (Prompts \ ToSet(m))
  BY <1>1, <1>2, OnlyMembers
<1>7. PieceTypes'
  BY <1>2, <1>4, <1>5, <1>6, NothingTaken DEF PieceTypes
<1>8. Rest' = m \o Rest /\ Handed' = ToSet(m) \cup Handed /\ ToSet(turn'.landed) = {}
  BY <1>2, <1>4, <1>5, <1>7, RestAlone, NextRests, NothingTaken
<1>9. ToSet(branch) \subseteq Prompts
  BY <1>1, PromptsJoin
<1>10. MembersStep
  BY <1>0, <1>3, <1>6, <1>7, <1>8, <1>9, Pieces DEF MembersStep
<1> QED
  BY <1>2, <1>8, <1>10 DEF m

LEMMA CrashMembers ==
    ASSUME TypeOK, HeldInv, Crash
    PROVE  MembersStep /\ branch' = branch /\ Rest' = <<>> /\ turn' = NoFollowUps
<1>0. PieceTypes
  BY TypedPieces
<1>1. branch' = branch /\ turn' = NoFollowUps /\ queue' = <<>>
  BY DEF Crash
<1>2. PieceTypes'
  BY <1>0, <1>1, NothingTaken, PromptsJoin DEF PieceTypes
<1>3. Rest' = <<>> /\ Handed' = {} /\ ToSet(turn'.landed) = {}
  BY <1>1, <1>2, RestAlone, NextRests, NothingTaken
<1> QED
  BY <1>0, <1>1, <1>2, <1>3, Pieces DEF MembersStep

LEMMA MembersSteps ==
    ASSUME TypeOK, SlotInv, HeldInv, [Next]_vars
    PROVE  MembersStep
<1>1. CASE \/ \E kind \in {"gui", "server"} : DeskStarts(kind)
           \/ DeskSteps \/ \E s \in {"idle", "running"} : DeskEnds(s)
  <2>1. branch' = Kept /\ queue' = <<>> /\ turn' = turn
    BY <1>1 DEF DeskStarts, DeskSteps, DeskEnds, Begin
  <2> QED
    BY <2>1, DeskMembers
<1> QED
  BY <1>1, DataForms, QuietMembers, SpokenMembers, JoinedMembers, RestartsMembers, SplicedMembers,
     TurnEndMembers, PrepareMembers, BoundarySaves, RetryMembers, CrashMembers DEF DataStep

\* Between turns nothing is taken.
LEMMA TurnsClear ==
    ASSUME [Next]_vars
    PROVE  \/ UNCHANGED <<live, turn>>
           \/ turn' = NoFollowUps
           \/ live # None /\ live' = live
<1>1. ASSUME NEW p, Run(p, branch) PROVE turn' = NoFollowUps
  BY <1>1 DEF Run
<1>2. ASSUME NEW e \in Events, Fire(e) PROVE UNCHANGED <<live, turn>> \/ turn' = NoFollowUps
  BY <1>1, <1>2 DEF Fire
<1>3. ASSUME NEW p \in Prompts, Enter(p) \/ Resolved(p)
      PROVE  UNCHANGED <<live, turn>> \/ turn' = NoFollowUps
  BY <1>1, <1>3 DEF Enter, Resolved
<1>4. ASSUME NEW p \in Prompts, TurnEnds(p) PROVE turn' = NoFollowUps
  BY <1>4 DEF TurnEnds
<1>5. ASSUME NEW p \in Prompts, SettleTimeout(p) \/ Refused(p) \/ Spliced(p) \/ Restarted(p)
      PROVE  UNCHANGED <<live, turn>>
  BY <1>5 DEF SettleTimeout, Refused, Spliced, Restarted
<1>6. \/ \E a \in Alerts : Answer(a) \/ Dismiss(a)
      \/ \E r \in Recovered : Recover(r) \/ Reconcile(r)
      \/ \E kind \in {"gui", "server"} : DeskStarts(kind)
      \/ DeskSteps \/ \E s \in {"idle", "running"} : DeskEnds(s)
      \/ UNCHANGED vars
      => UNCHANGED <<live, turn>>
  BY DEF Answer, Dismiss, Recover, Reconcile, DeskStarts, DeskSteps, DeskEnds, vars
<1>7. PrepareStep \/ Boundary => live # None /\ live' = live
  BY DEF PrepareStep, Boundary
<1>8. AttemptRestart \/ Crash => turn' = NoFollowUps
  BY DEF AttemptRestart, Crash
<1> QED
  BY <1>2, <1>3, <1>4, <1>5, <1>6, <1>7, <1>8 DEF Next

LEMMA TypesStep ==
    ASSUME TypeOK, SlotInv, GivenInv, HeldInv, [Next]_vars
    PROVE  TypeOK' /\ SlotInv' /\ GivenInv'
<1>1. ControlTypes' /\ SlotInv' /\ GivenInv' /\ OtherTypes'
  BY ControlSteps, ControlKeeps, GivenStep, OtherTypesStep
<1>2. PieceTypes'
  BY MembersSteps DEF MembersStep
<1>3. live' = None => turn' = NoFollowUps
  BY TurnsClear, TypedPieces
<1> QED
  BY <1>1, <1>2, <1>3
  DEF TypeOK, ControlTypes, DataTypes, OtherTypes, PieceTypes

-----------------------------------------------------------------------------
(* What is held for the conversation, and the answers of the alerts.       *)

LEMMA StageStep ==
    ASSUME TypeOK, ControlStep
    PROVE  /\ \A q \in Prompts : stage[q] # "none" => stage'[q] # "none"
           /\ \A q \in Prompts : stage[q] = "returned" /\ ~Crash => stage'[q] = "returned"
<1>1. stage \in [Prompts -> Stages] /\ \A q \in Prompts : stage[q] = "running" <=> q = live
  BY TypeParts DEF ControlTypes
<1>2. CASE UNCHANGED stage
  BY <1>2
<1>3. ASSUME NEW p \in Prompts, Enqueued(p) \/ Left(p) \/ Advanced(p)
      PROVE  /\ \A q \in Prompts : stage[q] # "none" => stage'[q] # "none"
             /\ \A q \in Prompts : stage[q] = "returned" /\ ~Crash => stage'[q] = "returned"
  <2>1. PICK s \in Stages \ {"none"} : stage' = [stage EXCEPT ![p] = s]
    BY <1>3 DEF Enqueued, Wait, Left, Advanced, MoveTo, Stages
  <2>2. stage[p] # "returned"
    BY <1>1, <1>3 DEF Enqueued, Left, Advanced, Moves, InFlight
  <2> QED
    BY <1>1, <2>1, <2>2
<1>4. CASE Emptied
  BY <1>4 DEF Emptied
<1> QED
  BY <1>2, <1>3, <1>4 DEF ControlStep

LEMMA HeldStep ==
    ASSUME TypeOK, SlotInv, GivenInv, HeldInv, [Next]_vars
    PROVE  HeldInv'
<1>0. PieceTypes /\ MembersStep /\ ControlStep
  BY TypedPieces, MembersSteps, ControlSteps
<1>1. /\ ToSet(Line) = ToSet(branch) \cup Handed /\ ToSet(Line) \subseteq Prompts
      /\ ToSet(turn.landed) \subseteq Prompts
  BY <1>0, Pieces, PromptsJoin
<1>2. ToSet(Line') = ToSet(branch') \cup Handed'
  <2>1. /\ Rest' \in Seq(Prompts) /\ branch' \in Seq(Prompts) /\ ToSet(Rest') = Handed'
        /\ Line' = branch' \o Rest'
    BY <1>0, NextRests DEF MembersStep, PieceTypes
  <2> QED
    BY <2>1, PromptsJoin
<1>3. \A q \in Handed' \cup ToSet(turn'.landed) : stage'[q] = "returned"
  <2>1. CASE Crash
    <3>1. PieceTypes' /\ Rest' = <<>> /\ turn' = NoFollowUps
      BY <2>1, CrashMembers DEF MembersStep
    <3>2. Handed' = {} /\ ToSet(turn'.landed) = {}
      BY <3>1, NextRests, NothingTaken
    <3> QED
      BY <3>2
  <2>2. CASE ~Crash
    BY <1>0, <1>1, <2>2, StageStep DEF MembersStep, HeldInv
  <2> QED
    BY <2>1, <2>2
<1>4. \A q \in ToSet(Line') : stage'[q] # "none"
  BY <1>0, <1>1, <1>2, <1>3, StageStep DEF MembersStep, HeldInv
<1> QED
  BY <1>0, <1>3, <1>4 DEF HeldInv, MembersStep

\* What the end of a turn saves or puts back was there.
LEMMA TurnEndKeeps ==
    ASSUME TypeOK, HeldInv, NEW p \in Prompts, TurnEnds(p)
    PROVE  ToSet(Line') = ToSet(Line)
<1>0. PieceTypes /\ PieceTypes'
  BY TypedPieces, TurnEndMembers DEF MembersStep
<1>1. PICK c, x, y \in Seq(Prompts) : Saves(c, x, y)
  BY TurnEndSaves
<1>2. /\ Land(branch, c) \in Seq(Prompts)
      /\ ToSet(Land(branch, c)) = ToSet(branch) \cup ToSet(c)
  BY <1>0, LandType DEF PieceTypes
<1>3. ToSet(branch') = ToSet(branch) \cup ToSet(c) \cup ToSet(x)
  BY <1>1, <1>2, LandType DEF Saves
<1>4. ToSet(Line) = ToSet(branch) \cup ToSet(c) \cup ToSet(x) \cup ToSet(y)
  <2>1. /\ ToSet(Rest) = Handed /\ ToSet(Line) = ToSet(branch) \cup Handed
        /\ Rest = c \o (x \o y)
    BY <1>0, <1>1, Rests, Pieces DEF Saves
  <2>2. ToSet(c \o (x \o y)) = ToSet(c) \cup ToSet(x) \cup ToSet(y)
    BY Chains
  <2> QED
    BY <2>1, <2>2
<1>5. ToSet(Line') = ToSet(branch') \cup ToSet(y)
  <2>1. Line' = branch' \o Rest' /\ Rest' = y /\ branch' \in Seq(Prompts)
    BY <1>0, <1>1, NextRests DEF Saves, PieceTypes
  <2> QED
    BY <2>1, PromptsJoin
<1> QED
  BY <1>3, <1>4, <1>5

\* Only answers that the user gives, or that are recovered, come to be under way.
LEMMA Arrivals ==
    ASSUME TypeOK, SlotInv, GivenInv, [Next]_vars, NEW q \in Resumes, InFlight(q)', ~InFlight(q)
    PROVE  \/ \E a \in Alerts : Answer(a) /\ q = <<a, given[a] + 1>>
           \/ q \in Recovered /\ Recover(q)
<1>0. /\ stage \in [Prompts -> Stages] /\ q \in Prompts /\ q \notin Events
      /\ \A p \in Prompts : stage[p] = "running" <=> p = live
  BY TypeParts, PromptKinds DEF ControlTypes
<1>1. ASSUME NEW p \in Prompts, Enqueued(p) \/ Left(p) \/ Advanced(p)
      PROVE  q = p /\ stage[p] = "none" /\ Enqueued(p)
  <2>1. PICK s : stage' = [stage EXCEPT ![p] = s]
    BY <1>1 DEF Enqueued, Wait, Left, Advanced, MoveTo
  <2>2. q = p
    BY <1>0, <2>1 DEF InFlight
  <2>3. ~Moves(p)
    BY <1>0, <2>2 DEF Moves
  <2> QED
    BY <1>0, <1>1, <2>2, <2>3 DEF Left, Advanced, Enqueued, InFlight
<1>2. ASSUME NEW e \in Events, Fire(e) PROVE FALSE
  BY <1>0, <1>1, <1>2, FireControls, PromptKinds
<1>3. ASSUME NEW a \in Alerts, Answer(a) PROVE q = <<a, given[a] + 1>>
  BY <1>1, <1>3, AnswerControls, PromptKinds DEF Resumes
<1>4. ASSUME NEW r \in Recovered, Recover(r) PROVE q = r
  BY <1>1, <1>4, RecoverControls, PromptKinds
<1>5. ASSUME NEW p \in Prompts,
             \/ Enter(p) \/ SettleTimeout(p) \/ Resolved(p) \/ Refused(p) \/ Spliced(p)
             \/ Restarted(p) \/ TurnEnds(p)
      PROVE  FALSE
  <2>1. stage[p] # "none"
    BY <1>5, TypeParts
    DEF Enter, SettleTimeout, Resolved, Refused, Spliced, Restarted, TurnEnds, ControlTypes
  <2>2. stage' # stage
    BY <1>0 DEF InFlight
  <2> QED
    BY <1>1, <1>5, <2>1, <2>2, EnterControls, ResolvedControls, InjectingControls, TurnEndControls
<1>6. CASE Crash
  BY <1>0, <1>6, CrashControls DEF Emptied
<1>7. CASE UNCHANGED stage
  BY <1>7 DEF InFlight
<1> QED
  BY <1>2, <1>3, <1>4, <1>5, <1>6, <1>7
  DEF Next, Dismiss, Reconcile, PrepareStep, Boundary, AttemptRestart, DeskSteps, DeskStarts,
      DeskEnds, actions, vars
\* Who throws is not under way any more.
LEMMA ThrownStage ==
    ASSUME TypeOK, NEW p \in Prompts, Throw(p)
    PROVE  ~InFlight(p)'
<1>1. stage \in [Prompts -> Stages]
  BY TypeParts DEF ControlTypes
<1> QED
  BY <1>1 DEF Throw, MoveTo, InFlight

LEMMA ThrowReopens ==
    ASSUME TypeOK, NEW p \in Prompts, Throw(p) \/ Return(p) \/ UNCHANGED alert,
           NEW a \in Alerts, alert[a] # "open", alert'[a] = "open"
    PROVE  Throw(p) /\ ~Saved(p) /\ p \in Answers /\ a = p[1]
<1>1. alert \in [Alerts -> {"open", "answered", "dismissed"}]
  BY TypeParts DEF OtherTypes
<1>2. Throw(p) /\ alert' = Reopened(p)
  BY DEF Throw, Return
<1> QED
  BY <1>1, <1>2, PromptKinds DEF Reopened

\* An alert is opened again for an answer that is not on its way any more.
LEMMA Reopens ==
    ASSUME TypeOK, SlotInv, GivenInv, HeldInv, [Next]_vars,
           NEW a \in Alerts, alert[a] # "open", alert'[a] = "open"
    PROVE  \E m \in 1..MaxAnswers : InFlight(<<a, m>>) /\ ~Held(<<a, m>>)'
<1>0. /\ alert \in [Alerts -> {"open", "answered", "dismissed"}]
      /\ \A p \in Prompts : stage[p] = "running" <=> p = live
      /\ PieceTypes /\ ToSet(Line) = ToSet(branch) \cup Handed
  BY TypeParts, TypedPieces, Pieces DEF OtherTypes, ControlTypes
<1>1. ASSUME NEW p \in Prompts,
             SettleTimeout(p) \/ Refused(p) \/ TurnEnds(p)
      PROVE  \E m \in 1..MaxAnswers : InFlight(<<a, m>>) /\ ~Held(<<a, m>>)'
  <2>1. Throw(p) \/ Return(p) \/ UNCHANGED alert
    BY <1>1 DEF SettleTimeout, Refused, TurnEnds, ContinueTurn
  <2>2. Throw(p) /\ ~Saved(p) /\ p \in Answers /\ a = p[1]
    BY <2>1, ThrowReopens
  <2>3. InFlight(p) /\ stage[p] # "returned"
    BY <1>0, <1>1 DEF SettleTimeout, Refused, TurnEnds, InFlight
  <2>4. p \notin ToSet(Line)
    BY <1>0, <2>2, <2>3 DEF HeldInv, Saved
  <2>5. ToSet(Line') = ToSet(Line)
    <3>1. CASE TurnEnds(p)
      BY <3>1, TurnEndKeeps
    <3>2. CASE UNCHANGED <<branch, turn, queue>>
      BY <3>2 DEF Line
    <3> QED
      BY <1>1, <3>1, <3>2 DEF SettleTimeout, Refused
  <2>6. ~Held(p)'
    BY <2>2, <2>4, <2>5, ThrownStage DEF Held
  <2>7. p[2] \in 1..MaxAnswers /\ p = <<a, p[2]>>
    BY <2>2, PromptKinds
  <2> QED
    BY <2>3, <2>6, <2>7
<1>2. ASSUME NEW p \in Prompts, Return(p) \/ UNCHANGED alert
      PROVE  FALSE
  BY <1>2 DEF Return
<1>3. ASSUME NEW p \in Prompts, Inject(p) PROVE FALSE
  BY <1>3 DEF Inject, Restart, Return
<1>4. ASSUME NEW e \in Events, Fire(e) PROVE FALSE
  BY <1>2, <1>3, <1>4, PromptKinds DEF Fire, Return
<1>5. ASSUME NEW b \in Alerts, Answer(b) \/ Dismiss(b) PROVE FALSE
  BY <1>0, <1>5 DEF Answer, Dismiss
<1>6. ASSUME NEW p \in Prompts, Enter(p) \/ Resolved(p) \/ Spliced(p) \/ Restarted(p) PROVE FALSE
  BY <1>3, <1>6 DEF Enter, Resolved, Spliced, Restarted, Restart, Return
<1>7. CASE UNCHANGED alert
  BY <1>7
<1> QED
  BY <1>1, <1>4, <1>5, <1>6, <1>7
  DEF Next, Recover, Reconcile, PrepareStep, Boundary, AttemptRestart, DeskSteps, DeskStarts,
      DeskEnds, Crash, disk, vars

LEMMA AnswerStep ==
    ASSUME TypeOK, SlotInv, GivenInv, HeldInv, AnswerInv, [Next]_vars
    PROVE  AnswerInv'
<1>0. PieceTypes /\ MembersStep /\ ToSet(Line) = ToSet(branch) \cup Handed
      /\ ToSet(turn.landed) \subseteq ToSet(branch)
  BY TypedPieces, Pieces, MembersSteps DEF HeldInv
<1>1. ToSet(Line') = ToSet(branch') \cup Handed'
  <2>1. /\ Rest' \in Seq(Prompts) /\ branch' \in Seq(Prompts) /\ ToSet(Rest') = Handed'
        /\ Line' = branch' \o Rest'
    BY <1>0, NextRests DEF MembersStep, PieceTypes
  <2> QED
    BY <2>1, PromptsJoin
<1>2. ASSUME NEW a \in Alerts, NEW m \in 1..MaxAnswers, Held(<<a, m>>)'
      PROVE  Held(<<a, m>>) \/ (Answer(a) /\ m = given[a] + 1)
  <2> DEFINE q == <<a, m>>
  <2>0. q \in Resumes /\ q \notin Events /\ q \notin Recovered
    BY PromptKinds
  <2>1. CASE q \in ToSet(Line')
    BY <1>0, <1>1, <2>0, <2>1 DEF MembersStep, Enters, Moves, Held
  <2>2. CASE InFlight(q)' /\ ~InFlight(q)
    <3>1. PICK b \in Alerts : Answer(b) /\ q = <<b, given[b] + 1>>
      BY <2>0, <2>2, Arrivals
    <3>2. a = b /\ m = given[b] + 1
      BY <3>1
    <3> QED
      BY <3>1, <3>2
  <2> QED
    BY <1>2, <2>1, <2>2 DEF Held
<1>3. ASSUME NEW a \in Alerts, NEW m \in 1..MaxAnswers, Held(<<a, m>>)'
      PROVE  alert'[a] # "open" /\ \A n \in 1..MaxAnswers : Held(<<a, n>>)' => m = n
  <2>1. CASE Answer(a)
    <3>1. alert[a] = "open" /\ alert'[a] = "answered"
      BY <2>1, TypeParts DEF Answer, OtherTypes
    <3>2. \A n \in 1..MaxAnswers : ~Held(<<a, n>>)
      BY <3>1 DEF AnswerInv
    <3> QED
      BY <1>2, <1>3, <3>1, <3>2
  <2>2. CASE ~Answer(a)
    <3>1. \A n \in 1..MaxAnswers : Held(<<a, n>>)' => Held(<<a, n>>)
      BY <1>2, <2>2
    <3>2. alert[a] # "open" /\ \A n \in 1..MaxAnswers : Held(<<a, n>>) => m = n
      BY <1>3, <3>1 DEF AnswerInv
    <3>3. alert'[a] # "open"
      <4> SUFFICES ASSUME alert'[a] = "open" PROVE FALSE
        OBVIOUS
      <4>1. PICK n \in 1..MaxAnswers : InFlight(<<a, n>>) /\ ~Held(<<a, n>>)'
        BY <3>2, Reopens
      <4>2. m = n
        BY <3>2, <4>1 DEF Held
      <4> QED
        BY <1>3, <4>1, <4>2
    <3> QED
      BY <3>1, <3>2, <3>3
  <2> QED
    BY <2>1, <2>2
<1> QED
  BY <1>3 DEF AnswerInv

-----------------------------------------------------------------------------
(* Interactive turns, and the records of recovered answers.                *)

\* A record goes for an answer that the conversation has.
LEMMA NoteStep ==
    ASSUME TypeOK, [Next]_vars, NEW r \in Recovered, r \in note, r \notin note'
    PROVE  Saved(r)
<1>1. ASSUME NEW p \in Prompts, Throw(p) PROVE Saved(r)
  BY <1>1 DEF Throw, StillRecorded
<1>2. ASSUME NEW p \in Prompts, Return(p) \/ Inject(p) PROVE FALSE
  BY <1>2 DEF Inject, Restart, Return
<1>3. ASSUME NEW e \in Events, Fire(e) PROVE FALSE
  BY <1>2, <1>3, PromptKinds DEF Fire
<1>4. ASSUME NEW p \in Prompts, Enter(p) \/ Resolved(p) \/ Spliced(p) \/ Restarted(p) PROVE FALSE
  BY <1>2, <1>4 DEF Enter, Resolved, Spliced, Restarted, Restart
<1>5. ASSUME NEW p \in Prompts, SettleTimeout(p) \/ Refused(p) \/ TurnEnds(p) PROVE Saved(r)
  BY <1>1, <1>2, <1>5 DEF SettleTimeout, Refused, TurnEnds, ContinueTurn
<1>6. ASSUME NEW q \in Recovered, Recover(q) \/ Reconcile(q) PROVE Saved(r)
  BY <1>6 DEF Recover, Reconcile
<1>7. CASE UNCHANGED note
  BY <1>7
<1> QED
  BY <1>3, <1>4, <1>5, <1>6, <1>7
  DEF Next, Answer, Dismiss, PrepareStep, Boundary, AttemptRestart, DeskSteps, DeskStarts,
      DeskEnds, Crash, disk, vars

\* An interactive turn that runs excludes those of automations.
DeskAlone == desk # "none" => status = "running" /\ live = None

LEMMA BeginAlone ==
    ASSUME NEW kind, NEW b, Begin(kind, b), UNCHANGED live, ~intruded'
    PROVE  DeskAlone' /\ ~intruded /\ live = None
  BY DEF Begin, DeskAlone

LEMMA DeskAloneStep ==
    ASSUME TypeOK, DeskAlone, [Next]_vars, ~intruded'
    PROVE  DeskAlone' /\ ~intruded
<1>0. status \in {"idle", "running"} /\ intruded \in BOOLEAN /\ None \notin Prompts
  BY TypeParts, PromptKinds DEF OtherTypes
<1>1. CASE UNCHANGED <<desk, status, live, intruded>>
  BY <1>1 DEF DeskAlone
<1>2. ASSUME NEW p, Restart(p), UNCHANGED live PROVE DeskAlone' /\ ~intruded
  BY <1>2, BeginAlone DEF Restart
<1>3. ASSUME NEW p, Inject(p), UNCHANGED live PROVE DeskAlone' /\ ~intruded
  BY <1>1, <1>2, <1>3 DEF Inject
<1>4. CASE desk = "none" /\ UNCHANGED <<desk, intruded>>
  BY <1>4 DEF DeskAlone
<1>5. CASE desk' = "none" /\ UNCHANGED intruded
  BY <1>5 DEF DeskAlone
<1>6. CASE status = "idle" /\ UNCHANGED <<desk, intruded>>
  BY <1>4, <1>6 DEF DeskAlone
<1>7. CASE live # None /\ UNCHANGED <<desk, intruded>>
  BY <1>4, <1>7 DEF DeskAlone
<1>8. ASSUME NEW e \in Events, Fire(e) PROVE DeskAlone' /\ ~intruded
  <2>1. CASE Inject(e) /\ UNCHANGED live
    BY <1>3, <2>1
  <2>2. CASE UNCHANGED <<desk, status, live, intruded>>
    BY <1>1, <2>2
  <2>3. CASE status = "idle" /\ UNCHANGED <<desk, intruded>>
    BY <1>6, <2>3
  <2> QED
    BY <1>8, <2>1, <2>2, <2>3 DEF Fire
<1>9. ASSUME NEW p \in Prompts, Enter(p) PROVE DeskAlone' /\ ~intruded
  <2>1. CASE Inject(p) /\ UNCHANGED live
    BY <1>3, <2>1
  <2>2. CASE desk = "none" /\ UNCHANGED <<desk, intruded>>
    BY <1>4, <2>2
  <2>3. CASE status = "idle" /\ UNCHANGED <<desk, intruded>>
    BY <1>6, <2>3
  <2> QED
    BY <1>9, <2>1, <2>2, <2>3 DEF Enter
<1>10. ASSUME NEW p \in Prompts, Resolved(p) PROVE DeskAlone' /\ ~intruded
  BY <1>3, <1>4, <1>10 DEF Resolved
<1>11. ASSUME NEW p \in Prompts, Restarted(p) PROVE DeskAlone' /\ ~intruded
  BY <1>2, <1>11 DEF Restarted
<1>12. ASSUME NEW p \in Prompts, TurnEnds(p) PROVE DeskAlone' /\ ~intruded
  BY <1>0, <1>7, <1>12 DEF TurnEnds, history
<1>13. ASSUME NEW kind, DeskStarts(kind) PROVE DeskAlone' /\ ~intruded
  BY <1>13, BeginAlone DEF DeskStarts
<1>14. ASSUME NEW s, DeskEnds(s) PROVE DeskAlone' /\ ~intruded
  BY <1>5, <1>14 DEF DeskEnds, history
<1>15. CASE Crash
  BY <1>5, <1>15 DEF Crash
<1> QED
  BY <1>1, <1>8, <1>9, <1>10, <1>11, <1>12, <1>13, <1>14, <1>15
  DEF Next, Answer, Dismiss, Recover, Reconcile, SettleTimeout, Refused, Spliced, PrepareStep,
      Boundary, AttemptRestart, DeskSteps, history, vars

Owed == Handed \cup ToSet(turn.landed)

LEMMA OwedStep ==
    ASSUME TypeOK, HeldInv,
           PrepareStep \/ Boundary \/ AttemptRestart \/ \E p \in Prompts : TurnEnds(p)
    PROVE  Owed' \subseteq Owed /\ live # None /\ UNCHANGED <<desk, intruded>>
<1>0. PieceTypes /\ turn.landed \in Seq(Prompts) /\ None \notin Prompts
      /\ Rest \in Seq(Prompts) /\ ToSet(Rest) = Handed
  BY TypedPieces, Pieces, Rests, PromptKinds
<1>1. CASE PrepareStep
  BY <1>1, PrepareMembers DEF Owed, PrepareStep, history
<1>2. ASSUME NEW c \in Seq(Prompts), NEW x \in Seq(Prompts), NEW y \in Seq(Prompts),
             PieceTypes', Saves(c, x, y)
      PROVE  /\ Handed' = ToSet(y)
             /\ Handed = ToSet(c) \cup ToSet(x) \cup ToSet(y)
  <2>1. ToSet(c \o (x \o y)) = ToSet(c) \cup ToSet(x) \cup ToSet(y)
    BY Chains
  <2> QED
    BY <1>0, <1>2, <2>1, NextRests DEF Saves
<1>3. CASE Boundary
  <2>1. PICK a, y \in Seq(Prompts) :
           Saves(a, <<>>, y) /\ turn'.landed = turn.landed \o a /\ PieceTypes'
    BY <1>3, BoundarySaves DEF MembersStep
  <2>2. Handed' = ToSet(y) /\ Handed = ToSet(a) \cup ToSet(y)
    <3> DEFINE none == <<>>
    <3>1. none \in Seq(Prompts) /\ ToSet(none) = {} /\ Saves(a, none, y)
      BY <2>1, PromptsJoin
    <3> HIDE DEF none
    <3>2. Handed' = ToSet(y) /\ Handed = ToSet(a) \cup ToSet(none) \cup ToSet(y)
      BY <1>2, <2>1, <3>1
    <3> QED
      BY <3>1, <3>2
  <2>3. ToSet(turn'.landed) = ToSet(turn.landed) \cup ToSet(a)
    BY <1>0, <2>1, PromptsJoin
  <2> QED
    BY <1>3, <2>2, <2>3 DEF Owed, Boundary, history
<1>4. CASE AttemptRestart
  <2>1. Rest' = turn.landed \o Rest /\ turn' = NoFollowUps /\ PieceTypes'
    BY <1>4, RetryMembers DEF MembersStep
  <2>2. ToSet(Rest') = ToSet(turn.landed) \cup Handed
    BY <1>0, <2>1, PromptsJoin
  <2>3. Handed' = ToSet(turn.landed) \cup Handed /\ ToSet(turn'.landed) = {}
    BY <2>1, <2>2, NextRests, NothingTaken
  <2> QED
    BY <1>4, <2>3 DEF Owed, AttemptRestart, history
<1>5. ASSUME NEW p \in Prompts, TurnEnds(p) PROVE Owed' \subseteq Owed
  <2>1. PICK c, x, y \in Seq(Prompts) : Saves(c, x, y)
    BY <1>5, TurnEndSaves
  <2>2. PieceTypes' /\ turn' = NoFollowUps
    BY <1>5, TurnEndSaves, TurnEndMembers DEF MembersStep
  <2> QED
    BY <1>2, <2>1, <2>2, NothingTaken DEF Owed
<1>6. ASSUME NEW p \in Prompts, TurnEnds(p) PROVE live # None /\ UNCHANGED <<desk, intruded>>
  BY <1>0, <1>6 DEF TurnEnds, history
<1> QED
  BY <1>1, <1>3, <1>4, <1>5, <1>6

LEMMA IntrudedStays ==
    ASSUME TypeOK, SlotInv, [Next]_vars, ~intruded'
    PROVE  ~intruded
<1>1. ASSUME NEW kind, NEW b, Begin(kind, b) PROVE ~intruded
  BY <1>1 DEF Begin
<1> QED
  BY <1>1, DataForms
  DEF DataStep, Quiet, Spoken, Joined, Restarts, Restart, Spliced, TurnEnds, DeskStarts, DeskSteps,
      DeskEnds, PrepareStep, Boundary, AttemptRestart, Crash, history

\* Whose prompts are where.
QueueInv ==
    /\ desk = "none" => ToSet(queue) \subseteq Events
    /\ ToSet(turn.landed) \cup ToSet(turn.failed) \cup ToSet(Taken) \subseteq Events
    /\ desk = "gui" => ToSet(queue) \subseteq ToSet(branch)

LEMMA QueueStep ==
    ASSUME TypeOK, SlotInv, HeldInv, DeskAlone, QueueInv, [Next]_vars
    PROVE  QueueInv'
<1>0. PieceTypes /\ MembersStep /\ None \notin Prompts
      /\ queue \in Seq(Prompts) /\ branch \in Seq(Prompts)
  BY TypedPieces, MembersSteps, PromptKinds DEF PieceTypes
<1>1. CASE Quiet
  BY <1>1 DEF Quiet, QueueInv, Taken
<1>2. ASSUME NEW p \in Prompts, Spoken(p) PROVE QueueInv'
  <2>1. /\ UNCHANGED <<turn, queue, desk>> /\ branch' = Append(branch, p)
    BY <1>2 DEF Spoken
  <2>2. ToSet(branch') = ToSet(branch) \cup {p}
    BY <1>0, <2>1, PromptsJoin
  <2> QED
    BY <2>1, <2>2 DEF QueueInv, Taken
<1>3. ASSUME NEW e \in Events, Joined(e) PROVE QueueInv'
  <2>1. /\ UNCHANGED <<turn, branch, desk>> /\ queue' = Append(queue, e) /\ desk = "none"
    BY <1>3 DEF Joined, DeskAlone
  <2>2. ToSet(queue') = ToSet(queue) \cup {e}
    BY <1>0, <2>1, PromptsJoin, PromptKinds
  <2> QED
    BY <2>1, <2>2 DEF QueueInv, Taken
<1>4. CASE turn' = turn /\ queue' = <<>>
  BY <1>4, MembersOfEmpty DEF QueueInv, Taken
<1>5. ASSUME NEW p \in Prompts, Spliced(p) PROVE QueueInv'
  <2>1. /\ UNCHANGED <<turn, desk>> /\ queue' = Append(queue, p) /\ desk # "none"
        /\ branch' = IF desk = "gui" THEN Append(branch, p) ELSE branch
    BY <1>5 DEF Spliced
  <2>2. /\ ToSet(queue') = ToSet(queue) \cup {p}
        /\ ToSet(Append(branch, p)) = ToSet(branch) \cup {p}
    BY <1>0, <2>1, PromptsJoin
  <2> QED
    BY <2>1, <2>2 DEF QueueInv, Taken
<1>6. CASE PrepareStep \/ Boundary \/ AttemptRestart \/ \E p \in Prompts : TurnEnds(p)
  <2>1. Owed' \subseteq Owed /\ desk = "none" /\ desk' = desk
    BY <1>6, OwedStep DEF DeskAlone
  <2>2. Owed \subseteq Events
    BY <2>1 DEF Owed, Handed, QueueInv
  <2> QED
    BY <2>1, <2>2 DEF QueueInv, Owed, Handed, Taken
<1>7. CASE Crash
  <2>1. PieceTypes' /\ Rest' = <<>> /\ turn' = NoFollowUps
    BY <1>7, CrashMembers DEF MembersStep
  <2>2. Handed' = {} /\ ToSet(turn'.landed) = {}
    BY <2>1, NextRests, NothingTaken
  <2> QED
    BY <2>2 DEF QueueInv, Handed
<1> QED
  BY <1>1, <1>2, <1>3, <1>4, <1>5, <1>6, <1>7, DataForms
  DEF DataStep, Restarts, Restart, Begin, DeskStarts, DeskSteps, DeskEnds

NoteInv == \A r \in Recovered : stage[r] # "none" => r \in note \/ Saved(r)

LEMMA NotesStep ==
    ASSUME TypeOK, SlotInv, GivenInv, HeldInv, QueueInv, NoteInv, [Next]_vars
    PROVE  NoteInv'
<1> SUFFICES ASSUME NEW r \in Recovered, stage'[r] # "none"
             PROVE  r \in note' \/ r \in ToSet(branch')
  BY DEF NoteInv, Saved
<1>0. r \in Resumes /\ r \in Prompts /\ r \notin Events /\ stage \in [Prompts -> Stages]
  BY PromptKinds, TypeParts DEF ControlTypes
<1>1. CASE stage[r] = "none"
  <2>1. ~InFlight(r) /\ ~Moves(r)
    BY <1>0, <1>1 DEF InFlight, Moves
  <2>2. ASSUME InFlight(r)' PROVE r \in note'
    <3>1. \A a \in Alerts : Answer(a) => <<a, given[a] + 1>> # r
      BY AnswerControls, PromptKinds
    <3>2. \/ \E a \in Alerts : Answer(a) /\ r = <<a, given[a] + 1>>
          \/ Recover(r)
      BY <1>0, <2>1, <2>2, Arrivals
    <3> QED
      BY <3>1, <3>2 DEF Recover
  <2>3. CASE Emptied
    <3>1. r \in note
      BY <1>0, <1>1, <2>3 DEF Emptied
    <3> QED
      BY <2>3, <3>1 DEF Emptied, Crash, disk
  <2>4. ASSUME NEW p \in Prompts, Enqueued(p) \/ Left(p) \/ Advanced(p)
        PROVE  InFlight(r)'
    <3>1. PICK s : stage' = [stage EXCEPT ![p] = s]
      BY <2>4 DEF Enqueued, Wait, Left, Advanced, MoveTo
    <3>2. r = p
      BY <1>0, <1>1, <3>1
    <3>3. Enqueued(r)
      BY <2>1, <2>4, <3>2 DEF Left, Advanced
    <3> QED
      BY <1>0, <3>3 DEF Enqueued, Wait, MoveTo, InFlight
  <2> QED
    BY <1>1, <2>2, <2>3, <2>4, ControlSteps DEF ControlStep
<1>2. CASE stage[r] # "none"
  <2>1. r \in note \/ r \in ToSet(branch)
    BY <1>2 DEF NoteInv, Saved
  <2>2. r \in ToSet(branch) => r \in ToSet(branch')
    BY <1>0, MembersSteps DEF MembersStep, QueueInv
  <2>3. r \in note => r \in note' \/ r \in ToSet(branch)
    BY NoteStep DEF Saved
  <2> QED
    BY <2>1, <2>2, <2>3
<1> QED
  BY <1>1, <1>2

LEMMA DeskParts == DeskInv <=> DeskAlone /\ QueueInv /\ NoteInv
  BY DEF DeskInv, DeskAlone, QueueInv, NoteInv

LEMMA DeskStep ==
    ASSUME TypeOK, SlotInv, GivenInv, HeldInv, DeskInv, [Next]_vars, ~intruded'
    PROVE  DeskInv'
<1>1. DeskAlone /\ QueueInv /\ NoteInv
  BY DeskParts
<1>2. DeskAlone' /\ QueueInv' /\ NoteInv'
  BY <1>1, DeskAloneStep, QueueStep, NotesStep
<1> QED
  BY <1>2 DEF DeskInv, DeskAlone, QueueInv, NoteInv

-----------------------------------------------------------------------------
(* Which of two prompts comes first.                                       *)

LEMMA PromptsOnly ==
    /\ \A s \in Seq(Prompts) : \A S :
         /\ Only(s, S) \in Seq(Prompts) /\ ToSet(Only(s, S)) = ToSet(s) \cap S
         /\ \A R : Only(Only(s, S), R) = Only(s, S \cap R)
         /\ \A R : ToSet(s) \cap S = ToSet(s) \cap R => Only(s, S) = Only(s, R)
    /\ \A s, t \in Seq(Prompts) : \A S : Only(s \o t, S) = Only(s, S) \o Only(t, S)
<1>1. ASSUME NEW s \in Seq(Prompts), NEW S
      PROVE  /\ Only(s, S) \in Seq(Prompts) /\ ToSet(Only(s, S)) = ToSet(s) \cap S
             /\ \A R : Only(Only(s, S), R) = Only(s, S \cap R)
             /\ \A R : ToSet(s) \cap S = ToSet(s) \cap R => Only(s, S) = Only(s, R)
  <2>1. Only(s, S) \in Seq(Prompts) /\ ToSet(Only(s, S)) = ToSet(s) \cap S
    BY OnlyMembers
  <2>2. \A R : Only(Only(s, S), R) = Only(s, S \cap R)
    BY OnlyOnly
  <2>3. \A R : ToSet(s) \cap S = ToSet(s) \cap R => Only(s, S) = Only(s, R)
    BY OnlySame
  <2> QED
    BY <2>1, <2>2, <2>3
<1>2. ASSUME NEW s \in Seq(Prompts), NEW t \in Seq(Prompts), NEW S
      PROVE  Only(s \o t, S) = Only(s, S) \o Only(t, S)
  <2>1. \A u \in Seq(Prompts) : Only(s \o u, S) = Only(s, S) \o Only(u, S)
    BY OnlyConcat
  <2> QED
    BY <2>1
<1> QED
  BY <1>1, <1>2

LEMMA OnlyTwice ==
    ASSUME NEW s \in Seq(Prompts), NEW P, NEW D
    PROVE  /\ ToSet(Only(s, P)) = ToSet(s) \cap P
           /\ Only(Only(s, P), D) = Only(s, P \cap D)
<1>1. ToSet(Only(s, P)) = ToSet(s) \cap P
  BY OnlyMembers
<1>2. Only(Only(s, P), D) = Only(s, P \cap D)
  BY OnlyOnly
<1> QED
  BY <1>1, <1>2

LEMMA OnlySplit ==
    ASSUME NEW s \in Seq(Prompts), NEW t \in Seq(Prompts)
    PROVE  \A S : Only(s \o t, S) = Only(s, S) \o Only(t, S)
<1> TAKE S
<1>1. \A u \in Seq(Prompts) : Only(s \o u, S) = Only(s, S) \o Only(u, S)
  BY OnlyConcat
<1> QED
  BY <1>1

LEMMA OnlyRegroups ==
    ASSUME NEW s \in Seq(Prompts), NEW t \in Seq(Prompts), NEW u \in Seq(Prompts)
    PROVE  \A R, S : (Only(s, R) \o Only(t, S)) \o Only(u, S)
                      = Only(s, R) \o (Only(t, S) \o Only(u, S))
<1> TAKE R, S
<1> DEFINE x == Only(s, R)
           y == Only(t, S)
           z == Only(u, S)
<1>1. x \in Seq(Prompts) /\ y \in Seq(Prompts) /\ z \in Seq(Prompts)
  BY OnlyMembers
<1> HIDE DEF x, y, z
<1>2. (x \o y) \o z = x \o (y \o z)
  BY <1>1, PromptsJoin, SMTT(30)
<1> QED
  BY <1>2 DEF x, y, z

LEMMA OnlyEqual ==
    ASSUME NEW s \in Seq(Prompts), NEW S, NEW R, ToSet(s) \cap S = ToSet(s) \cap R
    PROVE  Only(s, S) = Only(s, R)
  BY OnlySame

LEMMA HeadFacts ==
    ASSUME NEW X, NEW s \in Seq(X), s # <<>>
    PROVE  /\ Head(s) \in ToSet(s) /\ Head(s) = s[1]
           /\ \A t \in Seq(X) : s \o t # <<>> /\ Head(s \o t) = Head(s)
<1>1. Len(s) \in Nat /\ Len(s) # 0 /\ DOMAIN s = 1..Len(s)
  BY EmptySeq, LenProperties
<1>2. Head(s) = s[1] /\ 1 \in DOMAIN s
  BY <1>1
<1>3. ASSUME NEW t \in Seq(X) PROVE s \o t # <<>> /\ Head(s \o t) = Head(s)
  <2>1. /\ s \o t \in Seq(X) /\ Len(s \o t) = Len(s) + Len(t)
        /\ \A i \in 1..(Len(s) + Len(t)) :
             (s \o t)[i] = IF i <= Len(s) THEN s[i] ELSE t[i - Len(s)]
    BY ConcatProperties
  <2>2. Len(t) \in Nat
    BY LenProperties
  <2>3. (s \o t)[1] = s[1] /\ Len(s \o t) # 0
    BY <1>1, <2>1, <2>2
  <2>4. s \o t # <<>>
    BY <2>1, <2>3, EmptySeq
  <2> QED
    BY <1>2, <2>1, <2>3, <2>4
<1> QED
  BY <1>2, <1>3 DEF ToSet

\* Without the second the first is first.
LEMMA BeforeAlone ==
    ASSUME NEW p \in Prompts, NEW e \in Prompts, NEW s \in Seq(Prompts), e \notin ToSet(s)
    PROVE  Before(p, e, s)
<1> DEFINE o == Only(s, {p, e})
<1>1. o \in Seq(Prompts) /\ ToSet(o) \subseteq {p}
  BY OnlyMembers
<1> HIDE DEF o
<1>2. o # <<>> => Head(o) = p
  BY <1>1, HeadFacts
<1> QED
  BY <1>2 DEF Before, o

LEMMA BeforeParts ==
    ASSUME NEW p \in Prompts, NEW e \in Prompts, NEW s \in Seq(Prompts), NEW t \in Seq(Prompts)
    PROVE  /\ Before(p, e, s \o t) => Before(p, e, s)
           /\ Before(p, e, s) /\ p \in ToSet(s) => Before(p, e, s \o t)
<1> DEFINE o == Only(s, {p, e})
           r == Only(t, {p, e})
<1>1. /\ o \in Seq(Prompts) /\ r \in Seq(Prompts)
      /\ ToSet(o) = ToSet(s) \cap {p, e} /\ Only(s \o t, {p, e}) = o \o r
  <2> DEFINE D == {p, e}
  <2> HIDE DEF D
  <2>1. /\ Only(s, D) \in Seq(Prompts) /\ Only(t, D) \in Seq(Prompts)
        /\ ToSet(Only(s, D)) = ToSet(s) \cap D
    BY PromptsOnly
  <2>2. Only(s \o t, D) = Only(s, D) \o Only(t, D)
    BY PromptsOnly, SMTT(30)
  <2> QED
    BY <2>1, <2>2 DEF D
<1> HIDE DEF o, r
<1>2. o # <<>> => o \o r # <<>> /\ Head(o \o r) = Head(o)
  BY <1>1, HeadFacts
<1>3. p \in ToSet(s) => o # <<>>
  BY <1>1, MembersOfEmpty
<1> QED
  BY <1>1, <1>2, <1>3 DEF Before, o

LEMMA AppendedPrompt ==
    ASSUME NEW s \in Seq(Prompts), NEW x \in Prompts
    PROVE  Append(s, x) = s \o <<x>> /\ <<x>> \in Seq(Prompts)
<1>1. Append(s, x) = s \o <<x>>
  BY AppendIsConcat
<1>2. <<x>> \in Seq(Prompts)
  OBVIOUS
<1> QED
  BY <1>1, <1>2

LEMMA BeforePosition ==
    ASSUME NEW p \in Prompts, NEW e \in Prompts, p # e, NEW s \in Seq(Prompts), Before(p, e, s),
           NEW i \in DOMAIN s, s[i] = e
    PROVE  \E j \in 1..(i - 1) : s[j] = p
<1>1. i \in 1..Len(s) /\ Len(s) \in Nat /\ \A k \in 1..Len(s) : s[k] \in Prompts
  BY LenProperties
<1> DEFINE u == SubSeq(s, 1, i)
           v == SubSeq(s, i + 1, Len(s))
<1>2. u \in Seq(Prompts) /\ v \in Seq(Prompts) /\ u \o v = s
  <2>1. i \in 0..Len(s)
    BY <1>1
  <2>2. \A k \in 0..Len(s) :
          /\ SubSeq(s, 1, k) \in Seq(Prompts) /\ SubSeq(s, k + 1, Len(s)) \in Seq(Prompts)
          /\ SubSeq(s, 1, k) \o SubSeq(s, k + 1, Len(s)) = s
    BY Halves
  <2> QED
    BY <2>1, <2>2
<1>3. Len(u) = i /\ DOMAIN u = 1..i /\ \A k \in 1..i : u[k] = s[k]
  <2>1. 1 \in Int /\ i \in Int /\ 1 <= i /\ \A k \in 1..i : s[k] \in Prompts
    BY <1>1
  <2>2. Len(u) = i /\ \A k \in 1..(i - 1 + 1) : u[k] = s[1 + k - 1]
    BY <2>1, SubSeqProperties
  <2>3. DOMAIN u = 1..Len(u)
    BY <1>2, LenProperties
  <2> QED
    BY <1>1, <2>2, <2>3
<1> HIDE DEF u, v
<1>4. Before(p, e, u)
  BY <1>2, BeforeParts
<1>5. e \in ToSet(u)
  <2>1. i \in DOMAIN u /\ u[i] = e
    BY <1>1, <1>3
  <2> QED
    BY <2>1 DEF ToSet
<1> DEFINE o == Only(u, {p, e})
<1>6. o \in Seq(Prompts) /\ ToSet(o) = ToSet(u) \cap {p, e}
  BY <1>2, OnlyMembers
<1> HIDE DEF o
<1>7. o # <<>>
  BY <1>5, <1>6, MembersOfEmpty
<1>8. Head(o) = p /\ Head(o) \in ToSet(o)
  BY <1>4, <1>6, <1>7, HeadFacts DEF Before, o
<1>9. PICK j \in 1..i : u[j] = p
  BY <1>3, <1>6, <1>8 DEF ToSet
<1>10. j # i /\ s[j] = p
  BY <1>1, <1>3, <1>9
<1> QED
  BY <1>1, <1>9, <1>10

-----------------------------------------------------------------------------
(* Events that wait behind answers.                                        *)

LEMMA AheadFrom ==
    ASSUME TypeOK, [Next]_vars, NEW e \in Events, NEW p \in ahead'[e]
    PROVE  p \in ahead[e] \/ (Fire(e) /\ p \in OnTheWay)
<1>1. ASSUME NEW f \in Events, Fire(f) PROVE p \in ahead[e] \/ (Fire(e) /\ p \in OnTheWay)
  <2>1. ahead \in [Events -> SUBSET Resumes] /\ ahead' = [ahead EXCEPT ![f] = OnTheWay]
    BY <1>1, TypeParts DEF Fire, OtherTypes
  <2>2. CASE f = e
    BY <1>1, <2>1, <2>2
  <2>3. CASE f # e
    BY <2>1, <2>3
  <2> QED
    BY <2>2, <2>3
<1>2. CASE UNCHANGED ahead
  BY <1>2
<1> QED
  BY <1>1, <1>2
  DEF Next, Answer, Dismiss, Recover, Reconcile, Enter, SettleTimeout, Resolved, Refused, Spliced,
      Restarted, TurnEnds, PrepareStep, Boundary, AttemptRestart, DeskStarts, DeskSteps, DeskEnds,
      Crash, history, vars

\* Who waits behind another keeps doing so while that one is in the order.
LEMMA BehindStep ==
    ASSUME TypeOK, ControlStep, NEW p \in Resumes, stage[p] # "none", NEW e, p \in ToSet(tails')
    PROVE  p \in ToSet(tails) /\ (Behind(p, e) => Behind(p, e)')
<1>0. ControlTypes /\ p \in Prompts /\ p \notin Events
  BY TypeParts, PromptKinds
<1>1. CASE UNCHANGED tails
  BY <1>1 DEF Behind
<1>2. ASSUME NEW q \in Prompts, Enqueued(q)
      PROVE  p \in ToSet(tails) /\ (Behind(p, e) => Behind(p, e)')
  <2>1. q \notin ToSet(tails) /\ tails' = Append(tails, q) /\ q # p
    BY <1>0, <1>2 DEF Enqueued, Wait
  <2>2. ToSet(tails') = ToSet(tails) \cup {q} /\ \A x, y : Behind(x, y) => Behind(x, y)'
    BY <1>0, <2>1, Queueing
  <2> QED
    BY <2>1, <2>2
<1>3. ASSUME NEW q \in Prompts, Left(q)
      PROVE  p \in ToSet(tails) /\ (Behind(p, e) => Behind(p, e)')
  <2>1. /\ ToSet(tails') = ToSet(tails) \ {q}
        /\ \A x, y : Behind(x, y) /\ x # q => Behind(x, y)'
    BY <1>0, <1>3, Leaving DEF Left
  <2> QED
    BY <2>1
<1>4. CASE Emptied
  BY <1>4, MembersOfEmpty DEF Emptied
<1> QED
  BY <1>1, <1>2, <1>3, <1>4 DEF ControlStep, Advanced

LEMMA BehindWaits ==
    ASSUME TypeOK, NEW p, NEW e, Behind(p, e)
    PROVE  e \in ToSet(tails) /\ ~OwnsSlot(e)
<1>0. ControlTypes
  BY TypeParts
<1>1. PICK i, j \in 1..Len(tails) : i < j /\ tails[i] = p /\ tails[j] = e
  BY <1>0, Order DEF Behind
<1>2. Len(tails) \in Nat /\ j # 1 /\ 1 \in 1..Len(tails)
  BY <1>0, <1>1, Order
<1> QED
  BY <1>0, <1>1, <1>2, Order

\* The conversation grows, but for a turn that starts over.
LEMMA BranchGrows ==
    ASSUME TypeOK, SlotInv, HeldInv, [Next]_vars
    PROVE  AttemptRestart \/ \E z \in Seq(Prompts) : branch' = branch \o z
<1>0. /\ branch \in Seq(Prompts) /\ queue \in Seq(Prompts) /\ <<>> \in Seq(Prompts)
      /\ branch = branch \o <<>>
  BY TypedPieces, PromptsJoin DEF PieceTypes
<1>1. CASE branch' = branch
  BY <1>0, <1>1
<1>2. ASSUME NEW p \in Prompts, branch' = Append(branch, p)
      PROVE  \E z \in Seq(Prompts) : branch' = branch \o z
  BY <1>0, <1>2, AppendedPrompt
<1>3. \E z \in Seq(Prompts) : Kept = branch \o z
  BY <1>0 DEF Kept
<1>4. ASSUME NEW p \in Prompts, branch' = Append(Kept, p)
      PROVE  \E z \in Seq(Prompts) : branch' = branch \o z
  <2>1. PICK z \in Seq(Prompts) : Kept = branch \o z
    BY <1>3
  <2>2. Kept \in Seq(Prompts)
    BY KeptType
  <2>3. branch' = Kept \o <<p>> /\ <<p>> \in Seq(Prompts)
    BY <1>4, <2>2, AppendedPrompt
  <2> DEFINE o == <<p>>
  <2>4. o \in Seq(Prompts) /\ branch' = (branch \o z) \o o
    BY <2>1, <2>3
  <2> HIDE DEF o
  <2>5. branch' = branch \o (z \o o) /\ z \o o \in Seq(Prompts)
    <3>1. branch \in Seq(Prompts) /\ z \in Seq(Prompts) /\ o \in Seq(Prompts)
      BY <1>0, <2>4
    <3>2. /\ \A s, t \in Seq(Prompts) : s \o t \in Seq(Prompts)
          /\ \A s, t, u \in Seq(Prompts) : (s \o t) \o u = s \o (t \o u)
      BY PromptsJoin
    <3>3. z \o o \in Seq(Prompts) /\ (branch \o z) \o o = branch \o (z \o o)
      BY <3>1, <3>2, Zenon
    <3> QED
      BY <2>4, <3>3
  <2> QED
    BY <2>5
<1>5. ASSUME NEW c \in Seq(Prompts), NEW x \in Seq(Prompts), branch' = Land(Land(branch, c), x)
      PROVE  \E z \in Seq(Prompts) : branch' = branch \o z
  <2> DEFINE u == Only(c, Prompts \ ToSet(branch))
             w == Only(x, Prompts \ ToSet(Land(branch, c)))
  <2>1. u \in Seq(Prompts) /\ w \in Seq(Prompts)
    BY OnlyMembers
  <2>2. branch' = (branch \o u) \o w
    BY <1>5 DEF Land
  <2> HIDE DEF u, w
  <2>3. (branch \o u) \o w = branch \o (u \o w) /\ u \o w \in Seq(Prompts)
    <3>1. branch \in Seq(Prompts)
      BY <1>0
    <3>2. /\ \A s, t \in Seq(Prompts) : s \o t \in Seq(Prompts)
          /\ \A s, t, v \in Seq(Prompts) : (s \o t) \o v = s \o (t \o v)
      BY PromptsJoin
    <3> QED
      BY <2>1, <3>1, <3>2, SMTT(30)
  <2>4. branch' = branch \o (u \o w)
    BY <2>2, <2>3
  <2> QED
    BY <2>3, <2>4
<1>6. ASSUME NEW p \in Prompts, TurnEnds(p)
      PROVE  \E z \in Seq(Prompts) : branch' = branch \o z
  BY <1>5, <1>6, TurnEndSaves DEF Saves
<1>7. CASE Boundary
  <2>1. PICK a, y \in Seq(Prompts) : Saves(a, <<>>, y)
    BY <1>7, BoundarySaves
  <2> DEFINE none == <<>>
  <2>2. none \in Seq(Prompts) /\ branch' = Land(Land(branch, a), none)
    BY <1>0, <2>1 DEF Saves
  <2> HIDE DEF none
  <2> QED
    BY <1>5, <2>2
<1>8. ASSUME NEW p \in Prompts, Restarts(p) \/ Spliced(p)
      PROVE  \E z \in Seq(Prompts) : branch' = branch \o z
  <2>1. CASE Restarts(p)
    <3>1. branch' = Append(Kept, p)
      BY <2>1 DEF Restarts, Restart, Begin
    <3> QED
      BY <1>4, <3>1
  <2>2. CASE Spliced(p)
    <3>1. branch' = branch \/ branch' = Append(branch, p)
      BY <2>2 DEF Spliced
    <3>2. CASE branch' = branch
      BY <1>0, <3>2
    <3>3. CASE branch' = Append(branch, p)
      BY <1>2, <3>3
    <3> QED
      BY <3>1, <3>2, <3>3
  <2> QED
    BY <1>8, <2>1, <2>2
<1>9. CASE branch' = Kept
  BY <1>3, <1>9
<1> QED
  BY <1>1, <1>2, <1>6, <1>7, <1>8, <1>9, DataForms
  DEF DataStep, Quiet, Spoken, Joined, DeskStarts, DeskSteps, DeskEnds, Begin, PrepareStep, Crash

\* An answer that is before an event, and done with, stays before it.
LEMMA BeforeStep ==
    ASSUME TypeOK, SlotInv, HeldInv, DeskAlone, QueueInv, [Next]_vars,
           NEW p \in Resumes, NEW e \in Events, p \in ToSet(Line), p \in ToSet(Line'),
           Before(p, e, Line)
    PROVE  Before(p, e, Line')
<1>0. /\ PieceTypes /\ PieceTypes' /\ p \in Prompts /\ e \in Prompts /\ p \notin Events
      /\ None \notin Prompts /\ desk \in {"none", "gui", "server"}
  BY TypedPieces, MembersSteps, PromptKinds, TypeParts DEF MembersStep, OtherTypes
<1>1. /\ branch \in Seq(Prompts) /\ queue \in Seq(Prompts) /\ branch' \in Seq(Prompts)
      /\ Rest \in Seq(Prompts) /\ Line = branch \o Rest /\ ToSet(Rest) = Handed
      /\ Line \in Seq(Prompts) /\ ToSet(Line) = ToSet(branch) \cup Handed
      /\ Rest' \in Seq(Prompts) /\ Line' = branch' \o Rest'
  BY <1>0, Rests, NextRests, Pieces DEF PieceTypes
<1>2. Before(p, e, branch)
  BY <1>0, <1>1, BeforeParts
<1>3. CASE p \in ToSet(branch) /\ ~AttemptRestart
  <2>1. PICK z \in Seq(Prompts) : branch' = branch \o z
    BY <1>3, BranchGrows
  <2>2. Before(p, e, branch') /\ p \in ToSet(branch')
    <3>1. Before(p, e, branch \o z)
      BY <1>0, <1>1, <1>2, <1>3, <2>1, BeforeParts
    <3>2. ToSet(branch \o z) = ToSet(branch) \cup ToSet(z)
      BY <1>1, PromptsJoin
    <3> QED
      BY <1>3, <2>1, <3>1, <3>2
  <2> QED
    BY <1>0, <1>1, <2>2, BeforeParts
<1>4. CASE AttemptRestart
  <2> DEFINE L == ToSet(turn.landed)
  <2>1. /\ branch' = Only(branch, Prompts \ L) /\ live # None
    BY <1>4, RetryMembers DEF AttemptRestart
  <2>2. p \in ToSet(branch) /\ p \notin L
    BY <1>0, <1>1, <2>1 DEF DeskAlone, QueueInv, Handed
  <2> DEFINE P == Prompts \ L
             D == {p, e}
  <2>a. branch' = Only(branch, P)
    BY <2>1
  <2> HIDE DEF P, D
  <2>b. /\ ToSet(branch') = ToSet(branch) \cap P
        /\ Only(branch', D) = Only(branch, P \cap D)
    <3>1. /\ ToSet(Only(branch, P)) = ToSet(branch) \cap P
          /\ Only(Only(branch, P), D) = Only(branch, P \cap D)
      <4>1. \A u, v : /\ ToSet(Only(branch, u)) = ToSet(branch) \cap u
                      /\ Only(Only(branch, u), v) = Only(branch, u \cap v)
        BY <1>1, OnlyTwice
      <4> QED
        BY <4>1
    <3> QED
      BY <2>a, <3>1
  <2> HIDE DEF L
  <2>3. /\ ToSet(branch') = ToSet(branch) \cap (Prompts \ L)
        /\ Only(branch', {p, e}) = Only(branch, (Prompts \ L) \cap {p, e})
    BY <2>b DEF P, D
  <2>4. Before(p, e, branch')
    <3>1. CASE e \in L
      BY <1>0, <1>1, <2>3, <3>1, BeforeAlone
    <3>2. CASE e \notin L
      <4>1. (Prompts \ L) \cap {p, e} = {p, e}
        BY <1>0, <2>2, <3>2
      <4> QED
        BY <1>2, <2>3, <4>1 DEF Before
    <3> QED
      BY <3>1, <3>2
  <2> QED
    BY <1>0, <1>1, <2>2, <2>3, <2>4, BeforeParts
<1>5. CASE p \notin ToSet(branch)
  <2>1. /\ p \in ToSet(queue) /\ desk = "server" /\ live = None /\ status = "running"
    BY <1>0, <1>1, <1>5 DEF QueueInv, DeskAlone, Handed
  <2>2. Rest = queue /\ turn = NoFollowUps /\ Line = branch \o queue /\ Kept = Line
    BY <1>1, <2>1, RestAlone, TypedPieces DEF Kept
  <2>3. CASE Line' = Line
    BY <2>3
  <2>4. ASSUME NEW q \in Prompts, Line' = Append(Line, q) PROVE Before(p, e, Line')
    <3> DEFINE o == <<q>>
    <3>1. Line' = Line \o o /\ o \in Seq(Prompts)
      BY <1>1, <2>4, AppendedPrompt
    <3> HIDE DEF o
    <3>2. Before(p, e, Line \o o)
      BY <1>0, <1>1, <3>1, BeforeParts
    <3> QED
      BY <3>1, <3>2
  <2>5. turn' = turn => Line' = branch' \o queue'
    BY <1>0, <1>1, <2>2, RestAlone
  <2>6. CASE Quiet
    BY <2>2, <2>3, <2>5, <2>6 DEF Quiet
  <2>7. ASSUME NEW q \in Prompts, Restarts(q) PROVE Before(p, e, Line')
    <3>1. branch' = Append(Line, q) /\ queue' = <<>> /\ turn' = turn
      BY <2>2, <2>7 DEF Restarts, Restart, Begin
    <3>2. Line' = Append(Line, q)
      BY <1>1, <2>5, <3>1, PromptsJoin
    <3> QED
      BY <2>4, <3>2
  <2>8. ASSUME NEW q \in Prompts, Spliced(q) PROVE Before(p, e, Line')
    <3>1. branch' = branch /\ queue' = Append(queue, q) /\ turn' = turn
      BY <2>1, <2>8 DEF Spliced
    <3> DEFINE o == <<q>>
    <3>2. queue' = queue \o o /\ o \in Seq(Prompts) /\ Append(Line, q) = Line \o o
      BY <1>1, <3>1, AppendedPrompt
    <3> HIDE DEF o
    <3>a. Line' = branch \o (queue \o o)
      BY <2>5, <3>1, <3>2
    <3>b. (branch \o queue) \o o = branch \o (queue \o o)
      <4>1. \A u, v, w \in Seq(Prompts) : (u \o v) \o w = u \o (v \o w)
        BY PromptsJoin
      <4>2. branch \in Seq(Prompts) /\ queue \in Seq(Prompts) /\ o \in Seq(Prompts)
        BY <1>1, <3>2
      <4> QED
        BY <4>1, <4>2
    <3>3. Line' = (branch \o queue) \o o
      BY <3>a, <3>b
    <3>4. Line' = Append(Line, q)
      BY <2>2, <3>2, <3>3
    <3> QED
      BY <2>4, <3>4
  <2>9. CASE DeskSteps \/ \E s \in {"idle", "running"} : DeskEnds(s)
    <3>1. branch' = Line /\ queue' = <<>> /\ turn' = turn
      BY <2>2, <2>9 DEF DeskSteps, DeskEnds
    <3>2. Line' = Line
      BY <1>1, <2>5, <3>1, PromptsJoin
    <3> QED
      BY <2>3, <3>2
  <2>10. ~Crash
    <3> SUFFICES ASSUME Crash PROVE FALSE
      OBVIOUS
    <3>1. branch' = branch /\ Rest' = <<>>
      BY CrashMembers
    <3>2. Line' = branch
      BY <1>1, <3>1, PromptsJoin
    <3> QED
      BY <1>5, <3>2
  <2>11. /\ ~PrepareStep /\ ~Boundary /\ ~AttemptRestart
         /\ \A q \in Prompts : ~TurnEnds(q) /\ ~Spoken(q)
         /\ \A f \in Events : ~Joined(f)
         /\ \A kind \in {"gui", "server"} : ~DeskStarts(kind)
    BY <1>0, <2>1 DEF PrepareStep, Boundary, AttemptRestart, TurnEnds, Spoken, Joined, DeskStarts
  <2> QED
    BY <2>6, <2>7, <2>8, <2>9, <2>10, <2>11, DataForms DEF DataStep
<1> QED
  BY <1>3, <1>4, <1>5

LEMMA AheadStep ==
    ASSUME TypeOK, SlotInv, GivenInv, HeldInv, DeskInv, AheadInv, [Next]_vars
    PROVE  AheadInv'
<1>0. /\ PieceTypes /\ MembersStep /\ ControlStep /\ stage \in [Prompts -> Stages]
      /\ ahead \in [Events -> SUBSET Resumes] /\ DeskAlone /\ QueueInv
      /\ ToSet(Line) = ToSet(branch) \cup Handed /\ ToSet(turn.landed) \subseteq ToSet(branch)
  BY TypedPieces, MembersSteps, ControlSteps, TypeParts, DeskParts, Pieces
  DEF ControlTypes, OtherTypes, HeldInv
<1>1. Line' \in Seq(Prompts) /\ ToSet(Line') = ToSet(branch') \cup Handed'
  <2>1. /\ Rest' \in Seq(Prompts) /\ branch' \in Seq(Prompts) /\ ToSet(Rest') = Handed'
        /\ Line' = branch' \o Rest'
    BY <1>0, NextRests DEF MembersStep, PieceTypes
  <2> QED
    BY <2>1, PromptsJoin
<1> SUFFICES ASSUME NEW e \in Events, NEW p \in ahead'[e]
             PROVE  /\ stage'[p] # "none"
                    /\ p \in ToSet(tails') => e \notin ToSet(Line') /\ Behind(p, e)'
                    /\ p \in ToSet(Line') => Before(p, e, Line')
  BY DEF AheadInv
<1>2. e \in Prompts /\ e \notin Resumes
  BY PromptKinds
<1>3. CASE Fire(e) /\ p \in OnTheWay
  <2>1. p \in Resumes /\ p \in Prompts /\ InFlight(p) /\ p \in ToSet(tails)
    BY <1>3, PromptKinds DEF OnTheWay, InFlight, SlotInv
  <2>2. BarrierUp
    BY <2>1, MembersOfEmpty DEF BarrierUp
  <2>3. stage[e] = "none" /\ Wait(e) /\ UNCHANGED <<branch, turn, queue>>
    BY <1>3, <2>2 DEF Fire
  <2>4. Line' = Line /\ e \notin ToSet(Line)
    BY <2>3 DEF Line, HeldInv
  <2>5. e \notin ToSet(tails)
    BY <1>2, <2>3, OnlyTheHeadBegins DEF InFlight
  <2>6. Behind(p, e)'
    BY <1>2, <2>1, <2>3, <2>5, Queueing, TypeParts DEF Wait
  <2>7. stage'[p] # "none"
    BY <1>0, <2>1, StageStep DEF InFlight
  <2>8. Before(p, e, Line')
    BY <1>1, <1>2, <2>1, <2>4, BeforeAlone
  <2> QED
    BY <2>4, <2>6, <2>7, <2>8
<1>4. CASE p \in ahead[e]
  <2>1. /\ p \in Resumes /\ p \in Prompts /\ stage[p] # "none"
        /\ p \in ToSet(tails) => e \notin ToSet(Line) /\ Behind(p, e)
        /\ p \in ToSet(Line) => Before(p, e, Line)
    BY <1>0, <1>4, PromptKinds DEF AheadInv
  <2>2. stage'[p] # "none"
    BY <1>0, <2>1, StageStep
  <2>3. p \in ToSet(tails) => e \notin ToSet(Line')
    <3> SUFFICES ASSUME p \in ToSet(tails) PROVE e \notin ToSet(Line')
      OBVIOUS
    <3>1. e \notin ToSet(Line) /\ e \in ToSet(tails) /\ ~OwnsSlot(e)
      BY <2>1, BehindWaits
    <3> QED
      BY <1>0, <1>1, <3>1 DEF MembersStep, Enters
  <2>4. p \in ToSet(tails') => p \in ToSet(tails) /\ Behind(p, e)'
    BY <1>0, <2>1, BehindStep
  <2>5. p \in ToSet(Line') => Before(p, e, Line')
    <3>1. CASE e \notin ToSet(Line')
      BY <1>1, <1>2, <2>1, <3>1, BeforeAlone
    <3>2. CASE e \in ToSet(Line') /\ p \in ToSet(Line')
      <4>1. ~InFlight(p) /\ ~Enters(p)
        BY <2>1, <2>3, <3>2, PromptKinds DEF SlotInv, Enters, Moves
      <4>2. p \in ToSet(Line)
        BY <1>0, <1>1, <3>2, <4>1 DEF MembersStep
      <4> QED
        BY <1>0, <2>1, <3>2, <4>2, BeforeStep
    <3> QED
      BY <3>1, <3>2
  <2> QED
    BY <2>2, <2>3, <2>4, <2>5
<1> QED
  BY <1>3, <1>4, AheadFrom

-----------------------------------------------------------------------------
(* Follow-ups in their order.                                              *)

\* s has the members of acc once, in that order.
Follows(acc, s) ==
    /\ \A x \in ToSet(acc) : Only(acc, {x}) = <<x>>
    /\ Only(s, ToSet(acc)) = acc

LEMMA Apart ==
    ASSUME NEW acc \in Seq(Prompts), NEW s \in Seq(Prompts), NEW t \in Seq(Prompts),
           Follows(acc, s \o t)
    PROVE  ToSet(s) \cap ToSet(t) \cap ToSet(acc) = {}
<1> SUFFICES ASSUME NEW x \in ToSet(acc), x \in ToSet(s), x \in ToSet(t) PROVE FALSE
  OBVIOUS
<1> DEFINE A == ToSet(acc)
           D == {x}
           u == Only(s, A)
           v == Only(t, A)
<1>1. Only(acc, D) = <<x>> /\ acc = Only(s \o t, A)
  BY DEF Follows
<1>2. x \in A /\ x \in D
  OBVIOUS
<1> HIDE DEF A, D, u, v
<1>3. Only(s \o t, A) = u \o v
  BY OnlySplit DEF u, v
<1>4. u \in Seq(Prompts) /\ v \in Seq(Prompts) /\ x \in ToSet(u) /\ x \in ToSet(v)
  <2>1. /\ u \in Seq(Prompts) /\ ToSet(u) = ToSet(s) \cap A
        /\ v \in Seq(Prompts) /\ ToSet(v) = ToSet(t) \cap A
    BY OnlyMembers DEF u, v
  <2> QED
    BY <1>2, <2>1
<1> DEFINE m == Only(u, D)
           n == Only(v, D)
<1>5. Only(u \o v, D) = m \o n
  <2>1. u \in Seq(Prompts) /\ v \in Seq(Prompts)
    BY <1>4
  <2>2. \A S : Only(u \o v, S) = Only(u, S) \o Only(v, S)
    BY <2>1, OnlySplit
  <2> QED
    BY <2>2
<1>6. m \in Seq(Prompts) /\ n \in Seq(Prompts) /\ x \in ToSet(m) /\ x \in ToSet(n)
  <2>1. /\ m \in Seq(Prompts) /\ ToSet(m) = ToSet(u) \cap D
        /\ n \in Seq(Prompts) /\ ToSet(n) = ToSet(v) \cap D
    BY <1>4, OnlyMembers
  <2> QED
    BY <1>2, <1>4, <2>1
<1> HIDE DEF m, n
<1>7. m \o n = <<x>>
  BY <1>1, <1>3, <1>5
<1>8. Len(m) \in Nat \ {0} /\ Len(n) \in Nat \ {0}
  BY <1>6, MembersOfEmpty, EmptySeq, LenProperties
<1>9. Len(m \o n) = Len(m) + Len(n)
  BY <1>6, ConcatProperties
<1>10. Len(<<x>>) = 1
  OBVIOUS
<1> QED
  BY <1>7, <1>8, <1>9, <1>10

\* What is put on the branch comes after it, if it was not there.
LEMMA LandOnly ==
    ASSUME NEW b \in Seq(Prompts), NEW s \in Seq(Prompts), NEW A,
           ToSet(b) \cap ToSet(s) \cap A = {}
    PROVE  Only(Land(b, s), A) = Only(b, A) \o Only(s, A)
<1> DEFINE S == Prompts \ ToSet(b)
           o == Only(s, S)
<1>1. ToSet(s) \cap (S \cap A) = ToSet(s) \cap A
  BY PromptsJoin
<1>2. Land(b, s) = b \o o
  BY DEF Land
<1> HIDE DEF S
<1>3. o \in Seq(Prompts)
  BY OnlyMembers
<1>4. Only(o, A) = Only(s, A)
  <2>1. Only(o, A) = Only(s, S \cap A)
    BY OnlyTwice
  <2> DEFINE R == S \cap A
  <2>2. ToSet(s) \cap R = ToSet(s) \cap A
    BY <1>1
  <2> HIDE DEF R
  <2>3. Only(s, R) = Only(s, A)
    BY <2>2, OnlyEqual
  <2> QED
    BY <2>1, <2>3 DEF R
<1> HIDE DEF o
<1>5. Only(b \o o, A) = Only(b, A) \o Only(o, A)
  BY <1>3, OnlySplit
<1> QED
  BY <1>2, <1>4, <1>5

\* Follow-ups that are saved stay in their place.
LEMMA SavedFollow ==
    ASSUME NEW acc \in Seq(Prompts), NEW b \in Seq(Prompts), NEW c \in Seq(Prompts),
           NEW t \in Seq(Prompts), Follows(acc, b \o (c \o t))
    PROVE  /\ Follows(acc, Land(b, c) \o t)
           /\ ToSet(b) \cap ToSet(c) \cap ToSet(acc) = {}
<1> DEFINE A == ToSet(acc)
           d == Land(b, c)
           r == c \o t
<1>1. r \in Seq(Prompts) /\ ToSet(r) = ToSet(c) \cup ToSet(t)
  BY PromptsJoin
<1>2. d \in Seq(Prompts)
  BY LandType
<1>3. ToSet(b) \cap ToSet(r) \cap A = {}
  <2> HIDE DEF r
  <2>1. Follows(acc, b \o r)
    BY DEF r
  <2> QED
    BY <1>1, <2>1, Apart
<1>4. ToSet(b) \cap ToSet(c) \cap A = {}
  BY <1>1, <1>3
<1>5. Only(d, A) = Only(b, A) \o Only(c, A)
  BY <1>4, LandOnly
<1>6. Only(b \o r, A) = acc
  BY DEF Follows
<1>7. /\ Only(b \o r, A) = Only(b, A) \o Only(r, A)
      /\ Only(r, A) = Only(c, A) \o Only(t, A)
      /\ Only(d \o t, A) = Only(d, A) \o Only(t, A)
  <2> HIDE DEF A, d
  <2>1. Only(r, A) = Only(c, A) \o Only(t, A)
    BY OnlySplit, SMTT(30)
  <2>2. Only(d \o t, A) = Only(d, A) \o Only(t, A)
    <3>1. \A S : Only(d \o t, S) = Only(d, S) \o Only(t, S)
      BY <1>2, OnlySplit, Zenon
    <3> QED
      BY <3>1, Zenon
  <2> HIDE DEF r
  <2>3. Only(b \o r, A) = Only(b, A) \o Only(r, A)
    <3>1. r \in Seq(Prompts)
      BY <1>1
    <3>2. \A S : Only(b \o r, S) = Only(b, S) \o Only(r, S)
      BY <3>1, OnlySplit
    <3> QED
      BY <3>2
  <2> QED
    BY <2>1, <2>2, <2>3
<1>8. (Only(b, A) \o Only(c, A)) \o Only(t, A) = Only(b, A) \o (Only(c, A) \o Only(t, A))
  <2> HIDE DEF A
  <2> QED
    BY OnlyRegroups, SMTT(30)
<1>9. Only(d \o t, A) = acc
  BY <1>5, <1>6, <1>7, <1>8
<1> QED
  BY <1>4, <1>9 DEF Follows

LEMMA AppendLater ==
    ASSUME NEW s \in Seq(Prompts), NEW t \in Seq(Prompts), NEW p \in Prompts
    PROVE  s \o Append(t, p) = Append(s \o t, p)
<1> DEFINE o == <<p>>
           r == s \o t
<1>1. o \in Seq(Prompts) /\ Append(t, p) = t \o o
  BY AppendedPrompt
<1>2. r \in Seq(Prompts)
  BY PromptsJoin
<1>3. Append(r, p) = r \o o
  <2> HIDE DEF r
  <2> QED
    BY <1>2, AppendedPrompt
<1> HIDE DEF o
<1>4. (s \o t) \o o = s \o (t \o o)
  BY <1>1, PromptsJoin
<1> QED
  BY <1>1, <1>3, <1>4 DEF r

LEMMA OnlyAppended ==
    ASSUME NEW s \in Seq(Prompts), NEW p \in Prompts
    PROVE  \A S : Only(Append(s, p), S) = IF p \in S THEN Append(Only(s, S), p) ELSE Only(s, S)
  BY OnlyAppend

\* One more that is not a follow-up.
LEMMA FollowsInserted ==
    ASSUME NEW acc \in Seq(Prompts), NEW s \in Seq(Prompts), NEW t \in Seq(Prompts),
           NEW p \in Prompts, p \notin ToSet(acc), Follows(acc, s \o t)
    PROVE  Follows(acc, Append(s, p) \o t)
<1> DEFINE A == ToSet(acc)
           u == Append(s, p)
<1>1. u \in Seq(Prompts)
  BY PromptsJoin
<1>2. Only(u, A) = Only(s, A)
  BY OnlyAppended
<1> HIDE DEF u
<1>3. Only(u \o t, A) = Only(u, A) \o Only(t, A)
  BY <1>1, OnlySplit, SMTT(30)
<1>4. Only(s \o t, A) = Only(s, A) \o Only(t, A)
  BY OnlySplit
<1>5. Only(u \o t, A) = acc
  BY <1>2, <1>3, <1>4 DEF Follows
<1> QED
  BY <1>5 DEF Follows, u

LEMMA FollowsAppended ==
    ASSUME NEW acc \in Seq(Prompts), NEW s \in Seq(Prompts), NEW p \in Prompts,
           p \notin ToSet(acc), Follows(acc, s)
    PROVE  Follows(acc, Append(s, p))
  BY OnlyAppended DEF Follows

\* One more follow-up.
LEMMA FollowsOneMore ==
    ASSUME NEW acc \in Seq(Prompts), NEW s \in Seq(Prompts), NEW p \in Prompts,
           p \notin ToSet(acc), p \notin ToSet(s), Follows(acc, s)
    PROVE  Follows(Append(acc, p), Append(s, p))
<1> DEFINE A == ToSet(acc)
           B == ToSet(Append(acc, p))
<1>1. B = A \cup {p}
  BY PromptsJoin
<1>2. Only(s, B) = acc
  <2>1. ToSet(s) \cap B = ToSet(s) \cap A
    BY <1>1
  <2> HIDE DEF A, B
  <2>2. Only(s, B) = Only(s, A)
    BY <2>1, OnlyEqual
  <2> QED
    BY <2>2 DEF Follows, A
<1>3. Only(Append(s, p), B) = Append(acc, p)
  <2>1. p \in B
    BY <1>1
  <2> HIDE DEF B
  <2>2. Only(Append(s, p), B) = Append(Only(s, B), p)
    BY <2>1, OnlyAppended
  <2> QED
    BY <1>2, <2>2
<1>4. ASSUME NEW x \in B PROVE Only(Append(acc, p), {x}) = <<x>>
  <2> DEFINE D == {x}
  <2>1. CASE x = p
    <3>1. p \in D /\ ToSet(acc) \cap D = {}
      BY <2>1
    <3> HIDE DEF D
    <3>2. Only(acc, D) = <<>>
      BY <3>1, OnlyNone
    <3>3. Only(Append(acc, p), D) = Append(Only(acc, D), p)
      BY <3>1, OnlyAppended
    <3> QED
      BY <2>1, <3>2, <3>3 DEF D
  <2>2. CASE x # p
    <3>1. x \in A /\ p \notin D
      BY <1>1, <1>4, <2>2
    <3>2. Only(acc, D) = <<x>>
      BY <3>1 DEF Follows
    <3> HIDE DEF D
    <3>3. Only(Append(acc, p), D) = Only(acc, D)
      BY <3>1, OnlyAppended
    <3> QED
      BY <3>2, <3>3 DEF D
  <2> QED
    BY <2>1, <2>2
<1> QED
  BY <1>3, <1>4 DEF Follows

\* A part that repeats what is before it can go.
LEMMA FollowsFirst ==
    ASSUME NEW acc \in Seq(Prompts), NEW s \in Seq(Prompts), NEW t \in Seq(Prompts),
           Follows(acc, s \o t), ToSet(t) \cap ToSet(acc) \subseteq ToSet(s)
    PROVE  Follows(acc, s)
<1> DEFINE A == ToSet(acc)
<1>1. ToSet(t) \cap A = {}
  BY Apart
<1>2. Only(t, A) = <<>>
  BY <1>1, OnlyNone
<1>3. Only(s \o t, A) = Only(s, A) \o Only(t, A)
  BY OnlySplit
<1>4. Only(s, A) \in Seq(Prompts)
  BY OnlyMembers
<1>5. Only(s, A) \o <<>> = Only(s, A)
  BY <1>4, PromptsJoin
<1>6. Only(s, A) = acc
  BY <1>2, <1>3, <1>5 DEF Follows
<1> QED
  BY <1>6 DEF Follows

\* What is in s stays in the order; the rest of acc is given up.
LEMMA FollowsLess ==
    ASSUME NEW acc \in Seq(Prompts), NEW s \in Seq(Prompts), NEW t \in Seq(Prompts),
           Follows(acc, s \o t)
    PROVE  Follows(Only(acc, ToSet(s)), s)
<1> DEFINE A == ToSet(acc)
           B == ToSet(s)
           less == Only(acc, B)
<1>1. less \in Seq(Prompts) /\ ToSet(less) = A \cap B
  BY OnlyMembers
<1>2. ToSet(t) \cap (A \cap B) = {}
  BY Apart
<1>3. acc = Only(s \o t, A)
  BY DEF Follows
<1> DEFINE R == A \cap B
<1> HIDE DEF A, B, less
<1>4. less = Only(s \o t, R)
  <2>1. s \o t \in Seq(Prompts)
    BY PromptsJoin
  <2> DEFINE r == s \o t
  <2>2. r \in Seq(Prompts) /\ acc = Only(r, A)
    BY <1>3, <2>1
  <2> HIDE DEF r
  <2>3. Only(Only(r, A), B) = Only(r, A \cap B)
    BY <2>2, OnlyTwice
  <2> QED
    BY <2>2, <2>3 DEF less, r
<1> HIDE DEF R
<1>5. Only(s \o t, R) = Only(s, R) \o Only(t, R)
  BY OnlySplit
<1>6. Only(t, R) = <<>>
  BY <1>2, OnlyNone DEF R
<1>7. Only(s, R) \in Seq(Prompts)
  BY OnlyMembers
<1>8. Only(s, R) \o <<>> = Only(s, R)
  BY <1>7, PromptsJoin
<1>9. Only(s, ToSet(less)) = less
  BY <1>1, <1>4, <1>5, <1>6, <1>8 DEF R
<1>10. ASSUME NEW x \in ToSet(less) PROVE Only(less, {x}) = <<x>>
  <2> DEFINE D == {x}
  <2>1. x \in A /\ B \cap D = D
    BY <1>1, <1>10
  <2>2. Only(acc, D) = <<x>>
    BY <2>1 DEF Follows, A
  <2> HIDE DEF D
  <2>3. Only(Only(acc, B), D) = Only(acc, B \cap D)
    BY OnlyTwice
  <2> QED
    BY <2>1, <2>2, <2>3 DEF less, D
<1> QED
  BY <1>9, <1>10 DEF Follows, less, B

\* What the turn has saved, l, comes after the other follow-ups on the branch b.
Later(acc, b, l) ==
    Only(b, ToSet(acc)) = Only(b, ToSet(acc) \ ToSet(l)) \o Only(l, ToSet(acc))

LEMMA LaterNone ==
    ASSUME NEW acc \in Seq(Prompts), NEW b \in Seq(Prompts)
    PROVE  Later(acc, b, <<>>)
<1> DEFINE A == ToSet(acc)
           S == A \ ToSet(<<>>)
<1>1. S = A
  BY MembersOfEmpty
<1>2. Only(b, A) \in Seq(Prompts)
  BY OnlyMembers
<1>3. Only(b, A) \o <<>> = Only(b, A)
  BY <1>2, PromptsJoin
<1>4. Only(<<>>, A) = <<>>
  BY OnlyEmpty
<1> HIDE DEF A
<1>5. Only(b, A) = Only(b, S) \o Only(<<>>, A)
  BY <1>1, <1>3, <1>4
<1> QED
  BY <1>5 DEF Later, A

LEMMA LaterOneMore ==
    ASSUME NEW acc \in Seq(Prompts), NEW b \in Seq(Prompts), NEW l \in Seq(Prompts),
           NEW p \in Prompts, p \notin ToSet(b), ToSet(l) \subseteq ToSet(b), Later(acc, b, l)
    PROVE  Later(Append(acc, p), b, l)
<1> DEFINE A == ToSet(acc)
           B == ToSet(Append(acc, p))
           L == ToSet(l)
           R == A \ L
           S == B \ L
<1>1. B = A \cup {p}
  BY PromptsJoin
<1>2. /\ ToSet(b) \cap B = ToSet(b) \cap A /\ ToSet(b) \cap S = ToSet(b) \cap R
      /\ ToSet(l) \cap B = ToSet(l) \cap A
  BY <1>1
<1>3. Only(b, A) = Only(b, R) \o Only(l, A)
  BY DEF Later
<1> HIDE DEF A, B, L, R, S
<1>4. Only(b, B) = Only(b, A) /\ Only(b, S) = Only(b, R) /\ Only(l, B) = Only(l, A)
  BY <1>2, OnlyEqual
<1>5. Only(b, B) = Only(b, S) \o Only(l, B)
  BY <1>3, <1>4
<1> QED
  BY <1>5 DEF Later, B, L, S

\* A batch is saved.
LEMMA LaterLanded ==
    ASSUME NEW acc \in Seq(Prompts), NEW b \in Seq(Prompts), NEW l \in Seq(Prompts),
           NEW c \in Seq(Prompts), ToSet(b) \cap ToSet(c) \cap ToSet(acc) = {}, Later(acc, b, l)
    PROVE  Later(acc, Land(b, c), l \o c)
<1> DEFINE A == ToSet(acc)
           L == ToSet(l)
           M == ToSet(l \o c)
           R == A \ L
           S == A \ M
           d == Land(b, c)
<1>1. M = L \cup ToSet(c)
  BY PromptsJoin
<1>2. ToSet(b) \cap S = ToSet(b) \cap R /\ ToSet(c) \cap S = {}
      /\ ToSet(b) \cap ToSet(c) \cap S = {} /\ ToSet(b) \cap ToSet(c) \cap A = {}
  BY <1>1
<1>3. Only(b, A) = Only(b, R) \o Only(l, A)
  BY DEF Later
<1> HIDE DEF A, L, M, R, S, d
<1>4. Only(d, A) = Only(b, A) \o Only(c, A)
  BY <1>2, LandOnly DEF d
<1>5. Only(d, S) = Only(b, R)
  <2>1. Only(d, S) = Only(b, S) \o Only(c, S)
    BY <1>2, LandOnly DEF d
  <2>2. Only(c, S) = <<>>
    BY <1>2, OnlyNone
  <2>3. Only(b, S) = Only(b, R) /\ Only(b, R) \in Seq(Prompts)
    BY <1>2, OnlyEqual, OnlyMembers
  <2>4. Only(b, R) \o <<>> = Only(b, R)
    BY <2>3, PromptsJoin
  <2> QED
    BY <2>1, <2>2, <2>3, <2>4
<1>6. Only(l \o c, A) = Only(l, A) \o Only(c, A)
  BY OnlySplit, SMTT(30)
<1>7. (Only(b, R) \o Only(l, A)) \o Only(c, A) = Only(b, R) \o (Only(l, A) \o Only(c, A))
  BY OnlyRegroups, SMTT(30)
<1>8. Only(d, A) = Only(d, S) \o Only(l \o c, A)
  BY <1>3, <1>4, <1>5, <1>6, <1>7
<1> QED
  BY <1>8 DEF Later, A, M, S, d

\* A turn that starts over.
LEMMA FollowsAgain ==
    ASSUME NEW acc \in Seq(Prompts), NEW b \in Seq(Prompts), NEW l \in Seq(Prompts),
           NEW r \in Seq(Prompts), Follows(acc, b \o r), Later(acc, b, l)
    PROVE  Follows(acc, Only(b, Prompts \ ToSet(l)) \o (l \o r))
<1> DEFINE A == ToSet(acc)
           P == Prompts \ ToSet(l)
           R == A \ ToSet(l)
           d == Only(b, P)
           k == l \o r
<1>1. P \cap A = R
  BY PromptsJoin
<1>2. Only(b, A) = Only(b, R) \o Only(l, A)
  BY DEF Later
<1>3. Only(b \o r, A) = acc
  BY DEF Follows
<1> HIDE DEF A, P, R
<1>4. d \in Seq(Prompts) /\ k \in Seq(Prompts)
  BY OnlyMembers, PromptsJoin
<1>5. Only(d, A) = Only(b, R)
  <2>1. Only(Only(b, P), A) = Only(b, P \cap A)
    BY OnlyTwice
  <2>2. Only(d, A) = Only(b, P \cap A)
    BY <2>1
  <2> QED
    BY <1>1, <2>2
<1>6. Only(k, A) = Only(l, A) \o Only(r, A)
  <2> HIDE DEF d
  <2>1. \A S : Only(l \o r, S) = Only(l, S) \o Only(r, S)
    BY OnlySplit, SMTT(30)
  <2> QED
    BY <2>1
<1>7. Only(b \o r, A) = Only(b, A) \o Only(r, A)
  BY OnlySplit, SMTT(30)
<1> HIDE DEF d, k
<1>8. Only(d \o k, A) = Only(d, A) \o Only(k, A)
  <2>1. d \in Seq(Prompts) /\ k \in Seq(Prompts)
    BY <1>4
  <2>2. \A S : Only(d \o k, S) = Only(d, S) \o Only(k, S)
    BY <2>1, OnlySplit
  <2> QED
    BY <2>2
<1>9. (Only(b, R) \o Only(l, A)) \o Only(r, A) = Only(b, R) \o (Only(l, A) \o Only(r, A))
  BY OnlyRegroups, SMTT(30)
<1>10. Only(d \o k, A) = acc
  BY <1>2, <1>3, <1>5, <1>6, <1>7, <1>8, <1>9
<1> QED
  BY <1>10 DEF Follows, A, P, d, k


-----------------------------------------------------------------------------
(* The follow-ups of the live turn, through each step.                     *)

FollowStep == Follows(accepted, Line)' /\ Later(accepted, branch, turn.landed)'

LEMMA FollowParts ==
    FollowInv <=> /\ Follows(accepted, Line) /\ Later(accepted, branch, turn.landed)
                  /\ \A x \in ToSet(accepted) : stage[x] = "returned"
  BY DEF FollowInv, Follows, Later

LEMMA EventPrompts == \A s \in Seq(Events) : s \in Seq(Prompts) /\ ToSet(s) \subseteq Events
<1> TAKE s \in Seq(Events)
<1>1. ToSet(s) \subseteq Events
  BY MembersOfSeq
<1>2. ToSet(s) \subseteq Prompts
  BY <1>1, PromptKinds
<1> QED
  BY <1>1, <1>2, MembersOfSeq

\* Nothing but the branch is left.
LEMMA BranchFollows ==
    ASSUME PieceTypes', turn' = NoFollowUps, queue' = <<>>, accepted' \in Seq(Prompts),
           Follows(accepted', branch')
    PROVE  FollowStep
<1>1. Rest' = <<>> /\ Line' = branch' \o Rest' /\ branch' \in Seq(Prompts)
  BY RestAlone, NextRests DEF PieceTypes
<1>2. Line' = branch'
  BY <1>1, PromptsJoin
<1>3. turn'.landed = <<>>
  BY NothingTaken
<1> DEFINE none == <<>>
<1>4. Later(accepted', branch', none)
  BY <1>1, LaterNone
<1> QED
  BY <1>2, <1>3, <1>4 DEF FollowStep, Follows, Later

\* Nothing has been saved of a turn that has not begun.
LEMMA FreshFollows ==
    ASSUME PieceTypes', turn' = NoFollowUps, accepted' \in Seq(Prompts), Follows(accepted', Line')
    PROVE  FollowStep
<1>1. branch' \in Seq(Prompts) /\ turn'.landed = <<>>
  BY NothingTaken DEF PieceTypes
<1> DEFINE none == <<>>
<1>2. Later(accepted', branch', none)
  BY <1>1, LaterNone
<1> QED
  BY <1>1, <1>2 DEF FollowStep, Follows, Later

LEMMA KeptFollows ==
    ASSUME TypeOK, accepted \in Seq(Prompts), Follows(accepted, Line), live = None,
           desk = "server" \/ ToSet(queue) \cap ToSet(accepted) \subseteq ToSet(branch)
    PROVE  Follows(accepted, Kept)
<1>1. /\ branch \in Seq(Prompts) /\ queue \in Seq(Prompts)
      /\ Line = branch \o Rest /\ turn = NoFollowUps
  BY TypedPieces, Rests DEF PieceTypes
<1>2. Follows(accepted, branch \o queue)
  BY <1>1, RestAlone
<1>3. CASE desk = "server"
  BY <1>2, <1>3 DEF Kept
<1>4. CASE desk # "server"
  BY <1>1, <1>2, <1>4, FollowsFirst DEF Kept
<1> QED
  BY <1>3, <1>4

LEMMA SpokenFollow ==
    ASSUME TypeOK, HeldInv, accepted \in Seq(Prompts), Follows(accepted, Line),
           NEW p \in Prompts, Spoken(p), p \notin ToSet(accepted)
    PROVE  FollowStep
<1>1. PieceTypes' /\ turn' = NoFollowUps /\ turn = NoFollowUps /\ accepted' = accepted
      /\ queue' = queue /\ branch' = Append(branch, p)
  BY SpokenMembers, TypedPieces DEF Spoken, MembersStep
<1>2. /\ branch \in Seq(Prompts) /\ queue \in Seq(Prompts) /\ Line = branch \o queue
      /\ Line' = branch' \o queue'
  BY <1>1, TypedPieces, Rests, RestAlone, NextRests DEF PieceTypes
<1>3. Follows(accepted, Append(branch, p) \o queue)
  BY <1>2, FollowsInserted
<1> QED
  BY <1>1, <1>2, <1>3, FreshFollows

LEMMA SplicedFollow ==
    ASSUME TypeOK, SlotInv, HeldInv, accepted \in Seq(Prompts), Follows(accepted, Line),
           NEW p \in Prompts, Spliced(p), p \notin ToSet(accepted), live = None
    PROVE  FollowStep
<1>1. PieceTypes' /\ turn' = NoFollowUps /\ turn = NoFollowUps /\ accepted' = accepted
      /\ queue' = Append(queue, p) /\ (branch' = branch \/ branch' = Append(branch, p))
  BY SplicedMembers, TypedPieces DEF Spliced, MembersStep, history
<1>2. /\ branch \in Seq(Prompts) /\ queue \in Seq(Prompts) /\ Line = branch \o queue
      /\ Line' = branch' \o queue' /\ branch' \in Seq(Prompts)
  BY <1>1, TypedPieces, Rests, RestAlone, NextRests DEF PieceTypes
<1>3. Follows(accepted, Append(branch, p) \o queue)
  BY <1>2, FollowsInserted
<1> DEFINE s == branch' \o queue
<1>4. Follows(accepted, s) /\ s \in Seq(Prompts) /\ Line' = Append(s, p)
  <2>1. Follows(accepted, s)
    BY <1>1, <1>2, <1>3
  <2>2. s \in Seq(Prompts)
    BY <1>2, PromptsJoin
  <2>3. branch' \o Append(queue, p) = Append(s, p)
    BY <1>2, AppendLater
  <2> QED
    BY <1>1, <1>2, <2>1, <2>2, <2>3
<1> HIDE DEF s
<1>5. Follows(accepted, Append(s, p))
  BY <1>4, FollowsAppended
<1> QED
  BY <1>1, <1>4, <1>5, FreshFollows

LEMMA JoinedFollow ==
    ASSUME TypeOK, HeldInv, accepted \in Seq(Prompts), Follows(accepted, Line),
           Later(accepted, branch, turn.landed),
           NEW e \in Events, Joined(e), e \notin ToSet(accepted)
    PROVE  FollowStep
<1>0. e \in Prompts /\ PieceTypes /\ PieceTypes'
  BY TypedPieces, PromptKinds, JoinedMembers DEF MembersStep
<1>1. /\ queue' = Append(queue, e) /\ accepted' = Append(accepted, e)
      /\ turn' = turn /\ branch' = branch /\ stage[e] = "none"
  BY DEF Joined
<1>2. /\ branch \in Seq(Prompts) /\ turn.landed \in Seq(Prompts) /\ Line \in Seq(Prompts)
      /\ ToSet(Line) = ToSet(branch) \cup Handed /\ ToSet(turn.landed) \subseteq ToSet(branch)
      /\ queue \in Seq(Prompts) /\ Taken \in Seq(Prompts) /\ turn.failed \in Seq(Prompts)
      /\ Rest \in Seq(Prompts) /\ Line = branch \o Rest /\ Line' = branch' \o Rest'
  BY <1>0, Pieces, Rests, NextRests DEF PieceTypes, HeldInv
<1>3. e \notin ToSet(Line) /\ e \notin ToSet(branch)
  BY <1>1, <1>2 DEF HeldInv
<1>4. Rest' = Append(Rest, e)
  <2> DEFINE f == turn.failed
             t == Taken \o queue
  <2>1. Rest' = f \o (Taken \o Append(queue, e)) /\ Rest = f \o t
    BY <1>1 DEF Rest, Taken
  <2>2. Taken \o Append(queue, e) = Append(t, e)
    BY <1>0, <1>2, AppendLater, SMTT(30)
  <2>3. f \in Seq(Prompts) /\ t \in Seq(Prompts)
    BY <1>2, PromptsJoin
  <2> HIDE DEF f, t
  <2>4. f \o Append(t, e) = Append(f \o t, e)
    BY <1>0, <2>3, AppendLater
  <2> QED
    BY <2>1, <2>2, <2>4
<1>5. Line' = Append(Line, e)
  <2>1. branch \o Append(Rest, e) = Append(branch \o Rest, e)
    <3>1. branch \in Seq(Prompts) /\ Rest \in Seq(Prompts) /\ e \in Prompts
      BY <1>0, <1>2
    <3> QED
      BY <3>1, AppendLater
  <2> QED
    BY <1>1, <1>2, <1>4, <2>1
<1>6. Follows(Append(accepted, e), Append(Line, e))
  BY <1>0, <1>2, <1>3, FollowsOneMore
<1> DEFINE l == turn.landed
<1>7. l \in Seq(Prompts) /\ ToSet(l) \subseteq ToSet(branch) /\ Later(accepted, branch, l)
  BY <1>2
<1> HIDE DEF l
<1>8. Later(Append(accepted, e), branch, l)
  BY <1>0, <1>2, <1>3, <1>7, LaterOneMore
<1> QED
  BY <1>1, <1>5, <1>6, <1>8 DEF FollowStep, Follows, Later, l

LEMMA TurnEndFollow ==
    ASSUME TypeOK, HeldInv, accepted \in Seq(Prompts), Follows(accepted, Line),
           NEW p \in Prompts, TurnEnds(p)
    PROVE  FollowStep
<1>0. PieceTypes /\ PieceTypes' /\ turn' = NoFollowUps
  BY TypedPieces, TurnEndMembers, TurnEndSaves DEF MembersStep
<1>1. PICK c, x, y \in Seq(Prompts) : Saves(c, x, y)
  BY TurnEndSaves
<1>2. /\ branch \in Seq(Prompts) /\ Line = branch \o (c \o (x \o y)) /\ accepted' = accepted
      /\ Line' = Land(Land(branch, c), x) \o y
  BY <1>0, <1>1, Rests, NextRests DEF PieceTypes, Saves
<1> DEFINE t == x \o y
           d == Land(branch, c)
<1>3. t \in Seq(Prompts) /\ d \in Seq(Prompts) /\ Line = branch \o (c \o t)
  BY <1>2, PromptsJoin, LandType
<1> HIDE DEF t, d
<1>4. Follows(accepted, d \o t)
  BY <1>2, <1>3, SavedFollow DEF d
<1>5. Follows(accepted, Land(d, x) \o y)
  BY <1>3, <1>4, SavedFollow DEF t
<1> QED
  BY <1>0, <1>2, <1>5, FreshFollows DEF d

LEMMA BoundaryFollow ==
    ASSUME TypeOK, HeldInv, accepted \in Seq(Prompts), Follows(accepted, Line),
           Later(accepted, branch, turn.landed), Boundary
    PROVE  FollowStep
<1>0. PieceTypes /\ PieceTypes'
  BY TypedPieces, BoundarySaves DEF MembersStep
<1>1. PICK a, y \in Seq(Prompts) : Saves(a, <<>>, y) /\ turn'.landed = turn.landed \o a
  BY BoundarySaves
<1>2. Land(branch, a) \in Seq(Prompts) /\ branch \in Seq(Prompts) /\ <<>> \o y = y
  BY <1>0, LandType, PromptsJoin DEF PieceTypes
<1>3. /\ Line = branch \o (a \o y) /\ accepted' = accepted
      /\ branch' = Land(branch, a) /\ Line' = Land(branch, a) \o y
  BY <1>0, <1>1, <1>2, Rests, NextRests, LandNothing DEF Saves
<1>4. /\ Follows(accepted, Land(branch, a) \o y)
      /\ ToSet(branch) \cap ToSet(a) \cap ToSet(accepted) = {}
  BY <1>2, <1>3, SavedFollow
<1> DEFINE l == turn.landed
<1>5. l \in Seq(Prompts) /\ Later(accepted, branch, l) /\ turn'.landed = l \o a
  BY <1>0, <1>1, Pieces
<1> HIDE DEF l
<1>6. Later(accepted, Land(branch, a), l \o a)
  BY <1>2, <1>4, <1>5, LaterLanded
<1> QED
  BY <1>3, <1>4, <1>5, <1>6 DEF FollowStep, Follows, Later

LEMMA RetryFollow ==
    ASSUME TypeOK, HeldInv, accepted \in Seq(Prompts), Follows(accepted, Line),
           Later(accepted, branch, turn.landed), AttemptRestart
    PROVE  FollowStep
<1>0. /\ PieceTypes /\ PieceTypes' /\ turn' = NoFollowUps /\ accepted' = accepted
      /\ Rest' = turn.landed \o Rest
      /\ branch' = Only(branch, Prompts \ ToSet(turn.landed))
  BY TypedPieces, RetryMembers DEF MembersStep
<1> DEFINE l == turn.landed
<1>1. /\ branch \in Seq(Prompts) /\ l \in Seq(Prompts) /\ Rest \in Seq(Prompts)
      /\ Line = branch \o Rest /\ Line' = Only(branch, Prompts \ ToSet(l)) \o (l \o Rest)
      /\ Later(accepted, branch, l)
  BY <1>0, Pieces, Rests, NextRests DEF PieceTypes
<1> HIDE DEF l
<1>2. Follows(accepted, Only(branch, Prompts \ ToSet(l)) \o (l \o Rest))
  <2>1. Follows(accepted, branch \o Rest)
    BY <1>1
  <2> QED
    BY <1>1, <2>1, FollowsAgain
<1> QED
  BY <1>0, <1>1, <1>2, FreshFollows

LEMMA CrashFollow ==
    ASSUME TypeOK, HeldInv, accepted \in Seq(Prompts), Follows(accepted, Line), Crash
    PROVE  FollowStep
<1>0. /\ PieceTypes /\ PieceTypes' /\ turn' = NoFollowUps /\ branch' = branch /\ queue' = <<>>
      /\ accepted' = Only(accepted, ToSet(branch))
  BY TypedPieces, CrashMembers DEF MembersStep, Crash
<1>1. branch \in Seq(Prompts) /\ Rest \in Seq(Prompts) /\ Line = branch \o Rest
  BY <1>0, Rests DEF PieceTypes
<1>2. Follows(Only(accepted, ToSet(branch)), branch)
  <2>1. Follows(accepted, branch \o Rest)
    BY <1>1
  <2> QED
    BY <1>1, <2>1, FollowsLess
<1>3. accepted' \in Seq(Prompts)
  BY <1>0, OnlyMembers
<1> QED
  BY <1>0, <1>2, <1>3, BranchFollows

LEMMA PrepareFollow ==
    ASSUME TypeOK, HeldInv, Follows(accepted, Line), Later(accepted, branch, turn.landed),
           PrepareStep
    PROVE  FollowStep
<1>1. Line' = Line /\ branch' = branch /\ turn'.landed = turn.landed /\ accepted' = accepted
  BY PrepareMembers DEF PrepareStep, history
<1> QED
  BY <1>1 DEF FollowStep, Follows, Later

LEMMA QuietFollow ==
    ASSUME Follows(accepted, Line), Later(accepted, branch, turn.landed), Quiet
    PROVE  FollowStep
  BY DEF FollowStep, Follows, Later, Quiet, Line

LEMMA DeskFollow ==
    ASSUME TypeOK, SlotInv, HeldInv, accepted \in Seq(Prompts), Follows(accepted, Line),
           DeskAlone, QueueInv, ~intruded',
           \/ \E kind \in {"gui", "server"} : DeskStarts(kind)
           \/ DeskSteps \/ \E s \in {"idle", "running"} : DeskEnds(s)
    PROVE  FollowStep
<1>0. desk \in {"none", "gui", "server"}
  BY TypeParts DEF OtherTypes
<1>1. branch' = Kept /\ queue' = <<>> /\ turn' = turn /\ accepted' = accepted
  BY DEF DeskStarts, DeskSteps, DeskEnds, Begin, history
<1>2. live = None /\ (desk = "server" \/ ToSet(queue) \subseteq ToSet(branch))
  <2>1. ASSUME NEW kind \in {"gui", "server"}, DeskStarts(kind)
        PROVE  live = None /\ ToSet(queue) \subseteq ToSet(branch)
    BY <2>1 DEF DeskStarts, Begin, Kept
  <2>2. ASSUME desk # "none"
        PROVE  live = None /\ (desk = "server" \/ ToSet(queue) \subseteq ToSet(branch))
    BY <1>0, <2>2 DEF DeskAlone, QueueInv
  <2> QED
    BY <2>1, <2>2 DEF DeskSteps, DeskEnds
<1>3. PieceTypes' /\ turn' = NoFollowUps
  BY <1>1, <1>2, DeskMembers, TypedPieces DEF MembersStep
<1>4. Follows(accepted, Kept)
  BY <1>2, KeptFollows
<1> QED
  BY <1>1, <1>3, <1>4, BranchFollows

LEMMA RestartsFollow ==
    ASSUME TypeOK, SlotInv, HeldInv, accepted \in Seq(Prompts), Follows(accepted, Line),
           DeskAlone, QueueInv, ~intruded',
           NEW p \in Prompts, Restarts(p), p \notin ToSet(accepted)
    PROVE  FollowStep
<1>0. desk \in {"none", "gui", "server"}
  BY TypeParts DEF OtherTypes
<1>1. /\ branch' = Append(Kept, p) /\ queue' = <<>> /\ turn' = turn /\ accepted' = accepted
      /\ live = None /\ ToSet(queue) \subseteq ToSet(Append(Kept, p))
  BY DEF Restarts, Restart, Begin
<1>2. Kept \in Seq(Prompts) /\ ToSet(Append(Kept, p)) = ToSet(Kept) \cup {p}
  BY KeptType, PromptsJoin
<1>3. desk = "server" \/ ToSet(queue) \cap ToSet(accepted) \subseteq ToSet(branch)
  <2>1. CASE desk = "gui"
    BY <2>1 DEF QueueInv
  <2>2. CASE desk = "none"
    BY <1>1, <1>2, <2>2 DEF Kept
  <2> QED
    BY <1>0, <2>1, <2>2
<1>4. PieceTypes' /\ turn' = NoFollowUps
  BY <1>1, RestartsMembers, TypedPieces DEF MembersStep
<1>5. Follows(accepted, Kept)
  BY <1>1, <1>3, KeptFollows
<1>6. Follows(accepted, Append(Kept, p))
  BY <1>2, <1>5, FollowsAppended
<1> QED
  BY <1>1, <1>4, <1>6, BranchFollows

LEMMA FollowsStep ==
    ASSUME TypeOK, SlotInv, GivenInv, HeldInv, DeskInv, FollowInv, [Next]_vars, ~intruded'
    PROVE  FollowInv'
<1>0. /\ Follows(accepted, Line) /\ Later(accepted, branch, turn.landed)
      /\ \A x \in ToSet(accepted) : stage[x] = "returned"
      /\ DeskAlone /\ QueueInv /\ ControlStep
  BY FollowParts, DeskParts, ControlSteps
<1>1. /\ accepted \in Seq(Events) /\ accepted \in Seq(Prompts) /\ ToSet(accepted) \subseteq Events
      /\ \A e \in Events : e \in Prompts
  BY EventPrompts, PromptKinds, TypeParts DEF OtherTypes
<1>2. \A p \in Prompts : p \in ToSet(accepted) => ~Moves(p) /\ stage[p] = "returned"
  BY <1>0 DEF Moves, InFlight
<1>3. FollowStep
  <2>1. ASSUME NEW p \in Prompts, Spoken(p) PROVE FollowStep
    BY <1>0, <1>1, <1>2, <2>1, SpokenFollow DEF Spoken
  <2>2. ASSUME NEW e \in Events, Joined(e) PROVE FollowStep
    BY <1>0, <1>1, <1>2, <2>2, JoinedFollow DEF Joined
  <2>3. ASSUME NEW p \in Prompts, Restarts(p) PROVE FollowStep
    BY <1>0, <1>1, <1>2, <2>3, RestartsFollow DEF Restarts
  <2>4. ASSUME NEW p \in Prompts, Spliced(p) PROVE FollowStep
    BY <1>0, <1>1, <1>2, <2>4, SplicedFollow DEF Spliced, DeskAlone
  <2>5. ASSUME NEW p \in Prompts, TurnEnds(p) PROVE FollowStep
    BY <1>0, <1>1, <2>5, TurnEndFollow
  <2>6. CASE \/ \E kind \in {"gui", "server"} : DeskStarts(kind)
             \/ DeskSteps \/ \E s \in {"idle", "running"} : DeskEnds(s)
    BY <1>0, <1>1, <2>6, DeskFollow
  <2>7. CASE Quiet
    BY <1>0, <2>7, QuietFollow
  <2>8. CASE PrepareStep
    BY <1>0, <2>8, PrepareFollow
  <2>9. CASE Boundary
    BY <1>0, <1>1, <2>9, BoundaryFollow
  <2>10. CASE AttemptRestart
    BY <1>0, <1>1, <2>10, RetryFollow
  <2>11. CASE Crash
    BY <1>0, <1>1, <2>11, CrashFollow
  <2>12. DataStep
    BY DataForms
  <2> QED
    BY <2>1, <2>2, <2>3, <2>4, <2>5, <2>6, <2>7, <2>8, <2>9, <2>10, <2>11, <2>12 DEF DataStep
<1>4. \A x \in ToSet(accepted') : stage'[x] = "returned"
  <2>1. \A x \in ToSet(accepted) : x \in Prompts
    BY <1>1
  <2>2. CASE Crash
    <3>1. ToSet(accepted') \subseteq ToSet(accepted)
      BY <1>1, <2>2, OnlyMembers DEF Crash
    <3>2. \A x \in ToSet(accepted) : x \notin note
      BY <1>1, PromptKinds, TypeParts DEF OtherTypes
    <3> QED
      BY <1>0, <2>1, <2>2, <3>1, <3>2 DEF Crash
  <2>3. CASE ~Crash /\ accepted' = accepted
    BY <1>0, <2>1, <2>3, StageStep
  <2>4. ASSUME NEW e \in Events, Joined(e), ~Crash
        PROVE  \A x \in ToSet(accepted') : stage'[x] = "returned"
    <3>1. ToSet(accepted') = ToSet(accepted) \cup {e} /\ e \in Prompts
      BY <1>1, <2>4, PromptsJoin DEF Joined
    <3>2. stage'[e] = "returned"
      BY <3>1, <2>4, TypeParts DEF Joined, ControlTypes
    <3> QED
      BY <1>0, <2>1, <2>4, <3>1, <3>2, StageStep
  <2>5. DataStep
    BY DataForms
  <2>6. Crash \/ accepted' = accepted \/ \E e \in Events : Joined(e)
    BY <2>5
    DEF DataStep, Quiet, Spoken, Restarts, Spliced, TurnEnds, DeskStarts, DeskSteps, DeskEnds,
        PrepareStep, Boundary, AttemptRestart, history
  <2> QED
    BY <2>2, <2>3, <2>4, <2>6
<1> QED
  BY <1>3, <1>4 DEF FollowStep, FollowInv, Follows, Later


-----------------------------------------------------------------------------
(* The inductive invariant, and what follows from it.                      *)

LEMMA InitHolds == Init => IInv
<1> SUFFICES ASSUME Init PROVE IInv
  OBVIOUS
<1>1. /\ ContinueBudget \in Nat /\ MaxAnswers \in Nat
      /\ <<>> \in Seq(Prompts) /\ <<>> \in Seq(Events) /\ ToSet(<<>>) = {}
      /\ DOMAIN <<>> = {} /\ IsInjective(<<>>)
  BY BoundsAssumption, EmptySeq, MembersOfEmpty DEF IsInjective
<1>2. DataTypes
  BY <1>1, NothingTaken DEF Init, DataTypes
<1>3. ControlTypes
  BY <1>1, PromptKinds DEF Init, ControlTypes, Stages
<1>4. OtherTypes
  <2>1. /\ alert \in [Alerts -> {"open", "answered", "dismissed"}]
        /\ given \in [Alerts -> 0..MaxAnswers] /\ note \subseteq Recovered
        /\ budget \in [Prompts -> 0..ContinueBudget]
    BY <1>1 DEF Init
  <2>2. /\ status \in {"idle", "running"} /\ desk \in {"none", "gui", "server"}
        /\ accepted \in Seq(Events) /\ intruded \in BOOLEAN
        /\ ahead \in [Events -> SUBSET Resumes]
    BY <1>1 DEF Init
  <2>3. {retries, faults, deskTurns, crashes} \subseteq Nat
    BY DEF Init
  <2> QED
    BY <2>1, <2>2, <2>3 DEF OtherTypes
<1>5. TypeOK
  BY <1>2, <1>3, <1>4, TypeParts
<1>6. \A p \in Prompts : stage[p] = "none" /\ ~InFlight(p)
  BY DEF Init, InFlight
<1>7. Handed = {} /\ ToSet(turn.landed) = {} /\ ToSet(Line) = {} /\ Line = branch \o Rest
      /\ ToSet(branch) = {} /\ Line \in Seq(Prompts)
  <2>1. PieceTypes /\ turn = NoFollowUps /\ queue = <<>> /\ branch = <<>>
    BY <1>2 DEF Init, DataTypes, PieceTypes
  <2> QED
    BY <1>1, <2>1, NothingTaken, Pieces, Rests DEF Handed, Taken
<1>8. SlotInv /\ GivenInv
  BY <1>1, <1>6, PromptKinds DEF Init, SlotInv, GivenInv
<1>9. HeldInv
  BY <1>7 DEF HeldInv
<1>10. AnswerInv
  BY <1>6, <1>7, PromptKinds DEF AnswerInv, Held
<1>11. DeskInv
  BY <1>1, <1>7, PromptKinds DEF Init, DeskInv, Handed
<1>12. AheadInv
  BY DEF Init, AheadInv
<1>13. FollowInv
  <2>1. accepted = <<>> /\ branch = <<>> /\ turn.landed = <<>>
    BY NothingTaken DEF Init
  <2>2. Line = <<>>
    BY <1>7, MembersOfSeq
  <2> DEFINE none == <<>>
  <2>3. none \in Seq(Prompts) /\ ToSet(none) = {} /\ Only(none, ToSet(none)) = none
    BY <1>1, OnlyEmpty
  <2> HIDE DEF none
  <2>4. Follows(none, none)
    BY <2>3 DEF Follows
  <2>5. Later(none, none, <<>>)
    BY <2>3, LaterNone
  <2> QED
    BY <1>1, <2>1, <2>2, <2>4, <2>5, FollowParts DEF none
<1> QED
  BY <1>5, <1>8, <1>9, <1>10, <1>11, <1>12, <1>13 DEF IInv

LEMMA StepHolds ==
    ASSUME IInv, [Next]_vars
    PROVE  IInv'
<1>1. TypeOK /\ SlotInv /\ GivenInv /\ HeldInv /\ AnswerInv
  BY DEF IInv
<1>2. TypeOK' /\ SlotInv' /\ GivenInv' /\ HeldInv' /\ AnswerInv'
  BY <1>1, TypesStep, HeldStep, AnswerStep
<1>3. ASSUME ~intruded' PROVE DeskInv' /\ AheadInv' /\ FollowInv'
  <2>1. DeskInv /\ AheadInv /\ FollowInv
    BY <1>1, <1>3, IntrudedStays DEF IInv
  <2> QED
    BY <1>1, <1>3, <2>1, DeskStep, AheadStep, FollowsStep
<1> QED
  BY <1>2, <1>3 DEF IInv

(* What the order of a conversation's actions, the alerts, the queue, the  *)
(* live turn and the branch have to do with each other in every state.     *)
(* actions.ts 447-1540, alerts.ts 118-735, agent.ts 4067-4153.             *)
THEOREM InvariantHolds == Spec => []IInv
  BY InitHolds, StepHolds, PTL DEF Spec

(* The state of the turns has the types TypeOK gives it: in particular an  *)
(* action waits in the order once, and only the live turn runs.            *)
(* orderedConversationTails, actions.ts 92-104 and 447-520.                *)
THEOREM TypeCorrect == Spec => []TypeOK
<1>1. IInv => TypeOK
  BY DEF IInv
<1> QED
  BY <1>1, InvariantHolds, PTL

(* An open alert has no answer under way, in the queue or in the           *)
(* conversation, and another one has at most one, whatever fails: resume   *)
(* opens an alert again only when its answer was not saved.                *)
(* alerts.ts 673-735.                                                      *)
THEOREM AlertsAreAnsweredOnce == Spec => []OneAnswerPerAlert
<1>1. IInv => OneAnswerPerAlert
  <2> SUFFICES ASSUME IInv, NEW a \in Alerts
               PROVE  LET S == {p \in {a} \X (1..MaxAnswers) : Counts(p)}
                      IN  Cardinality(S) <= (IF alert[a] = "open" THEN 0 ELSE 1)
    BY DEF OneAnswerPerAlert
  <2> DEFINE S == {p \in {a} \X (1..MaxAnswers) : Counts(p)}
  <2>1. ASSUME NEW p \in S PROVE \E m \in 1..MaxAnswers : p = <<a, m>> /\ Held(<<a, m>>)
    <3>1. PICK m \in 1..MaxAnswers : p = <<a, m>>
      OBVIOUS
    <3>2. /\ branch \in Seq(Prompts) /\ queue \in Seq(Prompts)
          /\ ToSet(Line) = ToSet(branch) \cup Handed
      BY TypedPieces, Pieces DEF IInv, PieceTypes
    <3>3. p \in ToSet(branch \o queue) => p \in ToSet(Line)
      BY <3>2, PromptsJoin DEF Handed
    <3> QED
      BY <3>1, <3>3 DEF Counts, Held, InFlight
  <2> HIDE DEF S
  <2>2. AnswerInv
    BY DEF IInv
  <2>3. CASE S = {}
    BY <2>3, FS_EmptySet DEF S
  <2>4. ASSUME NEW p \in S PROVE alert[a] # "open" /\ Cardinality(S) = 1
    <3>1. PICK m \in 1..MaxAnswers : p = <<a, m>> /\ Held(<<a, m>>)
      BY <2>1
    <3>2. alert[a] # "open" /\ \A n \in 1..MaxAnswers : Held(<<a, n>>) => m = n
      BY <2>2, <3>1 DEF AnswerInv
    <3>3. \A q \in S : q = p
      BY <2>1, <3>1, <3>2
    <3>4. S = {p}
      BY <3>3
    <3> QED
      BY <3>2, <3>4, FS_Singleton
  <2> QED
    BY <2>3, <2>4 DEF S
<1> QED
  BY <1>1, InvariantHolds, PTL

(* The answer of a turn that had ended is in the conversation or recorded, *)
(* through failures and crashes. deliverRecoveredAnswer, alerts.ts         *)
(* 118-475.                                                                *)
THEOREM RecoveredStayRecorded == Spec => []RecoveredIsRecorded
<1>1. IInv => RecoveredIsRecorded
  BY DEF IInv, DeskInv, RecoveredIsRecorded
<1> QED
  BY <1>1, InvariantHolds, PTL

(* An event that comes while an answer waits does not get ahead of it in   *)
(* the conversation. enqueueOrderedConversationTurn,                       *)
(* actions.ts 92-104 and 447-520.                                          *)
THEOREM AnswersStayAhead == Spec => []AnswersAreNotOvertaken
<1>1. IInv => AnswersAreNotOvertaken
  <2> SUFFICES ASSUME IInv, ~intruded, NEW i \in DOMAIN branch, branch[i] \in Events,
                      NEW p \in ahead[branch[i]]
               PROVE  /\ p \notin OnTheWay
                      /\ Saved(p) => \E j \in 1..(i - 1) : branch[j] = p
    BY DEF AnswersAreNotOvertaken
  <2> DEFINE e == branch[i]
  <2>1. /\ e \in Events /\ e \in Prompts /\ p \in Resumes /\ p \in Prompts /\ p # e
        /\ branch \in Seq(Prompts) /\ e \in ToSet(branch)
    BY PromptKinds, TypeParts DEF IInv, OtherTypes, DataTypes, ToSet
  <2>2. /\ p \in ToSet(tails) => e \notin ToSet(Line)
        /\ p \in ToSet(Line) => Before(p, e, Line)
    BY <2>1 DEF IInv, AheadInv
  <2> HIDE DEF e
  <2>3. /\ ToSet(Line) = ToSet(branch) \cup Handed
        /\ Rest \in Seq(Prompts) /\ Line = branch \o Rest
    BY TypedPieces, Pieces, Rests DEF IInv
  <2>4. p \notin OnTheWay
    BY <2>1, <2>2, <2>3 DEF IInv, SlotInv, OnTheWay, InFlight
  <2>5. ASSUME Saved(p) PROVE \E j \in 1..(i - 1) : branch[j] = p
    <3>1. Before(p, e, branch \o Rest)
      BY <2>2, <2>3, <2>5 DEF Saved
    <3>2. Before(p, e, branch)
      BY <2>1, <2>3, <3>1, BeforeParts
    <3> QED
      BY <2>1, <3>2, BeforePosition DEF e
  <2> QED
    BY <2>4, <2>5
<1> QED
  BY <1>1, InvariantHolds, PTL

(* The follow-ups of a turn of an automation are kept once and in order,   *)
(* by the branch, the turn or the queue, through failed saves, restarts of *)
(* the turn, broken streams and leftovers. flushInjectedBoundary,          *)
(* handleAttemptRestart and the finally of runAgentAction, actions.ts      *)
(* 926-1185 and 1416-1540.                                                 *)
THEOREM FollowUpsStay == Spec => []FollowUpsAreKept
<1>1. IInv => FollowUpsAreKept
  BY DEF IInv, FollowInv, FollowUpsAreKept
<1> QED
  BY <1>1, InvariantHolds, PTL
=============================================================================
