-------------------------- MODULE TemplateLabelsProofs --------------------------
(***************************************************************************)
(* What the label editor's functions do with every template and every set  *)
(* of labels.  The argument lists have any length: the facts about them    *)
(* are proved by induction, on sets rather than on predicates, from the    *)
(* library's theorem that the order of the natural numbers is well         *)
(* founded.                                                                *)
(***************************************************************************)
EXTENDS TemplateLabels, WellFoundedInduction, SequenceTheorems, TLAPS

---------------------------------------------------------------------------
\* Induction

\* Every nonempty set of naturals has a least element.
LEMMA LeastNatural ==
    ASSUME NEW T, T \subseteq Nat, T # {}
    PROVE  \E n \in T : \A m \in T : ~ (m < n)
<1> DEFINE Less == {p \in Nat \X Nat : p[1] < p[2]}
<1>1. OpToRel(<, Nat) = Less
    BY DEF OpToRel
<1>2. IsWellFoundedOn(Less, Nat)
    BY <1>1, NatLessThanWellFounded
<1>3. PICK n \in T : \A m \in T : <<m, n>> \notin Less
    BY <1>2, WFMin
<1> QED
    BY <1>3

\* A set with 0 and with the successor of each of its numbers has all of them.
LEMMA NatSetInduction ==
    ASSUME NEW T, 0 \in T, \A n \in Nat : n \in T => n + 1 \in T
    PROVE  \A n \in Nat : n \in T
<1> DEFINE Left == {n \in Nat : n \notin T}
<1> SUFFICES ASSUME Left # {} PROVE FALSE
    OBVIOUS
<1>1. PICK n \in Left : \A m \in Left : ~ (m < n)
    BY LeastNatural
<1>2. n - 1 \in Nat /\ n - 1 < n /\ n = (n - 1) + 1
    BY <1>1
<1>3. n - 1 \in T
    BY <1>1, <1>2
<1> QED
    BY <1>1, <1>2, <1>3

\* A set with the empty sequence that is closed under Append has all sequences.
LEMMA SeqSetInduction ==
    ASSUME NEW X, NEW T, <<>> \in T,
           \A s \in Seq(X), e \in X : s \in T => Append(s, e) \in T
    PROVE  \A s \in Seq(X) : s \in T
<1> DEFINE Done == {n \in Nat : \A s \in Seq(X) : Len(s) = n => s \in T}
<1>1. 0 \in Done
    BY EmptySeq
<1>2. ASSUME NEW n \in Nat, n \in Done PROVE n + 1 \in Done
  <2> SUFFICES ASSUME NEW s \in Seq(X), Len(s) = n + 1 PROVE s \in T
      OBVIOUS
  <2>1. s # <<>>
      BY EmptySeq
  <2>2. PICK r \in Seq(X), e \in X : s = Append(r, e)
      BY <2>1, SequenceEmptyOrAppend
  <2>3. Len(r) \in Nat /\ Len(s) = Len(r) + 1
      BY <2>2, LenProperties, AppendProperties
  <2>4. r \in T
      BY <1>2, <2>3
  <2> QED
      BY <2>2, <2>4
<1> HIDE DEF Done
<1>3. \A n \in Nat : n \in Done
    BY <1>1, <1>2, NatSetInduction
<1> QED
    BY <1>3, LenProperties DEF Done

\* The greatest of finitely many places is one of them.
LEMMA MaxOfPlaces ==
    ASSUME NEW n \in Nat, NEW P, P \subseteq 1 .. n, P # {}
    PROVE  Max(P) \in P /\ \A y \in P : y <= Max(P)
<1> DEFINE Bound == {m \in Nat : \A y \in P : y <= m}
<1>1. n \in Bound
    OBVIOUS
<1>2. PICK m \in Bound : \A k \in Bound : ~ (k < m)
    BY <1>1, LeastNatural
<1>3. m \in P
  <2> SUFFICES ASSUME m \notin P PROVE FALSE
      OBVIOUS
  <2>1. PICK y \in P : y <= m
      BY <1>2
  <2>2. m - 1 \in Nat
      BY <1>2, <2>1
  <2>3. \A z \in P : z <= m /\ z # m /\ z \in Nat
      BY <1>2
  <2>4. m - 1 \in Bound
      BY <1>2, <2>2, <2>3
  <2> QED
      BY <1>2, <2>2, <2>4
<1>4. \E x \in P : \A y \in P : x >= y
    BY <1>2, <1>3
<1>5. Max(P) \in P /\ \A y \in P : Max(P) >= y
    BY <1>4 DEF Max
<1> QED
    BY <1>5

---------------------------------------------------------------------------
\* Sift

\* One step of the recursion that defines Sift
SiftStep(s, S, g, n) ==
    IF n = 0 THEN <<>>
    ELSE IF s[n] \in S THEN Append(g[n - 1], s[n]) ELSE g[n - 1]

IsSift(s, S, g) == g = [n \in 0 .. Len(s) |-> SiftStep(s, S, g, n)]

\* The function that Sift chooses exists.
LEMMA SiftDefined ==
    ASSUME NEW X, NEW s \in Seq(X), NEW S
    PROVE  \E g : IsSift(s, S, g) /\ Sift(s, S) = g[Len(s)]
<1> DEFINE Ends == {m \in Nat : \E g : g = [n \in 0 .. m |-> SiftStep(s, S, g, n)]}
<1>1. 0 \in Ends
  <2> DEFINE g == [n \in 0 .. 0 |-> <<>>]
  <2>1. g = [n \in 0 .. 0 |-> SiftStep(s, S, g, n)]
      BY DEF SiftStep
  <2> QED
      BY <2>1
<1>2. ASSUME NEW m \in Nat, m \in Ends PROVE m + 1 \in Ends
  <2>1. PICK g : g = [n \in 0 .. m |-> SiftStep(s, S, g, n)]
      BY <1>2
  <2> DEFINE h == [n \in 0 .. m + 1 |-> IF n = m + 1 THEN SiftStep(s, S, g, n) ELSE g[n]]
  <2>2. \A n \in 0 .. m : g[n] = SiftStep(s, S, g, n)
      BY <2>1
  <2>3. \A n \in 0 .. m + 1 : h[n] = SiftStep(s, S, g, n)
      BY <2>2
  <2>4. \A n \in 0 .. m : h[n] = g[n]
      OBVIOUS
  <2>5. \A n \in 0 .. m + 1 : n = 0 \/ n - 1 \in 0 .. m
      OBVIOUS
  <2>6. DOMAIN h = 0 .. m + 1 /\ h = [n \in DOMAIN h |-> h[n]]
      OBVIOUS
  <2> HIDE DEF h
  <2>7. \A n \in 0 .. m + 1 : h[n] = SiftStep(s, S, h, n)
      BY <2>3, <2>4, <2>5 DEF SiftStep
  <2>8. h = [n \in 0 .. m + 1 |-> SiftStep(s, S, h, n)]
      BY <2>6, <2>7
  <2> QED
      BY <2>8
<1>3. Len(s) \in Ends
  <2> HIDE DEF Ends
  <2>1. \A m \in Nat : m \in Ends
      BY <1>1, <1>2, NatSetInduction
  <2> QED
      BY <2>1, LenProperties
<1> DEFINE f == CHOOSE g : IsSift(s, S, g)
<1>4. Sift(s, S) = f[Len(s)]
    BY DEF Sift, IsSift, SiftStep
<1>5. \E g : IsSift(s, S, g)
    BY <1>3 DEF IsSift
<1>6. IsSift(s, S, f)
    BY <1>5
<1> HIDE DEF f
<1> QED
    BY <1>4, <1>6

\* Sift of the empty sequence, and of one that has got an element more
LEMMA SiftEmpty ==
    ASSUME NEW S
    PROVE  Sift(<<>>, S) = <<>>
<1>1. <<>> \in Seq({}) /\ Len(<<>>) = 0
    BY EmptySeq
<1>2. PICK g : IsSift(<<>>, S, g) /\ Sift(<<>>, S) = g[Len(<<>>)]
    BY <1>1, SiftDefined
<1> QED
    BY <1>1, <1>2 DEF IsSift, SiftStep

LEMMA SiftAppend ==
    ASSUME NEW X, NEW s \in Seq(X), NEW e \in X, NEW S
    PROVE  Sift(Append(s, e), S) = IF e \in S THEN Append(Sift(s, S), e) ELSE Sift(s, S)
<1> DEFINE t == Append(s, e)
           len == Len(s)
<1>1. /\ t \in Seq(X) /\ len \in Nat /\ Len(t) = len + 1
      /\ t[len + 1] = e /\ \A n \in 1 .. len : t[n] = s[n]
    BY AppendProperties, LenProperties
<1>2. PICK g : IsSift(s, S, g) /\ Sift(s, S) = g[len]
    BY SiftDefined
<1>3. PICK h : IsSift(t, S, h) /\ Sift(t, S) = h[Len(t)]
    BY <1>1, SiftDefined
<1> HIDE DEF t, len
<1>4. \A n \in 0 .. len : g[n] = SiftStep(s, S, g, n)
    BY <1>2 DEF IsSift, len
<1>5. \A n \in 0 .. len + 1 : h[n] = SiftStep(t, S, h, n)
    BY <1>1, <1>3 DEF IsSift
<1> DEFINE Same == {n \in Nat : n <= len => g[n] = h[n]}
<1>6. 0 \in Same
    BY <1>1, <1>4, <1>5 DEF SiftStep
<1>7. ASSUME NEW n \in Nat, n \in Same PROVE n + 1 \in Same
  <2> SUFFICES ASSUME n + 1 <= len PROVE g[n + 1] = h[n + 1]
      OBVIOUS
  <2>1. g[n] = h[n] /\ t[n + 1] = s[n + 1] /\ (n + 1) - 1 = n /\ n + 1 # 0
      BY <1>1, <1>7
  <2>2. g[n + 1] = SiftStep(s, S, g, n + 1) /\ h[n + 1] = SiftStep(t, S, h, n + 1)
      BY <1>1, <1>4, <1>5
  <2> QED
      BY <2>1, <2>2 DEF SiftStep
<1>8. g[len] = h[len]
  <2> HIDE DEF Same
  <2>1. \A n \in Nat : n \in Same
      BY <1>6, <1>7, NatSetInduction
  <2> QED
      BY <1>1, <2>1 DEF Same
<1>9. h[len + 1] = IF e \in S THEN Append(h[len], e) ELSE h[len]
  <2>1. h[len + 1] = SiftStep(t, S, h, len + 1) /\ len + 1 # 0 /\ (len + 1) - 1 = len
      BY <1>1, <1>5
  <2> QED
      BY <1>1, <2>1 DEF SiftStep
<1> QED
    BY <1>1, <1>2, <1>3, <1>8, <1>9 DEF t

\* What is sifted out of a sequence are elements of both.
LEMMA SiftType ==
    ASSUME NEW X, NEW S
    PROVE  \A s \in Seq(X) : Sift(s, S) \in Seq(X \cap S)
<1> DEFINE T == {s \in Seq(X) : Sift(s, S) \in Seq(X \cap S)}
<1>1. <<>> \in T
    BY SiftEmpty, EmptySeq
<1>2. ASSUME NEW s \in Seq(X), NEW e \in X, s \in T PROVE Append(s, e) \in T
  <2>1. Append(s, e) \in Seq(X)
      BY AppendProperties
  <2>2. e \in S => Append(Sift(s, S), e) \in Seq(X \cap S)
      BY <1>2, AppendProperties
  <2> QED
      BY <1>2, <2>1, <2>2, SiftAppend
<1> HIDE DEF T
<1>3. \A s \in Seq(X) : s \in T
    BY <1>1, <1>2, SeqSetInduction
<1> QED
    BY <1>3 DEF T

LEMMA SiftWithin ==
    ASSUME NEW X, NEW S, NEW s \in Seq(X)
    PROVE  Sift(s, S) \in Seq(X)
<1>1. Sift(s, S) \in Seq(X \cap S)
    BY SiftType
<1>2. X \cap S \subseteq X
    OBVIOUS
<1> QED
    BY <1>1, <1>2, SeqMonotonic

\* Nothing that belongs to S is lost.
LEMMA SiftKeeps ==
    ASSUME NEW X, NEW S
    PROVE  \A s \in Seq(X) : \A x \in Range(s) \cap S : x \in Range(Sift(s, S))
<1> DEFINE T == {s \in Seq(X) : \A x \in Range(s) \cap S : x \in Range(Sift(s, S))}
<1>0. \A s \in Seq(X), e \in X : Range(Append(s, e)) = Range(s) \cup {e}
  <2> SUFFICES ASSUME NEW s \in Seq(X), NEW e \in X
               PROVE  Range(Append(s, e)) = Range(s) \cup {e}
      OBVIOUS
  <2>1. /\ Len(s) \in Nat /\ DOMAIN s = 1 .. Len(s)
        /\ DOMAIN Append(s, e) = 1 .. (Len(s) + 1)
        /\ \A i \in 1 .. Len(s) : Append(s, e)[i] = s[i]
        /\ Append(s, e)[Len(s) + 1] = e
      BY AppendProperties, LenProperties
  <2> QED
      BY <2>1 DEF Range
<1>1. <<>> \in T
  <2>1. Range(<<>>) = {} /\ <<>> \in Seq(X)
      BY EmptySeq DEF Range
  <2> QED
      BY <2>1
<1>2. ASSUME NEW s \in Seq(X), NEW e \in X, s \in T PROVE Append(s, e) \in T
  <2>1. Append(s, e) \in Seq(X) /\ Range(Append(s, e)) = Range(s) \cup {e}
      BY <1>0, AppendProperties
  <2>2. e \in S => Range(Append(Sift(s, S), e)) = Range(Sift(s, S)) \cup {e}
    <3>1. Sift(s, S) \in Seq(X)
        BY SiftWithin
    <3> QED
        BY <1>0, <3>1
  <2>3. Sift(Append(s, e), S) = IF e \in S THEN Append(Sift(s, S), e) ELSE Sift(s, S)
      BY SiftAppend
  <2>4. \A x \in Range(s) \cap S : x \in Range(Sift(s, S))
      BY <1>2
  <2>5. CASE e \in S
      BY <2>1, <2>2, <2>3, <2>4, <2>5
  <2>6. CASE e \notin S
      BY <2>1, <2>3, <2>4, <2>6
  <2> QED
      BY <2>5, <2>6
<1> HIDE DEF T
<1>3. \A s \in Seq(X) : s \in T
    BY <1>1, <1>2, SeqSetInduction
<1> QED
    BY <1>3 DEF T

\* Sifting one sequence after the other
LEMMA SiftConcat ==
    ASSUME NEW X, NEW S, NEW s \in Seq(X)
    PROVE  \A t \in Seq(X) : Sift(s \o t, S) = Sift(s, S) \o Sift(t, S)
<1> DEFINE T == {t \in Seq(X) : Sift(s \o t, S) = Sift(s, S) \o Sift(t, S)}
<1>0. \A t \in Seq(X) : Sift(t, S) \in Seq(X)
    BY SiftWithin
<1>1. <<>> \in T
  <2>1. s \o <<>> = s /\ Sift(s, S) \o <<>> = Sift(s, S) /\ <<>> \in Seq(X)
      BY <1>0, ConcatEmptySeq, EmptySeq
  <2> QED
      BY <2>1, SiftEmpty
<1>2. ASSUME NEW t \in Seq(X), NEW e \in X, t \in T PROVE Append(t, e) \in T
  <2>1. Append(t, e) \in Seq(X) /\ s \o t \in Seq(X)
      BY AppendProperties, ConcatProperties
  <2>2. s \o Append(t, e) = Append(s \o t, e)
    <3>1. <<e>> \in Seq(X)
        OBVIOUS
    <3> QED
        BY <2>1, <3>1, AppendIsConcat, ConcatAssociative
  <2>3. Sift(s, S) \o Append(Sift(t, S), e) = Append(Sift(s, S) \o Sift(t, S), e)
    <3>1. /\ <<e>> \in Seq(X) /\ Sift(s, S) \in Seq(X) /\ Sift(t, S) \in Seq(X)
          /\ Sift(s, S) \o Sift(t, S) \in Seq(X)
        BY <1>0, ConcatProperties
    <3> QED
        BY <3>1, AppendIsConcat, ConcatAssociative
  <2>4. Sift(Append(t, e), S) = IF e \in S THEN Append(Sift(t, S), e) ELSE Sift(t, S)
      BY SiftAppend
  <2>5. Sift(Append(s \o t, e), S)
          = IF e \in S THEN Append(Sift(s \o t, S), e) ELSE Sift(s \o t, S)
      BY <2>1, SiftAppend
  <2>6. Sift(s \o t, S) = Sift(s, S) \o Sift(t, S)
      BY <1>2
  <2>7. CASE e \in S
      BY <2>1, <2>2, <2>3, <2>4, <2>5, <2>6, <2>7
  <2>8. CASE e \notin S
      BY <2>1, <2>2, <2>4, <2>5, <2>6, <2>8
  <2> QED
      BY <2>7, <2>8
<1> HIDE DEF T
<1>3. \A t \in Seq(X) : t \in T
    BY <1>1, <1>2, SeqSetInduction
<1> QED
    BY <1>3 DEF T

\* Sifting twice is sifting with the smaller set.
LEMMA SiftTwice ==
    ASSUME NEW X, NEW S, NEW R, R \subseteq S
    PROVE  \A s \in Seq(X) : Sift(Sift(s, S), R) = Sift(s, R)
<1> DEFINE T == {s \in Seq(X) : Sift(Sift(s, S), R) = Sift(s, R)}
<1>1. <<>> \in T
    BY SiftEmpty, EmptySeq
<1>2. ASSUME NEW s \in Seq(X), NEW e \in X, s \in T PROVE Append(s, e) \in T
  <2>1. Append(s, e) \in Seq(X) /\ Sift(s, S) \in Seq(X)
      BY AppendProperties, SiftWithin
  <2>2. Sift(Append(Sift(s, S), e), R)
          = IF e \in R THEN Append(Sift(s, R), e) ELSE Sift(s, R)
      BY <1>2, <2>1, SiftAppend
  <2>3. Sift(Append(s, e), R) = IF e \in R THEN Append(Sift(s, R), e) ELSE Sift(s, R)
      BY SiftAppend
  <2>4. Sift(Append(s, e), S) = IF e \in S THEN Append(Sift(s, S), e) ELSE Sift(s, S)
      BY SiftAppend
  <2>5. CASE e \in S
      BY <2>1, <2>2, <2>3, <2>4, <2>5
  <2>6. CASE e \notin S
      BY <1>2, <2>1, <2>3, <2>4, <2>6
  <2> QED
      BY <2>5, <2>6
<1> HIDE DEF T
<1>3. \A s \in Seq(X) : s \in T
    BY <1>1, <1>2, SeqSetInduction
<1> QED
    BY <1>3 DEF T

\* What is not in the sequence makes no difference.
LEMMA SiftSame ==
    ASSUME NEW X, NEW S, NEW R, X \cap S = X \cap R
    PROVE  \A s \in Seq(X) : Sift(s, S) = Sift(s, R)
<1> DEFINE T == {s \in Seq(X) : Sift(s, S) = Sift(s, R)}
<1>1. <<>> \in T
    BY SiftEmpty, EmptySeq
<1>2. ASSUME NEW s \in Seq(X), NEW e \in X, s \in T PROVE Append(s, e) \in T
  <2>1. Append(s, e) \in Seq(X) /\ (e \in S <=> e \in R)
      BY AppendProperties
  <2>2. Sift(Append(s, e), S) = IF e \in S THEN Append(Sift(s, S), e) ELSE Sift(s, S)
      BY SiftAppend
  <2>3. Sift(Append(s, e), R) = IF e \in R THEN Append(Sift(s, R), e) ELSE Sift(s, R)
      BY SiftAppend
  <2> QED
      BY <1>2, <2>1, <2>2, <2>3
<1> HIDE DEF T
<1>3. \A s \in Seq(X) : s \in T
    BY <1>1, <1>2, SeqSetInduction
<1> QED
    BY <1>3 DEF T

\* A sequence without an element of S leaves nothing.
LEMMA SiftNothing ==
    ASSUME NEW X, NEW S, X \cap S = {}
    PROVE  \A s \in Seq(X) : Sift(s, S) = <<>>
<1>1. \A t \in Seq({}) : t = <<>>
    BY EmptySeq
<1> QED
    BY <1>1, SiftType

---------------------------------------------------------------------------
\* The arguments of a save

\* The elements of a concatenation are those of its parts.
LEMMA RangeConcat ==
    ASSUME NEW X, NEW s \in Seq(X), NEW t \in Seq(X)
    PROVE  Range(s \o t) = Range(s) \cup Range(t)
<1>1. /\ Len(s) \in Nat /\ Len(t) \in Nat
      /\ DOMAIN s = 1 .. Len(s) /\ DOMAIN t = 1 .. Len(t)
      /\ DOMAIN (s \o t) = 1 .. Len(s) + Len(t)
      /\ \A i \in 1 .. Len(s) : (s \o t)[i] = s[i]
      /\ \A i \in 1 .. Len(s) + Len(t) : i > Len(s) => (s \o t)[i] = t[i - Len(s)]
    OBVIOUS
<1>2. ASSUME NEW x \in Range(s \o t) PROVE x \in Range(s) \cup Range(t)
  <2>1. PICK i \in 1 .. Len(s) + Len(t) : x = (s \o t)[i]
      BY <1>1, <1>2 DEF Range
  <2>2. CASE i \in 1 .. Len(s)
      BY <1>1, <2>1, <2>2 DEF Range
  <2>3. CASE i \notin 1 .. Len(s)
    <3>1. i - Len(s) \in 1 .. Len(t) /\ i > Len(s)
        BY <1>1, <2>1, <2>3
    <3> QED
        BY <1>1, <2>1, <3>1 DEF Range
  <2> QED
      BY <2>2, <2>3
<1>3. ASSUME NEW x \in Range(s) PROVE x \in Range(s \o t)
    BY <1>1 DEF Range
<1>4. ASSUME NEW x \in Range(t) PROVE x \in Range(s \o t)
  <2>1. PICK i \in 1 .. Len(t) : x = t[i]
      BY <1>1, <1>4 DEF Range
  <2>2. Len(s) + i \in 1 .. Len(s) + Len(t) /\ (s \o t)[Len(s) + i] = t[i]
      BY <1>1, <2>1
  <2> QED
      BY <1>1, <2>1, <2>2 DEF Range
<1> QED
    BY <1>2, <1>3, <1>4

LEMMA RangeWithin ==
    ASSUME NEW X, NEW s \in Seq(X)
    PROVE  Range(s) \subseteq X
    BY DEF Range

\* The labels of a key
Keyed(k) == {a \in Arg : IsLabel(a) /\ a.key = k}

\* One argument more is read after the others.
LEMMA LabelsAppend ==
    ASSUME NEW s \in Seq(Arg), NEW e \in Arg, NEW k
    PROVE  /\ k \in DOMAIN LabelsOf(Append(s, e)) <=> k \in DOMAIN LabelsOf(s) \/ e \in Keyed(k)
           /\ k \in DOMAIN LabelsOf(Append(s, e)) =>
                LabelsOf(Append(s, e))[k] = IF e \in Keyed(k) THEN e.value ELSE LabelsOf(s)[k]
<1> DEFINE t == Append(s, e)
           n == Len(s) + 1
           Places(args) == {i \in DOMAIN args : IsLabel(args[i]) /\ args[i].key = k}
<1>1. /\ Len(s) \in Nat /\ DOMAIN s = 1 .. Len(s) /\ DOMAIN t = 1 .. n
      /\ \A i \in 1 .. Len(s) : t[i] = s[i]
      /\ t[n] = e
    BY AppendProperties, LenProperties
<1>2. ASSUME NEW args
      PROVE  /\ k \in DOMAIN LabelsOf(args) <=> Places(args) # {}
             /\ Places(args) # {} => LabelsOf(args)[k] = args[Max(Places(args))].value
  <2> DEFINE labels == {i \in DOMAIN args : IsLabel(args[i])}
  <2>1. Places(args) = {i \in labels : args[i].key = k}
      OBVIOUS
  <2>2. DOMAIN LabelsOf(args) = {args[i].key : i \in labels}
      BY DEF LabelsOf
  <2>3. k \in DOMAIN LabelsOf(args) => LabelsOf(args)[k] = args[Max(Places(args))].value
      BY <2>1, <2>2 DEF LabelsOf
  <2> QED
      BY <2>1, <2>2, <2>3
<1>3. Places(t) = Places(s) \cup IF e \in Keyed(k) THEN {n} ELSE {}
    BY <1>1 DEF Keyed
<1>4. Places(s) \subseteq 1 .. Len(s) /\ Places(t) \subseteq 1 .. n /\ n \in Nat
    BY <1>1
<1> HIDE DEF t, n, Places
<1>5. CASE e \in Keyed(k)
  <2>1. n \in Places(t) /\ Places(t) # {}
      BY <1>3, <1>5
  <2>2. Max(Places(t)) \in 1 .. n /\ n <= Max(Places(t))
      BY <1>4, <2>1, MaxOfPlaces
  <2>3. Max(Places(t)) = n
      BY <1>4, <2>2
  <2> QED
      BY <1>1, <1>2, <1>5, <2>1, <2>3 DEF t
<1>6. CASE e \notin Keyed(k)
  <2>1. Places(t) = Places(s)
      BY <1>3, <1>6
  <2>2. Places(s) # {} => Max(Places(s)) \in 1 .. Len(s)
      BY <1>1, <1>4, MaxOfPlaces
  <2>3. Places(s) # {} => t[Max(Places(s))] = s[Max(Places(s))]
      BY <1>1, <2>2
  <2> QED
      BY <1>2, <1>6, <2>1, <2>3 DEF t
<1> QED
    BY <1>5, <1>6

\* The labels hold, of each key, the value of its last argument.
LEMMA LastOfKey ==
    ASSUME NEW k
    PROVE  \A args \in Seq(Arg) :
               LET found == Sift(args, Keyed(k))
               IN  /\ k \in DOMAIN LabelsOf(args) <=> found # <<>>
                   /\ found # <<>> => LabelsOf(args)[k] = found[Len(found)].value
<1> DEFINE Holds(args, found) ==
             /\ k \in DOMAIN LabelsOf(args) <=> found # <<>>
             /\ found # <<>> => LabelsOf(args)[k] = found[Len(found)].value
           T == {args \in Seq(Arg) : Holds(args, Sift(args, Keyed(k)))}
<1>1. <<>> \in T
  <2>1. Sift(<<>>, Keyed(k)) = <<>> /\ <<>> \in Seq(Arg)
      BY SiftEmpty, EmptySeq
  <2>2. k \notin DOMAIN LabelsOf(<<>>)
      BY DEF LabelsOf
  <2> QED
      BY <2>1, <2>2
<1>2. ASSUME NEW s \in Seq(Arg), NEW e \in Arg, s \in T PROVE Append(s, e) \in T
  <2> DEFINE found == Sift(s, Keyed(k))
  <2>1. Append(s, e) \in Seq(Arg) /\ found \in Seq(Arg) /\ Holds(s, found)
      BY <1>2, AppendProperties, SiftWithin
  <2>2. Sift(Append(s, e), Keyed(k)) = IF e \in Keyed(k) THEN Append(found, e) ELSE found
      BY SiftAppend
  <2>3. /\ k \in DOMAIN LabelsOf(Append(s, e)) <=> k \in DOMAIN LabelsOf(s) \/ e \in Keyed(k)
        /\ k \in DOMAIN LabelsOf(Append(s, e)) =>
             LabelsOf(Append(s, e))[k] = IF e \in Keyed(k) THEN e.value ELSE LabelsOf(s)[k]
      BY LabelsAppend
  <2> HIDE DEF found
  <2>4. /\ Append(found, e) # <<>>
        /\ Append(found, e)[Len(Append(found, e))] = e
    <3>1. found \in Seq(Arg)
        BY <2>1
    <3> QED
        BY <3>1, AppendProperties, LenProperties
  <2>5. Holds(Append(s, e), Sift(Append(s, e), Keyed(k)))
    <3>1. CASE e \in Keyed(k)
        BY <2>2, <2>3, <2>4, <3>1
    <3>2. CASE e \notin Keyed(k)
        BY <2>1, <2>2, <2>3, <3>2
    <3> QED
        BY <3>1, <3>2
  <2> QED
      BY <2>1, <2>5
<1> HIDE DEF T
<1>3. \A s \in Seq(Arg) : s \in T
    BY <1>1, <1>2, SeqSetInduction
<1> QED
    BY <1>3 DEF T

OwnedArg == {a \in Arg : IsLabel(a) /\ a.key \in PolicyKey /\ ~ a.blank}

\* Labels that a form can ask for
LEMMA WantedLabels ==
    ASSUME NEW labels
    PROVE  LET wanted == PolicyLabels(labels)
           IN  /\ wanted = [k \in DOMAIN wanted |-> wanted[k]]
               /\ DOMAIN wanted \subseteq PolicyKey \cap DOMAIN labels
               /\ \A k \in DOMAIN wanted : wanted[k] # "" /\ wanted[k] = labels[k]
    BY DEF PolicyLabels, Restrict

\* A save appends one argument for each label that is wanted, and no other.
LEMMA AppendedLabels ==
    ASSUME NEW wanted, DOMAIN wanted \subseteq PolicyKey,
           \A k \in DOMAIN wanted : wanted[k] \in Value
    PROVE  /\ LabelArgs(wanted) \in Seq(OwnedArg)
           /\ \A a \in Range(LabelArgs(wanted)) :
                a.key \in DOMAIN wanted /\ a.value = wanted[a.key]
           /\ \A k \in DOMAIN wanted : \E a \in Range(LabelArgs(wanted)) : a.key = k
<1> DEFINE keys == Sift(PolicyOrder, DOMAIN wanted)
           arg(k) == [form |-> "label", key |-> k, value |-> wanted[k], blank |-> FALSE]
<1>1. keys \in Seq(PolicyKey \cap DOMAIN wanted)
    BY SiftType, TemplateAssumption
<1>2. \A k \in DOMAIN wanted : k \in Range(keys)
  <2>1. \A k \in DOMAIN wanted : k \in Range(PolicyOrder) \cap DOMAIN wanted
      BY DEF PolicyKey
  <2> QED
      BY <2>1, SiftKeeps, TemplateAssumption
<1>3. LabelArgs(wanted) = [i \in DOMAIN keys |-> arg(keys[i])]
    BY DEF LabelArgs
<1>4. Len(keys) \in Nat /\ DOMAIN keys = 1 .. Len(keys)
    BY <1>1
<1>5. \A i \in DOMAIN keys : keys[i] \in PolicyKey \cap DOMAIN wanted
    BY <1>1
<1> HIDE DEF keys
<1>6. \A k \in PolicyKey \cap DOMAIN wanted : arg(k) \in OwnedArg
    BY DEF OwnedArg, Arg, OwnedKey, IsLabel
<1>7. \A i \in 1 .. Len(keys) : arg(keys[i]) \in OwnedArg
    BY <1>4, <1>5, <1>6
<1>8. LabelArgs(wanted) \in Seq(OwnedArg)
  <2> HIDE DEF arg
  <2> QED
      BY <1>3, <1>4, <1>7
<1>9. ASSUME NEW a \in Range(LabelArgs(wanted))
      PROVE  a.key \in DOMAIN wanted /\ a.value = wanted[a.key]
  <2>1. PICK i \in DOMAIN keys : a = arg(keys[i])
      BY <1>3, <1>9 DEF Range
  <2> QED
      BY <1>5, <2>1
<1>10. ASSUME NEW k \in DOMAIN wanted
       PROVE  \E a \in Range(LabelArgs(wanted)) : a.key = k
  <2>1. PICK i \in DOMAIN keys : keys[i] = k
      BY <1>2 DEF Range
  <2>2. arg(k) \in Range(LabelArgs(wanted)) /\ arg(k).key = k
      BY <1>3, <2>1 DEF Range
  <2> QED
      BY <2>2
<1> QED
    BY <1>8, <1>9, <1>10

\* A save writes a template that the editor can parse again, if it could before.
THEOREM SavedIsTemplate ==
    ASSUME NEW t \in TemplateFile, NEW labels,
           \A k \in PolicyKey \cap DOMAIN labels : labels[k] \in Value
    PROVE  /\ Saved(t, PolicyLabels(labels)) \in TemplateFile
           /\ Saved(t, PolicyLabels(labels)).broken = t.broken
<1> DEFINE wanted == PolicyLabels(labels)
<1>1. LabelArgs(wanted) \in Seq(OwnedArg)
  <2>1. DOMAIN wanted \subseteq PolicyKey /\ \A k \in DOMAIN wanted : wanted[k] \in Value
      BY WantedLabels
  <2> HIDE DEF wanted
  <2> QED
      BY <2>1, AppendedLabels
<1>2. LabelArgs(wanted) \in Seq(Arg)
  <2>1. OwnedArg \subseteq Arg
      BY DEF OwnedArg
  <2> QED
      BY <1>1, <2>1, SeqMonotonic
<1>3. t.params \in Seq(Arg) /\ t.nodes \in Seq(Arg)
    BY DEF TemplateFile
<1>4. WithoutOwned(t.params) \in Seq(Arg) /\ Sift(t.nodes, UnownedNode) \in Seq(Arg)
    BY <1>3, SiftWithin DEF WithoutOwned
<1> HIDE DEF wanted
<1>5. WithoutOwned(t.params) \o LabelArgs(wanted) \in Seq(Arg)
    BY <1>2, <1>4, ConcatProperties
<1> QED
    BY <1>4, <1>5 DEF Saved, TemplateFile, wanted

\* What a save appends of one key: its wanted value, or nothing.
LEMMA AppendedOfKey ==
    ASSUME NEW wanted, DOMAIN wanted \subseteq PolicyKey,
           \A k \in DOMAIN wanted : wanted[k] \in Value,
           NEW k \in PolicyKey
    PROVE  LET found == Sift(LabelArgs(wanted), Keyed(k))
           IN  /\ k \in DOMAIN wanted <=> found # <<>>
               /\ \A i \in DOMAIN found : found[i].value = wanted[k]
<1> DEFINE appended == LabelArgs(wanted)
           found == Sift(appended, Keyed(k))
           here == Range(appended) \cap Keyed(k)
<1>1. /\ appended \in Seq(OwnedArg)
      /\ \A a \in Range(appended) : a.key \in DOMAIN wanted /\ a.value = wanted[a.key]
      /\ \A j \in DOMAIN wanted : \E a \in Range(appended) : a.key = j
    BY AppendedLabels
<1>2. \A a \in Range(appended) : a \in Arg /\ IsLabel(a)
    BY <1>1, RangeWithin DEF OwnedArg
<1>3. \A a \in here : k \in DOMAIN wanted /\ a.value = wanted[k]
    BY <1>1 DEF Keyed
<1>4. k \in DOMAIN wanted => here # {}
    BY <1>1, <1>2 DEF Keyed
<1> HIDE DEF appended
<1>5. appended \in Seq(Range(appended))
  <2>1. Len(appended) \in Nat /\ appended = [i \in 1 .. Len(appended) |-> appended[i]]
      BY <1>1, LenProperties
  <2>2. \A i \in 1 .. Len(appended) : appended[i] \in Range(appended)
      BY <1>1, LenProperties DEF Range
  <2> QED
      BY <2>1, <2>2
<1>6. found \in Seq(here) /\ here \subseteq Range(found)
    BY <1>5, SiftType, SiftKeeps
<1> HIDE DEF found, here
<1>7. \A i \in DOMAIN found : found[i] \in here
    BY <1>6
<1>8. here # {} <=> found # <<>>
  <2>1. here # {} => Range(found) # {}
      BY <1>6
  <2>2. Range(<<>>) = {}
      BY EmptySeq DEF Range
  <2>3. found # <<>> => 1 \in DOMAIN found
      BY <1>6
  <2> QED
      BY <1>7, <2>1, <2>2, <2>3
<1> QED
    BY <1>3, <1>4, <1>7, <1>8 DEF found, appended

\* What is read when every key of the policy has its wanted value, or else the
\* one that was left
LEMMA ReadOver ==
    ASSUME NEW told, NEW asked, NEW others, DOMAIN asked \subseteq PolicyKey,
           \A k \in DOMAIN asked : asked[k] # "" /\ k \in DOMAIN told /\ told[k] = asked[k],
           \A k \in PolicyKey \ DOMAIN asked :
               /\ k \in DOMAIN told <=> k \in DOMAIN others
               /\ k \in DOMAIN told => told[k] = others[k]
    PROVE  Over(asked, PolicyLabels(others)) = PolicyLabels(told)
<1> DEFINE Told(labels) == {k \in PolicyKey \cap DOMAIN labels : labels[k] # ""}
<1>1. \A labels : PolicyLabels(labels) = [k \in Told(labels) |-> labels[k]]
    BY DEF PolicyLabels, Restrict
<1>2. DOMAIN PolicyLabels(others) = Told(others)
    BY <1>1
<1>3. Told(told) = DOMAIN asked \cup Told(others)
  <2>1. \A k \in DOMAIN asked : k \in Told(told)
      OBVIOUS
  <2>2. \A k \in PolicyKey \ DOMAIN asked : k \in Told(told) <=> k \in Told(others)
      OBVIOUS
  <2>3. Told(told) \subseteq PolicyKey /\ Told(others) \subseteq PolicyKey
      OBVIOUS
  <2> QED
      BY <2>1, <2>2, <2>3
<1>4. \A k \in DOMAIN asked : told[k] = asked[k]
    OBVIOUS
<1>5. \A k \in Told(others) \ DOMAIN asked : told[k] = PolicyLabels(others)[k]
  <2>1. \A k \in Told(others) : PolicyLabels(others)[k] = others[k]
      BY <1>1
  <2> QED
      BY <2>1
<1>6. PolicyLabels(told) = [k \in Told(told) |-> told[k]]
    BY <1>1
<1>7. Over(asked, PolicyLabels(others)) =
        [k \in DOMAIN asked \cup Told(others) |->
            IF k \in DOMAIN asked THEN asked[k] ELSE PolicyLabels(others)[k]]
    BY <1>2 DEF Over
<1> HIDE DEF Told
<1> QED
    BY <1>3, <1>4, <1>5, <1>6, <1>7

\* label_edit.py:171: whatever stood in ExtraParams and in the legacy nodes,
\* parse_template_labels and policy_labels read back what was saved, and of the
\* labels that were not asked for exactly those that ExtraParams had with a blank
\* before the key.
THEOREM SavedLabelsReadBack ==
    ASSUME NEW t \in TemplateFile, NEW labels,
           \A k \in PolicyKey \cap DOMAIN labels : labels[k] \in Value
    PROVE  PolicyLabels(ParseTemplateLabels(Saved(t, PolicyLabels(labels))))
             = Over(PolicyLabels(labels), Overlooked(t))
<1> DEFINE wanted == PolicyLabels(labels)
           nodes == Sift(t.nodes, UnownedNode)
           kept == WithoutOwned(t.params)
           appended == LabelArgs(wanted)
           args == nodes \o (kept \o appended)
           Blank == {arg \in Arg : IsLabel(arg) /\ arg.blank}
           left == Sift(t.params, Blank)
<1>1. /\ DOMAIN wanted \subseteq PolicyKey
      /\ \A k \in DOMAIN wanted : wanted[k] # "" /\ wanted[k] \in Value
    BY WantedLabels
<1>2. ParseTemplateLabels(Saved(t, wanted)) = LabelsOf(args)
  <2>1. Saved(t, wanted).nodes = nodes /\ Saved(t, wanted).params = kept \o appended
      BY DEF Saved, TemplateFile
  <2> QED
      BY <2>1 DEF ParseTemplateLabels
<1>3. Overlooked(t) = PolicyLabels(LabelsOf(left))
    BY DEF Overlooked
<1> HIDE DEF wanted
<1>4. appended \in Seq(Arg)
  <2>1. OwnedArg \subseteq Arg /\ appended \in Seq(OwnedArg)
      BY <1>1, AppendedLabels DEF OwnedArg
  <2> QED
      BY <2>1, SeqMonotonic
<1>5. t.params \in Seq(Arg) /\ t.nodes \in Seq(Arg)
    BY DEF TemplateFile
<1>6. /\ nodes \in Seq(Arg) /\ nodes \in Seq(Arg \cap UnownedNode)
      /\ kept \in Seq(Arg) /\ kept \in Seq(Arg \cap Unowned)
      /\ left \in Seq(Arg) /\ left \in Seq(Arg \cap Blank)
    BY <1>5, SiftType, SiftWithin DEF WithoutOwned
<1>7. kept \o appended \in Seq(Arg) /\ args \in Seq(Arg)
    BY <1>4, <1>6, ConcatProperties
\* Of one key, the arguments are those that were kept, then those appended; the
\* ones kept are those with a blank.
<1>8. ASSUME NEW k \in PolicyKey
      PROVE  /\ Sift(args, Keyed(k)) = Sift(left, Keyed(k)) \o Sift(appended, Keyed(k))
             /\ Sift(left, Keyed(k)) \in Seq(Arg) /\ Sift(appended, Keyed(k)) \in Seq(Arg)
  <2> DEFINE K == Keyed(k)
             B == Keyed(k) \cap Blank
  <2>1. Sift(nodes, K) = <<>>
    <3>1. (Arg \cap UnownedNode) \cap K = {}
        BY DEF UnownedNode, Keyed, OwnedKey
    <3> HIDE DEF K, nodes
    <3> QED
        BY <1>6, <3>1, SiftNothing
  <2>2. Sift(kept, K) = Sift(t.params, B)
    <3>1. (Arg \cap Unowned) \cap K = (Arg \cap Unowned) \cap B /\ B \subseteq Unowned
        BY DEF Unowned, Keyed, OwnedKey
    <3> HIDE DEF K, B
    <3>2. Sift(kept, K) = Sift(kept, B)
      <4> HIDE DEF kept
      <4> QED
          BY <1>6, <3>1, SiftSame
    <3>3. Sift(kept, B) = Sift(t.params, B)
        BY <1>5, <3>1, SiftTwice DEF WithoutOwned
    <3> QED
        BY <3>2, <3>3
  <2>3. Sift(left, K) = Sift(t.params, B)
    <3>1. (Arg \cap Blank) \cap K = (Arg \cap Blank) \cap B /\ B \subseteq Blank
        BY DEF Keyed
    <3> HIDE DEF K, B, Blank
    <3>2. Sift(left, K) = Sift(left, B)
      <4> HIDE DEF left
      <4> QED
          BY <1>6, <3>1, SiftSame
    <3>3. Sift(left, B) = Sift(t.params, B)
        BY <1>5, <3>1, SiftTwice
    <3> QED
        BY <3>2, <3>3
  <2>4. /\ Sift(kept, K) \in Seq(Arg) /\ Sift(left, K) \in Seq(Arg)
        /\ Sift(appended, K) \in Seq(Arg)
      BY <1>4, <1>6, SiftWithin
  <2> HIDE DEF K, B, nodes, kept, appended, left
  <2>5. Sift(args, K) = Sift(nodes, K) \o Sift(kept \o appended, K)
      BY <1>6, <1>7, SiftConcat
  <2>6. Sift(kept \o appended, K) = Sift(kept, K) \o Sift(appended, K)
      BY <1>4, <1>6, SiftConcat
  <2>7. Sift(kept, K) \o Sift(appended, K) \in Seq(Arg)
      BY <2>4, ConcatProperties
  <2>8. <<>> \o (Sift(kept, K) \o Sift(appended, K)) = Sift(kept, K) \o Sift(appended, K)
      BY <2>7, ConcatEmptySeq
  <2> QED
      BY <2>1, <2>2, <2>3, <2>4, <2>5, <2>6, <2>8 DEF K
<1> DEFINE read == LabelsOf(args)
           rest == LabelsOf(left)
<1>9. ASSUME NEW k \in PolicyKey
      PROVE  LET found == Sift(appended, Keyed(k))
             IN  /\ k \in DOMAIN wanted <=> found # <<>>
                 /\ \A i \in DOMAIN found : found[i].value = wanted[k]
    BY <1>1, AppendedOfKey
<1>10. ASSUME NEW k
       PROVE  LET all == Sift(args, Keyed(k))
                  some == Sift(left, Keyed(k))
              IN  /\ k \in DOMAIN read <=> all # <<>>
                  /\ all # <<>> => read[k] = all[Len(all)].value
                  /\ k \in DOMAIN rest <=> some # <<>>
                  /\ some # <<>> => rest[k] = some[Len(some)].value
  <2> HIDE DEF args, left
  <2> QED
      BY <1>6, <1>7, LastOfKey
<1> HIDE DEF args, left, appended, read, rest
<1>11. ASSUME NEW k \in DOMAIN wanted
       PROVE  k \in DOMAIN read /\ read[k] = wanted[k]
  <2> DEFINE all == Sift(args, Keyed(k))
             some == Sift(left, Keyed(k))
             new == Sift(appended, Keyed(k))
  <2>1. k \in PolicyKey
      BY <1>1
  <2>2. all = some \o new /\ some \in Seq(Arg) /\ new \in Seq(Arg) /\ new # <<>>
      BY <1>8, <1>9, <2>1
  <2>3. /\ k \in DOMAIN read <=> all # <<>>
        /\ all # <<>> => read[k] = all[Len(all)].value
      BY <1>10
  <2>4. \A i \in DOMAIN new : new[i].value = wanted[k]
      BY <1>9, <2>1
  <2> HIDE DEF all, some, new
  <2>5. /\ Len(new) \in Nat /\ Len(new) # 0 /\ DOMAIN new = 1 .. Len(new)
        /\ all # <<>> /\ all[Len(all)] = new[Len(new)]
    <3>1. Len(some) \in Nat /\ Len(new) \in Nat /\ Len(new) # 0 /\ DOMAIN new = 1 .. Len(new)
        BY <2>2, LenProperties, EmptySeq
    <3>2. /\ Len(all) = Len(some) + Len(new)
          /\ \A i \in 1 .. Len(some) + Len(new) :
                all[i] = IF i <= Len(some) THEN some[i] ELSE new[i - Len(some)]
        BY <2>2, ConcatProperties
    <3>3. Len(all) \in 1 .. Len(some) + Len(new) /\ ~ (Len(all) <= Len(some))
          /\ Len(all) - Len(some) = Len(new)
        BY <3>1, <3>2
    <3>4. all # <<>>
        BY <3>1, <3>2, EmptySeq
    <3> QED
        BY <3>1, <3>2, <3>3, <3>4
  <2>6. Len(new) \in DOMAIN new
      BY <2>5
  <2> QED
      BY <2>3, <2>4, <2>5, <2>6
<1>12. ASSUME NEW k \in PolicyKey \ DOMAIN wanted
       PROVE  /\ k \in DOMAIN read <=> k \in DOMAIN rest
              /\ k \in DOMAIN read => read[k] = rest[k]
  <2>1. Sift(args, Keyed(k)) = Sift(left, Keyed(k))
    <3>1. Sift(appended, Keyed(k)) = <<>>
        BY <1>9
    <3>2. /\ Sift(left, Keyed(k)) \in Seq(Arg)
          /\ Sift(args, Keyed(k)) = Sift(left, Keyed(k)) \o <<>>
        BY <1>8, <3>1
    <3> QED
        BY <3>2, ConcatEmptySeq
  <2> QED
      BY <1>10, <2>1
<1>13. Over(wanted, PolicyLabels(rest)) = PolicyLabels(read)
  <2>1. \A k \in DOMAIN wanted : wanted[k] # "" /\ k \in DOMAIN read /\ read[k] = wanted[k]
      BY <1>1, <1>11
  <2>2. \A k \in PolicyKey \ DOMAIN wanted :
            /\ k \in DOMAIN read <=> k \in DOMAIN rest
            /\ k \in DOMAIN read => read[k] = rest[k]
      BY <1>12
  <2>3. DOMAIN wanted \subseteq PolicyKey
      BY <1>1
  <2> QED
      BY <2>1, <2>2, <2>3, ReadOver
<1> QED
    BY <1>2, <1>3, <1>13 DEF wanted, read, rest

\* What a save appends is not what anybody looks for who leaves out its labels.
LEMMA AppendedSifted ==
    ASSUME NEW labels, NEW S, S \subseteq Unowned,
           \A k \in PolicyKey \cap DOMAIN labels : labels[k] \in Value,
           NEW s \in Seq(Arg)
    PROVE  Sift(WithoutOwned(s) \o LabelArgs(PolicyLabels(labels)), S) = Sift(s, S)
<1> DEFINE wanted == PolicyLabels(labels)
           kept == WithoutOwned(s)
           appended == LabelArgs(wanted)
<1>1. DOMAIN wanted \subseteq PolicyKey /\ \A k \in DOMAIN wanted : wanted[k] \in Value
    BY WantedLabels
<1> HIDE DEF wanted
<1>2. appended \in Seq(OwnedArg)
    BY <1>1, AppendedLabels
<1>3. OwnedArg \cap S = {} /\ OwnedArg \subseteq Arg
    BY DEF OwnedArg, Unowned, OwnedKey
<1>4. Sift(appended, S) = <<>> /\ appended \in Seq(Arg)
    BY <1>2, <1>3, SiftNothing, SeqMonotonic
<1>5. kept \in Seq(Arg) /\ Sift(kept, S) = Sift(s, S)
    BY SiftWithin, SiftTwice DEF WithoutOwned
<1> HIDE DEF kept, appended
<1>6. Sift(kept \o appended, S) = Sift(kept, S) \o Sift(appended, S)
    BY <1>4, <1>5, SiftConcat
<1>7. Sift(kept, S) \in Seq(Arg)
    BY <1>5, SiftWithin
<1>8. Sift(kept, S) \o <<>> = Sift(kept, S)
    BY <1>7, ConcatEmptySeq
<1> QED
    BY <1>4, <1>5, <1>6, <1>8 DEF wanted, kept, appended

\* label_edit.py:151, "preserve everything else": the arguments and nodes that
\* are not labels of the updater stay, all of them and in their order.
THEOREM SavedKeepsOthers ==
    ASSUME NEW t \in TemplateFile, NEW labels,
           NEW S, S \subseteq Unowned, NEW R, R \subseteq UnownedNode,
           \A k \in PolicyKey \cap DOMAIN labels : labels[k] \in Value
    PROVE  LET saved == Saved(t, PolicyLabels(labels))
           IN  /\ Sift(saved.params, S) = Sift(t.params, S)
               /\ Sift(saved.nodes, R) = Sift(t.nodes, R)
<1> DEFINE saved == Saved(t, PolicyLabels(labels))
<1>1. t.params \in Seq(Arg) /\ t.nodes \in Seq(Arg)
    BY DEF TemplateFile
<1>2. /\ saved.params = WithoutOwned(t.params) \o LabelArgs(PolicyLabels(labels))
      /\ saved.nodes = Sift(t.nodes, UnownedNode)
    BY DEF Saved, TemplateFile
<1>3. Sift(saved.params, S) = Sift(t.params, S)
    BY <1>1, <1>2, AppendedSifted
<1>4. Sift(saved.nodes, R) = Sift(t.nodes, R)
    BY <1>1, <1>2, SiftTwice
<1> QED
    BY <1>3, <1>4

\* A save neither adds nor removes a label with a blank before its key.
LEMMA OverlookedSaved ==
    ASSUME NEW t \in TemplateFile, NEW labels,
           \A k \in PolicyKey \cap DOMAIN labels : labels[k] \in Value
    PROVE  Overlooked(Saved(t, PolicyLabels(labels))) = Overlooked(t)
<1> DEFINE Blank == {arg \in Arg : IsLabel(arg) /\ arg.blank}
<1>1. Blank \subseteq Unowned /\ UnownedNode \subseteq UnownedNode
    BY DEF Unowned
<1> HIDE DEF Blank
<1>2. Sift(Saved(t, PolicyLabels(labels)).params, Blank) = Sift(t.params, Blank)
    BY <1>1, SavedKeepsOthers
<1> QED
    BY <1>2 DEF Overlooked, Blank

\* The last save decides: saving other labels before it leaves no trace, and
\* saving the same labels again changes nothing.
THEOREM LastSaveDecides ==
    ASSUME NEW t \in TemplateFile, NEW first, NEW last,
           \A k \in PolicyKey \cap DOMAIN first : first[k] \in Value
    PROVE  Saved(Saved(t, PolicyLabels(first)), PolicyLabels(last)) = Saved(t, PolicyLabels(last))
<1> DEFINE once == Saved(t, PolicyLabels(first))
<1>1. /\ once.broken = t.broken
      /\ WithoutOwned(once.params) = WithoutOwned(t.params)
      /\ Sift(once.nodes, UnownedNode) = Sift(t.nodes, UnownedNode)
  <2>1. Unowned \subseteq Unowned /\ UnownedNode \subseteq UnownedNode
      OBVIOUS
  <2> QED
      BY <2>1, SavedIsTemplate, SavedKeepsOthers DEF WithoutOwned
<1>2. once \in TemplateFile
    BY SavedIsTemplate
<1> HIDE DEF once
<1>3. /\ once = [params |-> once.params, nodes |-> once.nodes, broken |-> once.broken]
      /\ t = [params |-> t.params, nodes |-> t.nodes, broken |-> t.broken]
    BY <1>2 DEF TemplateFile
<1>4. Saved(once, PolicyLabels(last)) = Saved(t, PolicyLabels(last))
    BY <1>1, <1>2, <1>3 DEF Saved, TemplateFile
<1> QED
    BY <1>4 DEF once

=============================================================================
