------------------------------- MODULE Lemmas -------------------------------
(***************************************************************************)
(* Facts about numbers and sequences that several proofs need: division by *)
(* a variable, for which the solver has to be told which multiples meet;   *)
(* induction over the numbers; and the equations of FlattenSeq, of which   *)
(* the encoding of requests and the stream of frames are made.             *)
(***************************************************************************)
EXTENDS Integers, SequencesExt, SequenceTheorems, WellFoundedInduction, TLAPS

\* A number is its quotient times the divisor, and a remainder.
LEMMA DivModBasics ==
    ASSUME NEW m \in Nat \ {0}, NEW v \in Int
    PROVE  /\ v \div m \in Int /\ v % m \in 0..(m - 1)
           /\ v = (v \div m) * m + (v % m)
OBVIOUS

\* A multiple that is smaller than the divisor is 0.
LEMMA SmallMultiple ==
    ASSUME NEW m \in Nat \ {0}, NEW d \in Int, -m < d * m, d * m < m
    PROVE  d = 0
<1>1. CASE d >= 1 BY <1>1
<1>2. CASE d <= -1 BY <1>2
<1> QED BY <1>1, <1>2

\* There is only one such quotient and remainder.
LEMMA DivModUnique ==
    ASSUME NEW m \in Nat \ {0}, NEW q \in Int, NEW r \in 0..(m - 1)
    PROVE  (q * m + r) \div m = q /\ (q * m + r) % m = r
<1> DEFINE v == q * m + r
<1> DEFINE p == v \div m
<1> DEFINE s == v % m
<1>1. v \in Int OBVIOUS
<1>2. p \in Int /\ s \in 0..(m - 1) /\ v = p * m + s BY <1>1, DivModBasics
<1>3. (q - p) * m = s - r BY <1>1, <1>2
<1>4. q - p = 0
    <2> HIDE DEF p, s, v
    <2>1. -m < s - r /\ s - r < m BY <1>2
    <2> QED BY <1>2, <1>3, <2>1, SmallMultiple
<1>5. p = q /\ s = r
    <2> HIDE DEF p, s, v
    <2> QED BY <1>2, <1>3, <1>4
<1> QED BY <1>5

-----------------------------------------------------------------------------
\* A set of numbers has a least element.
LEMMA Least ==
    ASSUME NEW P, P \subseteq Nat, P # {}
    PROVE  \E m \in P : \A n \in P : m <= n
  <1>1. PICK m \in P : \A y \in P : ~(<<y, m>> \in OpToRel(<, Nat))
    BY WFMin, NatLessThanWellFounded
  <1>2. ASSUME NEW n \in P, n < m PROVE FALSE
    <2>1. <<n, m>> \in Nat \X Nat
      BY <1>2
    <2>2. <<n, m>> \in OpToRel(<, Nat)
      BY <1>2, <2>1 DEF OpToRel
    <2>3. QED
      BY <1>1, <2>2
  <1>3. QED
    BY <1>2

\* Induction: a set that holds 0 and the successor of each of its elements holds
\* every number.  (The library states it for an operator, P(_), to which none of
\* the provers can apply it.)
LEMMA NatInd ==
    ASSUME NEW P, 0 \in P, \A n \in Nat : n \in P => n + 1 \in P
    PROVE  \A n \in Nat : n \in P
  <1>1. SUFFICES ASSUME Nat \ P # {} PROVE FALSE
    OBVIOUS
  <1>2. PICK m \in Nat \ P : \A n \in Nat \ P : m <= n
    BY <1>1, Least
  <1>3. m # 0 /\ m - 1 \in Nat
    BY <1>2
  <1>4. m - 1 \in P
    BY <1>2, <1>3
  <1>5. QED
    BY <1>2, <1>3, <1>4

-----------------------------------------------------------------------------
\* FlattenSeq(s) is the last value of the function f that equals this.
FlatStep(f, s) == [i \in 1..Len(s) |-> IF i = 1 THEN s[i] ELSE f[i - 1] \o s[i]]

\* There is such a function.
LEMMA FlattenDefined ==
    ASSUME NEW s, Len(s) \in Nat
    PROVE  \E f : f = FlatStep(f, s)
  <1> DEFINE Upto(f, n) == [i \in 1..n |-> IF i = 1 THEN s[i] ELSE f[i - 1] \o s[i]]
             P == {n \in Nat : \E f : f = Upto(f, n)}
  <1>1. 0 \in P
    <2>1. <<>> = Upto(<<>>, 0)
      OBVIOUS
    <2>2. QED
      BY <2>1
  <1>2. ASSUME NEW n \in Nat, n \in P PROVE n + 1 \in P
    <2>1. PICK f : f = Upto(f, n)
      BY <1>2
    <2> DEFINE g == [i \in 1..(n + 1) |->
                       IF i = 1 THEN s[i] ELSE f[i - 1] \o s[i]]
    <2>2. ASSUME NEW i \in 1..n PROVE f[i] = g[i]
      <3>1. Upto(f, n)[i] = g[i]
        OBVIOUS
      <3> HIDE DEF Upto, g
      <3>2. QED
        BY <2>1, <3>1
    <2>3. ASSUME NEW i \in 1..(n + 1) PROVE g[i] = IF i = 1 THEN s[i] ELSE g[i - 1] \o s[i]
      <3>1. CASE i = 1
        BY <3>1
      <3>2. CASE i # 1
        <4>1. i - 1 \in 1..n
          BY <3>2
        <4>2. f[i - 1] = g[i - 1]
          BY <4>1, <2>2
        <4>3. QED
          BY <3>2, <4>2
      <3>3. QED
        BY <3>1, <3>2
    <2>4. g = Upto(g, n + 1)
      <3> DEFINE e(i) == IF i = 1 THEN s[i] ELSE g[i - 1] \o s[i]
      <3>1. g = [i \in 1..(n + 1) |-> g[i]]
        OBVIOUS
      <3> HIDE DEF g
      <3>2. QED
        BY <2>3, <3>1, Zenon
    <2>5. \E ff : ff = Upto(ff, n + 1)
      <3> HIDE DEF g, Upto
      <3>1. QED
        BY <2>4
    <2> HIDE DEF Upto
    <2>6. QED
      BY <2>5
  <1> HIDE DEF P
  <1>3. Len(s) \in P
    BY <1>1, <1>2, NatInd
  <1>4. QED
    BY <1>3, Zenon DEF P, FlatStep

\* FlattenSeq by its recursion equations.
LEMMA FlattenIs ==
    ASSUME NEW s, NEW n \in Nat, Len(s) = n + 1
    PROVE  \E f : /\ FlattenSeq(s) = f[n + 1]
                  /\ f[1] = s[1]
                  /\ \A i \in 1..n : f[i + 1] = f[i] \o s[i + 1]
  <1> DEFINE f == CHOOSE ff : ff = FlatStep(ff, s)
  <1>0. Len(s) \in Nat /\ Len(s) # 0
    OBVIOUS
  <1>1. f = FlatStep(f, s)
    BY <1>0, FlattenDefined, Zenon
  <1>2. FlattenSeq(s) = f[n + 1]
    <2>1. FlattenSeq(s) = f[Len(s)]
      BY <1>0, Zenon DEF FlattenSeq, FlatStep
    <2> HIDE DEF f
    <2>2. QED
      BY <2>1
  <1> HIDE DEF f
  <1>3. f[1] = s[1]
    <2>1. FlatStep(f, s)[1] = s[1]
      BY DEF FlatStep
    <2>2. QED
      BY <1>1, <2>1
  <1>4. ASSUME NEW i \in 1..n PROVE f[i + 1] = f[i] \o s[i + 1]
    <2>1. FlatStep(f, s)[i + 1] = f[i] \o s[i + 1]
      <3>1. i + 1 \in 1..Len(s) /\ i + 1 # 1 /\ (i + 1) - 1 = i
        OBVIOUS
      <3>2. FlatStep(f, s)[i + 1] = f[(i + 1) - 1] \o s[i + 1]
        BY <3>1 DEF FlatStep
      <3>3. QED
        BY <3>1, <3>2
    <2>2. QED
      BY <1>1, <2>1
  <1>5. QED
    BY <1>2, <1>3, <1>4

\* Nothing, flattened.
LEMMA FlattenEmpty == FlattenSeq(<<>>) = <<>>
  BY DEF FlattenSeq

\* The last of the sequences comes last.
LEMMA FlattenAppend ==
    ASSUME NEW S, NEW s \in Seq(Seq(S)), NEW x \in Seq(S)
    PROVE  FlattenSeq(Append(s, x)) = FlattenSeq(s) \o x
  <1> DEFINE t == Append(s, x)
             n == Len(s)
  <1>1. /\ n \in Nat /\ Len(t) = n + 1 /\ t[n + 1] = x
        /\ \A i \in 1..n : t[i] = s[i]
    OBVIOUS
  <1> HIDE DEF t
  <1>2. PICK g : /\ FlattenSeq(t) = g[n + 1]
                 /\ g[1] = t[1]
                 /\ \A i \in 1..n : g[i + 1] = g[i] \o t[i + 1]
    BY <1>1, FlattenIs
  <1>3. CASE n = 0
    <2>1. s = <<>> /\ FlattenSeq(s) = <<>>
      BY <1>3, FlattenEmpty
    <2>2. QED
      BY <1>1, <1>2, <1>3, <2>1 DEF t
  <1>4. CASE n # 0
    <2>1. PICK m \in Nat : n = m + 1
      <3>1. n - 1 \in Nat /\ n = (n - 1) + 1
        BY <1>1, <1>4
      <3>2. QED
        BY <3>1
    <2>2. PICK f : /\ FlattenSeq(s) = f[m + 1]
                   /\ f[1] = s[1]
                   /\ \A i \in 1..m : f[i + 1] = f[i] \o s[i + 1]
      BY <2>1, FlattenIs
    <2> HIDE DEF n
    <2> DEFINE P == {i \in Nat : i \in 0..m => f[i + 1] = g[i + 1]}
    <2>3. 0 \in P
      BY <1>1, <1>2, <2>1, <2>2
    <2>4. ASSUME NEW i \in Nat, i \in P PROVE i + 1 \in P
      <3>1. SUFFICES ASSUME i + 1 \in 0..m PROVE f[(i + 1) + 1] = g[(i + 1) + 1]
        OBVIOUS
      <3>2. i + 1 \in 1..m /\ i + 1 \in 1..n /\ (i + 1) + 1 \in 1..n /\ i \in 0..m
        BY <1>1, <2>1, <3>1
      <3>3. f[i + 1] = g[i + 1]
        BY <2>4, <3>2
      <3>4. QED
        BY <1>1, <1>2, <2>2, <3>2, <3>3
    <2> HIDE DEF P
    <2>5. m \in P
      BY <2>3, <2>4, NatInd
    <2>6. f[m + 1] = g[m + 1]
      BY <2>5 DEF P
    <2>7. g[n + 1] = g[n] \o x
      <3>1. n \in 1..n
        BY <1>1, <1>4
      <3>2. QED
        BY <1>1, <1>2, <3>1
    <2>8. QED
      BY <1>2, <2>1, <2>2, <2>6, <2>7, SMTT(60) DEF t
  <1>5. QED
    BY <1>3, <1>4

\* Sequences over S make a sequence over S.
LEMMA FlattenType ==
    ASSUME NEW S, NEW s \in Seq(Seq(S))
    PROVE  FlattenSeq(s) \in Seq(S)
  <1> DEFINE P == {n \in Nat : \A u \in Seq(Seq(S)) : Len(u) = n => FlattenSeq(u) \in Seq(S)}
  <1>1. 0 \in P
    <2>1. ASSUME NEW u \in Seq(Seq(S)), Len(u) = 0 PROVE FlattenSeq(u) \in Seq(S)
      <3>1. u = <<>>
        BY <2>1
      <3>2. FlattenSeq(u) = <<>>
        BY <3>1, FlattenEmpty
      <3>3. QED
        BY <3>2
    <2>2. QED
      BY <2>1
  <1>2. ASSUME NEW n \in Nat, n \in P PROVE n + 1 \in P
    <2>1. ASSUME NEW u \in Seq(Seq(S)), Len(u) = n + 1 PROVE FlattenSeq(u) \in Seq(S)
      <3>1. PICK v \in Seq(Seq(S)), e \in Seq(S) : u = Append(v, e)
        <4>1. u # <<>>
          BY <2>1
        <4>2. QED
          BY <4>1, SequenceEmptyOrAppend
      <3>2. Len(v) = n
        BY <2>1, <3>1
      <3>3. FlattenSeq(v) \in Seq(S)
        BY <1>2, <3>2
      <3>4. FlattenSeq(u) = FlattenSeq(v) \o e
        BY <3>1, FlattenAppend
      <3>5. QED
        BY <3>3, <3>4
    <2>2. QED
      BY <2>1
  <1> HIDE DEF P
  <1>3. Len(s) \in P
    BY <1>1, <1>2, NatInd
  <1>4. QED
    BY <1>3 DEF P

\* A sequence of one element.
LEMMA TailOfOne ==
    ASSUME NEW S, NEW s \in Seq(S), Len(s) = 1
    PROVE  s # <<>> /\ Tail(s) = <<>> /\ s = Append(<<>>, Head(s))
  <1> DEFINE t == Tail(s)
  <1>1. s # <<>> /\ t \in Seq(S) /\ Len(t) = 0
    BY HeadTailProperties
  <1> HIDE DEF t
  <1>2. t = <<>>
    BY <1>1, EmptySeq
  <1>3. QED
    BY <1>1, <1>2 DEF t

\* The step of the induction below: appending does not change which is the first.
LEMMA FlattenHeadTailAppend ==
    ASSUME NEW S, NEW v \in Seq(Seq(S)), v # <<>>, NEW e \in Seq(S)
    PROVE  FlattenSeq(v) = Head(v) \o FlattenSeq(Tail(v))
           => FlattenSeq(Append(v, e)) = Head(Append(v, e)) \o FlattenSeq(Tail(Append(v, e)))
  <1> DEFINE a == Head(v)
             b == FlattenSeq(Tail(v))
  <1>1. Head(Append(v, e)) = a /\ Tail(Append(v, e)) = Append(Tail(v), e)
    BY HeadTailAppend
  <1>2. a \in Seq(S) /\ Tail(v) \in Seq(Seq(S))
    OBVIOUS
  <1>3. b \in Seq(S)
    BY <1>2, FlattenType
  <1>4. FlattenSeq(Append(v, e)) = FlattenSeq(v) \o e
    BY FlattenAppend
  <1>5. FlattenSeq(Append(Tail(v), e)) = b \o e
    BY <1>2, FlattenAppend
  <1> HIDE DEF a, b
  <1>6. (a \o b) \o e = a \o (b \o e)
    <2>1. \A x, y, z \in Seq(S) : (x \o y) \o z = x \o (y \o z)
      BY ONLY ConcatAssociative, SMTT(60)
    <2>2. QED
      BY <1>2, <1>3, <2>1, Zenon
  <1>7. SUFFICES ASSUME FlattenSeq(v) = a \o b
                 PROVE  FlattenSeq(Append(v, e)) = a \o FlattenSeq(Append(Tail(v), e))
    BY <1>1 DEF a, b
  <1>8. QED
    BY <1>4, <1>5, <1>6, <1>7

\* The first of the sequences comes first.
LEMMA FlattenHeadTail ==
    ASSUME NEW S, NEW s \in Seq(Seq(S)), s # <<>>
    PROVE  FlattenSeq(s) = Head(s) \o FlattenSeq(Tail(s))
  <1> DEFINE P == {n \in Nat : \A u \in Seq(Seq(S)) :
                      Len(u) = n + 1 => FlattenSeq(u) = Head(u) \o FlattenSeq(Tail(u))}
  <1>1. 0 \in P
    <2>1. ASSUME NEW u \in Seq(Seq(S)), Len(u) = 0 + 1
          PROVE FlattenSeq(u) = Head(u) \o FlattenSeq(Tail(u))
      <3> DEFINE x == Head(u)
                 none == <<>>
      <3>1. x \in Seq(S) /\ none \in Seq(Seq(S)) /\ Tail(u) = <<>>
        <4>1. Len(u) = 1
          BY <2>1
        <4> HIDE DEF P
        <4>2. QED
          BY <4>1, TailOfOne
      <3>2. u = Append(none, x)
        <4>1. Len(u) = 1
          BY <2>1
        <4>2. QED
          BY <4>1, TailOfOne
      <3> HIDE DEF x, none
      <3>3. FlattenSeq(u) = FlattenSeq(none) \o x
        BY <3>1, <3>2, FlattenAppend
      <3>4. FlattenSeq(none) = <<>>
        BY FlattenEmpty DEF none
      <3>5. <<>> \o x = x /\ x \o <<>> = x
        BY <3>1
      <3>6. QED
        BY <3>1, <3>3, <3>4, <3>5, FlattenEmpty DEF x
    <2>2. QED
      BY <2>1
  <1>2. ASSUME NEW n \in Nat, n \in P PROVE n + 1 \in P
    <2>1. ASSUME NEW u \in Seq(Seq(S)), Len(u) = n + 1 + 1
          PROVE FlattenSeq(u) = Head(u) \o FlattenSeq(Tail(u))
      <3>1. PICK v \in Seq(Seq(S)), e \in Seq(S) : u = Append(v, e)
        <4>1. u # <<>>
          BY <2>1
        <4>2. QED
          BY <4>1, SequenceEmptyOrAppend
      <3>2. Len(v) = n + 1 /\ v # <<>>
        BY <2>1, <3>1
      <3>3. FlattenSeq(v) = Head(v) \o FlattenSeq(Tail(v))
        BY <1>2, <3>2
      <3>4. QED
        BY <3>1, <3>2, <3>3, FlattenHeadTailAppend
    <2>2. QED
      BY <2>1
  <1> HIDE DEF P
  <1>3. PICK n \in Nat : Len(s) = n + 1
    <2>1. Len(s) \in Nat \ {0}
      OBVIOUS
    <2>2. Len(s) - 1 \in Nat /\ Len(s) = (Len(s) - 1) + 1
      BY <2>1
    <2>3. QED
      BY <2>2
  <1>4. n \in P
    BY <1>1, <1>2, NatInd
  <1>5. QED
    BY <1>3, <1>4 DEF P

\* What is left of the sequences after j of them: the next one, and the others.
LEMMA FlattenSuffix ==
    ASSUME NEW S, NEW s \in Seq(Seq(S)), NEW j \in 0..Len(s)
    PROVE  /\ FlattenSeq(SubSeq(s, j + 1, Len(s))) \in Seq(S)
           /\ j = Len(s) => FlattenSeq(SubSeq(s, j + 1, Len(s))) = <<>>
           /\ j # Len(s) => FlattenSeq(SubSeq(s, j + 1, Len(s)))
                               = s[j + 1] \o FlattenSeq(SubSeq(s, j + 1 + 1, Len(s)))
  <1> DEFINE t == SubSeq(s, j + 1, Len(s))
  <1>1. t \in Seq(Seq(S))
    OBVIOUS
  <1>2. CASE j = Len(s)
    <2>1. t = <<>>
      BY <1>2, SubSeqEmpty
    <2> HIDE DEF t
    <2>2. FlattenSeq(t) = <<>>
      BY <2>1, FlattenEmpty
    <2> DEFINE none == FlattenSeq(t)
    <2>3. none \in Seq(S)
      BY <2>2
    <2> HIDE DEF none
    <2>4. none = <<>> /\ none \in Seq(S)
      BY <2>2, <2>3 DEF none
    <2>5. QED
      BY <1>2, <2>4 DEF none, t
  <1>3. CASE j # Len(s)
    <2>1. j + 1 \in 1..Len(s)
      BY <1>3
    <2>2. t # <<>>
      BY <2>1, SMTT(60)
    <2>3. Head(t) = s[j + 1] /\ Tail(t) = SubSeq(s, j + 1 + 1, Len(s))
      BY <2>1, HeadTailOfSubSeq
    <2> HIDE DEF t
    <2>4. FlattenSeq(t) = Head(t) \o FlattenSeq(Tail(t)) /\ FlattenSeq(t) \in Seq(S)
      BY <1>1, <2>2, FlattenHeadTail, FlattenType
    <2>5. QED
      BY <1>3, <2>3, <2>4 DEF t
  <1>4. QED
    BY <1>2, <1>3

\* Sequences none of which is empty make an empty one only if there are none.
LEMMA FlattenNothing ==
    ASSUME NEW S, NEW s \in Seq(Seq(S)), \A i \in DOMAIN s : s[i] # <<>>,
           FlattenSeq(s) = <<>>
    PROVE  s = <<>>
  <1>1. SUFFICES ASSUME s # <<>> PROVE FALSE
    OBVIOUS
  <1> DEFINE a == Head(s)
             b == FlattenSeq(Tail(s))
  <1>2. a \in Seq(S) /\ a # <<>>
    BY <1>1
  <1>3. Tail(s) \in Seq(Seq(S))
    BY <1>1
  <1>4. b \in Seq(S)
    BY <1>3, FlattenType
  <1>5. FlattenSeq(s) = a \o b
    BY <1>1, FlattenHeadTail
  <1> HIDE DEF a, b
  <1>6. a \o b # <<>>
    BY <1>2, <1>4
  <1>7. QED
    BY <1>5, <1>6

\* A sequence cut in two.
LEMMA CutInTwo ==
    ASSUME NEW S, NEW s \in Seq(S), NEW k \in 0..Len(s)
    PROVE  /\ SubSeq(s, 1, k) \in Seq(S) /\ SubSeq(s, k + 1, Len(s)) \in Seq(S)
           /\ SubSeq(s, 1, k) \o SubSeq(s, k + 1, Len(s)) = s
           /\ k # 0 => SubSeq(s, 1, k) # <<>>
           /\ SubSeq(s, k + 1, Len(s)) = <<>> <=> k = Len(s)
  <1>1. SubSeq(s, 1, k) \o SubSeq(s, k + 1, Len(s)) = SubSeq(s, 1, Len(s))
    <2>1. 1 \in 1..(Len(s) + 1) /\ k \in (1 - 1)..Len(s) /\ Len(s) \in k..Len(s)
      OBVIOUS
    <2>2. QED
      BY <2>1, ConcatAdjacentSubSeq
  <1>2. SubSeq(s, 1, Len(s)) = s
    BY SubSeqFull
  <1>3. SubSeq(s, 1, k) \in Seq(S) /\ SubSeq(s, k + 1, Len(s)) \in Seq(S)
    OBVIOUS
  <1>4. Len(SubSeq(s, 1, k)) = k /\ Len(SubSeq(s, k + 1, Len(s))) = Len(s) - k
    OBVIOUS
  <1> DEFINE a == SubSeq(s, 1, k)
             b == SubSeq(s, k + 1, Len(s))
  <1>5. a \in Seq(S) /\ Len(a) = k /\ b \in Seq(S) /\ Len(b) = Len(s) - k
    BY <1>3, <1>4
  <1> HIDE DEF a, b
  <1>6. k # 0 => a # <<>>
    BY <1>5
  <1>7. b = <<>> <=> k = Len(s)
    <2>1. Len(b) = 0 <=> k = Len(s)
      BY <1>5
    <2>2. QED
      BY <1>5, <2>1, EmptySeq
  <1>8. QED
    BY <1>1, <1>2, <1>3, <1>6, <1>7 DEF a, b

\* A function on 1..n is a sequence.
LEMMA SeqIntro ==
    ASSUME NEW S, NEW n \in Nat, NEW f, f = [i \in 1..n |-> f[i]], \A i \in 1..n : f[i] \in S
    PROVE  f \in Seq(S) /\ Len(f) = n /\ DOMAIN f = 1..n
  OBVIOUS

\* An element at the end of a sequence, written as concatenation.
LEMMA AppendOne ==
    ASSUME NEW S, NEW s \in Seq(S), NEW x \in S
    PROVE  Append(s, x) = s \o <<x>>
  BY AppendIsConcat

\* The first element, a, of a sequence c, of which b are the others.
LEMMA FirstAndRest ==
    ASSUME NEW S, NEW a \in Seq(S), NEW b \in Seq(S), NEW c \in Seq(S), NEW p \in Seq(S)
    PROVE  /\ Len(a) = 1 /\ Len(c) = Len(b) + 1
           /\ c[1] = a[1] /\ \A i \in 1..Len(b) : c[i + 1] = b[i]
           => c \o p = a \o (b \o p)
  <1> DEFINE d == a \o b
  <1>1. d \in Seq(S)
    OBVIOUS
  <1>2. Len(d) = Len(a) + Len(b)
    BY ConcatProperties
  <1>3. \A i \in 1..Len(a) + Len(b) : d[i] = IF i <= Len(a) THEN a[i] ELSE b[i - Len(a)]
    BY ConcatProperties
  <1>4. d \o p = a \o (b \o p)
    <2>1. \A x, y, z \in Seq(S) : (x \o y) \o z = x \o (y \o z)
      BY ONLY ConcatAssociative, SMTT(60)
    <2>2. QED
      BY <2>1, Zenon
  <1> HIDE DEF d
  <1>5. SUFFICES ASSUME Len(a) = 1, Len(c) = Len(b) + 1,
                        c[1] = a[1], \A i \in 1..Len(b) : c[i + 1] = b[i]
                 PROVE  d = c
    BY <1>4
  <1>6. Len(d) = Len(c)
    BY <1>2, <1>5
  <1>7. ASSUME NEW i \in 1..Len(c) PROVE d[i] = c[i]
    <2>1. CASE i = 1
      BY <1>3, <1>5, <2>1
    <2>2. CASE i # 1
      <3>1. i - 1 \in 1..Len(b) /\ (i - 1) + 1 = i
        BY <1>5, <1>7, <2>2
      <3>2. d[i] = b[i - 1]
        BY <1>3, <1>5, <2>2, <3>1
      <3>3. QED
        BY <1>5, <3>1, <3>2
    <2>3. QED
      BY <2>1, <2>2
  <1>8. QED
    BY <1>1, <1>6, <1>7, SeqEqual

\* What follows a first element, in one way of writing a sequence and in another.
LEMMA SameRest ==
    ASSUME NEW S, NEW a \in Seq(S), NEW b \in Seq(S), NEW p \in Seq(S), NEW q \in Seq(S)
    PROVE  Len(a) = 1 /\ Len(b) = 1 /\ a \o p = b \o q => a[1] = b[1] /\ p = q
  <1> DEFINE x == a \o p
             y == b \o q
  <1>1. /\ Len(x) = Len(a) + Len(p)
        /\ \A i \in 1..Len(a) + Len(p) : x[i] = IF i <= Len(a) THEN a[i] ELSE p[i - Len(a)]
    BY ConcatProperties
  <1>2. /\ Len(y) = Len(b) + Len(q)
        /\ \A i \in 1..Len(b) + Len(q) : y[i] = IF i <= Len(b) THEN b[i] ELSE q[i - Len(b)]
    BY ConcatProperties
  <1>0. Len(a) \in Nat /\ Len(b) \in Nat /\ Len(p) \in Nat /\ Len(q) \in Nat
    OBVIOUS
  <1> HIDE DEF x, y
  <1>3. ASSUME Len(a) = 1, Len(b) = 1, x = y
        PROVE  a[1] = b[1] /\ p = q
    <2>1. Len(p) = Len(q)
      BY <1>0, <1>1, <1>2, <1>3
    <2>2. 1 \in 1..Len(a) + Len(p) /\ 1 \in 1..Len(b) + Len(q)
      BY <1>0, <1>3
    <2>3. x[1] = a[1] /\ y[1] = b[1]
      BY <1>1, <1>2, <1>3, <2>2
    <2>4. ASSUME NEW i \in 1..Len(p) PROVE p[i] = q[i]
      <3>1. i + 1 \in 1..Len(a) + Len(p) /\ i + 1 \in 1..Len(b) + Len(q) /\ ~(i + 1 <= 1) /\ (i + 1) - 1 = i
        BY <1>0, <1>3, <2>1
      <3>2. x[i + 1] = p[(i + 1) - 1]
        BY <1>1, <1>3, <3>1
      <3>3. y[i + 1] = q[(i + 1) - 1]
        BY <1>2, <1>3, <3>1
      <3>4. QED
        BY <1>3, <3>1, <3>2, <3>3
    <2>5. p = q
      BY <2>1, <2>4, SeqEqual
    <2>6. QED
      BY <1>3, <2>3, <2>5
  <1>4. QED
    BY <1>3 DEF x, y

\* A sequence that is not empty is its head before its tail.
LEMMA HeadTailConcat ==
    ASSUME NEW S, NEW s \in Seq(S), s # <<>>
    PROVE  s = <<Head(s)>> \o Tail(s)
  <1>1. Len(s) \in Nat /\ Len(s) >= 1
    OBVIOUS
  <1>2. 1 \in 1..Len(s) /\ Len(s) \in 1..Len(s)
    BY <1>1
  <1>3. SubSeq(s, 1, Len(s)) = <<s[1]>> \o SubSeq(s, 1 + 1, Len(s))
    BY <1>2, SubSeqRecursiveFirst
  <1>4. SubSeq(s, 1, Len(s)) = s /\ SubSeq(s, 2, Len(s)) = Tail(s)
    BY SubSeqFull, TailIsSubSeq
  <1>5. QED
    BY <1>3, <1>4

\* The next element makes a prefix longer.
LEMMA PrefixGrows ==
    ASSUME NEW S, NEW s \in Seq(S), NEW n \in Nat, n + 1 \in 1..Len(s)
    PROVE  /\ SubSeq(s, 1, n + 1) = Append(SubSeq(s, 1, n), s[n + 1])
           /\ SubSeq(s, 1, n + 1) \in Seq(S)
           /\ Len(SubSeq(s, 1, n + 1)) = n + 1
  <1> DEFINE a == SubSeq(s, 1, n)
             b == SubSeq(s, 1, n + 1)
             x == s[n + 1]
  <1>1. x \in S /\ Len(s) \in Nat
    OBVIOUS
  <1>2. /\ a \in Seq(S) /\ Len(a) = n
        /\ \A i \in 1..n : a[i] = s[i]
    BY <1>1
  <1>3. /\ b \in Seq(S) /\ Len(b) = n + 1
        /\ \A i \in 1..(n + 1) : b[i] = s[i]
    BY <1>1
  <1> HIDE DEF a, b, x
  <1> DEFINE c == Append(a, x)
  <1>4. /\ c \in Seq(S) /\ Len(c) = Len(a) + 1
        /\ \A i \in 1..Len(a) : c[i] = a[i]
        /\ c[Len(a) + 1] = x
    BY <1>1, <1>2, AppendProperties
  <1> HIDE DEF c
  <1>5. ASSUME NEW i \in 1..Len(b) PROVE b[i] = c[i]
    <2>1. CASE i = n + 1
      BY <1>2, <1>3, <1>4, <2>1 DEF x
    <2>2. CASE i # n + 1
      <3>1. i \in 1..n
        BY <1>3, <2>2
      <3>2. QED
        BY <1>2, <1>3, <1>4, <3>1
    <2>3. QED
      BY <2>1, <2>2
  <1>6. b = c
    BY <1>2, <1>3, <1>4, <1>5, SeqEqual
  <1>7. QED
    BY <1>3, <1>6 DEF a, b, c, x
=============================================================================
