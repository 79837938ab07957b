--------------------------- MODULE FlattenProofs ---------------------------
(***************************************************************************)
(* Lemmas about sequences, and what FlattenSeq of the community modules    *)
(* computes, for every sequence of sequences.  Its recursive function is a *)
(* CHOOSE, which means nothing until such a function is shown to exist;    *)
(* that takes an induction, and this one is over a set, so that no operator *)
(* has to be instantiated.                                                 *)
(***************************************************************************)
EXTENDS Integers, SequencesExt, SequenceTheorems, FiniteSetTheorems, WellFoundedInduction, TLAPS

(* Induction: a set with 0 and the successors of its numbers has them all. *)
LEMMA NatSet ==
  ASSUME NEW S, 0 \in S, \A n \in Nat : n \in S => n + 1 \in S
  PROVE  Nat \subseteq S
<1> DEFINE Less == {ss \in Nat \X Nat : ss[1] < ss[2]}
           T == Nat \ S
<1>1. SUFFICES ASSUME T # {} PROVE FALSE
  OBVIOUS
<1>2. PICK x \in T : \A y \in T : ~ (<<y, x>> \in Less)
  BY <1>1, NatLessThanWellFounded, WFMin DEF OpToRel
<1>3. x # 0 /\ x - 1 \in T
  OBVIOUS
<1>4. <<x - 1, x>> \in Less
  BY <1>3
<1> QED
  BY <1>2, <1>3, <1>4

\* f joins the first sequences of s, one more at each argument up to n.
Joins(f, s, n) ==
  f = [i \in 1 .. n |-> IF i = 1 THEN s[i] ELSE f[i - 1] \o s[i]]

\* Such a function, extended by one more argument.
LEMMA JoinsNext ==
  ASSUME NEW s, NEW n \in Nat, NEW f, Joins(f, s, n)
  PROVE  \E g : Joins(g, s, n + 1)
<1> DEFINE x == IF n = 0 THEN s[1] ELSE f[n] \o s[n + 1]
           g == [i \in 1 .. n + 1 |-> IF i = n + 1 THEN x ELSE f[i]]
<1>1. \A i \in 1 .. n : f[i] = IF i = 1 THEN s[i] ELSE f[i - 1] \o s[i]
  BY DEF Joins
<1>2. \A i \in 1 .. n + 1 : g[i] = IF i = n + 1 THEN x ELSE f[i]
  OBVIOUS
<1>3. ASSUME NEW i \in 1 .. n + 1
      PROVE  g[i] = IF i = 1 THEN s[i] ELSE g[i - 1] \o s[i]
  <2> HIDE DEF g
  <2>1. CASE i = 1 /\ n = 0
    BY <1>2, <2>1
  <2>2. CASE i = 1 /\ n # 0
    <3>1. i \in 1 .. n /\ i # n + 1
      BY <2>2
    <3> QED
      BY <1>1, <1>2, <2>2, <3>1
  <2>3. CASE i # 1 /\ i = n + 1
    <3>1. i - 1 = n /\ n \in 1 .. n + 1 /\ n # n + 1 /\ n # 0
      BY <2>3
    <3>2. g[n] = f[n] /\ g[i] = x
      BY <1>2, <2>3, <3>1
    <3> QED
      BY <2>3, <3>1, <3>2
  <2>4. CASE i # 1 /\ i # n + 1
    <3>1. i \in 1 .. n /\ i - 1 \in 1 .. n + 1 /\ i - 1 # n + 1
      BY <2>4
    <3>2. g[i] = f[i] /\ g[i - 1] = f[i - 1]
      BY <1>2, <2>4, <3>1
    <3> QED
      BY <1>1, <2>4, <3>1, <3>2
  <2> QED
    BY <2>1, <2>2, <2>3, <2>4
<1>4. Joins(g, s, n + 1)
  BY <1>3 DEF Joins
<1> QED
  BY <1>4

\* There is one for every n.
LEMMA JoinsExists == ASSUME NEW s, NEW n \in Nat PROVE \E f : Joins(f, s, n)
<1> DEFINE T == {k \in Nat : \E f : Joins(f, s, k)}
<1>1. 0 \in T
  <2>1. Joins(<<>>, s, 0)
    BY DEF Joins
  <2> QED
    BY <2>1
<1>2. ASSUME NEW k \in Nat, k \in T PROVE k + 1 \in T
  BY <1>2, JoinsNext
<1> QED
  BY <1>1, <1>2, NatSet

(* FlattenSeq of a sequence that is not empty is the last of such joins.   *)
LEMMA FlattenJoins ==
  ASSUME NEW s, Len(s) \in Nat \ {0}
  PROVE  \E f : Joins(f, s, Len(s)) /\ FlattenSeq(s) = f[Len(s)]
<1> DEFINE n == Len(s)
           h == CHOOSE f : f = [i \in 1 .. n |-> IF i = 1 THEN s[i] ELSE f[i - 1] \o s[i]]
<1>1. PICK f : f = [i \in 1 .. n |-> IF i = 1 THEN s[i] ELSE f[i - 1] \o s[i]]
  BY JoinsExists DEF Joins
<1>2. h = [i \in 1 .. n |-> IF i = 1 THEN s[i] ELSE h[i - 1] \o s[i]]
  BY <1>1
<1>3. FlattenSeq(s) = h[n]
  BY DEF FlattenSeq
<1> QED
  BY <1>2, <1>3 DEF Joins

(* Induction along the sequence: R[i] holds what the first i can give.     *)
LEMMA FlattenInduction ==
  ASSUME NEW s, Len(s) \in Nat \ {0}, NEW R, s[1] \in R[1],
         \A i \in 1 .. Len(s) - 1 : \A x \in R[i] : x \o s[i + 1] \in R[i + 1]
  PROVE  FlattenSeq(s) \in R[Len(s)]
<1> DEFINE n == Len(s)
<1>1. PICK f : Joins(f, s, n) /\ FlattenSeq(s) = f[n]
  BY FlattenJoins
<1>2. \A i \in 1 .. n : f[i] = IF i = 1 THEN s[i] ELSE f[i - 1] \o s[i]
  BY <1>1 DEF Joins
<1> DEFINE T == {k \in Nat : k + 1 \in 1 .. n => f[k + 1] \in R[k + 1]}
<1>3. 0 \in T
  BY <1>2
<1>4. ASSUME NEW k \in Nat, k \in T PROVE k + 1 \in T
  <2>1. SUFFICES ASSUME k + 2 \in 1 .. n PROVE f[k + 2] \in R[k + 2]
    OBVIOUS
  <2>2. k + 1 \in 1 .. n - 1 /\ k + 1 \in 1 .. n /\ (k + 1) + 1 = k + 2 /\ (k + 2) - 1 = k + 1
    BY <2>1
  <2>3. f[k + 1] \in R[k + 1]
    BY <1>4, <2>2
  <2>4. f[k + 2] = f[k + 1] \o s[k + 2]
    <3>1. k + 2 # 1
      OBVIOUS
    <3>2. f[k + 2] = f[(k + 2) - 1] \o s[k + 2]
      BY <1>2, <2>1, <3>1
    <3> QED
      BY <2>2, <3>2
  <2>5. f[k + 1] \o s[(k + 1) + 1] \in R[(k + 1) + 1]
    BY <2>2, <2>3
  <2> QED
    BY <2>2, <2>4, <2>5
<1>5. n - 1 \in T
  <2>1. n - 1 \in Nat
    OBVIOUS
  <2> HIDE DEF T, n
  <2> QED
    BY <1>3, <1>4, <2>1, NatSet
<1>6. (n - 1) + 1 = n /\ n \in 1 .. n
  OBVIOUS
<1> QED
  BY <1>1, <1>5, <1>6

(* One sequence more at the end.                                           *)
LEMMA FlattenAppend ==
  ASSUME NEW s, NEW t, NEW n \in Nat, Len(s) = n, Len(t) = n + 1, \A i \in 1 .. n : t[i] = s[i]
  PROVE  FlattenSeq(t) = IF n = 0 THEN t[1] ELSE FlattenSeq(s) \o t[n + 1]
<1>1. PICK f : Joins(f, t, n + 1) /\ FlattenSeq(t) = f[n + 1]
  BY FlattenJoins
<1>2. \A i \in 1 .. n + 1 : f[i] = IF i = 1 THEN t[i] ELSE f[i - 1] \o t[i]
  BY <1>1 DEF Joins
<1>3. CASE n = 0
  BY <1>1, <1>2, <1>3
<1>4. CASE n # 0
  <2>1. PICK g : Joins(g, s, n) /\ FlattenSeq(s) = g[n]
    BY <1>4, FlattenJoins
  <2>2. \A i \in 1 .. n : g[i] = IF i = 1 THEN s[i] ELSE g[i - 1] \o s[i]
    BY <2>1 DEF Joins
  <2> DEFINE T == {k \in Nat : k + 1 \in 1 .. n => f[k + 1] = g[k + 1]}
  <2>3. 0 \in T
    BY <1>2, <2>2
  <2>4. ASSUME NEW k \in Nat, k \in T PROVE k + 1 \in T
    <3>1. SUFFICES ASSUME k + 2 \in 1 .. n PROVE f[k + 2] = g[k + 2]
      OBVIOUS
    <3>2. k + 1 \in 1 .. n /\ k + 2 \in 1 .. n + 1 /\ k + 2 # 1 /\ (k + 2) - 1 = k + 1
      BY <3>1
    <3>3. f[k + 2] = f[k + 1] \o t[k + 2] /\ g[k + 2] = g[k + 1] \o s[k + 2]
      BY <1>2, <2>2, <3>1, <3>2
    <3> QED
      BY <2>4, <3>1, <3>2, <3>3
  <2>5. n - 1 \in T
    <3>1. n - 1 \in Nat
      BY <1>4
    <3> HIDE DEF T
    <3> QED
      BY <2>3, <2>4, <3>1, NatSet
  <2>6. (n - 1) + 1 = n /\ n \in 1 .. n /\ n + 1 \in 1 .. n + 1 /\ (n + 1) - 1 = n /\ n + 1 # 1
    BY <1>4
  <2>7. f[n] = g[n]
    BY <2>5, <2>6
  <2>8. f[n + 1] = f[n] \o t[n + 1]
    BY <1>2, <2>6
  <2> QED
    BY <1>1, <1>4, <2>1, <2>7, <2>8
<1> QED
  BY <1>3, <1>4
-----------------------------------------------------------------------------
(* A function on 1 .. n is a sequence.                                     *)
LEMMA SeqFun ==
  ASSUME NEW T, NEW n \in Nat, NEW f \in [1 .. n -> T]
  PROVE  f \in Seq(T) /\ Len(f) = n /\ DOMAIN f = 1 .. n
BY SeqDef

\* The elements of a sequence.
LEMMA SeqRange ==
  ASSUME NEW S, NEW s \in Seq(S)
  PROVE  /\ Range(s) \subseteq S
         /\ \A x : x \in Range(s) <=> \E i \in 1 .. Len(s) : s[i] = x
         /\ Range(s) = {} <=> s = <<>>
<1>1. DOMAIN s = 1 .. Len(s) /\ Len(s) \in Nat /\ \A i \in 1 .. Len(s) : s[i] \in S
  BY LenProperties
<1>2. \A x : x \in Range(s) <=> \E i \in 1 .. Len(s) : s[i] = x
  BY <1>1 DEF Range
<1>3. Range(s) = {} <=> s = <<>>
  <2>1. ASSUME s # <<>> PROVE Range(s) # {}
    <3>1. 1 \in 1 .. Len(s)
      BY <1>1, <2>1, EmptySeq
    <3> QED
      BY <1>2, <3>1
  <2>2. ASSUME s = <<>> PROVE Range(s) = {}
    BY <1>2, <2>2
  <2> QED
    BY <2>1, <2>2, Zenon
<1>4. Range(s) \subseteq S
  BY <1>1 DEF Range
<1> QED
  BY <1>2, <1>3, <1>4, Zenon

\* The elements of two sequences joined.
LEMMA RangeConcat ==
  ASSUME NEW S, NEW s \in Seq(S), NEW t \in Seq(S)
  PROVE  /\ s \o t \in Seq(S)
         /\ Range(s \o t) = Range(s) \cup Range(t)
         /\ IsInjective(s) /\ IsInjective(t) /\ Range(s) \cap Range(t) = {} => IsInjective(s \o t)
<1>1. /\ s \o t \in Seq(S) /\ Len(s \o t) = Len(s) + Len(t)
      /\ \A i \in 1 .. Len(s) + Len(t) : (s \o t)[i] = IF i <= Len(s) THEN s[i] ELSE t[i - Len(s)]
  BY ConcatProperties
<1>2. Len(s) \in Nat /\ Len(t) \in Nat /\ DOMAIN s = 1 .. Len(s) /\ DOMAIN t = 1 .. Len(t)
      /\ DOMAIN (s \o t) = 1 .. Len(s) + Len(t)
  BY <1>1, LenProperties
<1> DEFINE m == Len(s)
           n == Len(t)
           c == s \o t
<1> HIDE DEF m, n, c
<1>3. /\ m \in Nat /\ n \in Nat /\ DOMAIN s = 1 .. m /\ DOMAIN t = 1 .. n /\ DOMAIN c = 1 .. m + n
      /\ \A i \in 1 .. m : i \in 1 .. m + n /\ c[i] = s[i]
      /\ \A i \in 1 .. n : m + i \in 1 .. m + n /\ c[m + i] = t[i]
      /\ \A i \in 1 .. m + n : i \in 1 .. m \/ (i - m \in 1 .. n /\ i = m + (i - m))
  BY <1>1, <1>2 DEF m, n, c
<1>4. Range(c) = Range(s) \cup Range(t)
  <2>1. ASSUME NEW x \in Range(c) PROVE x \in Range(s) \cup Range(t)
    <3>1. PICK i \in 1 .. m + n : c[i] = x
      BY <1>3 DEF Range
    <3>2. CASE i \in 1 .. m
      BY <1>3, <3>1, <3>2 DEF Range
    <3>3. CASE i - m \in 1 .. n /\ i = m + (i - m)
      BY <1>3, <3>1, <3>3 DEF Range
    <3> QED
      BY <1>3, <3>2, <3>3
  <2>2. ASSUME NEW x \in Range(s) PROVE x \in Range(c)
    BY <1>3 DEF Range
  <2>3. ASSUME NEW x \in Range(t) PROVE x \in Range(c)
    BY <1>3 DEF Range
  <2> QED
    BY <2>1, <2>2, <2>3
<1>5. ASSUME IsInjective(s), IsInjective(t), Range(s) \cap Range(t) = {},
             NEW i \in 1 .. m + n, NEW j \in 1 .. m + n, c[i] = c[j]
      PROVE  i = j
  <2>1. CASE i \in 1 .. m /\ j \in 1 .. m
    BY <1>3, <1>5, <2>1 DEF IsInjective
  <2>2. CASE i \in 1 .. m /\ j - m \in 1 .. n /\ j = m + (j - m)
    <3>1. s[i] \in Range(s) /\ t[j - m] \in Range(t) /\ c[i] = s[i] /\ c[j] = t[j - m]
      BY <1>3, <2>2 DEF Range
    <3> QED
      BY <1>5, <3>1
  <2>3. CASE j \in 1 .. m /\ i - m \in 1 .. n /\ i = m + (i - m)
    <3>1. s[j] \in Range(s) /\ t[i - m] \in Range(t) /\ c[j] = s[j] /\ c[i] = t[i - m]
      BY <1>3, <2>3 DEF Range
    <3> QED
      BY <1>5, <3>1
  <2>4. CASE j - m \in 1 .. n /\ j = m + (j - m) /\ i - m \in 1 .. n /\ i = m + (i - m)
    <3>1. t[i - m] = t[j - m]
      BY <1>3, <1>5, <2>4
    <3>2. i - m = j - m
      BY <1>3, <1>5, <2>4, <3>1 DEF IsInjective
    <3> QED
      BY <1>3, <3>2
  <2> QED
    BY <1>3, <2>1, <2>2, <2>3, <2>4
<1>6. IsInjective(s) /\ IsInjective(t) /\ Range(s) \cap Range(t) = {} => IsInjective(c)
  <2>1. SUFFICES ASSUME IsInjective(s), IsInjective(t), Range(s) \cap Range(t) = {}
                 PROVE  \A i, j \in DOMAIN c : c[i] = c[j] => i = j
    BY DEF IsInjective
  <2> QED
    BY <1>3, <1>5, <2>1
<1> QED
  BY <1>1, <1>4, <1>6 DEF c

\* The sequences of ss have no element twice, and no two of them one in common.
Apart(ss) ==
  /\ \A i \in DOMAIN ss : IsInjective(ss[i])
  /\ \A i, j \in DOMAIN ss : i # j => Range(ss[i]) \cap Range(ss[j]) = {}

(* What the flattened sequence holds, and when no element is in it twice.  *)
LEMMA FlattenFacts ==
  ASSUME NEW S, NEW ss \in Seq(Seq(S))
  PROVE  /\ FlattenSeq(ss) \in Seq(S)
         /\ Range(FlattenSeq(ss)) = UNION {Range(ss[i]) : i \in DOMAIN ss}
         /\ Apart(ss) => IsInjective(FlattenSeq(ss))
<1> DEFINE n == Len(ss)
           Upto(i) == UNION {Range(ss[j]) : j \in 1 .. i}
           R == [i \in 1 .. n |-> {x \in Seq(S) : Range(x) = Upto(i) /\ (Apart(ss) => IsInjective(x))}]
<1>1. n \in Nat /\ DOMAIN ss = 1 .. n /\ \A i \in 1 .. n : ss[i] \in Seq(S)
  BY LenProperties
<1>2. CASE n = 0
  <2>1. FlattenSeq(ss) = <<>>
    <3>1. ss = <<>>
      BY <1>2, EmptySeq
    <3> QED
      BY <1>2, <3>1 DEF FlattenSeq
  <2>2. <<>> \in Seq(S) /\ DOMAIN <<>> = {} /\ DOMAIN ss = {}
    BY <1>1, <1>2, EmptySeq
  <2> QED
    BY <2>1, <2>2 DEF Range, IsInjective
<1>3. CASE n # 0
  <2> HIDE DEF n
  <2>1. ss[1] \in R[1]
    <3>1. 1 \in 1 .. n
      BY <1>1, <1>3
    <3>2. Upto(1) = Range(ss[1])
      OBVIOUS
    <3> QED
      BY <1>1, <3>1, <3>2 DEF Apart
  <2>2. ASSUME NEW i \in 1 .. n - 1, NEW x \in R[i]
        PROVE  x \o ss[i + 1] \in R[i + 1]
    <3>1. i \in 1 .. n /\ i + 1 \in 1 .. n /\ i \in Nat /\ (1 .. i + 1) = (1 .. i) \cup {i + 1} /\ i + 1 \notin 1 .. i
      BY <1>1
    <3>2. x \in Seq(S) /\ Range(x) = Upto(i) /\ (Apart(ss) => IsInjective(x))
      BY <3>1
    <3>3. /\ x \o ss[i + 1] \in Seq(S)
          /\ Range(x \o ss[i + 1]) = Range(x) \cup Range(ss[i + 1])
          /\ IsInjective(x) /\ IsInjective(ss[i + 1]) /\ Range(x) \cap Range(ss[i + 1]) = {}
               => IsInjective(x \o ss[i + 1])
      BY <1>1, <3>1, <3>2, RangeConcat
    <3>4. Upto(i + 1) = Upto(i) \cup Range(ss[i + 1])
      BY <3>1
    <3>5. ASSUME Apart(ss) PROVE Range(x) \cap Range(ss[i + 1]) = {} /\ IsInjective(ss[i + 1])
      <4>1. \A j \in 1 .. i : j \in 1 .. n /\ j # i + 1
        BY <1>1, <3>1
      <4>2. \A j \in 1 .. i : Range(ss[j]) \cap Range(ss[i + 1]) = {}
        BY <1>1, <3>1, <3>5, <4>1 DEF Apart
      <4> QED
        BY <1>1, <3>1, <3>2, <3>5, <4>2 DEF Apart
    <3> QED
      BY <3>1, <3>2, <3>3, <3>4, <3>5
  <2>3. FlattenSeq(ss) \in R[n]
    <3>1. Len(ss) \in Nat \ {0} /\ n = Len(ss)
      BY <1>1, <1>3 DEF n
    <3> HIDE DEF R
    <3> QED
      BY <2>1, <2>2, <3>1, FlattenInduction
  <2>4. n \in 1 .. n
    BY <1>1, <1>3
  <2>5. Upto(n) = UNION {Range(ss[i]) : i \in DOMAIN ss}
    BY <1>1
  <2> QED
    BY <2>3, <2>4, <2>5
<1> QED
  BY <1>2, <1>3

(* A sequence without repetition is as long as its set of elements is large. *)
LEMMA LenOfInjective ==
  ASSUME NEW S, NEW s \in Seq(S), IsInjective(s)
  PROVE  IsFiniteSet(Range(s)) /\ Cardinality(Range(s)) = Len(s)
<1>1. Len(s) \in Nat /\ s \in [1 .. Len(s) -> S] /\ DOMAIN s = 1 .. Len(s)
  BY LenProperties
<1>2. s \in Injection(1 .. Len(s), Range(s)) /\ s \in Surjection(1 .. Len(s), Range(s))
  BY <1>1 DEF Injection, Surjection, Range
<1>3. IsFiniteSet(1 .. Len(s)) /\ Cardinality(1 .. Len(s)) = Len(s)
  <2>1. 1 \in Int /\ Len(s) \in Int
    BY <1>1
  <2>2. /\ IsFiniteSet(1 .. Len(s))
        /\ Cardinality(1 .. Len(s)) = IF 1 > Len(s) THEN 0 ELSE Len(s) - 1 + 1
    BY <2>1, FS_Interval
  <2> QED
    BY <1>1, <2>2
<1> QED
  BY <1>2, <1>3, FS_Surjection

(* The least number of a set.                                              *)
LEMMA Least ==
  ASSUME NEW T, T \subseteq Nat, T # {}
  PROVE  \E i \in T : \A j \in T : i <= j
<1> DEFINE Less == {ss \in Nat \X Nat : ss[1] < ss[2]}
<1>1. PICK x \in T : \A y \in T : ~ (<<y, x>> \in Less)
  BY NatLessThanWellFounded, WFMin DEF OpToRel
<1>2. ASSUME NEW y \in T PROVE x <= y
  <2>1. x \in Nat /\ y \in Nat /\ ~ (<<y, x>> \in Less)
    BY <1>1
  <2>2. ~ (y < x)
    BY <2>1
  <2> QED
    BY <2>1, <2>2
<1> QED
  BY <1>2

(* The greatest number of a set of numbers up to n.                        *)
LEMMA Greatest ==
  ASSUME NEW n \in Nat, NEW T, T \subseteq 0 .. n, T # {}
  PROVE  \E i \in T : \A j \in T : j <= i
<1> DEFINE U == {k \in 0 .. n : n - k \in T}
<1>1. U \subseteq Nat /\ U # {}
  <2>1. PICK i \in T : TRUE
    OBVIOUS
  <2>2. n - i \in 0 .. n /\ n - (n - i) = i
    BY <2>1
  <2> QED
    BY <2>1, <2>2
<1>2. PICK k \in U : \A j \in U : k <= j
  BY <1>1, Least
<1>3. ASSUME NEW j \in T PROVE j <= n - k
  <2>1. n - j \in 0 .. n /\ n - (n - j) = j
    OBVIOUS
  <2>2. n - j \in U
    BY <2>1
  <2>3. k <= n - j
    BY <1>2, <2>2
  <2> QED
    BY <1>2, <2>1, <2>3
<1> QED
  BY <1>2, <1>3

\* The sequences of one element and of none.
LEMMA SmallSeqs ==
  ASSUME NEW x
  PROVE  /\ DOMAIN <<x>> = 1 .. 1 /\ Range(<<x>>) = {x} /\ IsInjective(<<x>>)
         /\ DOMAIN <<>> = {} /\ Range(<<>>) = {} /\ IsInjective(<<>>)
<1>1. <<x>> \in Seq({x}) /\ Len(<<x>>) = 1 /\ <<x>>[1] = x
  OBVIOUS
<1>2. DOMAIN <<x>> = 1 .. 1
  BY <1>1, LenProperties
<1>3. \A i \in 1 .. 1 : i = 1
  OBVIOUS
<1>4. Range(<<x>>) = {x}
  BY <1>1, <1>2, <1>3 DEF Range
<1>5. IsInjective(<<x>>)
  BY <1>2, <1>3 DEF IsInjective
<1>6. DOMAIN <<>> = {}
  OBVIOUS
<1>7. Range(<<>>) = {} /\ IsInjective(<<>>)
  BY <1>6 DEF Range, IsInjective
<1> QED
  BY <1>2, <1>4, <1>5, <1>6, <1>7
=============================================================================
