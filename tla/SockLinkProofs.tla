-------------------------- MODULE SockLinkProofs --------------------------
(***************************************************************************)
(* Proofs for SockLink: both ends of a connection agree on where packets   *)
(* begin, and packets arrive in order and at most once, for any number of  *)
(* connections and packets and any limit of the queues and sockets.        *)
(***************************************************************************)
EXTENDS SockLink, FlattenProofs, SequenceTheorems

-----------------------------------------------------------------------------
(* Pieces. *)

\* The pieces packets are made of: a heartbeat is a header alone.
Number == Nat \ {0}
Legal  == {<<Hb, 1>>} \cup (Number \X {1, 2})

\* x may stand before y: packets are in order, a header is before its body.
Ord(x, y)   == \/ x[1] = Hb \/ y[1] = Hb \/ x[1] < y[1]
               \/ x[1] = y[1] /\ x[2] < y[2]
Sorted(s)   == \A i, j \in DOMAIN s : i < j => Ord(s[i], s[j])
OrdSets(S, T) == \A x \in S, y \in T : Ord(x, y)

\* What an align buffer holds between two turns: the header of a packet, if any.
Pending(ral) == ral = <<>> \/ \E m \in Number : ral = <<<<m, 1>>>>

LEMMA LegalPiece ==
  ASSUME NEW x \in Legal
  PROVE  /\ x = <<x[1], x[2]>> /\ x[1] \in Nat /\ x[2] \in {1, 2}
         /\ x[1] = Hb => x[2] = 1
BY DEF Legal, Number, Hb

LEMMA ToSetOfSeq ==
  ASSUME NEW S, NEW s \in Seq(S)
  PROVE  /\ ToSet(s) = {s[i] : i \in 1 .. Len(s)} /\ ToSet(s) \subseteq S
         /\ \A i \in 1 .. Len(s) : s[i] \in ToSet(s)
BY DEF ToSet

LEMMA ToSetConcat ==
  ASSUME NEW S, NEW s \in Seq(S), NEW t \in Seq(S)
  PROVE  ToSet(s \o t) = ToSet(s) \cup ToSet(t)
<1>1. /\ s \o t \in Seq(S) /\ Len(s \o t) = Len(s) + Len(t)
      /\ \A i \in 1 .. Len(s) + Len(t) : (s \o t)[i] = IF i <= Len(s) THEN s[i] ELSE t[i - Len(s)]
  BY ConcatProperties
<1>2. ASSUME NEW x \in ToSet(s \o t) PROVE x \in ToSet(s) \cup ToSet(t)
  <2>1. PICK i \in 1 .. Len(s) + Len(t) : x = (s \o t)[i]
    BY <1>1 DEF ToSet
  <2>2. i <= Len(s) => i \in 1 .. Len(s)
    BY LenProperties
  <2>3. ~(i <= Len(s)) => i - Len(s) \in 1 .. Len(t)
    BY LenProperties
  <2> QED
    BY <1>1, <2>1, <2>2, <2>3, ToSetOfSeq
<1>3. ASSUME NEW x \in ToSet(s) PROVE x \in ToSet(s \o t)
  <2>1. PICK i \in 1 .. Len(s) : x = s[i]
    BY ToSetOfSeq
  <2>2. i \in 1 .. Len(s) + Len(t) /\ i <= Len(s)
    BY <2>1, LenProperties
  <2> QED
    BY <1>1, <2>1, <2>2, ToSetOfSeq
<1>4. ASSUME NEW x \in ToSet(t) PROVE x \in ToSet(s \o t)
  <2>1. PICK i \in 1 .. Len(t) : x = t[i]
    BY ToSetOfSeq
  <2>2. /\ Len(s) + i \in 1 .. Len(s) + Len(t) /\ ~(Len(s) + i <= Len(s))
        /\ (Len(s) + i) - Len(s) = i
    BY <2>1, LenProperties
  <2>3. (s \o t)[Len(s) + i] = t[i]
    BY <1>1, <2>2
  <2>4. (s \o t)[Len(s) + i] \in ToSet(s \o t)
    BY <1>1, <2>2, ToSetOfSeq
  <2> QED
    BY <2>1, <2>3, <2>4
<1> QED
  BY <1>2, <1>3, <1>4

LEMMA ToSetTail ==
  ASSUME NEW S, NEW s \in Seq(S), s # <<>>
  PROVE  /\ Head(s) = s[1] /\ s[1] \in ToSet(s) /\ Tail(s) \in Seq(S)
         /\ Len(Tail(s)) = Len(s) - 1 /\ \A i \in 1 .. Len(s) - 1 : Tail(s)[i] = s[i + 1]
         /\ ToSet(Tail(s)) \subseteq ToSet(s) /\ ToSet(s) = {s[1]} \cup ToSet(Tail(s))
<1>1. /\ Head(s) = s[1] /\ s[1] \in ToSet(s) /\ Tail(s) \in Seq(S)
      /\ Len(Tail(s)) = Len(s) - 1 /\ \A i \in 1 .. Len(s) - 1 : Tail(s)[i] = s[i + 1]
  BY ToSetOfSeq
<1>2. ASSUME NEW x \in ToSet(Tail(s)) PROVE x \in ToSet(s)
  <2>1. PICK i \in 1 .. Len(s) - 1 : x = Tail(s)[i]
    BY <1>1 DEF ToSet
  <2>2. i + 1 \in 1 .. Len(s)
    BY LenProperties
  <2> QED
    BY <1>1, <2>1, <2>2, ToSetOfSeq
<1>3. ASSUME NEW x \in ToSet(s), x # s[1] PROVE x \in ToSet(Tail(s))
  <2>1. PICK i \in 1 .. Len(s) : x = s[i]
    BY ToSetOfSeq
  <2>2. i - 1 \in 1 .. Len(s) - 1 /\ (i - 1) + 1 = i
    BY <1>3, <2>1, LenProperties
  <2>3. Tail(s)[i - 1] = s[i]
    BY <1>1, <2>2
  <2> QED
    BY <1>1, <2>1, <2>2, <2>3, ToSetOfSeq
<1> QED
  BY <1>1, <1>2, <1>3

LEMMA ToSetSubSeq ==
  ASSUME NEW S, NEW s \in Seq(S), NEW m \in 1 .. Len(s) + 1, NEW n \in 0 .. Len(s)
  PROVE  /\ SubSeq(s, m, n) \in Seq(S) /\ ToSet(SubSeq(s, m, n)) \subseteq ToSet(s)
         /\ Len(SubSeq(s, m, n)) = IF m <= n THEN n - m + 1 ELSE 0
         /\ \A i \in 1 .. n - m + 1 : SubSeq(s, m, n)[i] = s[m + i - 1]
<1>1. \A i \in m .. n : s[i] \in S
  BY LenProperties, ElementOfSeq
<1>2. m \in Int /\ n \in Int
  BY LenProperties
<1>3. /\ SubSeq(s, m, n) \in Seq(S)
      /\ Len(SubSeq(s, m, n)) = IF m <= n THEN n - m + 1 ELSE 0
      /\ \A i \in 1 .. n - m + 1 : SubSeq(s, m, n)[i] = s[m + i - 1]
  BY <1>1, <1>2, SubSeqProperties
<1> DEFINE t == SubSeq(s, m, n)
<1>4. ASSUME NEW x \in ToSet(t) PROVE x \in ToSet(s)
  <2>1. PICK i \in 1 .. Len(t) : x = t[i]
    <3>1. t \in Seq(S)
      BY <1>3
    <3> HIDE DEF t
    <3>2. ToSet(t) = {t[i] : i \in 1 .. Len(t)}
      BY <3>1, ToSetOfSeq
    <3> QED
      BY <3>2
  <2>2. i \in 1 .. n - m + 1 /\ m + i - 1 \in 1 .. Len(s)
    BY <1>3, <2>1, LenProperties
  <2> QED
    BY <1>3, <2>1, <2>2, ToSetOfSeq
<1> QED
  BY <1>3, <1>4

-----------------------------------------------------------------------------
(* Beginnings of packets and whole packets. *)

LEMMA EmptyWhole == Whole(<<>>) /\ Sorted(<<>>)
BY DEF Whole, Begun, Sorted

LEMMA BegunPrefix ==
  ASSUME NEW s \in Seq(Legal), NEW t \in Seq(Legal), Begun(s \o t)
  PROVE  Begun(s)
<1>1. /\ Len(s \o t) = Len(s) + Len(t) /\ s \o t \in Seq(Legal)
      /\ \A i \in 1 .. Len(s) + Len(t) : (s \o t)[i] = IF i <= Len(s) THEN s[i] ELSE t[i - Len(s)]
  BY ConcatProperties
<1>2. /\ DOMAIN s = 1 .. Len(s) /\ DOMAIN (s \o t) = 1 .. Len(s) + Len(t)
      /\ Len(s) \in Nat /\ Len(t) \in Nat
  BY <1>1, LenProperties
<1>3. \A i \in 1 .. Len(s) : i \in 1 .. Len(s) + Len(t) /\ (s \o t)[i] = s[i]
  BY <1>1, <1>2
<1>4. ASSUME NEW i \in 1 .. Len(s), s[i][2] = 2
      PROVE  i > 1 /\ s[i - 1] = <<s[i][1], 1>>
  <2>1. i > 1 /\ (s \o t)[i - 1] = <<s[i][1], 1>>
    BY <1>2, <1>3, <1>4 DEF Begun
  <2> QED
    BY <1>2, <1>3, <2>1
<1>5. ASSUME NEW i \in 1 .. Len(s), s[i][2] = 1, s[i][1] # Hb, i < Len(s)
      PROVE  s[i + 1] = <<s[i][1], 2>>
  <2>1. (s \o t)[i + 1] = <<s[i][1], 2>>
    BY <1>1, <1>2, <1>3, <1>5 DEF Begun
  <2> QED
    BY <1>2, <1>3, <1>5, <2>1
<1> QED
  BY <1>2, <1>4, <1>5 DEF Begun

LEMMA WholeConcat ==
  ASSUME NEW s \in Seq(Legal), NEW t \in Seq(Legal), Whole(s), Whole(t)
  PROVE  Whole(s \o t)
<1> DEFINE u == s \o t
<1>1. /\ Len(u) = Len(s) + Len(t) /\ u \in Seq(Legal)
      /\ \A i \in 1 .. Len(s) + Len(t) : u[i] = IF i <= Len(s) THEN s[i] ELSE t[i - Len(s)]
  BY ConcatProperties
<1>2. /\ DOMAIN s = 1 .. Len(s) /\ DOMAIN t = 1 .. Len(t) /\ DOMAIN u = 1 .. Len(s) + Len(t)
      /\ Len(s) \in Nat /\ Len(t) \in Nat
  BY <1>1, LenProperties
<1>3. \A i \in 1 .. Len(s) : i \in 1 .. Len(u) /\ u[i] = s[i]
  BY <1>1, <1>2
<1>4. \A i \in 1 .. Len(t) : Len(s) + i \in 1 .. Len(u) /\ u[Len(s) + i] = t[i]
  <2>1. ASSUME NEW i \in 1 .. Len(t) PROVE Len(s) + i \in 1 .. Len(u) /\ u[Len(s) + i] = t[i]
    <3>1. Len(s) + i \in 1 .. Len(s) + Len(t) /\ ~(Len(s) + i <= Len(s)) /\ (Len(s) + i) - Len(s) = i
      BY <1>2
    <3> QED
      BY <1>1, <3>1
  <2> QED
    BY <2>1
<1>5. \A i \in 1 .. Len(u) : i \in 1 .. Len(s) \/ \E k \in 1 .. Len(t) : i = Len(s) + k
  <2>1. ASSUME NEW i \in 1 .. Len(u), i \notin 1 .. Len(s)
        PROVE  i - Len(s) \in 1 .. Len(t) /\ i = Len(s) + (i - Len(s))
    BY <1>1, <1>2, <2>1
  <2> QED
    BY <2>1
<1> HIDE DEF u
<1>6. ASSUME NEW i \in 1 .. Len(u), u[i][2] = 2
      PROVE  i > 1 /\ u[i - 1] = <<u[i][1], 1>>
  <2>1. CASE i \in 1 .. Len(s)
    <3>1. i > 1 /\ s[i - 1] = <<s[i][1], 1>>
      BY <1>2, <1>3, <1>6, <2>1 DEF Whole, Begun
    <3>2. i - 1 \in 1 .. Len(s)
      BY <1>2, <2>1, <3>1
    <3> QED
      BY <1>3, <2>1, <3>1, <3>2
  <2>2. ASSUME NEW k \in 1 .. Len(t), i = Len(s) + k
        PROVE  i > 1 /\ u[i - 1] = <<u[i][1], 1>>
    <3>1. k > 1 /\ t[k - 1] = <<t[k][1], 1>>
      BY <1>2, <1>4, <1>6, <2>2 DEF Whole, Begun
    <3>2. k - 1 \in 1 .. Len(t) /\ Len(s) + (k - 1) = i - 1
      BY <1>2, <2>2, <3>1
    <3>3. u[i - 1] = t[k - 1] /\ u[i] = t[k]
      BY <1>4, <2>2, <3>2
    <3> QED
      BY <1>2, <2>2, <3>1, <3>3
  <2> QED
    BY <1>5, <2>1, <2>2
<1>7. ASSUME NEW i \in 1 .. Len(u), u[i][2] = 1, u[i][1] # Hb, i < Len(u)
      PROVE  u[i + 1] = <<u[i][1], 2>>
  <2>1. CASE i \in 1 .. Len(s) /\ i < Len(s)
    <3>1. s[i + 1] = <<s[i][1], 2>> /\ i + 1 \in 1 .. Len(s)
      BY <1>2, <1>3, <1>7, <2>1 DEF Whole, Begun
    <3> QED
      BY <1>3, <2>1, <3>1
  <2>2. i # Len(s)
    <3>1. SUFFICES ASSUME i = Len(s) PROVE FALSE
      OBVIOUS
    <3>2. s # <<>> /\ i \in 1 .. Len(s)
      BY <1>2, <3>1
    <3>3. s[i][2] = Len2(s[i][1])
      BY <3>1, <3>2 DEF Whole
    <3>4. s[i][2] = 1 /\ s[i][1] # Hb
      BY <1>3, <1>7, <3>2
    <3> QED
      BY <3>3, <3>4 DEF Len2
  <2>3. ASSUME NEW k \in 1 .. Len(t), i = Len(s) + k
        PROVE  u[i + 1] = <<u[i][1], 2>>
    <3>1. k < Len(t) /\ k + 1 \in 1 .. Len(t) /\ Len(s) + (k + 1) = i + 1
      BY <1>1, <1>2, <1>7, <2>3
    <3>2. u[i] = t[k] /\ u[i + 1] = t[k + 1]
      BY <1>4, <2>3, <3>1
    <3> QED
      BY <1>2, <1>7, <3>1, <3>2 DEF Whole, Begun
  <2>4. CASE i \in 1 .. Len(s)
    <3>1. i \in 1 .. Len(s) /\ i # Len(s) /\ Len(s) \in Nat
      BY <1>2, <2>2, <2>4
    <3>2. i < Len(s)
      BY <3>1
    <3> QED
      BY <2>1, <2>4, <3>2
  <2> QED
    BY <1>5, <2>3, <2>4
<1>8. ASSUME u # <<>> PROVE u[Len(u)][2] = Len2(u[Len(u)][1])
  <2>1. CASE t = <<>>
    <3>1. Len(u) = Len(s) /\ Len(s) \in 1 .. Len(s)
      BY <1>1, <1>2, <1>8, <2>1
    <3> QED
      BY <1>3, <3>1 DEF Whole
  <2>2. CASE t # <<>>
    <3>1. Len(t) \in 1 .. Len(t) /\ Len(u) = Len(s) + Len(t)
      BY <1>1, <1>2, <2>2
    <3> QED
      BY <1>4, <2>2, <3>1 DEF Whole
  <2> QED
    BY <2>1, <2>2
<1>9. Begun(u)
  BY <1>1, <1>2, <1>6, <1>7 DEF Begun
<1> QED
  BY <1>8, <1>9 DEF Whole, u

(* Without its first piece, a beginning of packets that has no piece of an *)
(* earlier packet before the rest is one.                                  *)
LEMMA WithoutFirst ==
  ASSUME NEW u \in Seq(Legal), u # <<>>, Begun(u), u[1][2] = Len2(u[1][1]) \/ u[1][2] = 2
  PROVE  Begun(Tail(u)) /\ (Whole(u) => Whole(Tail(u)))
<1> DEFINE t == Tail(u)
<1>1. /\ t \in Seq(Legal) /\ Len(t) = Len(u) - 1
      /\ \A i \in 1 .. Len(u) - 1 : t[i] = u[i + 1]
  BY ToSetTail
<1>2. /\ DOMAIN t = 1 .. Len(u) - 1 /\ DOMAIN u = 1 .. Len(u) /\ Len(u) \in Nat \ {0}
  BY <1>1, LenProperties
<1>3. \A i \in 1 .. Len(u) : u[i] \in Legal
  BY <1>2, ElementOfSeq
<1> HIDE DEF t
<1>4. ASSUME NEW i \in 1 .. Len(u) - 1, t[i][2] = 2
      PROVE  i > 1 /\ t[i - 1] = <<t[i][1], 1>>
  <2>1. i + 1 \in 1 .. Len(u) /\ (i + 1) - 1 = i /\ u[i + 1][2] = 2 /\ u[i + 1][1] = t[i][1]
    BY <1>1, <1>2, <1>4
  <2>2. u[i] = <<t[i][1], 1>>
    BY <1>2, <2>1 DEF Begun
  <2>3. t[i][1] # Hb
    BY <1>3, <2>1, LegalPiece
  <2>4. i # 1
    BY <2>2, <2>3 DEF Len2
  <2>5. i - 1 \in 1 .. Len(u) - 1 /\ (i - 1) + 1 = i /\ i > 1
    BY <1>2, <2>4
  <2> QED
    BY <1>1, <2>2, <2>5
<1>5. ASSUME NEW i \in 1 .. Len(u) - 1, t[i][2] = 1, t[i][1] # Hb, i < Len(u) - 1
      PROVE  t[i + 1] = <<t[i][1], 2>>
  <2>1. /\ i + 1 \in 1 .. Len(u) /\ i + 1 < Len(u) /\ i + 1 \in 1 .. Len(u) - 1
        /\ t[i] = u[i + 1] /\ t[i + 1] = u[(i + 1) + 1]
    BY <1>1, <1>2, <1>5
  <2> QED
    BY <1>2, <1>5, <2>1 DEF Begun
<1>6. Begun(t)
  BY <1>1, <1>2, <1>4, <1>5 DEF Begun
<1>7. ASSUME Whole(u), t # <<>> PROVE t[Len(t)][2] = Len2(t[Len(t)][1])
  <2>1. Len(t) \in 1 .. Len(u) - 1 /\ Len(t) + 1 = Len(u)
    BY <1>1, <1>2, <1>7
  <2> QED
    BY <1>1, <1>7, <2>1 DEF Whole
<1> QED
  BY <1>6, <1>7 DEF Whole, t

LEMMA SortedConcat ==
  ASSUME NEW s \in Seq(Legal), NEW t \in Seq(Legal)
  PROVE  Sorted(s \o t) <=> Sorted(s) /\ Sorted(t) /\ OrdSets(ToSet(s), ToSet(t))
<1> DEFINE u == s \o t
<1>1. /\ Len(u) = Len(s) + Len(t) /\ u \in Seq(Legal)
      /\ \A i \in 1 .. Len(s) + Len(t) : u[i] = IF i <= Len(s) THEN s[i] ELSE t[i - Len(s)]
  BY ConcatProperties
<1>2. /\ DOMAIN s = 1 .. Len(s) /\ DOMAIN t = 1 .. Len(t) /\ DOMAIN u = 1 .. Len(s) + Len(t)
      /\ Len(s) \in Nat /\ Len(t) \in Nat
  BY <1>1, LenProperties
<1>3. \A i \in 1 .. Len(s) : i \in 1 .. Len(s) + Len(t) /\ u[i] = s[i]
  BY <1>1, <1>2
<1>4. ASSUME NEW i \in 1 .. Len(t) PROVE Len(s) + i \in 1 .. Len(s) + Len(t) /\ u[Len(s) + i] = t[i]
  <2>1. Len(s) + i \in 1 .. Len(s) + Len(t) /\ ~(Len(s) + i <= Len(s)) /\ (Len(s) + i) - Len(s) = i
    BY <1>2
  <2> QED
    BY <1>1, <2>1
<1> HIDE DEF u
<1>5. ASSUME Sorted(u) PROVE Sorted(s)
  BY <1>2, <1>3, <1>5 DEF Sorted
<1>6. ASSUME Sorted(u) PROVE Sorted(t)
  <2>1. ASSUME NEW i \in 1 .. Len(t), NEW j \in 1 .. Len(t), i < j PROVE Ord(t[i], t[j])
    <3>1. Len(s) + i < Len(s) + j
      BY <1>2, <2>1
    <3>2. Ord(u[Len(s) + i], u[Len(s) + j])
      BY <1>2, <1>4, <1>6, <3>1 DEF Sorted
    <3> QED
      BY <1>4, <3>2
  <2> QED
    BY <1>2, <2>1 DEF Sorted
<1>7. ASSUME Sorted(u) PROVE OrdSets(ToSet(s), ToSet(t))
  <2>1. ASSUME NEW x \in ToSet(s), NEW y \in ToSet(t) PROVE Ord(x, y)
    <3>1. PICK i \in 1 .. Len(s) : x = s[i]
      BY ToSetOfSeq
    <3>2. PICK j \in 1 .. Len(t) : y = t[j]
      BY ToSetOfSeq
    <3>3. i < Len(s) + j
      BY <1>2
    <3>4. Ord(u[i], u[Len(s) + j])
      BY <1>2, <1>3, <1>4, <1>7, <3>3 DEF Sorted
    <3> QED
      BY <1>3, <1>4, <3>1, <3>2, <3>4
  <2> QED
    BY <2>1 DEF OrdSets
<1>8. ASSUME Sorted(s), Sorted(t), OrdSets(ToSet(s), ToSet(t)) PROVE Sorted(u)
  <2>1. ASSUME NEW i \in 1 .. Len(s) + Len(t), NEW j \in 1 .. Len(s) + Len(t), i < j
        PROVE  Ord(u[i], u[j])
    <3>1. CASE j <= Len(s)
      <4>1. i \in 1 .. Len(s) /\ j \in 1 .. Len(s)
        BY <1>2, <2>1, <3>1
      <4> QED
        BY <1>2, <1>3, <1>8, <2>1, <4>1 DEF Sorted
    <3>2. CASE i <= Len(s) /\ ~(j <= Len(s))
      <4>1. i \in 1 .. Len(s) /\ j - Len(s) \in 1 .. Len(t)
        BY <1>2, <3>2
      <4>2. s[i] \in ToSet(s) /\ t[j - Len(s)] \in ToSet(t)
        BY <4>1, ToSetOfSeq
      <4>3. Ord(s[i], t[j - Len(s)])
        BY <1>8, <4>2 DEF OrdSets
      <4> QED
        BY <1>1, <3>2, <4>3
    <3>3. CASE ~(i <= Len(s))
      <4>1. /\ i - Len(s) \in 1 .. Len(t) /\ j - Len(s) \in 1 .. Len(t)
            /\ i - Len(s) < j - Len(s) /\ ~(j <= Len(s))
        BY <1>2, <2>1, <3>3
      <4>2. Ord(t[i - Len(s)], t[j - Len(s)])
        BY <1>2, <1>8, <4>1 DEF Sorted
      <4> QED
        BY <1>1, <3>3, <4>1, <4>2
    <3> QED
      BY <3>1, <3>2, <3>3
  <2> QED
    BY <1>2, <2>1 DEF Sorted
<1> QED
  BY <1>5, <1>6, <1>7, <1>8 DEF u

LEMMA SortedTail ==
  ASSUME NEW u \in Seq(Legal), u # <<>>, Sorted(u)
  PROVE  Sorted(Tail(u)) /\ OrdSets({u[1]}, ToSet(Tail(u)))
<1>1. /\ Tail(u) \in Seq(Legal) /\ Len(Tail(u)) = Len(u) - 1
      /\ \A i \in 1 .. Len(u) - 1 : Tail(u)[i] = u[i + 1]
  BY ToSetTail
<1>2. DOMAIN Tail(u) = 1 .. Len(u) - 1 /\ DOMAIN u = 1 .. Len(u) /\ Len(u) \in Nat \ {0}
  BY <1>1, LenProperties
<1>3. ASSUME NEW i \in 1 .. Len(u) - 1, NEW j \in 1 .. Len(u) - 1, i < j
      PROVE  Ord(Tail(u)[i], Tail(u)[j])
  <2>1. i + 1 \in 1 .. Len(u) /\ j + 1 \in 1 .. Len(u) /\ i + 1 < j + 1
    BY <1>2, <1>3
  <2>2. Ord(u[i + 1], u[j + 1])
    BY <1>2, <2>1 DEF Sorted
  <2> QED
    BY <1>1, <2>2
<1>4. ASSUME NEW y \in ToSet(Tail(u)) PROVE Ord(u[1], y)
  <2>1. PICK i \in 1 .. Len(u) - 1 : y = Tail(u)[i]
    BY <1>2 DEF ToSet
  <2>2. 1 \in 1 .. Len(u) /\ i + 1 \in 1 .. Len(u) /\ 1 < i + 1
    BY <1>2
  <2>3. Ord(u[1], u[i + 1])
    BY <1>2, <2>2 DEF Sorted
  <2> QED
    BY <1>1, <2>1, <2>3
<1> QED
  BY <1>2, <1>3, <1>4 DEF Sorted, OrdSets

-----------------------------------------------------------------------------
(* sock_read_from_socket. *)

\* What one turn of the receiver does with the line before it: rest and got are
\* what Aligned returned, ral is the align buffer, w what was to come.
Turned(rest, got, ral, w) ==
  /\ rest \in Seq(Legal) /\ Pending(rest)
  /\ Begun(rest \o Tail(w)) /\ (Whole(ral \o w) => Whole(rest \o Tail(w)))
  /\ Sorted(ral \o w) => Sorted(rest \o Tail(w))
  /\ ToSet(rest) \subseteq ToSet(ral) \cup {Head(w)}
  /\ \/ got = <<>>
     \/ \E m \in Number : /\ got = <<m>> /\ rest = <<>>
                          /\ <<m, 1>> \in ToSet(ral) /\ Head(w) = <<m, 2>>
                          /\ Sorted(ral \o w) => OrdSets({<<m, 2>>}, ToSet(Tail(w)))

LEMMA AlignedEmpty ==
  ASSUME NEW w \in Seq(Legal), w # <<>>, Begun(w)
  PROVE  LET r == Aligned(Append(<<>>, Head(w))) IN Turned(r.rest, r.got, <<>>, w)
<1> DEFINE x == Head(w)
           r == Aligned(Append(<<>>, x))
<1>1. x = w[1] /\ x \in Legal /\ Tail(w) \in Seq(Legal) /\ <<>> \o w = w /\ Append(<<>>, x) = <<x>>
  BY ToSetTail, ToSetOfSeq, ConcatEmptySeq
<1>2. x[2] = 1 /\ x = <<x[1], x[2]>> /\ x[1] \in Nat
  <2>1. 1 \in DOMAIN w
    BY LenProperties
  <2> QED
    BY <1>1, <2>1, LegalPiece DEF Begun
<1>3. CASE x[1] = Hb
  <2>1. r = [rest |-> <<>>, got |-> <<>>]
    BY <1>1, <1>2, <1>3 DEF Aligned, Len2
  <2>2. Begun(Tail(w)) /\ (Whole(w) => Whole(Tail(w)))
    BY <1>1, <1>2, <1>3, WithoutFirst DEF Len2
  <2>3. Sorted(w) => Sorted(Tail(w))
    BY SortedTail
  <2>4. <<>> \o Tail(w) = Tail(w) /\ <<>> \in Seq(Legal)
    BY <1>1, ConcatEmptySeq
  <2>5. Turned(<<>>, <<>>, <<>>, w)
    BY <1>1, <2>2, <2>3, <2>4 DEF Turned, Pending, ToSet
  <2> QED
    BY <2>1, <2>5
<1>4. CASE x[1] # Hb
  <2>1. r = [rest |-> <<x>>, got |-> <<>>]
    BY <1>1, <1>2, <1>4 DEF Aligned, Len2
  <2>2. <<x>> \in Seq(Legal) /\ ToSet(<<x>>) = {x}
    BY <1>1 DEF ToSet
  <2>3. <<x>> \o Tail(w) = w
    <3>1. /\ Len(w) \in Nat \ {0} /\ Len(Tail(w)) = Len(w) - 1
          /\ \A i \in 1 .. Len(w) - 1 : Tail(w)[i] = w[i + 1]
      BY ToSetTail, LenProperties
    <3>2. /\ <<x>> \o Tail(w) \in Seq(Legal) /\ Len(<<x>> \o Tail(w)) = 1 + Len(Tail(w))
          /\ \A i \in 1 .. 1 + Len(Tail(w)) :
               (<<x>> \o Tail(w))[i] = IF i <= 1 THEN <<x>>[i] ELSE Tail(w)[i - 1]
      BY <1>1, <2>2, ConcatProperties
    <3>3. ASSUME NEW i \in 1 .. Len(w) PROVE (<<x>> \o Tail(w))[i] = w[i]
      <4>1. CASE i = 1
        BY <1>1, <3>1, <3>2, <4>1
      <4>2. CASE i # 1
        <5>1. i - 1 \in 1 .. Len(w) - 1 /\ (i - 1) + 1 = i /\ ~(i <= 1) /\ i \in 1 .. 1 + Len(Tail(w))
          BY <3>1, <4>2
        <5> QED
          BY <3>1, <3>2, <5>1
      <4> QED
        BY <4>1, <4>2
    <3>4. Len(<<x>> \o Tail(w)) = Len(w)
      BY <3>1, <3>2
    <3> QED
      BY <3>2, <3>3, <3>4, SeqEqual
  <2>4. Pending(<<x>>)
    BY <1>2, <1>4 DEF Pending, Number, Hb
  <2>5. Turned(<<x>>, <<>>, <<>>, w)
    BY <1>1, <2>2, <2>3, <2>4 DEF Turned, ToSet
  <2> QED
    BY <2>1, <2>5
<1> QED
  BY <1>3, <1>4

LEMMA AppendTwo ==
  ASSUME NEW S, NEW a \in S, NEW b \in S
  PROVE  Append(<<a>>, b) = <<a, b>>
<1> DEFINE s == Append(<<a>>, b)
           t == <<a, b>>
<1>1. <<a>> \in Seq(S) /\ Len(<<a>>) = 1 /\ <<a>>[1] = a
  OBVIOUS
<1>2. s \in Seq(S) /\ Len(s) = 2 /\ s[1] = a /\ s[2] = b
  BY <1>1, AppendProperties
<1>3. t \in Seq(S) /\ Len(t) = 2 /\ t[1] = a /\ t[2] = b
  OBVIOUS
<1> HIDE DEF s, t
<1>4. \A i \in 1 .. 2 : s[i] = t[i]
  BY <1>2, <1>3
<1> QED
  BY <1>2, <1>3, <1>4, SeqEqual DEF s, t

LEMMA AlignedHeader ==
  ASSUME NEW m \in Number, NEW w \in Seq(Legal), w # <<>>, Begun(<<<<m, 1>>>> \o w)
  PROVE  LET r == Aligned(Append(<<<<m, 1>>>>, Head(w)))
         IN Turned(r.rest, r.got, <<<<m, 1>>>>, w)
<1> DEFINE ral == <<<<m, 1>>>>
           u == ral \o w
           r == Aligned(Append(ral, Head(w)))
<1>1. /\ Head(w) = w[1] /\ w[1] \in Legal /\ Tail(w) \in Seq(Legal) /\ Len(w) \in Nat \ {0}
      /\ Len(Tail(w)) = Len(w) - 1 /\ \A i \in 1 .. Len(w) - 1 : Tail(w)[i] = w[i + 1]
  BY ToSetTail, ToSetOfSeq, LenProperties
<1>2. ral \in Seq(Legal) /\ Len(ral) = 1 /\ ral[1] = <<m, 1>> /\ ToSet(ral) = {<<m, 1>>}
  BY DEF Legal, ToSet
<1>3. /\ u \in Seq(Legal) /\ Len(u) = 1 + Len(w)
      /\ \A i \in 1 .. 1 + Len(w) : u[i] = IF i <= 1 THEN ral[i] ELSE w[i - 1]
  BY <1>2, ConcatProperties
<1>4. /\ u[1] = <<m, 1>> /\ \A i \in 1 .. Len(w) : u[i + 1] = w[i]
  <2>1. 1 \in 1 .. 1 + Len(w)
    BY <1>1
  <2>2. ASSUME NEW i \in 1 .. Len(w) PROVE u[i + 1] = w[i]
    <3>1. i + 1 \in 1 .. 1 + Len(w) /\ ~(i + 1 <= 1) /\ (i + 1) - 1 = i
      BY <1>1
    <3> QED
      BY <1>3, <3>1
  <2> QED
    BY <1>2, <1>3, <2>1, <2>2
<1>5. u # <<>> /\ 1 \in DOMAIN u /\ 1 < Len(u) /\ 1 \in 1 .. Len(w)
  BY <1>1, <1>3, LenProperties
<1>6. Head(w) = <<m, 2>>
  <2>1. Begun(u) /\ m # Hb
    BY DEF Number, Hb
  <2> HIDE DEF u
  <2>2. u[1][2] = 1 /\ u[1][1] = m
    BY <1>4
  <2>3. u[1 + 1] = <<m, 2>>
    BY <1>5, <2>1, <2>2 DEF Begun
  <2> QED
    BY <1>1, <1>4, <1>5, <2>3
<1>7. Tail(u) = w
  <2>1. /\ Tail(u) \in Seq(Legal) /\ Len(Tail(u)) = Len(u) - 1
        /\ \A i \in 1 .. Len(u) - 1 : Tail(u)[i] = u[i + 1]
    BY <1>3, <1>5, ToSetTail
  <2>2. Len(Tail(u)) = Len(w) /\ \A i \in 1 .. Len(w) : Tail(u)[i] = w[i]
    BY <1>1, <1>3, <1>4, <2>1
  <2> HIDE DEF u
  <2> QED
    BY <2>1, <2>2, SeqEqual
<1>8. r = [rest |-> <<>>, got |-> <<m>>]
  <2>1. Append(ral, Head(w)) = <<<<m, 1>>, <<m, 2>>>>
    <3>1. <<m, 1>> \in Legal /\ <<m, 2>> \in Legal
      BY DEF Legal
    <3>2. Append(<<<<m, 1>>>>, <<m, 2>>) = <<<<m, 1>>, <<m, 2>>>>
      BY <3>1, AppendTwo, Zenon
    <3> QED
      BY <1>6, <3>2
  <2>2. Len2(m) = 2
    BY DEF Len2, Number, Hb
  <2>3. Pieces(m) = <<<<m, 1>>, <<m, 2>>>>
    BY <2>2 DEF Pieces
  <2> DEFINE p == <<<<m, 1>>, <<m, 2>>>>
  <2>4. p[1][2] = 1 /\ p[1][1] = m /\ Len(p) = 2 /\ m # Hb
    BY DEF Number, Hb
  <2> HIDE DEF p
  <2>5. Aligned(p) = [rest |-> <<>>, got |-> <<m>>]
    BY <2>2, <2>3, <2>4 DEF Aligned, p
  <2> QED
    BY <2>1, <2>5 DEF p
<1>9. Begun(Tail(w)) /\ (Whole(u) => Whole(Tail(w)))
  <2>0. Begun(u)
    OBVIOUS
  <2>1. ASSUME NEW i \in DOMAIN Tail(w), Tail(w)[i][2] = 2
        PROVE  i > 1 /\ Tail(w)[i - 1] = <<Tail(w)[i][1], 1>>
    <3>1. i \in 1 .. Len(w) - 1 /\ Tail(w)[i] = w[i + 1] /\ w[i + 1] = u[(i + 1) + 1]
      BY <1>1, <1>4, <2>1, LenProperties
    <3>2. u[i + 1] = <<Tail(w)[i][1], 1>>
      <4>1. (i + 1) + 1 \in 1 .. Len(u) /\ ((i + 1) + 1) - 1 = i + 1
        BY <1>1, <1>3, <3>1
      <4>2. DOMAIN u = 1 .. Len(u)
        BY <1>3, LenProperties
      <4> HIDE DEF u
      <4> QED
        BY <2>0, <2>1, <3>1, <4>1, <4>2 DEF Begun
    <3>3. w[i] = <<Tail(w)[i][1], 1>> /\ i \in 1 .. Len(w)
      BY <1>1, <1>4, <3>1, <3>2
    <3>4. i # 1
      BY <1>1, <1>6, <3>3
    <3>5. i - 1 \in 1 .. Len(w) - 1 /\ (i - 1) + 1 = i /\ i > 1
      BY <1>1, <3>1, <3>4
    <3> QED
      BY <1>1, <3>3, <3>5
  <2>2. ASSUME NEW i \in DOMAIN Tail(w), Tail(w)[i][2] = 1, Tail(w)[i][1] # Hb, i < Len(Tail(w))
        PROVE  Tail(w)[i + 1] = <<Tail(w)[i][1], 2>>
    <3>1. /\ i \in 1 .. Len(w) - 1 /\ Tail(w)[i] = w[i + 1] /\ w[i + 1] = u[(i + 1) + 1]
          /\ i + 1 \in 1 .. Len(w) - 1 /\ i + 2 \in 1 .. Len(w) /\ (i + 1) + 1 = i + 2
      BY <1>1, <1>4, <2>2, LenProperties
    <3>2. Tail(w)[i + 1] = w[i + 2] /\ w[i + 2] = u[(i + 2) + 1]
      BY <1>1, <1>4, <3>1
    <3>3. u[(i + 2) + 1] = <<Tail(w)[i][1], 2>>
      <4>1. i + 2 \in 1 .. Len(u) /\ i + 2 < Len(u)
        BY <1>1, <1>3, <3>1
      <4>2. DOMAIN u = 1 .. Len(u)
        BY <1>3, LenProperties
      <4> HIDE DEF u
      <4> QED
        BY <2>0, <2>2, <3>1, <4>1, <4>2 DEF Begun
    <3> QED
      BY <3>2, <3>3
  <2>3. Begun(Tail(w))
    BY <2>1, <2>2 DEF Begun
  <2>4. ASSUME Whole(u), Tail(w) # <<>> PROVE Tail(w)[Len(Tail(w))][2] = Len2(Tail(w)[Len(Tail(w))][1])
    <3>1. /\ Len(w) - 1 \in 1 .. Len(w) - 1 /\ (Len(w) - 1) + 1 = Len(w)
          /\ Len(w) \in 1 .. Len(w) /\ Len(w) + 1 = Len(u)
      BY <1>1, <1>3, <2>4
    <3>2. Tail(w)[Len(Tail(w))] = u[Len(u)]
      BY <1>1, <1>4, <3>1
    <3> HIDE DEF u
    <3> QED
      BY <1>5, <2>4, <3>2 DEF Whole
  <2> QED
    BY <2>3, <2>4 DEF Whole
<1>10. Sorted(u) => Sorted(Tail(w)) /\ OrdSets({<<m, 2>>}, ToSet(Tail(w)))
  BY <1>1, <1>2, <1>6, SortedConcat, SortedTail
<1>11. <<>> \o Tail(w) = Tail(w) /\ <<>> \in Seq(Legal) /\ ToSet(<<>>) = {}
  BY <1>1, ConcatEmptySeq DEF ToSet
<1>12. Turned(<<>>, <<m>>, ral, w)
  BY <1>2, <1>6, <1>9, <1>10, <1>11 DEF Turned, Pending
<1> QED
  BY <1>8, <1>12

LEMMA AlignedTurn ==
  ASSUME NEW ral \in Seq(Legal), Pending(ral), NEW w \in Seq(Legal), w # <<>>, Begun(ral \o w)
  PROVE  LET r == Aligned(Append(ral, Head(w))) IN Turned(r.rest, r.got, ral, w)
<1>1. CASE ral = <<>>
  <2>1. <<>> \o w = w
    BY ConcatEmptySeq
  <2> QED
    BY <1>1, <2>1, AlignedEmpty
<1>2. CASE \E m \in Number : ral = <<<<m, 1>>>>
  BY <1>2, AlignedHeader
<1> QED
  BY <1>1, <1>2 DEF Pending

-----------------------------------------------------------------------------
(* The stream of a queue of packets. *)

\* The packets of a fifo are in the order in which they were written.
InOrder(q) == \A i, j \in DOMAIN q : i < j => q[i] = Hb \/ q[j] = Hb \/ q[i] < q[j]

LEMMA PiecesOfPacket ==
  ASSUME NEW m \in Nat
  PROVE  /\ Pieces(m) \in Seq(Legal) /\ Whole(Pieces(m)) /\ Sorted(Pieces(m))
         /\ \A x \in ToSet(Pieces(m)) : x[1] = m
<1>1. CASE m = Hb
  <2> DEFINE s == <<<<Hb, 1>>>>
  <2>1. Pieces(m) = s
    BY <1>1 DEF Pieces, Len2
  <2>2. s \in Seq(Legal) /\ Len(s) = 1 /\ DOMAIN s = 1 .. 1 /\ s[1][1] = Hb /\ s[1][2] = 1
    BY DEF Legal
  <2> HIDE DEF s
  <2>3. Whole(s) /\ Sorted(s) /\ \A x \in ToSet(s) : x[1] = m
    BY <1>1, <2>2 DEF Whole, Begun, Sorted, ToSet, Len2, Ord
  <2> QED
    BY <2>1, <2>2, <2>3
<1>2. CASE m # Hb
  <2> DEFINE s == <<<<m, 1>>, <<m, 2>>>>
  <2>1. Len2(m) = 2
    BY <1>2 DEF Len2
  <2>2. Pieces(m) = s
    BY <2>1 DEF Pieces
  <2>3. s \in Seq(Legal)
    BY <1>2 DEF Legal, Number, Hb
  <2>4. Len(s) = 2 /\ DOMAIN s = 1 .. 2 /\ s[1] = <<m, 1>> /\ s[2] = <<m, 2>>
    OBVIOUS
  <2> HIDE DEF s
  <2>5. /\ \A i \in 1 .. 2 : i = 1 \/ i = 2
        /\ s[1][1] = m /\ s[1][2] = 1 /\ s[2][1] = m /\ s[2][2] = 2
    BY <2>4
  <2>6. Begun(s)
    BY <2>4, <2>5 DEF Begun
  <2>7. Whole(s)
    BY <2>1, <2>4, <2>5, <2>6 DEF Whole
  <2>8. Sorted(s)
    BY <2>4, <2>5 DEF Sorted, Ord
  <2>9. \A x \in ToSet(s) : x[1] = m
    BY <2>4, <2>5 DEF ToSet
  <2> QED
    BY <2>2, <2>3, <2>7, <2>8, <2>9
<1> QED
  BY <1>1, <1>2

(* What a batch puts on the line: whole packets of the fifo, in its order. *)
LEMMA StreamOfQueue ==
  ASSUME NEW q \in Seq(Nat)
  PROVE  /\ Stream(q) \in Seq(Legal) /\ Whole(Stream(q))
         /\ \A x \in ToSet(Stream(q)) : x[1] \in ToSet(q)
         /\ InOrder(q) => Sorted(Stream(q))
<1> DEFINE n == Len(q)
           s == [i \in DOMAIN q |-> Pieces(q[i])]
           From(x, i) == \A p \in ToSet(x) : \E k \in 1 .. i : p[1] = q[k]
           R == [i \in 1 .. n |-> {x \in Seq(Legal) :
                   Whole(x) /\ From(x, i) /\ (InOrder(q) => Sorted(x))}]
<1>1. n \in Nat /\ DOMAIN q = 1 .. n /\ \A i \in 1 .. n : q[i] \in Nat /\ q[i] \in ToSet(q)
  BY ToSetOfSeq, ElementOfSeq
<1>2. Stream(q) = FlattenSeq(s)
  BY DEF Stream
<1>3. CASE n = 0
  <2>1. s = <<>> /\ Len(<<>>) = 0
    BY <1>1, <1>3
  <2>2. Stream(q) = <<>>
    BY <1>2, <2>1 DEF FlattenSeq
  <2> QED
    BY <2>2, EmptyWhole DEF ToSet
<1>4. CASE n # 0
  <2>1. Len(s) = n /\ n \in Nat \ {0} /\ \A i \in 1 .. n : s[i] = Pieces(q[i])
    BY <1>1, <1>4
  <2> HIDE DEF s, n
  <2>2. \A i \in 1 .. n : /\ s[i] \in Seq(Legal) /\ Whole(s[i]) /\ Sorted(s[i])
                        /\ \A x \in ToSet(s[i]) : x[1] = q[i]
    <3>1. TAKE i \in 1 .. n
    <3>2. q[i] \in Nat /\ s[i] = Pieces(q[i])
      BY <1>1, <2>1
    <3> QED
      BY <3>2, PiecesOfPacket
  <2>3. s[1] \in R[1]
    <3>1. 1 \in 1 .. n /\ 1 \in 1 .. 1
      BY <2>1
    <3> QED
      BY <2>2, <3>1
  <2>4. ASSUME NEW i \in 1 .. Len(s) - 1, NEW x \in R[i] PROVE x \o s[i + 1] \in R[i + 1]
    <3>1. i \in 1 .. n /\ i + 1 \in 1 .. n
      BY <2>1, <2>4
    <3>2. x \in Seq(Legal) /\ Whole(x) /\ From(x, i) /\ (InOrder(q) => Sorted(x))
      BY <2>4, <3>1
    <3> DEFINE y == s[i + 1]
    <3>3. y \in Seq(Legal) /\ Whole(y) /\ Sorted(y) /\ \A p \in ToSet(y) : p[1] = q[i + 1]
      BY <2>2, <3>1
    <3> HIDE DEF y
    <3>4. x \o y \in Seq(Legal) /\ Whole(x \o y) /\ ToSet(x \o y) = ToSet(x) \cup ToSet(y)
      BY <3>2, <3>3, WholeConcat, ConcatProperties, ToSetConcat
    <3>5. From(x \o y, i + 1)
      <4>1. \A k \in 1 .. i : k \in 1 .. i + 1
        BY <3>1
      <4>2. i + 1 \in 1 .. i + 1
        BY <3>1
      <4> QED
        BY <3>2, <3>3, <3>4, <4>1, <4>2
    <3>6. ASSUME InOrder(q) PROVE Sorted(x \o y)
      <4>1. ASSUME NEW a \in ToSet(x), NEW b \in ToSet(y) PROVE Ord(a, b)
        <5>1. PICK k \in 1 .. i : a[1] = q[k]
          BY <3>2
        <5>2. b[1] = q[i + 1] /\ k \in 1 .. n /\ k < i + 1
          BY <2>1, <3>1, <3>3
        <5>3. q[k] = Hb \/ q[i + 1] = Hb \/ q[k] < q[i + 1]
          BY <1>1, <3>1, <3>6, <5>2 DEF InOrder, n
        <5> QED
          BY <5>1, <5>2, <5>3 DEF Ord
      <4> QED
        BY <3>2, <3>3, <3>6, <4>1, SortedConcat DEF OrdSets
    <3> QED
      BY <3>1, <3>4, <3>5, <3>6 DEF y
  <2>5. FlattenSeq(s) \in R[n]
    <3> HIDE DEF R
    <3> QED
      BY <2>1, <2>3, <2>4, FlattenInduction
  <2>6. n \in 1 .. n
    BY <2>1
  <2>7. /\ FlattenSeq(s) \in Seq(Legal) /\ Whole(FlattenSeq(s)) /\ From(FlattenSeq(s), n)
        /\ InOrder(q) => Sorted(FlattenSeq(s))
    BY <2>5, <2>6
  <2> QED
    BY <1>1, <1>2, <2>7 DEF n, s
<1> QED
  BY <1>3, <1>4

-----------------------------------------------------------------------------
(* The inductive invariant. *)

\* What is on its way to the server behind the align buffer, and with it.
UpWay(n)  == up[n] \o (IF fd = n THEN ctmp ELSE <<>>)
UpLine(n) == sral[n] \o UpWay(n)

\* What is on its way to the client on its connection.
DownWay  == down[fd] \o stmp[fd]
DownLine == cral \o DownWay

UpGot(n) == ToSet(sgot[n]) \cup ToSet(srq[n])
DownGot  == ToSet(cgot) \cup ToSet(crq)

Types ==
  /\ fd \in 0 .. MaxConn /\ inprogress \in BOOLEAN /\ wait \in 0 .. RetryWait
  /\ ctq \in Seq(Nat) /\ ctmp \in Seq(Legal) /\ cral \in Seq(Legal) /\ crq \in Seq(Number)
  /\ net \in [ConnId -> {"none", "syn", "refused", "ok", "cut"}]
  /\ up \in [ConnId -> Seq(Legal)] /\ down \in [ConnId -> Seq(Legal)]
  /\ peer \in [ConnId -> {"none", "up", "err", "gone"}]
  /\ stq \in [ConnId -> Seq(Nat)] /\ stmp \in [ConnId -> Seq(Legal)]
  /\ sral \in [ConnId -> Seq(Legal)] /\ srq \in [ConnId -> Seq(Number)]
  /\ cnext \in 1 .. UpN + 1 /\ snext \in 1 .. DownN + 1
  /\ cgot \in Seq(Number) /\ sgot \in [ConnId -> Seq(Number)]
  /\ via \in [1 .. UpN -> 0 .. MaxConn] /\ full \in SUBSET (1 .. UpN)

Limits ==
  /\ Len(ctq) <= TxCap /\ Len(crq) <= RxCap
  /\ \A n \in ConnId : /\ Len(stq[n]) <= TxCap /\ Len(srq[n]) <= RxCap
                       /\ Len(up[n]) <= SockCap /\ Len(down[n]) <= SockCap

\* A connection is used once: what the client and the server keep for it is empty
\* before, and what the client keeps for a packet is empty between connections.
Phases ==
  /\ fd = 0 \/ inprogress => ctmp = <<>> /\ cral = <<>>
  /\ fd # 0 => net[fd] # "none" /\ \A k \in ConnId : k > fd => net[k] = "none"
  /\ fd # 0 /\ ~inprogress => net[fd] \in {"ok", "cut"}
  /\ \A n \in ConnId :
       /\ net[n] \in {"syn", "refused"} => fd = n
       /\ net[n] = "none" => \A k \in ConnId : k > n => net[k] = "none"
       /\ fd # n => down[n] = <<>>
       /\ net[n] \in {"none", "syn", "refused"}
            => peer[n] = "none" /\ up[n] = <<>> /\ down[n] = <<>>
       /\ peer[n] = "none" =>
            stq[n] = <<>> /\ stmp[n] = <<>> /\ sral[n] = <<>> /\ srq[n] = <<>> /\ sgot[n] = <<>>

UpFramedOn(n) ==
  /\ Pending(sral[n])
  /\ peer[n] \in {"none", "up"} => Begun(UpLine(n)) /\ (fd = n => Whole(UpLine(n)))
UpFramed == \A n \in ConnId : UpFramedOn(n)

DownFramed ==
  /\ Pending(cral)
  /\ fd # 0 => Begun(DownLine) /\ (peer[fd] \in {"none", "up"} => Whole(DownLine))

\* The packets the server has of a connection come before those on their way, and
\* all of them were sent on it.
UpOrderedOn(n) ==
  /\ Increasing(sgot[n] \o srq[n]) /\ Sorted(UpLine(n))
  /\ \A m \in UpGot(n), x \in ToSet(UpLine(n)) : x[1] = Hb \/ m < x[1]
  /\ \A m \in UpGot(n) : m \in 1 .. UpN /\ via[m] = n
  /\ \A x \in ToSet(UpLine(n)) : x[1] = Hb \/ (x[1] \in 1 .. UpN /\ via[x[1]] = n)
UpOrdered == \A n \in ConnId : UpOrderedOn(n)

\* What was sent was written before what is in the fifo, on a connection that
\* exists, and never on an earlier one than what was written before.
SentFirst ==
  /\ InOrder(ctq)
  /\ \A m \in ToSet(ctq) : m = Hb \/ (m < cnext /\ \A k \in 1 .. UpN : via[k] # 0 => k < m)
  /\ \A k \in 1 .. UpN : via[k] # 0 => k < cnext /\ net[via[k]] \in {"ok", "cut"}
  /\ \A m, k \in 1 .. UpN : m < k /\ via[k] # 0 => via[m] <= via[k]

\* What the client has was written before the next packet, and comes in order.
DownRead == Increasing(cgot \o crq) /\ \A m \in DownGot : m < snext

\* What the server keeps for connection n is older than the next packet.
DownKept(n) == /\ InOrder(stq[n]) /\ \A m \in ToSet(stq[n]) : m < snext
               /\ \A x \in ToSet(stmp[n]) : x[1] < snext

\* On the connection of the client: what it has, the line and the fifo, in order.
DownLined == fd # 0 =>
  /\ Sorted(DownLine)
  /\ \A x \in ToSet(DownLine) : x[1] < snext
  /\ \A m \in DownGot, x \in ToSet(DownLine) : x[1] = Hb \/ m < x[1]
  /\ \A m \in DownGot, p \in ToSet(stq[fd]) : p = Hb \/ m < p
  /\ \A x \in ToSet(DownLine), p \in ToSet(stq[fd]) : x[1] = Hb \/ p = Hb \/ x[1] < p

DownOrdered == DownRead /\ DownLined /\ \A n \in ConnId : DownKept(n)

IInv == Types /\ Limits /\ Phases /\ UpFramed /\ DownFramed /\ UpOrdered /\ SentFirst /\ DownOrdered

-----------------------------------------------------------------------------
(* Queues and lists of packets. *)

LEMMA HeadTailConcat ==
  ASSUME NEW S, NEW s \in Seq(S), NEW t \in Seq(S), s # <<>>
  PROVE  s \o t # <<>> /\ Head(s \o t) = Head(s) /\ Tail(s \o t) = Tail(s) \o t
<1> DEFINE u == s \o t
<1>1. /\ u \in Seq(S) /\ Len(u) = Len(s) + Len(t) /\ Len(s) \in Nat \ {0} /\ Len(t) \in Nat
      /\ \A i \in 1 .. Len(s) + Len(t) : u[i] = IF i <= Len(s) THEN s[i] ELSE t[i - Len(s)]
  BY ConcatProperties, LenProperties
<1> HIDE DEF u
<1>2. u # <<>> /\ 1 \in 1 .. Len(s) + Len(t)
  BY <1>1
<1>3. Head(u) = Head(s)
  BY <1>1, <1>2, ToSetTail
<1>4. /\ Tail(u) \in Seq(S) /\ Len(Tail(u)) = Len(s) + Len(t) - 1
      /\ \A i \in 1 .. Len(s) + Len(t) - 1 : Tail(u)[i] = u[i + 1]
  BY <1>1, <1>2, ToSetTail
<1> DEFINE v == Tail(s) \o t
<1>5. /\ Tail(s) \in Seq(S) /\ Len(Tail(s)) = Len(s) - 1
      /\ \A i \in 1 .. Len(s) - 1 : Tail(s)[i] = s[i + 1]
  BY ToSetTail
<1>6. /\ v \in Seq(S) /\ Len(v) = (Len(s) - 1) + Len(t)
      /\ \A i \in 1 .. (Len(s) - 1) + Len(t) :
           v[i] = IF i <= Len(s) - 1 THEN Tail(s)[i] ELSE t[i - (Len(s) - 1)]
  BY <1>5, ConcatProperties
<1> HIDE DEF v
<1>7. ASSUME NEW i \in 1 .. Len(s) + Len(t) - 1 PROVE Tail(u)[i] = v[i]
  <2>1. i \in 1 .. (Len(s) - 1) + Len(t) /\ i + 1 \in 1 .. Len(s) + Len(t)
    BY <1>1
  <2>2. Tail(u)[i] = IF i + 1 <= Len(s) THEN s[i + 1] ELSE t[(i + 1) - Len(s)]
    BY <1>1, <1>4, <2>1
  <2>3. CASE i <= Len(s) - 1
    <3>1. i + 1 <= Len(s) /\ i \in 1 .. Len(s) - 1
      BY <1>1, <2>3
    <3> QED
      BY <1>5, <1>6, <2>1, <2>2, <2>3, <3>1
  <2>4. CASE ~(i <= Len(s) - 1)
    <3>1. ~(i + 1 <= Len(s)) /\ (i + 1) - Len(s) = i - (Len(s) - 1)
      BY <1>1, <2>4
    <3> QED
      BY <1>6, <2>1, <2>2, <2>4, <3>1
  <2> QED
    BY <2>3, <2>4
<1>8. Tail(u) = v
  BY <1>1, <1>4, <1>6, <1>7, SeqEqual
<1> QED
  BY <1>2, <1>3, <1>8 DEF u, v

LEMMA SplitJoins ==
  ASSUME NEW S, NEW s \in Seq(S), NEW k \in 0 .. Len(s)
  PROVE  /\ First(s, k) \in Seq(S) /\ Rest(s, k) \in Seq(S) /\ First(s, k) \o Rest(s, k) = s
         /\ Len(First(s, k)) = k /\ Len(Rest(s, k)) = Len(s) - k
         /\ ToSet(First(s, k)) \subseteq ToSet(s) /\ ToSet(Rest(s, k)) \subseteq ToSet(s)
         /\ \A i \in 1 .. k : First(s, k)[i] = s[i]
         /\ \A i \in 1 .. Len(s) - k : Rest(s, k)[i] = s[k + i]
<1>1. /\ Len(s) \in Nat /\ k \in Nat /\ 1 \in 1 .. Len(s) + 1 /\ k + 1 \in 1 .. Len(s) + 1
      /\ Len(s) \in 0 .. Len(s) /\ k \in 1 - 1 .. Len(s) /\ Len(s) \in k .. Len(s)
  BY LenProperties
<1>2. /\ First(s, k) \in Seq(S) /\ ToSet(First(s, k)) \subseteq ToSet(s)
      /\ Len(First(s, k)) = k /\ \A i \in 1 .. k : First(s, k)[i] = s[i]
  <2>1. /\ First(s, k) \in Seq(S) /\ ToSet(First(s, k)) \subseteq ToSet(s)
        /\ Len(First(s, k)) = IF 1 <= k THEN k - 1 + 1 ELSE 0
        /\ \A i \in 1 .. k - 1 + 1 : First(s, k)[i] = s[1 + i - 1]
    BY <1>1, ToSetSubSeq DEF First
  <2>2. ASSUME NEW i \in 1 .. k PROVE First(s, k)[i] = s[i]
    <3>1. i \in 1 .. k - 1 + 1 /\ 1 + i - 1 = i
      BY <1>1
    <3> QED
      BY <2>1, <3>1
  <2> QED
    BY <1>1, <2>1, <2>2
<1>3. /\ Rest(s, k) \in Seq(S) /\ ToSet(Rest(s, k)) \subseteq ToSet(s)
      /\ Len(Rest(s, k)) = Len(s) - k
      /\ \A i \in 1 .. Len(s) - k : Rest(s, k)[i] = s[k + i]
  <2>1. /\ Rest(s, k) \in Seq(S) /\ ToSet(Rest(s, k)) \subseteq ToSet(s)
        /\ Len(Rest(s, k)) = IF k + 1 <= Len(s) THEN Len(s) - (k + 1) + 1 ELSE 0
        /\ \A i \in 1 .. Len(s) - (k + 1) + 1 : Rest(s, k)[i] = s[(k + 1) + i - 1]
    BY <1>1, ToSetSubSeq DEF Rest
  <2>2. ASSUME NEW i \in 1 .. Len(s) - k PROVE Rest(s, k)[i] = s[k + i]
    <3>1. i \in 1 .. Len(s) - (k + 1) + 1 /\ (k + 1) + i - 1 = k + i
      BY <1>1
    <3> QED
      BY <2>1, <3>1
  <2> QED
    BY <1>1, <2>1, <2>2
<1>4. First(s, k) \o Rest(s, k) = s
  <2>1. SubSeq(s, 1, k) \o SubSeq(s, k + 1, Len(s)) = SubSeq(s, 1, Len(s))
    BY <1>1, ConcatAdjacentSubSeq
  <2> QED
    BY <2>1, SubSeqFull DEF First, Rest
<1> QED
  BY <1>2, <1>3, <1>4

LEMMA FifoSplit ==
  ASSUME NEW q \in Seq(Nat), NEW j \in 1 .. Len(q), InOrder(q)
  PROVE  /\ InOrder(First(q, j)) /\ InOrder(Rest(q, j))
         /\ \A a \in ToSet(First(q, j)), b \in ToSet(Rest(q, j)) : a = Hb \/ b = Hb \/ a < b
<1> DEFINE s == First(q, j)
           t == Rest(q, j)
<1>1. j \in 0 .. Len(q) /\ Len(q) \in Nat
  BY LenProperties
<1> HIDE DEF s, t
<1>2. /\ s \in Seq(Nat) /\ t \in Seq(Nat) /\ Len(s) = j /\ Len(t) = Len(q) - j
      /\ \A i \in 1 .. j : s[i] = q[i]
      /\ \A i \in 1 .. Len(q) - j : t[i] = q[j + i]
  <2>1. /\ First(q, j) \in Seq(Nat) /\ Len(First(q, j)) = j
        /\ \A i \in 1 .. j : First(q, j)[i] = q[i]
    BY <1>1, SplitJoins
  <2>2. /\ Rest(q, j) \in Seq(Nat) /\ Len(Rest(q, j)) = Len(q) - j
        /\ \A i \in 1 .. Len(q) - j : Rest(q, j)[i] = q[j + i]
    BY <1>1, SplitJoins
  <2> QED
    BY <2>1, <2>2 DEF s, t
<1>3. DOMAIN s = 1 .. j /\ DOMAIN t = 1 .. Len(q) - j /\ DOMAIN q = 1 .. Len(q)
  BY <1>2, LenProperties
<1> HIDE DEF s, t
<1>4. \A i \in 1 .. j : i \in 1 .. Len(q) /\ s[i] = q[i]
  BY <1>1, <1>2
<1>5. \A i \in 1 .. Len(q) - j : j + i \in 1 .. Len(q) /\ t[i] = q[j + i]
  BY <1>1, <1>2
<1>6. InOrder(s)
  BY <1>1, <1>3, <1>4 DEF InOrder
<1>7. InOrder(t)
  <2>1. ASSUME NEW a \in 1 .. Len(q) - j, NEW b \in 1 .. Len(q) - j, a < b
        PROVE  t[a] = Hb \/ t[b] = Hb \/ t[a] < t[b]
    <3>1. j + a < j + b
      BY <1>1, <2>1
    <3>2. q[j + a] = Hb \/ q[j + b] = Hb \/ q[j + a] < q[j + b]
      BY <1>3, <1>5, <3>1 DEF InOrder
    <3> QED
      BY <1>5, <3>2
  <2> QED
    BY <1>3, <2>1 DEF InOrder
<1>8. ASSUME NEW a \in ToSet(s), NEW b \in ToSet(t) PROVE a = Hb \/ b = Hb \/ a < b
  <2>1. PICK i \in 1 .. j : a = s[i]
    BY <1>3 DEF ToSet
  <2>2. PICK k \in 1 .. Len(q) - j : b = t[k]
    BY <1>3 DEF ToSet
  <2>3. i < j + k
    BY <1>1
  <2>4. q[i] = Hb \/ q[j + k] = Hb \/ q[i] < q[j + k]
    BY <1>3, <1>4, <1>5, <2>3 DEF InOrder
  <2> QED
    BY <1>4, <1>5, <2>1, <2>2, <2>4
<1> QED
  BY <1>6, <1>7, <1>8 DEF s, t

LEMMA FifoAppend ==
  ASSUME NEW S, NEW q \in Seq(S), NEW m \in S
  PROVE  /\ Append(q, m) \in Seq(S) /\ Len(Append(q, m)) = Len(q) + 1
         /\ ToSet(Append(q, m)) = ToSet(q) \cup {m}
         /\ \A i \in 1 .. Len(q) : Append(q, m)[i] = q[i]
         /\ Append(q, m)[Len(q) + 1] = m
<1> DEFINE s == Append(q, m)
<1>1. /\ s \in Seq(S) /\ Len(s) = Len(q) + 1 /\ Len(q) \in Nat
      /\ \A i \in 1 .. Len(q) : s[i] = q[i]
      /\ s[Len(q) + 1] = m
  BY AppendProperties, LenProperties
<1> HIDE DEF s
<1>2. DOMAIN s = 1 .. Len(q) + 1 /\ DOMAIN q = 1 .. Len(q)
  BY <1>1, LenProperties
<1>3. \A x \in ToSet(s) : x \in ToSet(q) \cup {m}
  <2>1. ASSUME NEW i \in 1 .. Len(q) + 1 PROVE s[i] \in ToSet(q) \cup {m}
    <3>1. CASE i = Len(q) + 1
      BY <1>1, <3>1
    <3>2. CASE i # Len(q) + 1
      <4>1. i \in 1 .. Len(q)
        BY <1>1, <3>2
      <4> QED
        BY <1>1, <1>2, <4>1 DEF ToSet
    <3> QED
      BY <3>1, <3>2
  <2> QED
    BY <1>2, <2>1 DEF ToSet
<1>4. \A x \in ToSet(q) : x \in ToSet(s)
  <2>1. \A i \in 1 .. Len(q) : i \in 1 .. Len(q) + 1
    BY <1>1
  <2> QED
    BY <1>1, <1>2, <2>1 DEF ToSet
<1>5. m \in ToSet(s)
  <2>1. Len(q) + 1 \in 1 .. Len(q) + 1
    BY <1>1
  <2> QED
    BY <1>1, <1>2, <2>1 DEF ToSet
<1> QED
  BY <1>1, <1>3, <1>4, <1>5 DEF s

LEMMA FifoAppendOrder ==
  ASSUME NEW q \in Seq(Nat), InOrder(q), NEW m \in Nat,
         \A a \in ToSet(q) : a = Hb \/ m = Hb \/ a < m
  PROVE  InOrder(Append(q, m)) /\ ToSet(Append(q, m)) = ToSet(q) \cup {m}
<1> DEFINE s == Append(q, m)
<1>1. /\ s \in Seq(Nat) /\ Len(s) = Len(q) + 1 /\ Len(q) \in Nat
      /\ \A i \in 1 .. Len(q) : s[i] = q[i] /\ q[i] \in ToSet(q)
      /\ s[Len(q) + 1] = m
  BY FifoAppend, LenProperties, ToSetOfSeq
<1> HIDE DEF s
<1>2. DOMAIN s = 1 .. Len(q) + 1 /\ DOMAIN q = 1 .. Len(q)
  BY <1>1, LenProperties
<1>3. ASSUME NEW i \in 1 .. Len(q) + 1, NEW j \in 1 .. Len(q) + 1, i < j
      PROVE  s[i] = Hb \/ s[j] = Hb \/ s[i] < s[j]
  <2>1. i \in 1 .. Len(q)
    BY <1>1, <1>3
  <2>2. CASE j = Len(q) + 1
    BY <1>1, <2>1, <2>2
  <2>3. CASE j # Len(q) + 1
    <3>1. j \in 1 .. Len(q)
      BY <1>1, <2>3
    <3> QED
      BY <1>1, <1>2, <1>3, <2>1, <3>1 DEF InOrder
  <2> QED
    BY <2>2, <2>3
<1>4. ToSet(Append(q, m)) = ToSet(q) \cup {m}
  BY FifoAppend
<1> QED
  BY <1>2, <1>3, <1>4 DEF InOrder, s

LEMMA IncreasingAppend ==
  ASSUME NEW s \in Seq(Number), NEW t \in Seq(Number), Increasing(s \o t), NEW m \in Number,
         \A a \in ToSet(s) \cup ToSet(t) : a < m
  PROVE  t \o <<m>> \in Seq(Number) /\ ToSet(t \o <<m>>) = ToSet(t) \cup {m}
         /\ Increasing(s \o (t \o <<m>>))
<1> DEFINE u == s \o t
           v == Append(u, m)
<1>1. t \o <<m>> \in Seq(Number) /\ ToSet(t \o <<m>>) = ToSet(t) \cup {m}
  <2>1. Append(t, m) = t \o <<m>>
    BY AppendIsConcat
  <2>2. Append(t, m) \in Seq(Number) /\ ToSet(Append(t, m)) = ToSet(t) \cup {m}
    BY FifoAppend
  <2> QED
    BY <2>1, <2>2
<1>2. u \in Seq(Number) /\ ToSet(u) = ToSet(s) \cup ToSet(t)
  BY ConcatProperties, ToSetConcat
<1>3. s \o (t \o <<m>>) = v
  <2>1. <<m>> \in Seq(Number)
    OBVIOUS
  <2>2. (s \o t) \o <<m>> = s \o (t \o <<m>>)
    BY <2>1, ConcatAssociative
  <2> QED
    BY <1>2, <2>2, AppendIsConcat
<1>4. /\ v \in Seq(Number) /\ Len(v) = Len(u) + 1 /\ Len(u) \in Nat
      /\ \A i \in 1 .. Len(u) : v[i] = u[i] /\ u[i] \in ToSet(u)
      /\ v[Len(u) + 1] = m
  BY <1>2, FifoAppend, LenProperties, ToSetOfSeq
<1> HIDE DEF u, v
<1>5. DOMAIN v = 1 .. Len(u) + 1 /\ DOMAIN u = 1 .. Len(u)
  BY <1>2, <1>4, LenProperties
<1>6. ASSUME NEW i \in 1 .. Len(u) + 1, NEW j \in 1 .. Len(u) + 1, i < j
      PROVE  v[i] < v[j]
  <2>1. i \in 1 .. Len(u)
    BY <1>4, <1>6
  <2>2. CASE j = Len(u) + 1
    BY <1>2, <1>4, <2>1, <2>2
  <2>3. CASE j # Len(u) + 1
    <3>1. j \in 1 .. Len(u)
      BY <1>4, <2>3
    <3>2. u[i] < u[j]
      BY <1>5, <1>6, <2>1, <3>1 DEF Increasing, u
    <3> QED
      BY <1>4, <2>1, <3>1, <3>2
  <2> QED
    BY <2>2, <2>3
<1> QED
  BY <1>1, <1>3, <1>5, <1>6 DEF Increasing

LEMMA IncreasingFirst ==
  ASSUME NEW s \in Seq(Number), NEW t \in Seq(Number), Increasing(s \o t)
  PROVE  Increasing(s \o <<>>)
<1>1. /\ Len(s \o t) = Len(s) + Len(t) /\ s \o t \in Seq(Number)
      /\ \A i \in 1 .. Len(s) + Len(t) : (s \o t)[i] = IF i <= Len(s) THEN s[i] ELSE t[i - Len(s)]
      /\ s \o <<>> = s
  BY ConcatProperties, ConcatEmptySeq
<1>2. /\ DOMAIN s = 1 .. Len(s) /\ DOMAIN (s \o t) = 1 .. Len(s) + Len(t)
      /\ Len(s) \in Nat /\ Len(t) \in Nat
  BY <1>1, LenProperties
<1>3. \A i \in 1 .. Len(s) : i \in 1 .. Len(s) + Len(t) /\ (s \o t)[i] = s[i]
  BY <1>1, <1>2
<1>4. Increasing(s)
  BY <1>2, <1>3 DEF Increasing
<1> QED
  BY <1>1, <1>4

(* A user's read moves a packet from one list to the other.                *)
LEMMA ReadMoves ==
  ASSUME NEW s \in Seq(Number), NEW t \in Seq(Number), t # <<>>
  PROVE  /\ Append(s, Head(t)) \in Seq(Number) /\ Tail(t) \in Seq(Number) /\ Len(Tail(t)) = Len(t) - 1
         /\ Append(s, Head(t)) \o Tail(t) = s \o t
         /\ ToSet(Append(s, Head(t))) \cup ToSet(Tail(t)) = ToSet(s) \cup ToSet(t)
<1> DEFINE h == Head(t)
<1>1. /\ h \in Number /\ Tail(t) \in Seq(Number) /\ ToSet(t) = {h} \cup ToSet(Tail(t))
      /\ Len(Tail(t)) = Len(t) - 1
  BY ToSetTail, ToSetOfSeq
<1>2. Append(s, h) \in Seq(Number) /\ ToSet(Append(s, h)) = ToSet(s) \cup {h}
  BY <1>1, FifoAppend
<1>3. <<h>> \o Tail(t) = t
  <2> DEFINE u == <<h>> \o Tail(t)
  <2>1. <<h>> \in Seq(Number) /\ Len(<<h>>) = 1 /\ <<h>>[1] = h /\ <<h>> # <<>>
        /\ Head(<<h>>) = h /\ Tail(<<h>>) = <<>>
    BY <1>1
  <2>2. u # <<>> /\ Head(u) = h /\ Tail(u) = Tail(t) /\ u \in Seq(Number)
    BY <1>1, <2>1, HeadTailConcat, ConcatEmptySeq, ConcatProperties
  <2> HIDE DEF u, h
  <2>3. /\ u[1] = t[1] /\ Len(u) = Len(t) /\ Len(t) \in Nat \ {0}
        /\ \A i \in 1 .. Len(t) - 1 : u[i + 1] = t[i + 1]
    <3>1. /\ Head(u) = u[1] /\ Len(Tail(u)) = Len(u) - 1 /\ Len(u) \in Nat
          /\ \A i \in 1 .. Len(u) - 1 : Tail(u)[i] = u[i + 1]
      BY <2>2, ToSetTail, LenProperties
    <3>2. /\ Head(t) = t[1] /\ Len(Tail(t)) = Len(t) - 1 /\ Len(t) \in Nat \ {0}
          /\ \A i \in 1 .. Len(t) - 1 : Tail(t)[i] = t[i + 1]
      BY ToSetTail, LenProperties
    <3>3. Len(u) = Len(t) /\ u[1] = t[1]
      <4>1. Len(Tail(u)) = Len(Tail(t))
        BY <2>2
      <4>2. Head(u) = Head(t)
        BY <2>2 DEF h
      <4> QED
        BY <3>1, <3>2, <4>1, <4>2
    <3> QED
      BY <2>2, <3>1, <3>2, <3>3
  <2>4. ASSUME NEW i \in 1 .. Len(t) PROVE u[i] = t[i]
    <3>1. CASE i = 1
      BY <2>3, <3>1
    <3>2. CASE i # 1
      <4>1. i - 1 \in 1 .. Len(t) - 1 /\ (i - 1) + 1 = i
        BY <2>3, <3>2
      <4> QED
        BY <2>3, <4>1
    <3> QED
      BY <3>1, <3>2
  <2> QED
    BY <2>2, <2>3, <2>4, SeqEqual DEF u
<1>4. Append(s, h) \o Tail(t) = s \o t
  <2>1. Append(s, h) = s \o <<h>> /\ <<h>> \in Seq(Number)
    BY <1>1, AppendIsConcat
  <2>2. (s \o <<h>>) \o Tail(t) = s \o (<<h>> \o Tail(t))
    BY <1>1, <2>1, ConcatAssociative
  <2> QED
    BY <1>3, <2>1, <2>2
<1> QED
  BY <1>1, <1>2, <1>4

-----------------------------------------------------------------------------
(* Every step keeps the invariant.  First the types.                       *)

LEMMA OwnConnection == ASSUME Types, fd # 0 PROVE fd \in ConnId
BY SockLinkAssumption DEF Types, ConnId

LEMMA CloseTypes ==
  ASSUME Types, Close(0) PROVE
  /\ fd' \in 0 .. MaxConn /\ inprogress' \in BOOLEAN /\ wait' \in 0 .. RetryWait
  /\ ctq' \in Seq(Nat) /\ ctmp' \in Seq(Legal) /\ cral' \in Seq(Legal) /\ crq' \in Seq(Number)
  /\ net' \in [ConnId -> {"none", "syn", "refused", "ok", "cut"}]
  /\ down' \in [ConnId -> Seq(Legal)]
<1>1. /\ 0 \in 0 .. MaxConn /\ 0 \in 0 .. RetryWait /\ FALSE \in BOOLEAN
      /\ <<>> \in Seq(Legal)
  BY SockLinkAssumption
<1>2. /\ net' \in [ConnId -> {"none", "syn", "refused", "ok", "cut"}]
      /\ down' \in [ConnId -> Seq(Legal)]
  <2>1. /\ net \in [ConnId -> {"none", "syn", "refused", "ok", "cut"}]
        /\ down \in [ConnId -> Seq(Legal)]
    BY DEF Types
  <2>2. CASE fd = 0
    BY <2>1, <2>2 DEF Close, ClosedNet
  <2>3. CASE fd # 0
    BY <1>1, <2>1, <2>3 DEF Close, ClosedNet
  <2> QED
    BY <2>2, <2>3
<1> QED
  BY <1>1, <1>2 DEF Types, Close

LEMMA ReleasedTypes == ASSUME Types, NEW S \in SUBSET ConnId, Released(S) PROVE Types'
<1>1. /\ peer' \in [ConnId -> {"none", "up", "err", "gone"}]
      /\ net' \in [ConnId -> {"none", "syn", "refused", "ok", "cut"}]
      /\ up' \in [ConnId -> Seq(Legal)] /\ stq' \in [ConnId -> Seq(Nat)]
      /\ stmp' \in [ConnId -> Seq(Legal)]
      /\ sral' \in [ConnId -> Seq(Legal)] /\ srq' \in [ConnId -> Seq(Number)]
  BY DEF Types, Released
<1> QED
  BY <1>1 DEF Types, Released, client, users

\* What one turn of a receiver leaves behind the align buffer, and what it gives.
LEMMA TurnTypes ==
  ASSUME NEW rest, NEW got, NEW ral, NEW w, Turned(rest, got, ral, w)
  PROVE  rest \in Seq(Legal) /\ got \in Seq(Number) /\ (got = <<>> \/ \E m \in Number : got = <<m>>)
<1>1. rest \in Seq(Legal) /\ (got = <<>> \/ \E m \in Number : got = <<m>>)
  BY Zenon DEF Turned
<1>2. got \in Seq(Number)
  <2>1. CASE got = <<>>
    BY <2>1
  <2>2. ASSUME NEW m \in Number, got = <<m>> PROVE got \in Seq(Number)
    <3>1. <<m>> \in Seq(Number)
      OBVIOUS
    <3> QED
      BY <2>2, <3>1
  <2> QED
    BY <1>1, <2>1, <2>2
<1> QED
  BY <1>1, <1>2

\* The turn of a receiver, on the line it reads.
LEMMA ServerTurn ==
  ASSUME Types, UpFramed, NEW n \in ConnId, ServerRecv(n)
  PROVE  LET r == Aligned(Append(sral[n], Head(up[n]))) IN
         /\ Turned(r.rest, r.got, sral[n], UpWay(n)) /\ UpLine(n)' = r.rest \o Tail(UpWay(n))
         /\ UpWay(n) \in Seq(Legal) /\ UpWay(n) # <<>>
         /\ Head(UpWay(n)) = Head(up[n]) /\ Tail(UpWay(n)) \in Seq(Legal)
<1> DEFINE t == IF fd = n THEN ctmp ELSE <<>>
<1>1. up[n] \in Seq(Legal) /\ t \in Seq(Legal) /\ sral[n] \in Seq(Legal) /\ up[n] # <<>>
  BY DEF Types, ServerRecv
<1>2. UpWay(n) = up[n] \o t
  BY DEF UpWay
<1>3. /\ UpWay(n) \in Seq(Legal) /\ UpWay(n) # <<>> /\ Head(UpWay(n)) = Head(up[n])
      /\ Tail(UpWay(n)) = Tail(up[n]) \o t
  <2> HIDE DEF t
  <2>1. up[n] \o t \in Seq(Legal)
    BY <1>1, ConcatProperties
  <2>2. /\ up[n] \o t # <<>> /\ Head(up[n] \o t) = Head(up[n])
        /\ Tail(up[n] \o t) = Tail(up[n]) \o t
    BY <1>1, HeadTailConcat
  <2> QED
    BY <1>2, <2>1, <2>2
<1>4. Pending(sral[n]) /\ Begun(sral[n] \o UpWay(n))
  BY DEF UpFramed, UpFramedOn, UpLine, ServerRecv
<1>5. Tail(UpWay(n)) \in Seq(Legal)
  BY <1>3, ToSetTail
<1>6. UpLine(n)' = Aligned(Append(sral[n], Head(up[n]))).rest \o Tail(UpWay(n))
  <2>1. sral'[n] = Aligned(Append(sral[n], Head(up[n]))).rest /\ up'[n] = Tail(up[n])
    BY DEF ServerRecv, Types
  <2>2. UpLine(n)' = sral'[n] \o (up'[n] \o t)
    BY DEF ServerRecv, client, UpLine, UpWay
  <2> HIDE DEF t
  <2> QED
    BY <1>3, <2>1, <2>2
<1>7. LET r == Aligned(Append(sral[n], Head(up[n]))) IN Turned(r.rest, r.got, sral[n], UpWay(n))
  BY <1>1, <1>3, <1>4, AlignedTurn
<1> QED
  BY <1>3, <1>5, <1>6, <1>7

LEMMA ClientTurn ==
  ASSUME Types, DownFramed, ClientRecv
  PROVE  LET r == Aligned(Append(cral, Head(down[fd]))) IN
         /\ Turned(r.rest, r.got, cral, DownWay) /\ DownLine' = r.rest \o Tail(DownWay)
         /\ DownWay \in Seq(Legal) /\ DownWay # <<>>
         /\ Head(DownWay) = Head(down[fd]) /\ Tail(DownWay) \in Seq(Legal)
<1>1. /\ fd \in ConnId /\ down[fd] \in Seq(Legal) /\ stmp[fd] \in Seq(Legal)
      /\ cral \in Seq(Legal) /\ down[fd] # <<>>
  BY OwnConnection DEF Types, ClientRecv, Connected
<1>2. /\ DownWay \in Seq(Legal) /\ DownWay # <<>> /\ Head(DownWay) = Head(down[fd])
      /\ Tail(DownWay) = Tail(down[fd]) \o stmp[fd]
  BY <1>1, HeadTailConcat, ConcatProperties DEF DownWay
<1>3. Pending(cral) /\ Begun(cral \o DownWay)
  BY DEF DownFramed, DownLine, ClientRecv, Connected
<1>4. Tail(DownWay) \in Seq(Legal)
  BY <1>2, ToSetTail
<1>5. DownLine' = Aligned(Append(cral, Head(down[fd]))).rest \o Tail(DownWay)
  <2>1. /\ cral' = Aligned(Append(cral, Head(down[fd]))).rest /\ down'[fd] = Tail(down[fd])
        /\ fd' = fd /\ stmp' = stmp
    BY <1>1 DEF ClientRecv, Types, server
  <2>2. DownLine' = cral' \o (down'[fd] \o stmp[fd])
    BY <2>1 DEF DownLine, DownWay
  <2> QED
    BY <1>2, <2>1, <2>2
<1>6. LET r == Aligned(Append(cral, Head(down[fd]))) IN Turned(r.rest, r.got, cral, DownWay)
  BY <1>1, <1>2, <1>3, AlignedTurn
<1> QED
  BY <1>2, <1>4, <1>5, <1>6

\* What the first j packets of a fifo put on the line.
Batch(q, j) == Stream(First(q, j))

LEMMA BatchOfFifo ==
  ASSUME NEW q \in Seq(Nat), NEW j \in 1 .. Len(q)
  PROVE  /\ First(q, j) \in Seq(Nat) /\ Rest(q, j) \in Seq(Nat) /\ Len(Rest(q, j)) <= Len(q)
         /\ ToSet(First(q, j)) \subseteq ToSet(q) /\ ToSet(Rest(q, j)) \subseteq ToSet(q)
         /\ Batch(q, j) \in Seq(Legal) /\ Whole(Batch(q, j))
         /\ \A x \in ToSet(Batch(q, j)) : x[1] \in ToSet(First(q, j))
         /\ InOrder(q) =>
              /\ Sorted(Batch(q, j)) /\ InOrder(Rest(q, j))
              /\ \A a \in ToSet(First(q, j)), m \in ToSet(Rest(q, j)) : a = Hb \/ m = Hb \/ a < m
<1>1. j \in 0 .. Len(q) /\ Len(q) \in Nat
  BY LenProperties
<1>2. First(q, j) \in Seq(Nat) /\ ToSet(First(q, j)) \subseteq ToSet(q)
  BY <1>1, SplitJoins
<1>3. /\ Rest(q, j) \in Seq(Nat) /\ ToSet(Rest(q, j)) \subseteq ToSet(q)
      /\ Len(Rest(q, j)) = Len(q) - j
  BY <1>1, SplitJoins
<1>4. /\ Batch(q, j) \in Seq(Legal) /\ Whole(Batch(q, j))
      /\ \A x \in ToSet(Batch(q, j)) : x[1] \in ToSet(First(q, j))
      /\ InOrder(First(q, j)) => Sorted(Batch(q, j))
  BY <1>2, StreamOfQueue DEF Batch
<1>5. Len(Rest(q, j)) <= Len(q)
  BY <1>1, <1>3
<1> QED
  BY <1>2, <1>3, <1>4, <1>5, FifoSplit

LEMMA LineAssociative ==
  ASSUME NEW a \in Seq(Legal), NEW b \in Seq(Legal), NEW c \in Seq(Legal)
  PROVE  (a \o b) \o c = a \o (b \o c)
BY ConcatAssociative

\* What the socket accepts of b goes behind w, the rest stays with the sender.
LEMMA SendPart ==
  ASSUME NEW w \in Seq(Legal), NEW b \in Seq(Legal), NEW k \in Accepts(w, b)
  PROVE  /\ w \o First(b, k) \in Seq(Legal) /\ Len(w \o First(b, k)) <= SockCap
         /\ Rest(b, k) \in Seq(Legal) /\ ToSet(Rest(b, k)) \subseteq ToSet(b)
         /\ (w \o First(b, k)) \o Rest(b, k) = w \o b
<1>1. k \in 0 .. Len(b) /\ Len(w) + k <= SockCap
  BY DEF Accepts
<1>2. /\ First(b, k) \in Seq(Legal) /\ Rest(b, k) \in Seq(Legal)
      /\ First(b, k) \o Rest(b, k) = b /\ Len(First(b, k)) = k
      /\ ToSet(Rest(b, k)) \subseteq ToSet(b)
  BY <1>1, SplitJoins
<1>3. w \o First(b, k) \in Seq(Legal) /\ Len(w \o First(b, k)) = Len(w) + k
  BY <1>2, ConcatProperties
<1>4. (w \o First(b, k)) \o Rest(b, k) = w \o (First(b, k) \o Rest(b, k))
  BY <1>2, LineAssociative
<1> QED
  BY <1>1, <1>2, <1>3, <1>4

LEMMA ClientSent ==
  ASSUME Types, NEW j, NEW k, ClientSend(j, k)
  PROVE  /\ fd \in ConnId /\ fd' = fd /\ j \in 1 .. Len(ctq) /\ ctq' = Rest(ctq, j)
         /\ up' \in [ConnId -> Seq(Legal)] /\ Len(up'[fd]) <= SockCap /\ ctmp' \in Seq(Legal)
         /\ \A n \in ConnId : n # fd => up'[n] = up[n] /\ UpLine(n)' = UpLine(n)
         /\ UpLine(fd)' = UpLine(fd) \o Batch(ctq, j)
<1> DEFINE b == Batch(ctq, j)
<1>1. /\ fd \in ConnId /\ fd' = fd /\ j \in 1 .. Len(ctq) /\ ctq' = Rest(ctq, j)
      /\ ctmp = <<>> /\ sral' = sral /\ k \in Accepts(up[fd], b)
      /\ up' = [up EXCEPT ![fd] = @ \o First(b, k)] /\ ctmp' = Rest(b, k)
  BY OwnConnection DEF ClientSend, Connected, server, Batch
<1>2. /\ ctq \in Seq(Nat) /\ up \in [ConnId -> Seq(Legal)]
      /\ up[fd] \in Seq(Legal) /\ sral[fd] \in Seq(Legal)
  BY <1>1 DEF Types
<1>3. b \in Seq(Legal)
  BY <1>1, <1>2, BatchOfFifo
<1> HIDE DEF b
<1>4. /\ up[fd] \o First(b, k) \in Seq(Legal) /\ Len(up[fd] \o First(b, k)) <= SockCap
      /\ Rest(b, k) \in Seq(Legal) /\ (up[fd] \o First(b, k)) \o Rest(b, k) = up[fd] \o b
  BY <1>1, <1>2, <1>3, SendPart
<1>5. up'[fd] = up[fd] \o First(b, k) /\ \A n \in ConnId : n # fd => up'[n] = up[n]
  BY <1>1, <1>2
<1>6. up' \in [ConnId -> Seq(Legal)]
  BY <1>1, <1>2, <1>4
<1>7. UpLine(fd)' = sral[fd] \o (up[fd] \o b)
  BY <1>1, <1>4, <1>5 DEF UpLine, UpWay
<1>8. UpLine(fd) = sral[fd] \o up[fd]
  BY <1>1, <1>2, ConcatEmptySeq DEF UpLine, UpWay
<1>9. (sral[fd] \o up[fd]) \o b = sral[fd] \o (up[fd] \o b)
  BY <1>2, <1>3, LineAssociative
<1>10. \A n \in ConnId : n # fd => UpLine(n)' = UpLine(n)
  BY <1>1, <1>5 DEF UpLine, UpWay
<1> QED
  BY <1>1, <1>4, <1>5, <1>6, <1>7, <1>8, <1>9, <1>10 DEF b

LEMMA ClientSentTmp ==
  ASSUME Types, NEW k, ClientSendTmp(k)
  PROVE  /\ fd \in ConnId /\ fd' = fd
         /\ up' \in [ConnId -> Seq(Legal)] /\ Len(up'[fd]) <= SockCap /\ ctmp' \in Seq(Legal)
         /\ \A n \in ConnId : n # fd => up'[n] = up[n]
         /\ \A n \in ConnId : UpLine(n)' = UpLine(n)
<1>1. /\ fd \in ConnId /\ fd' = fd /\ sral' = sral /\ k \in Accepts(up[fd], ctmp)
      /\ up' = [up EXCEPT ![fd] = @ \o First(ctmp, k)] /\ ctmp' = Rest(ctmp, k)
  BY OwnConnection DEF ClientSendTmp, Connected, server
<1>2. up \in [ConnId -> Seq(Legal)] /\ up[fd] \in Seq(Legal) /\ ctmp \in Seq(Legal)
  BY <1>1 DEF Types
<1>3. /\ up[fd] \o First(ctmp, k) \in Seq(Legal) /\ Len(up[fd] \o First(ctmp, k)) <= SockCap
      /\ Rest(ctmp, k) \in Seq(Legal) /\ (up[fd] \o First(ctmp, k)) \o Rest(ctmp, k) = up[fd] \o ctmp
  BY <1>1, <1>2, SendPart
<1>4. up'[fd] = up[fd] \o First(ctmp, k) /\ \A n \in ConnId : n # fd => up'[n] = up[n]
  BY <1>1, <1>2
<1>5. up' \in [ConnId -> Seq(Legal)]
  BY <1>1, <1>2, <1>3
<1>6. UpLine(fd)' = UpLine(fd)
  BY <1>1, <1>3, <1>4 DEF UpLine, UpWay
<1>7. \A n \in ConnId : n # fd => UpLine(n)' = UpLine(n)
  BY <1>1, <1>4 DEF UpLine, UpWay
<1> QED
  BY <1>1, <1>3, <1>4, <1>5, <1>6, <1>7

LEMMA ServerSent ==
  ASSUME Types, NEW n \in ConnId, NEW j, NEW k, ServerSend(n, j, k)
  PROVE  /\ j \in 1 .. Len(stq[n]) /\ peer[n] = "up" /\ fd' = fd
         /\ stq'[n] = Rest(stq[n], j) /\ \A m \in ConnId : m # n => stq'[m] = stq[m]
         /\ ToSet(stmp'[n]) \subseteq ToSet(Batch(stq[n], j))
         /\ \A m \in ConnId : m # n => stmp'[m] = stmp[m]
         /\ down' \in [ConnId -> Seq(Legal)] /\ stmp' \in [ConnId -> Seq(Legal)]
         /\ stq' \in [ConnId -> Seq(Nat)]
         /\ \A m \in ConnId : down'[m] = down[m] \/ Len(down'[m]) <= SockCap
         /\ \A m \in ConnId : m # fd \/ m # n => down'[m] = down[m]
         /\ fd = n => DownLine' = DownLine \o Batch(stq[n], j)
         /\ fd # 0 /\ fd # n => DownLine' = DownLine
<1> DEFINE b == Batch(stq[n], j)
<1>1. /\ fd' = fd /\ cral' = cral /\ peer[n] = "up" /\ stmp[n] = <<>>
      /\ j \in 1 .. Len(stq[n]) /\ k \in Accepts(down[n], b)
      /\ down' = IF fd = n THEN [down EXCEPT ![n] = @ \o First(b, k)] ELSE down
      /\ stmp' = [stmp EXCEPT ![n] = Rest(b, k)]
      /\ stq' = [stq EXCEPT ![n] = Rest(@, j)]
  BY DEF ServerSend, Batch, Arrives, client
<1>2. /\ stq \in [ConnId -> Seq(Nat)] /\ stmp \in [ConnId -> Seq(Legal)]
      /\ down \in [ConnId -> Seq(Legal)] /\ cral \in Seq(Legal)
  BY DEF Types
<1>3. stq[n] \in Seq(Nat) /\ down[n] \in Seq(Legal) /\ stmp[n] \in Seq(Legal)
  BY <1>2
<1>4. b \in Seq(Legal) /\ Rest(stq[n], j) \in Seq(Nat)
  BY <1>1, <1>3, BatchOfFifo
<1> HIDE DEF b
<1>5. /\ down[n] \o First(b, k) \in Seq(Legal) /\ Len(down[n] \o First(b, k)) <= SockCap
      /\ Rest(b, k) \in Seq(Legal) /\ ToSet(Rest(b, k)) \subseteq ToSet(b)
      /\ (down[n] \o First(b, k)) \o Rest(b, k) = down[n] \o b
  BY <1>1, <1>3, <1>4, SendPart
<1>6. stq'[n] = Rest(stq[n], j) /\ \A m \in ConnId : m # n => stq'[m] = stq[m]
  BY <1>1, <1>2
<1>7. stmp'[n] = Rest(b, k) /\ \A m \in ConnId : m # n => stmp'[m] = stmp[m]
  BY <1>1, <1>2
<1>8. \A m \in ConnId : m # n => down'[m] = down[m]
  BY <1>1, <1>2
<1>9. down'[n] = IF fd = n THEN down[n] \o First(b, k) ELSE down[n]
  BY <1>1, <1>2
<1>10. /\ down' \in [ConnId -> Seq(Legal)] /\ stmp' \in [ConnId -> Seq(Legal)]
       /\ stq' \in [ConnId -> Seq(Nat)]
  BY <1>1, <1>2, <1>4, <1>5
<1>11. ASSUME fd = n PROVE DownLine' = DownLine \o b
  <2>1. DownLine' = cral \o (down[n] \o b)
    BY <1>1, <1>5, <1>7, <1>9, <1>11 DEF DownLine, DownWay
  <2>2. DownLine = cral \o down[n]
    BY <1>1, <1>3, <1>11, ConcatEmptySeq DEF DownLine, DownWay
  <2>3. (cral \o down[n]) \o b = cral \o (down[n] \o b)
    BY <1>2, <1>3, <1>4, LineAssociative
  <2> QED
    BY <2>1, <2>2, <2>3
<1>12. ASSUME fd # 0, fd # n PROVE DownLine' = DownLine
  BY <1>1, <1>7, <1>8, <1>12, OwnConnection DEF DownLine, DownWay
<1> QED
  BY <1>1, <1>5, <1>6, <1>7, <1>8, <1>9, <1>10, <1>11, <1>12 DEF b

LEMMA ServerSentTmp ==
  ASSUME Types, NEW n \in ConnId, NEW k, ServerSendTmp(n, k)
  PROVE  /\ peer[n] = "up" /\ fd' = fd
         /\ ToSet(stmp'[n]) \subseteq ToSet(stmp[n])
         /\ \A m \in ConnId : m # n => stmp'[m] = stmp[m]
         /\ down' \in [ConnId -> Seq(Legal)] /\ stmp' \in [ConnId -> Seq(Legal)]
         /\ \A m \in ConnId : down'[m] = down[m] \/ Len(down'[m]) <= SockCap
         /\ \A m \in ConnId : m # fd \/ m # n => down'[m] = down[m]
         /\ fd # 0 => DownLine' = DownLine
<1> DEFINE b == stmp[n]
<1>1. /\ fd' = fd /\ cral' = cral /\ peer[n] = "up" /\ k \in Accepts(down[n], b)
      /\ down' = IF fd = n THEN [down EXCEPT ![n] = @ \o First(b, k)] ELSE down
      /\ stmp' = [stmp EXCEPT ![n] = Rest(b, k)]
  BY DEF ServerSendTmp, Arrives, client
<1>2. stmp \in [ConnId -> Seq(Legal)] /\ down \in [ConnId -> Seq(Legal)] /\ cral \in Seq(Legal)
  BY DEF Types
<1>3. down[n] \in Seq(Legal) /\ b \in Seq(Legal)
  BY <1>2
<1>4. /\ down[n] \o First(b, k) \in Seq(Legal) /\ Len(down[n] \o First(b, k)) <= SockCap
      /\ Rest(b, k) \in Seq(Legal) /\ ToSet(Rest(b, k)) \subseteq ToSet(b)
      /\ (down[n] \o First(b, k)) \o Rest(b, k) = down[n] \o b
  BY <1>1, <1>3, SendPart
<1>5. stmp'[n] = Rest(b, k) /\ \A m \in ConnId : m # n => stmp'[m] = stmp[m]
  BY <1>1, <1>2
<1>6. \A m \in ConnId : m # n => down'[m] = down[m]
  BY <1>1, <1>2
<1>7. down'[n] = IF fd = n THEN down[n] \o First(b, k) ELSE down[n]
  BY <1>1, <1>2
<1>8. down' \in [ConnId -> Seq(Legal)] /\ stmp' \in [ConnId -> Seq(Legal)]
  BY <1>1, <1>2, <1>4
<1>9. ASSUME fd = n PROVE DownLine' = DownLine
  BY <1>1, <1>4, <1>5, <1>7, <1>9 DEF DownLine, DownWay
<1>10. ASSUME fd # 0, fd # n PROVE DownLine' = DownLine
  BY <1>1, <1>5, <1>6, <1>10, OwnConnection DEF DownLine, DownWay
<1> QED
  BY <1>1, <1>4, <1>5, <1>6, <1>7, <1>8, <1>9, <1>10

LEMMA ClientRecvTypes ==
  ASSUME Types, Limits, DownFramed, ClientRecv
  PROVE  /\ fd \in ConnId /\ cral' \in Seq(Legal) /\ crq' \in Seq(Number) /\ Len(crq') <= RxCap
         /\ down' \in [ConnId -> Seq(Legal)] /\ Len(down'[fd]) <= Len(down[fd])
         /\ \A n \in ConnId : n # fd => down'[n] = down[n]
<1> DEFINE r == Aligned(Append(cral, Head(down[fd])))
<1>1. /\ fd \in ConnId /\ down[fd] # <<>> /\ cral' = r.rest
      /\ crq' = (IF Len(crq) < RxCap THEN crq \o r.got ELSE crq)
      /\ down' = [down EXCEPT ![fd] = Tail(@)]
  BY OwnConnection DEF ClientRecv, Connected
<1>2. Turned(r.rest, r.got, cral, DownWay)
  BY ClientTurn
<1> HIDE DEF r
<1>3. /\ r.rest \in Seq(Legal) /\ r.got \in Seq(Number)
      /\ r.got = <<>> \/ \E m \in Number : r.got = <<m>>
  BY <1>2, TurnTypes
<1>4. /\ crq \in Seq(Number) /\ down \in [ConnId -> Seq(Legal)] /\ down[fd] \in Seq(Legal)
      /\ Len(crq) <= RxCap
  BY <1>1 DEF Types, Limits
<1>5. Tail(down[fd]) \in Seq(Legal) /\ Len(Tail(down[fd])) = Len(down[fd]) - 1
  BY <1>1, <1>4, ToSetTail
<1>6. crq \o r.got \in Seq(Number) /\ Len(crq \o r.got) = Len(crq) + Len(r.got)
  BY <1>3, <1>4, ConcatProperties
<1>7. Len(r.got) <= 1
  <2>1. CASE r.got = <<>>
    BY <2>1
  <2>2. ASSUME NEW m \in Number, r.got = <<m>> PROVE Len(r.got) <= 1
    BY <2>2
  <2> QED
    BY <1>3, <2>1, <2>2
<1>8. crq' \in Seq(Number) /\ Len(crq') <= RxCap
  <2>1. Len(crq) \in Nat /\ Len(r.got) \in Nat /\ RxCap \in Nat
    BY <1>3, <1>4, LenProperties, SockLinkAssumption
  <2> QED
    BY <1>1, <1>4, <1>6, <1>7, <2>1
<1>9. down' \in [ConnId -> Seq(Legal)] /\ Len(down'[fd]) <= Len(down[fd])
  BY <1>1, <1>4, <1>5, LenProperties
<1>10. \A n \in ConnId : n # fd => down'[n] = down[n]
  BY <1>1, <1>4
<1> QED
  BY <1>1, <1>3, <1>8, <1>9, <1>10

LEMMA ServerRecvTypes ==
  ASSUME Types, Limits, UpFramed, UpOrdered, NEW n \in ConnId, ServerRecv(n)
  PROVE  /\ sral' \in [ConnId -> Seq(Legal)] /\ srq' \in [ConnId -> Seq(Number)]
         /\ up' \in [ConnId -> Seq(Legal)] /\ full' \in SUBSET (1 .. UpN)
         /\ Len(srq'[n]) <= RxCap /\ Len(up'[n]) <= Len(up[n])
         /\ \A k \in ConnId : k # n => up'[k] = up[k] /\ sral'[k] = sral[k] /\ srq'[k] = srq[k]
<1> DEFINE r == Aligned(Append(sral[n], Head(up[n])))
<1>1. /\ up[n] # <<>> /\ up' = [up EXCEPT ![n] = Tail(@)] /\ sral' = [sral EXCEPT ![n] = r.rest]
      /\ IF Len(srq[n]) < RxCap
         THEN srq' = [srq EXCEPT ![n] = @ \o r.got] /\ full' = full
         ELSE full' = full \cup ToSet(r.got) /\ srq' = srq
  BY DEF ServerRecv
<1>2. Turned(r.rest, r.got, sral[n], UpWay(n)) /\ UpWay(n) \in Seq(Legal)
  BY ServerTurn
<1> HIDE DEF r
<1>3. /\ r.rest \in Seq(Legal) /\ r.got \in Seq(Number)
      /\ r.got = <<>> \/ \E m \in Number : r.got = <<m>>
  BY <1>2, TurnTypes
<1>4. /\ srq \in [ConnId -> Seq(Number)] /\ up \in [ConnId -> Seq(Legal)]
      /\ sral \in [ConnId -> Seq(Legal)] /\ full \in SUBSET (1 .. UpN)
      /\ srq[n] \in Seq(Number) /\ up[n] \in Seq(Legal) /\ sral[n] \in Seq(Legal)
      /\ Len(srq[n]) <= RxCap
  BY DEF Types, Limits
<1>5. Tail(up[n]) \in Seq(Legal) /\ Len(Tail(up[n])) = Len(up[n]) - 1
  BY <1>1, <1>4, ToSetTail
<1>6. srq[n] \o r.got \in Seq(Number) /\ Len(srq[n] \o r.got) = Len(srq[n]) + Len(r.got)
  BY <1>3, <1>4, ConcatProperties
<1>7. Len(r.got) <= 1
  <2>1. CASE r.got = <<>>
    BY <2>1
  <2>2. ASSUME NEW m \in Number, r.got = <<m>> PROVE Len(r.got) <= 1
    BY <2>2
  <2> QED
    BY <1>3, <2>1, <2>2
<1>8. srq' \in [ConnId -> Seq(Number)] /\ Len(srq'[n]) <= RxCap
  <2>1. Len(srq[n]) \in Nat /\ Len(r.got) \in Nat /\ RxCap \in Nat
    BY <1>3, <1>4, LenProperties, SockLinkAssumption
  <2>2. CASE Len(srq[n]) < RxCap
    <3>1. srq' \in [ConnId -> Seq(Number)] /\ srq'[n] = srq[n] \o r.got
      BY <1>1, <1>4, <1>6, <2>2
    <3>2. Len(srq[n]) + Len(r.got) <= RxCap
      <4> DEFINE a == Len(srq[n])
                 b == Len(r.got)
      <4>1. a \in Nat /\ b \in Nat /\ RxCap \in Nat /\ a < RxCap /\ b <= 1
        BY <1>7, <2>1, <2>2
      <4> HIDE DEF a, b
      <4>2. a + b <= RxCap
        BY <4>1
      <4> QED
        BY <4>2 DEF a, b
    <3>3. Len(srq'[n]) = Len(srq[n]) + Len(r.got)
      BY <1>6, <3>1
    <3> QED
      BY <3>1, <3>2, <3>3
  <2>3. CASE ~(Len(srq[n]) < RxCap)
    BY <1>1, <1>4, <2>3
  <2> QED
    BY <2>2, <2>3
<1>9. up' \in [ConnId -> Seq(Legal)] /\ sral' \in [ConnId -> Seq(Legal)]
  BY <1>1, <1>3, <1>4, <1>5
<1>10. Len(up'[n]) <= Len(up[n])
  BY <1>1, <1>4, <1>5, LenProperties
<1>11. full' \in SUBSET (1 .. UpN)
  <2>1. CASE r.got = <<>>
    <3>1. ToSet(r.got) = {}
      BY <2>1 DEF ToSet
    <3>2. full' = full
      BY <1>1, <3>1
    <3> QED
      BY <1>4, <3>2
  <2>2. ASSUME NEW m \in Number, r.got = <<m>>, <<m, 1>> \in ToSet(sral[n]) PROVE m \in 1 .. UpN
    <3>1. <<m, 1>> \in ToSet(UpLine(n))
      BY <1>2, <1>4, <2>2, ToSetConcat DEF UpLine
    <3> QED
      BY <3>1 DEF UpOrdered, UpOrderedOn, Number, Hb
  <2>3. CASE r.got # <<>>
    <3>1. PICK m \in Number : r.got = <<m>> /\ <<m, 1>> \in ToSet(sral[n])
      BY <1>2, <2>3 DEF Turned
    <3>2. ToSet(r.got) = {m} /\ m \in 1 .. UpN
      BY <2>2, <3>1 DEF ToSet
    <3> QED
      BY <1>1, <1>4, <3>2
  <2> QED
    BY <2>1, <2>3
<1>12. \A k \in ConnId : k # n => up'[k] = up[k] /\ sral'[k] = sral[k] /\ srq'[k] = srq[k]
  BY <1>1, <1>4
<1> QED
  BY <1>8, <1>9, <1>10, <1>11, <1>12

(* The actions of a step, each by its name.                                *)
LEMMA Steps ==
  ASSUME [Next]_vars
  PROVE  \/ UNCHANGED vars
         \/ \E n \in ConnId : Create(n) \/ Accept(n) \/ Handshake(n) \/ Break(n)
         \/ \E n \in ConnId : ServerHeartbeat(n) \/ ServerRead(n) \/ ServerRecv(n) \/ ServerError(n)
         \/ CheckEstablished \/ UserClose \/ ClientError \/ ClientHeartbeat \/ ClientWrite
         \/ ClientRead \/ ClientRecv \/ Tick \/ ServerWrite
         \/ \E j, k : ClientSend(j, k)
         \/ \E k : ClientSendTmp(k)
         \/ \E n \in ConnId : \E j, k : ServerSend(n, j, k)
         \/ \E n \in ConnId : \E k : ServerSendTmp(n, k)
         \/ \E S \in SUBSET ConnId : Released(S) /\ \A n \in S : Linked(n)
<1>1. CASE Check
  <2> DEFINE S == {n \in ConnId : peer[n] = "err"}
  <2>1. S \in SUBSET ConnId /\ Released(S) /\ \A n \in S : Linked(n)
    BY <1>1 DEF Check, Linked
  <2> QED
    BY <2>1
<1>2. ASSUME NEW n \in ConnId, Disconnect(n)
      PROVE  \E S \in SUBSET ConnId : Released(S) /\ \A k \in S : Linked(k)
  <2>1. {n} \in SUBSET ConnId /\ Released({n}) /\ \A k \in {n} : Linked(k)
    BY <1>2 DEF Disconnect
  <2> QED
    BY <2>1
<1>3. CASE Client
  BY <1>3, Zenon DEF Client, ClientSends
<1>4. CASE Server
  BY <1>1, <1>2, <1>4, ZenonT(30) DEF Server, ServerSends
<1>5. CASE Network
  BY <1>5, Zenon DEF Network
<1> QED
  BY <1>3, <1>4, <1>5 DEF Next

LEMMA TypesStep == ASSUME IInv, [Next]_vars PROVE Types'
<1>1. /\ Types /\ Limits /\ Phases /\ UpFramed /\ DownFramed /\ UpOrdered
  BY DEF IInv
<1>2. CASE UNCHANGED vars
  BY <1>1, <1>2 DEF Types, vars
<1>3. ASSUME NEW n \in ConnId, Create(n) PROVE Types'
  <2>1. net' \in [ConnId -> {"none", "syn", "refused", "ok", "cut"}]
    BY <1>1, <1>3 DEF Types, Create
  <2>2. fd' \in 0 .. MaxConn /\ inprogress' \in BOOLEAN /\ wait' \in 0 .. RetryWait
    <3>1. n \in 0 .. MaxConn /\ RetryWait \in 0 .. RetryWait
      BY SockLinkAssumption DEF ConnId
    <3>2. wait' = RetryWait /\ (fd' = n \/ fd' = fd) /\ (inprogress' \in BOOLEAN \/ inprogress' = inprogress)
      BY <1>3 DEF Create
    <3> QED
      BY <1>1, <3>1, <3>2 DEF Types
  <2> QED
    BY <1>1, <1>3, <2>1, <2>2 DEF Types, Create, server, users
<1>4. ASSUME NEW n \in ConnId, Accept(n) PROVE Types'
  BY <1>1, <1>4 DEF Types, Accept, client, tcp, users
<1>5. ASSUME NEW n \in ConnId, Handshake(n) \/ Break(n) PROVE Types'
  BY <1>1, <1>5 DEF Types, Handshake, Break, client, server, users
<1>6. ASSUME NEW n \in ConnId, ServerHeartbeat(n) PROVE Types'
  <2>1. stq' \in [ConnId -> Seq(Nat)]
    <3>1. stq[n] \in Seq(Nat) /\ Hb \in Nat
      BY <1>1 DEF Types, Hb
    <3>2. Append(stq[n], Hb) \in Seq(Nat)
      BY <3>1, FifoAppend
    <3> QED
      BY <1>1, <1>6, <3>2 DEF Types, ServerHeartbeat
  <2> QED
    BY <1>1, <1>6, <2>1 DEF Types, ServerHeartbeat, client, tcp, users
<1>7. ASSUME NEW n \in ConnId, ServerRead(n) PROVE Types'
  <2>1. srq[n] \in Seq(Number) /\ sgot[n] \in Seq(Number) /\ srq[n] # <<>>
    BY <1>1, <1>7 DEF Types, ServerRead
  <2>2. Append(sgot[n], Head(srq[n])) \in Seq(Number) /\ Tail(srq[n]) \in Seq(Number)
    BY <2>1, ReadMoves
  <2>3. srq' \in [ConnId -> Seq(Number)] /\ sgot' \in [ConnId -> Seq(Number)]
    BY <1>1, <1>7, <2>2 DEF Types, ServerRead
  <2> QED
    BY <1>1, <1>7, <2>3 DEF Types, ServerRead, client, tcp
<1>8. ASSUME NEW n \in ConnId, ServerRecv(n) PROVE Types'
  <2>1. /\ sral' \in [ConnId -> Seq(Legal)] /\ srq' \in [ConnId -> Seq(Number)]
        /\ up' \in [ConnId -> Seq(Legal)] /\ full' \in SUBSET (1 .. UpN)
    BY <1>1, <1>8, ServerRecvTypes
  <2> QED
    BY <1>1, <1>8, <2>1 DEF Types, ServerRecv, client, users
<1>9. ASSUME NEW n \in ConnId, ServerError(n) PROVE Types'
  BY <1>1, <1>9 DEF Types, ServerError, client, tcp, users
<1>10. CASE CheckEstablished
  <2>1. net' \in [ConnId -> {"none", "syn", "refused", "ok", "cut"}]
    <3>1. net \in [ConnId -> {"none", "syn", "refused", "ok", "cut"}]
      BY <1>1 DEF Types
    <3>2. net' = net \/ net' = [net EXCEPT ![fd] = "none"]
      BY <1>10 DEF CheckEstablished
    <3> QED
      BY <3>1, <3>2
  <2>2. fd' \in 0 .. MaxConn /\ inprogress' \in BOOLEAN
    <3>1. (fd' = fd \/ fd' = 0) /\ (inprogress' = inprogress \/ inprogress' = FALSE)
      BY <1>10 DEF CheckEstablished
    <3>2. 0 \in 0 .. MaxConn
      BY SockLinkAssumption
    <3> QED
      BY <1>1, <3>1, <3>2 DEF Types
  <2> QED
    BY <1>1, <1>10, <2>1, <2>2 DEF Types, CheckEstablished, server, users
<1>11. CASE UserClose \/ ClientError
  BY <1>1, <1>11, CloseTypes DEF Types, UserClose, ClientError, server, users
<1>12. CASE ClientHeartbeat
  <2>1. ctq' \in Seq(Nat)
    BY <1>1, <1>12, FifoAppend DEF Types, ClientHeartbeat, Hb
  <2> QED
    BY <1>1, <1>12, <2>1 DEF Types, ClientHeartbeat, tcp, server, users
<1>13. CASE ClientWrite
  <2>1. cnext' \in 1 .. UpN + 1 /\ cnext \in Nat
    BY <1>1, <1>13, SockLinkAssumption DEF Types, ClientWrite
  <2>2. ctq' \in Seq(Nat)
    BY <1>1, <1>13, <2>1, FifoAppend DEF Types, ClientWrite
  <2> QED
    BY <1>1, <1>13, <2>1, <2>2 DEF Types, ClientWrite, tcp, server
<1>14. CASE ClientRead
  <2>1. crq' \in Seq(Number) /\ cgot' \in Seq(Number)
    BY <1>1, <1>14, ReadMoves DEF Types, ClientRead
  <2> QED
    BY <1>1, <1>14, <2>1 DEF Types, ClientRead, tcp, server
<1>15. CASE ClientRecv
  <2>1. cral' \in Seq(Legal) /\ crq' \in Seq(Number) /\ down' \in [ConnId -> Seq(Legal)]
    BY <1>1, <1>15, ClientRecvTypes
  <2> QED
    BY <1>1, <1>15, <2>1 DEF Types, ClientRecv, server, users
<1>16. CASE Tick
  BY <1>1, <1>16, SockLinkAssumption DEF Types, Tick, tcp, server, users
<1>17. CASE ServerWrite
  <2>1. snext' \in 1 .. DownN + 1 /\ snext \in Nat
    BY <1>1, <1>17, SockLinkAssumption DEF Types, ServerWrite
  <2>2. \A n \in ConnId : stq[n] \in Seq(Nat) /\ Append(stq[n], snext) \in Seq(Nat)
    BY <1>1, <2>1, FifoAppend DEF Types
  <2>3. stq' \in [ConnId -> Seq(Nat)]
    BY <1>17, <2>2 DEF ServerWrite
  <2> QED
    BY <1>1, <1>17, <2>1, <2>3 DEF Types, ServerWrite, client, tcp
<1>18. ASSUME NEW j, NEW k, ClientSend(j, k) PROVE Types'
  <2>1. /\ fd \in ConnId /\ j \in 1 .. Len(ctq) /\ ctq' = Rest(ctq, j)
        /\ up' \in [ConnId -> Seq(Legal)] /\ ctmp' \in Seq(Legal)
    BY <1>1, <1>18, ClientSent
  <2>2. ctq \in Seq(Nat) /\ via \in [1 .. UpN -> 0 .. MaxConn] /\ fd \in 0 .. MaxConn
    BY <1>1 DEF Types
  <2>3. ctq' \in Seq(Nat)
    BY <2>1, <2>2, BatchOfFifo
  <2>4. via' \in [1 .. UpN -> 0 .. MaxConn]
    BY <1>18, <2>2 DEF ClientSend
  <2> QED
    BY <1>1, <1>18, <2>1, <2>3, <2>4 DEF Types, ClientSend, server, users
<1>19. ASSUME NEW k, ClientSendTmp(k) PROVE Types'
  <2>1. up' \in [ConnId -> Seq(Legal)] /\ ctmp' \in Seq(Legal)
    BY <1>1, <1>19, ClientSentTmp
  <2> QED
    BY <1>1, <1>19, <2>1 DEF Types, ClientSendTmp, server, users
<1>20. ASSUME NEW n \in ConnId, NEW j, NEW k, ServerSend(n, j, k) PROVE Types'
  <2>1. /\ down' \in [ConnId -> Seq(Legal)] /\ stmp' \in [ConnId -> Seq(Legal)]
        /\ stq' \in [ConnId -> Seq(Nat)]
    BY <1>1, <1>20, ServerSent
  <2> QED
    BY <1>1, <1>20, <2>1 DEF Types, ServerSend, client, users
<1>21. ASSUME NEW n \in ConnId, NEW k, ServerSendTmp(n, k) PROVE Types'
  <2>1. down' \in [ConnId -> Seq(Legal)] /\ stmp' \in [ConnId -> Seq(Legal)]
    BY <1>1, <1>21, ServerSentTmp
  <2> QED
    BY <1>1, <1>21, <2>1 DEF Types, ServerSendTmp, client, users
<1>22. ASSUME NEW S \in SUBSET ConnId, Released(S) PROVE Types'
  BY <1>1, <1>22, ReleasedTypes
<1> QED
  BY <1>2, <1>3, <1>4, <1>5, <1>6, <1>7, <1>8, <1>9, <1>10, <1>11, <1>12, <1>13, <1>14, <1>15,
     <1>16, <1>17, <1>18, <1>19, <1>20, <1>21, <1>22, Steps

LEMMA LimitsStep == ASSUME IInv, [Next]_vars PROVE Limits'
<1>1. Types /\ Limits /\ UpFramed /\ DownFramed /\ UpOrdered /\ Phases
  BY DEF IInv
<1>2. /\ ctq \in Seq(Nat) /\ crq \in Seq(Number)
      /\ stq \in [ConnId -> Seq(Nat)] /\ srq \in [ConnId -> Seq(Number)]
      /\ up \in [ConnId -> Seq(Legal)] /\ down \in [ConnId -> Seq(Legal)]
  BY <1>1 DEF Types
<1>3. TxCap \in Nat /\ RxCap \in Nat /\ SockCap \in Nat /\ Len(<<>>) = 0
  BY SockLinkAssumption
<1>4. ASSUME UNCHANGED <<ctq, crq, stq, srq, up, down>> PROVE Limits'
  BY <1>1, <1>4 DEF Limits
<1>5. CASE UNCHANGED vars
  BY <1>4, <1>5 DEF vars
<1>6. ASSUME NEW n \in ConnId, Create(n) \/ Accept(n) \/ Handshake(n) \/ Break(n) \/ ServerError(n)
      PROVE  Limits'
  BY <1>4, <1>6 DEF Create, Accept, Handshake, Break, ServerError, client, tcp, server
<1>7. CASE CheckEstablished \/ Tick
  BY <1>4, <1>7 DEF CheckEstablished, Tick, server, tcp
<1>8. CASE UserClose \/ ClientError
  <2>1. \A n \in ConnId : down'[n] = down[n] \/ down'[n] = <<>>
    BY <1>2, <1>8 DEF UserClose, ClientError, Close, ClosedNet
  <2>2. UNCHANGED <<ctq, crq, stq, srq, up>>
    BY <1>8 DEF UserClose, ClientError, Close, server
  <2> QED
    BY <1>1, <1>3, <2>1, <2>2 DEF Limits
<1>9. CASE ClientHeartbeat \/ ClientWrite
  <2>1. ctq' = ctq \/ (Len(ctq) < TxCap /\ \E m \in Nat : ctq' = Append(ctq, m))
    BY <1>1, <1>9, SockLinkAssumption DEF ClientHeartbeat, ClientWrite, Types, Hb
  <2>2. Len(ctq') <= TxCap
    <3>1. CASE ctq' = ctq
      BY <1>1, <3>1 DEF Limits
    <3>2. ASSUME NEW m \in Nat, ctq' = Append(ctq, m), Len(ctq) < TxCap PROVE Len(ctq') <= TxCap
      <4>1. Len(ctq') = Len(ctq) + 1 /\ Len(ctq) \in Nat
        BY <1>2, <3>2, FifoAppend, LenProperties
      <4> QED
        BY <1>3, <3>2, <4>1
    <3> QED
      BY <2>1, <3>1, <3>2
  <2>3. UNCHANGED <<crq, stq, srq, up, down>>
    BY <1>9 DEF ClientHeartbeat, ClientWrite, tcp, server
  <2> QED
    BY <1>1, <2>2, <2>3 DEF Limits
<1>10. ASSUME NEW n \in ConnId, ServerHeartbeat(n) PROVE Limits'
  <2>1. /\ Len(stq[n]) < TxCap /\ stq'[n] = Append(stq[n], Hb)
        /\ \A k \in ConnId : k # n => stq'[k] = stq[k]
    BY <1>2, <1>10 DEF ServerHeartbeat
  <2>2. Len(stq'[n]) = Len(stq[n]) + 1 /\ Len(stq[n]) \in Nat
    <3>1. stq[n] \in Seq(Nat) /\ Hb \in Nat
      BY <1>2 DEF Hb
    <3> QED
      BY <2>1, <3>1, FifoAppend, LenProperties
  <2>3. Len(stq'[n]) <= TxCap
    BY <1>3, <2>1, <2>2
  <2>4. UNCHANGED <<ctq, crq, srq, up, down>>
    BY <1>10 DEF ServerHeartbeat, client, tcp
  <2> QED
    BY <1>1, <2>1, <2>3, <2>4 DEF Limits
<1>11. CASE ServerWrite
  <2>1. ASSUME NEW n \in ConnId PROVE Len(stq'[n]) <= TxCap
    <3>1. \/ stq'[n] = stq[n]
          \/ Len(stq[n]) < TxCap /\ stq'[n] = Append(stq[n], snext)
      BY <1>11 DEF ServerWrite
    <3>2. stq[n] \in Seq(Nat) /\ snext \in Nat /\ Len(stq[n]) <= TxCap
      BY <1>1, SockLinkAssumption DEF Types, Limits
    <3>3. Len(Append(stq[n], snext)) = Len(stq[n]) + 1 /\ Len(stq[n]) \in Nat
      BY <3>2, FifoAppend, LenProperties
    <3>4. CASE stq'[n] = stq[n]
      BY <3>2, <3>4
    <3>5. CASE Len(stq[n]) < TxCap /\ stq'[n] = Append(stq[n], snext)
      <4>1. Len(stq[n]) + 1 <= TxCap
        BY <1>3, <3>3, <3>5
      <4> QED
        BY <3>3, <3>5, <4>1
    <3> QED
      BY <3>1, <3>4, <3>5
  <2>2. UNCHANGED <<ctq, crq, srq, up, down>>
    BY <1>11 DEF ServerWrite, client, tcp
  <2> QED
    BY <1>1, <2>1, <2>2 DEF Limits
<1>12. CASE ClientRead
  <2>1. Len(crq') = Len(crq) - 1 /\ Len(crq) \in Nat
    BY <1>2, <1>12, ToSetTail, LenProperties DEF ClientRead
  <2>2. Len(crq') <= RxCap
    BY <1>1, <1>3, <2>1 DEF Limits
  <2>3. UNCHANGED <<ctq, stq, srq, up, down>>
    BY <1>12 DEF ClientRead, server, tcp
  <2> QED
    BY <1>1, <2>2, <2>3 DEF Limits
<1>13. ASSUME NEW n \in ConnId, ServerRead(n) PROVE Limits'
  <2>1. /\ srq[n] \in Seq(Number) /\ srq[n] # <<>> /\ srq'[n] = Tail(srq[n])
        /\ \A k \in ConnId : k # n => srq'[k] = srq[k]
    BY <1>2, <1>13 DEF ServerRead
  <2>2. Len(srq'[n]) = Len(srq[n]) - 1 /\ Len(srq[n]) \in Nat
    BY <2>1, ToSetTail, LenProperties
  <2>3. Len(srq'[n]) <= RxCap
    BY <1>1, <1>3, <2>2 DEF Limits
  <2>4. UNCHANGED <<ctq, crq, stq, up, down>>
    BY <1>13 DEF ServerRead, client, tcp
  <2> QED
    BY <1>1, <2>1, <2>3, <2>4 DEF Limits
<1>14. ASSUME NEW n \in ConnId, ServerRecv(n) PROVE Limits'
  <2>1. /\ Len(srq'[n]) <= RxCap /\ Len(up'[n]) <= Len(up[n])
        /\ \A k \in ConnId : k # n => up'[k] = up[k] /\ srq'[k] = srq[k]
        /\ up'[n] \in Seq(Legal)
    BY <1>1, <1>14, ServerRecvTypes
  <2>2. Len(up'[n]) <= SockCap
    <3>1. Len(up'[n]) \in Nat /\ Len(up[n]) \in Nat /\ Len(up[n]) <= SockCap
      BY <1>1, <1>2, <2>1, LenProperties DEF Limits
    <3> QED
      BY <1>3, <2>1, <3>1
  <2>3. UNCHANGED <<ctq, crq, stq, down>>
    BY <1>14 DEF ServerRecv, client
  <2> QED
    BY <1>1, <2>1, <2>2, <2>3 DEF Limits
<1>15. CASE ClientRecv
  <2>1. /\ fd \in ConnId /\ Len(crq') <= RxCap /\ Len(down'[fd]) <= Len(down[fd])
        /\ \A n \in ConnId : n # fd => down'[n] = down[n]
        /\ down'[fd] \in Seq(Legal)
    BY <1>1, <1>15, ClientRecvTypes
  <2>2. Len(down'[fd]) <= SockCap
    <3>1. Len(down'[fd]) \in Nat /\ Len(down[fd]) \in Nat /\ Len(down[fd]) <= SockCap
      BY <1>1, <1>2, <2>1, LenProperties DEF Limits
    <3> QED
      BY <1>3, <2>1, <3>1
  <2>3. UNCHANGED <<ctq, stq, srq, up>>
    BY <1>15 DEF ClientRecv, server
  <2> QED
    BY <1>1, <2>1, <2>2, <2>3 DEF Limits
<1>16. ASSUME NEW j, NEW k, ClientSend(j, k) PROVE Limits'
  <2>1. /\ j \in 1 .. Len(ctq) /\ ctq' = Rest(ctq, j) /\ Len(up'[fd]) <= SockCap
        /\ \A n \in ConnId : n # fd => up'[n] = up[n]
    BY <1>1, <1>16, ClientSent
  <2>2. Len(ctq') <= Len(ctq) /\ ctq' \in Seq(Nat)
    BY <1>2, <2>1, BatchOfFifo
  <2>3. Len(ctq') <= TxCap
    BY <1>1, <1>2, <1>3, <2>2, LenProperties DEF Limits
  <2>4. UNCHANGED <<crq, stq, srq, down>>
    BY <1>16 DEF ClientSend, server
  <2> QED
    BY <1>1, <2>1, <2>3, <2>4 DEF Limits
<1>17. ASSUME NEW k, ClientSendTmp(k) PROVE Limits'
  <2>1. Len(up'[fd]) <= SockCap /\ \A n \in ConnId : n # fd => up'[n] = up[n]
    BY <1>1, <1>17, ClientSentTmp
  <2>2. UNCHANGED <<ctq, crq, stq, srq, down>>
    BY <1>17 DEF ClientSendTmp, server
  <2> QED
    BY <1>1, <2>1, <2>2 DEF Limits
<1>18. ASSUME NEW n \in ConnId, NEW j, NEW k, ServerSend(n, j, k) PROVE Limits'
  <2>1. /\ j \in 1 .. Len(stq[n]) /\ stq'[n] = Rest(stq[n], j)
        /\ \A m \in ConnId : m # n => stq'[m] = stq[m]
        /\ \A m \in ConnId : down'[m] = down[m] \/ Len(down'[m]) <= SockCap
    BY <1>1, <1>18, ServerSent
  <2>2. Len(stq'[n]) <= Len(stq[n]) /\ stq'[n] \in Seq(Nat) /\ stq[n] \in Seq(Nat)
    BY <1>2, <2>1, BatchOfFifo
  <2>3. Len(stq'[n]) <= TxCap
    <3>1. Len(stq'[n]) \in Nat /\ Len(stq[n]) \in Nat /\ Len(stq[n]) <= TxCap
      BY <1>1, <2>2, LenProperties DEF Limits
    <3> QED
      BY <1>3, <2>2, <3>1
  <2>4. UNCHANGED <<ctq, crq, srq, up>>
    BY <1>18 DEF ServerSend, client
  <2> QED
    BY <1>1, <2>1, <2>3, <2>4 DEF Limits
<1>19. ASSUME NEW n \in ConnId, NEW k, ServerSendTmp(n, k) PROVE Limits'
  <2>1. \A m \in ConnId : down'[m] = down[m] \/ Len(down'[m]) <= SockCap
    BY <1>1, <1>19, ServerSentTmp
  <2>2. UNCHANGED <<ctq, crq, stq, srq, up>>
    BY <1>19 DEF ServerSendTmp, client
  <2> QED
    BY <1>1, <2>1, <2>2 DEF Limits
<1>20. ASSUME NEW S \in SUBSET ConnId, Released(S) PROVE Limits'
  <2>1. \A n \in ConnId : /\ stq'[n] = stq[n] \/ stq'[n] = <<>>
                          /\ srq'[n] = srq[n] \/ srq'[n] = <<>>
                          /\ up'[n] = up[n] \/ up'[n] = <<>>
    BY <1>20 DEF Released
  <2>2. UNCHANGED <<ctq, crq, down>>
    BY <1>20 DEF Released, client
  <2> QED
    BY <1>1, <1>3, <2>1, <2>2 DEF Limits
<1> QED
  BY <1>5, <1>6, <1>7, <1>8, <1>9, <1>10, <1>11, <1>12, <1>13, <1>14, <1>15, <1>16, <1>17,
     <1>18, <1>19, <1>20, Steps

-----------------------------------------------------------------------------
(* The phases of a connection.                                             *)

\* Data moves on connections that exist, and changes no phase.
LEMMA PhasesTraffic ==
  ASSUME Phases, UNCHANGED <<fd, inprogress, net, peer>>,
         Connected \/ UNCHANGED <<ctmp, cral>>,
         \A n \in ConnId : /\ up'[n] = up[n] \/ net[n] \in {"ok", "cut"}
                           /\ down'[n] = down[n] \/ (fd = n /\ net[n] \in {"ok", "cut"})
                           /\ peer[n] = "none" =>
                                /\ stq'[n] = stq[n] /\ stmp'[n] = stmp[n] /\ sral'[n] = sral[n]
                                /\ srq'[n] = srq[n] /\ sgot'[n] = sgot[n]
  PROVE  Phases'
<1>1. fd' = 0 \/ inprogress' => ctmp' = <<>> /\ cral' = <<>>
  BY DEF Phases, Connected
<1>2. /\ fd' # 0 => net'[fd'] # "none" /\ \A k \in ConnId : k > fd' => net'[k] = "none"
      /\ fd' # 0 /\ ~inprogress' => net'[fd'] \in {"ok", "cut"}
  BY DEF Phases
<1>3. ASSUME NEW n \in ConnId
      PROVE  /\ net'[n] \in {"syn", "refused"} => fd' = n
             /\ net'[n] = "none" => \A k \in ConnId : k > n => net'[k] = "none"
             /\ fd' # n => down'[n] = <<>>
             /\ net'[n] \in {"none", "syn", "refused"} => peer'[n] = "none" /\ up'[n] = <<>> /\ down'[n] = <<>>
             /\ peer'[n] = "none" =>
                  /\ stq'[n] = <<>> /\ stmp'[n] = <<>> /\ sral'[n] = <<>>
                  /\ srq'[n] = <<>> /\ sgot'[n] = <<>>
  BY DEF Phases
<1> QED
  BY <1>1, <1>2, <1>3 DEF Phases

LEMMA PhasesClose ==
  ASSUME Types, Phases, Close(0), UNCHANGED <<up, server, sgot>>
  PROVE  Phases'
<1>1. CASE fd = 0
  BY <1>1 DEF Phases, Close, ClosedNet, server
<1>2. CASE fd # 0
  <2>1. fd \in ConnId /\ fd' = 0 /\ ctmp' = <<>> /\ cral' = <<>>
    BY <1>2, OwnConnection DEF Close
  <2>2. /\ net'[fd] = IF net[fd] \in {"ok", "cut"} THEN "cut" ELSE "none"
        /\ \A n \in ConnId : n # fd => net'[n] = net[n]
        /\ \A n \in ConnId : n # fd => down'[n] = down[n]
        /\ down'[fd] = <<>>
    BY <1>2, <2>1 DEF Types, Close, ClosedNet
  <2>3. ASSUME NEW n \in ConnId
        PROVE  /\ net'[n] \in {"syn", "refused"} => fd' = n
               /\ net'[n] = "none" => \A k \in ConnId : k > n => net'[k] = "none"
               /\ fd' # n => down'[n] = <<>>
               /\ net'[n] \in {"none", "syn", "refused"} => peer'[n] = "none" /\ up'[n] = <<>> /\ down'[n] = <<>>
               /\ peer'[n] = "none" =>
                    /\ stq'[n] = <<>> /\ stmp'[n] = <<>> /\ sral'[n] = <<>>
                    /\ srq'[n] = <<>> /\ sgot'[n] = <<>>
    <3>1. CASE n = fd
      <4>1. \A k \in ConnId : k > fd => net'[k] = "none"
        BY <1>2, <2>1, <2>2 DEF Phases, ConnId
      <4>2. net'[fd] \in {"none", "syn", "refused"} => net[fd] \in {"none", "syn", "refused"}
        BY <2>1, <2>2 DEF Types
      <4> QED
        BY <2>1, <2>2, <3>1, <4>1, <4>2 DEF Phases, server
    <3>2. CASE n # fd
      <4>1. ASSUME net[n] = "none", NEW k \in ConnId, k > n PROVE net'[k] = "none"
        BY <1>2, <2>1, <2>2, <4>1 DEF Phases
      <4> QED
        BY <2>1, <2>2, <3>2, <4>1 DEF Phases, server
    <3> QED
      BY <3>1, <3>2
  <2> QED
    BY <2>1, <2>3 DEF Phases, Close
<1> QED
  BY <1>1, <1>2

LEMMA PhasesReleased ==
  ASSUME Types, Phases, NEW S \in SUBSET ConnId, Released(S), \A n \in S : Linked(n)
  PROVE  Phases'
<1>1. UNCHANGED <<fd, inprogress, ctmp, cral, down, sgot>>
  BY DEF Released, client, users
<1>2. \A n \in ConnId : n \in S => net[n] \in {"ok", "cut"}
  BY DEF Phases, Linked, Types
<1>3. \A n \in ConnId : /\ net'[n] = (IF n \in S THEN "cut" ELSE net[n])
                        /\ peer'[n] = (IF n \in S THEN "gone" ELSE peer[n])
  BY DEF Released
<1>4. \A n \in ConnId : /\ n \in S => up'[n] = <<>>
                        /\ n \notin S => /\ up'[n] = up[n] /\ stq'[n] = stq[n] /\ stmp'[n] = stmp[n]
                                         /\ sral'[n] = sral[n] /\ srq'[n] = srq[n]
  BY DEF Released
<1>5. \A n \in ConnId : net'[n] = net[n] \/ (net[n] \in {"ok", "cut"} /\ net'[n] = "cut")
  BY <1>2, <1>3
<1>6. fd' # 0 => /\ net'[fd'] # "none" /\ \A k \in ConnId : k > fd' => net'[k] = "none"
                 /\ ~inprogress' => net'[fd'] \in {"ok", "cut"}
  BY <1>1, <1>5, OwnConnection DEF Phases
<1>7. ASSUME NEW n \in ConnId
      PROVE  /\ net'[n] \in {"syn", "refused"} => fd' = n
             /\ net'[n] = "none" => \A k \in ConnId : k > n => net'[k] = "none"
             /\ fd' # n => down'[n] = <<>>
             /\ net'[n] \in {"none", "syn", "refused"} => peer'[n] = "none" /\ up'[n] = <<>> /\ down'[n] = <<>>
             /\ peer'[n] = "none" =>
                  /\ stq'[n] = <<>> /\ stmp'[n] = <<>> /\ sral'[n] = <<>>
                  /\ srq'[n] = <<>> /\ sgot'[n] = <<>>
  BY <1>1, <1>3, <1>4, <1>5 DEF Phases
<1> QED
  BY <1>1, <1>6, <1>7 DEF Phases

LEMMA PhasesStep == ASSUME IInv, [Next]_vars PROVE Phases'
<1>1. Types /\ Limits /\ Phases /\ UpFramed /\ DownFramed /\ UpOrdered
  BY DEF IInv
<1>2. /\ net \in [ConnId -> {"none", "syn", "refused", "ok", "cut"}]
      /\ peer \in [ConnId -> {"none", "up", "err", "gone"}]
  BY <1>1 DEF Types
<1>3. \A n \in ConnId : Linked(n) => net[n] \in {"ok", "cut"}
  BY <1>1, <1>2 DEF Phases, Linked
<1>4. Connected => fd \in ConnId /\ net[fd] \in {"ok", "cut"}
  BY <1>1, OwnConnection DEF Phases, Connected
<1>5. ASSUME UNCHANGED <<fd, inprogress, ctmp, cral, tcp, server, sgot>> PROVE Phases'
  BY <1>1, <1>5, PhasesTraffic DEF tcp, server
<1>6. CASE UNCHANGED vars
  BY <1>5, <1>6 DEF vars, tcp, server
<1>7. CASE Tick \/ ClientHeartbeat \/ ClientWrite \/ ClientRead
  BY <1>5, <1>7 DEF Tick, ClientHeartbeat, ClientWrite, ClientRead, users
<1>8. CASE UserClose \/ ClientError
  BY <1>1, <1>8, PhasesClose DEF UserClose, ClientError, users
<1>9. ASSUME NEW S \in SUBSET ConnId, Released(S), \A n \in S : Linked(n) PROVE Phases'
  BY <1>1, <1>9, PhasesReleased
<1>10. ASSUME NEW n \in ConnId, Create(n) PROVE Phases'
  <2>1. CASE UNCHANGED <<fd, inprogress, net>>
    BY <1>1, <1>10, <2>1, PhasesTraffic DEF Create, server, users
  <2>2. CASE fd' = n /\ inprogress' \in BOOLEAN /\ \E r \in {"syn", "ok"} :
               net' = [net EXCEPT ![n] = r] /\ (r = "syn" => inprogress')
    <3>1. PICK r \in {"syn", "ok"} : net' = [net EXCEPT ![n] = r] /\ (r = "syn" => inprogress')
      BY <2>2
    <3>2. net'[n] = r /\ \A k \in ConnId : k # n => net'[k] = net[k]
      BY <1>2, <3>1
    <3>3. fd = 0 /\ net[n] = "none" /\ \A k \in 1 .. n - 1 : net[k] # "none"
      BY <1>10 DEF Create
    <3>4. ctmp = <<>> /\ cral = <<>> /\ \A k \in ConnId : k > n => net[k] = "none"
      BY <1>1, <3>3 DEF Phases
    <3>5. n \in Nat \ {0}
      BY SockLinkAssumption DEF ConnId
    <3>6. UNCHANGED <<ctmp, cral, up, down, server, sgot>>
      BY <1>10 DEF Create, users
    <3>7. \A k \in ConnId : k > n => net'[k] = "none"
      BY <3>2, <3>4, <3>5
    <3>8. ASSUME NEW i \in ConnId
          PROVE  /\ net'[i] \in {"syn", "refused"} => fd' = i
                 /\ net'[i] = "none" => \A k \in ConnId : k > i => net'[k] = "none"
                 /\ fd' # i => down'[i] = <<>>
                 /\ net'[i] \in {"none", "syn", "refused"} => peer'[i] = "none" /\ up'[i] = <<>> /\ down'[i] = <<>>
                 /\ peer'[i] = "none" =>
                      /\ stq'[i] = <<>> /\ stmp'[i] = <<>> /\ sral'[i] = <<>>
                      /\ srq'[i] = <<>> /\ sgot'[i] = <<>>
      <4>1. net'[i] = "none" => i > n
        BY <3>1, <3>2, <3>3, <3>5 DEF ConnId
      <4>2. net'[i] = "none" => \A k \in ConnId : k > i => net'[k] = "none"
        <5>1. ASSUME i > n, NEW k \in ConnId, k > i PROVE k > n
          BY <5>1 DEF ConnId
        <5> QED
          BY <3>7, <4>1, <5>1
      <4>3. net'[i] \in {"syn", "refused"} => i = n
        <5>1. i # n => net[i] \notin {"syn", "refused"}
          BY <1>1, <3>3 DEF Phases, ConnId
        <5> QED
          BY <3>2, <5>1
      <4>4. net'[i] \in {"none", "syn", "refused"} => net[i] \in {"none", "syn", "refused"}
        BY <3>2, <3>3
      <4>5. fd # i
        BY <3>3 DEF ConnId
      <4> QED
        BY <1>1, <2>2, <3>6, <4>2, <4>3, <4>4, <4>5 DEF Phases, server
    <3>9. fd' # 0 => net'[fd'] # "none" /\ \A k \in ConnId : k > fd' => net'[k] = "none"
      BY <2>2, <3>1, <3>2, <3>7
    <3>10. fd' # 0 /\ ~inprogress' => net'[fd'] \in {"ok", "cut"}
      BY <2>2, <3>1, <3>2
    <3> QED
      BY <3>4, <3>6, <3>8, <3>9, <3>10 DEF Phases
  <2> QED
    BY <1>10, <2>1, <2>2 DEF Create
<1>11. CASE CheckEstablished
  <2>1. fd \in ConnId /\ inprogress /\ ctmp = <<>> /\ cral = <<>> /\ net[fd] \in {"ok", "cut", "refused"}
    BY <1>1, <1>2, <1>11, OwnConnection DEF CheckEstablished, Phases
  <2>2. UNCHANGED <<ctmp, cral, up, down, server, sgot>>
    BY <1>11 DEF CheckEstablished, users
  <2>3. CASE net[fd] # "refused"
    <3>1. fd' = fd /\ net' = net /\ inprogress' = FALSE
      BY <1>11, <2>3 DEF CheckEstablished
    <3> QED
      BY <1>1, <2>1, <2>2, <2>3, <3>1 DEF Phases, server
  <2>4. CASE net[fd] = "refused"
    <3>1. /\ fd' = 0 /\ net'[fd] = "none" /\ \A k \in ConnId : k # fd => net'[k] = net[k]
      BY <1>2, <1>11, <2>1, <2>4 DEF CheckEstablished
    <3>2. ASSUME NEW i \in ConnId
          PROVE  /\ net'[i] \in {"syn", "refused"} => fd' = i
                 /\ net'[i] = "none" => \A k \in ConnId : k > i => net'[k] = "none"
                 /\ fd' # i => down'[i] = <<>>
                 /\ net'[i] \in {"none", "syn", "refused"} => peer'[i] = "none" /\ up'[i] = <<>> /\ down'[i] = <<>>
                 /\ peer'[i] = "none" =>
                      /\ stq'[i] = <<>> /\ stmp'[i] = <<>> /\ sral'[i] = <<>>
                      /\ srq'[i] = <<>> /\ sgot'[i] = <<>>
      <4>1. net'[i] \notin {"syn", "refused"}
        BY <1>1, <3>1 DEF Phases
      <4>2. net'[i] = "none" => \A k \in ConnId : k > i => net'[k] = "none"
        <5>1. CASE i = fd
          BY <1>1, <2>1, <3>1, <5>1 DEF Phases, ConnId
        <5>2. CASE i # fd
          <6>1. ASSUME net[i] = "none", NEW k \in ConnId, k > i PROVE net'[k] = "none"
            BY <1>1, <2>1, <3>1, <6>1 DEF Phases
          <6> QED
            BY <3>1, <5>2, <6>1
        <5> QED
          BY <5>1, <5>2
      <4>3. down'[i] = <<>>
        <5>1. CASE i = fd
          BY <1>1, <2>2, <2>4, <5>1 DEF Phases
        <5>2. CASE i # fd
          BY <1>1, <2>2, <5>2 DEF Phases
        <5> QED
          BY <5>1, <5>2
      <4>4. net'[i] \in {"none", "syn", "refused"} => net[i] \in {"none", "syn", "refused"}
        BY <2>4, <3>1
      <4> QED
        BY <1>1, <2>2, <4>1, <4>2, <4>3, <4>4 DEF Phases, server
    <3> QED
      BY <2>1, <2>2, <3>1, <3>2 DEF Phases
  <2> QED
    BY <2>3, <2>4
<1>12. ASSUME NEW n \in ConnId, Accept(n) PROVE Phases'
  <2>1. /\ net[n] \in {"ok", "cut"} /\ peer'[n] = "up" /\ \A k \in ConnId : k # n => peer'[k] = peer[k]
        /\ UNCHANGED <<fd, inprogress, ctmp, cral, net, up, down, stq, stmp, sral, srq, sgot>>
    BY <1>2, <1>12 DEF Accept, client, tcp, users
  <2> QED
    BY <1>1, <2>1 DEF Phases
<1>13. ASSUME NEW n \in ConnId, ServerError(n) PROVE Phases'
  <2>1. /\ peer[n] = "up" /\ peer'[n] = "err" /\ \A k \in ConnId : k # n => peer'[k] = peer[k]
        /\ UNCHANGED <<fd, inprogress, ctmp, cral, net, up, down, stq, stmp, sral, srq, sgot>>
    BY <1>2, <1>13 DEF ServerError, client, tcp, users
  <2> QED
    BY <1>1, <2>1 DEF Phases
<1>14. ASSUME NEW n \in ConnId, Handshake(n) \/ Break(n) PROVE Phases'
  <2>1. /\ net'[n] # "none" /\ net[n] # "none" /\ \A k \in ConnId : k # n => net'[k] = net[k]
        /\ net[n] \in {"ok", "cut"} => net'[n] \in {"ok", "cut"}
        /\ net'[n] = "refused" => net[n] = "syn"
        /\ net'[n] # "syn"
    BY <1>2, <1>14 DEF Handshake, Break
  <2>2. UNCHANGED <<fd, inprogress, ctmp, cral, peer, up, down, stq, stmp, sral, srq, sgot>>
    BY <1>14 DEF Handshake, Break, client, server, users
  <2>3. fd' # 0 => /\ net'[fd'] # "none" /\ \A k \in ConnId : k > fd' => net'[k] = "none"
                   /\ ~inprogress' => net'[fd'] \in {"ok", "cut"}
    BY <1>1, <2>1, <2>2, OwnConnection DEF Phases
  <2>4. ASSUME NEW i \in ConnId
        PROVE  /\ net'[i] \in {"syn", "refused"} => net[i] \in {"syn", "refused"}
               /\ net'[i] = "none" => net[i] = "none"
               /\ net'[i] \in {"none", "syn", "refused"} => net[i] \in {"none", "syn", "refused"}
    BY <2>1
  <2>5. ASSUME NEW i \in ConnId, net'[i] = "none" PROVE \A k \in ConnId : k > i => net'[k] = "none"
    BY <1>1, <2>1, <2>4, <2>5 DEF Phases
  <2> QED
    BY <1>1, <2>2, <2>3, <2>4, <2>5 DEF Phases
<1>15. ASSUME NEW n \in ConnId, ServerHeartbeat(n) \/ ServerRead(n) \/ ServerRecv(n) PROVE Phases'
  <2>1. /\ UNCHANGED <<fd, inprogress, ctmp, cral, net, peer, down, stmp>> /\ Linked(n)
        /\ \A k \in ConnId : k # n => /\ up'[k] = up[k] /\ stq'[k] = stq[k] /\ sral'[k] = sral[k]
                                      /\ srq'[k] = srq[k] /\ sgot'[k] = sgot[k]
    BY <1>1, <1>15 DEF Types, ServerHeartbeat, ServerRead, ServerRecv, Linked, client, tcp, users
  <2> QED
    BY <1>1, <1>3, <2>1, PhasesTraffic DEF Linked
<1>16. CASE ServerWrite
  <2>1. /\ UNCHANGED <<fd, inprogress, ctmp, cral, net, peer, up, down, stmp, sral, srq, sgot>>
        /\ \A k \in ConnId : peer[k] = "none" => stq'[k] = stq[k]
    BY <1>16 DEF ServerWrite, client, tcp
  <2> QED
    BY <1>1, <2>1, PhasesTraffic
<1>17. ASSUME NEW n \in ConnId, NEW j, NEW k, ServerSend(n, j, k) PROVE Phases'
  <2>1. /\ peer[n] = "up" /\ \A m \in ConnId : m # fd \/ m # n => down'[m] = down[m]
        /\ \A m \in ConnId : m # n => stmp'[m] = stmp[m] /\ stq'[m] = stq[m]
    BY <1>1, <1>17, ServerSent
  <2>2. UNCHANGED <<fd, inprogress, ctmp, cral, net, peer, up, sral, srq, sgot>>
    BY <1>17 DEF ServerSend, client, users
  <2>3. net[n] \in {"ok", "cut"}
    BY <1>3, <2>1 DEF Linked
  <2> QED
    BY <1>1, <2>1, <2>2, <2>3, PhasesTraffic
<1>18. ASSUME NEW n \in ConnId, NEW k, ServerSendTmp(n, k) PROVE Phases'
  <2>1. /\ peer[n] = "up" /\ \A m \in ConnId : m # fd \/ m # n => down'[m] = down[m]
        /\ \A m \in ConnId : m # n => stmp'[m] = stmp[m]
    BY <1>1, <1>18, ServerSentTmp
  <2>2. UNCHANGED <<fd, inprogress, ctmp, cral, net, peer, up, stq, sral, srq, sgot>>
    BY <1>18 DEF ServerSendTmp, client, users
  <2>3. net[n] \in {"ok", "cut"}
    BY <1>3, <2>1 DEF Linked
  <2> QED
    BY <1>1, <2>1, <2>2, <2>3, PhasesTraffic
<1>19. ASSUME NEW j, NEW k, ClientSend(j, k) PROVE Phases'
  <2>1. Connected /\ \A n \in ConnId : n # fd => up'[n] = up[n]
    BY <1>1, <1>19, ClientSent DEF ClientSend
  <2>2. UNCHANGED <<fd, inprogress, net, peer, down, stq, stmp, sral, srq, sgot>>
    BY <1>19 DEF ClientSend, server, users
  <2> QED
    BY <1>1, <1>4, <2>1, <2>2, PhasesTraffic
<1>20. ASSUME NEW k, ClientSendTmp(k) PROVE Phases'
  <2>1. Connected /\ \A n \in ConnId : n # fd => up'[n] = up[n]
    BY <1>1, <1>20, ClientSentTmp DEF ClientSendTmp
  <2>2. UNCHANGED <<fd, inprogress, net, peer, down, stq, stmp, sral, srq, sgot>>
    BY <1>20 DEF ClientSendTmp, server, users
  <2> QED
    BY <1>1, <1>4, <2>1, <2>2, PhasesTraffic
<1>21. CASE ClientRecv
  <2>1. Connected /\ \A n \in ConnId : n # fd => down'[n] = down[n]
    BY <1>1, <1>21, ClientRecvTypes DEF ClientRecv
  <2>2. UNCHANGED <<fd, inprogress, net, peer, up, stq, stmp, sral, srq, sgot>>
    BY <1>21 DEF ClientRecv, server, users
  <2> QED
    BY <1>1, <1>4, <2>1, <2>2, PhasesTraffic
<1> QED
  BY <1>6, <1>7, <1>8, <1>9, <1>10, <1>11, <1>12, <1>13, <1>14, <1>15, <1>16, <1>17, <1>18,
     <1>19, <1>20, <1>21, Steps

-----------------------------------------------------------------------------
(* The line to the server.                                                 *)

\* Without a batch in txtmpbuf, and without the client, the line is shorter.
LEMMA LineOf ==
  ASSUME Types, NEW n \in ConnId
  PROVE  /\ UpLine(n) \in Seq(Legal) /\ sral[n] \o up[n] \in Seq(Legal)
         /\ fd # n => UpLine(n) = sral[n] \o up[n]
         /\ fd = n => UpLine(n) = (sral[n] \o up[n]) \o ctmp
<1>1. /\ sral[n] \in Seq(Legal) /\ up[n] \in Seq(Legal) /\ ctmp \in Seq(Legal)
      /\ sral[n] \o up[n] \in Seq(Legal)
  BY ConcatProperties DEF Types
<1>2. CASE fd = n
  <2>1. UpLine(n) = sral[n] \o (up[n] \o ctmp)
    BY <1>2 DEF UpLine, UpWay
  <2>2. sral[n] \o (up[n] \o ctmp) = (sral[n] \o up[n]) \o ctmp
    <3>1. sral[n] \in Seq(Legal) /\ up[n] \in Seq(Legal) /\ ctmp \in Seq(Legal)
      BY <1>1
    <3> QED
      BY <3>1, LineAssociative
  <2> QED
    BY <1>1, <1>2, <2>1, <2>2, ConcatProperties
<1>3. CASE fd # n
  <2>1. up[n] \o <<>> = up[n]
    BY <1>1, ConcatEmptySeq
  <2> QED
    BY <1>1, <1>3, <2>1 DEF UpLine, UpWay
<1> QED
  BY <1>2, <1>3

\* The effects of a step on the line of connection n.
LEMMA CloseLine ==
  ASSUME Types, Close(0), UNCHANGED <<up, sral>>, NEW n \in ConnId
  PROVE  /\ UpLine(n)' = sral[n] \o up[n] /\ UpLine(n)' \in Seq(Legal)
         /\ UpLine(n) = UpLine(n)' \/ UpLine(n) = UpLine(n)' \o ctmp
<1>1. up[n] \in Seq(Legal) /\ up[n] \o <<>> = up[n]
  BY ConcatEmptySeq DEF Types
<1>2. UpLine(n)' = sral[n] \o up[n]
  BY <1>1 DEF Close, UpLine, UpWay
<1> QED
  BY <1>2, LineOf

LEMMA CreateLine ==
  ASSUME Types, Phases, NEW n \in ConnId, NEW k \in ConnId, Create(k)
  PROVE  UpLine(n)' = UpLine(n) /\ (fd' = n => UpLine(n)' = <<>> /\ peer[n] = "none")
<1>1. ctmp' = <<>> /\ up' = up /\ sral' = sral /\ fd = 0 /\ net[k] = "none" /\ (fd' = k \/ fd' = fd)
  BY DEF Create, Phases, server
<1>2. UpLine(n)' = UpLine(n)
  <2>1. fd # n
    BY <1>1 DEF ConnId
  <2>2. UpLine(n) = sral[n] \o (up[n] \o <<>>)
    BY <2>1 DEF UpLine, UpWay
  <2>3. UpLine(n)' = sral[n] \o (up[n] \o <<>>)
    BY <1>1 DEF UpLine, UpWay
  <2> QED
    BY <2>2, <2>3
<1>3. ASSUME fd' = n PROVE UpLine(n)' = <<>> /\ peer[n] = "none"
  <2>1. n = k
    BY <1>1, <1>3 DEF ConnId
  <2>2. peer[n] = "none" /\ up[n] = <<>> /\ sral[n] = <<>>
    BY <1>1, <2>1 DEF Phases
  <2>3. UpLine(n)' = <<>> \o (<<>> \o <<>>)
    BY <1>1, <1>3, <2>2 DEF UpLine, UpWay
  <2> QED
    BY <2>2, <2>3, ConcatEmptySeq
<1> QED
  BY <1>2, <1>3

LEMMA ReleasedLine ==
  ASSUME Types, NEW S \in SUBSET ConnId, Released(S), NEW n \in ConnId
  PROVE  /\ n \notin S => UpLine(n)' = UpLine(n) /\ sral'[n] = sral[n]
         /\ n \in S => /\ UpLine(n)' = <<>> \/ UpLine(n)' = ctmp
                       /\ fd # n => UpLine(n)' = <<>>
                       /\ sral'[n] = <<>>
<1>1. fd' = fd /\ ctmp' = ctmp
  BY DEF Released, client
<1>2. /\ n \in S => up'[n] = <<>> /\ sral'[n] = <<>>
      /\ n \notin S => up'[n] = up[n] /\ sral'[n] = sral[n]
  BY DEF Released
<1>3. ASSUME n \notin S PROVE UpLine(n)' = UpLine(n)
  BY <1>1, <1>2, <1>3 DEF UpLine, UpWay
<1>4. ASSUME n \in S PROVE (UpLine(n)' = <<>> \/ UpLine(n)' = ctmp) /\ (fd # n => UpLine(n)' = <<>>)
  <2>1. UpLine(n)' = <<>> \o (<<>> \o (IF fd = n THEN ctmp ELSE <<>>))
    BY <1>1, <1>2, <1>4 DEF UpLine, UpWay
  <2>2. <<>> \o (<<>> \o ctmp) = ctmp /\ <<>> \o (<<>> \o <<>>) = <<>>
    BY ConcatEmptySeq DEF Types
  <2> QED
    BY <2>1, <2>2
<1> QED
  BY <1>2, <1>3, <1>4

LEMMA UpFramedKept ==
  ASSUME NEW n \in ConnId, UpFramedOn(n), sral'[n] = sral[n], UpLine(n)' = UpLine(n),
         fd' = n => fd = n, peer'[n] \in {"none", "up"} => peer[n] \in {"none", "up"}
  PROVE  UpFramedOn(n)'
BY DEF UpFramedOn

LEMMA UpFramedStep == ASSUME IInv, [Next]_vars PROVE UpFramed'
<1>1. Types /\ Limits /\ Phases /\ UpFramed /\ DownFramed /\ UpOrdered
  BY DEF IInv
<1> SUFFICES ASSUME NEW n \in ConnId PROVE UpFramedOn(n)'
  BY DEF UpFramed
<1>2. UpFramedOn(n)
  BY <1>1 DEF UpFramed
<1>3. ASSUME UNCHANGED <<sral, up, ctmp, fd>>,
             peer'[n] \in {"none", "up"} => peer[n] \in {"none", "up"}
      PROVE  UpFramedOn(n)'
  <2>1. UpLine(n)' = UpLine(n)
    BY <1>3 DEF UpLine, UpWay
  <2> QED
    BY <1>2, <1>3, <2>1, UpFramedKept
<1>4. CASE UNCHANGED vars
  BY <1>3, <1>4 DEF vars
<1>5. CASE Tick \/ ClientHeartbeat \/ ClientWrite \/ ClientRead \/ ClientRecv \/ ServerWrite
  BY <1>3, <1>5 DEF Tick, ClientHeartbeat, ClientWrite, ClientRead, ClientRecv, ServerWrite,
     client, tcp, server
<1>6. ASSUME NEW k \in ConnId, Handshake(k) \/ Break(k) \/ ServerHeartbeat(k) \/ ServerRead(k)
      PROVE  UpFramedOn(n)'
  BY <1>3, <1>6 DEF Handshake, Break, ServerHeartbeat, ServerRead, client, tcp, server
<1>7. ASSUME NEW k \in ConnId, Accept(k) \/ ServerError(k) PROVE UpFramedOn(n)'
  <2>1. peer'[n] = peer[n] \/ (peer[n] = "none" /\ peer'[n] = "up") \/ peer'[n] = "err"
    BY <1>1, <1>7 DEF Accept, ServerError, Types
  <2> QED
    BY <1>3, <1>7, <2>1 DEF Accept, ServerError, client, tcp
<1>8. CASE CheckEstablished
  <2>1. /\ fd \in ConnId /\ (fd' = fd \/ fd' = 0) /\ ctmp = <<>> /\ ctmp' = <<>>
        /\ UNCHANGED <<up, sral, peer>>
    BY <1>1, <1>8, OwnConnection DEF CheckEstablished, Phases, server
  <2>2. UpLine(n)' = UpLine(n)
    BY <2>1 DEF UpLine, UpWay
  <2>3. fd' = n => fd = n
    BY <2>1 DEF ConnId
  <2> QED
    BY <1>2, <2>1, <2>2, <2>3, UpFramedKept
<1>9. CASE UserClose \/ ClientError
  <2>1. Close(0) /\ UNCHANGED <<up, sral, peer>> /\ fd' = 0
    BY <1>9 DEF UserClose, ClientError, server, Close
  <2>2. /\ UpLine(n)' \in Seq(Legal) /\ ctmp \in Seq(Legal)
        /\ UpLine(n) = UpLine(n)' \/ UpLine(n) = UpLine(n)' \o ctmp
    BY <1>1, <2>1, CloseLine DEF Types
  <2>3. Begun(UpLine(n)) => Begun(UpLine(n)')
    BY <2>2, BegunPrefix
  <2>4. fd' # n
    BY <2>1 DEF ConnId
  <2> QED
    BY <1>2, <2>1, <2>3, <2>4 DEF UpFramedOn
<1>10. ASSUME NEW k \in ConnId, Create(k) PROVE UpFramedOn(n)'
  <2>1. UpLine(n)' = UpLine(n) /\ (fd' = n => UpLine(n)' = <<>> /\ peer[n] = "none")
    BY <1>1, <1>10, CreateLine
  <2>2. sral' = sral /\ peer' = peer
    BY <1>10 DEF Create, server
  <2> QED
    BY <1>2, <2>1, <2>2, EmptyWhole DEF UpFramedOn
<1>11. ASSUME NEW S \in SUBSET ConnId, Released(S) PROVE UpFramedOn(n)'
  <2>1. CASE n \in S
    <3>1. peer'[n] = "gone" /\ sral'[n] = <<>>
      BY <1>1, <1>11, <2>1, ReleasedLine DEF Released
    <3> QED
      BY <3>1 DEF UpFramedOn, Pending
  <2>2. CASE n \notin S
    <3>1. peer'[n] = peer[n] /\ sral'[n] = sral[n] /\ UpLine(n)' = UpLine(n) /\ fd' = fd
      BY <1>1, <1>11, <2>2, ReleasedLine DEF Released, client
    <3> QED
      BY <1>2, <3>1, UpFramedKept
  <2> QED
    BY <2>1, <2>2
<1>12. ASSUME NEW j, NEW k, ClientSend(j, k) PROVE UpFramedOn(n)'
  <2>1. UNCHANGED <<sral, peer, fd>>
    BY <1>12 DEF ClientSend, client, server
  <2>2. CASE n # fd
    BY <1>1, <1>2, <1>12, <2>1, <2>2, ClientSent, UpFramedKept
  <2>3. CASE n = fd
    <3>1. UpLine(n)' = UpLine(n) \o Batch(ctq, j) /\ j \in 1 .. Len(ctq) /\ ctq \in Seq(Nat)
      BY <1>1, <1>12, <2>3, ClientSent DEF Types
    <3>2. Batch(ctq, j) \in Seq(Legal) /\ Whole(Batch(ctq, j)) /\ UpLine(n) \in Seq(Legal)
      BY <1>1, <3>1, BatchOfFifo, LineOf
    <3>3. Whole(UpLine(n)) => Whole(UpLine(n)') /\ Begun(UpLine(n)')
      BY <3>1, <3>2, WholeConcat DEF Whole
    <3> QED
      BY <1>2, <2>1, <2>3, <3>3 DEF UpFramedOn
  <2> QED
    BY <2>2, <2>3
<1>13. ASSUME NEW k, ClientSendTmp(k) PROVE UpFramedOn(n)'
  <2>1. UNCHANGED <<sral, peer, fd>>
    BY <1>13 DEF ClientSendTmp, server
  <2> QED
    BY <1>1, <1>2, <1>13, <2>1, ClientSentTmp, UpFramedKept
<1>14. ASSUME NEW k \in ConnId, NEW i, NEW j, ServerSend(k, i, j) \/ ServerSendTmp(k, j)
       PROVE  UpFramedOn(n)'
  BY <1>3, <1>14 DEF ServerSend, ServerSendTmp, client
<1>15. ASSUME NEW k \in ConnId, ServerRecv(k) PROVE UpFramedOn(n)'
  <2>1. CASE n # k
    <3>1. sral'[n] = sral[n] /\ up'[n] = up[n] /\ UNCHANGED <<fd, ctmp, peer>>
      BY <1>1, <1>15, <2>1 DEF ServerRecv, client, Types
    <3>2. UpLine(n)' = UpLine(n)
      BY <3>1 DEF UpLine, UpWay
    <3> QED
      BY <1>2, <3>1, <3>2, UpFramedKept
  <2>2. CASE n = k
    <3> DEFINE r == Aligned(Append(sral[n], Head(up[n])))
    <3>1. Turned(r.rest, r.got, sral[n], UpWay(n)) /\ UpLine(n)' = r.rest \o Tail(UpWay(n))
      BY <1>1, <1>15, <2>2, ServerTurn
    <3>2. sral'[n] = r.rest /\ peer' = peer /\ fd' = fd /\ peer[n] = "up"
      BY <1>1, <1>15, <2>2 DEF ServerRecv, Types, client
    <3> HIDE DEF r
    <3> QED
      BY <1>2, <3>1, <3>2 DEF UpFramedOn, Turned, UpLine
  <2> QED
    BY <2>1, <2>2
<1> QED
  BY <1>4, <1>5, <1>6, <1>7, <1>8, <1>9, <1>10, <1>11, <1>12, <1>13, <1>14, <1>15, Steps

-----------------------------------------------------------------------------
(* The line to the client.                                                 *)

LEMMA DownLineOf ==
  ASSUME Types, fd # 0
  PROVE  /\ fd \in ConnId /\ DownLine \in Seq(Legal) /\ cral \o down[fd] \in Seq(Legal)
         /\ DownLine = (cral \o down[fd]) \o stmp[fd]
<1>1. fd \in ConnId
  BY OwnConnection
<1>2. cral \in Seq(Legal) /\ down[fd] \in Seq(Legal) /\ stmp[fd] \in Seq(Legal)
  BY <1>1 DEF Types
<1>3. cral \o down[fd] \in Seq(Legal)
  BY <1>2, ConcatProperties
<1>4. DownLine = (cral \o down[fd]) \o stmp[fd]
  <2>1. (cral \o down[fd]) \o stmp[fd] = cral \o (down[fd] \o stmp[fd])
    BY <1>2, LineAssociative
  <2> QED
    BY <2>1 DEF DownLine, DownWay
<1> QED
  BY <1>1, <1>2, <1>3, <1>4, ConcatProperties

LEMMA CreateDownLine ==
  ASSUME Types, Phases, NEW k \in ConnId, Create(k), fd' # 0
  PROVE  fd' = k /\ DownLine' = <<>> /\ stq'[k] = <<>> /\ peer'[k] = "none"
<1>1. /\ fd = 0 /\ fd' = k /\ net[k] = "none" /\ cral = <<>>
      /\ UNCHANGED <<cral, down, stmp, stq, peer>>
  BY DEF Create, Phases, server
<1>2. peer[k] = "none" /\ down[k] = <<>>
  BY <1>1 DEF Phases
<1>3. stmp[k] = <<>> /\ stq[k] = <<>>
  BY <1>2 DEF Phases
<1>4. DownLine' = <<>> \o (<<>> \o <<>>)
  BY <1>1, <1>2, <1>3 DEF DownLine, DownWay
<1> QED
  BY <1>1, <1>2, <1>3, <1>4, ConcatEmptySeq

LEMMA ReleasedDownLine ==
  ASSUME Types, fd # 0, NEW S \in SUBSET ConnId, Released(S)
  PROVE  /\ fd \notin S => DownLine' = DownLine
         /\ fd \in S => DownLine' = cral \o down[fd]
<1>1. fd \in ConnId /\ UNCHANGED <<fd, cral, down>> /\ down[fd] \in Seq(Legal)
  BY OwnConnection DEF Released, client, Types
<1>2. stmp'[fd] = IF fd \in S THEN <<>> ELSE stmp[fd]
  BY <1>1 DEF Released
<1>3. CASE fd \notin S
  BY <1>1, <1>2, <1>3 DEF DownLine, DownWay
<1>4. CASE fd \in S
  <2>1. down[fd] \o <<>> = down[fd]
    BY <1>1, ConcatEmptySeq
  <2> QED
    BY <1>1, <1>2, <1>4, <2>1 DEF DownLine, DownWay
<1> QED
  BY <1>3, <1>4

LEMMA DownFramedKept ==
  ASSUME DownFramed, fd' # 0 => fd # 0, cral' = cral,
         fd' # 0 => /\ DownLine' = DownLine
                    /\ peer'[fd'] \in {"none", "up"} => peer[fd] \in {"none", "up"}
  PROVE  DownFramed'
BY DEF DownFramed

LEMMA DownFramedStep == ASSUME IInv, [Next]_vars PROVE DownFramed'
<1>1. Types /\ Limits /\ Phases /\ UpFramed /\ DownFramed /\ UpOrdered
  BY DEF IInv
<1>2. fd # 0 => fd \in ConnId
  BY <1>1, OwnConnection
<1>3. ASSUME UNCHANGED <<cral, down, stmp, fd>>,
             fd # 0 => (peer'[fd] \in {"none", "up"} => peer[fd] \in {"none", "up"})
      PROVE  DownFramed'
  <2>1. DownLine' = DownLine
    BY <1>3 DEF DownLine, DownWay
  <2> QED
    BY <1>1, <1>3, <2>1, DownFramedKept
<1>4. CASE UNCHANGED vars
  BY <1>3, <1>4 DEF vars
<1>5. CASE Tick \/ ClientHeartbeat \/ ClientWrite \/ ClientRead \/ ServerWrite
  BY <1>3, <1>5 DEF Tick, ClientHeartbeat, ClientWrite, ClientRead, ServerWrite, client, tcp, server
<1>6. ASSUME NEW k \in ConnId, Handshake(k) \/ Break(k) \/ ServerHeartbeat(k) \/ ServerRead(k)
                               \/ ServerRecv(k)
      PROVE  DownFramed'
  BY <1>3, <1>6 DEF Handshake, Break, ServerHeartbeat, ServerRead, ServerRecv, client, tcp, server
<1>7. ASSUME NEW k \in ConnId, Accept(k) \/ ServerError(k) PROVE DownFramed'
  <2>1. \A n \in ConnId : peer'[n] \in {"none", "up"} => peer[n] \in {"none", "up"}
    <3>1. \A n \in ConnId : peer'[n] = peer[n] \/ (peer[n] = "none" /\ peer'[n] = "up") \/ peer'[n] = "err"
      BY <1>1, <1>7 DEF Accept, ServerError, Types
    <3> QED
      BY <3>1
  <2> QED
    BY <1>2, <1>3, <1>7, <2>1 DEF Accept, ServerError, client, tcp
<1>8. CASE CheckEstablished
  <2>1. (fd' = fd \/ fd' = 0) /\ UNCHANGED <<cral, down, stmp, peer>>
    BY <1>8 DEF CheckEstablished, server
  <2>2. CASE fd' = fd
    BY <1>3, <2>1, <2>2
  <2>3. CASE fd' = 0
    BY <1>1, <2>1, <2>3, DownFramedKept
  <2> QED
    BY <2>1, <2>2, <2>3
<1>9. CASE UserClose \/ ClientError
  <2>1. fd' = 0 /\ cral' = <<>>
    BY <1>9 DEF UserClose, ClientError, Close
  <2> QED
    BY <2>1 DEF DownFramed, Pending
<1>10. ASSUME NEW k \in ConnId, Create(k) PROVE DownFramed'
  <2>1. fd' # 0 => DownLine' = <<>>
    BY <1>1, <1>10, CreateDownLine
  <2>2. cral' = cral
    BY <1>10 DEF Create
  <2> QED
    BY <1>1, <2>1, <2>2, EmptyWhole DEF DownFramed, Whole
<1>11. ASSUME NEW S \in SUBSET ConnId, Released(S) PROVE DownFramed'
  <2>1. fd' = fd /\ cral' = cral
    BY <1>11 DEF Released, client
  <2>2. CASE fd = 0
    BY <1>1, <2>1, <2>2 DEF DownFramed
  <2>3. CASE fd # 0 /\ fd \notin S
    <3>1. DownLine' = DownLine /\ peer'[fd] = peer[fd]
      BY <1>1, <1>2, <1>11, <2>3, ReleasedDownLine DEF Released
    <3> QED
      BY <1>1, <2>1, <2>3, <3>1, DownFramedKept
  <2>4. CASE fd # 0 /\ fd \in S
    <3>1. DownLine' = cral \o down[fd] /\ peer'[fd] = "gone"
      BY <1>1, <1>2, <1>11, <2>4, ReleasedDownLine DEF Released
    <3>2. /\ DownLine = (cral \o down[fd]) \o stmp[fd] /\ cral \o down[fd] \in Seq(Legal)
          /\ stmp[fd] \in Seq(Legal) /\ Begun(DownLine)
      BY <1>1, <1>2, <2>4, DownLineOf DEF DownFramed, Types
    <3>3. Begun(DownLine')
      BY <3>1, <3>2, BegunPrefix
    <3> QED
      BY <1>1, <2>1, <2>4, <3>1, <3>3 DEF DownFramed
  <2> QED
    BY <2>2, <2>3, <2>4
<1>12. ASSUME NEW j, NEW k, ClientSend(j, k) \/ ClientSendTmp(k) PROVE DownFramed'
  BY <1>3, <1>12 DEF ClientSend, ClientSendTmp, server
<1>13. ASSUME NEW n \in ConnId, NEW j, NEW k, ServerSend(n, j, k) PROVE DownFramed'
  <2>1. UNCHANGED <<fd, cral, peer>> /\ peer[n] = "up"
    BY <1>13 DEF ServerSend, client
  <2>2. CASE fd # n
    BY <1>1, <1>13, <2>1, <2>2, ServerSent, DownFramedKept
  <2>3. CASE fd = n
    <3>1. /\ DownLine' = DownLine \o Batch(stq[n], j) /\ j \in 1 .. Len(stq[n]) /\ stq[n] \in Seq(Nat)
          /\ fd # 0
      <4>1. n # 0
        BY DEF ConnId
      <4>2. DownLine' = DownLine \o Batch(stq[n], j) /\ j \in 1 .. Len(stq[n])
        BY <1>1, <1>13, <2>3, ServerSent
      <4>3. stq[n] \in Seq(Nat)
        BY <1>1 DEF Types
      <4> QED
        BY <2>3, <4>1, <4>2, <4>3
    <3>2. Batch(stq[n], j) \in Seq(Legal) /\ Whole(Batch(stq[n], j)) /\ DownLine \in Seq(Legal)
      BY <1>1, <3>1, BatchOfFifo, DownLineOf
    <3>3. Whole(DownLine) => Whole(DownLine') /\ Begun(DownLine')
      BY <3>1, <3>2, WholeConcat DEF Whole
    <3> QED
      BY <1>1, <2>1, <2>3, <3>1, <3>3 DEF DownFramed
  <2> QED
    BY <2>2, <2>3
<1>14. ASSUME NEW n \in ConnId, NEW k, ServerSendTmp(n, k) PROVE DownFramed'
  <2>1. UNCHANGED <<fd, cral, peer>> /\ (fd # 0 => DownLine' = DownLine)
    BY <1>1, <1>14, ServerSentTmp DEF ServerSendTmp, client
  <2> QED
    BY <1>1, <2>1, DownFramedKept
<1>15. CASE ClientRecv
  <2> DEFINE r == Aligned(Append(cral, Head(down[fd])))
  <2>1. Turned(r.rest, r.got, cral, DownWay) /\ DownLine' = r.rest \o Tail(DownWay)
    BY <1>1, <1>15, ClientTurn
  <2>2. cral' = r.rest /\ UNCHANGED <<fd, peer>> /\ fd # 0
    BY <1>15 DEF ClientRecv, server, Connected
  <2> HIDE DEF r
  <2> QED
    BY <1>1, <2>1, <2>2 DEF DownFramed, Turned, DownLine
<1> QED
  BY <1>4, <1>5, <1>6, <1>7, <1>8, <1>9, <1>10, <1>11, <1>12, <1>13, <1>14, <1>15, Steps

-----------------------------------------------------------------------------
(* The order of what is sent to the server.                                *)

\* A packet gets its connection once.
LEMMA ClientSendVia ==
  ASSUME Types, SentFirst, NEW j, NEW k, ClientSend(j, k)
  PROVE  /\ \A m \in ToSet(First(ctq, j)) : m = Hb \/ (m \in 1 .. UpN /\ via[m] = 0 /\ via'[m] = fd)
         /\ \A m \in 1 .. UpN : m \notin ToSet(First(ctq, j)) => via'[m] = via[m]
         /\ \A m \in 1 .. UpN : via[m] # 0 => via'[m] = via[m]
<1>1. j \in 1 .. Len(ctq) /\ ctq \in Seq(Nat) /\ via \in [1 .. UpN -> 0 .. MaxConn]
  BY DEF ClientSend, Types
<1>2. /\ ToSet(First(ctq, j)) \subseteq ToSet(ctq)
      /\ \A m \in ToSet(First(ctq, j)) : m \in Nat
  BY <1>1, BatchOfFifo, ToSetOfSeq, ElementOfSeq
<1>3. \A m \in 1 .. UpN : via'[m] = IF m \in ToSet(First(ctq, j)) THEN fd ELSE via[m]
  BY <1>1 DEF ClientSend
<1>4. ASSUME NEW m \in ToSet(First(ctq, j)), m # Hb PROVE m \in 1 .. UpN /\ via[m] = 0
  <2>1. m < cnext /\ \A i \in 1 .. UpN : via[i] # 0 => i < m
    BY <1>2, <1>4 DEF SentFirst
  <2>2. m \in Nat \ {0} /\ cnext \in 1 .. UpN + 1 /\ UpN \in Nat
    BY <1>2, <1>4, SockLinkAssumption DEF Types, Hb
  <2>3. m \in 1 .. UpN
    BY <2>1, <2>2
  <2> QED
    BY <2>1, <2>3
<1>5. ASSUME NEW m \in 1 .. UpN, via[m] # 0 PROVE m \notin ToSet(First(ctq, j))
  BY <1>4, <1>5 DEF Hb
<1> QED
  BY <1>3, <1>4, <1>5

LEMMA UpOrderedLess ==
  ASSUME NEW n \in ConnId, UpOrderedOn(n), via' = via, Increasing(sgot'[n] \o srq'[n]),
         UpGot(n)' \subseteq UpGot(n), Sorted(UpLine(n)'),
         ToSet(UpLine(n)') \subseteq ToSet(UpLine(n))
  PROVE  UpOrderedOn(n)'
<1>1. Increasing(sgot[n] \o srq[n])' /\ Sorted(UpLine(n))'
  BY DEF Increasing, Sorted, Ord
<1>2. \A m \in UpGot(n)', x \in ToSet(UpLine(n)') : x[1] = Hb \/ m < x[1]
  BY DEF UpOrderedOn
<1>3. \A m \in UpGot(n)' : m \in 1 .. UpN /\ via'[m] = n
  BY DEF UpOrderedOn
<1>4. \A x \in ToSet(UpLine(n)') : x[1] = Hb \/ (x[1] \in 1 .. UpN /\ via'[x[1]] = n)
  BY DEF UpOrderedOn
<1> QED
  BY <1>1, <1>2, <1>3, <1>4 DEF UpOrderedOn

LEMMA ServerRecvOrder ==
  ASSUME Types, UpFramed, UpOrdered, NEW n \in ConnId, ServerRecv(n)
  PROVE  UpOrderedOn(n)'
<1> DEFINE r == Aligned(Append(sral[n], Head(up[n])))
<1>1. /\ Turned(r.rest, r.got, sral[n], UpWay(n)) /\ UpLine(n)' = r.rest \o Tail(UpWay(n))
      /\ UpWay(n) \in Seq(Legal) /\ UpWay(n) # <<>> /\ Tail(UpWay(n)) \in Seq(Legal)
  BY ServerTurn
<1>2. /\ sgot' = sgot /\ via' = via
      /\ srq'[n] = srq[n] \/ srq'[n] = srq[n] \o r.got
  BY DEF ServerRecv, Types, users
<1> HIDE DEF r
<1>3. UpOrderedOn(n) /\ sgot[n] \in Seq(Number) /\ srq[n] \in Seq(Number) /\ sral[n] \in Seq(Legal)
  BY DEF UpOrdered, Types
<1>4. /\ ToSet(UpWay(n)) = {Head(UpWay(n))} \cup ToSet(Tail(UpWay(n)))
      /\ ToSet(UpLine(n)) = ToSet(sral[n]) \cup ToSet(UpWay(n))
  BY <1>1, <1>3, ToSetTail, ToSetConcat DEF UpLine
<1>5. r.rest \in Seq(Legal) /\ ToSet(r.rest) \subseteq ToSet(sral[n]) \cup {Head(UpWay(n))}
  BY <1>1 DEF Turned
<1>6. ToSet(UpLine(n)') = ToSet(r.rest) \cup ToSet(Tail(UpWay(n)))
  <2> DEFINE a == r.rest
             b == Tail(UpWay(n))
  <2>1. a \in Seq(Legal) /\ b \in Seq(Legal)
    BY <1>1, <1>5
  <2>2. ToSet(a \o b) = ToSet(a) \cup ToSet(b)
    <3> HIDE DEF a, b
    <3> QED
      BY <2>1, ToSetConcat
  <2> QED
    BY <1>1, <2>2
<1>7. ToSet(UpLine(n)') \subseteq ToSet(UpLine(n))
  BY <1>4, <1>5, <1>6
<1>8. Sorted(UpLine(n))
  BY <1>3 DEF UpOrderedOn
<1>9. Sorted(UpLine(n)')
  BY <1>1, <1>8 DEF Turned, UpLine
<1>10. CASE srq'[n] = srq[n]
  <2>1. UpGot(n)' = UpGot(n)
    BY <1>2, <1>10 DEF UpGot
  <2>2. Increasing(sgot'[n] \o srq'[n])
    BY <1>2, <1>3, <1>10 DEF UpOrderedOn
  <2> QED
    BY <1>2, <1>3, <1>7, <1>9, <2>1, <2>2, UpOrderedLess
<1>11. CASE srq'[n] = srq[n] \o r.got /\ r.got = <<>>
  BY <1>3, <1>10, <1>11, ConcatEmptySeq
<1>12. CASE srq'[n] = srq[n] \o r.got /\ r.got # <<>>
  <2>1. PICK m \in Number : /\ r.got = <<m>> /\ r.rest = <<>> /\ <<m, 1>> \in ToSet(sral[n])
                            /\ OrdSets({<<m, 2>>}, ToSet(Tail(UpWay(n))))
    BY <1>1, <1>8, <1>12 DEF Turned, UpLine
  <2>2. <<m, 1>> \in ToSet(UpLine(n)) /\ m # Hb
    BY <1>4, <2>1 DEF Number, Hb
  <2>3. m \in 1 .. UpN /\ via[m] = n /\ \A i \in UpGot(n) : i < m
    BY <1>3, <2>2 DEF UpOrderedOn
  <2>4. Increasing(sgot[n] \o srq[n]) /\ \A i \in ToSet(sgot[n]) \cup ToSet(srq[n]) : i < m
    BY <1>3, <2>3 DEF UpOrderedOn, UpGot
  <2>5. ToSet(srq[n] \o <<m>>) = ToSet(srq[n]) \cup {m} /\ Increasing(sgot[n] \o (srq[n] \o <<m>>))
    BY <1>3, <2>4, IncreasingAppend
  <2>6. srq'[n] = srq[n] \o <<m>> /\ sgot'[n] = sgot[n]
    BY <1>2, <1>12, <2>1
  <2>7. UpGot(n)' = UpGot(n) \cup {m}
    <3>1. UpGot(n)' = ToSet(sgot'[n]) \cup ToSet(srq'[n])
      BY DEF UpGot
    <3> QED
      BY <2>5, <2>6, <3>1 DEF UpGot
  <2>8. ToSet(UpLine(n)') = ToSet(Tail(UpWay(n)))
    <3>1. ToSet(<<>>) = {}
      BY DEF ToSet
    <3> QED
      BY <1>6, <2>1, <3>1
  <2>9. ASSUME NEW x \in ToSet(UpLine(n)') PROVE x[1] = Hb \/ m < x[1]
    <3>1. x \in Legal /\ Ord(<<m, 2>>, x)
      <4>1. x \in Legal
        BY <1>1, <2>8, <2>9, ToSetOfSeq, ElementOfSeq
      <4>2. Ord(<<m, 2>>, x)
        BY <2>1, <2>8, <2>9 DEF OrdSets
      <4> QED
        BY <4>1, <4>2
    <3>2. x[2] \in {1, 2}
      BY <3>1, LegalPiece
    <3> QED
      BY <2>2, <3>1, <3>2 DEF Ord
  <2>10. \A i \in UpGot(n)', x \in ToSet(UpLine(n)') : x[1] = Hb \/ i < x[1]
    BY <1>3, <1>7, <2>7, <2>9 DEF UpOrderedOn
  <2>11. \A i \in UpGot(n)' : i \in 1 .. UpN /\ via'[i] = n
    BY <1>2, <1>3, <2>3, <2>7 DEF UpOrderedOn
  <2>12. \A x \in ToSet(UpLine(n)') : x[1] = Hb \/ (x[1] \in 1 .. UpN /\ via'[x[1]] = n)
    BY <1>2, <1>3, <1>7 DEF UpOrderedOn
  <2>13. Increasing(sgot'[n] \o srq'[n])
    BY <2>5, <2>6
  <2>14. Increasing(sgot[n] \o srq[n])' /\ Sorted(UpLine(n))'
    BY <1>9, <2>13 DEF Increasing, Sorted, Ord
  <2> QED
    BY <2>10, <2>11, <2>12, <2>14 DEF UpOrderedOn
<1> QED
  BY <1>2, <1>10, <1>11, <1>12

LEMMA ClientSendOrder ==
  ASSUME Types, SentFirst, UpOrdered, NEW n \in ConnId, NEW j, NEW k, ClientSend(j, k)
  PROVE  UpOrderedOn(n)'
<1>1. UpOrderedOn(n) /\ UNCHANGED <<sgot, srq>>
  BY DEF UpOrdered, ClientSend, users, server
<1>2. UpGot(n)' = UpGot(n) /\ Increasing(sgot[n] \o srq[n])'
  BY <1>1 DEF UpGot, UpOrderedOn
<1>3. \A m \in 1 .. UpN : via[m] # 0 => via'[m] = via[m]
  BY ClientSendVia
<1>4. n # 0
  BY DEF ConnId
<1>5. \A m \in UpGot(n)' : m \in 1 .. UpN /\ via'[m] = n
  BY <1>1, <1>2, <1>3, <1>4 DEF UpOrderedOn
<1>6. \A x \in ToSet(UpLine(n)) : x[1] = Hb \/ (x[1] \in 1 .. UpN /\ via'[x[1]] = n)
  BY <1>1, <1>3, <1>4 DEF UpOrderedOn
<1>7. CASE n # fd
  <2>1. UpLine(n)' = UpLine(n)
    BY <1>7, ClientSent
  <2> QED
    BY <1>1, <1>2, <1>5, <1>6, <2>1 DEF UpOrderedOn
<1>8. CASE n = fd
  <2> DEFINE b == Batch(ctq, j)
  <2>1. /\ UpLine(n)' = UpLine(n) \o b /\ j \in 1 .. Len(ctq) /\ ctq \in Seq(Nat)
        /\ UpLine(n) \in Seq(Legal)
    BY <1>8, ClientSent, LineOf DEF Types
  <2>2. /\ b \in Seq(Legal) /\ Sorted(b)
        /\ \A x \in ToSet(b) : x[1] \in ToSet(First(ctq, j))
        /\ ToSet(First(ctq, j)) \subseteq ToSet(ctq)
    BY <2>1, BatchOfFifo DEF SentFirst
  <2> HIDE DEF b
  <2>3. ToSet(UpLine(n)') = ToSet(UpLine(n)) \cup ToSet(b)
    BY <2>1, <2>2, ToSetConcat
  <2>4. ASSUME NEW x \in ToSet(b), x[1] # Hb
        PROVE  /\ x[1] \in 1 .. UpN /\ via'[x[1]] = n
               /\ \A i \in 1 .. UpN : via[i] # 0 => i < x[1]
    BY <1>8, <2>2, <2>4, ClientSendVia DEF SentFirst
  <2>5. ASSUME NEW x \in ToSet(UpLine(n)), NEW y \in ToSet(b) PROVE Ord(x, y)
    BY <1>1, <1>4, <2>4 DEF Ord, UpOrderedOn
  <2>6. Sorted(UpLine(n)')
    <3>1. Sorted(UpLine(n) \o b)
      BY <1>1, <2>1, <2>2, <2>5, SortedConcat DEF UpOrderedOn, OrdSets
    <3> QED
      BY <2>1, <3>1
  <2>7. \A m \in UpGot(n)', x \in ToSet(UpLine(n)') : x[1] = Hb \/ m < x[1]
    <3>1. \A m \in UpGot(n), x \in ToSet(b) : x[1] = Hb \/ m < x[1]
      BY <1>1, <1>4, <2>4 DEF UpOrderedOn
    <3> QED
      BY <1>1, <1>2, <2>3, <3>1 DEF UpOrderedOn
  <2>8. \A x \in ToSet(UpLine(n)') : x[1] = Hb \/ (x[1] \in 1 .. UpN /\ via'[x[1]] = n)
    BY <1>6, <2>3, <2>4
  <2>9. Sorted(UpLine(n))'
    BY <2>6 DEF Sorted, Ord
  <2> QED
    BY <1>2, <1>5, <2>7, <2>8, <2>9 DEF UpOrderedOn
<1> QED
  BY <1>7, <1>8

LEMMA UpOrderedStep == ASSUME IInv, [Next]_vars PROVE UpOrdered'
<1>1. Types /\ Phases /\ UpFramed /\ UpOrdered /\ SentFirst
  BY DEF IInv
<1> SUFFICES ASSUME NEW n \in ConnId PROVE UpOrderedOn(n)'
  BY DEF UpOrdered
<1>2. /\ UpOrderedOn(n) /\ sgot[n] \in Seq(Number) /\ srq[n] \in Seq(Number)
      /\ Increasing(sgot[n] \o srq[n]) /\ Sorted(UpLine(n))
  BY <1>1 DEF UpOrdered, UpOrderedOn, Types
<1>3. ASSUME UNCHANGED <<sgot, srq, via>>, Sorted(UpLine(n)'),
             ToSet(UpLine(n)') \subseteq ToSet(UpLine(n))
      PROVE  UpOrderedOn(n)'
  <2>1. UpGot(n)' = UpGot(n) /\ Increasing(sgot'[n] \o srq'[n])
    BY <1>2, <1>3 DEF UpGot
  <2> QED
    BY <1>2, <1>3, <2>1, UpOrderedLess
<1>4. ASSUME UNCHANGED <<sgot, srq, via>>, UpLine(n)' = UpLine(n) PROVE UpOrderedOn(n)'
  BY <1>2, <1>3, <1>4
<1>5. ASSUME UNCHANGED <<sgot, srq, via, sral, up, ctmp, fd>> PROVE UpOrderedOn(n)'
  <2>1. UpLine(n)' = UpLine(n)
    BY <1>5 DEF UpLine, UpWay
  <2> QED
    BY <1>4, <1>5, <2>1
<1>6. CASE UNCHANGED vars
  BY <1>5, <1>6 DEF vars
<1>7. CASE Tick \/ ClientHeartbeat \/ ClientWrite \/ ClientRead \/ ClientRecv \/ ServerWrite
  BY <1>5, <1>7 DEF Tick, ClientHeartbeat, ClientWrite, ClientRead, ClientRecv, ServerWrite,
     client, tcp, server, users
<1>8. ASSUME NEW k \in ConnId,
             Handshake(k) \/ Break(k) \/ ServerHeartbeat(k) \/ Accept(k) \/ ServerError(k)
      PROVE  UpOrderedOn(n)'
  BY <1>5, <1>8 DEF Handshake, Break, ServerHeartbeat, Accept, ServerError, client, tcp, server, users
<1>9. ASSUME NEW k \in ConnId, NEW i, NEW j, ServerSend(k, i, j) \/ ServerSendTmp(k, j)
      PROVE  UpOrderedOn(n)'
  BY <1>5, <1>9 DEF ServerSend, ServerSendTmp, client, users
<1>10. CASE CheckEstablished
  <2>1. ctmp = <<>> /\ UNCHANGED <<sgot, srq, via, up, sral, ctmp>>
    BY <1>1, <1>10 DEF CheckEstablished, Phases, server, users
  <2>2. UpLine(n)' = UpLine(n)
    BY <2>1 DEF UpLine, UpWay
  <2> QED
    BY <1>4, <2>1, <2>2
<1>11. CASE UserClose \/ ClientError
  <2>1. Close(0) /\ UNCHANGED <<sgot, srq, via, up, sral>>
    BY <1>11 DEF UserClose, ClientError, server, users
  <2>2. /\ UpLine(n)' \in Seq(Legal) /\ ctmp \in Seq(Legal)
        /\ UpLine(n) = UpLine(n)' \/ UpLine(n) = UpLine(n)' \o ctmp
    BY <1>1, <2>1, CloseLine DEF Types
  <2>3. Sorted(UpLine(n)') /\ ToSet(UpLine(n)') \subseteq ToSet(UpLine(n))
    <3>1. CASE UpLine(n) = UpLine(n)'
      BY <1>2, <3>1
    <3>2. CASE UpLine(n) = UpLine(n)' \o ctmp
      <4> DEFINE u == UpLine(n)'
      <4>1. u \in Seq(Legal) /\ UpLine(n) = u \o ctmp
        BY <2>2, <3>2
      <4> HIDE DEF u
      <4>2. Sorted(u) /\ ToSet(u) \subseteq ToSet(UpLine(n))
        BY <1>2, <2>2, <4>1, SortedConcat, ToSetConcat
      <4> QED
        BY <4>2 DEF u
    <3> QED
      BY <2>2, <3>1, <3>2
  <2> QED
    BY <1>3, <2>1, <2>3
<1>12. ASSUME NEW k \in ConnId, Create(k) PROVE UpOrderedOn(n)'
  <2>1. UpLine(n)' = UpLine(n) /\ UNCHANGED <<sgot, srq, via>>
    BY <1>1, <1>12, CreateLine DEF Create, server, users
  <2> QED
    BY <1>4, <2>1
<1>13. ASSUME NEW k, ClientSendTmp(k) PROVE UpOrderedOn(n)'
  <2>1. UpLine(n)' = UpLine(n) /\ UNCHANGED <<sgot, srq, via>>
    BY <1>1, <1>13, ClientSentTmp DEF ClientSendTmp, server, users
  <2> QED
    BY <1>4, <2>1
<1>14. ASSUME NEW k \in ConnId, ServerRead(k) PROVE UpOrderedOn(n)'
  <2>1. UpLine(n)' = UpLine(n) /\ via' = via
    BY <1>14 DEF ServerRead, client, tcp, UpLine, UpWay
  <2>2. CASE n # k
    <3>1. sgot'[n] = sgot[n] /\ srq'[n] = srq[n]
      BY <1>1, <1>14, <2>2 DEF ServerRead, Types
    <3>2. UpGot(n)' = UpGot(n) /\ Increasing(sgot'[n] \o srq'[n])
      BY <1>2, <3>1 DEF UpGot
    <3> QED
      BY <1>2, <2>1, <3>2, UpOrderedLess
  <2>3. CASE n = k
    <3>1. srq[n] # <<>> /\ sgot'[n] = Append(sgot[n], Head(srq[n])) /\ srq'[n] = Tail(srq[n])
      BY <1>1, <1>14, <2>3 DEF ServerRead, Types
    <3>2. /\ sgot'[n] \o srq'[n] = sgot[n] \o srq[n]
          /\ ToSet(sgot'[n]) \cup ToSet(srq'[n]) = ToSet(sgot[n]) \cup ToSet(srq[n])
      BY <1>2, <3>1, ReadMoves
    <3>3. UpGot(n)' = UpGot(n) /\ Increasing(sgot'[n] \o srq'[n])
      BY <1>2, <3>2 DEF UpGot
    <3> QED
      BY <1>2, <2>1, <3>3, UpOrderedLess
  <2> QED
    BY <2>2, <2>3
<1>15. ASSUME NEW S \in SUBSET ConnId, Released(S) PROVE UpOrderedOn(n)'
  <2>1. sgot' = sgot /\ via' = via /\ srq'[n] = IF n \in S THEN <<>> ELSE srq[n]
    BY <1>15 DEF Released, users
  <2>2. CASE n \notin S
    <3>1. UpLine(n)' = UpLine(n)
      BY <1>1, <1>15, <2>2, ReleasedLine
    <3>2. UpGot(n)' = UpGot(n) /\ Increasing(sgot'[n] \o srq'[n])
      BY <1>2, <2>1, <2>2 DEF UpGot
    <3> QED
      BY <1>2, <2>1, <3>1, <3>2, UpOrderedLess
  <2>3. CASE n \in S
    <3>1. UpLine(n)' = <<>> \/ (fd = n /\ UpLine(n)' = ctmp)
      BY <1>1, <1>15, <2>3, ReleasedLine
    <3>2. Sorted(UpLine(n)') /\ ToSet(UpLine(n)') \subseteq ToSet(UpLine(n))
      <4>1. CASE UpLine(n)' = <<>>
        BY <4>1, EmptyWhole DEF ToSet
      <4>2. CASE fd = n /\ UpLine(n)' = ctmp
        <5>1. /\ UpLine(n) = (sral[n] \o up[n]) \o ctmp /\ sral[n] \o up[n] \in Seq(Legal)
              /\ ctmp \in Seq(Legal)
          BY <1>1, <4>2, LineOf DEF Types
        <5> DEFINE a == sral[n] \o up[n]
                   u == UpLine(n)
        <5>2. a \in Seq(Legal) /\ ctmp \in Seq(Legal) /\ u = a \o ctmp /\ Sorted(u)
          BY <1>2, <5>1
        <5> HIDE DEF a, u
        <5>3. Sorted(ctmp) /\ ToSet(ctmp) \subseteq ToSet(u)
          BY <5>2, SortedConcat, ToSetConcat
        <5> QED
          BY <4>2, <5>3 DEF u
      <4> QED
        BY <3>1, <4>1, <4>2
    <3>3. Increasing(sgot'[n] \o srq'[n])
      BY <1>2, <2>1, <2>3, IncreasingFirst
    <3>4. UpGot(n)' \subseteq UpGot(n)
      BY <2>1, <2>3 DEF UpGot, ToSet
    <3> QED
      BY <1>2, <2>1, <3>2, <3>3, <3>4, UpOrderedLess
  <2> QED
    BY <2>2, <2>3
<1>16. ASSUME NEW k \in ConnId, ServerRecv(k) PROVE UpOrderedOn(n)'
  <2>1. CASE n = k
    BY <1>1, <1>16, <2>1, ServerRecvOrder
  <2>2. CASE n # k
    <3>1. /\ sral'[n] = sral[n] /\ up'[n] = up[n] /\ srq'[n] = srq[n]
          /\ UNCHANGED <<sgot, via, fd, ctmp>>
      BY <1>1, <1>16, <2>2 DEF ServerRecv, client, users, Types
    <3>2. UpLine(n)' = UpLine(n) /\ UpGot(n)' = UpGot(n) /\ Increasing(sgot'[n] \o srq'[n])
      BY <1>2, <3>1 DEF UpLine, UpWay, UpGot
    <3> QED
      BY <1>2, <3>1, <3>2, UpOrderedLess
  <2> QED
    BY <2>1, <2>2
<1>17. ASSUME NEW j, NEW k, ClientSend(j, k) PROVE UpOrderedOn(n)'
  BY <1>1, <1>17, ClientSendOrder
<1> QED
  BY <1>6, <1>7, <1>8, <1>9, <1>10, <1>11, <1>12, <1>13, <1>14, <1>15, <1>16, <1>17, Steps

-----------------------------------------------------------------------------
(* The order in which packets are written and sent.                        *)

LEMMA SentFirstKept ==
  ASSUME SentFirst, UNCHANGED <<ctq, cnext, via>>,
         \A n \in ConnId : net[n] \in {"ok", "cut"} => net'[n] \in {"ok", "cut"}, Types
  PROVE  SentFirst'
<1>1. InOrder(ctq)' /\ \A m \in ToSet(ctq') : m \in ToSet(ctq)
  BY DEF SentFirst, InOrder
<1>2. \A m \in ToSet(ctq)' : m = Hb \/ (m < cnext' /\ \A k \in 1 .. UpN : via'[k] # 0 => k < m)
  BY DEF SentFirst
<1>3. ASSUME NEW k \in 1 .. UpN, via'[k] # 0 PROVE k < cnext' /\ net'[via'[k]] \in {"ok", "cut"}
  <2>1. via[k] # 0 /\ via[k] \in 0 .. MaxConn
    BY <1>3 DEF Types
  <2>2. via[k] \in ConnId
    BY <2>1, SockLinkAssumption DEF ConnId
  <2> QED
    BY <1>3, <2>1, <2>2 DEF SentFirst
<1>4. \A m, k \in 1 .. UpN : m < k /\ via'[k] # 0 => via'[m] <= via'[k]
  BY DEF SentFirst
<1> QED
  BY <1>1, <1>2, <1>3, <1>4 DEF SentFirst

\* A packet is put behind the others of the fifo.
LEMMA SentFirstWrite ==
  ASSUME Types, SentFirst, NEW m \in Nat, ctq' = Append(ctq, m) \/ ctq' = ctq,
         UNCHANGED <<via, net>>, cnext' \in Nat, cnext <= cnext',
         m = Hb \/ (m = cnext /\ m < cnext')
  PROVE  SentFirst'
<1>1. /\ ctq \in Seq(Nat) /\ InOrder(ctq) /\ cnext \in Nat
      /\ \A a \in ToSet(ctq) : a \in Nat /\ (a = Hb \/ a < cnext)
  BY ToSetOfSeq, ElementOfSeq, SockLinkAssumption DEF Types, SentFirst
<1>2. \A k \in 1 .. UpN : via[k] # 0 => k < cnext
  BY DEF SentFirst
<1>3. ToSet(Append(ctq, m)) = ToSet(ctq) \cup {m}
  BY <1>1, FifoAppend
<1>4. InOrder(Append(ctq, m))
  BY <1>1, FifoAppendOrder
<1>5. InOrder(ctq')
  BY <1>1, <1>4
<1>6. InOrder(ctq)'
  BY <1>5 DEF InOrder
<1>7. ASSUME NEW a \in ToSet(ctq') PROVE a = Hb \/ (a < cnext' /\ \A k \in 1 .. UpN : via'[k] # 0 => k < a)
  <2>1. a \in ToSet(ctq) \/ a = m
    BY <1>3, <1>7
  <2>2. CASE a \in ToSet(ctq)
    <3>1. a = Hb \/ (a < cnext /\ \A k \in 1 .. UpN : via[k] # 0 => k < a)
      BY <2>2 DEF SentFirst
    <3> QED
      BY <1>1, <2>2, <3>1
  <2>3. CASE a = m
    BY <1>2, <2>3
  <2> QED
    BY <2>1, <2>2, <2>3
<1>8. \A k \in 1 .. UpN : via'[k] # 0 => k < cnext' /\ net'[via'[k]] \in {"ok", "cut"}
  BY <1>1 DEF SentFirst
<1>9. \A i, k \in 1 .. UpN : i < k /\ via'[k] # 0 => via'[i] <= via'[k]
  BY DEF SentFirst
<1> QED
  BY <1>6, <1>7, <1>8, <1>9 DEF SentFirst

LEMMA SentFirstSend ==
  ASSUME Types, Phases, SentFirst, NEW j, NEW k, ClientSend(j, k)
  PROVE  SentFirst'
<1> DEFINE F == ToSet(First(ctq, j))
<1>1. /\ ctq \in Seq(Nat) /\ j \in 1 .. Len(ctq) /\ ctq' = Rest(ctq, j)
      /\ fd \in ConnId /\ Connected /\ net' = net /\ cnext' = cnext
  BY ClientSent DEF ClientSend, Types, users
<1>2. net[fd] \in {"ok", "cut"} /\ \A n \in ConnId : n > fd => net[n] = "none"
  BY <1>1 DEF Phases, Connected
<1>3. /\ InOrder(ctq') /\ ToSet(ctq') \subseteq ToSet(ctq) /\ F \subseteq ToSet(ctq)
      /\ \A a \in F, m \in ToSet(ctq') : a = Hb \/ m = Hb \/ a < m
  BY <1>1, BatchOfFifo DEF SentFirst
<1>4. \A m \in F : m = Hb \/ (m \in 1 .. UpN /\ via[m] = 0 /\ via'[m] = fd)
  BY ClientSendVia
<1>5. \A m \in 1 .. UpN : m \notin F => via'[m] = via[m]
  BY ClientSendVia
<1> HIDE DEF F
<1>6. InOrder(ctq)'
  BY <1>3 DEF InOrder
<1>7. ASSUME NEW m \in ToSet(ctq'), m # Hb
      PROVE  m < cnext' /\ \A i \in 1 .. UpN : via'[i] # 0 => i < m
  <2>1. m < cnext' /\ \A i \in 1 .. UpN : via[i] # 0 => i < m
    BY <1>1, <1>3, <1>7 DEF SentFirst
  <2>2. ASSUME NEW i \in 1 .. UpN, via'[i] # 0 PROVE i < m
    <3>1. CASE i \in F
      BY <1>3, <1>7, <3>1 DEF Hb
    <3>2. CASE i \notin F
      BY <1>5, <2>1, <2>2, <3>2
    <3> QED
      BY <3>1, <3>2
  <2> QED
    BY <2>1, <2>2
<1>8. ASSUME NEW i \in 1 .. UpN, via'[i] # 0 PROVE i < cnext' /\ net'[via'[i]] \in {"ok", "cut"}
  <2>1. CASE i \in F
    BY <1>1, <1>2, <1>3, <1>4, <2>1 DEF SentFirst, Hb
  <2>2. CASE i \notin F
    BY <1>1, <1>5, <1>8, <2>2 DEF SentFirst
  <2> QED
    BY <2>1, <2>2
<1>9. ASSUME NEW m \in 1 .. UpN, NEW i \in 1 .. UpN, m < i, via'[i] # 0
      PROVE  via'[m] <= via'[i]
  <2>1. via[m] <= fd
    <3>1. CASE via[m] = 0
      BY <1>1, <3>1, SockLinkAssumption DEF ConnId
    <3>2. CASE via[m] # 0
      <4>1. via[m] \in ConnId /\ net[via[m]] \in {"ok", "cut"}
        <5>1. via[m] \in 0 .. MaxConn
          BY DEF Types
        <5>2. via[m] \in ConnId
          BY <3>2, <5>1, SockLinkAssumption DEF ConnId
        <5> QED
          BY <3>2, <5>2 DEF SentFirst
      <4>2. ~(via[m] > fd)
        BY <1>2, <4>1
      <4> QED
        BY <1>1, <4>1, <4>2, SockLinkAssumption DEF ConnId
    <3> QED
      BY <3>1, <3>2
  <2>2. CASE i \in F
    <3>1. via'[i] = fd /\ (via'[m] = fd \/ via'[m] = via[m])
      BY <1>4, <1>5, <2>2 DEF Hb
    <3> QED
      BY <1>1, <2>1, <3>1, SockLinkAssumption DEF ConnId
  <2>3. CASE i \notin F
    <3>1. via'[i] = via[i] /\ via[i] # 0
      BY <1>5, <1>9, <2>3
    <3>2. m \notin F
      <4>1. ASSUME m \in F PROVE i < m
        BY <1>3, <3>1, <4>1 DEF SentFirst, Hb
      <4> QED
        BY <1>9, <4>1
    <3>3. via'[m] = via[m]
      BY <1>5, <3>2
    <3> QED
      BY <1>9, <3>1, <3>3 DEF SentFirst
  <2> QED
    BY <2>2, <2>3
<1> QED
  BY <1>6, <1>7, <1>8, <1>9 DEF SentFirst

LEMMA SentFirstStep == ASSUME IInv, [Next]_vars PROVE SentFirst'
<1>1. Types /\ Phases /\ UpFramed /\ UpOrdered /\ SentFirst
  BY DEF IInv
<1>2. /\ net \in [ConnId -> {"none", "syn", "refused", "ok", "cut"}]
  BY <1>1 DEF Types
<1>3. ASSUME UNCHANGED <<ctq, cnext, via, net>> PROVE SentFirst'
  BY <1>1, <1>3, SentFirstKept
<1>4. CASE UNCHANGED vars
  BY <1>3, <1>4 DEF vars
<1>5. CASE Tick \/ ClientRead \/ ClientRecv \/ ServerWrite
  BY <1>3, <1>5 DEF Tick, ClientRead, ClientRecv, ServerWrite, client, tcp, server, users
<1>6. ASSUME NEW n \in ConnId,
             ServerHeartbeat(n) \/ Accept(n) \/ ServerError(n) \/ ServerRead(n) \/ ServerRecv(n)
      PROVE  SentFirst'
  BY <1>3, <1>6 DEF ServerHeartbeat, Accept, ServerError, ServerRead, ServerRecv, client, tcp, users
<1>7. ASSUME NEW n \in ConnId, NEW i, NEW j, ServerSend(n, i, j) \/ ServerSendTmp(n, j)
      PROVE  SentFirst'
  BY <1>3, <1>7 DEF ServerSend, ServerSendTmp, client, users
<1>8. ASSUME NEW k, ClientSendTmp(k) PROVE SentFirst'
  BY <1>3, <1>8 DEF ClientSendTmp, users
<1>9. ASSUME UNCHANGED <<ctq, cnext, via>>,
             \A n \in ConnId : net'[n] = net[n] \/ net'[n] = "cut" \/ net[n] \notin {"ok", "cut"}
      PROVE  SentFirst'
  <2>1. \A n \in ConnId : net[n] \in {"ok", "cut"} => net'[n] \in {"ok", "cut"}
    BY <1>9
  <2> QED
    BY <1>1, <1>9, <2>1, SentFirstKept
<1>10. ASSUME NEW n \in ConnId, Handshake(n) \/ Break(n) PROVE SentFirst'
  <2>1. \A k \in ConnId : net'[k] = net[k] \/ net'[k] = "cut" \/ net[k] \notin {"ok", "cut"}
    BY <1>2, <1>10 DEF Handshake, Break
  <2> QED
    BY <1>9, <1>10, <2>1 DEF Handshake, Break, client, users
<1>11. CASE CheckEstablished
  <2>1. \A k \in ConnId : net'[k] = net[k] \/ net'[k] = "cut" \/ net[k] \notin {"ok", "cut"}
    BY <1>2, <1>11 DEF CheckEstablished
  <2> QED
    BY <1>9, <1>11, <2>1 DEF CheckEstablished, users
<1>12. CASE UserClose \/ ClientError
  <2>1. \A k \in ConnId : net'[k] = net[k] \/ net'[k] = "cut" \/ net[k] \notin {"ok", "cut"}
    BY <1>2, <1>12 DEF UserClose, ClientError, Close, ClosedNet
  <2> QED
    BY <1>9, <1>12, <2>1 DEF UserClose, ClientError, Close, users
<1>13. ASSUME NEW n \in ConnId, Create(n) PROVE SentFirst'
  <2>1. \A k \in ConnId : net'[k] = net[k] \/ net'[k] = "cut" \/ net[k] \notin {"ok", "cut"}
    BY <1>2, <1>13 DEF Create
  <2> QED
    BY <1>9, <1>13, <2>1 DEF Create, users
<1>14. ASSUME NEW S \in SUBSET ConnId, Released(S) PROVE SentFirst'
  <2>1. \A k \in ConnId : net'[k] = net[k] \/ net'[k] = "cut" \/ net[k] \notin {"ok", "cut"}
    BY <1>14 DEF Released
  <2> QED
    BY <1>9, <1>14, <2>1 DEF Released, client, users
<1>15. CASE ClientHeartbeat
  <2>1. Hb \in Nat /\ ctq' = Append(ctq, Hb) /\ UNCHANGED <<via, net, cnext>>
    BY <1>15 DEF ClientHeartbeat, Hb, tcp, users
  <2>2. cnext \in Nat
    BY <1>1, SockLinkAssumption DEF Types
  <2> QED
    BY <1>1, <2>1, <2>2, SentFirstWrite
<1>16. CASE ClientWrite
  <2>1. cnext \in Nat /\ cnext' = cnext + 1
    BY <1>1, <1>16, SockLinkAssumption DEF Types, ClientWrite
  <2>2. cnext' \in Nat /\ cnext <= cnext' /\ cnext < cnext'
    BY <2>1
  <2>3. (ctq' = Append(ctq, cnext) \/ ctq' = ctq) /\ UNCHANGED <<via, net>>
    BY <1>16 DEF ClientWrite, tcp
  <2> QED
    BY <1>1, <2>1, <2>2, <2>3, SentFirstWrite
<1>17. ASSUME NEW j, NEW k, ClientSend(j, k) PROVE SentFirst'
  BY <1>1, <1>17, SentFirstSend
<1> QED
  BY <1>4, <1>5, <1>6, <1>7, <1>8, <1>10, <1>11, <1>12, <1>13, <1>14, <1>15, <1>16, <1>17, Steps

-----------------------------------------------------------------------------
(* The order of what is sent to the client.                                *)

\* The line and the fifo of the connection may get shorter.
LEMMA DownLinedLess ==
  ASSUME DownLined, fd' # 0 => fd # 0, snext' = snext, DownGot' \subseteq DownGot,
         fd' # 0 => /\ Sorted(DownLine') /\ ToSet(DownLine') \subseteq ToSet(DownLine)
                    /\ ToSet(stq'[fd']) \subseteq ToSet(stq[fd])
  PROVE  DownLined'
<1> SUFFICES ASSUME fd' # 0
             PROVE  /\ Sorted(DownLine)'
                    /\ \A x \in ToSet(DownLine') : x[1] < snext'
                    /\ \A m \in DownGot', x \in ToSet(DownLine') : x[1] = Hb \/ m < x[1]
                    /\ \A m \in DownGot', p \in ToSet(stq'[fd']) : p = Hb \/ m < p
                    /\ \A x \in ToSet(DownLine'), p \in ToSet(stq'[fd']) :
                         x[1] = Hb \/ p = Hb \/ x[1] < p
  BY DEF DownLined
<1>1. Sorted(DownLine)'
  BY DEF Sorted, Ord
<1> QED
  BY <1>1 DEF DownLined

LEMMA DownKeptLess ==
  ASSUME NEW n \in ConnId, DownKept(n), snext' = snext, InOrder(stq'[n]),
         ToSet(stq'[n]) \subseteq ToSet(stq[n]),
         \A x \in ToSet(stmp'[n]) : x[1] < snext
  PROVE  DownKept(n)'
BY DEF DownKept, InOrder

LEMMA DownKeptStep == ASSUME IInv, [Next]_vars, NEW n \in ConnId PROVE DownKept(n)'
<1>1. Types /\ Phases /\ DownOrdered /\ DownKept(n)
  BY DEF IInv, DownOrdered
<1>2. /\ stq \in [ConnId -> Seq(Nat)] /\ stmp \in [ConnId -> Seq(Legal)] /\ stq[n] \in Seq(Nat)
      /\ snext \in Nat /\ InOrder(stq[n])
      /\ \A m \in ToSet(stq[n]) : m < snext
      /\ \A x \in ToSet(stmp[n]) : x[1] < snext
  BY <1>1, SockLinkAssumption DEF Types, DownKept
<1>3. ASSUME stq'[n] = stq[n], stmp'[n] = stmp[n], snext' = snext PROVE DownKept(n)'
  BY <1>1, <1>2, <1>3, DownKeptLess
<1>4. ASSUME UNCHANGED <<stq, stmp, snext>> PROVE DownKept(n)'
  BY <1>3, <1>4
<1>5. CASE UNCHANGED vars
  BY <1>4, <1>5 DEF vars
<1>6. CASE \/ Tick \/ ClientHeartbeat \/ ClientWrite \/ ClientRead \/ ClientRecv
           \/ CheckEstablished \/ UserClose \/ ClientError
  BY <1>4, <1>6 DEF Tick, ClientHeartbeat, ClientWrite, ClientRead, ClientRecv, CheckEstablished,
     UserClose, ClientError, server, users
<1>7. ASSUME NEW k \in ConnId, \/ Create(k) \/ Handshake(k) \/ Break(k) \/ Accept(k)
                               \/ ServerError(k) \/ ServerRead(k) \/ ServerRecv(k)
      PROVE  DownKept(n)'
  BY <1>4, <1>7 DEF Create, Handshake, Break, Accept, ServerError, ServerRead, ServerRecv, server, users
<1>8. ASSUME NEW i, NEW j, ClientSend(i, j) \/ ClientSendTmp(j) PROVE DownKept(n)'
  BY <1>4, <1>8 DEF ClientSend, ClientSendTmp, server, users
<1>9. ASSUME NEW S \in SUBSET ConnId, Released(S) PROVE DownKept(n)'
  <2>1. /\ stq'[n] = stq[n] \/ stq'[n] = <<>>
        /\ stmp'[n] = stmp[n] \/ stmp'[n] = <<>>
        /\ snext' = snext
    BY <1>9 DEF Released, users
  <2>2. InOrder(<<>>) /\ ToSet(<<>>) = {}
    BY DEF InOrder, ToSet
  <2> QED
    BY <1>1, <1>2, <2>1, <2>2, DownKeptLess
<1>10. ASSUME NEW k \in ConnId, ServerHeartbeat(k) PROVE DownKept(n)'
  <2>1. stmp' = stmp /\ snext' = snext /\ (stq'[n] = stq[n] \/ stq'[n] = Append(stq[n], Hb))
    BY <1>2, <1>10 DEF ServerHeartbeat, users
  <2>2. CASE stq'[n] = stq[n]
    BY <1>3, <2>1, <2>2
  <2>3. CASE stq'[n] = Append(stq[n], Hb)
    <3>1. Hb \in Nat /\ Hb < snext
      BY <1>1, SockLinkAssumption DEF Types, Hb
    <3>2. InOrder(stq'[n]) /\ ToSet(stq'[n]) = ToSet(stq[n]) \cup {Hb}
      BY <1>2, <2>3, <3>1, FifoAppendOrder
    <3> QED
      BY <1>2, <2>1, <3>1, <3>2 DEF DownKept, InOrder
  <2> QED
    BY <2>1, <2>2, <2>3
<1>11. CASE ServerWrite
  <2>1. /\ stmp' = stmp /\ snext' = snext + 1
        /\ stq'[n] = stq[n] \/ stq'[n] = Append(stq[n], snext)
    BY <1>11 DEF ServerWrite
  <2>2. \A x \in ToSet(stmp'[n]) : x[1] < snext'
    <3>1. \A x \in ToSet(stmp[n]) : x[1] \in Nat
      <4>1. \A x \in ToSet(stmp[n]) : x \in Legal
        BY <1>2, ToSetOfSeq, ElementOfSeq
      <4> QED
        BY <4>1, LegalPiece
    <3> QED
      BY <1>2, <2>1, <3>1
  <2>3. InOrder(Append(stq[n], snext)) /\ ToSet(Append(stq[n], snext)) = ToSet(stq[n]) \cup {snext}
    BY <1>2, FifoAppendOrder
  <2>4. InOrder(stq'[n]) /\ \A m \in ToSet(stq'[n]) : m < snext'
    <3>1. \A m \in ToSet(stq[n]) : m \in Nat
      BY <1>2, ToSetOfSeq, ElementOfSeq
    <3>2. \A m \in ToSet(stq'[n]) : m \in ToSet(stq[n]) \/ m = snext
      BY <2>1, <2>3
    <3>3. \A m \in ToSet(stq'[n]) : m < snext'
      BY <1>2, <2>1, <3>1, <3>2
    <3> QED
      BY <1>2, <2>1, <2>3, <3>3
  <2> QED
    BY <2>2, <2>4 DEF DownKept, InOrder
<1>12. ASSUME NEW k \in ConnId, NEW i, NEW j, ServerSend(k, i, j) PROVE DownKept(n)'
  <2>1. snext' = snext
    BY <1>12 DEF ServerSend, users
  <2>2. CASE n # k
    BY <1>1, <1>3, <1>12, <2>1, <2>2, ServerSent
  <2>3. CASE n = k
    <3>1. /\ i \in 1 .. Len(stq[n]) /\ stq'[n] = Rest(stq[n], i)
          /\ ToSet(stmp'[n]) \subseteq ToSet(Batch(stq[n], i))
      BY <1>1, <1>12, <2>3, ServerSent
    <3>2. /\ InOrder(stq'[n]) /\ ToSet(stq'[n]) \subseteq ToSet(stq[n])
          /\ \A x \in ToSet(Batch(stq[n], i)) : x[1] \in ToSet(stq[n])
      BY <1>2, <3>1, BatchOfFifo
    <3> QED
      BY <1>1, <1>2, <2>1, <3>1, <3>2, DownKeptLess
  <2> QED
    BY <2>2, <2>3
<1>13. ASSUME NEW k \in ConnId, NEW j, ServerSendTmp(k, j) PROVE DownKept(n)'
  <2>1. snext' = snext /\ stq' = stq
    BY <1>13 DEF ServerSendTmp, users
  <2>2. ToSet(stmp'[n]) \subseteq ToSet(stmp[n])
    BY <1>1, <1>13, ServerSentTmp
  <2> QED
    BY <1>1, <1>2, <2>1, <2>2, DownKeptLess
<1> QED
  BY <1>5, <1>6, <1>7, <1>8, <1>9, <1>10, <1>11, <1>12, <1>13, Steps

LEMMA ClientRecvOrder ==
  ASSUME Types, DownFramed, DownOrdered, ClientRecv
  PROVE  DownRead' /\ DownLined'
<1> DEFINE r == Aligned(Append(cral, Head(down[fd])))
<1>1. /\ Turned(r.rest, r.got, cral, DownWay) /\ DownLine' = r.rest \o Tail(DownWay)
      /\ DownWay \in Seq(Legal) /\ DownWay # <<>> /\ Tail(DownWay) \in Seq(Legal)
  BY ClientTurn
<1>2. /\ UNCHANGED <<cgot, snext, stq, fd>> /\ fd # 0 /\ fd \in ConnId
      /\ crq' = crq \/ crq' = crq \o r.got
  BY OwnConnection DEF ClientRecv, users, server, Connected
<1> HIDE DEF r
<1>3. /\ DownRead /\ DownLined /\ cgot \in Seq(Number) /\ crq \in Seq(Number) /\ cral \in Seq(Legal)
      /\ snext \in Nat
  BY SockLinkAssumption DEF DownOrdered, Types
<1>4. /\ ToSet(DownWay) = {Head(DownWay)} \cup ToSet(Tail(DownWay))
      /\ ToSet(DownLine) = ToSet(cral) \cup ToSet(DownWay)
  BY <1>1, <1>3, ToSetTail, ToSetConcat DEF DownLine
<1>5. r.rest \in Seq(Legal) /\ ToSet(r.rest) \subseteq ToSet(cral) \cup {Head(DownWay)}
  BY <1>1 DEF Turned
<1>6. ToSet(DownLine') = ToSet(r.rest) \cup ToSet(Tail(DownWay))
  <2> DEFINE a == r.rest
             b == Tail(DownWay)
  <2>1. a \in Seq(Legal) /\ b \in Seq(Legal)
    BY <1>1, <1>5
  <2>2. ToSet(a \o b) = ToSet(a) \cup ToSet(b)
    <3> HIDE DEF a, b
    <3> QED
      BY <2>1, ToSetConcat
  <2> QED
    BY <1>1, <2>2
<1>7. ToSet(DownLine') \subseteq ToSet(DownLine)
  BY <1>4, <1>5, <1>6
<1>8. Sorted(DownLine)
  BY <1>2, <1>3 DEF DownLined
<1>9. Sorted(DownLine')
  BY <1>1, <1>8 DEF Turned, DownLine
<1>10. CASE crq' = crq
  <2>1. DownGot' = DownGot /\ DownRead'
    BY <1>2, <1>3, <1>10 DEF DownGot, DownRead, Increasing
  <2> QED
    BY <1>2, <1>3, <1>7, <1>9, <2>1, DownLinedLess
<1>11. CASE crq' = crq \o r.got /\ r.got = <<>>
  BY <1>3, <1>10, <1>11, ConcatEmptySeq
<1>12. CASE crq' = crq \o r.got /\ r.got # <<>>
  <2>1. PICK m \in Number : /\ r.got = <<m>> /\ r.rest = <<>> /\ <<m, 1>> \in ToSet(cral)
                            /\ OrdSets({<<m, 2>>}, ToSet(Tail(DownWay)))
    BY <1>1, <1>8, <1>12 DEF Turned, DownLine
  <2>2. <<m, 1>> \in ToSet(DownLine) /\ m # Hb /\ <<m, 1>>[1] = m
    BY <1>4, <2>1 DEF Number, Hb
  <2>3. /\ m < snext /\ \A i \in DownGot : i < m
        /\ \A p \in ToSet(stq[fd]) : p = Hb \/ m < p
    BY <1>2, <1>3, <2>2 DEF DownLined
  <2>4. Increasing(cgot \o crq) /\ \A i \in ToSet(cgot) \cup ToSet(crq) : i < m
    BY <1>3, <2>3 DEF DownRead, DownGot
  <2>5. ToSet(crq \o <<m>>) = ToSet(crq) \cup {m} /\ Increasing(cgot \o (crq \o <<m>>))
    BY <1>3, <2>4, IncreasingAppend
  <2>6. crq' = crq \o <<m>> /\ cgot' = cgot
    BY <1>2, <1>12, <2>1
  <2>7. DownGot' = DownGot \cup {m}
    <3>1. DownGot' = ToSet(cgot') \cup ToSet(crq')
      BY DEF DownGot
    <3> QED
      BY <2>5, <2>6, <3>1 DEF DownGot
  <2>8. ToSet(DownLine') = ToSet(Tail(DownWay))
    <3>1. ToSet(<<>>) = {}
      BY DEF ToSet
    <3> QED
      BY <1>6, <2>1, <3>1
  <2>9. ASSUME NEW x \in ToSet(DownLine') PROVE x[1] = Hb \/ m < x[1]
    <3>1. x \in Legal
      BY <1>1, <2>8, <2>9, ToSetOfSeq, ElementOfSeq
    <3>2. Ord(<<m, 2>>, x)
      BY <2>1, <2>8, <2>9 DEF OrdSets
    <3>3. x[2] \in {1, 2}
      BY <3>1, LegalPiece
    <3> QED
      BY <2>2, <3>2, <3>3 DEF Ord
  <2>10. DownRead'
    <3>1. Increasing(cgot' \o crq') /\ \A i \in DownGot' : i < snext'
      BY <1>2, <1>3, <2>3, <2>5, <2>6, <2>7 DEF DownRead
    <3> QED
      BY <3>1 DEF DownRead, Increasing
  <2>11. /\ \A x \in ToSet(DownLine') : x[1] < snext'
         /\ \A i \in DownGot', x \in ToSet(DownLine') : x[1] = Hb \/ i < x[1]
         /\ \A i \in DownGot', p \in ToSet(stq'[fd']) : p = Hb \/ i < p
         /\ \A x \in ToSet(DownLine'), p \in ToSet(stq'[fd']) : x[1] = Hb \/ p = Hb \/ x[1] < p
    BY <1>2, <1>3, <1>7, <2>3, <2>7, <2>9 DEF DownLined
  <2>12. Sorted(DownLine)'
    BY <1>9 DEF Sorted, Ord
  <2>13. DownLined'
    BY <2>11, <2>12 DEF DownLined
  <2> QED
    BY <2>10, <2>13
<1> QED
  BY <1>2, <1>10, <1>11, <1>12

\* A batch of the server on the connection of the client.
LEMMA ServerSendOrder ==
  ASSUME Types, DownOrdered, NEW n \in ConnId, NEW i, NEW j, ServerSend(n, i, j), fd = n
  PROVE  DownLined'
<1> DEFINE b == Batch(stq[n], i)
<1>1. /\ UNCHANGED <<cgot, crq, snext, fd>> /\ fd # 0
  BY DEF ServerSend, users, client, ConnId
<1>2. /\ i \in 1 .. Len(stq[n]) /\ stq'[n] = Rest(stq[n], i) /\ DownLine' = DownLine \o b
  BY ServerSent
<1>3. /\ stq[n] \in Seq(Nat) /\ DownLine \in Seq(Legal) /\ DownLined /\ DownKept(n)
  BY <1>1, DownLineOf DEF Types, DownOrdered
<1>4. /\ b \in Seq(Legal) /\ Sorted(b) /\ \A x \in ToSet(b) : x[1] \in ToSet(stq[n])
      /\ \A x \in ToSet(b), p \in ToSet(stq'[n]) : x[1] = Hb \/ p = Hb \/ x[1] < p
      /\ ToSet(stq'[n]) \subseteq ToSet(stq[n])
  BY <1>2, <1>3, BatchOfFifo DEF DownKept
<1> HIDE DEF b
<1>5. ToSet(DownLine') = ToSet(DownLine) \cup ToSet(b)
  BY <1>2, <1>3, <1>4, ToSetConcat
<1>6. ASSUME NEW x \in ToSet(DownLine), NEW y \in ToSet(b) PROVE Ord(x, y)
  BY <1>1, <1>3, <1>4 DEF Ord, DownLined
<1>7. Sorted(DownLine')
  <2>1. Sorted(DownLine \o b)
    BY <1>1, <1>3, <1>4, <1>6, SortedConcat DEF DownLined, OrdSets
  <2> QED
    BY <1>2, <2>1
<1>8. DownGot' = DownGot
  BY <1>1 DEF DownGot
<1>9. /\ \A x \in ToSet(DownLine') : x[1] < snext'
      /\ \A m \in DownGot', x \in ToSet(DownLine') : x[1] = Hb \/ m < x[1]
      /\ \A m \in DownGot', p \in ToSet(stq'[fd']) : p = Hb \/ m < p
      /\ \A x \in ToSet(DownLine'), p \in ToSet(stq'[fd']) : x[1] = Hb \/ p = Hb \/ x[1] < p
  BY <1>1, <1>3, <1>4, <1>5, <1>8 DEF DownLined, DownKept
<1>10. Sorted(DownLine)'
  BY <1>7 DEF Sorted, Ord
<1> QED
  BY <1>9, <1>10 DEF DownLined

LEMMA DownReadStep == ASSUME IInv, [Next]_vars PROVE DownRead'
<1>1. Types /\ DownFramed /\ DownOrdered /\ DownRead /\ snext \in Nat
  BY SockLinkAssumption DEF IInv, DownOrdered, Types
<1>2. ASSUME UNCHANGED <<cgot, crq, snext>> PROVE DownRead'
  BY <1>1, <1>2 DEF DownRead, DownGot, Increasing
<1>3. CASE UNCHANGED vars
  BY <1>2, <1>3 DEF vars
<1>4. CASE \/ Tick \/ ClientHeartbeat \/ ClientWrite \/ CheckEstablished \/ UserClose \/ ClientError
  BY <1>2, <1>4 DEF Tick, ClientHeartbeat, ClientWrite, CheckEstablished, UserClose, ClientError,
     Close, users
<1>5. ASSUME NEW k \in ConnId,
             \/ Create(k) \/ Handshake(k) \/ Break(k) \/ Accept(k) \/ ServerHeartbeat(k)
             \/ ServerError(k) \/ ServerRead(k) \/ ServerRecv(k)
      PROVE  DownRead'
  BY <1>2, <1>5 DEF Create, Handshake, Break, Accept, ServerHeartbeat, ServerError, ServerRead,
     ServerRecv, client, users
<1>6. ASSUME NEW i, NEW j, ClientSend(i, j) \/ ClientSendTmp(j) PROVE DownRead'
  BY <1>2, <1>6 DEF ClientSend, ClientSendTmp, users
<1>7. ASSUME NEW S \in SUBSET ConnId, Released(S) PROVE DownRead'
  BY <1>2, <1>7 DEF Released, client, users
<1>8. ASSUME NEW n \in ConnId, NEW i, NEW j, ServerSend(n, i, j) \/ ServerSendTmp(n, j)
      PROVE  DownRead'
  BY <1>2, <1>8 DEF ServerSend, ServerSendTmp, client, users
<1>9. CASE ServerWrite
  <2>1. snext' = snext + 1 /\ UNCHANGED <<cgot, crq>>
    BY <1>9 DEF ServerWrite, client
  <2>2. \A m \in DownGot : m \in Nat
    <3>1. cgot \in Seq(Number) /\ crq \in Seq(Number)
      BY <1>1 DEF Types
    <3>2. ToSet(cgot) \subseteq Number /\ ToSet(crq) \subseteq Number
      BY <3>1, ToSetOfSeq, ElementOfSeq
    <3> QED
      BY <3>2 DEF DownGot, Number
  <2>3. \A m \in DownGot : m < snext'
    BY <1>1, <2>1, <2>2 DEF DownRead
  <2> QED
    BY <1>1, <2>1, <2>3 DEF DownRead, DownGot, Increasing
<1>10. CASE ClientRead
  <2>1. /\ cgot \in Seq(Number) /\ crq \in Seq(Number) /\ crq # <<>> /\ snext' = snext
        /\ crq' = Tail(crq) /\ cgot' = Append(cgot, Head(crq))
    BY <1>1, <1>10 DEF Types, ClientRead
  <2>2. /\ cgot' \o crq' = cgot \o crq
        /\ ToSet(cgot') \cup ToSet(crq') = ToSet(cgot) \cup ToSet(crq)
    BY <2>1, ReadMoves
  <2>3. DownGot' = DownGot
    BY <2>2 DEF DownGot
  <2> QED
    BY <1>1, <2>1, <2>2, <2>3 DEF DownRead, Increasing
<1>11. CASE ClientRecv
  BY <1>1, <1>11, ClientRecvOrder
<1> QED
  BY <1>3, <1>4, <1>5, <1>6, <1>7, <1>8, <1>9, <1>10, <1>11, Steps

LEMMA DownLinedStep == ASSUME IInv, [Next]_vars PROVE DownLined'
<1>1. Types /\ Phases /\ DownFramed /\ DownOrdered /\ DownLined /\ DownRead /\ snext \in Nat
  BY SockLinkAssumption DEF IInv, DownOrdered, Types
<1>2. fd # 0 => fd \in ConnId /\ Sorted(DownLine)
  BY <1>1, OwnConnection DEF DownLined
<1>3. ASSUME UNCHANGED <<fd, cgot, crq, snext>>, fd # 0 => DownLine' = DownLine /\ stq'[fd] = stq[fd]
      PROVE  DownLined'
  <2>1. DownGot' = DownGot
    BY <1>3 DEF DownGot
  <2> QED
    BY <1>1, <1>2, <1>3, <2>1, DownLinedLess
<1>4. ASSUME UNCHANGED <<fd, cral, down, stmp, stq, cgot, crq, snext>> PROVE DownLined'
  <2>1. DownLine' = DownLine
    BY <1>4 DEF DownLine, DownWay
  <2> QED
    BY <1>3, <1>4, <2>1
<1>5. CASE UNCHANGED vars
  BY <1>4, <1>5 DEF vars
<1>6. CASE Tick \/ ClientHeartbeat \/ ClientWrite
  BY <1>4, <1>6 DEF Tick, ClientHeartbeat, ClientWrite, tcp, server, users
<1>7. ASSUME NEW k \in ConnId, \/ Handshake(k) \/ Break(k) \/ Accept(k)
                               \/ ServerError(k) \/ ServerRead(k) \/ ServerRecv(k)
      PROVE  DownLined'
  BY <1>4, <1>7 DEF Handshake, Break, Accept, ServerError, ServerRead, ServerRecv, client, tcp,
     server, users
<1>8. ASSUME NEW i, NEW j, ClientSend(i, j) \/ ClientSendTmp(j) PROVE DownLined'
  BY <1>4, <1>8 DEF ClientSend, ClientSendTmp, server, users
<1>9. ASSUME fd' = 0 PROVE DownLined'
  BY <1>9 DEF DownLined
<1>10. CASE UserClose \/ ClientError
  BY <1>9, <1>10 DEF UserClose, ClientError, Close
<1>11. CASE CheckEstablished
  BY <1>4, <1>9, <1>11 DEF CheckEstablished, server, users
<1>12. ASSUME NEW k \in ConnId, Create(k) PROVE DownLined'
  <2>1. CASE fd' = 0
    BY <1>9, <2>1
  <2>2. CASE fd' # 0
    <3>1. fd' = k /\ DownLine' = <<>> /\ stq'[k] = <<>>
      BY <1>1, <1>12, <2>2, CreateDownLine
    <3>2. ToSet(DownLine') = {} /\ ToSet(stq'[fd']) = {}
      BY <3>1 DEF ToSet
    <3>3. Sorted(DownLine)'
      BY <3>1 DEF Sorted
    <3> QED
      BY <3>2, <3>3 DEF DownLined
  <2> QED
    BY <2>1, <2>2
<1>13. ASSUME NEW S \in SUBSET ConnId, Released(S) PROVE DownLined'
  <2>1. UNCHANGED <<fd, cgot, crq, snext>>
    BY <1>13 DEF Released, client, users
  <2>2. DownGot' = DownGot
    BY <2>1 DEF DownGot
  <2>3. CASE fd = 0
    BY <1>9, <2>1, <2>3
  <2>4. CASE fd # 0 /\ fd \notin S
    <3>1. DownLine' = DownLine /\ stq'[fd] = stq[fd]
      BY <1>1, <1>2, <1>13, <2>4, ReleasedDownLine DEF Released
    <3> QED
      BY <1>3, <2>1, <3>1
  <2>5. CASE fd # 0 /\ fd \in S
    <3>1. DownLine' = cral \o down[fd] /\ stq'[fd] = <<>>
      BY <1>1, <1>2, <1>13, <2>5, ReleasedDownLine DEF Released
    <3> DEFINE a == cral \o down[fd]
               t == stmp[fd]
               u == DownLine
    <3>2. u = a \o t /\ a \in Seq(Legal) /\ t \in Seq(Legal) /\ Sorted(u)
      BY <1>1, <1>2, <2>5, DownLineOf DEF Types
    <3> HIDE DEF a, t, u
    <3>3. Sorted(a) /\ ToSet(a) \subseteq ToSet(u)
      BY <3>2, SortedConcat, ToSetConcat
    <3>4. ToSet(stq'[fd]) \subseteq ToSet(stq[fd])
      BY <3>1 DEF ToSet
    <3>5. Sorted(DownLine') /\ ToSet(DownLine') \subseteq ToSet(DownLine)
      BY <3>1, <3>3 DEF a, u
    <3> QED
      BY <1>1, <2>1, <2>2, <3>4, <3>5, DownLinedLess
  <2> QED
    BY <2>3, <2>4, <2>5
<1>14. ASSUME NEW k \in ConnId, ServerHeartbeat(k) PROVE DownLined'
  <2>1. UNCHANGED <<fd, cral, down, stmp, cgot, crq, snext>>
    BY <1>14 DEF ServerHeartbeat, client, tcp, users
  <2>2. DownLine' = DownLine /\ DownGot' = DownGot
    BY <2>1 DEF DownLine, DownWay, DownGot
  <2>3. CASE fd = 0
    BY <1>9, <2>1, <2>3
  <2>4. CASE fd # 0
    <3>1. stq'[fd] = stq[fd] \/ stq'[fd] = Append(stq[fd], Hb)
      BY <1>1, <1>2, <1>14, <2>4 DEF ServerHeartbeat, Types
    <3>2. CASE stq'[fd] = stq[fd]
      BY <1>3, <2>1, <2>2, <3>2
    <3>3. CASE stq'[fd] = Append(stq[fd], Hb)
      <4>1. stq[fd] \in Seq(Nat) /\ Hb \in Nat
        BY <1>1, <1>2, <2>4 DEF Types, Hb
      <4>2. ToSet(stq'[fd]) = ToSet(stq[fd]) \cup {Hb}
        BY <3>3, <4>1, FifoAppend
      <4>3. Sorted(DownLine)'
        BY <1>2, <2>2, <2>4 DEF Sorted, Ord
      <4> QED
        BY <1>1, <2>1, <2>2, <2>4, <4>2, <4>3 DEF DownLined
    <3> QED
      BY <3>1, <3>2, <3>3
  <2> QED
    BY <2>3, <2>4
<1>15. CASE ServerWrite
  <2>1. UNCHANGED <<fd, cral, down, stmp, cgot, crq>> /\ snext' = snext + 1
    BY <1>15 DEF ServerWrite, client, tcp
  <2>2. DownLine' = DownLine /\ DownGot' = DownGot
    BY <2>1 DEF DownLine, DownWay, DownGot
  <2>3. CASE fd = 0
    BY <1>9, <2>1, <2>3
  <2>4. CASE fd # 0
    <3>1. stq'[fd] = stq[fd] \/ stq'[fd] = Append(stq[fd], snext)
      BY <1>2, <1>15, <2>4 DEF ServerWrite
    <3>2. ToSet(stq'[fd]) \subseteq ToSet(stq[fd]) \cup {snext}
      <4>1. stq[fd] \in Seq(Nat)
        BY <1>1, <1>2, <2>4 DEF Types
      <4>2. ToSet(Append(stq[fd], snext)) = ToSet(stq[fd]) \cup {snext}
        BY <1>1, <4>1, FifoAppend
      <4> QED
        BY <3>1, <4>2
    <3>3. \A x \in ToSet(DownLine) : x[1] \in Nat
      <4>1. DownLine \in Seq(Legal)
        BY <1>1, <2>4, DownLineOf
      <4>2. \A x \in ToSet(DownLine) : x \in Legal
        BY <4>1, ToSetOfSeq, ElementOfSeq
      <4> QED
        BY <4>2, LegalPiece
    <3>4. Sorted(DownLine)'
      BY <1>2, <2>2, <2>4 DEF Sorted, Ord
    <3>5. \A x \in ToSet(DownLine') : x[1] < snext'
      BY <1>1, <2>1, <2>2, <2>4, <3>3 DEF DownLined
    <3>6. \A m \in DownGot', x \in ToSet(DownLine') : x[1] = Hb \/ m < x[1]
      BY <1>1, <2>2, <2>4 DEF DownLined
    <3>7. \A m \in DownGot', p \in ToSet(stq'[fd']) : p = Hb \/ m < p
      BY <1>1, <2>1, <2>2, <2>4, <3>2 DEF DownLined, DownRead
    <3>8. \A x \in ToSet(DownLine'), p \in ToSet(stq'[fd']) : x[1] = Hb \/ p = Hb \/ x[1] < p
      BY <1>1, <2>1, <2>2, <2>4, <3>2 DEF DownLined
    <3> QED
      BY <3>4, <3>5, <3>6, <3>7, <3>8 DEF DownLined
  <2> QED
    BY <2>3, <2>4
<1>16. CASE ClientRead
  <2>1. /\ cgot \in Seq(Number) /\ crq \in Seq(Number) /\ crq # <<>>
        /\ crq' = Tail(crq) /\ cgot' = Append(cgot, Head(crq))
        /\ UNCHANGED <<fd, cral, down, stmp, stq, snext>>
    BY <1>1, <1>16 DEF Types, ClientRead, tcp, server
  <2>2. DownLine' = DownLine /\ DownGot' = DownGot
    BY <2>1, ReadMoves DEF DownLine, DownWay, DownGot
  <2> QED
    BY <1>1, <1>2, <2>1, <2>2, DownLinedLess
<1>17. CASE ClientRecv
  BY <1>1, <1>17, ClientRecvOrder
<1>18. ASSUME NEW n \in ConnId, NEW i, NEW j, ServerSend(n, i, j) PROVE DownLined'
  <2>1. CASE fd = n
    BY <1>1, <1>18, <2>1, ServerSendOrder
  <2>2. CASE fd # n
    <3>1. UNCHANGED <<fd, cgot, crq, snext>>
      BY <1>18 DEF ServerSend, client, users
    <3>2. fd # 0 => DownLine' = DownLine /\ stq'[fd] = stq[fd]
      BY <1>1, <1>2, <1>18, <2>2, ServerSent
    <3> QED
      BY <1>3, <3>1, <3>2
  <2> QED
    BY <2>1, <2>2
<1>19. ASSUME NEW n \in ConnId, NEW j, ServerSendTmp(n, j) PROVE DownLined'
  <2>1. UNCHANGED <<fd, cgot, crq, snext, stq>>
    BY <1>19 DEF ServerSendTmp, client, users
  <2>2. fd # 0 => DownLine' = DownLine
    BY <1>1, <1>19, ServerSentTmp
  <2> QED
    BY <1>3, <2>1, <2>2
<1> QED
  BY <1>5, <1>6, <1>7, <1>8, <1>10, <1>11, <1>12, <1>13, <1>14, <1>15, <1>16, <1>17, <1>18,
     <1>19, Steps

-----------------------------------------------------------------------------
(* The invariant, and the properties it implies.                           *)

LEMMA InitIInv == Init => IInv
<1> SUFFICES ASSUME Init PROVE IInv
  OBVIOUS
<1> USE DEF Init
<1>1. Types
  <2>1. 0 \in 0 .. MaxConn /\ 0 \in 0 .. RetryWait /\ 1 \in 1 .. UpN + 1 /\ 1 \in 1 .. DownN + 1
    BY SockLinkAssumption
  <2>2. <<>> \in Seq(Nat) /\ <<>> \in Seq(Legal) /\ <<>> \in Seq(Number)
    OBVIOUS
  <2> QED
    BY <2>1, <2>2 DEF Types
<1>2. Limits
  <2>1. TxCap \in Nat /\ RxCap \in Nat /\ SockCap \in Nat /\ Len(<<>>) = 0
    BY SockLinkAssumption
  <2> QED
    BY <2>1 DEF Limits
<1>3. Phases
  BY DEF Phases
<1>4. \A n \in ConnId : UpLine(n) = <<>> /\ UpGot(n) = {} /\ fd # n
  <2>1. <<>> \o (<<>> \o <<>>) = <<>> /\ ToSet(<<>>) = {}
    BY DEF ToSet
  <2> QED
    BY <2>1 DEF UpLine, UpWay, UpGot, ConnId
<1>5. UpFramed
  BY <1>4, EmptyWhole DEF UpFramed, UpFramedOn, Pending, Whole
<1>6. DownFramed
  BY DEF DownFramed, Pending
<1>7. /\ ToSet(<<>>) = {} /\ InOrder(<<>>) /\ Increasing(<<>> \o <<>>)
  BY DEF ToSet, InOrder, Increasing
<1>8. UpOrdered
  BY <1>4, <1>7, EmptyWhole DEF UpOrdered, UpOrderedOn
<1>9. SentFirst
  BY <1>7 DEF SentFirst
<1>10. DownOrdered
  BY <1>7 DEF DownOrdered, DownRead, DownLined, DownKept, DownGot
<1> QED
  BY <1>1, <1>2, <1>3, <1>5, <1>6, <1>8, <1>9, <1>10 DEF IInv

LEMMA DownOrderedStep == ASSUME IInv, [Next]_vars PROVE DownOrdered'
<1>1. \A n \in ConnId : DownKept(n)'
  BY DownKeptStep
<1>2. DownRead' /\ DownLined'
  BY DownReadStep, DownLinedStep
<1> QED
  BY <1>1, <1>2 DEF DownOrdered

LEMMA NextIInv == IInv /\ [Next]_vars => IInv'
<1> SUFFICES ASSUME IInv, [Next]_vars PROVE IInv'
  OBVIOUS
<1>1. Types' /\ Limits' /\ Phases'
  BY TypesStep, LimitsStep, PhasesStep
<1>2. UpFramed' /\ DownFramed'
  BY UpFramedStep, DownFramedStep
<1>3. UpOrdered' /\ SentFirst' /\ DownOrdered'
  BY UpOrderedStep, SentFirstStep, DownOrderedStep
<1> QED
  BY <1>1, <1>2, <1>3 DEF IInv

(* The queues and buffers of a connection, the packets under way on it and *)
(* its phase belong together (csock.c and ssock.c keep each for itself).   *)
THEOREM Invariance == Spec => []IInv
<1> QED
  BY InitIInv, NextIInv, PTL DEF Spec

(* The pieces of both lines, as the type invariant sees them.              *)
LEMMA LinePieces ==
  ASSUME IInv
  PROVE  /\ \A n \in ConnId : ToSet(sral[n]) \subseteq Piece /\ ToSet(up[n]) \subseteq Piece
         /\ ToSet(ctmp) \subseteq Piece
         /\ \A n \in ConnId : ToSet(down[n]) \subseteq Piece /\ ToSet(stmp[n]) \subseteq Piece
         /\ ToSet(cral) \subseteq Piece
<1>1. Types /\ Phases /\ UpOrdered /\ DownOrdered
  BY DEF IInv
<1>2. UpN \in Nat /\ DownN \in Nat /\ snext \in 1 .. DownN + 1 /\ ToSet(<<>>) = {}
  BY <1>1, SockLinkAssumption DEF Types, ToSet
<1>3. ASSUME NEW x \in Legal, x[1] = Hb \/ x[1] \in 1 .. UpN \/ x[1] < snext PROVE x \in Piece
  <2>1. x = <<x[1], x[2]>> /\ x[1] \in Nat /\ x[2] \in {1, 2}
    BY LegalPiece
  <2>2. x[1] \in Packet
    BY <1>2, <1>3, <2>1 DEF Packet, Hb
  <2> QED
    BY <2>1, <2>2 DEF Piece
<1>4. ASSUME NEW n \in ConnId, NEW x \in ToSet(UpLine(n)) PROVE x \in Piece
  <2>1. x \in Legal
    BY <1>1, <1>4, LineOf, ToSetOfSeq, ElementOfSeq
  <2>2. x[1] = Hb \/ x[1] \in 1 .. UpN
    BY <1>1, <1>4 DEF UpOrdered, UpOrderedOn
  <2> QED
    BY <1>3, <2>1, <2>2
<1>5. ASSUME NEW n \in ConnId
      PROVE  /\ ToSet(sral[n]) \subseteq Piece /\ ToSet(up[n]) \subseteq Piece
             /\ fd = n => ToSet(ctmp) \subseteq Piece
  <2>1. sral[n] \in Seq(Legal) /\ up[n] \in Seq(Legal) /\ ctmp \in Seq(Legal)
    BY <1>1 DEF Types
  <2> DEFINE a == sral[n] \o up[n]
  <2>2. a \in Seq(Legal) /\ ToSet(a) = ToSet(sral[n]) \cup ToSet(up[n])
    BY <2>1, ConcatProperties, ToSetConcat
  <2>3. UpLine(n) = a \/ UpLine(n) = a \o ctmp
    BY <1>1, LineOf
  <2>4. fd = n => UpLine(n) = a \o ctmp
    BY <1>1, LineOf
  <2> HIDE DEF a
  <2>5. ToSet(a \o ctmp) = ToSet(a) \cup ToSet(ctmp)
    BY <2>1, <2>2, ToSetConcat
  <2>6. ToSet(a) \subseteq ToSet(UpLine(n)) /\ (fd = n => ToSet(ctmp) \subseteq ToSet(UpLine(n)))
    BY <2>3, <2>4, <2>5
  <2> QED
    BY <1>4, <2>2, <2>6
<1>6. ToSet(ctmp) \subseteq Piece
  <2>1. CASE fd = 0
    BY <1>1, <1>2, <2>1 DEF Phases
  <2>2. CASE fd # 0
    BY <1>1, <1>5, <2>2, OwnConnection
  <2> QED
    BY <2>1, <2>2
<1>7. ASSUME fd # 0 PROVE ToSet(cral) \subseteq Piece /\ ToSet(down[fd]) \subseteq Piece
  <2>1. fd \in ConnId /\ DownLine \in Seq(Legal) /\ DownLine = (cral \o down[fd]) \o stmp[fd]
    BY <1>1, <1>7, DownLineOf
  <2>2. cral \in Seq(Legal) /\ down[fd] \in Seq(Legal) /\ stmp[fd] \in Seq(Legal)
    BY <1>1, <2>1 DEF Types
  <2> DEFINE a == cral \o down[fd]
  <2>3. a \in Seq(Legal) /\ ToSet(a) = ToSet(cral) \cup ToSet(down[fd])
    BY <2>2, ConcatProperties, ToSetConcat
  <2>4. DownLine = a \o stmp[fd]
    BY <2>1
  <2> HIDE DEF a
  <2>5. ToSet(DownLine) = ToSet(a) \cup ToSet(stmp[fd])
    BY <2>2, <2>3, <2>4, ToSetConcat
  <2>6. ASSUME NEW x \in ToSet(DownLine) PROVE x \in Piece
    <3>1. x \in Legal
      BY <2>1, <2>6, ToSetOfSeq, ElementOfSeq
    <3>2. x[1] < snext
      BY <1>1, <1>7, <2>6 DEF DownOrdered, DownLined
    <3> QED
      BY <1>3, <3>1, <3>2
  <2> QED
    BY <2>3, <2>5, <2>6
<1>8. ToSet(cral) \subseteq Piece
  <2>1. CASE fd = 0
    BY <1>1, <1>2, <2>1 DEF Phases
  <2> QED
    BY <1>7, <2>1
<1>9. ASSUME NEW n \in ConnId PROVE ToSet(down[n]) \subseteq Piece /\ ToSet(stmp[n]) \subseteq Piece
  <2>1. ToSet(down[n]) \subseteq Piece
    <3>1. CASE fd = n
      <4>1. fd # 0
        BY <3>1 DEF ConnId
      <4> QED
        BY <1>7, <3>1, <4>1
    <3>2. CASE fd # n
      BY <1>1, <1>2, <3>2 DEF Phases
    <3> QED
      BY <3>1, <3>2
  <2>2. ASSUME NEW x \in ToSet(stmp[n]) PROVE x \in Piece
    <3>1. stmp[n] \in Seq(Legal)
      BY <1>1 DEF Types
    <3>2. x \in Legal
      BY <2>2, <3>1, ToSetOfSeq, ElementOfSeq
    <3>3. x[1] < snext
      BY <1>1, <2>2 DEF DownOrdered, DownKept
    <3> QED
      BY <1>3, <3>2, <3>3
  <2> QED
    BY <2>1, <2>2
<1> QED
  BY <1>5, <1>6, <1>8, <1>9

(* What users have and what waits for them.                                *)
LEMMA GotPackets ==
  ASSUME IInv
  PROVE  /\ \A n \in ConnId : ToSet(sgot[n]) \subseteq 1 .. UpN /\ ToSet(srq[n]) \subseteq 1 .. UpN
         /\ ToSet(cgot) \subseteq 1 .. DownN /\ ToSet(crq) \subseteq 1 .. DownN
<1>1. Types /\ UpOrdered /\ DownOrdered
  BY DEF IInv
<1>2. \A n \in ConnId : ToSet(sgot[n]) \subseteq 1 .. UpN /\ ToSet(srq[n]) \subseteq 1 .. UpN
  BY <1>1 DEF UpOrdered, UpOrderedOn, UpGot
<1>3. ToSet(cgot) \subseteq Number /\ ToSet(crq) \subseteq Number
  BY <1>1, ToSetOfSeq, ElementOfSeq DEF Types
<1>4. ASSUME NEW m \in DownGot PROVE m \in 1 .. DownN
  <2>1. m \in Number /\ m < snext /\ snext \in 1 .. DownN + 1 /\ DownN \in Nat
    BY <1>1, <1>3, <1>4, SockLinkAssumption DEF DownOrdered, DownRead, DownGot, Types
  <2> QED
    BY <2>1 DEF Number
<1> QED
  BY <1>2, <1>4 DEF DownGot

LEMMA TypeOKInvariant == IInv => TypeOK
<1> SUFFICES ASSUME IInv PROVE TypeOK
  OBVIOUS
<1>1. Types /\ Limits /\ SentFirst /\ DownOrdered
  BY DEF IInv
<1>2. UpN \in Nat /\ DownN \in Nat /\ cnext \in 1 .. UpN + 1 /\ snext \in 1 .. DownN + 1
  BY <1>1, SockLinkAssumption DEF Types
<1>3. ToSet(ctq) \subseteq Packet
  <2>1. ASSUME NEW m \in ToSet(ctq) PROVE m \in Packet
    <3>1. m \in Nat /\ (m = Hb \/ m < cnext)
      BY <1>1, <2>1, ToSetOfSeq, ElementOfSeq DEF Types, SentFirst
    <3> QED
      BY <1>2, <3>1 DEF Packet, Hb
  <2> QED
    BY <2>1
<1>4. ASSUME NEW n \in ConnId PROVE ToSet(stq[n]) \subseteq Packet
  <2>1. ASSUME NEW m \in ToSet(stq[n]) PROVE m \in Packet
    <3>1. stq[n] \in Seq(Nat)
      BY <1>1 DEF Types
    <3>2. m \in Nat /\ m < snext
      BY <1>1, <2>1, <3>1, ToSetOfSeq, ElementOfSeq DEF DownOrdered, DownKept
    <3> QED
      BY <1>2, <3>2 DEF Packet, Hb
  <2> QED
    BY <2>1
<1>5. \A q \in {ctq} \cup {stq[n] : n \in ConnId} : Len(q) <= TxCap /\ ToSet(q) \subseteq Packet
  BY <1>1, <1>3, <1>4 DEF Limits
<1>6. 1 .. UpN \subseteq Packet /\ 1 .. DownN \subseteq Packet
  BY DEF Packet
<1>7. \A q \in {crq} \cup {srq[n] : n \in ConnId} :
        Len(q) <= RxCap /\ ToSet(q) \subseteq Packet \cup {Torn}
  BY <1>1, <1>6, GotPackets DEF Limits
<1>8. \A s \in {ctmp, cral} \cup UNION {{up[n], down[n], stmp[n], sral[n]} : n \in ConnId} :
        ToSet(s) \subseteq Piece
  BY LinePieces
<1>9. \A n \in ConnId :
        /\ net[n] \in {"none", "syn", "refused", "ok", "cut"}
        /\ peer[n] \in {"none", "up", "err", "gone"}
        /\ Len(up[n]) <= SockCap /\ Len(down[n]) <= SockCap
        /\ ToSet(sgot[n]) \subseteq 1 .. UpN \cup {Torn}
  BY <1>1, GotPackets DEF Types, Limits
<1>10. ToSet(cgot) \subseteq 1 .. DownN \cup {Torn}
  BY GotPackets
<1> QED
  BY <1>1, <1>5, <1>7, <1>8, <1>9, <1>10 DEF TypeOK, Types

LEMMA InStepInvariant == IInv => InStep
<1> SUFFICES ASSUME IInv PROVE InStep
  OBVIOUS
<1>1. Types /\ UpFramed /\ DownFramed
  BY DEF IInv
<1>2. Torn \notin 1 .. UpN /\ Torn \notin 1 .. DownN
  BY DEF Torn
<1>3. ASSUME NEW n \in ConnId
      PROVE  /\ peer[n] \in {"none", "up"} => Begun(sral[n] \o up[n])
             /\ peer[n] \in {"none", "up"} /\ fd = n /\ ~inprogress =>
                  Whole(sral[n] \o up[n] \o ctmp)
  <2> DEFINE a == sral[n] \o up[n]
             u == UpLine(n)
  <2>1. /\ a \in Seq(Legal) /\ ctmp \in Seq(Legal) /\ (fd # n => u = a) /\ (fd = n => u = a \o ctmp)
    BY <1>1, LineOf DEF Types
  <2>2. peer[n] \in {"none", "up"} => Begun(u) /\ (fd = n => Whole(u))
    BY <1>1 DEF UpFramed, UpFramedOn
  <2> HIDE DEF a, u
  <2>3. Begun(u) => Begun(a)
    BY <2>1, BegunPrefix
  <2>4. peer[n] \in {"none", "up"} /\ fd = n /\ ~inprogress => Whole(a \o ctmp)
    BY <2>1, <2>2
  <2> QED
    BY <2>2, <2>3, <2>4 DEF a
<1>4. ASSUME NEW n \in ConnId, fd = n
      PROVE  Begun(cral \o down[n]) /\ (peer[n] = "up" => Whole(cral \o down[n] \o stmp[n]))
  <2> DEFINE a == cral \o down[n]
             u == DownLine
  <2>1. fd # 0
    BY <1>4 DEF ConnId
  <2>2. a \in Seq(Legal) /\ stmp[n] \in Seq(Legal) /\ u = a \o stmp[n]
    BY <1>1, <1>4, <2>1, DownLineOf DEF Types
  <2>3. Begun(u) /\ (peer[n] = "up" => Whole(u))
    BY <1>1, <1>4, <2>1 DEF DownFramed
  <2> HIDE DEF a, u
  <2>4. Begun(a)
    BY <2>2, <2>3, BegunPrefix
  <2>5. peer[n] = "up" => Whole(a \o stmp[n])
    BY <2>2, <2>3
  <2> QED
    BY <2>4, <2>5 DEF a
<1>5. ASSUME NEW n \in ConnId PROVE Torn \notin ToSet(srq[n] \o sgot[n])
  <2>1. srq[n] \in Seq(Number) /\ sgot[n] \in Seq(Number)
    BY <1>1 DEF Types
  <2>2. ToSet(srq[n] \o sgot[n]) = ToSet(srq[n]) \cup ToSet(sgot[n])
    BY <2>1, ToSetConcat
  <2> QED
    BY <1>2, <2>2, GotPackets
<1>6. Torn \notin ToSet(crq \o cgot)
  <2>1. crq \in Seq(Number) /\ cgot \in Seq(Number)
    BY <1>1 DEF Types
  <2>2. ToSet(crq \o cgot) = ToSet(crq) \cup ToSet(cgot)
    BY <2>1, ToSetConcat
  <2> QED
    BY <1>2, <2>2, GotPackets
<1> QED
  BY <1>3, <1>4, <1>5, <1>6 DEF InStep

LEMMA UpInOrderInvariant == IInv => UpInOrder
<1> SUFFICES ASSUME IInv PROVE UpInOrder
  OBVIOUS
<1>1. Types /\ UpOrdered /\ SentFirst
  BY DEF IInv
<1>2. ASSUME NEW n \in ConnId
      PROVE  /\ Increasing(sgot[n] \o srq[n])
             /\ \A m \in ToSet(sgot[n] \o srq[n]) : m # Torn /\ via[m] = n
  <2>1. sgot[n] \in Seq(Number) /\ srq[n] \in Seq(Number)
    BY <1>1 DEF Types
  <2>2. ToSet(sgot[n] \o srq[n]) = UpGot(n)
    BY <2>1, ToSetConcat DEF UpGot
  <2>3. \A m \in UpGot(n) : m \in 1 .. UpN /\ via[m] = n
    BY <1>1 DEF UpOrdered, UpOrderedOn
  <2>4. Torn \notin 1 .. UpN
    BY DEF Torn
  <2> QED
    BY <1>1, <2>2, <2>3, <2>4 DEF UpOrdered, UpOrderedOn
<1> QED
  BY <1>1, <1>2 DEF UpInOrder, SentFirst

LEMMA DownInOrderInvariant == IInv => DownInOrder
BY DEF IInv, DownOrdered, DownRead, DownInOrder

(* Every queue of csock.c and ssock.c keeps its limit and holds packets    *)
(* that were written, every buffer holds pieces of them: no align buffer   *)
(* and no txtmpbuf ever holds anything else.                               *)
THEOREM TypeCorrect == Spec => []TypeOK
<1> QED
  BY Invariance, TypeOKInvariant, PTL

(* However the sockets cut what is sent, whatever the threads, the user    *)
(* and the network do to a connection and whatever a connection left       *)
(* behind: both ends agree on where packets begin, and no user is given a  *)
(* packet made of pieces of others.                                        *)
THEOREM Framing == Spec => []InStep
<1> QED
  BY Invariance, InStepInvariant, PTL

(* What csock_write takes reaches the server's user in order, at most once *)
(* and on one connection, however often the client reconnects with packets *)
(* in its fifo; later packets never go out on an earlier connection.       *)
THEOREM UpOrder == Spec => []UpInOrder
<1> QED
  BY Invariance, UpInOrderInvariant, PTL

(* What ssock_write_to takes reaches the client's user in order and at     *)
(* most once, though it is put into the fifo of every linked peer and the  *)
(* client goes from one connection to the next.                            *)
THEOREM DownOrder == Spec => []DownInOrder
<1> QED
  BY Invariance, DownInOrderInvariant, PTL
=============================================================================
