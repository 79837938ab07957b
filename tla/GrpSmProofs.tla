----------------------------- MODULE GrpSmProofs -----------------------------
(***************************************************************************)
(* Proofs about GrpSm, for every fleet of groups, every board, and every    *)
(* value of the bounds.  The numbers of GrpSm have no width: of the code    *)
(* this speaks as long as num_groups and cm of grpsm_cfg_from_sqlinks, the  *)
(* products of the counts of links, fit an int.                             *)
(*                                                                         *)
(* The tables of grpsm are sequences built by loops, and the groups of a   *)
(* round are numbered by the digits of a counter in mixed radices.  So the  *)
(* first half says what each of them holds, as sets: a round is the set of  *)
(* all choices of a link for each sequence number (RoundOfFacts), each      *)
(* once, because different numbers have different digits (DigitsDiffer).   *)
(* The second half is the inductive invariant IInv.  Its heart is Behind:   *)
(* the tables hold the links of all groups but those confirmed before the   *)
(* last answer, and the next call of grpsm_get catches up.                  *)
(*                                                                         *)
(* That no group is passed over is an argument by counting.  When board and *)
(* reception are good, the free links at number i are those of the groups   *)
(* longer than i that are not confirmed (FreeLinks); at the length where    *)
(* one of these ends the counts drop (CountsDrop), and there the search for *)
(* a length stops.                                                          *)
(***************************************************************************)
EXTENDS GrpSm, FlattenProofs
-----------------------------------------------------------------------------
(* The links of the fiber, and the tables made of them. *)

\* Keep has the elements of the set, and keeps a sequence free of repetitions.
LEMMA KeepFacts ==
  ASSUME NEW S, NEW s \in Seq(S), NEW T
  PROVE  /\ Keep(s, T) \in Seq(S)
         /\ Range(Keep(s, T)) = Range(s) \cap T
         /\ IsInjective(s) => IsInjective(Keep(s, T))
<1> DEFINE ss == [i \in DOMAIN s |-> IF s[i] \in T THEN <<s[i]>> ELSE <<>>]
<1>1. DOMAIN s = 1 .. Len(s) /\ Len(s) \in Nat /\ \A i \in 1 .. Len(s) : s[i] \in S
  BY LenProperties
<1>2. ss \in Seq(Seq(S)) /\ DOMAIN ss = 1 .. Len(s)
  <2>1. ss \in [1 .. Len(s) -> Seq(S)]
    BY <1>1
  <2> QED
    BY <1>1, <2>1, SeqFun
<1>3. \A i \in 1 .. Len(s) : ss[i] = IF s[i] \in T THEN <<s[i]>> ELSE <<>>
  BY <1>1
<1> HIDE DEF ss
<1>4. \A i \in 1 .. Len(s) : Range(ss[i]) = IF s[i] \in T THEN {s[i]} ELSE {}
  BY <1>3, SmallSeqs
<1>5. /\ FlattenSeq(ss) \in Seq(S)
      /\ Range(FlattenSeq(ss)) = UNION {Range(ss[i]) : i \in DOMAIN ss}
      /\ Apart(ss) => IsInjective(FlattenSeq(ss))
  BY <1>2, FlattenFacts
<1>6. UNION {Range(ss[i]) : i \in DOMAIN ss} = Range(s) \cap T
  <2>1. ASSUME NEW x \in UNION {Range(ss[i]) : i \in DOMAIN ss} PROVE x \in Range(s) \cap T
    <3>1. PICK i \in 1 .. Len(s) : x \in Range(ss[i])
      BY <1>2
    <3>2. s[i] \in T /\ x = s[i]
      BY <1>4, <3>1
    <3> QED
      BY <1>1, <3>2 DEF Range
  <2>2. ASSUME NEW x \in Range(s) \cap T PROVE x \in UNION {Range(ss[i]) : i \in DOMAIN ss}
    <3>1. PICK i \in 1 .. Len(s) : s[i] = x
      BY <1>1 DEF Range
    <3>2. x \in Range(ss[i])
      BY <1>4, <3>1
    <3> QED
      BY <1>2, <3>2
  <2> QED
    BY <2>1, <2>2
<1>7. IsInjective(s) => Apart(ss)
  <2>1. \A i \in 1 .. Len(s) : IsInjective(ss[i])
    BY <1>3, SmallSeqs
  <2>2. ASSUME IsInjective(s), NEW i \in 1 .. Len(s), NEW j \in 1 .. Len(s), i # j
        PROVE  Range(ss[i]) \cap Range(ss[j]) = {}
    BY <1>1, <1>4, <2>2 DEF IsInjective
  <2> QED
    BY <1>2, <2>1, <2>2 DEF Apart
<1> QED
  BY <1>5, <1>6, <1>7 DEF Keep, ss

LinkOf(s, n, i) ==
  [channel |-> <<n, i - 1>>, vc_valid |-> s[n].lost # i - 1, svc_type |-> s[n].svc,
   is_lcas |-> s[n].lcas, is_last_member |-> i = s[n].len,
   mfi |-> s[n].mfi, sq |-> i - 1, gid |-> s[n].gid]
Link(s) == UNION {{LinkOf(s, n, i) : i \in 1 .. s[n].len} : n \in DOMAIN s}

\* What the groups of a fleet are.
LEMMA FleetFacts ==
  ASSUME NEW s \in Fleets
  PROVE  /\ Len(s) \in Nat /\ DOMAIN s = 1 .. Len(s)
         /\ \A n \in DOMAIN s :
              /\ s[n].len \in 1 .. MaxLen /\ s[n].len \in Nat /\ MaxLen \in Nat
              /\ s[n].mfi \in Nat /\ s[n].mfi <= MfiDist /\ MfiDist \in Nat /\ Threshold \in Nat
              /\ s[n].lcas \in BOOLEAN
              /\ s[n].lcas => s[n].gid # {}
<1> DEFINE G == Groups(FALSE, {{}}) \cup Groups(TRUE, Gids)
<1>1. \E n \in Nat : s \in [1 .. n -> G]
  <2>1. ASSUME s \in [1 .. MaxSent -> Plains] PROVE s \in [1 .. MaxSent -> G]
    BY <2>1 DEF Plains
  <2>2. ASSUME NEW n \in 1 .. MaxSent - 1, s \in [1 .. n -> Anys] PROVE s \in [1 .. n -> G]
    BY <2>2 DEF Anys
  <2>3. MaxSent \in Nat /\ \A n \in 1 .. MaxSent - 1 : n \in Nat
    BY GrpSmAssumption
  <2>4. \/ s \in [1 .. MaxSent -> Plains]
        \/ \E n \in 1 .. MaxSent - 1 : s \in [1 .. n -> Anys]
    BY DEF Fleets
  <2> QED
    BY <2>1, <2>2, <2>3, <2>4
<1>2. PICK n \in Nat : s \in [1 .. n -> G]
  BY <1>1
<1>3. Len(s) = n /\ DOMAIN s = 1 .. n
  BY <1>2, SeqFun
<1>0. /\ MaxLen \in Nat /\ MfiDist \in Nat /\ Threshold \in Nat /\ {} \notin Gids
      /\ \A x \in Mfis : x \in Nat /\ x <= MfiDist
  BY GrpSmAssumption
<1>4. ASSUME NEW g \in G
      PROVE  /\ g.len \in 1 .. MaxLen /\ g.mfi \in Mfis /\ g.lcas \in BOOLEAN
             /\ g.lcas => g.gid \in Gids
  BY DEF Groups
<1>5. ASSUME NEW g \in G
      PROVE  /\ g.len \in 1 .. MaxLen /\ g.len \in Nat /\ MaxLen \in Nat
             /\ g.mfi \in Nat /\ g.mfi <= MfiDist /\ MfiDist \in Nat /\ Threshold \in Nat
             /\ g.lcas \in BOOLEAN
             /\ g.lcas => g.gid # {}
  <2>1. /\ g.len \in 1 .. MaxLen /\ g.len \in Nat /\ MaxLen \in Nat
        /\ g.mfi \in Nat /\ g.mfi <= MfiDist /\ MfiDist \in Nat /\ Threshold \in Nat
    <3>1. g.len \in 1 .. MaxLen
      BY <1>4, Zenon
    <3>2. g.mfi \in Mfis
      BY <1>4, Zenon
    <3> QED
      BY <1>0, <3>1, <3>2
  <2>2. g.lcas \in BOOLEAN /\ (g.lcas => g.gid # {})
    BY <1>0, <1>4, Zenon
  <2> QED
    BY <2>1, <2>2
<1>6. \A i \in DOMAIN s : s[i] \in G
  BY <1>2
<1> HIDE DEF G
<1> QED
  BY <1>3, <1>5, <1>6

\* A link is of a member of a group, and its channel says of which.
LEMMA LinkFacts ==
  ASSUME NEW s \in Fleets
  PROVE  /\ \A l : l \in Link(s) <=> \E n \in DOMAIN s : \E i \in 1 .. s[n].len : l = LinkOf(s, n, i)
         /\ \A l \in Link(s) : l.sq \in 0 .. MaxLen - 1 /\ l.mfi \in Nat
         /\ \A l, m \in Link(s) : l.channel = m.channel => l = m
<1>1. \A l : l \in Link(s) <=> \E n \in DOMAIN s : \E i \in 1 .. s[n].len : l = LinkOf(s, n, i)
  BY DEF Link
<1>2. ASSUME NEW l \in Link(s)
      PROVE  l.sq \in 0 .. MaxLen - 1 /\ l.mfi \in Nat
  <2>1. PICK n \in DOMAIN s : \E i \in 1 .. s[n].len : l = LinkOf(s, n, i)
    BY <1>1
  <2>2. PICK i \in 1 .. s[n].len : l = LinkOf(s, n, i)
    BY <2>1
  <2>3. l.sq = i - 1 /\ l.mfi = s[n].mfi
    BY <2>2 DEF LinkOf
  <2> QED
    BY <2>3, FleetFacts
<1>3. ASSUME NEW l \in Link(s), NEW m \in Link(s), l.channel = m.channel
      PROVE  l = m
  <2>1. PICK n \in DOMAIN s : \E i \in 1 .. s[n].len : l = LinkOf(s, n, i)
    BY <1>1
  <2>2. PICK o \in DOMAIN s : \E j \in 1 .. s[o].len : m = LinkOf(s, o, j)
    BY <1>1
  <2>3. PICK i \in 1 .. s[n].len : l = LinkOf(s, n, i)
    BY <2>1
  <2>4. PICK j \in 1 .. s[o].len : m = LinkOf(s, o, j)
    BY <2>2
  <2>5. l.channel = <<n, i - 1>> /\ m.channel = <<o, j - 1>>
    BY <2>3, <2>4 DEF LinkOf
  <2>6. n = o /\ i - 1 = j - 1
    <3>1. <<n, i - 1>> = <<o, j - 1>>
      BY <1>3, <2>5, Zenon
    <3> QED
      BY <3>1
  <2>7. i \in Int /\ j \in Int
    BY FleetFacts
  <2> QED
    BY <2>3, <2>4, <2>6, <2>7
<1> QED
  BY <1>1, <1>2, <1>3

\* The table of the fiber has every link once.
LEMMA LinkInfoFacts ==
  ASSUME NEW s \in Fleets
  PROVE  LinkInfo(s) \in Seq(Link(s)) /\ Range(LinkInfo(s)) = Link(s) /\ IsInjective(LinkInfo(s))
<1> DEFINE of(n) == [i \in 1 .. s[n].len |-> LinkOf(s, n, i)]
           ss == [n \in DOMAIN s |-> of(n)]
<1>1. LinkInfo(s) = FlattenSeq(ss)
  BY DEF LinkInfo, LinkOf
<1>2. ASSUME NEW n \in DOMAIN s
      PROVE  /\ of(n) \in Seq(Link(s)) /\ DOMAIN of(n) = 1 .. s[n].len
             /\ Range(of(n)) = {LinkOf(s, n, i) : i \in 1 .. s[n].len}
             /\ IsInjective(of(n))
  <2>1. s[n].len \in Nat /\ of(n) \in [1 .. s[n].len -> Link(s)]
    BY FleetFacts DEF Link
  <2>2. of(n) \in Seq(Link(s)) /\ DOMAIN of(n) = 1 .. s[n].len
    BY <2>1, SeqFun
  <2>3. Range(of(n)) = {LinkOf(s, n, i) : i \in 1 .. s[n].len}
    BY DEF Range
  <2>4. IsInjective(of(n))
    <3>1. ASSUME NEW i \in 1 .. s[n].len, NEW j \in 1 .. s[n].len, of(n)[i] = of(n)[j]
          PROVE  i = j
      <4>1. of(n)[i] = LinkOf(s, n, i) /\ of(n)[j] = LinkOf(s, n, j)
        OBVIOUS
      <4>2. LinkOf(s, n, i).sq = i - 1 /\ LinkOf(s, n, j).sq = j - 1
        BY DEF LinkOf
      <4>3. i - 1 = j - 1 /\ i \in Int /\ j \in Int
        BY <2>1, <3>1, <4>1, <4>2
      <4> QED
        BY <4>3
    <3> HIDE DEF of
    <3> QED
      BY <2>2, <3>1 DEF IsInjective
  <2> QED
    BY <2>2, <2>3, <2>4
<1> HIDE DEF of
<1>3. DOMAIN s = 1 .. Len(s) /\ Len(s) \in Nat
  BY FleetFacts
<1>4. ss \in Seq(Seq(Link(s))) /\ DOMAIN ss = DOMAIN s
  <2>1. ss \in [1 .. Len(s) -> Seq(Link(s))]
    BY <1>2, <1>3
  <2> QED
    BY <1>3, <2>1, SeqFun
<1>5. \A n \in DOMAIN s : ss[n] = of(n)
  OBVIOUS
<1> HIDE DEF ss
<1>6. Apart(ss)
  <2>1. ASSUME NEW n \in DOMAIN s, NEW o \in DOMAIN s, n # o
        PROVE  Range(of(n)) \cap Range(of(o)) = {}
    <3>1. SUFFICES ASSUME NEW i \in 1 .. s[n].len, NEW j \in 1 .. s[o].len, LinkOf(s, n, i) = LinkOf(s, o, j)
                   PROVE  FALSE
      BY <1>2
    <3>2. LinkOf(s, n, i).channel = <<n, i - 1>> /\ LinkOf(s, o, j).channel = <<o, j - 1>>
      BY DEF LinkOf
    <3> QED
      BY <2>1, <3>1, <3>2
  <2> QED
    BY <1>2, <1>4, <1>5, <2>1 DEF Apart
<1>7. UNION {Range(ss[n]) : n \in DOMAIN ss} = Link(s)
  <2>1. \A n \in DOMAIN ss : Range(ss[n]) = {LinkOf(s, n, i) : i \in 1 .. s[n].len}
    BY <1>2, <1>4, <1>5
  <2>2. DOMAIN ss = DOMAIN s
    BY <1>4
  <2>3. \A l : l \in UNION {Range(ss[n]) : n \in DOMAIN ss} <=> \E n \in DOMAIN s : l \in {LinkOf(s, n, i) : i \in 1 .. s[n].len}
    BY <2>1, <2>2
  <2>4. \A l : l \in Link(s) <=> \E n \in DOMAIN s : l \in {LinkOf(s, n, i) : i \in 1 .. s[n].len}
    BY DEF Link
  <2> QED
    BY <2>3, <2>4
<1> QED
  BY <1>1, <1>4, <1>6, <1>7, FlattenFacts

\* The links that arrive, with LCAS or without.
LEMMA UsableFacts ==
  ASSUME NEW s \in Fleets, NEW c
  PROVE  /\ Usable(LinkInfo(s), c) \in Seq(Link(s))
         /\ Range(Usable(LinkInfo(s), c)) = {l \in Link(s) : l.vc_valid /\ l.is_lcas = c}
         /\ IsInjective(Usable(LinkInfo(s), c))
BY LinkInfoFacts, KeepFacts DEF Usable

(* The services are named once each. *)
LEMMA ServicesFacts ==
  ASSUME NEW S, NEW links \in Seq(S)
  PROVE  /\ DOMAIN ServicesOf(links) = 1 .. Len(ServicesOf(links)) /\ Len(ServicesOf(links)) \in Nat
         /\ Range(ServicesOf(links)) = {l.svc_type : l \in Range(links)}
         /\ IsInjective(ServicesOf(links))
<1> DEFINE Named(i) == \E j \in 1 .. i - 1 : links[j].svc_type = links[i].svc_type
           ss == [i \in DOMAIN links |-> IF Named(i) THEN <<>> ELSE <<links[i].svc_type>>]
           T == {l.svc_type : l \in Range(links)}
<1>1. DOMAIN links = 1 .. Len(links) /\ Len(links) \in Nat
  BY LenProperties
<1>2. ss \in Seq(Seq(T)) /\ DOMAIN ss = 1 .. Len(links)
  <2>1. \A i \in DOMAIN links : links[i].svc_type \in T
    BY DEF Range
  <2>2. ss \in [1 .. Len(links) -> Seq(T)]
    <3>1. ASSUME NEW i \in DOMAIN links
          PROVE  (IF Named(i) THEN <<>> ELSE <<links[i].svc_type>>) \in Seq(T)
      <4>1. <<links[i].svc_type>> \in Seq(T) /\ <<>> \in Seq(T)
        BY <2>1
      <4> HIDE DEF Named, T
      <4> QED
        BY <4>1
    <3> HIDE DEF Named, T
    <3> QED
      BY <1>1, <3>1
  <2> QED
    BY <1>1, <2>2, SeqFun
<1>3. \A i \in 1 .. Len(links) : ss[i] = IF Named(i) THEN <<>> ELSE <<links[i].svc_type>>
  BY <1>1
<1>4. ServicesOf(links) = FlattenSeq(ss)
  BY DEF ServicesOf
<1> HIDE DEF ss
<1>5. \A i \in 1 .. Len(links) :
        /\ Range(ss[i]) = IF Named(i) THEN {} ELSE {links[i].svc_type}
        /\ IsInjective(ss[i])
  BY <1>3, SmallSeqs
<1>6. Apart(ss)
  <2>1. ASSUME NEW i \in 1 .. Len(links), NEW j \in 1 .. Len(links), i < j
        PROVE  Range(ss[i]) \cap Range(ss[j]) = {}
    <3>1. CASE links[i].svc_type = links[j].svc_type
      <4>1. Named(j)
        <5>1. i \in 1 .. j - 1
          BY <2>1
        <5> QED
          BY <3>1, <5>1
      <4> QED
        BY <1>5, <4>1
    <3>2. CASE links[i].svc_type # links[j].svc_type
      BY <1>5, <3>2
    <3> QED
      BY <3>1, <3>2
  <2>2. ASSUME NEW i \in 1 .. Len(links), NEW j \in 1 .. Len(links), i # j
        PROVE  Range(ss[i]) \cap Range(ss[j]) = {}
    <3>1. i < j \/ j < i
      BY <2>2
    <3> QED
      BY <2>1, <3>1
  <2> QED
    BY <1>2, <1>5, <2>2 DEF Apart
<1>7. UNION {Range(ss[i]) : i \in DOMAIN ss} = T
  <2>1. ASSUME NEW x \in UNION {Range(ss[i]) : i \in DOMAIN ss} PROVE x \in T
    <3>1. PICK i \in 1 .. Len(links) : x \in Range(ss[i])
      BY <1>2
    <3>2. x = links[i].svc_type
      BY <1>5, <3>1
    <3> QED
      BY <1>1, <3>2 DEF Range
  <2>2. ASSUME NEW x \in T PROVE x \in UNION {Range(ss[i]) : i \in DOMAIN ss}
    <3> DEFINE U == {i \in 1 .. Len(links) : links[i].svc_type = x}
    <3>1. U # {} /\ U \subseteq Nat
      BY <1>1 DEF Range
    <3>2. PICK i \in U : \A j \in U : i <= j
      BY <3>1, Least
    <3>3. ~Named(i)
      <4>1. SUFFICES ASSUME NEW j \in 1 .. i - 1, links[j].svc_type = links[i].svc_type PROVE FALSE
        OBVIOUS
      <4>2. j \in U
        BY <1>1, <4>1
      <4>3. i <= j /\ i \in Nat
        BY <3>2, <4>2
      <4> QED
        BY <4>3
    <3>4. x \in Range(ss[i])
      BY <1>5, <3>3
    <3> QED
      BY <1>2, <3>4
  <2> QED
    BY <2>1, <2>2
<1>8. /\ FlattenSeq(ss) \in Seq(T)
      /\ Range(FlattenSeq(ss)) = UNION {Range(ss[i]) : i \in DOMAIN ss}
      /\ Apart(ss) => IsInjective(FlattenSeq(ss))
  BY <1>2, FlattenFacts
<1> QED
  BY <1>4, <1>6, <1>7, <1>8, LenProperties

\* The links of a service at a sequence number, with LCAS or without.
Table(s, c, svc, i) == {l \in Link(s) : l.vc_valid /\ l.is_lcas = c /\ l.svc_type = svc /\ l.sq = i}
Named(s, c) == ServicesOf(Usable(LinkInfo(s), c))

\* grpsm_init_fiber: a table for each service, with each of its links once, at its sequence
\* number, and none at the last one.
LEMMA BundleFacts ==
  ASSUME NEW s \in Fleets, NEW c
  PROVE  /\ DOMAIN Bundles(LinkInfo(s), c) = 1 .. Len(Named(s, c)) /\ Len(Named(s, c)) \in Nat
         /\ DOMAIN Named(s, c) = 1 .. Len(Named(s, c))
         /\ IsInjective(Named(s, c))
         /\ \A l \in Link(s) : l.vc_valid /\ l.is_lcas = c => l.svc_type \in Range(Named(s, c))
         /\ \A k \in DOMAIN Bundles(LinkInfo(s), c) :
              /\ DOMAIN Bundles(LinkInfo(s), c)[k] = 0 .. MaxLen
              /\ Bundles(LinkInfo(s), c)[k] \in [0 .. MaxLen -> Seq(Link(s))]
              /\ \A i \in 0 .. MaxLen :
                   /\ Bundles(LinkInfo(s), c)[k][i] \in Seq(Link(s))
                   /\ IsInjective(Bundles(LinkInfo(s), c)[k][i])
                   /\ Range(Bundles(LinkInfo(s), c)[k][i]) = Table(s, c, Named(s, c)[k], i)
              /\ Bundles(LinkInfo(s), c)[k][MaxLen] = <<>>
<1> DEFINE B == Bundles(LinkInfo(s), c)
           of == Usable(LinkInfo(s), c)
<1>1. /\ of \in Seq(Link(s)) /\ Range(of) = {l \in Link(s) : l.vc_valid /\ l.is_lcas = c} /\ IsInjective(of)
  BY UsableFacts
<1>2. /\ DOMAIN Named(s, c) = 1 .. Len(Named(s, c)) /\ Len(Named(s, c)) \in Nat
      /\ Range(Named(s, c)) = {l.svc_type : l \in Range(of)}
      /\ IsInjective(Named(s, c))
  BY <1>1, ServicesFacts DEF Named
<1>3. B = [k \in DOMAIN Named(s, c) |-> [i \in 0 .. MaxLen |->
             Keep(of, {l \in Range(of) : l.svc_type = Named(s, c)[k] /\ l.sq = i})]]
  BY DEF Bundles, Named
<1> HIDE DEF B, of
<1>4. ASSUME NEW k \in DOMAIN B
      PROVE  /\ DOMAIN B[k] = 0 .. MaxLen
             /\ \A i \in 0 .. MaxLen :
                  B[k][i] = Keep(of, {l \in Range(of) : l.svc_type = Named(s, c)[k] /\ l.sq = i})
  BY <1>3
<1>5. ASSUME NEW k \in DOMAIN B, NEW i \in 0 .. MaxLen
      PROVE  B[k][i] \in Seq(Link(s)) /\ IsInjective(B[k][i]) /\ Range(B[k][i]) = Table(s, c, Named(s, c)[k], i)
  <2> DEFINE T == {l \in Range(of) : l.svc_type = Named(s, c)[k] /\ l.sq = i}
  <2>1. B[k][i] = Keep(of, T)
    BY <1>4
  <2>2. Keep(of, T) \in Seq(Link(s)) /\ IsInjective(Keep(of, T)) /\ Range(Keep(of, T)) = Range(of) \cap T
    BY <1>1, KeepFacts
  <2>3. Range(of) \cap T = Table(s, c, Named(s, c)[k], i)
    BY <1>1 DEF Table
  <2> QED
    BY <2>1, <2>2, <2>3
<1>6. ASSUME NEW k \in DOMAIN B
      PROVE  B[k][MaxLen] = <<>>
  <2>1. MaxLen \in Nat /\ MaxLen \in 0 .. MaxLen
    BY GrpSmAssumption
  <2>2. Table(s, c, Named(s, c)[k], MaxLen) = {}
    BY <2>1, LinkFacts DEF Table
  <2> QED
    BY <1>5, <2>1, <2>2, SeqRange
<1>7. ASSUME NEW l \in Link(s), l.vc_valid, l.is_lcas = c
      PROVE  l.svc_type \in Range(Named(s, c))
  BY <1>1, <1>2, <1>7
<1>8. DOMAIN B = 1 .. Len(Named(s, c))
  BY <1>2, <1>3
<1>9. ASSUME NEW k \in DOMAIN B
      PROVE  B[k] \in [0 .. MaxLen -> Seq(Link(s))]
  <2>1. B[k] = [i \in 0 .. MaxLen |-> Keep(of, {l \in Range(of) : l.svc_type = Named(s, c)[k] /\ l.sq = i})]
    BY <1>3
  <2>2. \A i \in 0 .. MaxLen : Keep(of, {l \in Range(of) : l.svc_type = Named(s, c)[k] /\ l.sq = i}) \in Seq(Link(s))
    BY <1>1, KeepFacts
  <2> QED
    BY <2>1, <2>2
<1> QED
  BY <1>2, <1>4, <1>5, <1>6, <1>7, <1>8, <1>9 DEF B

\* The first number without links is found.
LEMMA FirstFreeFacts ==
  ASSUME NEW t, DOMAIN t = 0 .. MaxLen, t[MaxLen] = <<>>
  PROVE  /\ FirstFree(t) \in 0 .. MaxLen
         /\ t[FirstFree(t)] = <<>>
         /\ \A j \in 0 .. FirstFree(t) - 1 : t[j] # <<>>
<1> DEFINE T == {i \in 0 .. MaxLen : t[i] = <<>>}
<1>0. MaxLen \in Nat
  BY GrpSmAssumption
<1>1. T # {} /\ T \subseteq Nat
  BY <1>0
<1>2. PICK i \in T : \A j \in T : i <= j
  BY <1>1, Least
<1>3. \A j \in 0 .. i - 1 : t[j] # <<>>
  <2>1. SUFFICES ASSUME NEW j \in 0 .. i - 1, t[j] = <<>> PROVE FALSE
    OBVIOUS
  <2>2. j \in T /\ i \in Nat /\ j < i
    BY <1>0, <2>1
  <2>3. i <= j
    BY <1>2, <2>2
  <2> QED
    BY <2>2, <2>3
<1>4. \E x \in DOMAIN t : t[x] = <<>> /\ \A j \in 0 .. x - 1 : t[j] # <<>>
  BY <1>2, <1>3
<1> QED
  BY <1>4 DEF FirstFree

(* The entries of a table are members of groups, and those that arrive are there. *)
LEMMA MemberInTable ==
  ASSUME NEW s \in Fleets, NEW n \in DOMAIN s, NEW i \in 1 .. s[n].len, s[n].lost # i - 1
  PROVE  LinkOf(s, n, i) \in Table(s, s[n].lcas, s[n].svc, i - 1)
<1>1. LinkOf(s, n, i) \in Link(s)
  BY DEF Link
<1>2. LinkOf(s, n, i).vc_valid
  BY DEF LinkOf
<1>3. LinkOf(s, n, i).is_lcas = s[n].lcas /\ LinkOf(s, n, i).svc_type = s[n].svc /\ LinkOf(s, n, i).sq = i - 1
  BY DEF LinkOf
<1> QED
  BY <1>1, <1>2, <1>3 DEF Table

\* A link of a table is the member of a group at its number.
LEMMA TableOfMembers ==
  ASSUME NEW s \in Fleets, NEW c, NEW svc, NEW j, NEW l \in Table(s, c, svc, j)
  PROVE  \E n \in DOMAIN s :
           s[n].lcas = c /\ s[n].svc = svc /\ j + 1 \in 1 .. s[n].len /\ l = LinkOf(s, n, j + 1)
<1>1. l \in Link(s) /\ l.is_lcas = c /\ l.svc_type = svc /\ l.sq = j
  BY DEF Table
<1>2. PICK n \in DOMAIN s : \E i \in 1 .. s[n].len : l = LinkOf(s, n, i)
  BY <1>1, LinkFacts
<1>3. PICK i \in 1 .. s[n].len : l = LinkOf(s, n, i)
  BY <1>2
<1>4. l.is_lcas = s[n].lcas /\ l.svc_type = s[n].svc /\ l.sq = i - 1
  BY <1>3 DEF LinkOf
<1>5. i = j + 1
  <2>1. i \in Int /\ j = i - 1
    BY <1>1, <1>4, FleetFacts
  <2> QED
    BY <2>1
<1> QED
  BY <1>1, <1>3, <1>4, <1>5

-----------------------------------------------------------------------------
(* The groups with LCAS. *)

\* The channels of a group of links.
LEMMA ChannelsFacts ==
  ASSUME NEW G, NEW s \in Seq(G)
  PROVE  /\ Channels(s) \in Seq({l.channel : l \in G}) /\ Len(Channels(s)) = Len(s)
         /\ \A i \in 1 .. Len(s) : Channels(s)[i] = s[i].channel
<1>1. DOMAIN s = 1 .. Len(s) /\ Len(s) \in Nat /\ \A i \in 1 .. Len(s) : s[i] \in G
  BY LenProperties
<1>2. Channels(s) \in [1 .. Len(s) -> {l.channel : l \in G}]
  BY <1>1 DEF Channels
<1> QED
  BY <1>1, <1>2, SeqFun DEF Channels

\* What get_lcas_from_svc works with: the last members, those that found a link at
\* each number below, and the group of one of them.
LastMembers(t) ==
  FlattenSeq([i \in 1 .. FirstFree(t) |->
    Keep(t[FirstFree(t) - i], {l \in Range(t[FirstFree(t) - i]) : l.is_last_member})])
Found(t, lm, j) == Keep(t[j], {l \in Range(t[j]) : Matches(lm, l)})
Complete(t) ==
  Keep(LastMembers(t), {lm \in Range(LastMembers(t)) : \A j \in 0 .. lm.sq - 1 : Found(t, lm, j) # <<>>})
GroupOf(t, lm) == [i \in 1 .. lm.sq + 1 |-> IF i = lm.sq + 1 THEN lm ELSE Head(Found(t, lm, i - 1))]

\* get_lcas_from_svc by the parts named above.
LEMMA LcasUnfolds ==
  ASSUME NEW t
  PROVE  get_lcas_from_svc(t) = [n \in DOMAIN Complete(t) |-> Channels(GroupOf(t, Complete(t)[n]))]
BY DEF get_lcas_from_svc, LastMembers, Found, Complete, GroupOf

\* The last members are looked for below the first number without links.
LEMMA LastMembersFacts ==
  ASSUME NEW G, NEW t, DOMAIN t = 0 .. MaxLen, t[MaxLen] = <<>>,
         \A i \in 0 .. MaxLen : t[i] \in Seq(G)
  PROVE  /\ LastMembers(t) \in Seq(G)
         /\ Range(LastMembers(t)) =
              {l \in UNION {Range(t[j]) : j \in 0 .. FirstFree(t) - 1} : l.is_last_member}
<1> DEFINE top == FirstFree(t)
           LastAt(j) == {l \in Range(t[j]) : l.is_last_member}
           ss == [i \in 1 .. top |-> Keep(t[top - i], LastAt(top - i))]
<1>1. top \in 0 .. MaxLen /\ top \in Nat /\ MaxLen \in Nat
  BY FirstFreeFacts, GrpSmAssumption
<1> HIDE DEF top
<1>2. ASSUME NEW i \in 1 .. top
      PROVE  /\ top - i \in 0 .. top - 1
             /\ Keep(t[top - i], LastAt(top - i)) \in Seq(G)
             /\ Range(Keep(t[top - i], LastAt(top - i))) = LastAt(top - i)
  <2>1. top - i \in 0 .. MaxLen /\ top - i \in 0 .. top - 1
    BY <1>1
  <2>2. t[top - i] \in Seq(G)
    BY <2>1
  <2>3. Range(Keep(t[top - i], LastAt(top - i))) = Range(t[top - i]) \cap LastAt(top - i)
    BY <2>2, KeepFacts
  <2>4. Range(t[top - i]) \cap LastAt(top - i) = LastAt(top - i)
    OBVIOUS
  <2> QED
    BY <2>1, <2>2, <2>3, <2>4, KeepFacts
<1> HIDE DEF LastAt
<1>3. ss \in Seq(Seq(G)) /\ DOMAIN ss = 1 .. top
  <2>1. ss \in [1 .. top -> Seq(G)]
    BY <1>2
  <2> QED
    BY <1>1, <2>1, SeqFun
<1>4. \A i \in 1 .. top : ss[i] = Keep(t[top - i], LastAt(top - i))
  OBVIOUS
<1>5. LastMembers(t) = FlattenSeq(ss)
  BY DEF LastMembers, LastAt, top
<1> HIDE DEF ss
<1>6. FlattenSeq(ss) \in Seq(G) /\ Range(FlattenSeq(ss)) = UNION {Range(ss[i]) : i \in DOMAIN ss}
  BY <1>3, FlattenFacts
<1>7. \A l : l \in UNION {Range(ss[i]) : i \in DOMAIN ss} <=> \E j \in 0 .. top - 1 : l \in LastAt(j)
  <2>1. ASSUME NEW l, NEW i \in 1 .. top, l \in Range(ss[i]) PROVE \E j \in 0 .. top - 1 : l \in LastAt(j)
    BY <1>2, <1>4, <2>1
  <2>2. ASSUME NEW l, NEW j \in 0 .. top - 1, l \in LastAt(j) PROVE \E i \in 1 .. top : l \in Range(ss[i])
    <3>1. top - j \in 1 .. top /\ top - (top - j) = j
      BY <1>1
    <3> QED
      BY <1>2, <1>4, <2>2, <3>1
  <2> QED
    BY <1>3, <2>1, <2>2
<1>8. \A l : l \in {m \in UNION {Range(t[j]) : j \in 0 .. top - 1} : m.is_last_member}
             <=> \E j \in 0 .. top - 1 : l \in LastAt(j)
  BY DEF LastAt
<1> QED
  BY <1>5, <1>6, <1>7, <1>8 DEF top

\* The links that match a last member at a number.
LEMMA FoundFacts ==
  ASSUME NEW G, NEW t, NEW lm, NEW j, t[j] \in Seq(G)
  PROVE  /\ Found(t, lm, j) \in Seq(G)
         /\ Range(Found(t, lm, j)) = {l \in Range(t[j]) : Matches(lm, l)}
         /\ Found(t, lm, j) # <<>> => Head(Found(t, lm, j)) \in Range(Found(t, lm, j))
<1> DEFINE T == {l \in Range(t[j]) : Matches(lm, l)}
<1>1. Keep(t[j], T) \in Seq(G) /\ Range(Keep(t[j], T)) = Range(t[j]) \cap T
  BY KeepFacts
<1>2. Range(t[j]) \cap T = T
  OBVIOUS
<1>3. Found(t, lm, j) \in Seq(G) /\ Range(Found(t, lm, j)) = T
  BY <1>1, <1>2 DEF Found
<1>4. ASSUME NEW f \in Seq(G), f # <<>> PROVE Head(f) \in Range(f)
  <2>1. Len(f) \in Nat \ {0} /\ DOMAIN f = 1 .. Len(f) /\ Head(f) = f[1]
    BY <1>4, EmptySeq, LenProperties
  <2> QED
    BY <2>1 DEF Range
<1> QED
  BY <1>3, <1>4

(* The groups given are made of the links of the table, and none is empty. *)
LEMMA LcasGroups ==
  ASSUME NEW s \in Fleets, NEW G, G \subseteq Link(s),
         NEW t, DOMAIN t = 0 .. MaxLen, t[MaxLen] = <<>>, \A i \in 0 .. MaxLen : t[i] \in Seq(G)
  PROVE  /\ get_lcas_from_svc(t) \in Seq(Seq({l.channel : l \in G}))
         /\ \A g \in Range(get_lcas_from_svc(t)) : g # <<>>
         /\ \A lm \in Range(Complete(t)) : Channels(GroupOf(t, lm)) \in Range(get_lcas_from_svc(t))
         /\ Range(Complete(t)) =
              {lm \in Range(LastMembers(t)) : \A j \in 0 .. lm.sq - 1 : Found(t, lm, j) # <<>>}
<1> DEFINE C == {l.channel : l \in G}
           Ok == {lm \in Range(LastMembers(t)) : \A j \in 0 .. lm.sq - 1 : Found(t, lm, j) # <<>>}
<1>1. Complete(t) \in Seq(G) /\ Range(Complete(t)) = Range(LastMembers(t)) \cap Ok
  <2>1. LastMembers(t) \in Seq(G)
    BY LastMembersFacts
  <2>2. Complete(t) = Keep(LastMembers(t), Ok)
    BY DEF Complete
  <2> HIDE DEF Ok
  <2> QED
    BY <2>1, <2>2, KeepFacts
<1>2. Range(Complete(t)) = Ok
  BY <1>1
<1>3. ASSUME NEW lm \in Ok
      PROVE  Channels(GroupOf(t, lm)) \in Seq(C) /\ Channels(GroupOf(t, lm)) # <<>>
  <2>1. lm \in G /\ lm.sq \in 0 .. MaxLen - 1 /\ MaxLen \in Nat /\ lm.sq + 1 \in Nat \ {0}
    <3>1. lm \in Range(Complete(t))
      BY <1>2
    <3>2. lm \in G /\ lm \in Link(s)
      BY <1>1, <3>1, SeqRange
    <3>3. lm.sq \in 0 .. MaxLen - 1
      BY <3>2, LinkFacts
    <3> QED
      BY <3>2, <3>3, GrpSmAssumption
  <2>2. ASSUME NEW i \in 1 .. lm.sq + 1, i # lm.sq + 1 PROVE Head(Found(t, lm, i - 1)) \in G
    <3>1. i - 1 \in 0 .. lm.sq - 1 /\ i - 1 \in 0 .. MaxLen
      BY <2>1, <2>2
    <3>2. Found(t, lm, i - 1) # <<>> /\ t[i - 1] \in Seq(G)
      BY <3>1
    <3>3. Head(Found(t, lm, i - 1)) \in Range(t[i - 1])
      BY <3>2, FoundFacts
    <3> QED
      BY <3>2, <3>3, SeqRange
  <2>3. GroupOf(t, lm) \in [1 .. lm.sq + 1 -> G]
    BY <2>1, <2>2 DEF GroupOf
  <2>4. GroupOf(t, lm) \in Seq(G) /\ Len(GroupOf(t, lm)) = lm.sq + 1
    <3> HIDE DEF C, Ok
    <3>1. lm.sq + 1 \in Nat
      BY <2>1
    <3> QED
      BY <2>3, <3>1, SeqFun
  <2>5. Channels(GroupOf(t, lm)) \in Seq(C) /\ Len(Channels(GroupOf(t, lm))) = lm.sq + 1
    BY <2>4, ChannelsFacts
  <2> QED
    BY <2>1, <2>5
<1>4. DOMAIN Complete(t) = 1 .. Len(Complete(t)) /\ Len(Complete(t)) \in Nat
  BY <1>1, LenProperties
<1>5. \A n \in DOMAIN Complete(t) : Complete(t)[n] \in Ok
  BY <1>2 DEF Range
<1> HIDE DEF C, Ok
<1>6. get_lcas_from_svc(t) \in [1 .. Len(Complete(t)) -> Seq(C)]
  BY <1>3, <1>4, <1>5, LcasUnfolds
<1>7. get_lcas_from_svc(t) \in Seq(Seq(C)) /\ DOMAIN get_lcas_from_svc(t) = DOMAIN Complete(t)
  BY <1>4, <1>6, SeqFun
<1>8. \A n \in DOMAIN Complete(t) : get_lcas_from_svc(t)[n] = Channels(GroupOf(t, Complete(t)[n]))
  BY LcasUnfolds
<1>9. \A g \in Range(get_lcas_from_svc(t)) : g # <<>>
  BY <1>3, <1>5, <1>7, <1>8 DEF Range
<1>10. \A lm \in Range(Complete(t)) : Channels(GroupOf(t, lm)) \in Range(get_lcas_from_svc(t))
  BY <1>7, <1>8 DEF Range
<1> QED
  BY <1>2, <1>7, <1>9, <1>10 DEF C, Ok

\* No other group of the kind and of the service has an identifier and the number of group n.
Alone(s, n, c) ==
  \A m \in DOMAIN s \ {n} :
    s[m].lcas = c /\ s[m].svc = s[n].svc /\ s[m].mfi = s[n].mfi => s[m].gid \cap s[n].gid = {}

\* A group that is whole and alone is given for its service.
LEMMA LcasWhole ==
  ASSUME NEW s \in Fleets, NEW c, NEW k \in DOMAIN Bundles(LinkInfo(s), c), NEW n \in DOMAIN s,
         s[n].lcas = c, s[n].gid # {}, s[n].lost = -1, s[n].svc = Named(s, c)[k], Alone(s, n, c)
  PROVE  [i \in 1 .. s[n].len |-> <<n, i - 1>>] \in Range(get_lcas_from_svc(Bundles(LinkInfo(s), c)[k]))
<1> DEFINE t == Bundles(LinkInfo(s), c)[k]
           len == s[n].len
           lm == LinkOf(s, n, len)
           svc == s[n].svc
<1>1. /\ DOMAIN t = 0 .. MaxLen /\ t[MaxLen] = <<>>
      /\ \A i \in 0 .. MaxLen : t[i] \in Seq(Link(s)) /\ Range(t[i]) = Table(s, c, svc, i)
  BY BundleFacts
<1> HIDE DEF t
<1>2. len \in 1 .. MaxLen /\ len \in Nat /\ MaxLen \in Nat
  BY FleetFacts
<1>3. ASSUME NEW i \in 1 .. len
      PROVE  i - 1 \in 0 .. MaxLen /\ LinkOf(s, n, i) \in Range(t[i - 1])
  <2>1. i - 1 \in 0 .. MaxLen /\ s[n].lost # i - 1
    BY <1>2
  <2>2. LinkOf(s, n, i) \in Table(s, c, svc, i - 1)
    BY <1>2, <2>1, MemberInTable
  <2> QED
    BY <1>1, <2>1, <2>2
<1>4. FirstFree(t) \in 0 .. MaxLen /\ len - 1 \in 0 .. FirstFree(t) - 1
  <2>1. FirstFree(t) \in 0 .. MaxLen /\ t[FirstFree(t)] = <<>>
    BY <1>1, FirstFreeFacts
  <2>2. ASSUME FirstFree(t) < len PROVE FALSE
    <3>1. FirstFree(t) + 1 \in 1 .. len /\ (FirstFree(t) + 1) - 1 = FirstFree(t)
      BY <1>2, <2>1, <2>2
    <3>2. Range(t[FirstFree(t)]) # {}
      BY <1>3, <3>1
    <3> QED
      BY <2>1, <3>2, SmallSeqs
  <2> QED
    BY <1>2, <2>1, <2>2
<1>5. lm.sq = len - 1 /\ lm.sq + 1 = len /\ lm.is_last_member /\ lm.gid = s[n].gid /\ lm.mfi = s[n].mfi
  <2>1. lm.sq = len - 1 /\ lm.is_last_member = (len = s[n].len) /\ lm.gid = s[n].gid /\ lm.mfi = s[n].mfi
    BY DEF LinkOf
  <2>2. (len - 1) + 1 = len
    BY <1>2
  <2> HIDE DEF lm
  <2> QED
    BY <2>1, <2>2
<1>6. lm \in Range(LastMembers(t))
  <2>1. len \in 1 .. len
    BY <1>2
  <2>2. lm \in Range(t[len - 1])
    BY <1>3, <2>1
  <2> HIDE DEF lm
  <2>3. lm \in UNION {Range(t[j]) : j \in 0 .. FirstFree(t) - 1}
    BY <1>4, <2>2
  <2>4. Range(LastMembers(t)) = {l \in UNION {Range(t[j]) : j \in 0 .. FirstFree(t) - 1} : l.is_last_member}
    BY <1>1, LastMembersFacts
  <2> QED
    BY <1>5, <2>3, <2>4
<1>7. ASSUME NEW i \in 1 .. len - 1
      PROVE  Found(t, lm, i - 1) # <<>> /\ Head(Found(t, lm, i - 1)) = LinkOf(s, n, i)
  <2>1. i \in 1 .. len /\ i - 1 \in 0 .. MaxLen
    BY <1>2
  <2>2. /\ Found(t, lm, i - 1) \in Seq(Link(s))
        /\ Range(Found(t, lm, i - 1)) = {l \in Range(t[i - 1]) : Matches(lm, l)}
        /\ Found(t, lm, i - 1) # <<>> => Head(Found(t, lm, i - 1)) \in Range(Found(t, lm, i - 1))
    BY <1>1, <2>1, FoundFacts
  <2>3. Matches(lm, LinkOf(s, n, i))
    <3>1. LinkOf(s, n, i).gid = s[n].gid /\ LinkOf(s, n, i).mfi = s[n].mfi
      BY DEF LinkOf
    <3>2. s[n].gid \cap s[n].gid # {}
      BY <1>2
    <3> HIDE DEF lm
    <3> QED
      BY <1>5, <3>1, <3>2 DEF Matches
  <2>4. ASSUME NEW l \in Range(t[i - 1]), Matches(lm, l) PROVE l = LinkOf(s, n, i)
    <3>1. l \in Table(s, c, svc, i - 1)
      BY <1>1, <2>1
    <3>2. PICK m \in DOMAIN s :
            s[m].lcas = c /\ s[m].svc = svc /\ (i - 1) + 1 \in 1 .. s[m].len /\ l = LinkOf(s, m, (i - 1) + 1)
      BY <3>1, TableOfMembers
    <3>3. (i - 1) + 1 = i
      BY <1>2
    <3>4. l.gid = s[m].gid /\ l.mfi = s[m].mfi
      BY <3>2 DEF LinkOf
    <3>5. s[n].gid \cap s[m].gid # {} /\ s[n].mfi = s[m].mfi
      BY <1>5, <2>4, <3>4 DEF Matches
    <3>6. s[m].gid \cap s[n].gid # {}
      BY <3>5
    <3>7. m = n
      BY <3>2, <3>5, <3>6 DEF Alone
    <3> QED
      BY <3>2, <3>3, <3>7
  <2>5. LinkOf(s, n, i) \in Range(Found(t, lm, i - 1))
    BY <1>3, <2>1, <2>2, <2>3
  <2>6. Found(t, lm, i - 1) # <<>>
    BY <2>5, SmallSeqs
  <2> QED
    BY <2>2, <2>4, <2>6
<1>8. lm \in Range(Complete(t))
  <2>1. \A j \in 0 .. lm.sq - 1 : Found(t, lm, j) # <<>>
    <3>1. SUFFICES ASSUME NEW j \in 0 .. lm.sq - 1 PROVE Found(t, lm, j) # <<>>
      OBVIOUS
    <3>2. j + 1 \in 1 .. len - 1 /\ (j + 1) - 1 = j
      BY <1>2, <1>5
    <3> QED
      BY <1>7, <3>2
  <2> HIDE DEF lm
  <2> QED
    BY <1>1, <1>6, <2>1, LcasGroups
<1>9. Channels(GroupOf(t, lm)) = [i \in 1 .. len |-> <<n, i - 1>>]
  <2>1. \A i \in 1 .. len : GroupOf(t, lm)[i] = LinkOf(s, n, i)
    <3>1. SUFFICES ASSUME NEW i \in 1 .. len PROVE GroupOf(t, lm)[i] = LinkOf(s, n, i)
      OBVIOUS
    <3>2. CASE i = len
      BY <1>5, <3>2 DEF GroupOf
    <3>3. CASE i # len
      <4>1. i \in 1 .. len - 1
        BY <1>2, <3>3
      <4>2. Head(Found(t, lm, i - 1)) = LinkOf(s, n, i)
        BY <1>7, <4>1
      <4> HIDE DEF lm
      <4> QED
        BY <1>5, <3>3, <4>2 DEF GroupOf
    <3> QED
      BY <3>2, <3>3
  <2>2. DOMAIN GroupOf(t, lm) = 1 .. len
    BY <1>5 DEF GroupOf
  <2>3. \A i \in 1 .. len : LinkOf(s, n, i).channel = <<n, i - 1>>
    BY DEF LinkOf
  <2> HIDE DEF lm
  <2> QED
    BY <2>1, <2>2, <2>3 DEF Channels
<1>10. Channels(GroupOf(t, lm)) \in Range(get_lcas_from_svc(t))
  <2> HIDE DEF lm
  <2> QED
    BY <1>1, <1>8, LcasGroups
<1> QED
  BY <1>9, <1>10 DEF t

-----------------------------------------------------------------------------
(* The groups of a round: every choice of a link for each sequence number. *)

\* Quotient and remainder.
LEMMA DivMod ==
  ASSUME NEW a \in Nat, NEW b \in Nat \ {0}
  PROVE  a \div b \in Nat /\ a % b \in 0 .. b - 1 /\ a = b * (a \div b) + (a % b)
OBVIOUS

\* They are unique.
LEMMA DivUnique ==
  ASSUME NEW a \in Nat, NEW b \in Nat \ {0}, NEW q \in Nat, NEW r \in 0 .. b - 1, a = b * q + r
  PROVE  a \div b = q /\ a % b = r
OBVIOUS

\* To divide by a product is to divide twice.
LEMMA NestedDiv ==
  ASSUME NEW a \in Nat, NEW b \in Nat \ {0}, NEW c \in Nat \ {0}
  PROVE  (a \div b) \div c = a \div (b * c) /\ b * c \in Nat \ {0}
<1> DEFINE q == a \div b
           r == a % b
           p == q \div c
           d == q % c
<1>1. q \in Nat /\ r \in 0 .. b - 1 /\ a = b * q + r
  BY DivMod
<1>2. p \in Nat /\ d \in 0 .. c - 1 /\ q = c * p + d
  BY <1>1, DivMod
<1> HIDE DEF q, r, p, d
<1>3. b * c \in Nat \ {0}
  OBVIOUS
<1>4. b * q = (b * c) * p + b * d
  BY <1>1, <1>2
<1>5. b * d + r \in 0 .. b * c - 1
  <2>1. b * d + b = b * (d + 1)
    BY <1>2
  <2>2. b * (d + 1) <= b * c
    BY <1>2
  <2>3. b * d >= 0 /\ b * d \in Int
    BY <1>2
  <2> QED
    BY <1>1, <1>3, <2>1, <2>2, <2>3
<1>6. a = (b * c) * p + (b * d + r)
  BY <1>1, <1>2, <1>4
<1>7. a \div (b * c) = p
  BY <1>2, <1>3, <1>5, <1>6, DivUnique
<1> QED
  BY <1>3, <1>7 DEF p, q

\* cm[i] is the product of the first i numbers of num, which are the radices of the
\* digits of a group number.
Radix(cm, num, m) ==
  /\ m \in Nat
  /\ \A i \in 0 .. m : num[i] \in Nat \ {0}
  /\ cm[0] = 1
  /\ \A i \in 0 .. m : cm[i + 1] = cm[i] * num[i]
  /\ \A i \in 0 .. m + 1 : cm[i] \in Nat \ {0}
Digit(cm, num, y, i) == (y \div cm[i]) % num[i]

\* A digit of a group number is below its radix.
LEMMA DigitFacts ==
  ASSUME NEW cm, NEW num, NEW m, Radix(cm, num, m), NEW y \in Nat, NEW i \in 0 .. m
  PROVE  /\ Digit(cm, num, y, i) \in 0 .. num[i] - 1
         /\ y \div cm[i] \in Nat
         /\ y \div cm[i] = num[i] * (y \div cm[i + 1]) + Digit(cm, num, y, i)
<1>1. cm[i] \in Nat \ {0} /\ num[i] \in Nat \ {0} /\ cm[i + 1] = cm[i] * num[i]
  BY DEF Radix
<1>2. y \div cm[i] \in Nat
  BY <1>1, DivMod
<1>3. (y \div cm[i]) \div num[i] = y \div cm[i + 1]
  BY <1>1, NestedDiv
<1> DEFINE q == y \div cm[i]
<1> HIDE DEF q
<1>4. q \in Nat /\ num[i] \in Nat \ {0}
  BY <1>1, <1>2 DEF q
<1>5. q % num[i] \in 0 .. num[i] - 1 /\ q = num[i] * (q \div num[i]) + (q % num[i])
  BY <1>4, DivMod
<1> QED
  BY <1>2, <1>3, <1>5 DEF q, Digit

(* Different numbers have different digits. *)
LEMMA DigitsDiffer ==
  ASSUME NEW cm, NEW num, NEW m, Radix(cm, num, m),
         NEW y \in 0 .. cm[m + 1] - 1, NEW z \in 0 .. cm[m + 1] - 1,
         \A i \in 0 .. m : Digit(cm, num, y, i) = Digit(cm, num, z, i)
  PROVE  y = z
<1> DEFINE T == {k \in Nat : k <= m + 1 => y \div cm[m + 1 - k] = z \div cm[m + 1 - k]}
<1>1. m \in Nat /\ m + 1 \in 0 .. m + 1 /\ cm[m + 1] \in Nat \ {0} /\ cm[0] = 1 /\ y \in Nat /\ z \in Nat
  BY DEF Radix
<1>2. 0 \in T
  <2>1. ASSUME NEW x \in 0 .. cm[m + 1] - 1 PROVE x \div cm[m + 1] = 0
    <3>1. x = cm[m + 1] * 0 + x
      BY <1>1
    <3> QED
      BY <1>1, <3>1, DivUnique
  <2> QED
    BY <1>1, <2>1
<1>3. ASSUME NEW k \in Nat, k \in T PROVE k + 1 \in T
  <2>1. SUFFICES ASSUME k + 1 <= m + 1
                 PROVE  y \div cm[m + 1 - (k + 1)] = z \div cm[m + 1 - (k + 1)]
    OBVIOUS
  <2>2. m + 1 - (k + 1) \in 0 .. m /\ (m + 1 - (k + 1)) + 1 = m + 1 - k
    BY <1>1, <2>1
  <2>3. y \div cm[m + 1 - k] = z \div cm[m + 1 - k]
    BY <1>1, <1>3, <2>1
  <2> DEFINE i == m + 1 - (k + 1)
  <2> HIDE DEF i
  <2>4. i \in 0 .. m /\ y \div cm[i + 1] = z \div cm[i + 1] /\ Digit(cm, num, y, i) = Digit(cm, num, z, i)
    BY <2>2, <2>3 DEF i
  <2>5. /\ y \div cm[i] = num[i] * (y \div cm[i + 1]) + Digit(cm, num, y, i)
        /\ z \div cm[i] = num[i] * (z \div cm[i + 1]) + Digit(cm, num, z, i)
    BY <1>1, <2>4, DigitFacts
  <2>6. y \div cm[i] = z \div cm[i]
    BY <2>4, <2>5
  <2> QED
    BY <2>6 DEF i
<1>4. m + 1 \in T
  <2> HIDE DEF T
  <2> QED
    BY <1>1, <1>2, <1>3, NatSet
<1>5. y \div cm[0] = z \div cm[0]
  <2>1. m + 1 - (m + 1) = 0 /\ m + 1 <= m + 1
    BY <1>1
  <2> QED
    BY <1>4, <2>1
<1>6. y \div 1 = y /\ z \div 1 = z
  BY <1>1
<1> QED
  BY <1>1, <1>5, <1>6

(* A later product is a multiple of an earlier one. *)
LEMMA RadixMultiple ==
  ASSUME NEW cm, NEW num, NEW m, Radix(cm, num, m), NEW i \in 0 .. m, NEW k \in i + 1 .. m + 1
  PROVE  \E w \in Nat : cm[k] = cm[i] * (num[i] * w)
<1> DEFINE T == {n \in Nat : i + 1 + n <= m + 1 => \E w \in Nat : cm[i + 1 + n] = cm[i] * (num[i] * w)}
<1>1. m \in Nat /\ i \in Nat /\ cm[i] \in Nat \ {0} /\ num[i] \in Nat \ {0} /\ cm[i + 1] = cm[i] * num[i]
  BY DEF Radix
<1>2. 0 \in T
  <2>1. cm[i + 1 + 0] = cm[i] * (num[i] * 1)
    BY <1>1
  <2> QED
    BY <2>1
<1>3. ASSUME NEW n \in Nat, n \in T PROVE n + 1 \in T
  <2>1. SUFFICES ASSUME i + 1 + (n + 1) <= m + 1 PROVE \E w \in Nat : cm[i + 1 + (n + 1)] = cm[i] * (num[i] * w)
    OBVIOUS
  <2>2. PICK w \in Nat : cm[i + 1 + n] = cm[i] * (num[i] * w)
    BY <1>1, <1>3, <2>1
  <2>3. i + 1 + n \in 0 .. m /\ i + 1 + (n + 1) = (i + 1 + n) + 1
    BY <1>1, <2>1
  <2>4. cm[i + 1 + (n + 1)] = cm[i + 1 + n] * num[i + 1 + n] /\ num[i + 1 + n] \in Nat
    BY <2>3 DEF Radix
  <2> DEFINE b == num[i + 1 + n]
             a == num[i]
             c == cm[i]
  <2> HIDE DEF a, b, c
  <2>5. a \in Nat /\ b \in Nat /\ c \in Nat
    BY <1>1, <2>4 DEF a, b, c
  <2>6. (c * (a * w)) * b = c * (a * (w * b)) /\ w * b \in Nat
    BY <2>5
  <2>7. cm[i + 1 + (n + 1)] = c * (a * (w * b))
    BY <2>2, <2>4, <2>6 DEF a, b, c
  <2> QED
    BY <2>6, <2>7 DEF a, c
<1>4. k - (i + 1) \in Nat /\ i + 1 + (k - (i + 1)) = k /\ k <= m + 1
  BY <1>1
<1>5. k - (i + 1) \in T
  <2> HIDE DEF T
  <2> QED
    BY <1>2, <1>3, <1>4, NatSet
<1> QED
  BY <1>4, <1>5

(* Digits below place k stay when a multiple of the product for k is added. *)
LEMMA DigitStays ==
  ASSUME NEW cm, NEW num, NEW m, Radix(cm, num, m), NEW k \in 0 .. m + 1, NEW i \in 0 .. k - 1,
         NEW y \in Nat, NEW d \in Nat
  PROVE  Digit(cm, num, y + cm[k] * d, i) = Digit(cm, num, y, i)
<1>1. m \in Nat /\ i \in 0 .. m /\ k \in i + 1 .. m + 1
  BY DEF Radix
<1>2. PICK w \in Nat : cm[k] = cm[i] * (num[i] * w)
  BY <1>1, RadixMultiple
<1> DEFINE a == num[i]
           c == cm[i]
           q == y \div c
           r == y % c
           p == q \div a
           g == q % a
           x == y + cm[k] * d
<1>3. a \in Nat \ {0} /\ c \in Nat \ {0}
  BY <1>1 DEF Radix
<1> HIDE DEF a, c
<1>4. q \in Nat /\ r \in 0 .. c - 1 /\ y = c * q + r
  BY <1>3, DivMod
<1> HIDE DEF q, r
<1>5. p \in Nat /\ g \in 0 .. a - 1 /\ q = a * p + g
  BY <1>3, <1>4, DivMod
<1> HIDE DEF p, g
<1>6. x = c * (q + a * (w * d)) + r
  <2>1. cm[k] * d = c * (a * (w * d))
    <3>1. cm[k] = c * (a * w)
      BY <1>2 DEF a, c
    <3>2. (c * (a * w)) * d = c * (a * (w * d))
      BY <1>3
    <3> QED
      BY <3>1, <3>2
  <2>2. a * (w * d) \in Nat
    BY <1>3
  <2>3. c * (q + a * (w * d)) = c * q + c * (a * (w * d))
    BY <1>3, <1>4, <2>2
  <2> QED
    BY <1>3, <1>4, <2>1, <2>2, <2>3
<1>7. q + a * (w * d) \in Nat /\ x \in Nat
  <2>1. a * (w * d) \in Nat
    BY <1>3
  <2>2. c * (q + a * (w * d)) \in Nat
    BY <1>3, <1>4, <2>1
  <2> QED
    BY <1>3, <1>4, <1>6, <2>1, <2>2
<1> HIDE DEF x
<1>8. x \div c = q + a * (w * d)
  <2> DEFINE z == q + a * (w * d)
  <2>1. x = c * z + r /\ z \in Nat /\ x \in Nat /\ c \in Nat \ {0} /\ r \in 0 .. c - 1
    BY <1>3, <1>4, <1>6, <1>7
  <2> HIDE DEF z
  <2>2. x \div c = z
    BY <2>1, DivUnique
  <2> QED
    BY <2>2 DEF z
<1>9. q + a * (w * d) = a * (p + w * d) + g /\ p + w * d \in Nat
  BY <1>3, <1>5
<1>10. (x \div c) % a = g
  <2> DEFINE z == p + w * d
             u == x \div c
  <2>1. u = a * z + g /\ z \in Nat /\ u \in Nat /\ a \in Nat \ {0} /\ g \in 0 .. a - 1
    BY <1>3, <1>5, <1>7, <1>8, <1>9
  <2> HIDE DEF z, u
  <2>2. u % a = g
    BY <2>1, DivUnique
  <2> QED
    BY <2>2 DEF u
<1> QED
  BY <1>10 DEF Digit, a, c, g, q, x

(* Any digits are the digits of a number. *)
LEMMA DigitsAny ==
  ASSUME NEW cm, NEW num, NEW m, Radix(cm, num, m), NEW d, \A i \in 0 .. m : d[i] \in 0 .. num[i] - 1
  PROVE  \E y \in 0 .. cm[m + 1] - 1 : \A i \in 0 .. m : Digit(cm, num, y, i) = d[i]
<1> DEFINE Fits(k, y) == y \in 0 .. cm[k] - 1 /\ \A i \in 0 .. k - 1 : Digit(cm, num, y, i) = d[i]
           T == {k \in Nat : k <= m + 1 => \E y \in Nat : Fits(k, y)}
<1>1. m \in Nat /\ cm[0] = 1
  BY DEF Radix
<1>2. 0 \in T
  <2>1. Fits(0, 0)
    BY <1>1
  <2> QED
    BY <2>1
<1>3. ASSUME NEW k \in Nat, k \in T PROVE k + 1 \in T
  <2>1. SUFFICES ASSUME k + 1 <= m + 1 PROVE \E y \in Nat : Fits(k + 1, y)
    OBVIOUS
  <2>2. PICK y \in Nat : Fits(k, y)
    BY <1>1, <1>3, <2>1
  <2>3. k \in 0 .. m /\ k \in 0 .. m + 1
    BY <1>1, <2>1
  <2> DEFINE c == cm[k]
             a == num[k]
             e == d[k]
             x == y + c * e
  <2>4. c \in Nat \ {0} /\ a \in Nat \ {0} /\ cm[k + 1] = c * a /\ e \in 0 .. a - 1 /\ y \in 0 .. c - 1
    BY <2>2, <2>3 DEF Radix
  <2> HIDE DEF c, a, e
  <2>5. x \in 0 .. c * a - 1
    <3>1. c * e + c = c * (e + 1) /\ c * e \in Nat
      BY <2>4
    <3>2. c * (e + 1) <= c * a
      BY <2>4
    <3>3. c * a \in Nat
      BY <2>4
    <3> QED
      BY <2>4, <3>1, <3>2, <3>3
  <2>6. \A i \in 0 .. k - 1 : Digit(cm, num, x, i) = d[i]
    <3>1. SUFFICES ASSUME NEW i \in 0 .. k - 1 PROVE Digit(cm, num, x, i) = d[i]
      OBVIOUS
    <3>2. Digit(cm, num, y + cm[k] * e, i) = Digit(cm, num, y, i)
      BY <2>3, <2>4, DigitStays
    <3>3. Digit(cm, num, y, i) = d[i]
      BY <2>2
    <3> QED
      BY <3>2, <3>3 DEF c
  <2>7. Digit(cm, num, x, k) = d[k]
    <3>1. x = c * e + y /\ x \in Nat /\ e \in Nat
      <4>1. c * e \in Nat
        BY <2>4
      <4> QED
        BY <2>4, <4>1
    <3>2. x \div c = e
      BY <2>4, <3>1, DivUnique
    <3>3. e = a * 0 + e
      BY <2>4
    <3>4. e % a = e
      BY <2>4, <3>1, <3>3, DivUnique
    <3> HIDE DEF x
    <3> QED
      BY <3>2, <3>4 DEF Digit, a, c, e
  <2>8. Fits(k + 1, x)
    <3>1. \A i \in 0 .. (k + 1) - 1 : i \in 0 .. k - 1 \/ i = k
      OBVIOUS
    <3> HIDE DEF x
    <3> QED
      BY <2>4, <2>5, <2>6, <2>7, <3>1
  <2>9. x \in Nat
    BY <2>8
  <2> QED
    BY <2>8, <2>9
<1>4. m + 1 \in T
  <2>1. m + 1 \in Nat
    BY <1>1
  <2> HIDE DEF T
  <2> QED
    BY <1>2, <1>3, <2>1, NatSet
<1>5. m + 1 <= m + 1 /\ (m + 1) - 1 = m
  BY <1>1
<1> QED
  BY <1>4, <1>5

-----------------------------------------------------------------------------
\* cm of cfg_from_sqlinks, up to n.
Products(f, t, n) == f = [i \in 0 .. n |-> IF i = 0 THEN 1 ELSE f[i - 1] * Len(t[i - 1])]

\* The recursive function cm exists.
LEMMA ProductsExist == ASSUME NEW t, NEW n \in Nat PROVE \E f : Products(f, t, n)
<1> DEFINE T == {k \in Nat : \E f : Products(f, t, k)}
<1>1. 0 \in T
  <2> DEFINE f == [i \in 0 .. 0 |-> 1]
  <2>1. Products(f, t, 0)
    <3>1. \A i \in 0 .. 0 : i = 0
      OBVIOUS
    <3>2. f = [i \in 0 .. 0 |-> IF i = 0 THEN 1 ELSE f[i - 1] * Len(t[i - 1])]
      BY <3>1
    <3> QED
      BY <3>2 DEF Products
  <2> QED
    BY <2>1
<1>2. ASSUME NEW k \in Nat, k \in T PROVE k + 1 \in T
  <2>1. PICK f : Products(f, t, k)
    BY <1>2
  <2> DEFINE g == [i \in 0 .. k + 1 |-> IF i = k + 1 THEN f[k] * Len(t[k]) ELSE f[i]]
  <2>2. \A i \in 0 .. k : f[i] = IF i = 0 THEN 1 ELSE f[i - 1] * Len(t[i - 1])
    BY <2>1 DEF Products
  <2>3. \A i \in 0 .. k + 1 : g[i] = IF i = k + 1 THEN f[k] * Len(t[k]) ELSE f[i]
    OBVIOUS
  <2>4. ASSUME NEW i \in 0 .. k + 1
        PROVE  g[i] = IF i = 0 THEN 1 ELSE g[i - 1] * Len(t[i - 1])
    <3> HIDE DEF g
    <3>1. CASE i = k + 1
      <4>1. i - 1 = k /\ k \in 0 .. k + 1 /\ k # k + 1 /\ i # 0
        BY <3>1
      <4>2. g[k] = f[k] /\ g[i] = f[k] * Len(t[k])
        BY <2>3, <3>1, <4>1
      <4> QED
        BY <4>1, <4>2
    <3>2. CASE i # k + 1 /\ i = 0
      <4>1. 0 \in 0 .. k /\ g[i] = f[i]
        BY <2>3, <3>2
      <4> QED
        BY <2>2, <3>2, <4>1
    <3>3. CASE i # k + 1 /\ i # 0
      <4>1. i \in 0 .. k /\ i - 1 \in 0 .. k + 1 /\ i - 1 # k + 1
        BY <3>3
      <4>2. g[i] = f[i] /\ g[i - 1] = f[i - 1]
        BY <2>3, <3>3, <4>1
      <4>3. f[i] = f[i - 1] * Len(t[i - 1])
        BY <2>2, <3>3, <4>1
      <4> QED
        BY <3>3, <4>2, <4>3
    <3> QED
      BY <3>1, <3>2, <3>3
  <2>5. Products(g, t, k + 1)
    BY <2>4 DEF Products
  <2> QED
    BY <2>5
<1> QED
  BY <1>1, <1>2, NatSet

\* cfg_from_sqlinks with such a function in place of the CHOOSE.
LEMMA CfgUnfolds ==
  ASSUME NEW t, NEW sq \in Nat, \A i \in 0 .. sq : Len(t[i]) \in Nat \ {0}
  PROVE  \E cm : /\ Radix(cm, [i \in 0 .. sq |-> Len(t[i])], sq)
                 /\ cfg_from_sqlinks(t, sq) =
                      [x \in 1 .. cm[sq + 1] |-> [i \in 1 .. sq + 1 |->
                         t[i - 1][(((x - 1) \div cm[i - 1]) % Len(t[i - 1])) + 1].channel]]
<1> DEFINE h == CHOOSE f : f = [i \in 0 .. sq + 1 |-> IF i = 0 THEN 1 ELSE f[i - 1] * Len(t[i - 1])]
           num == [i \in 0 .. sq |-> Len(t[i])]
<1>1. PICK f : f = [i \in 0 .. sq + 1 |-> IF i = 0 THEN 1 ELSE f[i - 1] * Len(t[i - 1])]
  <2>1. sq + 1 \in Nat
    OBVIOUS
  <2> QED
    BY <2>1, ProductsExist DEF Products
<1>2. h = [i \in 0 .. sq + 1 |-> IF i = 0 THEN 1 ELSE h[i - 1] * Len(t[i - 1])]
  BY <1>1
<1>3. cfg_from_sqlinks(t, sq) =
        [x \in 1 .. h[sq + 1] |-> [i \in 1 .. sq + 1 |->
           t[i - 1][(((x - 1) \div h[i - 1]) % Len(t[i - 1])) + 1].channel]]
  BY DEF cfg_from_sqlinks
<1> HIDE DEF h
<1>4. \A i \in 0 .. sq + 1 : h[i] = IF i = 0 THEN 1 ELSE h[i - 1] * Len(t[i - 1])
  BY <1>2
<1>5. h[0] = 1 /\ \A i \in 0 .. sq : h[i + 1] = h[i] * Len(t[i])
  <2>1. 0 \in 0 .. sq + 1
    OBVIOUS
  <2>2. ASSUME NEW i \in 0 .. sq PROVE h[i + 1] = h[i] * Len(t[i])
    <3>1. i + 1 \in 0 .. sq + 1 /\ i + 1 # 0 /\ (i + 1) - 1 = i
      OBVIOUS
    <3>2. h[i + 1] = h[(i + 1) - 1] * Len(t[(i + 1) - 1])
      BY <1>4, <3>1
    <3> QED
      BY <3>1, <3>2
  <2> QED
    BY <1>4, <2>1, <2>2
<1>6. \A i \in 0 .. sq + 1 : h[i] \in Nat \ {0}
  <2> DEFINE T == {k \in Nat : k <= sq + 1 => h[k] \in Nat \ {0}}
  <2>1. 0 \in T
    BY <1>5
  <2>2. ASSUME NEW k \in Nat, k \in T PROVE k + 1 \in T
    <3>1. SUFFICES ASSUME k + 1 <= sq + 1 PROVE h[k + 1] \in Nat \ {0}
      OBVIOUS
    <3>2. k \in 0 .. sq /\ h[k] \in Nat \ {0} /\ Len(t[k]) \in Nat \ {0}
      BY <2>2, <3>1
    <3>3. h[k + 1] = h[k] * Len(t[k])
      BY <1>5, <3>2
    <3>4. \A a, b \in Nat \ {0} : a * b \in Nat \ {0}
      OBVIOUS
    <3> QED
      BY <3>2, <3>3, <3>4
  <2>3. Nat \subseteq T
    <3> HIDE DEF T
    <3> QED
      BY <2>1, <2>2, NatSet
  <2> QED
    BY <2>3
<1>7. Radix(h, num, sq)
  BY <1>5, <1>6 DEF Radix
<1> QED
  BY <1>3, <1>7

\* A choice of a link for each number up to sq, and the group of the links chosen.
LinkChoices(t, sq) ==
  {f \in [0 .. sq -> UNION {Range(t[i]) : i \in 0 .. sq}] : \A i \in 0 .. sq : f[i] \in Range(t[i])}
GroupBy(f, sq) == [i \in 1 .. sq + 1 |-> f[i - 1].channel]

\* grpsm_cfg_from_sqlinks: every choice of links has its group, and no two numbers the same.
LEMMA CfgFacts ==
  ASSUME NEW s \in Fleets, NEW sq \in Nat, NEW t,
         \A i \in 0 .. sq : t[i] \in Seq(Link(s)) /\ IsInjective(t[i]) /\ t[i] # <<>>
  PROVE  /\ Range(cfg_from_sqlinks(t, sq)) = {GroupBy(f, sq) : f \in LinkChoices(t, sq)}
         /\ IsInjective(cfg_from_sqlinks(t, sq))
         /\ cfg_from_sqlinks(t, sq) \in Seq(Seq({l.channel : l \in Link(s)}))
<1> DEFINE C == {l.channel : l \in Link(s)}
           num == [i \in 0 .. sq |-> Len(t[i])]
           cfg == cfg_from_sqlinks(t, sq)
<1>1. \A i \in 0 .. sq : Len(t[i]) \in Nat \ {0} /\ DOMAIN t[i] = 1 .. Len(t[i])
  BY EmptySeq, LenProperties
<1>2. PICK cm : /\ Radix(cm, num, sq)
                /\ cfg = [x \in 1 .. cm[sq + 1] |-> [i \in 1 .. sq + 1 |->
                            t[i - 1][(((x - 1) \div cm[i - 1]) % Len(t[i - 1])) + 1].channel]]
  BY <1>1, CfgUnfolds
<1> DEFINE d(x, i) == Digit(cm, num, x - 1, i)
           N == cm[sq + 1]
<1> HIDE DEF cfg
<1>3. N \in Nat \ {0} /\ DOMAIN cfg = 1 .. N
  BY <1>2 DEF Radix
<1> HIDE DEF N
<1>4. ASSUME NEW x \in 1 .. N, NEW i \in 0 .. sq
      PROVE  d(x, i) \in 0 .. Len(t[i]) - 1 /\ d(x, i) + 1 \in 1 .. Len(t[i]) /\ t[i][d(x, i) + 1] \in Range(t[i])
  <2>1. x - 1 \in Nat /\ num[i] = Len(t[i])
    BY <1>3
  <2>2. d(x, i) \in 0 .. num[i] - 1
    BY <1>2, <2>1, DigitFacts
  <2> HIDE DEF d, num
  <2>3. d(x, i) + 1 \in 1 .. Len(t[i])
    BY <1>1, <2>1, <2>2
  <2> QED
    BY <1>1, <2>1, <2>2, <2>3 DEF Range
<1>5. ASSUME NEW x \in 1 .. N
      PROVE  cfg[x] = [i \in 1 .. sq + 1 |-> t[i - 1][d(x, i - 1) + 1].channel]
  <2>1. \A i \in 1 .. sq + 1 : i - 1 \in 0 .. sq /\ num[i - 1] = Len(t[i - 1])
    OBVIOUS
  <2>2. cfg[x] = [i \in 1 .. sq + 1 |->
                    t[i - 1][(((x - 1) \div cm[i - 1]) % Len(t[i - 1])) + 1].channel]
    BY <1>2 DEF N
  <2>3. \A i \in 1 .. sq + 1 : ((x - 1) \div cm[i - 1]) % Len(t[i - 1]) = d(x, i - 1)
    BY <2>1 DEF Digit
  <2> HIDE DEF d, num
  <2> QED
    BY <2>2, <2>3
<1> HIDE DEF d
<1> DEFINE f(x) == [i \in 0 .. sq |-> t[i][d(x, i) + 1]]
<1>6. ASSUME NEW x \in 1 .. N
      PROVE  f(x) \in LinkChoices(t, sq) /\ cfg[x] = GroupBy(f(x), sq)
  <2>1. f(x) \in LinkChoices(t, sq)
    BY <1>4 DEF LinkChoices
  <2>2. \A i \in 1 .. sq + 1 : i - 1 \in 0 .. sq /\ f(x)[i - 1] = t[i - 1][d(x, i - 1) + 1]
    OBVIOUS
  <2> HIDE DEF f
  <2>3. cfg[x] = GroupBy(f(x), sq)
    BY <1>5, <2>2 DEF GroupBy
  <2> QED
    BY <2>1, <2>3
<1>7. ASSUME NEW g \in LinkChoices(t, sq)
      PROVE  \E x \in 1 .. N : f(x) = g
  <2> DEFINE e == [i \in 0 .. sq |-> (CHOOSE j \in 1 .. Len(t[i]) : t[i][j] = g[i]) - 1]
  <2>1. ASSUME NEW i \in 0 .. sq
        PROVE  e[i] \in 0 .. num[i] - 1 /\ t[i][e[i] + 1] = g[i]
    <3> DEFINE c == CHOOSE j \in 1 .. Len(t[i]) : t[i][j] = g[i]
    <3>1. \E j \in 1 .. Len(t[i]) : t[i][j] = g[i]
      BY <1>1, <2>1 DEF LinkChoices, Range
    <3>2. c \in 1 .. Len(t[i]) /\ t[i][c] = g[i]
      BY <3>1
    <3>3. e[i] = c - 1 /\ num[i] = Len(t[i])
      OBVIOUS
    <3> HIDE DEF c, e, num
    <3>4. Len(t[i]) \in Nat
      BY <1>1
    <3>5. c - 1 \in 0 .. Len(t[i]) - 1 /\ (c - 1) + 1 = c
      BY <3>2, <3>4
    <3> QED
      BY <3>2, <3>3, <3>5
  <2> HIDE DEF e
  <2>2. PICK y \in 0 .. cm[sq + 1] - 1 : \A i \in 0 .. sq : Digit(cm, num, y, i) = e[i]
    <3> HIDE DEF num
    <3> QED
      BY <1>2, <2>1, DigitsAny
  <2>3. y + 1 \in 1 .. N /\ (y + 1) - 1 = y
    BY <1>3, <2>2 DEF N
  <2>4. \A i \in 0 .. sq : d(y + 1, i) = e[i]
    BY <2>2, <2>3 DEF d
  <2>5. f(y + 1) = g
    <3>1. g \in [0 .. sq -> UNION {Range(t[i]) : i \in 0 .. sq}]
      BY DEF LinkChoices
    <3>2. \A i \in 0 .. sq : t[i][d(y + 1, i) + 1] = g[i]
      BY <2>1, <2>4
    <3> QED
      BY <3>1, <3>2
  <2> QED
    BY <2>3, <2>5
<1>8. ASSUME NEW x \in 1 .. N, NEW z \in 1 .. N, cfg[x] = cfg[z]
      PROVE  x = z
  <2>1. ASSUME NEW i \in 0 .. sq PROVE d(x, i) = d(z, i)
    <3>1. i + 1 \in 1 .. sq + 1 /\ (i + 1) - 1 = i
      OBVIOUS
    <3>2. /\ cfg[x][i + 1] = t[i][d(x, i) + 1].channel
          /\ cfg[z][i + 1] = t[i][d(z, i) + 1].channel
      <4>1. ASSUME NEW v \in 1 .. N, NEW j \in 1 .. sq + 1
            PROVE  cfg[v][j] = t[j - 1][d(v, j - 1) + 1].channel
        <5>1. cfg[v] = [o \in 1 .. sq + 1 |-> t[o - 1][d(v, o - 1) + 1].channel]
          BY <1>5
        <5> QED
          BY <5>1
      <4> QED
        BY <3>1, <4>1
    <3>3. t[i][d(x, i) + 1] \in Link(s) /\ t[i][d(z, i) + 1] \in Link(s)
      <4>1. Range(t[i]) \subseteq Link(s)
        BY SeqRange
      <4> QED
        BY <1>4, <4>1
    <3>4. t[i][d(x, i) + 1] = t[i][d(z, i) + 1]
      BY <1>8, <3>2, <3>3, LinkFacts
    <3>5. d(x, i) + 1 = d(z, i) + 1
      BY <1>1, <1>4, <3>4 DEF IsInjective
    <3>6. d(x, i) \in Int /\ d(z, i) \in Int
      BY <1>1, <1>4
    <3> QED
      BY <3>5, <3>6
  <2>2. x - 1 \in 0 .. cm[sq + 1] - 1 /\ z - 1 \in 0 .. cm[sq + 1] - 1
    BY <1>3 DEF N
  <2>3. \A i \in 0 .. sq : Digit(cm, num, x - 1, i) = Digit(cm, num, z - 1, i)
    BY <2>1 DEF d
  <2>4. x - 1 = z - 1
    <3> HIDE DEF num
    <3> QED
      BY <1>2, <2>2, <2>3, DigitsDiffer
  <2> QED
    BY <1>3, <2>4
<1>9. Range(cfg) = {GroupBy(g, sq) : g \in LinkChoices(t, sq)}
  <2>1. ASSUME NEW v \in Range(cfg) PROVE v \in {GroupBy(g, sq) : g \in LinkChoices(t, sq)}
    <3>1. PICK x \in 1 .. N : v = cfg[x]
      BY <1>3 DEF Range
    <3> HIDE DEF f
    <3> QED
      BY <1>6, <3>1
  <2>2. ASSUME NEW g \in LinkChoices(t, sq) PROVE GroupBy(g, sq) \in Range(cfg)
    <3>1. PICK x \in 1 .. N : f(x) = g
      BY <1>7
    <3> HIDE DEF f
    <3>2. cfg[x] = GroupBy(g, sq)
      BY <1>6, <3>1
    <3> QED
      BY <1>3, <3>2 DEF Range
  <2> QED
    BY <2>1, <2>2
<1>10. cfg \in Seq(Seq(C))
  <2>1. ASSUME NEW x \in 1 .. N PROVE cfg[x] \in Seq(C)
    <3>1. \A i \in 1 .. sq + 1 : t[i - 1][d(x, i - 1) + 1].channel \in C
      <4>1. SUFFICES ASSUME NEW i \in 1 .. sq + 1 PROVE t[i - 1][d(x, i - 1) + 1].channel \in C
        OBVIOUS
      <4>2. i - 1 \in 0 .. sq
        OBVIOUS
      <4>3. t[i - 1][d(x, i - 1) + 1] \in Link(s)
        BY <1>4, <4>2, SeqRange
      <4> QED
        BY <4>3
    <3> HIDE DEF C
    <3>2. cfg[x] \in [1 .. sq + 1 -> C]
      BY <1>5, <3>1
    <3> QED
      BY <3>2, SeqFun
  <2> HIDE DEF C
  <2>2. cfg \in [1 .. N -> Seq(C)]
    BY <1>2, <1>3, <2>1
  <2> QED
    BY <1>3, <2>2, SeqFun
<1> QED
  <2>1. IsInjective(cfg)
    BY <1>3, <1>8 DEF IsInjective
  <2> QED
    BY <1>9, <1>10, <2>1 DEF cfg

\* A choice for another table that has the links.
LEMMA ChoiceOf ==
  ASSUME NEW t, NEW u, NEW sq, NEW f \in LinkChoices(t, sq), \A i \in 0 .. sq : f[i] \in Range(u[i])
  PROVE  f \in LinkChoices(u, sq)
BY DEF LinkChoices

\* The multiframe number of a link is near itself.
LEMMA NearItself ==
  ASSUME NEW s \in Fleets, NEW l \in Link(s) PROVE near_mfi(l, l)
<1>1. l.mfi \in Nat /\ Threshold \in Nat
  BY LinkFacts, GrpSmAssumption
<1>2. l.mfi >= l.mfi /\ l.mfi - l.mfi = 0 /\ 0 <= Threshold
  BY <1>1
<1> QED
  BY <1>2 DEF near_mfi

\* The choices of links for a round of groups of length sq + 1.
Rounds(t, sq) == {f \in LinkChoices(t, sq) : \A i \in 0 .. sq : near_mfi(f[sq], f[i])}

\* A round of a service: a group for every choice of links that are near the last one.
LEMMA RoundFacts ==
  ASSUME NEW s \in Fleets, NEW sq \in Nat, NEW t,
         \A i \in 0 .. sq : t[i] \in Seq(Link(s)) /\ IsInjective(t[i])
  PROVE  /\ Range(get_vcs_from_svc_sq(t, sq)) = {GroupBy(f, sq) : f \in Rounds(t, sq)}
         /\ IsInjective(get_vcs_from_svc_sq(t, sq))
         /\ get_vcs_from_svc_sq(t, sq) \in Seq(Seq({l.channel : l \in Link(s)}))
<1> DEFINE C == {l.channel : l \in Link(s)}
           near(b) == init_sqlinks(t, t[sq][b], sq)
           Block(b) == IF \E i \in 0 .. sq : near(b)[i] = <<>> THEN <<>> ELSE cfg_from_sqlinks(near(b), sq)
           n == Len(t[sq])
           ss == [b \in DOMAIN t[sq] |-> Block(b)]
<1>1. sq \in 0 .. sq /\ n \in Nat /\ DOMAIN t[sq] = 1 .. n
  BY LenProperties
<1>2. get_vcs_from_svc_sq(t, sq) = FlattenSeq(ss)
  BY DEF get_vcs_from_svc_sq
<1> HIDE DEF n
<1>3. ASSUME NEW b \in 1 .. n
      PROVE  t[sq][b] \in Link(s) /\ t[sq][b] \in Range(t[sq])
  <2>1. t[sq][b] \in Range(t[sq])
    BY <1>1 DEF Range
  <2> QED
    BY <1>1, <2>1, SeqRange
<1>4. ASSUME NEW b \in 1 .. n, NEW i \in 0 .. sq
      PROVE  /\ near(b)[i] \in Seq(Link(s)) /\ IsInjective(near(b)[i])
             /\ Range(near(b)[i]) =
                  {l \in Range(t[i]) : near_mfi(t[sq][b], l) /\ (i = sq => l = t[sq][b])}
  <2>1. CASE i = sq
    <3>1. near(b)[i] = <<t[sq][b]>>
      BY <2>1 DEF init_sqlinks
    <3>2. Range(<<t[sq][b]>>) = {t[sq][b]} /\ IsInjective(<<t[sq][b]>>) /\ <<t[sq][b]>> \in Seq(Link(s))
      BY <1>3, SmallSeqs
    <3>3. near_mfi(t[sq][b], t[sq][b])
      BY <1>3, NearItself
    <3> HIDE DEF near
    <3>4. {t[sq][b]} = {l \in Range(t[i]) : near_mfi(t[sq][b], l) /\ (i = sq => l = t[sq][b])}
      BY <1>3, <2>1, <3>3
    <3> QED
      BY <3>1, <3>2, <3>4
  <2>2. CASE i # sq
    <3> DEFINE T == {l \in Range(t[i]) : near_mfi(t[sq][b], l)}
    <3>1. near(b)[i] = Keep(t[i], T)
      BY <2>2 DEF init_sqlinks
    <3>2. /\ Keep(t[i], T) \in Seq(Link(s)) /\ Range(Keep(t[i], T)) = Range(t[i]) \cap T
          /\ IsInjective(Keep(t[i], T))
      BY KeepFacts
    <3> HIDE DEF near
    <3>3. Range(t[i]) \cap T = {l \in Range(t[i]) : near_mfi(t[sq][b], l) /\ (i = sq => l = t[sq][b])}
      BY <2>2
    <3> QED
      BY <3>1, <3>2, <3>3
  <2> QED
    BY <2>1, <2>2
<1> HIDE DEF near
<1>5. ASSUME NEW b \in 1 .. n
      PROVE  /\ Range(Block(b)) = {GroupBy(f, sq) : f \in LinkChoices(near(b), sq)}
             /\ IsInjective(Block(b)) /\ Block(b) \in Seq(Seq(C))
  <2>1. CASE \E i \in 0 .. sq : near(b)[i] = <<>>
    <3>1. Block(b) = <<>>
      BY <2>1
    <3>2. LinkChoices(near(b), sq) = {}
      BY <2>1, SmallSeqs DEF LinkChoices
    <3>3. {GroupBy(f, sq) : f \in LinkChoices(near(b), sq)} = {}
      BY <3>2
    <3>4. Range(<<>>) = {} /\ IsInjective(<<>>) /\ <<>> \in Seq(Seq(C))
      BY SmallSeqs, EmptySeq
    <3> HIDE DEF Block
    <3> QED
      BY <3>1, <3>3, <3>4
  <2>2. CASE ~\E i \in 0 .. sq : near(b)[i] = <<>>
    <3>1. Block(b) = cfg_from_sqlinks(near(b), sq)
      BY <2>2
    <3>2. \A i \in 0 .. sq : near(b)[i] \in Seq(Link(s)) /\ IsInjective(near(b)[i]) /\ near(b)[i] # <<>>
      BY <1>4, <2>2
    <3> QED
      BY <3>1, <3>2, CfgFacts
  <2> QED
    BY <2>1, <2>2
<1> HIDE DEF Block
<1>6. ASSUME NEW b \in 1 .. n, NEW f \in LinkChoices(near(b), sq)
      PROVE  f \in Rounds(t, sq) /\ f[sq] = t[sq][b]
  <2>1. \A i \in 0 .. sq : f[i] \in Range(near(b)[i])
    BY DEF LinkChoices
  <2>2. \A i \in 0 .. sq : f[i] \in Range(t[i]) /\ near_mfi(t[sq][b], f[i])
    BY <1>4, <2>1
  <2>3. f[sq] = t[sq][b]
    BY <1>1, <1>4, <2>1
  <2> QED
    BY <2>2, <2>3, ChoiceOf DEF Rounds
<1>7. ASSUME NEW f \in Rounds(t, sq)
      PROVE  \E b \in 1 .. n : f \in LinkChoices(near(b), sq)
  <2>1. f \in LinkChoices(t, sq) /\ \A i \in 0 .. sq : f[i] \in Range(t[i]) /\ near_mfi(f[sq], f[i])
    BY DEF Rounds, LinkChoices
  <2>2. PICK b \in 1 .. n : t[sq][b] = f[sq]
    BY <1>1, <2>1 DEF Range
  <2>3. ASSUME NEW i \in 0 .. sq
        PROVE  f[i] \in Range(near(b)[i])
    <3> HIDE DEF C, ss
    <3>1. f[i] \in Range(t[i]) /\ near_mfi(t[sq][b], f[i]) /\ (i = sq => f[i] = t[sq][b])
      BY <2>1, <2>2
    <3> QED
      BY <1>4, <3>1
  <2>4. f \in LinkChoices(near(b), sq)
    BY <2>1, <2>3, ChoiceOf
  <2> QED
    BY <2>4
<1>8. ss \in Seq(Seq(Seq(C))) /\ DOMAIN ss = 1 .. n /\ \A b \in 1 .. n : ss[b] = Block(b)
  <2> HIDE DEF C
  <2>1. ss \in [1 .. n -> Seq(Seq(C))]
    BY <1>1, <1>5
  <2> QED
    BY <1>1, <2>1, SeqFun
<1> HIDE DEF ss
<1>9. Apart(ss)
  <2>1. ASSUME NEW b \in 1 .. n, NEW a \in 1 .. n, a # b PROVE Range(Block(a)) \cap Range(Block(b)) = {}
    <3>1. SUFFICES ASSUME NEW f \in LinkChoices(near(a), sq), NEW h \in LinkChoices(near(b), sq), GroupBy(f, sq) = GroupBy(h, sq)
                   PROVE  FALSE
      <4>1. SUFFICES ASSUME NEW x \in Range(Block(a)), x \in Range(Block(b)) PROVE FALSE
        BY Zenon
      <4>2. PICK f \in LinkChoices(near(a), sq) : x = GroupBy(f, sq)
        BY <1>5, <4>1
      <4>3. PICK h \in LinkChoices(near(b), sq) : x = GroupBy(h, sq)
        BY <1>5, <4>1
      <4> QED
        BY <3>1, <4>2, <4>3
    <3>2. sq + 1 \in 1 .. sq + 1 /\ (sq + 1) - 1 = sq
      BY <1>1
    <3>3. GroupBy(f, sq)[sq + 1] = f[sq].channel /\ GroupBy(h, sq)[sq + 1] = h[sq].channel
      BY <3>2 DEF GroupBy
    <3>4. f[sq] = t[sq][a] /\ h[sq] = t[sq][b]
      BY <1>6
    <3>5. t[sq][a] = t[sq][b]
      BY <1>3, <3>1, <3>3, <3>4, LinkFacts
    <3> QED
      BY <1>1, <2>1, <3>5 DEF IsInjective
  <2> QED
    BY <1>5, <1>8, <2>1 DEF Apart
<1>10. UNION {Range(ss[b]) : b \in DOMAIN ss} = {GroupBy(f, sq) : f \in Rounds(t, sq)}
  <2>1. ASSUME NEW b \in 1 .. n, NEW g \in Range(ss[b]) PROVE g \in {GroupBy(f, sq) : f \in Rounds(t, sq)}
    <3>1. PICK f \in LinkChoices(near(b), sq) : g = GroupBy(f, sq)
      BY <1>5, <1>8
    <3> QED
      BY <1>6, <3>1
  <2>2. ASSUME NEW f \in Rounds(t, sq) PROVE \E b \in 1 .. n : GroupBy(f, sq) \in Range(ss[b])
    <3>1. PICK b \in 1 .. n : f \in LinkChoices(near(b), sq)
      BY <1>7
    <3>2. GroupBy(f, sq) \in Range(Block(b))
      BY <1>5, <3>1
    <3> QED
      BY <1>8, <3>2
  <2> QED
    BY <1>8, <2>1, <2>2
<1> QED
  BY <1>2, <1>8, <1>9, <1>10, FlattenFacts

-----------------------------------------------------------------------------
(* The tables of the plain links, and of those with LCAS. *)

\* A sequence is one over any set that has its elements.
LEMMA SeqInto ==
  ASSUME NEW S, NEW x \in Seq(S), NEW G, Range(x) \subseteq G
  PROVE  x \in Seq(G)
<1>1. Len(x) \in Nat /\ x \in [1 .. Len(x) -> S] /\ DOMAIN x = 1 .. Len(x)
  BY LenProperties
<1>2. x \in [1 .. Len(x) -> G]
  BY <1>1 DEF Range
<1> QED
  BY <1>1, <1>2, SeqFun

\* A link is with LCAS or without.
LEMMA LinkKind ==
  ASSUME NEW s \in Fleets, NEW l \in Link(s)
  PROVE  l.is_lcas \in BOOLEAN
<1>1. PICK n \in DOMAIN s : \E i \in 1 .. s[n].len : l = LinkOf(s, n, i)
  BY LinkFacts
<1>2. l.is_lcas = s[n].lcas
  BY <1>1 DEF LinkOf
<1>3. s[n].lcas \in BOOLEAN
  BY FleetFacts
<1> QED
  BY <1>2, <1>3

PlainTable(s, svc, i) == {l \in Link(s) : l.vc_valid /\ ~l.is_lcas /\ l.svc_type = svc /\ l.sq = i}
Plainly(s) == Bundles(LinkInfo(s), FALSE)
SvcNames(s) == ServicesOf(Usable(LinkInfo(s), FALSE))

\* BundleFacts for the links without LCAS.
LEMMA PlainBundles ==
  ASSUME NEW s \in Fleets
  PROVE  /\ DOMAIN Plainly(s) = 1 .. Len(SvcNames(s)) /\ Len(SvcNames(s)) \in Nat
         /\ DOMAIN SvcNames(s) = 1 .. Len(SvcNames(s))
         /\ IsInjective(SvcNames(s))
         /\ \A l \in Link(s) : l.vc_valid /\ ~l.is_lcas => l.svc_type \in Range(SvcNames(s))
         /\ \A k \in DOMAIN Plainly(s) :
              /\ Plainly(s)[k] \in [0 .. MaxLen -> Seq(Link(s))]
              /\ Plainly(s)[k][MaxLen] = <<>>
              /\ \A i \in 0 .. MaxLen :
                   /\ IsInjective(Plainly(s)[k][i])
                   /\ Range(Plainly(s)[k][i]) = PlainTable(s, SvcNames(s)[k], i)
<1>1. \A svc, i : Table(s, FALSE, svc, i) = PlainTable(s, svc, i)
  <2>1. \A l \in Link(s) : (l.is_lcas = FALSE) <=> ~l.is_lcas
    BY LinkKind, Zenon
  <2> QED
    BY <2>1, Zenon DEF Table, PlainTable
<1>2. /\ DOMAIN Bundles(LinkInfo(s), FALSE) = 1 .. Len(Named(s, FALSE)) /\ Len(Named(s, FALSE)) \in Nat
      /\ DOMAIN Named(s, FALSE) = 1 .. Len(Named(s, FALSE))
      /\ IsInjective(Named(s, FALSE))
  BY BundleFacts, Zenon
<1>3. \A l \in Link(s) : l.vc_valid /\ l.is_lcas = FALSE => l.svc_type \in Range(Named(s, FALSE))
  BY BundleFacts, Zenon
<1>4. \A k \in DOMAIN Bundles(LinkInfo(s), FALSE) :
        /\ Bundles(LinkInfo(s), FALSE)[k] \in [0 .. MaxLen -> Seq(Link(s))]
        /\ Bundles(LinkInfo(s), FALSE)[k][MaxLen] = <<>>
        /\ \A i \in 0 .. MaxLen :
             /\ IsInjective(Bundles(LinkInfo(s), FALSE)[k][i])
             /\ Range(Bundles(LinkInfo(s), FALSE)[k][i]) = Table(s, FALSE, Named(s, FALSE)[k], i)
  BY BundleFacts, Zenon
<1>5. Named(s, FALSE) = SvcNames(s)
  BY DEF Named, SvcNames
<1>6. \A l \in Link(s) : l.vc_valid /\ ~l.is_lcas => l.svc_type \in Range(SvcNames(s))
  <2>1. \A l \in Link(s) : (l.is_lcas = FALSE) <=> ~l.is_lcas
    BY LinkKind, Zenon
  <2> QED
    BY <1>3, <1>5, <2>1, Zenon
<1>7. \A k \in DOMAIN Plainly(s) :
        /\ Plainly(s)[k] \in [0 .. MaxLen -> Seq(Link(s))]
        /\ Plainly(s)[k][MaxLen] = <<>>
        /\ \A i \in 0 .. MaxLen :
             /\ IsInjective(Plainly(s)[k][i])
             /\ Range(Plainly(s)[k][i]) = PlainTable(s, SvcNames(s)[k], i)
  BY <1>1, <1>4, <1>5, Zenon DEF Plainly
<1>8. /\ DOMAIN Plainly(s) = 1 .. Len(SvcNames(s)) /\ Len(SvcNames(s)) \in Nat
      /\ DOMAIN SvcNames(s) = 1 .. Len(SvcNames(s))
      /\ IsInjective(SvcNames(s))
  BY <1>2, <1>5, Zenon DEF Plainly
<1> QED
  BY <1>6, <1>7, <1>8, Zenon

\* The channels with LCAS, and the answer with their groups.
LcasChannels(s) == {l.channel : l \in {m \in Link(s) : m.is_lcas}}
LcasBundles(s) == Bundles(LinkInfo(s), TRUE)
LcasAnswer(s) == FlattenSeq([k \in DOMAIN LcasBundles(s) |-> get_lcas_from_svc(LcasBundles(s)[k])])

\* The groups of the first answer are of links with LCAS.
LEMMA LcasAnswerFacts ==
  ASSUME NEW s \in Fleets
  PROVE  /\ LcasAnswer(s) \in Seq(Seq(LcasChannels(s)))
         /\ \A g \in Range(LcasAnswer(s)) : g # <<>>
         /\ \A k \in DOMAIN LcasBundles(s) :
              Range(get_lcas_from_svc(LcasBundles(s)[k])) \subseteq Range(LcasAnswer(s))
<1> DEFINE G == {m \in Link(s) : m.is_lcas}
           b == LcasBundles(s)
           ss == [k \in DOMAIN b |-> get_lcas_from_svc(b[k])]
<1>1. \A svc, i : Table(s, TRUE, svc, i) \subseteq G
  <2>1. \A l \in Link(s) : (l.is_lcas = TRUE) <=> l.is_lcas
    BY LinkKind, Zenon
  <2> QED
    BY <2>1, Zenon DEF Table
<1>2. DOMAIN b = 1 .. Len(Named(s, TRUE)) /\ Len(Named(s, TRUE)) \in Nat
  BY BundleFacts, Zenon DEF LcasBundles
<1>3. \A k \in DOMAIN b :
        /\ DOMAIN b[k] = 0 .. MaxLen /\ b[k][MaxLen] = <<>>
        /\ \A i \in 0 .. MaxLen : b[k][i] \in Seq(Link(s)) /\ Range(b[k][i]) = Table(s, TRUE, Named(s, TRUE)[k], i)
  BY BundleFacts, Zenon DEF LcasBundles
<1> DEFINE N == Named(s, TRUE)
<1> HIDE DEF G, b
<1>4. \A k \in DOMAIN b :
        /\ DOMAIN b[k] = 0 .. MaxLen /\ b[k][MaxLen] = <<>>
        /\ \A i \in 0 .. MaxLen : b[k][i] \in Seq(Link(s)) /\ Range(b[k][i]) \subseteq G
  <2>1. ASSUME NEW k \in DOMAIN b, NEW i \in 0 .. MaxLen
        PROVE  b[k][i] \in Seq(Link(s)) /\ Range(b[k][i]) \subseteq G
    <3>1. b[k][i] \in Seq(Link(s)) /\ Range(b[k][i]) = Table(s, TRUE, Named(s, TRUE)[k], i)
      BY <1>3, Zenon
    <3>2. Table(s, TRUE, Named(s, TRUE)[k], i) \subseteq G
      BY <1>1, Zenon
    <3> DEFINE T == Table(s, TRUE, Named(s, TRUE)[k], i)
    <3>3. b[k][i] \in Seq(Link(s)) /\ Range(b[k][i]) = T /\ T \subseteq G
      BY <3>1, <3>2, Zenon
    <3> HIDE DEF T
    <3> QED
      BY <3>3
  <2>2. ASSUME NEW k \in DOMAIN b PROVE DOMAIN b[k] = 0 .. MaxLen /\ b[k][MaxLen] = <<>>
    BY <1>3, Zenon
  <2> QED
    BY <2>1, <2>2
<1>5. DOMAIN b = 1 .. Len(N) /\ Len(N) \in Nat
  BY <1>2, Zenon
<1> HIDE DEF N
<1>6. ASSUME NEW k \in DOMAIN b
      PROVE  /\ get_lcas_from_svc(b[k]) \in Seq(Seq({l.channel : l \in G}))
             /\ \A g \in Range(get_lcas_from_svc(b[k])) : g # <<>>
  <2>1. \A i \in 0 .. MaxLen : b[k][i] \in Seq(G)
    <3>1. SUFFICES ASSUME NEW i \in 0 .. MaxLen PROVE b[k][i] \in Seq(G)
      OBVIOUS
    <3>2. b[k][i] \in Seq(Link(s)) /\ Range(b[k][i]) \subseteq G
      BY <1>4
    <3> HIDE DEF G
    <3> QED
      BY <3>2, SeqInto
  <2>2. G \subseteq Link(s)
    BY DEF G
  <2>3. DOMAIN b[k] = 0 .. MaxLen /\ b[k][MaxLen] = <<>>
    BY <1>4
  <2> HIDE DEF G
  <2> QED
    BY <2>1, <2>2, <2>3, LcasGroups
<1>7. ss \in Seq(Seq(Seq({l.channel : l \in G}))) /\ DOMAIN ss = DOMAIN b
      /\ \A k \in DOMAIN b : ss[k] = get_lcas_from_svc(b[k])
  <2>1. ss \in [1 .. Len(N) -> Seq(Seq({l.channel : l \in G}))]
    BY <1>5, <1>6
  <2> QED
    BY <1>5, <2>1, SeqFun
<1> HIDE DEF ss
<1>8. /\ FlattenSeq(ss) \in Seq(Seq({l.channel : l \in G}))
      /\ Range(FlattenSeq(ss)) = UNION {Range(ss[k]) : k \in DOMAIN ss}
  BY <1>7, FlattenFacts
<1>9. \A g \in Range(FlattenSeq(ss)) : g # <<>>
  BY <1>6, <1>7, <1>8
<1>10. \A k \in DOMAIN b : Range(get_lcas_from_svc(b[k])) \subseteq Range(FlattenSeq(ss))
  BY <1>7, <1>8
<1>11. LcasAnswer(s) = FlattenSeq(ss)
  BY DEF LcasAnswer, ss, b
<1> QED
  BY <1>8, <1>9, <1>10, <1>11 DEF LcasChannels, G, b

(* The first answer has every group with LCAS that is whole and alone. *)
LEMMA LcasAnswerComplete ==
  ASSUME NEW s \in Fleets, NEW n \in DOMAIN s, s[n].lcas, s[n].lost = -1,
         \A m \in DOMAIN s \ {n} :
           s[m].lcas /\ s[m].svc = s[n].svc /\ s[m].mfi = s[n].mfi => s[m].gid \cap s[n].gid = {}
  PROVE  [i \in 1 .. s[n].len |-> <<n, i - 1>>] \in Range(LcasAnswer(s))
<1>1. s[n].lcas = TRUE /\ s[n].gid # {}
  BY FleetFacts, Zenon
<1>2. Alone(s, n, TRUE)
  <2>1. \A m \in DOMAIN s : (s[m].lcas = TRUE) <=> s[m].lcas
    BY FleetFacts, Zenon
  <2> QED
    BY <2>1, Zenon DEF Alone
<1>3. \E k \in DOMAIN LcasBundles(s) : s[n].svc = Named(s, TRUE)[k]
  <2>1. 1 \in 1 .. s[n].len /\ s[n].lost # 1 - 1
    BY FleetFacts
  <2>2. LinkOf(s, n, 1) \in Table(s, s[n].lcas, s[n].svc, 1 - 1)
    BY <2>1, MemberInTable
  <2>3. LinkOf(s, n, 1) \in Link(s) /\ LinkOf(s, n, 1).vc_valid
        /\ LinkOf(s, n, 1).is_lcas = s[n].lcas /\ LinkOf(s, n, 1).svc_type = s[n].svc
    BY <2>2, Zenon DEF Table
  <2>4. s[n].svc \in Range(Named(s, s[n].lcas)) /\ DOMAIN Named(s, s[n].lcas) = DOMAIN Bundles(LinkInfo(s), s[n].lcas)
    BY <2>3, BundleFacts, Zenon
  <2>5. s[n].svc \in Range(Named(s, TRUE)) /\ DOMAIN Named(s, TRUE) = DOMAIN LcasBundles(s)
    BY <1>1, <2>4, Zenon DEF LcasBundles
  <2> QED
    BY <2>5, Zenon DEF Range
<1>4. PICK k \in DOMAIN LcasBundles(s) : s[n].svc = Named(s, TRUE)[k]
  BY <1>3, Zenon
<1>5. [i \in 1 .. s[n].len |-> <<n, i - 1>>] \in Range(get_lcas_from_svc(LcasBundles(s)[k]))
  BY <1>1, <1>2, <1>4, LcasWhole, Zenon DEF LcasBundles
<1> QED
  BY <1>5, LcasAnswerFacts

-----------------------------------------------------------------------------
(* A service, and what a call of grpsm_get_vc makes of it. *)

Svc(s) ==
  [sqlinks   : {t \in [0 .. MaxLen -> Seq(Link(s))] :
                  t[MaxLen] = <<>> /\ \A i \in 0 .. MaxLen : IsInjective(t[i])},
   sq_status : {"default", "got", "finished"},
   sq_pre    : Sq]
ChannelsOf(groups) == UNION {Range(g) : g \in groups}

\* The parts of a service.
LEMMA SvcFacts ==
  ASSUME NEW s \in Fleets, NEW v \in Svc(s)
  PROVE  /\ v.sqlinks \in [0 .. MaxLen -> Seq(Link(s))] /\ DOMAIN v.sqlinks = 0 .. MaxLen
         /\ v.sqlinks[MaxLen] = <<>> /\ MaxLen \in Nat \ {0}
         /\ \A i \in 0 .. MaxLen : v.sqlinks[i] \in Seq(Link(s)) /\ IsInjective(v.sqlinks[i])
         /\ v.sq_status \in {"default", "got", "finished"}
         /\ v.sq_pre \in 0 .. MaxLen - 1 /\ v.sq_pre \in Nat
         /\ v = [sqlinks |-> v.sqlinks, sq_status |-> v.sq_status, sq_pre |-> v.sq_pre]
BY GrpSmAssumption DEF Svc, Sq

\* remove_olinks takes the links of the groups out of the tables and leaves the rest.
LEMMA RemoveFacts ==
  ASSUME NEW s \in Fleets, NEW v \in Svc(s), NEW groups
  PROVE  /\ remove_olinks(v, groups) \in Svc(s)
         /\ remove_olinks(v, groups).sq_status = v.sq_status
         /\ remove_olinks(v, groups).sq_pre = v.sq_pre
         /\ \A i \in 0 .. MaxLen :
              Range(remove_olinks(v, groups).sqlinks[i]) =
                {l \in Range(v.sqlinks[i]) : l.channel \notin ChannelsOf(groups)}
<1> DEFINE taken == ChannelsOf(groups)
           t == v.sqlinks
           Rest(i) == {l \in Range(t[i]) : l.channel \notin taken}
           u == [i \in 0 .. MaxLen |-> Keep(t[i], Rest(i))]
<1>1. /\ t \in [0 .. MaxLen -> Seq(Link(s))] /\ DOMAIN t = 0 .. MaxLen
      /\ t[MaxLen] = <<>> /\ MaxLen \in Nat \ {0}
      /\ \A i \in 0 .. MaxLen : t[i] \in Seq(Link(s)) /\ IsInjective(t[i])
      /\ v = [sqlinks |-> t, sq_status |-> v.sq_status, sq_pre |-> v.sq_pre]
  BY SvcFacts
<1>2. remove_olinks(v, groups) = [sqlinks |-> u, sq_status |-> v.sq_status, sq_pre |-> v.sq_pre]
  <2>1. remove_olinks(v, groups) = [v EXCEPT !.sqlinks = u]
    BY <1>1 DEF remove_olinks, ChannelsOf
  <2> HIDE DEF u
  <2> QED
    BY <1>1, <2>1
<1> HIDE DEF t, taken
<1>3. ASSUME NEW i \in 0 .. MaxLen
      PROVE  u[i] \in Seq(Link(s)) /\ IsInjective(u[i]) /\ Range(u[i]) = Rest(i)
  <2>1. u[i] = Keep(t[i], Rest(i))
    OBVIOUS
  <2>2. Range(t[i]) \cap Rest(i) = Rest(i)
    OBVIOUS
  <2> HIDE DEF u, Rest
  <2>3. t[i] \in Seq(Link(s)) /\ IsInjective(t[i])
    BY <1>1
  <2>4. /\ Keep(t[i], Rest(i)) \in Seq(Link(s)) /\ IsInjective(Keep(t[i], Rest(i)))
        /\ Range(Keep(t[i], Rest(i))) = Range(t[i]) \cap Rest(i)
    BY <2>3, KeepFacts
  <2> QED
    BY <2>1, <2>2, <2>3, <2>4
<1>4. u \in [0 .. MaxLen -> Seq(Link(s))]
  <2>1. \A i \in 0 .. MaxLen : Keep(t[i], Rest(i)) \in Seq(Link(s))
    BY <1>3
  <2> HIDE DEF Rest
  <2> QED
    BY <2>1
<1>5. u[MaxLen] = <<>>
  <2>1. MaxLen \in 0 .. MaxLen /\ Range(t[MaxLen]) = {}
    <3>1. MaxLen \in 0 .. MaxLen /\ t[MaxLen] = <<>>
      BY <1>1
    <3> QED
      BY <3>1, SmallSeqs
  <2>2. Range(u[MaxLen]) = {}
    BY <1>3, <2>1
  <2> HIDE DEF u
  <2> QED
    BY <1>4, <2>1, <2>2, SeqRange
<1> DEFINE r == [sqlinks |-> u, sq_status |-> v.sq_status, sq_pre |-> v.sq_pre]
<1>6. r \in Svc(s)
  <2>1. v.sq_status \in {"default", "got", "finished"} /\ v.sq_pre \in Sq
    BY DEF Svc
  <2> HIDE DEF u
  <2> QED
    BY <1>3, <1>4, <1>5, <2>1 DEF Svc
<1>7. r.sqlinks = u /\ r.sq_status = v.sq_status /\ r.sq_pre = v.sq_pre
  OBVIOUS
<1> HIDE DEF u, r
<1>8. remove_olinks(v, groups) = r
  BY <1>2 DEF r
<1> QED
  BY <1>3, <1>6, <1>7, <1>8 DEF t, taken

\* Up to the length found the counts of links do not drop.
LEMMA FindSqFacts ==
  ASSUME NEW t, NEW start \in Nat, NEW top \in Nat, start <= top - 1
  PROVE  /\ find_sq(t, start, top - 1) \in start .. top - 1
         /\ \A i \in start .. find_sq(t, start, top - 1) - 1 : ~(Len(t[i]) > Len(t[i + 1]))
<1> DEFINE drops == {i \in start .. top - 1 - 1 : Len(t[i]) > Len(t[i + 1])}
           least == CHOOSE i \in drops : \A j \in drops : i <= j
<1>1. find_sq(t, start, top - 1) = IF drops = {} THEN top - 1 ELSE least
  BY DEF find_sq
<1>2. CASE drops = {}
  <2>1. find_sq(t, start, top - 1) = top - 1
    BY <1>1, <1>2
  <2>2. \A i \in start .. top - 1 - 1 : ~(Len(t[i]) > Len(t[i + 1]))
    BY <1>2
  <2> HIDE DEF drops
  <2> QED
    BY <2>1, <2>2
<1>3. CASE drops # {}
  <2>1. drops \subseteq Nat
    OBVIOUS
  <2>2. \E i \in drops : \A j \in drops : i <= j
    <3> HIDE DEF drops
    <3> QED
      BY <1>3, <2>1, Least
  <2>3. least \in drops /\ \A j \in drops : least <= j
    <3> HIDE DEF drops
    <3> QED
      BY <2>2
  <2> HIDE DEF least
  <2>4. least \in start .. top - 1
    BY <2>3
  <2>5. ASSUME NEW i \in start .. least - 1 PROVE ~(Len(t[i]) > Len(t[i + 1]))
    <3>1. i \in start .. top - 1 - 1 /\ ~(least <= i)
      BY <2>4
    <3>2. i \notin drops
      BY <2>3, <3>1
    <3> QED
      BY <3>1, <3>2
  <2> QED
    BY <1>1, <1>3, <2>4, <2>5
<1> QED
  BY <1>2, <1>3

\* The first length of groups that has not been given.
Start(v) == IF v.sq_status = "got" THEN v.sq_pre + 1 ELSE 0
\* r is v after a call.
Called(v, r, partial) ==
  /\ r.sqlinks = v.sqlinks /\ r.sq_status \in {"got", "finished"}
  /\ v.sq_status = "finished" => r.sq_status = "finished"
  /\ v.sq_status # "finished" /\ partial => r.sq_status = "got" /\ r.sq_pre = v.sq_pre
  /\ v.sq_status # "finished" /\ ~partial =>
       \/ r.sq_status = "finished" /\ FirstFree(v.sqlinks) <= Start(v)
       \/ /\ r.sq_status = "got" /\ r.sq_pre >= Start(v)
          /\ \A i \in Start(v) .. r.sq_pre - 1 : ~(Len(v.sqlinks[i]) > Len(v.sqlinks[i + 1]))

\* A call of get_vcs_from_svc: the state of the service after it, and the round.
LEMMA CallFacts ==
  ASSUME NEW s \in Fleets, NEW v \in Svc(s), NEW partial \in BOOLEAN
  PROVE  /\ get_vcs_from_svc(v, partial).svc \in Svc(s)
         /\ Called(v, get_vcs_from_svc(v, partial).svc, partial)
         /\ get_vcs_from_svc(v, partial).cfg =
              IF get_vcs_from_svc(v, partial).svc.sq_status = "got"
              THEN get_vcs_from_svc_sq(v.sqlinks, get_vcs_from_svc(v, partial).svc.sq_pre)
              ELSE <<>>
<1> DEFINE t == v.sqlinks
           top == FirstFree(t)
           start == Start(v)
           sq == IF partial THEN v.sq_pre ELSE find_sq(t, start, top - 1)
           fin == [v EXCEPT !.sq_status = "finished"]
           got == [v EXCEPT !.sq_status = "got", !.sq_pre = sq]
           r == get_vcs_from_svc(v, partial)
<1>1. r = IF v.sq_status = "finished" THEN [svc |-> v, cfg |-> <<>>]
          ELSE IF ~partial /\ start > top - 1 THEN [svc |-> fin, cfg |-> <<>>]
          ELSE [svc |-> got, cfg |-> get_vcs_from_svc_sq(t, sq)]
  BY DEF get_vcs_from_svc, Start
<1>2. /\ t \in [0 .. MaxLen -> Seq(Link(s))] /\ DOMAIN t = 0 .. MaxLen
      /\ t[MaxLen] = <<>> /\ MaxLen \in Nat \ {0}
      /\ v.sq_status \in {"default", "got", "finished"}
      /\ v.sq_pre \in 0 .. MaxLen - 1 /\ v.sq_pre \in Nat
      /\ v = [sqlinks |-> t, sq_status |-> v.sq_status, sq_pre |-> v.sq_pre]
  BY SvcFacts
<1>3. top \in 0 .. MaxLen /\ top \in Nat /\ start \in Nat
  <2>1. top \in 0 .. MaxLen
    BY <1>2, FirstFreeFacts
  <2>2. start \in Nat
    BY <1>2 DEF Start
  <2> QED
    BY <1>2, <2>1, <2>2
<1> HIDE DEF top, start, r, sq
<1>4. CASE v.sq_status = "finished"
  <2>1. r.svc = v /\ r.cfg = <<>>
    BY <1>1, <1>4
  <2> QED
    BY <1>4, <2>1 DEF Called, r
<1>5. CASE v.sq_status # "finished" /\ ~partial /\ start > top - 1
  <2>1. r.svc = fin /\ r.cfg = <<>>
    BY <1>1, <1>5
  <2>2. fin = [sqlinks |-> t, sq_status |-> "finished", sq_pre |-> v.sq_pre]
    BY <1>2
  <2>3. fin.sqlinks = v.sqlinks /\ fin.sq_status = "finished" /\ fin \in Svc(s)
    BY <2>2 DEF Svc
  <2>4. top <= start
    BY <1>3, <1>5
  <2> HIDE DEF fin
  <2> QED
    BY <1>5, <2>1, <2>3, <2>4 DEF Called, r, top, start
<1>6. CASE v.sq_status # "finished" /\ ~(~partial /\ start > top - 1)
  <2>1. r.svc = got /\ r.cfg = get_vcs_from_svc_sq(t, sq)
    BY <1>1, <1>6
  <2>2. got = [sqlinks |-> t, sq_status |-> "got", sq_pre |-> sq]
    <3> DEFINE y == [v EXCEPT !.sq_status = "got"]
    <3>1. y = [sqlinks |-> t, sq_status |-> "got", sq_pre |-> v.sq_pre]
      BY <1>2
    <3>2. got = [y EXCEPT !.sq_pre = sq]
      BY <1>2
    <3>3. DOMAIN y = {"sqlinks", "sq_status", "sq_pre"} /\ y.sqlinks = t /\ y.sq_status = "got"
      <4> HIDE DEF y
      <4> QED
        BY <3>1
    <3> HIDE DEF y, got, t
    <3> QED
      BY <3>2, <3>3
  <2>3. got.sqlinks = v.sqlinks /\ got.sq_status = "got" /\ got.sq_pre = sq
    BY <2>2
  <2>4. CASE partial
    <3>1. sq = v.sq_pre /\ sq \in Sq
      BY <1>2, <2>4 DEF sq, Sq
    <3>2. got \in Svc(s)
      BY <2>2, <3>1 DEF Svc
    <3> HIDE DEF got
    <3> QED
      BY <1>6, <2>1, <2>3, <2>4, <3>1, <3>2 DEF Called, r
  <2>5. CASE ~partial
    <3>1. sq = find_sq(t, start, top - 1) /\ start <= top - 1
      BY <1>3, <1>6, <2>5 DEF sq
    <3>2. sq \in start .. top - 1 /\ \A i \in start .. sq - 1 : ~(Len(t[i]) > Len(t[i + 1]))
      BY <1>3, <3>1, FindSqFacts
    <3>3. sq \in Sq /\ sq >= start
      BY <1>2, <1>3, <3>2 DEF Sq
    <3>4. got \in Svc(s)
      BY <2>2, <3>3 DEF Svc
    <3> HIDE DEF got
    <3> QED
      BY <1>6, <2>1, <2>3, <2>5, <3>2, <3>3, <3>4 DEF Called, r, start
  <2> QED
    BY <2>4, <2>5
<1> QED
  BY <1>4, <1>5, <1>6

-----------------------------------------------------------------------------
(* The services of the fiber, and a whole round. *)

Vcs(s) == [DOMAIN Plainly(s) -> Svc(s)]
\* The tables hold the links of each service but those of the groups of old.
Held(s, v, old) ==
  \A k \in DOMAIN v : \A i \in 0 .. MaxLen :
    Range(v[k].sqlinks[i]) = {l \in PlainTable(s, SvcNames(s)[k], i) : l.channel \notin ChannelsOf(old)}
PlainChannels(s) == {l.channel : l \in {m \in Link(s) : ~m.is_lcas}}
RoundOf(v) ==
  FlattenSeq([k \in DOMAIN v |->
    IF v[k].sq_status = "got" THEN get_vcs_from_svc_sq(v[k].sqlinks, v[k].sq_pre) ELSE <<>>])

\* The channels of a group.
LEMMA GroupFacts ==
  ASSUME NEW sq \in Nat, NEW f, NEW C, \A i \in 0 .. sq : f[i].channel \in C
  PROVE  /\ GroupBy(f, sq) \in Seq(C) /\ GroupBy(f, sq) # <<>>
         /\ GroupBy(f, sq)[1] = f[0].channel
         /\ Range(GroupBy(f, sq)) = {f[i].channel : i \in 0 .. sq}
<1>1. \A i \in 1 .. sq + 1 : i - 1 \in 0 .. sq
  OBVIOUS
<1>2. GroupBy(f, sq) \in [1 .. sq + 1 -> C]
  BY <1>1 DEF GroupBy
<1>3. GroupBy(f, sq) \in Seq(C) /\ Len(GroupBy(f, sq)) = sq + 1 /\ DOMAIN GroupBy(f, sq) = 1 .. sq + 1
  BY <1>2, SeqFun
<1>4. GroupBy(f, sq) # <<>>
  BY <1>3
<1>5. GroupBy(f, sq)[1] = f[0].channel
  <2>1. 1 \in 1 .. sq + 1 /\ 1 - 1 = 0
    OBVIOUS
  <2> QED
    BY <2>1 DEF GroupBy
<1>6. Range(GroupBy(f, sq)) = {f[i].channel : i \in 0 .. sq}
  <2>1. ASSUME NEW x \in Range(GroupBy(f, sq)) PROVE x \in {f[i].channel : i \in 0 .. sq}
    <3>1. PICK i \in 1 .. sq + 1 : x = f[i - 1].channel
      BY DEF GroupBy, Range
    <3> QED
      BY <1>1, <3>1
  <2>2. ASSUME NEW i \in 0 .. sq PROVE f[i].channel \in Range(GroupBy(f, sq))
    <3>1. i + 1 \in 1 .. sq + 1 /\ (i + 1) - 1 = i
      OBVIOUS
    <3>2. GroupBy(f, sq)[i + 1] = f[i].channel
      BY <3>1 DEF GroupBy
    <3> QED
      BY <1>3, <3>1, <3>2 DEF Range
  <2> QED
    BY <2>1, <2>2
<1> QED
  BY <1>3, <1>4, <1>5, <1>6

\* The round of all services: every choice of links once.
LEMMA RoundOfFacts ==
  ASSUME NEW s \in Fleets, NEW v \in Vcs(s), NEW old, Held(s, v, old)
  PROVE  /\ RoundOf(v) \in Seq(Seq(PlainChannels(s)))
         /\ \A g \in Range(RoundOf(v)) : g # <<>>
         /\ IsInjective(RoundOf(v))
         /\ Range(RoundOf(v)) =
              UNION {{GroupBy(f, v[k].sq_pre) : f \in Rounds(v[k].sqlinks, v[k].sq_pre)} :
                       k \in {j \in DOMAIN v : v[j].sq_status = "got"}}
<1> DEFINE C == {l.channel : l \in Link(s)}
           n == Len(SvcNames(s))
           Block(k) == IF v[k].sq_status = "got" THEN get_vcs_from_svc_sq(v[k].sqlinks, v[k].sq_pre) ELSE <<>>
           ss == [k \in DOMAIN v |-> Block(k)]
           Groups1(k) == {GroupBy(f, v[k].sq_pre) : f \in Rounds(v[k].sqlinks, v[k].sq_pre)}
           Got == {j \in DOMAIN v : v[j].sq_status = "got"}
<1>1. n \in Nat /\ DOMAIN v = 1 .. n /\ DOMAIN SvcNames(s) = 1 .. n /\ IsInjective(SvcNames(s))
  BY PlainBundles DEF Vcs
<1>2. \A k \in DOMAIN v : v[k] \in Svc(s)
  BY DEF Vcs
<1> HIDE DEF n
<1>3. ASSUME NEW k \in DOMAIN v
      PROVE  /\ Block(k) \in Seq(Seq(C)) /\ IsInjective(Block(k))
             /\ Range(Block(k)) = IF v[k].sq_status = "got" THEN Groups1(k) ELSE {}
  <2>1. /\ v[k].sq_pre \in Nat /\ v[k].sq_pre \in 0 .. MaxLen - 1
        /\ \A i \in 0 .. v[k].sq_pre : i \in 0 .. MaxLen
        /\ \A i \in 0 .. MaxLen : v[k].sqlinks[i] \in Seq(Link(s)) /\ IsInjective(v[k].sqlinks[i])
    BY <1>2, SvcFacts
  <2>2. /\ get_vcs_from_svc_sq(v[k].sqlinks, v[k].sq_pre) \in Seq(Seq(C))
        /\ IsInjective(get_vcs_from_svc_sq(v[k].sqlinks, v[k].sq_pre))
        /\ Range(get_vcs_from_svc_sq(v[k].sqlinks, v[k].sq_pre)) = Groups1(k)
    BY <2>1, RoundFacts
  <2>3. Range(<<>>) = {} /\ IsInjective(<<>>) /\ <<>> \in Seq(Seq(C))
    BY SmallSeqs, EmptySeq
  <2> HIDE DEF C, Groups1
  <2> QED
    BY <2>2, <2>3
<1>4. ss \in Seq(Seq(Seq(C))) /\ DOMAIN ss = DOMAIN v /\ \A k \in DOMAIN v : ss[k] = Block(k)
  <2> HIDE DEF C, Block
  <2>1. ss \in [1 .. n -> Seq(Seq(C))]
    BY <1>1, <1>3
  <2> QED
    BY <1>1, <2>1, SeqFun
<1>5. ASSUME NEW k \in DOMAIN v, NEW f \in Rounds(v[k].sqlinks, v[k].sq_pre), NEW i \in 0 .. v[k].sq_pre
      PROVE  f[i] \in Link(s) /\ ~f[i].is_lcas /\ f[i].svc_type = SvcNames(s)[k] /\ f[i].channel \in PlainChannels(s)
  <2>1. f[i] \in Range(v[k].sqlinks[i])
    BY DEF Rounds, LinkChoices
  <2>2. i \in 0 .. MaxLen
    BY <1>2, SvcFacts
  <2>3. f[i] \in PlainTable(s, SvcNames(s)[k], i)
    BY <2>1, <2>2 DEF Held
  <2> QED
    BY <2>3 DEF PlainTable, PlainChannels
<1>6. ASSUME NEW k \in DOMAIN v, NEW g \in Groups1(k)
      PROVE  /\ g \in Seq(PlainChannels(s)) /\ g # <<>>
             /\ \E l \in Link(s) : l.svc_type = SvcNames(s)[k] /\ l.channel = g[1]
  <2>1. PICK f \in Rounds(v[k].sqlinks, v[k].sq_pre) : g = GroupBy(f, v[k].sq_pre)
    BY <1>6
  <2>2. v[k].sq_pre \in Nat /\ 0 \in 0 .. v[k].sq_pre
    BY <1>2, SvcFacts
  <2>3. \A i \in 0 .. v[k].sq_pre : f[i].channel \in PlainChannels(s)
    BY <1>5
  <2>4. g \in Seq(PlainChannels(s)) /\ g # <<>> /\ g[1] = f[0].channel
    BY <2>1, <2>2, <2>3, GroupFacts
  <2> QED
    BY <1>5, <2>2, <2>4
<1> HIDE DEF Block, Groups1, ss
<1>7. Apart(ss)
  <2>1. ASSUME NEW k \in DOMAIN v, NEW j \in DOMAIN v, k # j, NEW g \in Groups1(k), g \in Groups1(j) PROVE FALSE
    <3>1. PICK l \in Link(s) : l.svc_type = SvcNames(s)[k] /\ l.channel = g[1]
      BY <1>6, <2>1
    <3>2. PICK m \in Link(s) : m.svc_type = SvcNames(s)[j] /\ m.channel = g[1]
      BY <1>6, <2>1
    <3>3. l = m
      BY <3>1, <3>2, LinkFacts
    <3>4. SvcNames(s)[k] = SvcNames(s)[j]
      BY <3>1, <3>2, <3>3
    <3> QED
      BY <1>1, <2>1, <3>4 DEF IsInjective
  <2>2. ASSUME NEW k \in DOMAIN v, NEW j \in DOMAIN v, k # j
        PROVE  Range(ss[k]) \cap Range(ss[j]) = {}
    <3> HIDE DEF C, Got
    <3>1. Range(ss[k]) \subseteq Groups1(k)
      BY <1>3, <1>4
    <3>2. Range(ss[j]) \subseteq Groups1(j)
      BY <1>3, <1>4
    <3> QED
      BY <2>1, <2>2, <3>1, <3>2
  <2> QED
    BY <1>3, <1>4, <2>2 DEF Apart
<1>8. RoundOf(v) = FlattenSeq(ss)
  BY DEF RoundOf, ss, Block
<1>9. RoundOf(v) \in Seq(Seq(C)) /\ IsInjective(RoundOf(v)) /\ Range(RoundOf(v)) = UNION {Range(ss[k]) : k \in DOMAIN ss}
  BY <1>4, <1>7, <1>8, FlattenFacts
<1>10. Range(RoundOf(v)) = UNION {Groups1(k) : k \in Got}
  <2>1. \A g : g \in UNION {Range(ss[k]) : k \in DOMAIN ss} <=> \E k \in DOMAIN v : g \in Range(Block(k))
    BY <1>4
  <2>2. \A g : g \in UNION {Groups1(k) : k \in Got} <=> \E k \in DOMAIN v : v[k].sq_status = "got" /\ g \in Groups1(k)
    OBVIOUS
  <2>3. \A g : (\E k \in DOMAIN v : g \in Range(Block(k))) <=> \E k \in DOMAIN v : v[k].sq_status = "got" /\ g \in Groups1(k)
    BY <1>3
  <2> HIDE DEF Got
  <2> QED
    BY <1>9, <2>1, <2>2, <2>3
<1>11. \A g \in Range(RoundOf(v)) : g \in Seq(PlainChannels(s)) /\ g # <<>>
  BY <1>6, <1>10
<1>12. RoundOf(v) \in Seq(Seq(PlainChannels(s)))
  <2>1. Range(RoundOf(v)) \subseteq Seq(PlainChannels(s))
    BY <1>11
  <2> QED
    BY <1>9, <2>1, SeqInto
<1> QED
  BY <1>9, <1>10, <1>11, <1>12 DEF Groups1

\* RoundOfFacts, group by group.
LEMMA RoundMembers ==
  ASSUME NEW s \in Fleets, NEW v \in Vcs(s), NEW old, Held(s, v, old)
  PROVE  \A g : g \in Range(RoundOf(v)) <=>
           \E k \in DOMAIN v : v[k].sq_status = "got" /\
             \E f \in Rounds(v[k].sqlinks, v[k].sq_pre) : g = GroupBy(f, v[k].sq_pre)
<1> DEFINE G(k) == {GroupBy(f, v[k].sq_pre) : f \in Rounds(v[k].sqlinks, v[k].sq_pre)}
<1>1. Range(RoundOf(v)) = UNION {G(k) : k \in {j \in DOMAIN v : v[j].sq_status = "got"}}
  BY RoundOfFacts
<1>2. \A g, k : g \in G(k) <=> \E f \in Rounds(v[k].sqlinks, v[k].sq_pre) : g = GroupBy(f, v[k].sq_pre)
  OBVIOUS
<1> HIDE DEF G
<1>3. \A g : g \in Range(RoundOf(v)) <=> \E k \in DOMAIN v : v[k].sq_status = "got" /\ g \in G(k)
  BY <1>1
<1> QED
  BY <1>2, <1>3

\* The tables after a call for every service, and the groups given.
AfterCall(v, done, partial) ==
  [k \in DOMAIN v |-> get_vcs_from_svc(remove_olinks(v[k], done), partial).svc]
GivenBy(v, done, partial) ==
  FlattenSeq([k \in DOMAIN v |-> get_vcs_from_svc(remove_olinks(v[k], done), partial).cfg])
CalledAll(s, v, w, done, partial) ==
  \A k \in DOMAIN v : /\ remove_olinks(v[k], done) \in Svc(s)
                      /\ remove_olinks(v[k], done).sq_status = v[k].sq_status
                      /\ remove_olinks(v[k], done).sq_pre = v[k].sq_pre
                      /\ Called(remove_olinks(v[k], done), w[k], partial)

\* grpsm_get_vc: the tables lose the links of the groups that passed, and the answer is the
\* round of the tables after it.
LEMMA GetVcFacts ==
  ASSUME NEW s \in Fleets, NEW v \in Vcs(s), NEW old, Held(s, v, old),
         NEW done, NEW partial \in BOOLEAN,
         NEW w, w = AfterCall(v, done, partial)
  PROVE  /\ w \in Vcs(s) /\ Held(s, w, old \cup done)
         /\ GivenBy(v, done, partial) = RoundOf(w)
         /\ CalledAll(s, v, w, done, partial)
<1>1. DOMAIN v = DOMAIN Plainly(s) /\ \A k \in DOMAIN v : v[k] \in Svc(s)
  BY DEF Vcs
<1>2. DOMAIN w = DOMAIN v /\ \A k \in DOMAIN v : w[k] = get_vcs_from_svc(remove_olinks(v[k], done), partial).svc
  BY DEF AfterCall
<1>3. ASSUME NEW k \in DOMAIN v
      PROVE  /\ remove_olinks(v[k], done) \in Svc(s)
             /\ remove_olinks(v[k], done).sq_status = v[k].sq_status
             /\ remove_olinks(v[k], done).sq_pre = v[k].sq_pre
             /\ \A i \in 0 .. MaxLen :
                  Range(remove_olinks(v[k], done).sqlinks[i]) =
                    {l \in Range(v[k].sqlinks[i]) : l.channel \notin ChannelsOf(done)}
  BY <1>1, RemoveFacts
<1>4. ASSUME NEW k \in DOMAIN v
      PROVE  /\ w[k] \in Svc(s)
             /\ Called(remove_olinks(v[k], done), w[k], partial)
             /\ get_vcs_from_svc(remove_olinks(v[k], done), partial).cfg =
                  IF w[k].sq_status = "got"
                  THEN get_vcs_from_svc_sq(remove_olinks(v[k], done).sqlinks, w[k].sq_pre)
                  ELSE <<>>
  BY <1>2, <1>3, CallFacts
<1>5. w \in Vcs(s)
  BY <1>1, <1>2, <1>4 DEF Vcs, AfterCall
<1>6. \A k \in DOMAIN v : w[k].sqlinks = remove_olinks(v[k], done).sqlinks
  BY <1>4 DEF Called
<1>7. Held(s, w, old \cup done)
  <2>1. ASSUME NEW k \in DOMAIN v, NEW i \in 0 .. MaxLen
        PROVE  Range(w[k].sqlinks[i]) =
                 {l \in PlainTable(s, SvcNames(s)[k], i) : l.channel \notin ChannelsOf(old \cup done)}
    <3>1. Range(w[k].sqlinks[i]) = {l \in Range(v[k].sqlinks[i]) : l.channel \notin ChannelsOf(done)}
      BY <1>3, <1>6
    <3>2. Range(v[k].sqlinks[i]) = {l \in PlainTable(s, SvcNames(s)[k], i) : l.channel \notin ChannelsOf(old)}
      BY DEF Held
    <3>3. \A c : c \in ChannelsOf(old \cup done) <=> c \in ChannelsOf(old) \/ c \in ChannelsOf(done)
      BY DEF ChannelsOf
    <3> QED
      BY <3>1, <3>2, <3>3
  <2> QED
    BY <1>2, <2>1 DEF Held
<1>8. GivenBy(v, done, partial) = RoundOf(w)
  <2>1. [k \in DOMAIN v |-> get_vcs_from_svc(remove_olinks(v[k], done), partial).cfg] =
          [k \in DOMAIN w |-> IF w[k].sq_status = "got" THEN get_vcs_from_svc_sq(w[k].sqlinks, w[k].sq_pre) ELSE <<>>]
    BY <1>2, <1>4, <1>6
  <2> QED
    BY <2>1 DEF RoundOf, GivenBy
<1>9. CalledAll(s, v, w, done, partial)
  BY <1>3, <1>4 DEF CalledAll
<1> QED
  BY <1>5, <1>7, <1>8, <1>9

(* A repeated round has the groups of the last one whose links are all free. *)
LEMMA RoundRepeated ==
  ASSUME NEW s \in Fleets, NEW v \in Vcs(s), NEW old, Held(s, v, old),
         NEW w \in Vcs(s), NEW now, Held(s, w, now),
         \A k \in DOMAIN v : v[k].sq_status = "got" => w[k].sq_status = "got" /\ w[k].sq_pre = v[k].sq_pre,
         NEW g \in Range(RoundOf(v)), Range(g) \cap ChannelsOf(now) = {}
  PROVE  g \in Range(RoundOf(w))
<1>1. DOMAIN w = DOMAIN v
  BY DEF Vcs
<1>2. PICK k \in DOMAIN v : v[k].sq_status = "got" /\ \E f \in Rounds(v[k].sqlinks, v[k].sq_pre) : g = GroupBy(f, v[k].sq_pre)
  BY RoundMembers
<1>3. PICK f \in Rounds(v[k].sqlinks, v[k].sq_pre) : g = GroupBy(f, v[k].sq_pre)
  BY <1>2
<1> DEFINE q == v[k].sq_pre
<1>4. q \in Nat /\ \A i \in 0 .. q : i \in 0 .. MaxLen
  <2>1. v[k] \in Svc(s)
    BY DEF Vcs
  <2> QED
    BY <2>1, SvcFacts
<1>5. w[k].sq_status = "got" /\ w[k].sq_pre = q
  BY <1>2
<1> HIDE DEF q
<1>6. f \in LinkChoices(v[k].sqlinks, q) /\ \A i \in 0 .. q : near_mfi(f[q], f[i]) /\ f[i] \in Range(v[k].sqlinks[i])
  BY DEF Rounds, LinkChoices, q
<1>7. Range(g) = {f[i].channel : i \in 0 .. q}
  <2> DEFINE D == {f[i].channel : i \in 0 .. q}
  <2>1. \A i \in 0 .. q : f[i].channel \in D
    OBVIOUS
  <2>2. g = GroupBy(f, q)
    BY <1>3 DEF q
  <2>3. Range(GroupBy(f, q)) = {f[i].channel : i \in 0 .. q}
    <3> HIDE DEF D
    <3> QED
      BY <1>4, <2>1, GroupFacts
  <2> QED
    BY <2>2, <2>3
<1>8. \A i \in 0 .. q : f[i] \in Range(w[k].sqlinks[i])
  <2>1. SUFFICES ASSUME NEW i \in 0 .. q PROVE f[i] \in Range(w[k].sqlinks[i])
    OBVIOUS
  <2>2. f[i] \in PlainTable(s, SvcNames(s)[k], i)
    BY <1>4, <1>6 DEF Held
  <2>3. f[i].channel \notin ChannelsOf(now)
    BY <1>7
  <2> QED
    BY <1>1, <1>4, <2>2, <2>3 DEF Held
<1>9. f \in Rounds(w[k].sqlinks, q)
  BY <1>6, <1>8, ChoiceOf DEF Rounds
<1>10. \E h \in Rounds(w[k].sqlinks, w[k].sq_pre) : g = GroupBy(h, w[k].sq_pre)
  BY <1>3, <1>5, <1>9 DEF q
<1> QED
  BY <1>1, <1>5, <1>10, RoundMembers

-----------------------------------------------------------------------------
(* The inductive invariant. *)

Fixed    == /\ sent \in Fleets /\ lcas = LcasBundles(sent) /\ vcs \in Vcs(sent)
            /\ lcas_got \in BOOLEAN /\ honest \in BOOLEAN
Answered == given = <<>> \/ given = LcasAnswer(sent) \/ (lcas_got /\ given = RoundOf(vcs))
Counted  == tried \in 0 .. Len(given) /\ passed \subseteq 1 .. tried
\* The tables are behind: they still hold the links of the groups that passed last.
Behind   == \E old : confirmed = old \cup {given[i] : i \in passed} /\ Held(sent, vcs, old)
Before   == ~lcas_got => confirmed \subseteq Range(LcasAnswer(sent))
Noted    == {given[i] : i \in 1 .. tried} \subseteq attempted /\ Range(given) \subseteq offered
Ended    == /\ pc = "try" => given # <<>>
            /\ pc = "done" => /\ given = <<>> /\ RoundOf(vcs) = <<>>
                              /\ \A k \in DOMAIN vcs : vcs[k].sq_status # "default"
LcasFirst == pc \in {"try", "done"} \/ given # <<>> => Range(LcasAnswer(sent)) \subseteq offered
Left     == \A g \in offered : Plain(g) => g \in attempted \/ Range(g) \cap Taken # {} \/ g \in Range(given)
\* With an honest board what is confirmed was sent.
Honest   == honest => confirmed \subseteq {Whole(n) : n \in DOMAIN sent}
\* A group is offered before the rounds of its service have passed its length.
Offering ==
  honest /\ (\A n \in DOMAIN sent : Received(n)) =>
    \A k \in DOMAIN vcs : \A n \in DOMAIN sent : ~sent[n].lcas /\ sent[n].svc = SvcNames(sent)[k] =>
      \/ Whole(n) \in offered
      \/ vcs[k].sq_status = "default"
      \/ vcs[k].sq_status = "got" /\ sent[n].len > vcs[k].sq_pre + 1
Fresh    == \A k \in DOMAIN vcs : vcs[k].sq_status = "default" => vcs[k].sq_pre = 0
IInv == /\ Fixed /\ Answered /\ Counted /\ Behind /\ Before /\ Noted /\ Ended /\ LcasFirst /\ Left
        /\ confirmed \subseteq offered /\ Honest /\ Offering /\ Fresh

AllChannels(s) == {l.channel : l \in Link(s)}

\* The groups given are made of channels, and none is empty.
LEMMA GivenFacts ==
  ASSUME Fixed, Answered, Behind
  PROVE  given \in Seq(Seq(AllChannels(sent))) /\ \A g \in Range(given) : g # <<>>
<1>1. sent \in Fleets /\ vcs \in Vcs(sent)
  BY DEF Fixed
<1>2. PICK old : Held(sent, vcs, old)
  BY DEF Behind
<1>3. CASE given = <<>>
  BY <1>3, SmallSeqs, EmptySeq
<1>4. CASE given = LcasAnswer(sent)
  <2>1. LcasAnswer(sent) \in Seq(Seq(LcasChannels(sent))) /\ \A g \in Range(LcasAnswer(sent)) : g # <<>>
    BY <1>1, LcasAnswerFacts
  <2>2. LcasChannels(sent) \subseteq AllChannels(sent)
    BY DEF LcasChannels, AllChannels
  <2>3. Seq(LcasChannels(sent)) \subseteq Seq(AllChannels(sent))
    BY <2>2, SeqMonotonic
  <2> QED
    BY <1>4, <2>1, <2>3, SeqMonotonic
<1>5. CASE given = RoundOf(vcs)
  <2>1. RoundOf(vcs) \in Seq(Seq(PlainChannels(sent))) /\ \A g \in Range(RoundOf(vcs)) : g # <<>>
    BY <1>1, <1>2, RoundOfFacts
  <2>2. PlainChannels(sent) \subseteq AllChannels(sent)
    BY DEF PlainChannels, AllChannels
  <2>3. Seq(PlainChannels(sent)) \subseteq Seq(AllChannels(sent))
    BY <2>2, SeqMonotonic
  <2> QED
    BY <1>5, <2>1, <2>3, SeqMonotonic
<1> QED
  BY <1>3, <1>4, <1>5 DEF Answered

\* A group of channels with LCAS is not plain, and one of the others is.
LEMMA PlainFacts ==
  ASSUME sent \in Fleets
  PROVE  /\ \A g \in Seq(LcasChannels(sent)) : g # <<>> => ~Plain(g)
         /\ \A g \in Seq(PlainChannels(sent)) : g # <<>> => Plain(g)
<1>1. ASSUME NEW l \in Link(sent), NEW g, g[1] = l.channel PROVE Plain(g) <=> ~l.is_lcas
  <2>1. PICK n \in DOMAIN sent : \E i \in 1 .. sent[n].len : l = LinkOf(sent, n, i)
    BY LinkFacts
  <2>2. PICK i \in 1 .. sent[n].len : l = LinkOf(sent, n, i)
    BY <2>1
  <2>3. l.channel = <<n, i - 1>> /\ l.is_lcas = sent[n].lcas
    BY <2>2 DEF LinkOf
  <2>4. g[1][1] = n
    BY <1>1, <2>3
  <2> QED
    BY <2>3, <2>4, Zenon DEF Plain
<1>2. ASSUME NEW C, NEW g \in Seq(C), g # <<>> PROVE g[1] \in C
  <2>1. 1 \in 1 .. Len(g)
    BY <1>2, EmptySeq
  <2> QED
    BY <2>1, ElementOfSeq
<1>3. ASSUME NEW g \in Seq(LcasChannels(sent)), g # <<>> PROVE ~Plain(g)
  <2>1. PICK l \in Link(sent) : l.is_lcas /\ g[1] = l.channel
    BY <1>2, <1>3 DEF LcasChannels
  <2> QED
    BY <1>1, <2>1
<1>4. ASSUME NEW g \in Seq(PlainChannels(sent)), g # <<>> PROVE Plain(g)
  <2>1. PICK l \in Link(sent) : ~l.is_lcas /\ g[1] = l.channel
    BY <1>2, <1>4 DEF PlainChannels
  <2> QED
    BY <1>1, <2>1
<1> QED
  BY <1>3, <1>4

\* The groups of the first answer are not plain.
LEMMA LcasNotPlain ==
  ASSUME sent \in Fleets, NEW g \in Range(LcasAnswer(sent))
  PROVE  ~Plain(g) /\ Range(g) \subseteq LcasChannels(sent)
<1>1. g \in Seq(LcasChannels(sent)) /\ g # <<>>
  BY LcasAnswerFacts, SeqRange
<1> QED
  BY <1>1, PlainFacts, SeqRange

(* The groups with LCAS take no link from the tables of the others. *)
LEMMA HeldLcas ==
  ASSUME sent \in Fleets, NEW v, NEW a, Held(sent, v, a), NEW b, a \cup b \subseteq Range(LcasAnswer(sent))
  PROVE  Held(sent, v, b)
<1> DEFINE In(k, i, o) == {l \in PlainTable(sent, SvcNames(sent)[k], i) : l.channel \notin ChannelsOf(o)}
<1>1. ASSUME NEW o, o \subseteq Range(LcasAnswer(sent)), NEW k, NEW i, NEW l \in PlainTable(sent, SvcNames(sent)[k], i)
      PROVE  l.channel \notin ChannelsOf(o)
  <2>1. SUFFICES ASSUME NEW g \in o, l.channel \in Range(g) PROVE FALSE
    BY DEF ChannelsOf
  <2>2. l.channel \in LcasChannels(sent)
    BY <1>1, <2>1, LcasNotPlain
  <2>3. PICK m \in Link(sent) : m.is_lcas /\ m.channel = l.channel
    BY <2>2 DEF LcasChannels
  <2>4. l \in Link(sent) /\ ~l.is_lcas
    BY DEF PlainTable
  <2>5. l = m
    BY <2>3, <2>4, LinkFacts
  <2> QED
    BY <2>3, <2>4, <2>5
<1>2. \A k, i : In(k, i, a) = In(k, i, b)
  <2>1. a \subseteq Range(LcasAnswer(sent)) /\ b \subseteq Range(LcasAnswer(sent))
    OBVIOUS
  <2> QED
    BY <1>1, <2>1
<1> QED
  BY <1>2 DEF Held

(* A batch ends among the groups given. *)
LEMMA BatchFacts ==
  ASSUME NEW C, given \in Seq(Seq(C)), NEW from \in 0 .. Len(given)
  PROVE  BatchEnd(from) \in from .. Len(given)
<1> DEFINE n == Len(given)
           T == {to \in from .. n : Links(from, to) <= MaxLink}
<1>1. n \in Nat /\ MaxLink \in Nat /\ \A i \in 1 .. n : given[i] \in Seq(C)
  BY LenProperties, GrpSmAssumption
<1> HIDE DEF n
<1>2. \A to \in from .. n : Links(from, to) \in Nat
  <2>1. SUFFICES ASSUME NEW to \in from .. n PROVE Links(from, to) \in Nat
    OBVIOUS
  <2>2. from + 1 \in Int /\ to \in Int /\ \A i \in from + 1 .. to : given[i] \in Seq(C)
    BY <1>1 DEF n
  <2>3. SubSeq(given, from + 1, to) \in Seq(Seq(C))
    BY <2>2, SubSeqProperties
  <2>4. FlattenSeq(SubSeq(given, from + 1, to)) \in Seq(C)
    BY <2>3, FlattenFacts
  <2> QED
    BY <2>4, LenProperties DEF Links
<1>3. from \in T
  <2>1. from \in from .. n /\ from + 1 \in Int /\ from \in Int /\ from < from + 1
    BY DEF n
  <2>2. SubSeq(given, from + 1, from) = <<>>
    BY <2>1, SubSeqEmpty
  <2>3. FlattenSeq(<<>>) = <<>>
    BY DEF FlattenSeq
  <2>4. Links(from, from) = 0
    <3>1. Links(from, from) = Len(FlattenSeq(SubSeq(given, from + 1, from)))
      BY Zenon DEF Links
    <3> HIDE DEF T
    <3>2. Len(FlattenSeq(SubSeq(given, from + 1, from))) = Len(<<>>)
      BY <2>2, <2>3
    <3> QED
      BY <3>1, <3>2
  <2> QED
    BY <1>1, <2>1, <2>4
<1>4. PICK to \in T : \A j \in T : j <= to
  <2>1. T \subseteq 0 .. n
    BY <1>1 DEF n
  <2> HIDE DEF T
  <2> QED
    BY <1>1, <1>3, <2>1, Greatest
<1>5. to < n => Links(from, to + 1) > MaxLink
  <2>1. SUFFICES ASSUME to < n PROVE Links(from, to + 1) > MaxLink
    OBVIOUS
  <2>2. to + 1 \in from .. n
    BY <1>1, <2>1 DEF n
  <2>3. to + 1 \notin T
    <3>1. ~(to + 1 <= to)
      BY <1>1 DEF n
    <3> HIDE DEF T
    <3> QED
      BY <1>4, <3>1
  <2> QED
    BY <1>1, <1>2, <2>2, <2>3
<1>6. \E x \in from .. Len(given) : /\ Links(from, x) <= MaxLink
                                    /\ x < Len(given) => Links(from, x + 1) > MaxLink
  BY <1>4, <1>5 DEF n
<1> QED
  BY <1>6 DEF BatchEnd

-----------------------------------------------------------------------------
(* The start, and the steps that give no round. *)

\* The service of a group that arrives has a table.
LEMMA FleetsHaveServices ==
  ASSUME NEW s \in Fleets, NEW n \in DOMAIN s, ~s[n].lcas, s[n].lost = -1
  PROVE  \E k \in DOMAIN Plainly(s) : s[n].svc = SvcNames(s)[k]
<1>1. 1 \in 1 .. s[n].len /\ s[n].lost # 1 - 1
  BY FleetFacts
<1>2. LinkOf(s, n, 1) \in Link(s) /\ LinkOf(s, n, 1).vc_valid /\ ~LinkOf(s, n, 1).is_lcas
      /\ LinkOf(s, n, 1).svc_type = s[n].svc
  <2>1. LinkOf(s, n, 1) \in Link(s)
    BY <1>1 DEF Link
  <2> QED
    BY <1>1, <2>1 DEF LinkOf
<1>3. s[n].svc \in Range(SvcNames(s)) /\ DOMAIN SvcNames(s) = DOMAIN Plainly(s)
  BY <1>2, PlainBundles
<1> QED
  BY <1>3 DEF Range

\* The invariant holds at the start of study.
LEMMA StartHolds == Init => IInv
<1> SUFFICES ASSUME Init PROVE IInv
  OBVIOUS
<1> DEFINE P == Plainly(sent)
<1>1. sent \in Fleets /\ honest \in BOOLEAN /\ pc = "get" /\ lcas = LcasBundles(sent)
      /\ lcas_got \in BOOLEAN /\ given = <<>> /\ tried = 0 /\ passed = {}
      /\ confirmed = {} /\ offered = {} /\ attempted = {}
  BY DEF Init, LcasBundles
<1>2. vcs = [k \in DOMAIN P |-> [sqlinks |-> P[k], sq_status |-> "default", sq_pre |-> 0]]
  BY DEF Init, Plainly
<1>3. \A k \in DOMAIN P :
        /\ P[k] \in [0 .. MaxLen -> Seq(Link(sent))]
        /\ P[k][MaxLen] = <<>>
        /\ \A i \in 0 .. MaxLen :
             /\ IsInjective(P[k][i])
             /\ Range(P[k][i]) = PlainTable(sent, SvcNames(sent)[k], i)
  BY <1>1, PlainBundles
<1> HIDE DEF P
<1>4. \A k \in DOMAIN P : [sqlinks |-> P[k], sq_status |-> "default", sq_pre |-> 0] \in Svc(sent)
  BY <1>3, GrpSmAssumption DEF Svc, Sq
<1>5. DOMAIN vcs = DOMAIN P
      /\ \A k \in DOMAIN P : vcs[k].sqlinks = P[k] /\ vcs[k].sq_status = "default"
  BY <1>2
<1>6. vcs \in Vcs(sent)
  BY <1>2, <1>4 DEF Vcs, P
<1>7. Fixed
  BY <1>1, <1>6 DEF Fixed
<1>8. Held(sent, vcs, {})
  <2>1. ChannelsOf({}) = {}
    BY DEF ChannelsOf
  <2>2. \A k \in DOMAIN vcs : \A i \in 0 .. MaxLen :
          Range(vcs[k].sqlinks[i]) = {l \in PlainTable(sent, SvcNames(sent)[k], i) : l.channel \notin {}}
    BY <1>3, <1>5
  <2> QED
    BY <2>1, <2>2 DEF Held
<1>9. Behind
  BY <1>1, <1>8 DEF Behind
<1>10. Answered /\ Before /\ Ended /\ LcasFirst /\ Left /\ confirmed \subseteq offered /\ Honest
  BY <1>1 DEF Answered, Before, Ended, LcasFirst, Left, Honest
<1>11. Counted /\ Noted
  <2>1. Len(given) = 0 /\ Range(given) = {}
    BY <1>1, SmallSeqs
  <2> QED
    BY <1>1, <2>1 DEF Counted, Noted
<1>12. Offering /\ Fresh
  BY <1>2, <1>5 DEF Offering, Fresh
<1> QED
  BY <1>7, <1>9, <1>10, <1>11, <1>12 DEF IInv

\* It holds when study is stopped.
LEMMA QuitHolds ==
  ASSUME IInv, Quit
  PROVE  IInv'
<1>1. /\ pc' = "quit" /\ sent' = sent /\ honest' = honest /\ lcas' = lcas /\ vcs' = vcs
      /\ lcas_got' = lcas_got /\ given' = given /\ tried' = tried /\ passed' = passed
      /\ confirmed' = confirmed /\ offered' = offered /\ attempted' = attempted
      /\ pc \in {"get", "try"}
  BY DEF Quit, ctl
<1> USE <1>1 DEF IInv
<1>2. Fixed'
  BY DEF Fixed
<1>3. Answered'
  BY DEF Answered
<1>4. Counted'
  BY DEF Counted
<1>5. Behind'
  BY DEF Behind
<1>6. Before'
  BY DEF Before
<1>7. Noted' /\ (confirmed \subseteq offered)'
  BY DEF Noted
<1>8. Ended' /\ LcasFirst'
  BY DEF Ended, LcasFirst
<1>9. Left'
  BY DEF Left, Plain, Taken
<1>10. Honest'
  BY DEF Honest, Whole
<1>11. Offering' /\ Fresh'
  BY DEF Offering, Whole, Received, Fresh
<1> QED
  BY <1>2, <1>3, <1>4, <1>5, <1>6, <1>7, <1>8, <1>9, <1>10, <1>11

\* It holds when nothing changes.
LEMMA StutterHolds ==
  ASSUME IInv, UNCHANGED vars
  PROVE  IInv'
<1>1. /\ pc' = pc /\ sent' = sent /\ honest' = honest /\ lcas' = lcas /\ vcs' = vcs
      /\ lcas_got' = lcas_got /\ given' = given /\ tried' = tried /\ passed' = passed
      /\ confirmed' = confirmed /\ offered' = offered /\ attempted' = attempted
  BY DEF vars, ctl
<1> USE <1>1 DEF IInv
<1>2. Fixed' /\ Answered' /\ Counted' /\ Behind' /\ Before' /\ Noted' /\ Ended' /\ LcasFirst'
  BY DEF Fixed, Answered, Counted, Behind, Before, Noted, Ended, LcasFirst
<1>3. Left' /\ Honest' /\ Offering' /\ (confirmed \subseteq offered)'
  BY DEF Left, Plain, Taken, Honest, Offering, Whole, Received
<1>4. Fresh'
  BY DEF Fresh
<1> QED
  BY <1>2, <1>3, <1>4

\* What Answer does to the history and the counters.
LEMMA AnswerFacts ==
  ASSUME NEW cfg, Answer(cfg), Fixed, vcs' \in Vcs(sent), lcas' = lcas, lcas_got' \in BOOLEAN,
         Noted, Honest, confirmed \subseteq offered
  PROVE  /\ given' = cfg /\ tried' = 0 /\ passed' = {} /\ offered' = offered \cup Range(cfg)
         /\ pc' = IF cfg = <<>> THEN "done" ELSE "try"
         /\ sent' = sent /\ confirmed' = confirmed /\ attempted' = attempted /\ honest' = honest
         /\ Fixed' /\ Noted' /\ Honest' /\ (confirmed \subseteq offered)'
<1>1. /\ given' = cfg /\ tried' = 0 /\ passed' = {} /\ offered' = offered \cup Range(cfg)
      /\ pc' = IF cfg = <<>> THEN "done" ELSE "try"
      /\ sent' = sent /\ confirmed' = confirmed /\ attempted' = attempted /\ honest' = honest
  BY DEF Answer
<1>2. Fixed'
  BY <1>1 DEF Fixed
<1>3. Noted'
  BY <1>1 DEF Noted
<1>4. Honest'
  BY <1>1 DEF Honest, Whole
<1> QED
  BY <1>1, <1>2, <1>3, <1>4

\* Nothing tried of an answer.
LEMMA CountedAtZero ==
  ASSUME NEW C, NEW g \in Seq(C)
  PROVE  0 \in 0 .. Len(g) /\ {} \subseteq 1 .. 0
BY LenProperties

\* The first answer keeps the invariant.
LEMMA GetLcasHolds ==
  ASSUME IInv, GetLcas
  PROVE  IInv'
<1> USE DEF IInv
<1>1. /\ pc = "get" /\ given = <<>> /\ get_lcas # <<>> /\ Answer(get_lcas)
      /\ lcas' = lcas /\ vcs' = vcs /\ lcas_got' = lcas_got
  BY DEF GetLcas, ctl
<1>2. get_lcas = LcasAnswer(sent)
  BY DEF get_lcas, LcasAnswer, Fixed
<1>3. sent \in Fleets /\ vcs \in Vcs(sent) /\ lcas_got \in BOOLEAN
  BY DEF Fixed
<1>4. /\ given' = LcasAnswer(sent) /\ tried' = 0 /\ passed' = {}
      /\ offered' = offered \cup Range(LcasAnswer(sent)) /\ pc' = "try"
      /\ sent' = sent /\ confirmed' = confirmed /\ attempted' = attempted /\ honest' = honest
      /\ Fixed' /\ Noted' /\ Honest' /\ (confirmed \subseteq offered)'
  BY <1>1, <1>2, <1>3, AnswerFacts
<1>5. Answered' /\ Before' /\ LcasFirst'
  BY <1>1, <1>4 DEF Answered, Before, LcasFirst
<1>6. Counted'
  <2>1. LcasAnswer(sent) \in Seq(Seq(LcasChannels(sent)))
    BY <1>3, LcasAnswerFacts
  <2> QED
    BY <1>4, <2>1, CountedAtZero DEF Counted
<1>7. Ended'
  BY <1>1, <1>2, <1>4 DEF Ended
<1>8. Behind'
  <2>1. PICK old : confirmed = old \cup {given[i] : i \in passed} /\ Held(sent, vcs, old)
    BY DEF Behind
  <2>2. Len(given) = 0
    BY <1>1
  <2>3. passed = {}
    BY <2>2 DEF Counted
  <2>4. confirmed = old
    BY <2>1, <2>3
  <2>5. Held(sent, vcs, confirmed)
    BY <2>1, <2>4
  <2>6. Held(sent, vcs, confirmed)'
    BY <1>1, <1>4, <2>5
  <2> QED
    BY <1>4, <2>6 DEF Behind
<1>9. Left'
  <2>1. \A g \in offered : Plain(g) => g \in attempted \/ Range(g) \cap Taken # {}
    BY <1>1, SmallSeqs DEF Left
  <2>2. Taken' = Taken /\ \A g : Plain(g)' <=> Plain(g)
    BY <1>4 DEF Taken, Plain
  <2> QED
    BY <1>4, <2>1, <2>2 DEF Left
<1>10. Offering' /\ Fresh'
  BY <1>1, <1>4 DEF Offering, Whole, Received, Fresh
<1> QED
  BY <1>4, <1>5, <1>6, <1>7, <1>8, <1>9, <1>10

\* A batch keeps the invariant.
LEMMA TryBatchHolds ==
  ASSUME IInv, TryBatch
  PROVE  IInv'
<1> USE DEF IInv
<1> DEFINE to == BatchEnd(tried)
           batch == tried + 1 .. to
<1>1. PICK ok \in Verdicts({given[i] : i \in batch}) :
        /\ tried' = to
        /\ passed' = passed \cup {i \in batch : given[i] \in ok}
        /\ confirmed' = confirmed \cup ok
        /\ attempted' = attempted \cup {given[i] : i \in batch}
        /\ pc' = IF ok # {} \/ to = Len(given) THEN "get" ELSE "try"
  BY DEF TryBatch
<1>2. /\ pc = "try" /\ sent' = sent /\ honest' = honest /\ lcas' = lcas /\ vcs' = vcs /\ lcas_got' = lcas_got
      /\ given' = given /\ offered' = offered
  BY DEF TryBatch, ctl
<1>3. /\ given \in Seq(Seq(AllChannels(sent))) /\ Len(given) \in Nat /\ DOMAIN given = 1 .. Len(given)
      /\ tried \in 0 .. Len(given) /\ passed \subseteq 1 .. tried
  BY GivenFacts, LenProperties DEF Counted
<1>4. to \in tried .. Len(given)
  BY <1>3, BatchFacts
<1> HIDE DEF to
<1>5. batch \subseteq 1 .. Len(given) /\ \A i \in 1 .. to : i \in 1 .. tried \/ i \in batch
  BY <1>3, <1>4
<1>6. ok \subseteq {given[i] : i \in batch} /\ (honest => ok \subseteq {Whole(n) : n \in DOMAIN sent})
  BY DEF Verdicts
<1>7. {given[i] : i \in batch} \subseteq Range(given) /\ Range(given) \subseteq offered
  BY <1>3, <1>5 DEF Range, Noted
<1>8. Fixed' /\ Answered'
  BY <1>2 DEF Fixed, Answered
<1>9. Counted'
  <2>1. Len(given) \in Nat /\ tried \in 0 .. Len(given) /\ to \in tried .. Len(given) /\ to \in Nat
    BY <1>3, <1>4
  <2>2. tried' \in 0 .. Len(given) /\ tried' = to
    BY <1>1, <2>1
  <2>3. \A i \in passed' : i \in passed \/ i \in batch
    BY <1>1
  <2>4. \A i \in 1 .. tried : i \in 1 .. to
    BY <2>1
  <2>5. \A i \in batch : i \in 1 .. to
    BY <2>1
  <2>6. passed' \subseteq 1 .. to
    BY <1>3, <2>3, <2>4, <2>5
  <2> QED
    BY <1>2, <2>2, <2>6 DEF Counted
<1>10. Behind'
  <2>1. PICK old : confirmed = old \cup {given[i] : i \in passed} /\ Held(sent, vcs, old)
    BY DEF Behind
  <2>2. ok = {given[i] : i \in {j \in batch : given[j] \in ok}}
    BY <1>6
  <2>3. {given[i] : i \in passed'} = {given[i] : i \in passed} \cup {given[i] : i \in {j \in batch : given[j] \in ok}}
    <3> DEFINE now == {j \in batch : given[j] \in ok}
    <3>1. passed' = passed \cup now
      BY <1>1
    <3> HIDE DEF now
    <3>2. {given[i] : i \in passed \cup now} = {given[i] : i \in passed} \cup {given[i] : i \in now}
      OBVIOUS
    <3>3. {given[i] : i \in passed'} = {given[i] : i \in passed \cup now}
      BY <3>1
    <3> QED
      BY <3>2, <3>3 DEF now
  <2>4. confirmed' = old \cup {given[i] : i \in passed'}
    BY <1>1, <2>1, <2>2, <2>3
  <2> QED
    BY <1>2, <2>1, <2>4 DEF Behind
<1>11. Before'
  <2>1. ~lcas_got => Range(given) \subseteq Range(LcasAnswer(sent))
    <3>1. given # <<>>
      BY <1>2 DEF Ended
    <3> QED
      BY <3>1 DEF Answered
  <2> QED
    BY <1>1, <1>2, <1>6, <1>7, <2>1 DEF Before
<1>12. Noted' /\ (confirmed \subseteq offered)'
  <2>1. \A i \in 1 .. tried' : given[i] \in attempted'
    BY <1>1, <1>5 DEF Noted
  <2> QED
    BY <1>1, <1>2, <1>6, <1>7, <2>1 DEF Noted
<1>13. Ended' /\ LcasFirst'
  BY <1>1, <1>2 DEF Ended, LcasFirst
<1>14. Left'
  <2>1. Taken \subseteq Taken' /\ attempted \subseteq attempted'
    BY <1>1 DEF Taken
  <2>2. \A g : Plain(g)' <=> Plain(g)
    BY <1>2 DEF Plain
  <2> QED
    BY <1>2, <2>1, <2>2 DEF Left
<1>15. Honest'
  BY <1>1, <1>2, <1>6 DEF Honest, Whole
<1>16. Offering' /\ Fresh'
  BY <1>2 DEF Offering, Whole, Received, Fresh
<1> QED
  BY <1>8, <1>9, <1>10, <1>11, <1>12, <1>13, <1>14, <1>15, <1>16

-----------------------------------------------------------------------------
(* The step that gives a round. *)

\* What GetVc does, by the lemmas on tables: afterwards they hold the links of no confirmed group.
LEMMA RoundStep ==
  ASSUME IInv, GetVc
  PROVE  /\ pc = "get" /\ (given = <<>> => get_lcas = <<>>)
         /\ lcas_got' = TRUE /\ lcas' = lcas
         /\ (vc_partial' <=> lcas_got /\ partly) /\ vc_partial' \in BOOLEAN
         /\ vcs \in Vcs(sent) /\ vcs' \in Vcs(sent) /\ DOMAIN vcs' = DOMAIN vcs
         /\ Held(sent, vcs', confirmed) /\ Answer(RoundOf(vcs'))
         /\ CalledAll(sent, vcs, vcs', IF lcas_got THEN {given[i] : i \in passed} ELSE {}, vc_partial')
         /\ \E old : Held(sent, vcs, old)
<1> USE DEF IInv
<1> DEFINE hits == {given[i] : i \in passed}
           done == IF lcas_got THEN hits ELSE {}
           of(k) == get_vcs_from_svc(remove_olinks(vcs[k], done), vc_partial')
<1>1. /\ pc = "get" /\ (given = <<>> => get_lcas = <<>>) /\ lcas_got' = TRUE /\ lcas' = lcas
      /\ vc_partial' = (lcas_got /\ partly)
      /\ get_vc(vc_partial', done)
  BY DEF GetVc
<1>2. vc_partial' \in BOOLEAN /\ (vc_partial' <=> lcas_got /\ partly)
  BY <1>1, Zenon DEF Fixed
<1>3. /\ vcs' = [k \in DOMAIN vcs |-> of(k).svc]
      /\ Answer(FlattenSeq([k \in DOMAIN vcs |-> of(k).cfg]))
  BY <1>1 DEF get_vc
<1>4. PICK old : confirmed = old \cup hits /\ Held(sent, vcs, old)
  BY DEF Behind
<1>5. sent \in Fleets /\ vcs \in Vcs(sent)
  BY DEF Fixed
<1> HIDE DEF IInv
<1> DEFINE partial == vc_partial'
           w == vcs'
<1>6. /\ w \in Vcs(sent) /\ Held(sent, w, old \cup done)
      /\ FlattenSeq([k \in DOMAIN vcs |-> of(k).cfg]) = RoundOf(w)
      /\ CalledAll(sent, vcs, w, done, partial)
  <2>1. partial \in BOOLEAN /\ w = AfterCall(vcs, done, partial)
        /\ FlattenSeq([k \in DOMAIN vcs |-> of(k).cfg]) = GivenBy(vcs, done, partial)
    BY <1>2, <1>3 DEF AfterCall, GivenBy
  <2> HIDE DEF done, hits, partial, w
  <2>2. /\ w \in Vcs(sent) /\ Held(sent, w, old \cup done)
        /\ GivenBy(vcs, done, partial) = RoundOf(w)
        /\ CalledAll(sent, vcs, w, done, partial)
    BY <1>4, <1>5, <2>1, GetVcFacts
  <2> QED
    BY <2>1, <2>2
<1>7. Held(sent, w, confirmed)
  <2>1. CASE lcas_got
    BY <1>4, <1>6, <2>1
  <2>2. CASE ~lcas_got
    <3>1. done = {} /\ confirmed \subseteq Range(LcasAnswer(sent))
      BY <2>2 DEF Before, IInv
    <3>2. old \cup done = old /\ old \cup confirmed \subseteq Range(LcasAnswer(sent))
      BY <1>4, <3>1
    <3>3. Held(sent, w, old)
      BY <1>6, <3>2
    <3> HIDE DEF w
    <3> QED
      BY <1>5, <3>2, <3>3, HeldLcas
  <2> QED
    BY <2>1, <2>2
<1>8. DOMAIN vcs' = DOMAIN vcs
  BY <1>3
<1>9. Answer(RoundOf(vcs'))
  BY <1>3, <1>6
<1> HIDE DEF done, w
<1> QED
  BY <1>1, <1>2, <1>4, <1>5, <1>6, <1>7, <1>8, <1>9 DEF done, w, partial

\* What was given and not tried is given again.
LEMMA LeftAfterRound ==
  ASSUME IInv, GetVc
  PROVE  Left'
<1> USE DEF IInv
<1>1. /\ lcas_got' = TRUE /\ (vc_partial' <=> lcas_got /\ partly) /\ vc_partial' \in BOOLEAN
      /\ vcs \in Vcs(sent) /\ vcs' \in Vcs(sent) /\ DOMAIN vcs' = DOMAIN vcs
      /\ Held(sent, vcs', confirmed) /\ Answer(RoundOf(vcs'))
      /\ CalledAll(sent, vcs, vcs', IF lcas_got THEN {given[i] : i \in passed} ELSE {}, vc_partial')
  BY RoundStep
<1>2. given' = RoundOf(vcs') /\ offered' = offered \cup Range(RoundOf(vcs')) /\ sent' = sent
      /\ confirmed' = confirmed /\ attempted' = attempted
  BY <1>1 DEF Answer
<1>3. Taken' = Taken /\ \A g : Plain(g)' <=> Plain(g)
  BY <1>2 DEF Taken, Plain
<1>4. Len(given) \in Nat /\ DOMAIN given = 1 .. Len(given)
  BY GivenFacts, LenProperties
<1>5. ASSUME NEW g \in offered, Plain(g), g \notin attempted, Range(g) \cap Taken = {}
      PROVE  g \in Range(RoundOf(vcs'))
  <2>1. g \in Range(given)
    BY <1>5 DEF Left
  <2>2. sent \in Fleets
    BY DEF Fixed
  <2>3. g \notin Range(LcasAnswer(sent)) /\ g \notin Range(<<>>)
    BY <1>5, <2>2, LcasNotPlain, SmallSeqs
  <2>4. lcas_got /\ given = RoundOf(vcs)
    BY <2>1, <2>3 DEF Answered
  <2>5. tried < Len(given)
    <3>1. PICK i \in 1 .. Len(given) : given[i] = g
      BY <1>4, <2>1 DEF Range
    <3>2. i \notin 1 .. tried
      BY <1>5, <3>1 DEF Noted
    <3> QED
      BY <1>4, <3>1, <3>2 DEF Counted
  <2>6. vc_partial'
    BY <1>1, <2>4, <2>5 DEF partly
  <2>7. \A k \in DOMAIN vcs : vcs[k].sq_status = "got" => vcs'[k].sq_status = "got" /\ vcs'[k].sq_pre = vcs[k].sq_pre
    <3>1. SUFFICES ASSUME NEW k \in DOMAIN vcs, vcs[k].sq_status = "got"
                   PROVE  vcs'[k].sq_status = "got" /\ vcs'[k].sq_pre = vcs[k].sq_pre
      OBVIOUS
    <3>2. PICK r : r.sq_status = vcs[k].sq_status /\ r.sq_pre = vcs[k].sq_pre /\ Called(r, vcs'[k], vc_partial')
      BY <1>1 DEF CalledAll
    <3> QED
      BY <2>6, <3>1, <3>2 DEF Called
  <2>8. PICK old : Held(sent, vcs, old)
    BY DEF Behind
  <2>9. g \in Range(RoundOf(vcs)) /\ Range(g) \cap ChannelsOf(confirmed) = {}
    BY <1>5, <2>1, <2>4 DEF Taken, ChannelsOf
  <2> DEFINE w == vcs'
  <2>10. w \in Vcs(sent) /\ Held(sent, w, confirmed)
         /\ \A k \in DOMAIN vcs : vcs[k].sq_status = "got" => w[k].sq_status = "got" /\ w[k].sq_pre = vcs[k].sq_pre
    BY <1>1, <2>7
  <2> HIDE DEF w, IInv
  <2>11. g \in Range(RoundOf(w))
    BY <1>1, <2>2, <2>8, <2>9, <2>10, RoundRepeated
  <2> QED
    BY <2>11 DEF w
<1>6. \A g \in Range(RoundOf(vcs')) : g \in Range(given')
  BY <1>2
<1>7. \A g \in offered' : g \in offered \/ g \in Range(RoundOf(vcs'))
  BY <1>2
<1> QED
  BY <1>2, <1>3, <1>5, <1>6, <1>7 DEF Left

-----------------------------------------------------------------------------
(* With an honest board, and all received: the links that are free at a number
   are those of the groups that are long enough and were not confirmed. *)

Unconfirmed(svc) == {m \in DOMAIN sent : ~sent[m].lcas /\ sent[m].svc = svc /\ Whole(m) \notin confirmed}

\* The links that are free at number i are the members of the unconfirmed groups longer than i.
LEMMA FreeLinks ==
  ASSUME sent \in Fleets, \A n \in DOMAIN sent : Received(n),
         confirmed \subseteq {Whole(n) : n \in DOMAIN sent},
         NEW svc, NEW i \in Nat
  PROVE  {l \in PlainTable(sent, svc, i) : l.channel \notin ChannelsOf(confirmed)} =
           {LinkOf(sent, m, i + 1) : m \in {n \in Unconfirmed(svc) : sent[n].len > i}}
<1> DEFINE U == {n \in Unconfirmed(svc) : sent[n].len > i}
<1>0. \A n \in DOMAIN sent : sent[n].len \in Nat /\ sent[n].lcas \in BOOLEAN /\ sent[n].lost = -1
  BY FleetFacts DEF Received
<1>1. ASSUME NEW l \in PlainTable(sent, svc, i), l.channel \notin ChannelsOf(confirmed)
      PROVE  l \in {LinkOf(sent, m, i + 1) : m \in U}
  <2>1. l \in Link(sent) /\ ~l.is_lcas /\ l.svc_type = svc /\ l.sq = i
    BY DEF PlainTable
  <2>2. PICK n \in DOMAIN sent : \E j \in 1 .. sent[n].len : l = LinkOf(sent, n, j)
    BY <2>1, LinkFacts
  <2>3. PICK j \in 1 .. sent[n].len : l = LinkOf(sent, n, j)
    BY <2>2
  <2>4. l.channel = <<n, j - 1>> /\ l.is_lcas = sent[n].lcas /\ l.svc_type = sent[n].svc /\ l.sq = j - 1
    BY <2>3 DEF LinkOf
  <2>5. j = i + 1 /\ sent[n].len > i
    BY <1>0, <2>1, <2>4
  <2>6. Whole(n) \notin confirmed
    <3>1. <<n, j - 1>> \in Range(Whole(n))
      BY DEF Whole, Range
    <3> QED
      BY <1>1, <2>4, <3>1 DEF ChannelsOf
  <2>7. n \in U
    BY <1>0, <2>1, <2>4, <2>5, <2>6 DEF Unconfirmed
  <2> QED
    BY <2>3, <2>5, <2>7
<1>2. ASSUME NEW m \in U
      PROVE  /\ LinkOf(sent, m, i + 1) \in PlainTable(sent, svc, i)
             /\ LinkOf(sent, m, i + 1).channel \notin ChannelsOf(confirmed)
  <2>1. m \in DOMAIN sent /\ ~sent[m].lcas /\ sent[m].svc = svc /\ Whole(m) \notin confirmed /\ sent[m].len > i
    BY DEF Unconfirmed
  <2>2. i + 1 \in 1 .. sent[m].len /\ sent[m].lost # i + 1 - 1 /\ i + 1 - 1 = i
    BY <1>0, <2>1
  <2>3. LinkOf(sent, m, i + 1) \in Link(sent)
    BY <2>1, <2>2 DEF Link
  <2>4. /\ LinkOf(sent, m, i + 1).vc_valid /\ ~LinkOf(sent, m, i + 1).is_lcas
        /\ LinkOf(sent, m, i + 1).svc_type = svc /\ LinkOf(sent, m, i + 1).sq = i
        /\ LinkOf(sent, m, i + 1).channel = <<m, i>>
    <3> DEFINE j == i + 1
    <3>1. j - 1 = i
      OBVIOUS
    <3> HIDE DEF j
    <3>2. /\ LinkOf(sent, m, j).vc_valid <=> sent[m].lost # j - 1
          /\ LinkOf(sent, m, j).is_lcas = sent[m].lcas
          /\ LinkOf(sent, m, j).svc_type = sent[m].svc /\ LinkOf(sent, m, j).sq = j - 1
          /\ LinkOf(sent, m, j).channel = <<m, j - 1>>
      BY DEF LinkOf
    <3>3. /\ LinkOf(sent, m, j).vc_valid /\ ~LinkOf(sent, m, j).is_lcas
          /\ LinkOf(sent, m, j).svc_type = svc /\ LinkOf(sent, m, j).sq = i
          /\ LinkOf(sent, m, j).channel = <<m, i>>
      BY <2>1, <2>2, <3>1, <3>2
    <3> QED
      BY <3>3 DEF j
  <2>5. <<m, i>> \notin ChannelsOf(confirmed)
    <3>1. SUFFICES ASSUME NEW g \in confirmed, <<m, i>> \in Range(g) PROVE FALSE
      BY DEF ChannelsOf
    <3>2. PICK n \in DOMAIN sent : g = Whole(n)
      OBVIOUS
    <3>3. PICK j \in 1 .. sent[n].len : <<m, i>> = <<n, j - 1>>
      BY <3>1, <3>2 DEF Whole, Range
    <3>4. m = n
      BY <3>3
    <3> QED
      BY <2>1, <3>2, <3>4
  <2> QED
    BY <2>3, <2>4, <2>5 DEF PlainTable
<1> HIDE DEF U
<1>3. {l \in PlainTable(sent, svc, i) : l.channel \notin ChannelsOf(confirmed)} = {LinkOf(sent, m, i + 1) : m \in U}
  BY <1>1, <1>2
<1> QED
  BY <1>3 DEF U

\* Where a group ends the count of free links drops.
LEMMA CountsDrop ==
  ASSUME sent \in Fleets, NEW U, U \subseteq DOMAIN sent, NEW i \in Nat,
         NEW n \in U, sent[n].len = i + 1,
         NEW S, NEW a \in Seq(S), NEW b \in Seq(S), IsInjective(a), IsInjective(b),
         Range(a) = {LinkOf(sent, m, i + 1) : m \in {x \in U : sent[x].len > i}},
         Range(b) = {LinkOf(sent, m, i + 1 + 1) : m \in {x \in U : sent[x].len > i + 1}}
  PROVE  Len(a) > Len(b)
<1> DEFINE A == {x \in U : sent[x].len > i}
           B == {x \in U : sent[x].len > i + 1}
<1>1. \A x \in U : sent[x].len \in Nat
  BY FleetFacts
<1>2. B \subseteq A /\ n \in A /\ n \notin B
  BY <1>1
<1>3. IsFiniteSet(A)
  <2>1. IsFiniteSet(DOMAIN sent)
    <3>1. Len(sent) \in Nat /\ DOMAIN sent = 1 .. Len(sent)
      BY FleetFacts
    <3>2. IsFiniteSet(1 .. Len(sent))
      BY <3>1, FS_Interval
    <3> QED
      BY <3>1, <3>2
  <2>2. A \subseteq DOMAIN sent
    OBVIOUS
  <2> HIDE DEF A
  <2> QED
    BY <2>1, <2>2, FS_Subset
<1> HIDE DEF A, B
<1>4. Cardinality(B) < Cardinality(A) /\ IsFiniteSet(B) /\ Cardinality(A) \in Nat /\ Cardinality(B) \in Nat
  <2>1. IsFiniteSet(B) /\ Cardinality(B) <= Cardinality(A)
    BY <1>2, <1>3, FS_Subset
  <2>2. B # A
    BY <1>2
  <2>3. Cardinality(A) \in Nat /\ Cardinality(B) \in Nat
    BY <1>3, <2>1, FS_CardinalityType
  <2>4. Cardinality(B) # Cardinality(A)
    BY <1>2, <1>3, <2>2, FS_Subset
  <2> QED
    BY <2>1, <2>3, <2>4
<1>5. ASSUME NEW V, NEW k, IsFiniteSet(V)
      PROVE  Cardinality({LinkOf(sent, m, k) : m \in V}) = Cardinality(V)
  <2> DEFINE f == [m \in V |-> LinkOf(sent, m, k)]
             R == {LinkOf(sent, m, k) : m \in V}
  <2>1. ASSUME NEW m \in V, NEW p \in V, f[m] = f[p] PROVE m = p
    <3>1. f[m].channel = f[p].channel
      BY <2>1
    <3>2. f[m].channel = <<m, k - 1>> /\ f[p].channel = <<p, k - 1>>
      BY DEF LinkOf
    <3> QED
      BY <3>1, <3>2
  <2>2. f \in [V -> R] /\ \A y \in R : \E x \in V : f[x] = y
    OBVIOUS
  <2> HIDE DEF f, R
  <2>3. ExistsBijection(V, R)
    BY <2>1, <2>2 DEF ExistsBijection, Bijection, Injection, Surjection, IsInjective
  <2>4. Cardinality(R) = Cardinality(V)
    BY <1>5, <2>3, FS_Bijection
  <2> QED
    BY <2>4 DEF R
<1>6. Cardinality(Range(a)) = Cardinality(A) /\ Cardinality(Range(b)) = Cardinality(B)
  <2>1. Range(a) = {LinkOf(sent, m, i + 1) : m \in A} /\ Range(b) = {LinkOf(sent, m, i + 1 + 1) : m \in B}
    BY DEF A, B
  <2>2. Cardinality({LinkOf(sent, m, i + 1) : m \in A}) = Cardinality(A)
    BY <1>3, <1>5
  <2>3. Cardinality({LinkOf(sent, m, i + 1 + 1) : m \in B}) = Cardinality(B)
    BY <1>4, <1>5
  <2> QED
    BY <2>1, <2>2, <2>3
<1>7. Len(a) = Cardinality(A) /\ Len(b) = Cardinality(B)
  BY <1>6, LenOfInjective
<1> QED
  BY <1>4, <1>7

-----------------------------------------------------------------------------
(* No group is passed over by a round. *)

\* A group whose prefix was free is the reason for a group of the round.
LEMMA PrefixGiven ==
  ASSUME sent \in Fleets, NEW v \in Vcs(sent), Held(sent, v, confirmed),
         \A n \in DOMAIN sent : Received(n), confirmed \subseteq {Whole(n) : n \in DOMAIN sent},
         NEW k \in DOMAIN v, v[k].sq_status = "got",
         NEW n \in Unconfirmed(SvcNames(sent)[k]), v[k].sq_pre + 1 <= sent[n].len
  PROVE  [i \in 1 .. v[k].sq_pre + 1 |-> <<n, i - 1>>] \in Range(RoundOf(v))
<1> DEFINE q == v[k].sq_pre
           t == v[k].sqlinks
           svc == SvcNames(sent)[k]
           f == [i \in 0 .. q |-> LinkOf(sent, n, i + 1)]
<1>1. q \in Nat /\ \A i \in 0 .. q : i \in 0 .. MaxLen /\ i \in Nat
  <2>1. v[k] \in Svc(sent)
    BY DEF Vcs
  <2> QED
    BY <2>1, SvcFacts
<1>2. sent[n].len \in Nat /\ n \in DOMAIN sent
  BY FleetFacts DEF Unconfirmed
<1>3. ASSUME NEW i \in 0 .. q PROVE LinkOf(sent, n, i + 1) \in Range(t[i])
  <2>1. i \in Nat /\ i \in 0 .. MaxLen /\ sent[n].len > i
    BY <1>1, <1>2
  <2>2. Range(t[i]) = {l \in PlainTable(sent, svc, i) : l.channel \notin ChannelsOf(confirmed)}
    BY <2>1 DEF Held
  <2>3. Range(t[i]) = {LinkOf(sent, m, i + 1) : m \in {x \in Unconfirmed(svc) : sent[x].len > i}}
    BY <2>1, <2>2, FreeLinks
  <2> QED
    BY <2>1, <2>3
<1> HIDE DEF q, t
<1>4. f \in LinkChoices(t, q)
  BY <1>3 DEF LinkChoices
<1>5. \A i \in 0 .. q : near_mfi(f[q], f[i])
  <2>1. SUFFICES ASSUME NEW i \in 0 .. q PROVE near_mfi(f[q], f[i])
    OBVIOUS
  <2>2. f[q] \in Link(sent)
    <3>1. q \in 0 .. q /\ q + 1 \in 1 .. sent[n].len
      BY <1>1, <1>2 DEF q
    <3> QED
      BY <1>2, <3>1 DEF Link
  <2>3. near_mfi(f[q], f[q])
    BY <2>2, NearItself
  <2>4. f[q].mfi = sent[n].mfi /\ f[i].mfi = sent[n].mfi
    BY <1>1 DEF LinkOf
  <2> HIDE DEF f
  <2> QED
    BY <2>3, <2>4 DEF near_mfi
<1>6. f \in Rounds(t, q)
  BY <1>4, <1>5 DEF Rounds
<1>7. GroupBy(f, q) = [i \in 1 .. q + 1 |-> <<n, i - 1>>]
  <2>1. ASSUME NEW i \in 1 .. q + 1 PROVE f[i - 1].channel = <<n, i - 1>>
    <3>1. i - 1 \in 0 .. q /\ i - 1 + 1 - 1 = i - 1
      BY <1>1
    <3>2. f[i - 1] = LinkOf(sent, n, i - 1 + 1)
      BY <3>1
    <3>3. LinkOf(sent, n, i - 1 + 1).channel = <<n, i - 1 + 1 - 1>>
      BY DEF LinkOf
    <3> QED
      BY <3>1, <3>2, <3>3
  <2> HIDE DEF f
  <2> QED
    BY <2>1 DEF GroupBy
<1> HIDE DEF f
<1>8. \E h \in Rounds(v[k].sqlinks, v[k].sq_pre) : GroupBy(f, q) = GroupBy(h, v[k].sq_pre)
  BY <1>6 DEF t, q
<1>9. GroupBy(f, q) \in Range(RoundOf(v))
  BY <1>8, RoundMembers
<1> QED
  BY <1>7, <1>9 DEF q

\* The rounds skipped were of no group: with CountsDrop the counts would have dropped at it.
LEMMA OfferingHolds ==
  ASSUME IInv, GetVc
  PROVE  Offering'
<1> USE DEF IInv
<1>1. /\ vcs \in Vcs(sent) /\ vcs' \in Vcs(sent) /\ DOMAIN vcs' = DOMAIN vcs
      /\ Held(sent, vcs', confirmed) /\ Answer(RoundOf(vcs')) /\ vc_partial' \in BOOLEAN
      /\ CalledAll(sent, vcs, vcs', IF lcas_got THEN {given[i] : i \in passed} ELSE {}, vc_partial')
  BY RoundStep
<1>2. sent' = sent /\ honest' = honest /\ offered' = offered \cup Range(RoundOf(vcs')) /\ sent \in Fleets
  BY <1>1 DEF Answer, Fixed
<1>3. \A n \in DOMAIN sent : (Whole(n))' = Whole(n) /\ (Received(n)' <=> Received(n))
  BY <1>2 DEF Whole, Received
<1> DEFINE w == vcs'
<1>4. SUFFICES ASSUME honest, \A n \in DOMAIN sent : Received(n),
                      NEW k \in DOMAIN w, NEW n \in DOMAIN sent, ~sent[n].lcas, sent[n].svc = SvcNames(sent)[k]
               PROVE  \/ Whole(n) \in offered \cup Range(RoundOf(w))
                      \/ w[k].sq_status = "default"
                      \/ w[k].sq_status = "got" /\ sent[n].len > w[k].sq_pre + 1
  BY <1>2, <1>3 DEF Offering
<1>5. SUFFICES ASSUME Whole(n) \notin offered PROVE
                      \/ Whole(n) \in Range(RoundOf(w))
                      \/ w[k].sq_status = "default"
                      \/ w[k].sq_status = "got" /\ sent[n].len > w[k].sq_pre + 1
  OBVIOUS
<1>6. confirmed \subseteq {Whole(m) : m \in DOMAIN sent} /\ confirmed \subseteq offered
  BY <1>4 DEF Honest
<1> DEFINE svc == SvcNames(sent)[k]
           U == Unconfirmed(svc)
<1>7. n \in U /\ U \subseteq DOMAIN sent
  BY <1>4, <1>5, <1>6 DEF Unconfirmed
<1>8. k \in DOMAIN vcs
        /\ (vcs[k].sq_status = "default" \/ (vcs[k].sq_status = "got" /\ sent[n].len > vcs[k].sq_pre + 1))
  BY <1>1, <1>4, <1>5 DEF Offering
<1>9. PICK r : r \in Svc(sent) /\ r.sq_status = vcs[k].sq_status /\ r.sq_pre = vcs[k].sq_pre
               /\ Called(r, w[k], vc_partial')
  BY <1>1, <1>8 DEF CalledAll
<1>10. w \in Vcs(sent) /\ w[k] \in Svc(sent) /\ Held(sent, w, confirmed)
  BY <1>1 DEF Vcs
<1> HIDE DEF w, U, IInv
<1> DEFINE t == w[k].sqlinks
           q == w[k].sq_pre
<1>11. /\ t \in [0 .. MaxLen -> Seq(Link(sent))] /\ DOMAIN t = 0 .. MaxLen
       /\ t[MaxLen] = <<>> /\ MaxLen \in Nat \ {0}
       /\ \A i \in 0 .. MaxLen : t[i] \in Seq(Link(sent)) /\ IsInjective(t[i])
       /\ q \in 0 .. MaxLen - 1 /\ q \in Nat
  BY <1>2, <1>10, SvcFacts
<1>12. ASSUME NEW i \in 0 .. MaxLen
       PROVE  Range(t[i]) = {LinkOf(sent, m, i + 1) : m \in {x \in U : sent[x].len > i}}
  <2>1. i \in Nat
    BY <1>11
  <2>2. Range(t[i]) = {l \in PlainTable(sent, svc, i) : l.channel \notin ChannelsOf(confirmed)}
    BY <1>10 DEF Held
  <2> QED
    BY <1>2, <1>4, <1>6, <2>1, <2>2, FreeLinks DEF U
<1>13. /\ Start(r) \in Nat /\ sent[n].len \in Nat /\ sent[n].len > Start(r)
       /\ r.sq_status # "finished" /\ r.sqlinks = t /\ r.sq_pre \in Nat
  <2>1. r.sq_pre \in Nat /\ sent[n].len \in 1 .. MaxLen /\ sent[n].len \in Nat
    BY <1>2, <1>9, SvcFacts, FleetFacts
  <2>2. r.sqlinks = t
    BY <1>9 DEF Called
  <2> QED
    BY <1>8, <1>9, <2>1, <2>2 DEF Start
<1> HIDE DEF t
<1>14. ASSUME w[k].sq_status = "got", sent[n].len = q + 1 PROVE Whole(n) \in Range(RoundOf(w))
  <2>1. [i \in 1 .. q + 1 |-> <<n, i - 1>>] \in Range(RoundOf(w))
    <3>1. n \in Unconfirmed(SvcNames(sent)[k]) /\ q + 1 <= sent[n].len
      BY <1>7, <1>13, <1>14 DEF U
    <3> QED
      BY <1>2, <1>4, <1>6, <1>10, <1>14, <3>1, PrefixGiven
  <2> QED
    BY <1>14, <2>1 DEF Whole
<1>15. CASE vc_partial'
  <2>1. w[k].sq_status = "got" /\ q = r.sq_pre
    BY <1>9, <1>13, <1>15 DEF Called
  <2>2. sent[n].len > q + 1 \/ sent[n].len = q + 1
    <3>1. CASE vcs[k].sq_status = "default"
      <4>1. q = 0
        BY <1>8, <1>9, <2>1, <3>1 DEF Fresh, IInv
      <4> HIDE DEF q
      <4> QED
        BY <1>13, <4>1
    <3>2. CASE vcs[k].sq_status = "got" /\ sent[n].len > vcs[k].sq_pre + 1
      BY <1>9, <2>1, <3>2
    <3> QED
      BY <1>8, <3>1, <3>2
  <2> QED
    BY <1>14, <2>1, <2>2
<1>16. CASE ~vc_partial'
  <2>1. \/ w[k].sq_status = "finished" /\ FirstFree(t) <= Start(r)
        \/ /\ w[k].sq_status = "got" /\ q >= Start(r)
           /\ \A i \in Start(r) .. q - 1 : ~(Len(t[i]) > Len(t[i + 1]))
    BY <1>9, <1>13, <1>16 DEF Called
  <2>2. CASE w[k].sq_status = "finished" /\ FirstFree(t) <= Start(r)
    <3> DEFINE top == FirstFree(t)
    <3>1. top \in 0 .. MaxLen /\ t[top] = <<>>
      BY <1>11, FirstFreeFacts
    <3>2. top \in Nat /\ sent[n].len > top
      BY <1>11, <1>13, <2>2, <3>1
    <3>3. LinkOf(sent, n, top + 1) \in Range(t[top])
      BY <1>7, <1>12, <3>1, <3>2
    <3> HIDE DEF top
    <3>4. FALSE
      BY <3>1, <3>3, SmallSeqs
    <3> QED
      BY <3>4
  <2>3. CASE /\ w[k].sq_status = "got" /\ q >= Start(r)
             /\ \A i \in Start(r) .. q - 1 : ~(Len(t[i]) > Len(t[i + 1]))
    <3> DEFINE len == sent[n].len
               start == Start(r)
    <3>0. MaxLen \in Nat /\ q \in Nat /\ q <= MaxLen - 1 /\ len \in Nat /\ start \in Nat /\ len > start
      BY <1>11, <1>13
    <3> HIDE DEF len, start, q
    <3>1. CASE len > q + 1
      BY <2>3, <3>1 DEF len, q
    <3>2. CASE len = q + 1
      BY <1>14, <2>3, <3>2 DEF len
    <3>3. CASE len < q + 1
      <4> DEFINE i == len - 1
      <4>1. /\ i \in start .. q - 1 /\ i \in Nat /\ len = i + 1
            /\ i \in 0 .. MaxLen /\ i + 1 \in 0 .. MaxLen
        BY <3>0, <3>3
      <4> HIDE DEF i
      <4>2. /\ Range(t[i]) = {LinkOf(sent, m, i + 1) : m \in {x \in U : sent[x].len > i}}
            /\ Range(t[i + 1]) = {LinkOf(sent, m, i + 1 + 1) : m \in {x \in U : sent[x].len > i + 1}}
        BY <1>12, <4>1
      <4>3. /\ t[i] \in Seq(Link(sent)) /\ IsInjective(t[i])
            /\ t[i + 1] \in Seq(Link(sent)) /\ IsInjective(t[i + 1])
        BY <1>11, <4>1
      <4>4. Len(t[i]) > Len(t[i + 1])
        BY <1>2, <1>7, <4>1, <4>2, <4>3, CountsDrop DEF len
      <4> QED
        BY <2>3, <4>1, <4>4 DEF start
    <3>4. len > q + 1 \/ len = q + 1 \/ len < q + 1
      BY <3>0
    <3> QED
      BY <3>1, <3>2, <3>3, <3>4
  <2> QED
    BY <2>1, <2>2, <2>3
<1> QED
  BY <1>15, <1>16

\* A round keeps the invariant.
LEMMA GetVcHolds ==
  ASSUME IInv, GetVc
  PROVE  IInv'
<1>1. /\ pc = "get" /\ (given = <<>> => get_lcas = <<>>)
      /\ lcas_got' = TRUE /\ lcas' = lcas
      /\ vcs \in Vcs(sent) /\ vcs' \in Vcs(sent) /\ DOMAIN vcs' = DOMAIN vcs
      /\ Held(sent, vcs', confirmed) /\ Answer(RoundOf(vcs'))
      /\ CalledAll(sent, vcs, vcs', IF lcas_got THEN {given[i] : i \in passed} ELSE {}, vc_partial')
      /\ vc_partial' \in BOOLEAN
  BY RoundStep
<1>2. Left' /\ Offering'
  BY LeftAfterRound, OfferingHolds
<1> USE DEF IInv
<1>3. lcas_got' \in BOOLEAN /\ lcas_got'
  BY <1>1, Zenon
<1>4. /\ given' = RoundOf(vcs') /\ tried' = 0 /\ passed' = {} /\ offered' = offered \cup Range(RoundOf(vcs'))
      /\ pc' = IF RoundOf(vcs') = <<>> THEN "done" ELSE "try"
      /\ sent' = sent /\ confirmed' = confirmed /\ attempted' = attempted /\ honest' = honest
      /\ Fixed' /\ Noted' /\ Honest' /\ (confirmed \subseteq offered)'
  BY <1>1, <1>3, AnswerFacts
<1>5. sent \in Fleets
  BY DEF Fixed
<1>6. Answered'
  BY <1>3, <1>4 DEF Answered
<1>7. Counted'
  <2> DEFINE w == vcs'
  <2>1. w \in Vcs(sent) /\ Held(sent, w, confirmed)
    BY <1>1
  <2> HIDE DEF w, IInv
  <2>2. RoundOf(w) \in Seq(Seq(PlainChannels(sent)))
    BY <1>5, <2>1, RoundOfFacts
  <2>3. Len(RoundOf(w)) \in Nat
    BY <2>2, LenProperties
  <2> QED
    BY <1>4, <2>3 DEF Counted, w
<1>8. Behind'
  <2>1. (Held(sent, vcs, confirmed))'
    BY <1>1, <1>4
  <2>2. confirmed' = confirmed' \cup {given'[i] : i \in passed'}
    BY <1>4
  <2> QED
    BY <2>1, <2>2 DEF Behind
<1>9. Before'
  BY <1>3 DEF Before
<1>10. Ended' /\ Fresh'
  <2>1. ASSUME NEW k \in DOMAIN vcs' PROVE vcs'[k].sq_status # "default"
    <3>1. PICK r : Called(r, vcs'[k], vc_partial')
      BY <1>1, <2>1 DEF CalledAll
    <3> QED
      BY <3>1 DEF Called
  <2> QED
    BY <1>4, <2>1 DEF Ended, Fresh
<1>11. LcasFirst'
  <2>1. Range(LcasAnswer(sent)) \subseteq offered
    <3>1. CASE given # <<>>
      BY <3>1 DEF LcasFirst
    <3>2. CASE given = <<>>
      <4>1. get_lcas = LcasAnswer(sent)
        BY DEF get_lcas, LcasAnswer, Fixed
      <4>2. LcasAnswer(sent) = <<>>
        BY <1>1, <3>2, <4>1
      <4> QED
        BY <4>2, SmallSeqs
    <3> QED
      BY <3>1, <3>2
  <2> QED
    BY <1>4, <2>1 DEF LcasFirst
<1> QED
  BY <1>2, <1>4, <1>6, <1>7, <1>8, <1>9, <1>10, <1>11

-----------------------------------------------------------------------------
\* The invariant holds in every state of every run of study, for every fleet, board and bounds.
THEOREM Invariance == Spec => []IInv
<1>1. Init => IInv
  BY StartHolds
<1>2. IInv /\ [Next]_vars => IInv'
  <2> SUFFICES ASSUME IInv, [Next]_vars PROVE IInv'
    OBVIOUS
  <2>1. CASE GetLcas
    BY <2>1, GetLcasHolds
  <2>2. CASE GetVc
    BY <2>2, GetVcHolds
  <2>3. CASE TryBatch
    BY <2>3, TryBatchHolds
  <2>4. CASE Quit
    BY <2>4, QuitHolds
  <2>5. CASE UNCHANGED vars
    BY <2>5, StutterHolds
  <2> QED
    BY <2>1, <2>2, <2>3, <2>4, <2>5 DEF Next
<1> QED
  BY <1>1, <1>2, PTL DEF Spec

\* Every group with LCAS that is whole and cannot be mistaken for another of its service is in
\* the first answer of grpsm_get.
THEOREM LcasGroupsGiven == Spec => []LcasGiven
<1>1. IInv => LcasGiven
  <2>1. SUFFICES ASSUME IInv, pc \in {"try", "done"}, NEW n \in DOMAIN sent, sent[n].lcas, Received(n),
                        \A m \in DOMAIN sent \ {n} :
                          sent[m].lcas /\ sent[m].svc = sent[n].svc /\ sent[m].mfi = sent[n].mfi =>
                            sent[m].gid \cap sent[n].gid = {}
                 PROVE  Whole(n) \in offered
    BY DEF LcasGiven
  <2>2. sent \in Fleets /\ Range(LcasAnswer(sent)) \subseteq offered
    BY <2>1 DEF IInv, Fixed, LcasFirst
  <2>3. sent[n].lost = -1
    BY <2>1 DEF Received
  <2>4. [i \in 1 .. sent[n].len |-> <<n, i - 1>>] \in Range(LcasAnswer(sent))
    BY <2>1, <2>2, <2>3, LcasAnswerComplete
  <2> QED
    BY <2>2, <2>4 DEF Whole
<1> QED
  BY <1>1, Invariance, PTL

\* The choices of links in the tables are the candidates of RoundExact.
LEMMA CandidatesFound ==
  ASSUME sent \in Fleets, NEW v \in Vcs(sent), Held(sent, v, confirmed), NEW k \in DOMAIN v
  PROVE  {GroupBy(f, v[k].sq_pre) : f \in Rounds(v[k].sqlinks, v[k].sq_pre)} =
           Candidates(ServiceNo(k), v[k].sq_pre)
<1> DEFINE sq == v[k].sq_pre
           t == v[k].sqlinks
           svc == SvcNames(sent)[k]
           one == [i \in Sq |-> Free(svc, i)]
           all == {f \in [0 .. sq -> UNION {one[i] : i \in 0 .. sq}] : \A i \in 0 .. sq : f[i] \in one[i]}
           near == {g \in all : \A i \in 0 .. sq : near_mfi(g[sq], g[i])}
<1>1. ServiceNo(k) = svc
  BY DEF ServiceNo, SvcNames
<1>2. Candidates(svc, sq) = {[i \in 1 .. sq + 1 |-> f[i - 1].channel] : f \in near}
  BY DEF Candidates
<1>3. sq \in Nat /\ \A i \in 0 .. sq : i \in Sq /\ i \in 0 .. MaxLen
  <2>1. v[k] \in Svc(sent)
    BY DEF Vcs
  <2>2. sq \in 0 .. MaxLen - 1 /\ sq \in Nat /\ MaxLen \in Nat \ {0}
    BY <2>1, SvcFacts
  <2> QED
    BY <2>2 DEF Sq
<1>4. \A i \in 0 .. sq : one[i] = Range(t[i])
  <2>1. SUFFICES ASSUME NEW i \in 0 .. sq PROVE one[i] = Range(t[i])
    OBVIOUS
  <2>2. Range(t[i]) = {l \in PlainTable(sent, svc, i) : l.channel \notin ChannelsOf(confirmed)}
    BY <1>3 DEF Held
  <2>3. Taken = ChannelsOf(confirmed) /\ Range(LinkInfo(sent)) = Link(sent)
    BY LinkInfoFacts DEF Taken, ChannelsOf
  <2>4. Free(svc, i) = Range(t[i])
    BY <2>2, <2>3 DEF Free, PlainTable
  <2> QED
    BY <1>3, <2>4
<1> HIDE DEF one, t, sq, svc
<1>5. UNION {one[i] : i \in 0 .. sq} = UNION {Range(t[i]) : i \in 0 .. sq}
  BY <1>4
<1>6. all = LinkChoices(t, sq)
  BY <1>4, <1>5 DEF LinkChoices
<1>7. near = Rounds(t, sq)
  BY <1>6 DEF Rounds
<1> HIDE DEF near
<1>8. Candidates(svc, sq) = {GroupBy(f, sq) : f \in Rounds(t, sq)}
  BY <1>2, <1>7 DEF GroupBy
<1> QED
  BY <1>1, <1>8 DEF t, sq

\* Each round of grpsm_get_vc has every group of its length that the free links can make, once,
\* for all counts of links whose product fits an int.
THEOREM RoundsAreExact == Spec => []RoundExact
<1>1. IInv => RoundExact
  <2>1. SUFFICES ASSUME IInv, pc = "try", tried = 0, Plain(given[1])
                 PROVE  /\ Range(given) = UNION {Candidates(ServiceNo(k), vcs[k].sq_pre) :
                                                   k \in {j \in DOMAIN vcs : vcs[j].sq_status = "got"}}
                        /\ Cardinality(Range(given)) = Len(given)
    BY DEF RoundExact
  <2>2. sent \in Fleets /\ vcs \in Vcs(sent) /\ given # <<>>
    BY <2>1 DEF IInv, Fixed, Ended
  <2>3. given = RoundOf(vcs)
    <3>1. given \in Seq(Seq(AllChannels(sent)))
      BY <2>1, GivenFacts DEF IInv
    <3>2. given[1] \in Range(given)
      BY <2>2, <3>1, LenProperties, EmptySeq DEF Range
    <3>3. given # LcasAnswer(sent)
      BY <2>1, <2>2, <3>2, LcasNotPlain
    <3> QED
      BY <2>1, <2>2, <3>3 DEF IInv, Answered
  <2>4. Held(sent, vcs, confirmed)
    <3>1. PICK old : confirmed = old \cup {given[i] : i \in passed} /\ Held(sent, vcs, old)
      BY <2>1 DEF IInv, Behind
    <3>2. passed = {}
      BY <2>1 DEF IInv, Counted
    <3>3. confirmed = old
      BY <3>1, <3>2
    <3> QED
      BY <3>1, <3>3
  <2> DEFINE G(k) == {GroupBy(f, vcs[k].sq_pre) : f \in Rounds(vcs[k].sqlinks, vcs[k].sq_pre)}
             C(k) == Candidates(ServiceNo(k), vcs[k].sq_pre)
             Got == {j \in DOMAIN vcs : vcs[j].sq_status = "got"}
  <2>5. Range(RoundOf(vcs)) = UNION {G(k) : k \in Got}
        /\ IsInjective(RoundOf(vcs)) /\ RoundOf(vcs) \in Seq(Seq(PlainChannels(sent)))
    BY <2>2, <2>4, RoundOfFacts
  <2>6. \A k \in DOMAIN vcs : G(k) = C(k)
    BY <2>2, <2>4, CandidatesFound
  <2> HIDE DEF G, C
  <2>7. UNION {G(k) : k \in Got} = UNION {C(k) : k \in Got}
    BY <2>6
  <2>8. Cardinality(Range(RoundOf(vcs))) = Len(RoundOf(vcs))
    BY <2>5, LenOfInjective
  <2> QED
    BY <2>3, <2>5, <2>7, <2>8 DEF C
<1> QED
  BY <1>1, Invariance, PTL

\* When grpsm_get has no more groups, each one given was tried or has lost a link to a
\* confirmed one.
THEOREM NothingIsLeft == Spec => []NothingLeft
<1>1. IInv => NothingLeft
  <2>1. SUFFICES ASSUME IInv, pc = "done", NEW g \in offered, Plain(g)
                 PROVE  g \in attempted \/ Range(g) \cap Taken # {}
    BY DEF NothingLeft
  <2>2. Range(given) = {}
    BY <2>1, SmallSeqs DEF IInv, Ended
  <2> QED
    BY <2>1, <2>2 DEF IInv, Left
<1> QED
  BY <1>1, Invariance, PTL

\* With an honest board and all links received, every group without LCAS has been given when the
\* study ends, for any number of groups, lengths and services, as long as num_groups of
\* grpsm_cfg_from_sqlinks fits an int.
THEOREM NoneIsPassedOver == Spec => []NonePassedOver
<1>1. IInv => NonePassedOver
  <2>1. SUFFICES ASSUME IInv, pc = "done", honest, \A n \in DOMAIN sent : Received(n),
                        NEW n \in DOMAIN sent, ~sent[n].lcas, Whole(n) \notin offered
                 PROVE  FALSE
    BY DEF NonePassedOver
  <2>2. sent \in Fleets /\ vcs \in Vcs(sent) /\ given = <<>> /\ RoundOf(vcs) = <<>>
    BY <2>1 DEF IInv, Fixed, Ended
  <2>3. Held(sent, vcs, confirmed)
    <3>1. PICK old : confirmed = old \cup {given[i] : i \in passed} /\ Held(sent, vcs, old)
      BY <2>1 DEF IInv, Behind
    <3>2. passed = {}
      <4>1. Len(given) = 0
        BY <2>2
      <4> QED
        BY <2>1, <4>1 DEF IInv, Counted
    <3>3. confirmed = old
      BY <3>1, <3>2
    <3> QED
      BY <3>1, <3>3
  <2>4. PICK k \in DOMAIN vcs : sent[n].svc = SvcNames(sent)[k]
    <3>1. sent[n].lost = -1 /\ DOMAIN vcs = DOMAIN Plainly(sent)
      BY <2>1, <2>2 DEF Received, Vcs
    <3> QED
      BY <2>1, <2>2, <3>1, FleetsHaveServices
  <2>5. vcs[k].sq_status = "got" /\ sent[n].len > vcs[k].sq_pre + 1
    BY <2>1, <2>4 DEF IInv, Offering, Ended
  <2>6. confirmed \subseteq {Whole(m) : m \in DOMAIN sent} /\ n \in Unconfirmed(SvcNames(sent)[k])
    BY <2>1, <2>4 DEF IInv, Honest, Unconfirmed
  <2>7. vcs[k].sq_pre + 1 <= sent[n].len
    <3>1. vcs[k] \in Svc(sent)
      BY <2>2 DEF Vcs
    <3>2. vcs[k].sq_pre \in Nat /\ sent[n].len \in Nat
      BY <2>2, <3>1, SvcFacts, FleetFacts
    <3> QED
      BY <2>5, <3>2
  <2>8. [i \in 1 .. vcs[k].sq_pre + 1 |-> <<n, i - 1>>] \in Range(RoundOf(vcs))
    BY <2>1, <2>2, <2>3, <2>5, <2>6, <2>7, PrefixGiven
  <2> QED
    BY <2>2, <2>8, SmallSeqs
<1> QED
  BY <1>1, Invariance, PTL
=============================================================================
