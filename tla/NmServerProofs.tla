--------------------------- MODULE NmServerProofs ---------------------------
(***************************************************************************)
(* Proofs about NmServer, for all connections, addresses and parameters.   *)
(* IInv is inductive; the safety properties follow from it.  The board     *)
(* table is a sequence, but the properties only depend on the set of its   *)
(* entries and on their uniqueness, so the first lemmas say what the table *)
(* operations do to those, and the proofs about steps use nothing else.    *)
(***************************************************************************)
EXTENDS NmServer, FiniteSetTheorems, TLAPS

Entries(g) == {g[i] : i \in DOMAIN g}
Unique(g) == \A i, j \in DOMAIN g : g[i].addr = g[j].addr => i = j

-----------------------------------------------------------------------------
(* The table operations. *)

(* nms_glb_insert_bdinfo returns a table.                                  *)
LEMMA InsertType ==
  ASSUME NEW g \in Seq(Entry), NEW a \in Addr, NEW b \in {"unset", "set"}
  PROVE  InsertBdinfo(g, a, b) \in Seq(Entry)
<1> DEFINE e == [addr |-> a, bdi |-> b]
<1>1. e \in Entry
  BY DEF Entry
<1>2. <<e>> \o g \in Seq(Entry)
  BY <1>1
<1>3. ASSUME NEW k
      PROVE  [g EXCEPT ![k] = e] \in Seq(Entry)
  <2> DEFINE h == [g EXCEPT ![k] = e]
  <2> HIDE DEF e
  <2>1. g \in [1 .. Len(g) -> Entry] /\ Len(g) \in Nat
    OBVIOUS
  <2>2. h \in [1 .. Len(g) -> Entry]
    BY <1>1, <2>1
  <2> QED
    BY <2>1, <2>2
<1> QED
  BY <1>2, <1>3 DEF InsertBdinfo

(* Removing an element leaves a sequence of the same kind.                 *)
LEMMA WithoutType ==
  ASSUME NEW S, NEW q \in Seq(S), NEW k, Len(q) > 0
  PROVE  Without(q, k) \in Seq(S)
<1>1. Len(q) - 1 \in Nat
  OBVIOUS
<1>2. Without(q, k) \in [1 .. Len(q) - 1 -> S]
  BY DEF Without
<1> QED
  BY <1>1, <1>2

(* Adding an address at the head: the new entry and the old ones.          *)
LEMMA PrependEntries ==
  ASSUME NEW g \in Seq(Entry), NEW e \in Entry
  PROVE  /\ Entries(<<e>> \o g) = Entries(g) \cup {e}
         /\ Unique(g) /\ (\A f \in Entries(g) : f.addr # e.addr)
              => Unique(<<e>> \o g)
<1> DEFINE h == <<e>> \o g
<1>1. h \in Seq(Entry) /\ Len(h) = Len(g) + 1 /\ DOMAIN h = 1 .. Len(g) + 1
  OBVIOUS
<1>2. h[1] = e /\ \A i \in 2 .. Len(g) + 1 : h[i] = g[i - 1] /\ i - 1 \in DOMAIN g
  OBVIOUS
<1>3. \A i \in DOMAIN g : i + 1 \in DOMAIN h /\ h[i + 1] = g[i]
  BY <1>1
<1> HIDE DEF h
<1>4. Entries(h) = Entries(g) \cup {e}
  <2>1. ASSUME NEW i \in DOMAIN h
        PROVE  h[i] \in Entries(g) \cup {e}
    <3>1. CASE i = 1
      BY <1>2, <3>1
    <3>2. CASE i # 1
      <4>1. i \in 2 .. Len(g) + 1
        BY <1>1, <3>2
      <4>2. h[i] = g[i - 1] /\ i - 1 \in DOMAIN g
        BY <1>2, <4>1
      <4> QED
        BY <4>2 DEF Entries
    <3> QED
      BY <3>1, <3>2
  <2>2. e \in Entries(h)
    <3>1. 1 \in DOMAIN h
      BY <1>1
    <3> QED
      BY <1>2, <3>1 DEF Entries
  <2>3. Entries(g) \subseteq Entries(h)
    BY <1>3 DEF Entries
  <2> QED
    BY <2>1, <2>2, <2>3 DEF Entries
<1>5. ASSUME Unique(g), \A f \in Entries(g) : f.addr # e.addr
      PROVE  Unique(h)
  <2>1. \A i \in DOMAIN h : i # 1 => i \in 2 .. Len(g) + 1
    BY <1>1
  <2>2. \A i \in DOMAIN h : i # 1 => h[i].addr # e.addr
    BY <2>1, <1>2, <1>5 DEF Entries
  <2>3. SUFFICES ASSUME NEW i \in DOMAIN h, NEW j \in DOMAIN h,
                        h[i].addr = h[j].addr
                 PROVE  i = j
    BY DEF Unique
  <2>4. CASE i = 1 \/ j = 1
    BY <2>2, <2>3, <2>4, <1>2
  <2>5. CASE i # 1 /\ j # 1
    <3>1. i - 1 = j - 1
      BY <2>1, <2>3, <2>5, <1>2, <1>5 DEF Unique
    <3> QED
      BY <3>1, <1>1
  <2> QED
    BY <2>4, <2>5
<1> QED
  BY <1>4, <1>5 DEF h

(* In a table without duplicates an address is found at one place.         *)
LEMMA FirstIsOnly ==
  ASSUME NEW g \in Seq(Entry), Unique(g), NEW a, At(g, a) # {}
  PROVE  /\ FirstAt(g, a) \in DOMAIN g
         /\ \A i \in DOMAIN g : g[i].addr = a <=> i = FirstAt(g, a)
<1>1. PICK k \in DOMAIN g : g[k].addr = a
  BY DEF At
<1>2. At(g, a) = {k}
  BY <1>1 DEF At, Unique
<1>3. k \in Nat
  OBVIOUS
<1>4. FirstAt(g, a) = k
  BY <1>2, <1>3 DEF FirstAt
<1> QED
  BY <1>1, <1>4 DEF Unique

(* nms_glb_insert_bdinfo: the address is in the table afterwards, other    *)
(* entries stay, a NULL bdi changes no entry, and no duplicate appears.    *)
LEMMA InsertEntries ==
  ASSUME NEW g \in Seq(Entry), Unique(g), NEW a \in Addr,
         NEW b \in {"unset", "set"}
  PROVE  /\ Unique(InsertBdinfo(g, a, b))
         /\ \E e \in Entries(InsertBdinfo(g, a, b)) : e.addr = a
         /\ \A e \in Entries(InsertBdinfo(g, a, b)) :
              e \in Entries(g) \/ e = [addr |-> a, bdi |-> b]
         /\ \A e \in Entries(g) :
              e.addr # a \/ b = "unset" => e \in Entries(InsertBdinfo(g, a, b))
<1> DEFINE e0 == [addr |-> a, bdi |-> b]
           h == InsertBdinfo(g, a, b)
<1>1. e0 \in Entry /\ e0.addr = a
  BY DEF Entry
<1>2. CASE At(g, a) = {}
  <2>1. h = <<e0>> \o g
    BY <1>2 DEF InsertBdinfo
  <2>2. \A f \in Entries(g) : f.addr # e0.addr
    BY <1>1, <1>2 DEF Entries, At
  <2> QED
    BY <2>1, <2>2, <1>1, PrependEntries
<1>3. CASE At(g, a) # {} /\ b = "unset"
  <2>1. h = g
    BY <1>3 DEF InsertBdinfo
  <2> QED
    BY <2>1, <1>3 DEF Entries, At
<1>4. CASE At(g, a) # {} /\ b # "unset"
  <2> DEFINE k == FirstAt(g, a)
  <2> HIDE DEF k
  <2>1. h = [g EXCEPT ![k] = e0]
    BY <1>4 DEF InsertBdinfo, k
  <2>2. k \in DOMAIN g /\ \A i \in DOMAIN g : g[i].addr = a <=> i = k
    BY <1>4, FirstIsOnly DEF k
  <2> HIDE DEF h, e0
  <2>3. DOMAIN h = DOMAIN g /\ h[k] = e0
        /\ \A i \in DOMAIN g : i # k => h[i] = g[i]
    BY <2>1, <2>2
  <2>4. \A i \in DOMAIN g : h[i].addr = g[i].addr
    BY <2>2, <2>3, <1>1
  <2>5. Unique(h)
    BY <2>3, <2>4 DEF Unique
  <2> QED
    BY <2>2, <2>3, <2>5, <1>1, <1>4 DEF Entries, e0, h
<1> QED
  BY <1>2, <1>3, <1>4

(* nms_glb_del_bdinfo: exactly the entry of the address goes.              *)
LEMMA DelEntries ==
  ASSUME NEW g \in Seq(Entry), Unique(g), NEW a
  PROVE  /\ DelBdinfo(g, a) \in Seq(Entry)
         /\ Unique(DelBdinfo(g, a))
         /\ Entries(DelBdinfo(g, a)) = {e \in Entries(g) : e.addr # a}
<1>1. CASE At(g, a) = {}
  BY <1>1 DEF DelBdinfo, At, Entries
<1>2. CASE At(g, a) # {}
  <2> DEFINE k == FirstAt(g, a)
             h == Without(g, k)
  <2>1. DelBdinfo(g, a) = h
    BY <1>2 DEF DelBdinfo
  <2>2. k \in DOMAIN g /\ \A i \in DOMAIN g : g[i].addr = a <=> i = k
    BY <1>2, FirstIsOnly
  <2> HIDE DEF k
  <2>3. k \in 1 .. Len(g) /\ DOMAIN g = 1 .. Len(g) /\ Len(g) \in Nat
    BY <2>2
  <2>4. h \in Seq(Entry)
    BY <2>3, WithoutType
  <2>5. DOMAIN h = 1 .. Len(g) - 1
        /\ \A i \in DOMAIN h : h[i] = IF i < k THEN g[i] ELSE g[i + 1]
    BY DEF Without
  <2> HIDE DEF h
  <2>6. Entries(h) \subseteq {e \in Entries(g) : e.addr # a}
    <3> SUFFICES ASSUME NEW i \in DOMAIN h
                 PROVE  h[i] \in Entries(g) /\ h[i].addr # a
      BY DEF Entries
    <3>1. CASE i < k
      <4>1. i \in DOMAIN g /\ i # k /\ h[i] = g[i]
        BY <3>1, <2>3, <2>5
      <4> QED
        BY <4>1, <2>2 DEF Entries
    <3>2. CASE ~(i < k)
      <4>1. i + 1 \in DOMAIN g /\ i + 1 # k /\ h[i] = g[i + 1]
        BY <3>2, <2>3, <2>5
      <4> QED
        BY <4>1, <2>2 DEF Entries
    <3> QED
      BY <3>1, <3>2
  <2>7. {e \in Entries(g) : e.addr # a} \subseteq Entries(h)
    <3> SUFFICES ASSUME NEW i \in DOMAIN g, g[i].addr # a
                 PROVE  g[i] \in Entries(h)
      BY DEF Entries
    <3>1. i # k
      BY <2>2
    <3>2. CASE i < k
      <4>1. i \in DOMAIN h /\ h[i] = g[i]
        BY <3>2, <2>3, <2>5
      <4> QED
        BY <4>1 DEF Entries
    <3>3. CASE i > k
      <4>1. i - 1 \in DOMAIN h /\ h[i - 1] = g[i]
        BY <3>3, <2>3, <2>5
      <4> QED
        BY <4>1 DEF Entries
    <3> QED
      BY <3>1, <3>2, <3>3, <2>3
  <2>8. Unique(h)
    <3> SUFFICES ASSUME NEW i \in DOMAIN h, NEW j \in DOMAIN h,
                        h[i].addr = h[j].addr
                 PROVE  i = j
      BY DEF Unique
    <3> DEFINE old(n) == IF n < k THEN n ELSE n + 1
    <3>1. \A n \in DOMAIN h : old(n) \in DOMAIN g /\ h[n] = g[old(n)]
      BY <2>3, <2>5
    <3>2. old(i) = old(j)
      <4> HIDE DEF old
      <4> QED
        BY <3>1 DEF Unique
    <3> QED
      BY <3>2, <2>3, <2>5
  <2> QED
    BY <2>1, <2>4, <2>6, <2>7, <2>8
<1> QED
  BY <1>1, <1>2

-----------------------------------------------------------------------------
(* Types. *)

(* The lists nmclient_cmd_timer_query can queue are sequences of addresses.*)
LEMMA OrdersType ==
  ASSUME NEW S \in SUBSET Conn, NEW q \in Orders(S)
  PROVE  [i \in DOMAIN q |-> AddrOf[q[i]]] \in Seq(Addr)
<1>1. Cardinality(S) \in Nat
  BY FS_Subset, FS_CardinalityType, NmServerAssumption
<1>2. q \in [1 .. Cardinality(S) -> S]
  BY DEF Orders
<1>3. [i \in DOMAIN q |-> AddrOf[q[i]]] \in [1 .. Cardinality(S) -> Addr]
  BY <1>2, NmServerAssumption
<1> QED
  BY <1>1, <1>3

(* Expiring or deleting clients keeps the types of what they held.         *)
LEMMA ReleaseType ==
  ASSUME TypeOK, NEW N, Release(N)
  PROVE  /\ nodes' \subseteq Conn
         /\ age' \in [Conn -> 0 .. MaxAge]
         /\ comp' \in [Conn -> {"none", "ctl", "open"}]
<1>1. 0 \in 0 .. MaxAge
  BY NmServerAssumption DEF MaxAge
<1> QED
  BY <1>1 DEF TypeOK, Release

(* The accept thread moves to a state of the right type.                   *)
LEMMA AccGoType ==
  ASSUME acc \in [Svc -> AccState], NEW s \in Svc,
         NEW p \in {"idle", "add", "insert", "scan", "del", "gdel"},
         NEW c \in Conn \cup {None}, NEW S \in SUBSET Conn, AccGo(s, p, c, S)
  PROVE  acc' \in [Svc -> AccState]
BY DEF AccGo, AccState

(* A step of the accept thread of a service keeps the types.               *)
LEMMA AcceptorType ==
  ASSUME IInv, NEW s \in Svc, Acceptor(s)
  PROVE  TypeOK'
<1> USE DEF env, pcs, reg, lks
<1>1. TypeOK /\ Unique(glb)
  BY DEF IInv, UniqueByAddress, Unique
<1>0. acc \in [Svc -> AccState] /\ {} \in SUBSET Conn
  BY <1>1 DEF TypeOK
<1>2. AccOf[s] \in Thread /\ None \notin Thread
  BY NmServerAssumption DEF AccOf, Thread, Svc
<1>3. Peers(s) \subseteq Conn
  BY DEF Peers
<1>4. acc[s].cur \in Conn \cup {None} /\ acc[s].todo \in SUBSET Conn
  BY <1>1 DEF TypeOK, AccState
<1>5. AccAt(s, "add") \/ AccAt(s, "insert")
        => acc[s].cur \in Conn /\ AddrOf[acc[s].cur] \in Addr
  BY NmServerAssumption DEF IInv, ThreadsCarryValid, AccCarriesValid, AccAt
<1>6. ASSUME NEW c \in Conn, Accept(s, c)
      PROVE  TypeOK'
  BY <1>1, <1>6 DEF Accept, AccGo, AccState, TypeOK
<1>7. ASSUME NEW c \in Conn, CheckPeer(s, c)
      PROVE  TypeOK'
  <2>1. acc' \in [Svc -> AccState]
    <3> DEFINE S == acc[s].todo \ {c}
    <3>1. S \in SUBSET Conn
      BY <1>4
    <3> HIDE DEF S
    <3>2. AccGo(s, "del", c, S) \/ AccGo(s, "scan", None, S)
      BY <1>7 DEF CheckPeer, AccGo, S
    <3> QED
      BY <1>0, <3>1, <3>2, AccGoType
  <2>2. \/ link' = link /\ rq' = rq
        \/ link' = [link EXCEPT ![c] = "gone"] /\ rq' = [rq EXCEPT ![c] = <<>>]
    BY <1>7 DEF CheckPeer, AccGo
  <2>3. UNCHANGED <<asked, lproc, mainT, reg, glb, cmds, elapsed, lks>>
    BY <1>7 DEF CheckPeer
  <2>4. /\ link' \in [Conn -> {"new", "up", "err", "gone"}]
        /\ rq' \in [Conn -> Seq(Msg)]
    <3>1. /\ link \in [Conn -> {"new", "up", "err", "gone"}]
          /\ rq \in [Conn -> Seq(Msg)]
      BY <1>1 DEF TypeOK
    <3>2. \A q \in Seq(Msg) : [rq EXCEPT ![c] = q] \in [Conn -> Seq(Msg)]
      BY <3>1
    <3>3. <<>> \in Seq(Msg)
      OBVIOUS
    <3>4. [rq EXCEPT ![c] = <<>>] \in [Conn -> Seq(Msg)]
      BY <3>2, <3>3
    <3> QED
      BY <2>2, <3>1, <3>4
  <2> QED
    BY <1>1, <2>1, <2>3, <2>4 DEF TypeOK
<1>8. CASE AddNode(s)
  <2>1. acc' \in [Svc -> AccState]
    <3> DEFINE c == acc[s].cur
    <3>1. c \in Conn
      BY <1>5, <1>8 DEF AddNode, AccAt
    <3>2. AccGo(s, "insert", c, {}) \/ AccGo(s, "idle", None, {})
      BY <1>8 DEF AddNode, AccGo
    <3> HIDE DEF c
    <3> QED
      BY <1>0, <3>1, <3>2, AccGoType
  <2>2. nodes' \subseteq Conn
    BY <1>1, <1>5, <1>8 DEF AddNode, AccAt, AccGo, TypeOK
  <2>3. UNCHANGED <<env, lproc, mainT, age, comp, glb, cmds, elapsed, lks>>
    BY <1>8 DEF AddNode
  <2> QED
    BY <1>1, <2>1, <2>2, <2>3 DEF TypeOK
<1>9. CASE InsertNull(s)
  <2>1. glb' \in Seq(Entry)
    BY <1>1, <1>5, <1>9, InsertType DEF InsertNull, TypeOK
  <2>2. acc' \in [Svc -> AccState]
    BY <1>1, <1>9 DEF InsertNull, AccGo, AccState, TypeOK
  <2> QED
    BY <1>1, <1>9, <2>1, <2>2 DEF InsertNull, TypeOK
<1>10. CASE CheckBegin(s)
  BY <1>1, <1>2, <1>3, <1>10 DEF CheckBegin, AccGo, AccState, TypeOK
<1>11. CASE DelNode(s)
  <2>1. acc' \in [Svc -> AccState]
    <3> DEFINE c == acc[s].cur
               S == acc[s].todo
    <3>1. AccGo(s, "gdel", c, S) \/ AccGo(s, "scan", None, S)
      BY <1>11 DEF DelNode, AccGo
    <3>2. c \in Conn \cup {None} /\ S \in SUBSET Conn
      BY <1>4
    <3> HIDE DEF c, S
    <3> QED
      BY <1>0, <3>1, <3>2, AccGoType
  <2>2. /\ nodes' \subseteq Conn
        /\ age' \in [Conn -> 0 .. MaxAge]
        /\ comp' \in [Conn -> {"none", "ctl", "open"}]
    BY <1>1, <1>11, ReleaseType DEF DelNode
  <2>3. UNCHANGED <<env, lproc, mainT, glb, cmds, elapsed, lks>>
    BY <1>11 DEF DelNode
  <2> QED
    BY <1>1, <2>1, <2>2, <2>3 DEF TypeOK
<1>12. CASE DelEntry(s)
  <2>1. glb' \in Seq(Entry)
    BY <1>1, <1>12, DelEntries DEF DelEntry, TypeOK
  <2>2. acc' \in [Svc -> AccState]
    BY <1>1, <1>4, <1>12 DEF DelEntry, AccGo, AccState, TypeOK
  <2> QED
    BY <1>1, <1>12, <2>1, <2>2 DEF DelEntry, TypeOK
<1>13. CASE CheckEnd(s)
  BY <1>1, <1>13 DEF CheckEnd, AccGo, AccState, TypeOK
<1> QED
  BY <1>6, <1>7, <1>8, <1>9, <1>10, <1>11, <1>12, <1>13 DEF Acceptor

(* A step of the L process thread keeps the types.                         *)
LEMMA LProcType ==
  ASSUME IInv, LProc
  PROVE  TypeOK'
<1> USE DEF env, pcs, reg, lks
<1>1. TypeOK /\ LIdle \in [pc : {"idle", "got", "insert", "update"},
                           addr : Addr \cup {None}, msg : Msg \cup {None},
                           node : Conn \cup {None}]
  BY DEF IInv, LIdle
<1>2. ASSUME NEW c \in Conn, LRead(c)
      PROVE  TypeOK'
  <2>1. rq[c] \in Seq(Msg) /\ rq[c] # <<>>
    BY <1>1, <1>2 DEF LRead, TypeOK
  <2>2. Head(rq[c]) \in Msg /\ Tail(rq[c]) \in Seq(Msg)
    BY <2>1
  <2>3. AddrOf[c] \in Addr
    BY NmServerAssumption
  <2>4. rq' \in [Conn -> Seq(Msg)]
    BY <1>1, <1>2, <2>2 DEF LRead, TypeOK
  <2> QED
    BY <1>1, <1>2, <2>2, <2>3, <2>4 DEF LRead, TypeOK
<1>3. ASSUME NEW n \in Conn, LData(n)
      PROVE  TypeOK'
  <2>1. comp' \in [Conn -> {"none", "ctl", "open"}]
    BY <1>1, <1>3 DEF LData, TypeOK
  <2> QED
    BY <1>1, <1>3, <2>1 DEF LData, TypeOK
<1>4. ASSUME NEW n \in Conn, LReport(n)
      PROVE  TypeOK'
  <2>1. comp' \in [Conn -> {"none", "ctl", "open"}]
    BY <1>1, <1>4 DEF LReport, TypeOK
  <2>2. ctrlLock' \in [Svc -> Thread \cup {None}]
    BY <1>1, <1>4 DEF LReport, TypeOK, Svc, Thread
  <2> QED
    BY <1>1, <1>4, <2>1, <2>2 DEF LReport, TypeOK
<1>5. CASE LDrop
  BY <1>1, <1>5 DEF LDrop, TypeOK
<1>6. CASE LInsert
  <2>1. lproc.addr \in Addr
    BY <1>6 DEF LInsert, IInv, ThreadsCarryValid, LProcCarriesValid
  <2>2. glb' \in Seq(Entry)
    BY <1>1, <1>6, <2>1, InsertType DEF LInsert, TypeOK
  <2> QED
    BY <1>1, <1>6, <2>2 DEF LInsert, TypeOK
<1>7. CASE LUpdate
  <2>1. 0 \in 0 .. MaxAge
    BY NmServerAssumption DEF MaxAge
  <2>2. age' \in [Conn -> 0 .. MaxAge] /\ comp' \in [Conn -> {"none", "ctl", "open"}]
    BY <1>1, <1>7, <2>1 DEF LUpdate, TypeOK
  <2>3. ctrlLock' \in [Svc -> Thread \cup {None}]
    BY <1>1, <1>7 DEF LUpdate, TypeOK
  <2> QED
    BY <1>1, <1>7, <2>2, <2>3 DEF LUpdate, TypeOK
<1> QED
  BY <1>2, <1>3, <1>4, <1>5, <1>6, <1>7 DEF LProc

(* A step of the main thread keeps the types.                              *)
LEMMA MainType ==
  ASSUME IInv, Main
  PROVE  TypeOK'
<1> USE DEF env, pcs, reg, lks
<1>1. TypeOK /\ Unique(glb)
  BY DEF IInv, UniqueByAddress, Unique
<1>2. \A s \in Svc : Clients(s) \subseteq Conn
  BY <1>1 DEF Clients, TypeOK
<1>3. CASE MTimers
  <2>1. elapsed' \in 0 .. Interval
    BY <1>3, NmServerAssumption DEF MTimers
  <2> QED
    BY <1>1, <1>3, <2>1 DEF MTimers, MainGo, TypeOK
<1>4. CASE MQuery
  <2>1. PICK q \in Orders(Clients("L")) :
          cmds' = cmds \o [i \in DOMAIN q |-> AddrOf[q[i]]]
    BY <1>4 DEF MQuery
  <2>2. [i \in DOMAIN q |-> AddrOf[q[i]]] \in Seq(Addr)
    BY <1>2, OrdersType DEF Svc
  <2>3. cmds' \in Seq(Addr)
    BY <1>1, <2>1, <2>2 DEF TypeOK
  <2> QED
    BY <1>1, <1>4, <2>3 DEF MQuery, TypeOK, Svc
<1>5. CASE MReleaseBegin
  <2>1. Clients(mainT.svc) \subseteq Conn
    BY <1>1, <1>2 DEF TypeOK
  <2>2. ctrlLock' \in [Svc -> Thread \cup {None}]
    BY <1>1, <1>5 DEF MReleaseBegin, TypeOK, Thread
  <2> QED
    BY <1>1, <1>5, <2>1, <2>2 DEF MReleaseBegin, TypeOK
<1>6. ASSUME NEW n \in Conn, MKeepNode(n)
      PROVE  TypeOK'
  BY <1>1, <1>6 DEF MKeepNode, TypeOK
<1>7. ASSUME NEW n \in Conn, MExpireNode(n)
      PROVE  TypeOK'
  <2>1. /\ nodes' \subseteq Conn
        /\ age' \in [Conn -> 0 .. MaxAge]
        /\ comp' \in [Conn -> {"none", "ctl", "open"}]
    BY <1>1, <1>7, ReleaseType DEF MExpireNode
  <2> QED
    BY <1>1, <1>7, <2>1 DEF MExpireNode, TypeOK
<1>8. ASSUME NEW k \in DOMAIN cmds, MCmdDel(k)
      PROVE  TypeOK'
  <2>1. Len(cmds) > 0
    BY <1>1 DEF TypeOK
  <2>2. cmds' \in Seq(Addr)
    BY <1>1, <1>8, <2>1, WithoutType DEF MCmdDel, TypeOK
  <2> QED
    BY <1>1, <1>8, <2>2 DEF MCmdDel, TypeOK
<1>9. CASE MDelEntry
  <2>1. glb' \in Seq(Entry)
    BY <1>1, <1>9, DelEntries DEF MDelEntry, TypeOK
  <2> QED
    BY <1>1, <1>9, <2>1 DEF MDelEntry, TypeOK
<1>10. CASE MReleaseEnd
  <2>1. ctrlLock' \in [Svc -> Thread \cup {None}]
    BY <1>1, <1>10 DEF MReleaseEnd, TypeOK
  <2> QED
    BY <1>1, <1>10, <2>1 DEF MReleaseEnd, TypeOK, Svc
<1>11. CASE MGetCmd
  <2>1. Head(cmds) \in Addr /\ Tail(cmds) \in Seq(Addr)
    BY <1>1, <1>11 DEF MGetCmd, TypeOK
  <2> QED
    BY <1>1, <1>11, <2>1 DEF MGetCmd, TypeOK
<1>12. CASE MNoCmd
  BY <1>1, <1>12 DEF MNoCmd, MainIdle, TypeOK, Svc
<1>13. CASE MWrite
  <2>1. asked' \in [Conn -> BOOLEAN]
    BY <1>1, <1>13 DEF MWrite, TypeOK
  <2> QED
    BY <1>1, <1>13, <2>1 DEF MWrite, MainIdle, TypeOK, Svc
<1> QED
  BY <1>3, <1>4, <1>5, <1>6, <1>7, <1>8, <1>9, <1>10, <1>11, <1>12, <1>13
     DEF Main

(* A step of a board or of the network, and time, keep the types.          *)
LEMMA BoardsType ==
  ASSUME TypeOK, Boards \/ Tick
  PROVE  TypeOK'
<1> USE DEF env, pcs, reg, lks
<1>1. ASSUME NEW c \in Conn, Break(c)
      PROVE  TypeOK'
  BY <1>1 DEF Break, TypeOK
<1>2. ASSUME NEW c \in Conn, NEW m \in Msg, BoardSend(c, m)
      PROVE  TypeOK'
  <2>1. rq[c] \in Seq(Msg)
    BY DEF TypeOK
  <2>2. Append(rq[c], m) \in Seq(Msg)
    BY <2>1
  <2>3. rq' \in [Conn -> Seq(Msg)]
    BY <1>2, <2>2 DEF BoardSend, TypeOK
  <2>4. asked' \in [Conn -> BOOLEAN]
    BY <1>2 DEF BoardSend, TypeOK
  <2> QED
    BY <1>2, <2>3, <2>4 DEF BoardSend, TypeOK
<1>3. CASE Tick
  <2>1. MaxAge \in Nat
    BY NmServerAssumption DEF MaxAge
  <2>2. \A x \in 0 .. MaxAge : x < MaxAge => x + 1 \in 0 .. MaxAge
    BY <2>1
  <2>3. age' \in [Conn -> 0 .. MaxAge]
    BY <1>3, <2>2 DEF Tick, TypeOK
  <2>4. elapsed' \in 0 .. Interval
    BY <1>3, NmServerAssumption DEF Tick, TypeOK
  <2> QED
    BY <1>3, <2>3, <2>4 DEF Tick, TypeOK
<1> QED
  BY <1>1, <1>2, <1>3 DEF Boards

(* Every step keeps the types.                                             *)
LEMMA TypeStep ==
  ASSUME IInv, Next
  PROVE  TypeOK'
<1>1. TypeOK
  BY DEF IInv
<1> QED
  BY <1>1, AcceptorType, LProcType, MainType, BoardsType DEF Next, Threads

-----------------------------------------------------------------------------
(* Locks. *)

(* The accept thread of a service takes and releases svc->lock with its    *)
(* scan, and never takes ctrl->lock for more than a step.                  *)
LEMMA AcceptorLocks ==
  ASSUME IInv, NEW s \in Svc, Acceptor(s)
  PROVE  LocksMatchThreads'
<1> USE DEF env, pcs, reg, lks, AccAt, AccGo
<1>1. /\ acc \in [Svc -> AccState] /\ svcLock \in [Svc -> Thread \cup {None}]
      /\ LocksMatchThreads
  BY DEF IInv, TypeOK
<1>2. UNCHANGED <<ctrlLock, lproc, mainT>>
  BY DEF Acceptor, Accept, CheckPeer, AddNode, InsertNull, CheckBegin, DelNode,
         DelEntry, CheckEnd
<1>3. \A r \in Svc \ {s} : acc'[r] = acc[r] /\ svcLock'[r] = svcLock[r]
  BY <1>1 DEF Acceptor, Accept, CheckPeer, AddNode, InsertNull, CheckBegin,
              DelNode, DelEntry, CheckEnd
<1>4. svcLock'[s] = IF acc'[s].pc \in {"scan", "del", "gdel"}
                    THEN AccOf[s] ELSE None
  <2>1. ASSUME NEW c \in Conn, Accept(s, c) \/ CheckPeer(s, c)
        PROVE  svcLock'[s] = IF acc'[s].pc \in {"scan", "del", "gdel"}
                             THEN AccOf[s] ELSE None
    BY <1>1, <2>1 DEF Accept, CheckPeer, LocksMatchThreads
  <2>2. CASE AddNode(s) \/ InsertNull(s)
    BY <1>1, <2>2 DEF AddNode, InsertNull, LocksMatchThreads
  <2>3. CASE CheckBegin(s) \/ CheckEnd(s)
    BY <1>1, <2>3 DEF CheckBegin, CheckEnd, LocksMatchThreads
  <2>4. CASE DelNode(s) \/ DelEntry(s)
    BY <1>1, <2>4 DEF DelNode, DelEntry, LocksMatchThreads
  <2> QED
    BY <2>1, <2>2, <2>3, <2>4 DEF Acceptor
<1> QED
  BY <1>1, <1>2, <1>3, <1>4 DEF LocksMatchThreads

(* The process thread holds ctrl->lock of L while it works on a report.    *)
LEMMA LProcLocks ==
  ASSUME IInv, LProc
  PROVE  LocksMatchThreads'
<1> USE DEF env, pcs, reg, lks, LIdle
<1>1. /\ ctrlLock \in [Svc -> Thread \cup {None}] /\ None \notin Thread
      /\ LocksMatchThreads
      /\ lproc \in [pc : {"idle", "got", "insert", "update"},
                    addr : Addr \cup {None}, msg : Msg \cup {None},
                    node : Conn \cup {None}]
  BY NmServerAssumption DEF IInv, TypeOK
<1>2. None # "lproc" /\ None # "main"
  BY <1>1 DEF Thread
<1>3. UNCHANGED <<svcLock, acc, mainT>>
  BY DEF LProc, LRead, LDrop, LData, LReport, LInsert, LUpdate
<1>4. CASE UNCHANGED ctrlLock /\ (lproc.pc \in {"insert", "update"}
                                    <=> lproc'.pc \in {"insert", "update"})
  BY <1>1, <1>3, <1>4 DEF LocksMatchThreads
<1>5. ASSUME NEW n \in Conn, LReport(n)
      PROVE  LocksMatchThreads'
  BY <1>1, <1>2, <1>3, <1>5 DEF LReport, LocksMatchThreads, Svc
<1>6. CASE LUpdate
  BY <1>1, <1>2, <1>3, <1>6 DEF LUpdate, LocksMatchThreads, Svc
<1>7. ASSUME NEW c \in Conn, LRead(c) \/ LData(c)
      PROVE  LocksMatchThreads'
  <2>1. UNCHANGED ctrlLock
    BY <1>7 DEF LRead, LData
  <2>2. /\ lproc.pc \notin {"insert", "update"}
        /\ lproc'.pc \notin {"insert", "update"}
    <3>1. CASE LRead(c)
      BY <1>1, <3>1 DEF LRead
    <3>2. CASE LData(c)
      BY <1>1, <3>2 DEF LData
    <3> QED
      BY <1>7, <3>1, <3>2
  <2> QED
    BY <1>1, <1>4, <2>1, <2>2
<1>8. CASE LDrop \/ LInsert
  BY <1>1, <1>4, <1>8 DEF LDrop, LInsert
<1> QED
  BY <1>5, <1>6, <1>7, <1>8 DEF LProc

(* The main thread holds ctrl->lock of the service whose clients it looks  *)
(* through for time-outs.                                                  *)
LEMMA MainLocks ==
  ASSUME IInv, Main
  PROVE  LocksMatchThreads'
<1> USE DEF env, pcs, reg, lks, MainIdle, MainGo
<1>1. /\ ctrlLock \in [Svc -> Thread \cup {None}] /\ None \notin Thread
      /\ LocksMatchThreads
      /\ mainT \in [pc : {"loop", "query", "release", "expire", "cmddel",
                          "send", "write"},
                    svc : Svc, todo : SUBSET Conn, cur : Conn \cup {None},
                    addr : Addr \cup {None}]
  BY NmServerAssumption DEF IInv, TypeOK
<1>2. None # "lproc" /\ None # "main"
  BY <1>1 DEF Thread
<1>3. UNCHANGED <<svcLock, acc, lproc>>
  BY DEF Main, MTimers, MQuery, MReleaseBegin, MKeepNode, MExpireNode, MCmdDel,
         MDelEntry, MReleaseEnd, MGetCmd, MNoCmd, MWrite
<1>4. CASE /\ UNCHANGED ctrlLock
           /\ \/ mainT'.svc = mainT.svc
                 /\ (mainT.pc \in {"expire", "cmddel"}
                       <=> mainT'.pc \in {"expire", "cmddel"})
              \/ mainT.pc \notin {"expire", "cmddel"}
                 /\ mainT'.pc \notin {"expire", "cmddel"}
  BY <1>1, <1>3, <1>4 DEF LocksMatchThreads
<1>5. CASE MReleaseBegin
  BY <1>1, <1>2, <1>3, <1>5 DEF MReleaseBegin, LocksMatchThreads
<1>6. CASE MReleaseEnd
  BY <1>1, <1>2, <1>3, <1>6 DEF MReleaseEnd, LocksMatchThreads
<1>7. CASE MTimers \/ MQuery
  BY <1>1, <1>4, <1>7 DEF MTimers, MQuery
<1>10. CASE MGetCmd \/ MNoCmd \/ MWrite
  <2>1. UNCHANGED ctrlLock
    BY <1>10 DEF MGetCmd, MNoCmd, MWrite
  <2>2. mainT.pc \notin {"expire", "cmddel"}
    BY <1>10 DEF MGetCmd, MNoCmd, MWrite
  <2>3. mainT'.pc \notin {"expire", "cmddel"}
    <3>1. CASE MGetCmd
      BY <1>1, <3>1 DEF MGetCmd
    <3>2. CASE MNoCmd
      BY <3>2 DEF MNoCmd
    <3>3. CASE MWrite
      BY <3>3 DEF MWrite
    <3> QED
      BY <1>10, <3>1, <3>2, <3>3
  <2> QED
    BY <1>1, <1>4, <2>1, <2>2, <2>3
<1>8. CASE MDelEntry \/ \E n \in Conn : MKeepNode(n) \/ MExpireNode(n)
  BY <1>1, <1>4, <1>8 DEF MDelEntry, MKeepNode, MExpireNode
<1>9. CASE \E k \in DOMAIN cmds : MCmdDel(k)
  BY <1>1, <1>4, <1>9 DEF MCmdDel
<1> QED
  BY <1>5, <1>6, <1>7, <1>8, <1>9, <1>10 DEF Main

(* Every step keeps the locks with the threads that took them.             *)
LEMMA LocksStep ==
  ASSUME IInv, Next
  PROVE  LocksMatchThreads'
<1>1. CASE Boards \/ Tick
  BY <1>1 DEF Boards, Break, BoardSend, Tick, pcs, lks, IInv, LocksMatchThreads
<1> QED
  BY <1>1, AcceptorLocks, LProcLocks, MainLocks DEF Next, Threads

-----------------------------------------------------------------------------
(* What the threads carry. *)

(* The steps of the other threads and of the network leave the peers alone,*)
(* for a failed peer is still linked.                                      *)
LEMMA PeersKept ==
  ASSUME IInv, LProc \/ Main \/ Boards \/ Tick
  PROVE  UNCHANGED acc /\ \A s \in Svc : Peers(s)' = Peers(s)
<1>1. link \in [Conn -> {"new", "up", "err", "gone"}]
  BY DEF IInv, TypeOK
<1>2. ASSUME NEW c \in Conn, Break(c)
      PROVE  UNCHANGED acc /\ \A s \in Svc : Peers(s)' = Peers(s)
  BY <1>1, <1>2 DEF Break, Peers, pcs
<1>3. CASE Tick \/ \E c \in Conn, m \in Msg : BoardSend(c, m)
  BY <1>3 DEF Tick, BoardSend, Peers, pcs, env
<1>4. CASE LProc
  BY <1>4 DEF LProc, LRead, LDrop, LData, LReport, LInsert, LUpdate, Peers, env
<1>5. CASE Main
  BY <1>5 DEF Main, MTimers, MQuery, MReleaseBegin, MKeepNode, MExpireNode,
              MCmdDel, MDelEntry, MReleaseEnd, MGetCmd, MNoCmd, MWrite, Peers,
              env, pcs
<1> QED
  BY <1>2, <1>3, <1>4, <1>5 DEF Boards

(* The accept thread of one service leaves the peers of the other alone,   *)
(* gains the one it accepts and loses the failed one it handles.           *)
LEMMA PeersStep ==
  ASSUME IInv, NEW s \in Svc
  PROVE  /\ \A c \in Conn :
              Accept(s, c) => /\ Peers(s)' = Peers(s) \cup {c}
                              /\ \A r \in Svc \ {s} : Peers(r)' = Peers(r)
         /\ \A c \in Conn :
              CheckPeer(s, c) => /\ SvcOf[c] = s
                                 /\ Peers(s) \ {c} \subseteq Peers(s)'
                                 /\ link[c] # "err" => Peers(s)' = Peers(s)
                                 /\ \A r \in Svc \ {s} : Peers(r)' = Peers(r)
         /\ AddNode(s) \/ InsertNull(s) \/ CheckBegin(s) \/ DelNode(s)
              \/ DelEntry(s) \/ CheckEnd(s)
              => \A r \in Svc : Peers(r)' = Peers(r)
<1>1. /\ link \in [Conn -> {"new", "up", "err", "gone"}]
      /\ SvcOf \in [Conn -> Svc]
      /\ AccCarriesValid(s)
  BY NmServerAssumption DEF IInv, TypeOK, ThreadsCarryValid
<1>2. ASSUME NEW c \in Conn, Accept(s, c)
      PROVE  /\ Peers(s)' = Peers(s) \cup {c}
             /\ \A r \in Svc \ {s} : Peers(r)' = Peers(r)
  BY <1>1, <1>2 DEF Accept, Peers
<1>3. ASSUME NEW c \in Conn, CheckPeer(s, c)
      PROVE  /\ SvcOf[c] = s
             /\ Peers(s) \ {c} \subseteq Peers(s)'
             /\ link[c] # "err" => Peers(s)' = Peers(s)
             /\ \A r \in Svc \ {s} : Peers(r)' = Peers(r)
  <2>1. SvcOf[c] = s
    BY <1>1, <1>3 DEF CheckPeer, AccCarriesValid, Peers
  <2>2. link' = link \/ link' = [link EXCEPT ![c] = "gone"]
    BY <1>3 DEF CheckPeer, AccGo
  <2>3. link[c] # "err" => link' = link
    BY <1>3 DEF CheckPeer, AccGo
  <2> QED
    BY <1>1, <2>1, <2>2, <2>3 DEF Peers
<1>4. ASSUME AddNode(s) \/ InsertNull(s) \/ CheckBegin(s) \/ DelNode(s)
               \/ DelEntry(s) \/ CheckEnd(s)
      PROVE  \A r \in Svc : Peers(r)' = Peers(r)
  BY <1>4 DEF AddNode, InsertNull, CheckBegin, DelNode, DelEntry, CheckEnd,
              Peers, env
<1> QED
  BY <1>2, <1>3, <1>4

(* The accept threads keep working on connections of their own.            *)
LEMMA AccCarryStep ==
  ASSUME IInv, Next
  PROVE  \A s \in Svc : AccCarriesValid(s)'
<1>1. /\ acc \in [Svc -> AccState]
      /\ SvcOf \in [Conn -> Svc]
      /\ \A s \in Svc : AccCarriesValid(s)
  BY NmServerAssumption DEF IInv, TypeOK, ThreadsCarryValid
<1>2. CASE LProc \/ Main \/ Boards \/ Tick
  BY <1>1, <1>2, PeersKept DEF AccCarriesValid
<1>3. ASSUME NEW s \in Svc, Acceptor(s)
      PROVE  \A r \in Svc : AccCarriesValid(r)'
  <2>1. ASSUME NEW r \in Svc \ {s}
        PROVE  AccCarriesValid(r)'
    <3>1. acc'[r] = acc[r]
      BY <1>1, <1>3 DEF Acceptor, Accept, CheckPeer, AddNode, InsertNull,
            CheckBegin, DelNode, DelEntry, CheckEnd, AccGo
    <3>2. Peers(r)' = Peers(r)
      BY <1>3, PeersStep DEF Acceptor
    <3> QED
      BY <1>1, <3>1, <3>2 DEF AccCarriesValid
  <2> SUFFICES AccCarriesValid(s)'
    BY <2>1
  <2>2. AccCarriesValid(s)
    BY <1>1
  <2>3. ASSUME NEW c \in Conn, Accept(s, c)
        PROVE  AccCarriesValid(s)'
    <3>1. acc'[s] = [pc |-> "add", cur |-> c, todo |-> {}]
      BY <1>1, <2>3 DEF Accept, AccGo
    <3>2. c \in Peers(s)'
      BY <2>3, PeersStep
    <3>3. SvcOf[c] = s
      BY <2>3 DEF Accept
    <3> QED
      BY <3>1, <3>2, <3>3 DEF AccCarriesValid
  <2>4. ASSUME NEW c \in Conn, CheckPeer(s, c)
        PROVE  AccCarriesValid(s)'
    <3>1. /\ SvcOf[c] = s
          /\ acc[s].todo \ {c} \subseteq Peers(s)'
      BY <2>2, <2>4, PeersStep DEF AccCarriesValid
    <3>2. \/ acc'[s] = [pc |-> "del", cur |-> c, todo |-> acc[s].todo \ {c}]
          \/ acc'[s] = [pc |-> "scan", cur |-> None, todo |-> acc[s].todo \ {c}]
      BY <1>1, <2>4 DEF CheckPeer, AccGo
    <3> QED
      BY <3>1, <3>2 DEF AccCarriesValid
  <2>5. CASE AddNode(s)
    <3>1. Peers(s)' = Peers(s)
      BY <2>5, PeersStep
    <3>2. \/ s = "L" /\ acc'[s] = [pc |-> "insert", cur |-> acc[s].cur, todo |-> {}]
          \/ acc'[s] = [pc |-> "idle", cur |-> None, todo |-> {}]
      BY <1>1, <2>5 DEF AddNode, AccGo
    <3>3. AccAt(s, "add")
      BY <2>5 DEF AddNode
    <3> QED
      BY <2>2, <3>1, <3>2, <3>3 DEF AccCarriesValid, AccAt
  <2>6. CASE InsertNull(s) \/ CheckEnd(s)
    <3>1. acc'[s] = [pc |-> "idle", cur |-> None, todo |-> {}]
      BY <1>1, <2>6 DEF InsertNull, CheckEnd, AccGo
    <3> QED
      BY <3>1 DEF AccCarriesValid
  <2>7. CASE CheckBegin(s)
    <3>1. acc'[s] = [pc |-> "scan", cur |-> None, todo |-> Peers(s)]
      BY <1>1, <2>7 DEF CheckBegin, AccGo
    <3>2. Peers(s)' = Peers(s)
      BY <2>7, PeersStep
    <3> QED
      BY <3>1, <3>2 DEF AccCarriesValid
  <2>8. CASE DelNode(s)
    <3>1. Peers(s)' = Peers(s)
      BY <2>8, PeersStep
    <3>2. \/ /\ s = "L"
             /\ acc'[s] = [pc |-> "gdel", cur |-> acc[s].cur, todo |-> acc[s].todo]
          \/ acc'[s] = [pc |-> "scan", cur |-> None, todo |-> acc[s].todo]
      BY <1>1, <2>8 DEF DelNode, AccGo
    <3>3. AccAt(s, "del")
      BY <2>8 DEF DelNode
    <3> QED
      BY <2>2, <3>1, <3>2, <3>3 DEF AccCarriesValid, AccAt
  <2>9. CASE DelEntry(s)
    <3>1. Peers(s)' = Peers(s)
      BY <2>9, PeersStep
    <3>2. acc'[s] = [pc |-> "scan", cur |-> None, todo |-> acc[s].todo]
      BY <1>1, <2>9 DEF DelEntry, AccGo
    <3> QED
      BY <2>2, <3>1, <3>2 DEF AccCarriesValid
  <2> QED
    BY <1>3, <2>3, <2>4, <2>5, <2>6, <2>7, <2>8, <2>9 DEF Acceptor
<1> QED
  BY <1>2, <1>3 DEF Next, Threads

-----------------------------------------------------------------------------
(* What a step does to the clients and to the board table. *)

(* The clients of a service change in three ways, never while another      *)
(* thread holds the ctrl->lock of that service.                            *)
LEMMA ClientsStep ==
  ASSUME IInv, Next, NEW s \in Svc
  PROVE  \/ Clients(s)' = Clients(s)
         \/ /\ AddNode(s) /\ ctrlLock[s] = None
            /\ acc[s].cur \in Peers(s)
            /\ GetNode(s, AddrOf[acc[s].cur]) = {}
            /\ Clients(s)' = Clients(s) \cup {acc[s].cur}
         \/ /\ DelNode(s) /\ ctrlLock[s] = None
            /\ Clients(s)' = Clients(s) \ GetNode(s, AddrOf[acc[s].cur])
         \/ \E n \in Clients(s) :
              /\ MExpireNode(n) /\ mainT.svc = s /\ ctrlLock[s] = "main"
              /\ Clients(s)' = Clients(s) \ {n}
<1>1. /\ \A r \in Svc : AccCarriesValid(r)
      /\ MainCarriesValid /\ LocksMatchThreads
      /\ SvcOf \in [Conn -> Svc] /\ nodes \subseteq Conn
      /\ mainT.svc \in Svc
  BY NmServerAssumption DEF IInv, TypeOK, ThreadsCarryValid
<1>2. ASSUME NEW r \in Svc, AddNode(r)
      PROVE  \/ nodes' = nodes
             \/ /\ GetNode(r, AddrOf[acc[r].cur]) = {}
                /\ nodes' = nodes \cup {acc[r].cur}
  BY <1>2 DEF AddNode, AccGo
<1>3. ASSUME NEW r \in Svc, AddNode(r)
      PROVE  ctrlLock[r] = None /\ acc[r].cur \in Peers(r) /\ SvcOf[acc[r].cur] = r
  BY <1>1, <1>3 DEF AddNode, AccAt, AccCarriesValid
<1>4. ASSUME NEW r \in Svc, DelNode(r)
      PROVE  /\ ctrlLock[r] = None
             /\ nodes' = nodes \ GetNode(r, AddrOf[acc[r].cur])
  BY <1>4 DEF DelNode, Release
<1>5. ASSUME NEW n \in Conn, MExpireNode(n)
      PROVE  /\ n \in Clients(mainT.svc) /\ ctrlLock[mainT.svc] = "main"
             /\ nodes' = nodes \ {n}
  BY <1>1, <1>5 DEF MExpireNode, Release, MainCarriesValid, LocksMatchThreads
<1>6. CASE nodes' = nodes
  BY <1>6 DEF Clients
<1>7. ASSUME NEW r \in Svc, AddNode(r), nodes' # nodes
      PROVE  \/ Clients(s)' = Clients(s)
             \/ /\ AddNode(s) /\ ctrlLock[s] = None
                /\ acc[s].cur \in Peers(s)
                /\ GetNode(s, AddrOf[acc[s].cur]) = {}
                /\ Clients(s)' = Clients(s) \cup {acc[s].cur}
  <2>1. CASE r = s
    BY <1>2, <1>3, <1>7, <2>1 DEF Clients
  <2>2. CASE r # s
    BY <1>2, <1>3, <1>7, <2>2 DEF Clients
  <2> QED
    BY <2>1, <2>2
<1>8. ASSUME NEW r \in Svc, DelNode(r)
      PROVE  \/ Clients(s)' = Clients(s)
             \/ /\ DelNode(s) /\ ctrlLock[s] = None
                /\ Clients(s)' = Clients(s) \ GetNode(s, AddrOf[acc[s].cur])
  <2>1. CASE r = s
    BY <1>4, <1>8, <2>1 DEF Clients, GetNode
  <2>2. CASE r # s
    BY <1>4, <1>8, <2>2 DEF Clients, GetNode
  <2> QED
    BY <2>1, <2>2
<1>9. ASSUME NEW n \in Conn, MExpireNode(n)
      PROVE  \/ Clients(s)' = Clients(s)
             \/ /\ n \in Clients(s) /\ mainT.svc = s /\ ctrlLock[s] = "main"
                /\ Clients(s)' = Clients(s) \ {n}
  <2>1. CASE mainT.svc = s
    BY <1>5, <1>9, <2>1 DEF Clients
  <2>2. CASE mainT.svc # s
    BY <1>5, <1>9, <2>2 DEF Clients
  <2> QED
    BY <2>1, <2>2
<1>10. \/ nodes' = nodes
       \/ \E r \in Svc : AddNode(r) \/ DelNode(r)
       \/ \E n \in Conn : MExpireNode(n)
  <2>1. CASE LProc
    BY <2>1 DEF LProc, LRead, LDrop, LData, LReport, LInsert, LUpdate, reg
  <2>2. CASE Main
    BY <2>2 DEF Main, MTimers, MQuery, MReleaseBegin, MKeepNode, MCmdDel,
                MDelEntry, MReleaseEnd, MGetCmd, MNoCmd, MWrite, reg
  <2>3. CASE Boards \/ Tick
    BY <2>3 DEF Boards, Break, BoardSend, Tick, reg
  <2>4. ASSUME NEW r \in Svc, Acceptor(r)
        PROVE  nodes' = nodes \/ AddNode(r) \/ DelNode(r)
    BY <2>4 DEF Acceptor, Accept, CheckPeer, InsertNull, CheckBegin, DelEntry,
                CheckEnd, reg
  <2> QED
    BY <2>1, <2>2, <2>3, <2>4 DEF Next, Threads
<1> QED
  BY <1>6, <1>7, <1>8, <1>9, <1>10

(* The board table changes in three ways.                                  *)
LEMMA TableStep ==
  ASSUME IInv, Next
  PROVE  /\ Unique(glb')
         /\ InsertNull("L") =>
              \E e \in Entries(glb') : e.addr = AddrOf[acc["L"].cur]
         /\ DelEntry("L") =>
              \A e \in Entries(glb') : e.addr # AddrOf[acc["L"].cur]
         /\ MDelEntry => \A e \in Entries(glb') : e.addr # AddrOf[mainT.cur]
         /\ \/ Entries(glb') = Entries(glb)
            \/ \E b \in {"unset", "set"}, a \in Addr :
                 /\ \/ /\ InsertNull("L") /\ b = "unset"
                       /\ a = AddrOf[acc["L"].cur]
                    \/ /\ LInsert /\ b = "set" /\ a = lproc.addr
                 /\ \E e \in Entries(glb') : e.addr = a
                 /\ \A e \in Entries(glb') :
                      e \in Entries(glb) \/ e = [addr |-> a, bdi |-> b]
                 /\ \A e \in Entries(glb) :
                      e.addr # a \/ b = "unset" => e \in Entries(glb')
            \/ \E c \in Conn :
                 /\ \/ DelEntry("L") /\ c = acc["L"].cur
                    \/ MDelEntry /\ c = mainT.cur
                 /\ Entries(glb') = {e \in Entries(glb) : e.addr # AddrOf[c]}
<1>1. /\ \A r \in Svc : AccCarriesValid(r)
      /\ MainCarriesValid /\ LProcCarriesValid
      /\ AddrOf \in [Conn -> Addr] /\ glb \in Seq(Entry) /\ Unique(glb)
  BY NmServerAssumption
     DEF IInv, TypeOK, ThreadsCarryValid, UniqueByAddress, Unique
<1>2. \/ glb' = glb
      \/ \E s \in Svc : InsertNull(s) \/ DelEntry(s)
      \/ LInsert \/ MDelEntry
  <2>1. CASE LProc
    BY <2>1 DEF LProc, LRead, LDrop, LData, LReport, LUpdate
  <2>2. CASE Main
    BY <2>2 DEF Main, MTimers, MQuery, MReleaseBegin, MKeepNode, MExpireNode,
                MCmdDel, MReleaseEnd, MGetCmd, MNoCmd, MWrite
  <2>3. CASE Boards \/ Tick
    BY <2>3 DEF Boards, Break, BoardSend, Tick
  <2>4. ASSUME NEW r \in Svc, Acceptor(r)
        PROVE  glb' = glb \/ InsertNull(r) \/ DelEntry(r)
    BY <2>4 DEF Acceptor, Accept, CheckPeer, AddNode, CheckBegin, DelNode, CheckEnd
  <2> QED
    BY <2>1, <2>2, <2>3, <2>4 DEF Next, Threads
<1>3. ASSUME NEW s \in Svc, InsertNull(s)
      PROVE  /\ InsertNull("L") /\ AddrOf[acc["L"].cur] \in Addr
             /\ glb' = InsertBdinfo(glb, AddrOf[acc["L"].cur], "unset")
  <2>1. s = "L" /\ acc[s].cur \in Conn
    BY <1>1, <1>3 DEF InsertNull, AccAt, AccCarriesValid
  <2> QED
    BY <1>1, <1>3, <2>1 DEF InsertNull
<1>4. ASSUME NEW s \in Svc, DelEntry(s)
      PROVE  /\ DelEntry("L") /\ acc["L"].cur \in Conn
             /\ glb' = DelBdinfo(glb, AddrOf[acc["L"].cur])
  <2>1. s = "L" /\ acc[s].cur \in Conn
    BY <1>1, <1>4 DEF DelEntry, AccAt, AccCarriesValid
  <2> QED
    BY <1>1, <1>4, <2>1 DEF DelEntry
<1>5. ASSUME LInsert
      PROVE  lproc.addr \in Addr /\ glb' = InsertBdinfo(glb, lproc.addr, "set")
  BY <1>1, <1>5 DEF LInsert, LProcCarriesValid
<1>6. ASSUME MDelEntry
      PROVE  mainT.cur \in Conn /\ glb' = DelBdinfo(glb, AddrOf[mainT.cur])
  BY <1>1, <1>6 DEF MDelEntry, MainCarriesValid
<1>7. Unique(glb')
  BY <1>1, <1>2, <1>3, <1>4, <1>5, <1>6, InsertEntries, DelEntries
<1>8. InsertNull("L") => \E e \in Entries(glb') : e.addr = AddrOf[acc["L"].cur]
  BY <1>1, <1>3, InsertEntries DEF Svc
<1>9. DelEntry("L") => \A e \in Entries(glb') : e.addr # AddrOf[acc["L"].cur]
  BY <1>1, <1>4, DelEntries DEF Svc
<1>10. MDelEntry => \A e \in Entries(glb') : e.addr # AddrOf[mainT.cur]
  BY <1>1, <1>6, DelEntries
<1> DEFINE Inserts ==
             \E b \in {"unset", "set"}, a \in Addr :
                 /\ \/ /\ InsertNull("L") /\ b = "unset"
                       /\ a = AddrOf[acc["L"].cur]
                    \/ /\ LInsert /\ b = "set" /\ a = lproc.addr
                 /\ \E e \in Entries(glb') : e.addr = a
                 /\ \A e \in Entries(glb') :
                      e \in Entries(glb) \/ e = [addr |-> a, bdi |-> b]
                 /\ \A e \in Entries(glb) :
                      e.addr # a \/ b = "unset" => e \in Entries(glb')
           Deletes ==
             \E c \in Conn :
                 /\ \/ DelEntry("L") /\ c = acc["L"].cur
                    \/ MDelEntry /\ c = mainT.cur
                 /\ Entries(glb') = {e \in Entries(glb) : e.addr # AddrOf[c]}
<1> SUFFICES Entries(glb') = Entries(glb) \/ Inserts \/ Deletes
  BY <1>7, <1>8, <1>9, <1>10
<1>11. CASE glb' = glb
  BY <1>11
<1>12. CASE \E s \in Svc : InsertNull(s)
  BY <1>1, <1>3, <1>12, InsertEntries
<1>13. CASE LInsert
  BY <1>1, <1>5, <1>13, InsertEntries
<1>14. CASE \E s \in Svc : DelEntry(s)
  BY <1>1, <1>4, <1>14, DelEntries
<1>15. CASE MDelEntry
  BY <1>1, <1>6, <1>15, DelEntries
<1> QED
  BY <1>2, <1>11, <1>12, <1>13, <1>14, <1>15

(* How an address leaves: a peer stays until ssock_check unlinks it, then  *)
(* disccb deletes the clients of the address, then its board entry.        *)
LEMMA PresenceStep ==
  ASSUME IInv, Next, NEW s \in Svc, NEW a
  PROVE  /\ HasPeer(s, a) => HasPeer(s, a)' \/ Leaving(s, {"del"}, a)'
         /\ Leaving(s, {"del"}, a) =>
              \/ Leaving(s, {"del"}, a)'
              \/ /\ GetNode(s, a)' = {}
                 /\ s = "L" => Leaving(s, {"gdel"}, a)'
         /\ Leaving("L", {"gdel"}, a) =>
              \/ Leaving("L", {"gdel"}, a)'
              \/ \A e \in Entries(glb') : e.addr # a
<1>1. /\ acc \in [Svc -> AccState] /\ None \notin Conn
      /\ \A r \in Svc : AccCarriesValid(r)
  BY NmServerAssumption DEF IInv, TypeOK, ThreadsCarryValid
<1>2. CASE LProc \/ Main \/ Boards \/ Tick
  BY <1>2, PeersKept DEF HasPeer, Leaving
<1>3. ASSUME NEW r \in Svc, Acceptor(r), r # s
      PROVE  acc'[s] = acc[s] /\ Peers(s)' = Peers(s)
  <2>1. acc'[s] = acc[s]
    BY <1>1, <1>3 DEF Acceptor, Accept, CheckPeer, AddNode, InsertNull,
          CheckBegin, DelNode, DelEntry, CheckEnd, AccGo
  <2>2. Peers(s)' = Peers(s)
    BY <1>3, PeersStep DEF Acceptor
  <2> QED
    BY <2>1, <2>2
<1>4. HasPeer(s, a) => HasPeer(s, a)' \/ Leaving(s, {"del"}, a)'
  <2>1. CASE \E r \in Svc \ {s} : Acceptor(r)
    BY <1>3, <2>1 DEF HasPeer
  <2>2. ASSUME NEW c \in Conn, CheckPeer(s, c), HasPeer(s, a)
        PROVE  HasPeer(s, a)' \/ Leaving(s, {"del"}, a)'
    <3>1. CASE link[c] = "err"
      <4>1. acc'[s] = [pc |-> "del", cur |-> c, todo |-> acc[s].todo \ {c}]
        BY <1>1, <2>2, <3>1 DEF CheckPeer, AccGo
      <4>2. c # None
        BY <1>1
      <4>3. Peers(s) \ {c} \subseteq Peers(s)'
        BY <2>2, PeersStep
      <4> QED
        BY <2>2, <4>1, <4>2, <4>3 DEF HasPeer, Leaving
    <3>2. CASE link[c] # "err"
      BY <2>2, <3>2, PeersStep DEF HasPeer
    <3> QED
      BY <3>1, <3>2
  <2>3. ASSUME NEW c \in Conn, Accept(s, c), HasPeer(s, a)
        PROVE  HasPeer(s, a)'
    BY <2>3, PeersStep DEF HasPeer
  <2>4. CASE AddNode(s) \/ InsertNull(s) \/ CheckBegin(s) \/ DelNode(s)
               \/ DelEntry(s) \/ CheckEnd(s)
    BY <2>4, PeersStep DEF HasPeer
  <2> QED
    BY <1>2, <2>1, <2>2, <2>3, <2>4 DEF Next, Threads, Acceptor
<1>5. ASSUME Leaving(s, {"del"}, a)
      PROVE  \/ Leaving(s, {"del"}, a)'
             \/ /\ GetNode(s, a)' = {}
                /\ s = "L" => Leaving(s, {"gdel"}, a)'
  <2>1. CASE \E r \in Svc \ {s} : Acceptor(r)
    BY <1>3, <1>5, <2>1 DEF Leaving
  <2>2. CASE Acceptor(s)
    <3>1. DelNode(s)
      BY <1>5, <2>2 DEF Leaving, Acceptor, Accept, CheckPeer, AddNode,
            InsertNull, CheckBegin, DelEntry, CheckEnd, AccAt
    <3>2. AddrOf[acc[s].cur] = a /\ acc[s].cur # None
      BY <1>5 DEF Leaving
    <3>3. GetNode(s, a)' = {}
      BY <3>1, <3>2 DEF DelNode, Release, GetNode, Clients
    <3>4. s = "L" => acc'[s] = [pc |-> "gdel", cur |-> acc[s].cur,
                                todo |-> acc[s].todo]
      BY <1>1, <3>1 DEF DelNode, AccGo
    <3> QED
      BY <3>2, <3>3, <3>4 DEF Leaving
  <2> QED
    BY <1>2, <1>5, <2>1, <2>2 DEF Next, Threads
<1>6. ASSUME Leaving("L", {"gdel"}, a)
      PROVE  \/ Leaving("L", {"gdel"}, a)'
             \/ \A e \in Entries(glb') : e.addr # a
  <2>1. CASE Acceptor("R")
    <3>1. acc'["L"] = acc["L"]
      BY <1>1, <2>1 DEF Acceptor, Accept, CheckPeer, AddNode, InsertNull,
            CheckBegin, DelNode, DelEntry, CheckEnd, AccGo, Svc
    <3> QED
      BY <1>6, <3>1 DEF Leaving
  <2>2. CASE Acceptor("L")
    <3>1. DelEntry("L")
      BY <1>6, <2>2 DEF Leaving, Acceptor, Accept, CheckPeer, AddNode,
            InsertNull, CheckBegin, DelNode, CheckEnd, AccAt
    <3> QED
      BY <1>6, <3>1, TableStep DEF Leaving
  <2>3. CASE LProc \/ Main \/ Boards \/ Tick
    BY <1>6, <2>3, PeersKept DEF Leaving
  <2> QED
    BY <2>1, <2>2, <2>3 DEF Next, Threads, Svc
<1> QED
  BY <1>4, <1>5, <1>6

(* While the process thread works on a report its client stays linked.     *)
LEMMA LProcCarryStep ==
  ASSUME IInv, Next
  PROVE  LProcCarriesValid'
<1>1. /\ lproc \in [pc : {"idle", "got", "insert", "update"},
                    addr : Addr \cup {None}, msg : Msg \cup {None},
                    node : Conn \cup {None}]
      /\ LProcCarriesValid /\ LocksMatchThreads /\ AddrOf \in [Conn -> Addr]
      /\ None \notin Thread
  BY NmServerAssumption DEF IInv, TypeOK, ThreadsCarryValid
<1>2. ctrlLock["L"] = "lproc" => Clients("L")' = Clients("L")
  BY <1>1, ClientsStep DEF Svc, Thread
<1>3. CASE UNCHANGED lproc
  <2>1. lproc.pc \in {"insert", "update"} => Clients("L")' = Clients("L")
    BY <1>1, <1>2 DEF LocksMatchThreads, Svc
  <2> QED
    BY <1>1, <1>3, <2>1 DEF LProcCarriesValid, GetNode
<1>4. ASSUME NEW c \in Conn, LRead(c)
      PROVE  LProcCarriesValid'
  BY <1>1, <1>4 DEF LRead, LProcCarriesValid
<1>5. CASE LDrop \/ (\E n \in Conn : LData(n)) \/ LUpdate
  <2>1. lproc' = LIdle
    BY <1>5 DEF LDrop, LData, LUpdate
  <2> QED
    BY <2>1 DEF LIdle, LProcCarriesValid
<1>6. ASSUME NEW n \in Conn, LReport(n)
      PROVE  LProcCarriesValid'
  <2>1. Clients("L")' = Clients("L")
    BY <1>6 DEF LReport, Clients
  <2>2. /\ lproc'.pc = "insert" /\ lproc'.node = n /\ lproc'.addr = lproc.addr
        /\ lproc.addr \in Addr /\ n \in GetNode("L", lproc.addr)
    BY <1>1, <1>6 DEF LReport, LProcCarriesValid
  <2> QED
    BY <2>1, <2>2 DEF LProcCarriesValid, GetNode
<1>7. CASE LInsert
  <2>1. Clients("L")' = Clients("L")
    BY <1>7 DEF LInsert, Clients, reg
  <2>2. /\ lproc'.pc = "update" /\ lproc'.node = lproc.node
        /\ lproc'.addr = lproc.addr /\ lproc.pc = "insert"
    BY <1>1, <1>7 DEF LInsert
  <2> QED
    BY <1>1, <2>1, <2>2 DEF LProcCarriesValid, GetNode
<1>8. CASE UNCHANGED lproc \/ LProc
  BY <1>3, <1>4, <1>5, <1>6, <1>7, <1>8 DEF LProc
<1>9. CASE Main
  BY <1>8, <1>9 DEF Main, MTimers, MQuery, MReleaseBegin, MKeepNode, MExpireNode,
        MCmdDel, MDelEntry, MReleaseEnd, MGetCmd, MNoCmd, MWrite, pcs
<1>10. CASE Boards \/ Tick
  BY <1>8, <1>10 DEF Boards, Break, BoardSend, Tick, pcs
<1>11. ASSUME NEW r \in Svc, Acceptor(r)
       PROVE  UNCHANGED lproc
  BY <1>11 DEF Acceptor, Accept, CheckPeer, AddNode, InsertNull, CheckBegin,
               DelNode, DelEntry, CheckEnd
<1> QED
  BY <1>8, <1>9, <1>10, <1>11 DEF Next, Threads

(* While the main thread looks through the clients of a service those it   *)
(* has still to visit stay linked.                                         *)
LEMMA MainCarryStep ==
  ASSUME IInv, Next
  PROVE  MainCarriesValid'
<1>1. /\ mainT \in [pc : {"loop", "query", "release", "expire", "cmddel",
                          "send", "write"},
                    svc : Svc, todo : SUBSET Conn, cur : Conn \cup {None},
                    addr : Addr \cup {None}]
      /\ MainCarriesValid /\ LocksMatchThreads /\ None \notin Thread
      /\ nodes \subseteq Conn /\ cmds \in Seq(Addr)
  BY NmServerAssumption DEF IInv, TypeOK, ThreadsCarryValid
<1>2. CASE UNCHANGED mainT /\ ~\E n \in Conn : MExpireNode(n)
  <2>1. \A s \in Svc : Clients(s) \subseteq Conn
    BY <1>1 DEF Clients
  <2>2. ctrlLock[mainT.svc] = "main" => Clients(mainT.svc)' = Clients(mainT.svc)
    <3>1. None # "main" /\ mainT.svc \in Svc
      BY <1>1 DEF Thread
    <3>2. ASSUME NEW s \in Svc, ctrlLock[s] = "main"
          PROVE  Clients(s)' = Clients(s)
      BY <1>2, <2>1, <3>1, <3>2, ClientsStep
    <3> QED
      BY <1>2, <3>1, <3>2 DEF Clients
  <2>3. mainT.pc \in {"expire", "cmddel"} => ctrlLock[mainT.svc] = "main"
    BY <1>1 DEF LocksMatchThreads
  <2> QED
    BY <1>1, <1>2, <2>2, <2>3 DEF MainCarriesValid
<1>3. CASE MTimers \/ MQuery \/ MNoCmd \/ MWrite
  <2>1. mainT'.pc \in {"query", "release", "loop"}
    <3>1. CASE MTimers \/ MQuery
      BY <1>1, <3>1 DEF MTimers, MainGo, MQuery
    <3>2. CASE MNoCmd \/ MWrite
      BY <3>2 DEF MNoCmd, MWrite, MainIdle
    <3> QED
      BY <1>3, <3>1, <3>2
  <2> QED
    BY <2>1 DEF MainCarriesValid
<1>4. CASE MGetCmd
  <2>1. Head(cmds) \in Addr
    BY <1>1, <1>4 DEF MGetCmd
  <2> QED
    BY <1>1, <1>4, <2>1 DEF MGetCmd, MainCarriesValid
<1>5. CASE MReleaseBegin
  <2>1. Clients(mainT.svc)' = Clients(mainT.svc)
    BY <1>5 DEF MReleaseBegin, Clients, reg
  <2>2. /\ mainT'.pc = "expire" /\ mainT'.svc = mainT.svc
        /\ mainT'.todo = Clients(mainT.svc)
    BY <1>1, <1>5 DEF MReleaseBegin
  <2> QED
    BY <2>1, <2>2 DEF MainCarriesValid, Clients
<1>6. ASSUME NEW n \in Conn, MKeepNode(n)
      PROVE  MainCarriesValid'
  <2>1. UNCHANGED nodes
    BY <1>6 DEF MKeepNode, reg
  <2>2. /\ mainT'.pc = "expire" /\ mainT'.svc = mainT.svc
        /\ mainT'.todo \subseteq mainT.todo /\ mainT.pc = "expire"
    BY <1>1, <1>6 DEF MKeepNode
  <2> QED
    BY <1>1, <2>1, <2>2 DEF MainCarriesValid, Clients
<1>7. ASSUME NEW n \in Conn, MExpireNode(n)
      PROVE  MainCarriesValid'
  <2>1. nodes' = nodes \ {n}
    BY <1>7 DEF MExpireNode, Release
  <2>2. /\ mainT'.svc = mainT.svc /\ mainT'.todo = mainT.todo \ {n}
        /\ mainT.pc = "expire" /\ n \in mainT.todo
    BY <1>1, <1>7 DEF MExpireNode
  <2>3. \/ mainT'.pc = "expire"
        \/ mainT'.pc = "cmddel" /\ mainT'.cur = n /\ mainT.svc = "L"
    BY <1>1, <1>7 DEF MExpireNode
  <2>4. mainT.todo \subseteq Clients(mainT.svc)
    BY <1>1, <2>2 DEF MainCarriesValid
  <2> QED
    BY <2>1, <2>2, <2>3, <2>4 DEF MainCarriesValid, Clients
<1>8. CASE MDelEntry
  <2>1. UNCHANGED nodes
    BY <1>8 DEF MDelEntry, reg
  <2>2. /\ mainT'.pc = "expire" /\ mainT'.svc = mainT.svc
        /\ mainT'.todo = mainT.todo /\ mainT.pc = "cmddel"
    BY <1>1, <1>8 DEF MDelEntry
  <2> QED
    BY <1>1, <2>1, <2>2 DEF MainCarriesValid, Clients
<1>9. CASE MReleaseEnd
  <2>1. mainT'.pc \in {"release", "send"}
    BY <1>1, <1>9 DEF MReleaseEnd
  <2> QED
    BY <2>1 DEF MainCarriesValid
<1>10. ASSUME NEW k \in DOMAIN cmds, MCmdDel(k)
       PROVE  MainCarriesValid'
  <2>1. UNCHANGED <<mainT, nodes>>
    BY <1>10 DEF MCmdDel, pcs, reg
  <2> QED
    BY <1>1, <2>1 DEF MainCarriesValid, Clients
<1>11. CASE Main
  BY <1>3, <1>4, <1>5, <1>6, <1>7, <1>8, <1>9, <1>10, <1>11 DEF Main
<1>12. UNCHANGED mainT \/ Main
  <2>1. CASE LProc
    BY <2>1 DEF LProc, LRead, LDrop, LData, LReport, LInsert, LUpdate
  <2>2. CASE Boards \/ Tick
    BY <2>2 DEF Boards, Break, BoardSend, Tick, pcs
  <2>3. ASSUME NEW r \in Svc, Acceptor(r)
        PROVE  UNCHANGED mainT
    BY <2>3 DEF Acceptor, Accept, CheckPeer, AddNode, InsertNull, CheckBegin,
                DelNode, DelEntry, CheckEnd
  <2> QED
    BY <2>1, <2>2, <2>3 DEF Next, Threads
<1> QED
  BY <1>2, <1>7, <1>11, <1>12

(* What the threads carry stays valid.                                     *)
LEMMA CarryStep ==
  ASSUME IInv, Next
  PROVE  ThreadsCarryValid'
BY AccCarryStep, LProcCarryStep, MainCarryStep DEF ThreadsCarryValid

-----------------------------------------------------------------------------
(* Clients and entries. *)

(* A client keeps its peer until disccb deletes the client.                *)
LEMMA ClientHasPeerStep ==
  ASSUME IInv, Next
  PROVE  ClientHasPeer'
<1>1. /\ SvcOf \in [Conn -> Svc] /\ nodes' \subseteq Conn /\ ClientHasPeer
  BY NmServerAssumption, TypeStep DEF IInv, TypeOK
<1>2. SUFFICES ASSUME NEW s \in Svc, NEW n \in Clients(s)'
               PROVE  HasPeer(s, AddrOf[n])' \/ Leaving(s, {"del"}, AddrOf[n])'
  BY <1>1 DEF ClientHasPeer, Clients
<1> DEFINE a == AddrOf[n]
<1>3. CASE n \in Clients(s)
  <2>1. HasPeer(s, a) \/ Leaving(s, {"del"}, a)
    BY <1>1, <1>3 DEF ClientHasPeer, Clients
  <2>2. GetNode(s, a)' # {}
    BY <1>2 DEF GetNode
  <2> QED
    BY <2>1, <2>2, PresenceStep
<1>4. CASE n \notin Clients(s)
  <2>1. n = acc[s].cur /\ n \in Peers(s)
    BY <1>2, <1>4, ClientsStep
  <2>2. HasPeer(s, a)
    BY <2>1 DEF HasPeer
  <2>3. ~Leaving(s, {"del"}, a) \/ GetNode(s, a)' # {}
    BY <1>2 DEF GetNode
  <2> QED
    BY <2>2, PresenceStep
<1> QED
  BY <1>3, <1>4

(* An entry without a peer is an entry disccb is about to delete.          *)
LEMMA NoGhostStep ==
  ASSUME IInv, Next
  PROVE  NoGhostBoard'
<1>1. /\ NoGhostBoard /\ ClientHasPeer /\ LProcCarriesValid
      /\ AccCarriesValid("L")
  BY DEF IInv, ThreadsCarryValid, Svc
<1>2. SUFFICES ASSUME NEW e \in Entries(glb')
               PROVE  \/ HasPeer("L", e.addr)'
                      \/ Leaving("L", {"del", "gdel"}, e.addr)'
  BY DEF NoGhostBoard, Entries
<1> DEFINE a == e.addr
<1>3. SUFFICES HasPeer("L", a) \/ Leaving("L", {"del"}, a) \/ Leaving("L", {"gdel"}, a)
  <2>1. Leaving("L", {"del"}, a)' \/ Leaving("L", {"gdel"}, a)'
          => Leaving("L", {"del", "gdel"}, a)'
    BY DEF Leaving
  <2> QED
    BY <1>3, <2>1, PresenceStep DEF Svc
<1>4. CASE e \in Entries(glb)
  <2>1. HasPeer("L", a) \/ Leaving("L", {"del", "gdel"}, a)
    BY <1>1, <1>4 DEF NoGhostBoard, Entries
  <2> QED
    BY <2>1 DEF Leaving
<1>5. CASE e \notin Entries(glb)
  <2>1. \/ InsertNull("L") /\ a = AddrOf[acc["L"].cur]
        \/ LInsert /\ a = lproc.addr
    BY <1>2, <1>5, TableStep
  <2>2. CASE InsertNull("L") /\ a = AddrOf[acc["L"].cur]
    BY <1>1, <2>2 DEF InsertNull, AccAt, AccCarriesValid, HasPeer
  <2>3. CASE LInsert /\ a = lproc.addr
    <3>1. lproc.node \in GetNode("L", a)
      BY <1>1, <2>3 DEF LInsert, LProcCarriesValid
    <3> QED
      BY <1>1, <3>1 DEF GetNode, Clients, ClientHasPeer
  <2> QED
    BY <2>1, <2>2, <2>3
<1> QED
  BY <1>4, <1>5

(* No second client and no second entry of an address.                     *)
LEMMA UniqueStep ==
  ASSUME IInv, Next
  PROVE  UniqueByAddress'
<1>1. \A s \in Svc : \A m, n \in Clients(s) : AddrOf[m] = AddrOf[n] => m = n
  BY DEF IInv, UniqueByAddress
<1>2. ASSUME NEW s \in Svc
      PROVE  \A m, n \in Clients(s)' : AddrOf[m] = AddrOf[n] => m = n
  <2>1. CASE Clients(s)' \subseteq Clients(s)
    BY <1>1, <2>1
  <2>2. CASE /\ GetNode(s, AddrOf[acc[s].cur]) = {}
             /\ Clients(s)' = Clients(s) \cup {acc[s].cur}
    BY <1>1, <2>2 DEF GetNode
  <2> QED
    BY <2>1, <2>2, ClientsStep
<1> QED
  BY <1>2, TableStep DEF UniqueByAddress, Unique

(* When an entry is about to be deleted its client is gone for good.       *)
LEMMA ClientGoesFirstStep ==
  ASSUME IInv, Next
  PROVE  ClientGoesFirst'
<1>1. /\ acc \in [Svc -> AccState] /\ None \notin Thread
      /\ mainT \in [pc : {"loop", "query", "release", "expire", "cmddel",
                          "send", "write"},
                    svc : Svc, todo : SUBSET Conn, cur : Conn \cup {None},
                    addr : Addr \cup {None}]
      /\ ClientGoesFirst /\ LocksMatchThreads /\ UniqueByAddress
      /\ MainCarriesValid
  BY NmServerAssumption DEF IInv, TypeOK, ThreadsCarryValid
<1>2. ASSUME acc'["L"].pc = "gdel"
      PROVE  GetNode("L", AddrOf[acc["L"].cur])' = {}
  <2>1. CASE acc["L"].pc = "gdel" /\ acc'["L"] = acc["L"]
    <3>1. Clients("L")' \subseteq Clients("L")
      BY <2>1, ClientsStep DEF AddNode, AccAt, Svc
    <3> QED
      BY <1>1, <2>1, <3>1 DEF ClientGoesFirst, GetNode
  <2>2. CASE DelNode("L")
    <3>1. acc'["L"].cur = acc["L"].cur
      BY <1>1, <2>2 DEF DelNode, AccGo, Svc
    <3>2. GetNode("L", AddrOf[acc["L"].cur])' = GetNode("L", AddrOf[acc["L"].cur])'
      OBVIOUS
    <3> QED
      BY <2>2, <3>1 DEF DelNode, Release, GetNode, Clients
  <2>3. CASE LProc \/ Main \/ Boards \/ Tick
    BY <1>2, <2>1, <2>3, PeersKept
  <2>4. CASE Acceptor("R")
    <3>1. acc'["L"] = acc["L"]
      BY <1>1, <2>4 DEF Acceptor, Accept, CheckPeer, AddNode, InsertNull,
            CheckBegin, DelNode, DelEntry, CheckEnd, AccGo, Svc
    <3> QED
      BY <1>2, <2>1, <3>1
  <2>5. CASE Acceptor("L") /\ ~DelNode("L")
    <3>1. acc'["L"].pc # "gdel"
      BY <1>1, <2>5 DEF Acceptor, Accept, CheckPeer, AddNode, InsertNull,
            CheckBegin, DelEntry, CheckEnd, AccGo, Svc
    <3> QED
      BY <1>2, <3>1
  <2> QED
    BY <2>2, <2>3, <2>4, <2>5 DEF Next, Threads, Svc
<1>3. ASSUME mainT'.pc = "cmddel"
      PROVE  GetNode("L", AddrOf[mainT.cur])' = {}
  <2>1. CASE mainT.pc = "cmddel" /\ mainT' = mainT
    <3>1. ctrlLock["L"] = "main" /\ None # "main"
      BY <1>1, <2>1 DEF LocksMatchThreads, MainCarriesValid, Svc, Thread
    <3>2. Clients("L")' \subseteq Clients("L")
      BY <3>1, ClientsStep DEF Svc
    <3> QED
      BY <1>1, <2>1, <3>2 DEF ClientGoesFirst, GetNode
  <2>2. ASSUME NEW n \in Conn, MExpireNode(n)
        PROVE  GetNode("L", AddrOf[mainT.cur])' = {}
    <3>1. mainT'.cur = n /\ mainT.svc = "L"
      BY <1>1, <1>3, <2>2 DEF MExpireNode
    <3>2. n \in Clients("L")
      BY <1>1, <2>2, <3>1 DEF MExpireNode, MainCarriesValid
    <3>3. nodes' = nodes \ {n}
      BY <2>2 DEF MExpireNode, Release
    <3> QED
      BY <1>1, <3>1, <3>2, <3>3 DEF UniqueByAddress, GetNode, Clients, Svc
  <2>3. \/ mainT' = mainT
        \/ \E n \in Conn : MExpireNode(n)
    <3>1. CASE LProc
      BY <3>1 DEF LProc, LRead, LDrop, LData, LReport, LInsert, LUpdate
    <3>2. CASE Boards \/ Tick
      BY <3>2 DEF Boards, Break, BoardSend, Tick, pcs
    <3>3. ASSUME NEW r \in Svc, Acceptor(r)
          PROVE  mainT' = mainT
      BY <3>3 DEF Acceptor, Accept, CheckPeer, AddNode, InsertNull, CheckBegin,
                  DelNode, DelEntry, CheckEnd
    <3>4. CASE MTimers \/ MQuery
      <4>1. mainT'.pc # "cmddel"
        BY <1>1, <3>4 DEF MTimers, MainGo, MQuery
      <4> QED
        BY <1>3, <4>1
    <3>8. CASE MNoCmd \/ MWrite
      <4>1. mainT'.pc # "cmddel"
        BY <3>8 DEF MNoCmd, MWrite, MainIdle
      <4> QED
        BY <1>3, <4>1
    <3>5. CASE MGetCmd \/ MReleaseBegin \/ MReleaseEnd
      <4>1. mainT'.pc # "cmddel"
        BY <1>1, <3>5 DEF MGetCmd, MReleaseBegin, MReleaseEnd
      <4> QED
        BY <1>3, <4>1
    <3>6. CASE MDelEntry \/ \E n \in Conn : MKeepNode(n)
      <4>1. mainT'.pc # "cmddel"
        BY <1>1, <3>6 DEF MDelEntry, MKeepNode
      <4> QED
        BY <1>3, <4>1
    <3>7. CASE \E k \in DOMAIN cmds : MCmdDel(k)
      BY <3>7 DEF MCmdDel, pcs
    <3> QED
      BY <3>1, <3>2, <3>3, <3>4, <3>5, <3>6, <3>7, <3>8
         DEF Next, Threads, Main
  <2> QED
    BY <1>3, <2>1, <2>2, <2>3
<1> QED
  BY <1>2, <1>3 DEF ClientGoesFirst

(* A registered client stays listed: only disccb and the time-out delete   *)
(* its entry, and both delete the client first.                            *)
LEMMA RegisteredStep ==
  ASSUME IInv, Next
  PROVE  RegisteredIsListed'
<1>1. /\ acc \in [Svc -> AccState]
      /\ RegisteredIsListed /\ ClientGoesFirst /\ MainCarriesValid
      /\ AccCarriesValid("L")
  BY DEF IInv, TypeOK, ThreadsCarryValid, Svc
<1>2. SUFFICES ASSUME NEW n \in Clients("L")'
               PROVE  \/ \E e \in Entries(glb') : e.addr = AddrOf[n]
                      \/ acc'["L"].pc = "insert"
                         /\ AddrOf[acc'["L"].cur] = AddrOf[n]
  BY DEF RegisteredIsListed, At, Entries
<1>3. CASE n \notin Clients("L")
  <2>1. AddNode("L") /\ n = acc["L"].cur
    BY <1>2, <1>3, ClientsStep DEF Svc
  <2>2. acc'["L"] = [pc |-> "insert", cur |-> n, todo |-> {}]
    BY <1>1, <2>1 DEF AddNode, AccGo, Svc
  <2> QED
    BY <2>2
<1>4. CASE n \in Clients("L") /\ acc["L"].pc = "insert"
           /\ AddrOf[acc["L"].cur] = AddrOf[n]
  <2>1. CASE Acceptor("L")
    <3>1. InsertNull("L")
      BY <1>4, <2>1 DEF Acceptor, Accept, CheckPeer, AddNode, CheckBegin,
            DelNode, DelEntry, CheckEnd, AccAt
    <3> QED
      BY <1>4, <3>1, TableStep
  <2>2. CASE Acceptor("R")
    <3>1. acc'["L"] = acc["L"]
      BY <1>1, <2>2 DEF Acceptor, Accept, CheckPeer, AddNode, InsertNull,
            CheckBegin, DelNode, DelEntry, CheckEnd, AccGo, Svc
    <3> QED
      BY <1>4, <3>1
  <2>3. CASE LProc \/ Main \/ Boards \/ Tick
    BY <1>4, <2>3, PeersKept
  <2> QED
    BY <2>1, <2>2, <2>3 DEF Next, Threads, Svc
<1>5. CASE n \in Clients("L") /\ \E e \in Entries(glb) : e.addr = AddrOf[n]
  <2>1. ASSUME NEW c \in Conn, \/ DelEntry("L") /\ c = acc["L"].cur
                               \/ MDelEntry /\ c = mainT.cur
        PROVE  AddrOf[c] # AddrOf[n]
    <3>1. \/ acc["L"].pc = "gdel" /\ c = acc["L"].cur
          \/ mainT.pc = "cmddel" /\ c = mainT.cur
      BY <2>1 DEF DelEntry, MDelEntry, AccAt
    <3> QED
      BY <1>1, <1>5, <3>1 DEF ClientGoesFirst, GetNode
  <2>2. PICK e \in Entries(glb) : e.addr = AddrOf[n]
    BY <1>5
  <2>3. \/ e \in Entries(glb')
        \/ \E f \in Entries(glb') : f.addr = e.addr
    BY <2>1, <2>2, TableStep
  <2> QED
    BY <2>2, <2>3
<1>6. CASE n \in Clients("L")
  BY <1>1, <1>4, <1>5, <1>6 DEF RegisteredIsListed, At, Entries
<1> QED
  BY <1>3, <1>6

(* Board information without a client is information being deleted.        *)
LEMMA ReportHasClientStep ==
  ASSUME IInv, Next
  PROVE  ReportHasClient'
<1>1. /\ acc \in [Svc -> AccState]
      /\ mainT \in [pc : {"loop", "query", "release", "expire", "cmddel",
                          "send", "write"},
                    svc : Svc, todo : SUBSET Conn, cur : Conn \cup {None},
                    addr : Addr \cup {None}]
      /\ ReportHasClient /\ LProcCarriesValid /\ nodes \subseteq Conn
      /\ AccCarriesValid("L") /\ None \notin Conn
  BY NmServerAssumption DEF IInv, TypeOK, ThreadsCarryValid, Svc
<1>2. SUFFICES ASSUME NEW e \in Entries(glb'), e.bdi = "set"
               PROVE  \/ GetNode("L", e.addr)' # {}
                      \/ Leaving("L", {"gdel"}, e.addr)'
                      \/ mainT'.pc = "cmddel" /\ AddrOf[mainT'.cur] = e.addr
  BY DEF ReportHasClient, Entries
<1> DEFINE a == e.addr
           Goal == \/ GetNode("L", a)' # {}
                   \/ Leaving("L", {"gdel"}, a)'
                   \/ mainT'.pc = "cmddel" /\ AddrOf[mainT'.cur] = a
<1>3. ASSUME NEW n \in GetNode("L", a)
      PROVE  Goal
  <2>1. n \in Clients("L") /\ AddrOf[n] = a /\ n \in Conn
    BY <1>1 DEF GetNode, Clients
  <2>2. CASE n \in Clients("L")'
    BY <2>1, <2>2 DEF GetNode
  <2>3. CASE DelNode("L") /\ n \in GetNode("L", AddrOf[acc["L"].cur])
    <3>1. acc'["L"] = [pc |-> "gdel", cur |-> acc["L"].cur,
                       todo |-> acc["L"].todo]
      BY <1>1, <2>3 DEF DelNode, AccGo, Svc
    <3>2. acc["L"].cur # None /\ AddrOf[acc["L"].cur] = a
      BY <1>1, <2>1, <2>3 DEF DelNode, AccAt, AccCarriesValid, GetNode
    <3> QED
      BY <3>1, <3>2 DEF Leaving
  <2>4. CASE MExpireNode(n) /\ mainT.svc = "L"
    <3>1. mainT'.pc = "cmddel" /\ mainT'.cur = n
      BY <1>1, <2>4 DEF MExpireNode
    <3> QED
      BY <2>1, <3>1
  <2> QED
    BY <2>1, <2>2, <2>3, <2>4, ClientsStep DEF Svc
<1>4. CASE mainT.pc = "cmddel" /\ AddrOf[mainT.cur] = a
  <2>1. CASE MDelEntry
    BY <1>2, <1>4, <2>1, TableStep
  <2>2. mainT' = mainT \/ MDelEntry
    <3>1. CASE LProc
      BY <3>1 DEF LProc, LRead, LDrop, LData, LReport, LInsert, LUpdate
    <3>2. CASE Boards \/ Tick
      BY <3>2 DEF Boards, Break, BoardSend, Tick, pcs
    <3>3. ASSUME NEW r \in Svc, Acceptor(r)
          PROVE  mainT' = mainT
      BY <3>3 DEF Acceptor, Accept, CheckPeer, AddNode, InsertNull, CheckBegin,
                  DelNode, DelEntry, CheckEnd
    <3>4. CASE Main
      BY <1>4, <3>4 DEF Main, MTimers, MQuery, MReleaseBegin, MKeepNode,
            MExpireNode, MCmdDel, MReleaseEnd, MGetCmd, MNoCmd, MWrite, pcs
    <3> QED
      BY <3>1, <3>2, <3>3, <3>4 DEF Next, Threads
  <2> QED
    BY <1>4, <2>1, <2>2
<1>5. CASE Leaving("L", {"gdel"}, a)
  BY <1>2, <1>5, PresenceStep DEF Svc
<1>6. CASE e \in Entries(glb)
  BY <1>1, <1>2, <1>3, <1>4, <1>5, <1>6 DEF ReportHasClient, Entries
<1>7. CASE e \notin Entries(glb)
  <2>1. LInsert /\ a = lproc.addr
    BY <1>2, <1>7, TableStep
  <2>2. lproc.node \in GetNode("L", a)
    BY <1>1, <2>1 DEF LInsert, LProcCarriesValid
  <2> QED
    BY <1>3, <2>2
<1> QED
  BY <1>6, <1>7

(* An open component of a client that stays linked stays open.             *)
LEMMA CompStep ==
  ASSUME IInv, Next, NEW n \in Conn, n \in nodes', n \in nodes
  PROVE  /\ comp[n] = "open" => comp'[n] = "open"
         /\ LUpdate /\ lproc.node = n => comp'[n] = "open"
<1>1. comp \in [Conn -> {"none", "ctl", "open"}] /\ MainCarriesValid
  BY DEF IInv, TypeOK, ThreadsCarryValid
<1>2. LUpdate /\ lproc.node = n => comp'[n] = "open"
  BY <1>1 DEF LUpdate
<1>3. ASSUME comp[n] = "open"
      PROVE  comp'[n] = "open"
  <2>1. CASE UNCHANGED comp
    BY <1>3, <2>1
  <2>2. CASE LUpdate
    BY <1>1, <1>3, <2>2 DEF LUpdate
  <2>3. ASSUME NEW m \in Conn, LData(m) \/ LReport(m)
        PROVE  comp'[n] = "open"
    <3>1. comp' = [comp EXCEPT ![m] = IF @ = "none" THEN "ctl" ELSE @]
      BY <2>3 DEF LData, LReport
    <3> QED
      BY <1>1, <1>3, <3>1
  <2>4. ASSUME NEW N, Release(N)
        PROVE  comp'[n] = "open"
    BY <1>3, <2>4 DEF Release
  <2>5. CASE LProc
    BY <2>1, <2>2, <2>3, <2>5 DEF LProc, LRead, LDrop, LInsert, reg
  <2>6. CASE Main
    <3>1. ASSUME NEW m \in Conn, MExpireNode(m)
          PROVE  comp'[n] = "open"
      BY <2>4, <3>1 DEF MExpireNode
    <3>2. UNCHANGED comp \/ \E m \in Conn : MExpireNode(m)
      BY <2>6 DEF Main, MTimers, MQuery, MReleaseBegin, MKeepNode, MCmdDel,
            MDelEntry, MReleaseEnd, MGetCmd, MNoCmd, MWrite, reg
    <3> QED
      BY <2>1, <3>1, <3>2
  <2>7. CASE Boards \/ Tick
    BY <2>1, <2>7 DEF Boards, Break, BoardSend, Tick, reg
  <2>8. ASSUME NEW r \in Svc, Acceptor(r)
        PROVE  comp'[n] = "open"
    <3>1. UNCHANGED comp \/ DelNode(r)
      BY <2>8 DEF Acceptor, Accept, CheckPeer, AddNode, InsertNull, CheckBegin,
                  DelEntry, CheckEnd, reg
    <3>2. ASSUME DelNode(r)
          PROVE  comp'[n] = "open"
      BY <2>4, <3>2 DEF DelNode
    <3> QED
      BY <2>1, <3>1, <3>2
  <2> QED
    BY <2>5, <2>6, <2>7, <2>8 DEF Next, Threads
<1> QED
  BY <1>2, <1>3

(* A client whose information is shown is served.                          *)
LEMMA ServedStep ==
  ASSUME IInv, Next
  PROVE  ReportedIsServed'
<1>1. /\ acc \in [Svc -> AccState]
      /\ lproc \in [pc : {"idle", "got", "insert", "update"},
                    addr : Addr \cup {None}, msg : Msg \cup {None},
                    node : Conn \cup {None}]
      /\ ReportedIsServed /\ LProcCarriesValid /\ ReportHasClient
      /\ AccCarriesValid("L") /\ None \notin Thread /\ nodes \subseteq Conn
      /\ MainCarriesValid /\ LocksMatchThreads /\ UniqueByAddress
  BY NmServerAssumption DEF IInv, TypeOK, ThreadsCarryValid, Svc
<1>2. SUFFICES ASSUME NEW n \in Clients("L")', NEW e \in Entries(glb'),
                      e.addr = AddrOf[n], e.bdi = "set"
               PROVE  \/ comp'[n] = "open"
                      \/ lproc'.pc = "update" /\ lproc'.node = n
  BY DEF ReportedIsServed, Entries
<1>3. n \in nodes'
  BY <1>2 DEF Clients
<1>4. CASE n \notin Clients("L")
  <2>1. /\ AddNode("L") /\ ctrlLock["L"] = None /\ n = acc["L"].cur
        /\ GetNode("L", AddrOf[n]) = {}
    BY <1>2, <1>4, ClientsStep DEF Svc
  <2>2. e \in Entries(glb)
    BY <1>2, <2>1 DEF AddNode
  <2>3. ~Leaving("L", {"gdel"}, e.addr)
    BY <2>1 DEF Leaving, AddNode, AccAt
  <2>4. mainT.pc # "cmddel"
    BY <1>1, <2>1 DEF LocksMatchThreads, MainCarriesValid, Svc, Thread
  <2> QED
    BY <1>1, <1>2, <2>1, <2>2, <2>3, <2>4 DEF ReportHasClient, Entries
<1>5. CASE n \in Clients("L") /\ e \notin Entries(glb)
  <2>1. LInsert /\ e.addr = lproc.addr
    BY <1>2, <1>5, TableStep
  <2>2. lproc.node \in GetNode("L", lproc.addr)
    BY <1>1, <2>1 DEF LInsert, LProcCarriesValid
  <2>3. lproc.node = n
    BY <1>1, <1>2, <1>5, <2>1, <2>2 DEF GetNode, UniqueByAddress, Svc
  <2>4. lproc'.pc = "update" /\ lproc'.node = lproc.node
    BY <1>1, <2>1 DEF LInsert
  <2> QED
    BY <2>3, <2>4
<1>6. CASE n \in Clients("L") /\ e \in Entries(glb)
  <2>1. n \in nodes /\ n \in Conn
    BY <1>1, <1>6 DEF Clients
  <2>2. comp[n] = "open" \/ (lproc.pc = "update" /\ lproc.node = n)
    BY <1>1, <1>2, <1>6 DEF ReportedIsServed, Entries
  <2>3. CASE comp[n] = "open"
    BY <1>3, <2>1, <2>3, CompStep
  <2>4. CASE lproc.pc = "update" /\ lproc.node = n
    <3>1. lproc' = lproc \/ LUpdate
      <4>1. CASE LProc
        BY <2>4, <4>1 DEF LProc, LRead, LDrop, LData, LReport, LInsert
      <4>2. CASE Main
        BY <4>2 DEF Main, MTimers, MQuery, MReleaseBegin, MKeepNode, MExpireNode,
              MCmdDel, MDelEntry, MReleaseEnd, MGetCmd, MNoCmd, MWrite, pcs
      <4>3. CASE Boards \/ Tick
        BY <4>3 DEF Boards, Break, BoardSend, Tick, pcs
      <4>4. ASSUME NEW r \in Svc, Acceptor(r)
            PROVE  lproc' = lproc
        BY <4>4 DEF Acceptor, Accept, CheckPeer, AddNode, InsertNull, CheckBegin,
                    DelNode, DelEntry, CheckEnd
      <4> QED
        BY <4>1, <4>2, <4>3, <4>4 DEF Next, Threads
    <3> QED
      BY <1>3, <2>1, <2>4, <3>1, CompStep
  <2> QED
    BY <2>2, <2>3, <2>4
<1> QED
  BY <1>4, <1>5, <1>6

-----------------------------------------------------------------------------
(* The invariant. *)

(* The server starts with no client, no entry, and every lock free.        *)
LEMMA InitIInv ==
  ASSUME Init
  PROVE  IInv
<1> USE DEF Init, AccIdle, LIdle, MainIdle
<1>1. /\ None \notin Conn \cup Addr \cup Thread
      /\ Interval \in Nat /\ MaxAge \in Nat
  BY NmServerAssumption DEF MaxAge
<1>2. TypeOK
  <2>1. acc \in [Svc -> AccState]
    BY DEF AccState
  <2>2. link \in [Conn -> {"new", "up", "err", "gone"}] /\ asked \in [Conn -> BOOLEAN]
    OBVIOUS
  <2>3. rq \in [Conn -> Seq(Msg)] /\ glb \in Seq(Entry) /\ cmds \in Seq(Addr)
    <3>1. ASSUME NEW S
          PROVE  <<>> \in Seq(S)
      OBVIOUS
    <3> QED
      BY <3>1
  <2>4. age \in [Conn -> 0 .. MaxAge] /\ elapsed \in 0 .. Interval
    BY <1>1
  <2> QED
    BY <2>1, <2>2, <2>3, <2>4 DEF TypeOK, Svc
<1>3. LocksMatchThreads
  BY <1>1 DEF LocksMatchThreads, Thread, Svc
<1>4. ThreadsCarryValid
  BY DEF ThreadsCarryValid, AccCarriesValid, LProcCarriesValid, MainCarriesValid, Svc
<1>5. DOMAIN glb = {} /\ Clients("L") = {} /\ Clients("R") = {}
  BY DEF Clients
<1>6. ClientHasPeer /\ NoGhostBoard /\ RegisteredIsListed /\ ReportHasClient
        /\ ReportedIsServed
  BY <1>5 DEF ClientHasPeer, NoGhostBoard, RegisteredIsListed, ReportHasClient,
              ReportedIsServed
<1>7. UniqueByAddress
  BY <1>5 DEF UniqueByAddress, Svc
<1>8. ClientGoesFirst
  BY DEF ClientGoesFirst, Svc
<1> QED
  BY <1>2, <1>3, <1>4, <1>6, <1>7, <1>8 DEF IInv

(* A stuttering step.                                                      *)
LEMMA StutterIInv ==
  ASSUME IInv, UNCHANGED vars
  PROVE  IInv'
<1> USE DEF vars
<1>1. TypeOK' /\ LocksMatchThreads'
  BY DEF IInv, TypeOK, LocksMatchThreads
<1>2. ThreadsCarryValid'
  BY DEF IInv, ThreadsCarryValid, AccCarriesValid, LProcCarriesValid,
         MainCarriesValid, Peers, GetNode, Clients
<1>3. ClientHasPeer' /\ NoGhostBoard'
  BY DEF IInv, ClientHasPeer, NoGhostBoard, HasPeer, Leaving, Peers
<1>4. UniqueByAddress' /\ RegisteredIsListed' /\ ClientGoesFirst'
  BY DEF IInv, UniqueByAddress, RegisteredIsListed, ClientGoesFirst, GetNode,
         Clients, At
<1>5. ReportHasClient' /\ ReportedIsServed'
  BY DEF IInv, ReportHasClient, ReportedIsServed, GetNode, Clients, Leaving
<1> QED
  BY <1>1, <1>2, <1>3, <1>4, <1>5 DEF IInv

(* Every step of the server keeps IInv.                                    *)
LEMMA StepIInv ==
  ASSUME IInv, Next
  PROVE  IInv'
BY TypeStep, LocksStep, CarryStep, ClientHasPeerStep, NoGhostStep, UniqueStep,
   RegisteredStep, ClientGoesFirstStep, ReportHasClientStep, ServedStep DEF IInv

(* IInv is inductive: every state the server reaches satisfies it.         *)
THEOREM Invariance == Spec => []IInv
<1>1. Init => IInv
  BY InitIInv
<1>2. IInv /\ [Next]_vars => IInv'
  BY StepIInv, StutterIInv
<1> QED
  BY <1>1, <1>2, PTL DEF Spec

-----------------------------------------------------------------------------
(* The properties. *)

(* The variables always have their types.                                  *)
THEOREM TypeCorrect == Spec => []TypeOK
<1>1. IInv => TypeOK
  BY DEF IInv
<1> QED
  BY <1>1, Invariance, PTL

(* A board whose connection was released is never left in the table.       *)
THEOREM GhostFree == Spec => []NoGhostBoard
<1>1. IInv => NoGhostBoard
  BY DEF IInv
<1> QED
  BY <1>1, Invariance, PTL

(* An address never has two clients of a service or two entries.           *)
THEOREM AddressesUnique == Spec => []UniqueByAddress
<1>1. IInv => UniqueByAddress
  BY DEF IInv
<1> QED
  BY <1>1, Invariance, PTL

(* A registered board is visible, but for the gap inside conncb.           *)
THEOREM RegisteredListed == Spec => []RegisteredIsListed
<1>1. IInv => RegisteredIsListed
  BY DEF IInv
<1> QED
  BY <1>1, Invariance, PTL

(* A registered board shown with its information has its components open.  *)
THEOREM ReportedServed == Spec => []ReportedIsServed
<1>1. IInv => ReportedIsServed
  BY DEF IInv
<1> QED
  BY <1>1, Invariance, PTL

(* The holder of a ctrl->lock waits for no lock, and the holder of a       *)
(* svc->lock at most for a ctrl->lock: no group of threads is stuck.       *)
THEOREM DeadlockFree == Spec => []NoCircularWait
<1>1. IInv => NoCircularWait
  <2> SUFFICES ASSUME IInv, NEW T \in (SUBSET Thread) \ {{}},
                      \A t \in T : Holder(Wants(t)) \in T
               PROVE  FALSE
    BY DEF NoCircularWait
  <2>1. /\ LocksMatchThreads /\ None \notin Thread /\ None \notin T
        /\ mainT.svc \in Svc
    BY NmServerAssumption DEF IInv, TypeOK
  <2>2. "lproc" \notin T \/ lproc.pc \notin {"insert", "update"}
    <3> SUFFICES ASSUME "lproc" \in T, lproc.pc \in {"insert", "update"}
                 PROVE  FALSE
      OBVIOUS
    <3>1. Wants("lproc") = <<>>
      BY DEF Wants
    <3> QED
      BY <2>1, <3>1 DEF Holder
  <2>3. "main" \notin T \/ mainT.pc \notin {"expire", "cmddel"}
    <3> SUFFICES ASSUME "main" \in T, mainT.pc \in {"expire", "cmddel"}
                 PROVE  FALSE
      OBVIOUS
    <3>1. Wants("main") = <<>>
      BY DEF Wants
    <3> QED
      BY <2>1, <3>1 DEF Holder
  <2>4. \A s \in Svc : ctrlLock[s] \notin T
    BY <2>1, <2>2, <2>3 DEF LocksMatchThreads
  <2>5. ASSUME NEW s \in Svc, AccOf[s] \in T
        PROVE  acc[s].pc \notin {"scan", "del", "gdel"}
    <3>1. CASE acc[s].pc \in {"scan", "gdel"}
      <4>1. Wants(AccOf[s]) = <<>>
        BY <3>1 DEF Wants, AccOf, Svc
      <4> QED
        BY <2>1, <2>5, <4>1 DEF Holder
    <3>2. CASE acc[s].pc = "del"
      <4>1. Wants(AccOf[s]) = <<"ctrl", s>>
        BY <3>2 DEF Wants, AccOf, Svc
      <4>2. Holder(Wants(AccOf[s])) = ctrlLock[s]
        BY <4>1 DEF Holder
      <4> QED
        BY <2>4, <2>5, <4>2
    <3> QED
      BY <3>1, <3>2
  <2>6. \A s \in Svc : svcLock[s] \notin T
    BY <2>1, <2>5 DEF LocksMatchThreads
  <2>7. PICK t \in T : TRUE
    OBVIOUS
  <2>8. \/ Wants(t) = <<>>
        \/ \E s \in Svc : Wants(t) = <<"svc", s>> \/ Wants(t) = <<"ctrl", s>>
    BY <2>1 DEF Wants, Svc
  <2>9. Holder(Wants(t)) \notin T
    <3>1. CASE Wants(t) = <<>>
      BY <2>1, <3>1 DEF Holder
    <3>2. ASSUME NEW s \in Svc, Wants(t) = <<"svc", s>>
          PROVE  Holder(Wants(t)) \notin T
      BY <2>6, <3>2 DEF Holder
    <3>3. ASSUME NEW s \in Svc, Wants(t) = <<"ctrl", s>>
          PROVE  Holder(Wants(t)) \notin T
      BY <2>4, <3>3 DEF Holder
    <3> QED
      BY <2>8, <3>1, <3>2, <3>3
  <2> QED
    BY <2>9
<1> QED
  BY <1>1, Invariance, PTL

(* Reported information is only lost with its entry.                       *)
THEOREM ReportsKept == Spec => ReportKept
<1> DEFINE Kept == \A i \in DOMAIN glb :
                     glb[i].bdi = "set" =>
                       \A j \in DOMAIN glb' :
                         glb'[j].addr = glb[i].addr => glb'[j].bdi = "set"
<1>1. IInv /\ [Next]_vars => Kept
  <2>1. ASSUME IInv, Next, NEW e \in Entries(glb), NEW f \in Entries(glb'),
               e.bdi = "set", f.addr = e.addr
        PROVE  f.bdi = "set"
    <3>1. \A g \in Entries(glb) : g.addr = e.addr => g = e
      BY <2>1 DEF IInv, UniqueByAddress, Entries
    <3>2. \A g \in Entries(glb') : g.addr = f.addr => g = f
      BY TableStep, <2>1 DEF Unique, Entries
    <3>3. CASE f \in Entries(glb)
      BY <2>1, <3>1, <3>3
    <3>4. CASE f \notin Entries(glb)
      <4>1. PICK b \in {"unset", "set"}, a \in Addr :
              /\ \A g \in Entries(glb') :
                   g \in Entries(glb) \/ g = [addr |-> a, bdi |-> b]
              /\ \A g \in Entries(glb) :
                   g.addr # a \/ b = "unset" => g \in Entries(glb')
        BY <2>1, <3>4, TableStep
      <4>2. f = [addr |-> a, bdi |-> b]
        BY <3>4, <4>1
      <4>3. CASE b = "unset"
        BY <2>1, <3>2, <4>1, <4>3
      <4> QED
        BY <4>2, <4>3
    <3> QED
      BY <3>3, <3>4
  <2>2. ASSUME UNCHANGED vars, IInv
        PROVE  Kept
    BY <2>2 DEF vars, IInv, UniqueByAddress
  <2> QED
    BY <2>1, <2>2 DEF Entries
<1>2. Spec => [][Kept]_vars
  BY <1>1, Invariance, PTL DEF Spec
<1> QED
  BY <1>2 DEF ReportKept

-----------------------------------------------------------------------------
(* Timed behaviours: a board that answers is never timed out. *)

(* A timed step is a step of the server.                                   *)
LEMMA TimedIsNext ==
  ASSUME TimedSetting, TimedNext
  PROVE  Next
BY DEF TimedSetting, TimedNext, Next, Boards, Answer

(* nmclient_cmd_del of one command leaves the commands of other addresses. *)
LEMMA WithoutKeeps ==
  ASSUME NEW q \in Seq(Addr), NEW k \in DOMAIN q, NEW a, q[k] # a,
         NEW j \in DOMAIN q, q[j] = a
  PROVE  \E i \in DOMAIN Without(q, k) : Without(q, k)[i] = a
<1>1. j # k /\ j \in 1 .. Len(q) /\ k \in 1 .. Len(q) /\ Len(q) \in Nat
  OBVIOUS
<1>2. CASE j < k
  <2>1. j \in 1 .. Len(q) - 1
    BY <1>1, <1>2
  <2> QED
    BY <1>2, <2>1 DEF Without
<1>3. CASE j > k
  <2>1. j - 1 \in 1 .. Len(q) - 1 /\ ~(j - 1 < k) /\ (j - 1) + 1 = j
    BY <1>1, <1>3
  <2> QED
    BY <2>1 DEF Without
<1> QED
  BY <1>1, <1>2, <1>3

(* Boards only answer queries, so the queues hold reports and nothing else.*)
LEMMA OnlyReportsStep ==
  ASSUME IInv, TimedInv, TimedNext
  PROVE  OnlyReports'
<1> USE DEF env, pcs, reg, lks
<1>1. /\ rq \in [Conn -> Seq({"bdinfo"})]
      /\ lproc.pc = "got" => lproc.msg = "bdinfo"
  BY DEF TimedInv, OnlyReports
<1>2. lproc \in [pc : {"idle", "got", "insert", "update"},
                 addr : Addr \cup {None}, msg : Msg \cup {None},
                 node : Conn \cup {None}]
  BY DEF IInv, TypeOK
<1>3. CASE UNCHANGED <<rq, lproc>>
  BY <1>1, <1>3 DEF OnlyReports
<1>4. ASSUME NEW c \in Conn, LRead(c)
      PROVE  OnlyReports'
  <2>1. rq[c] \in Seq({"bdinfo"}) /\ rq[c] # <<>>
    BY <1>1, <1>4 DEF LRead
  <2>2. Head(rq[c]) = "bdinfo" /\ Tail(rq[c]) \in Seq({"bdinfo"})
    BY <2>1
  <2>3. rq' \in [Conn -> Seq({"bdinfo"})]
    BY <1>1, <1>4, <2>2 DEF LRead
  <2>4. lproc'.msg = "bdinfo"
    BY <1>2, <1>4, <2>2 DEF LRead
  <2> QED
    BY <2>3, <2>4 DEF OnlyReports
<1>5. CASE /\ rq' = rq
           /\ lproc'.pc # "got"
  BY <1>1, <1>5 DEF OnlyReports
<1>6. ASSUME NEW c \in Conn, Answer(c)
      PROVE  OnlyReports'
  <2>1. Append(rq[c], "bdinfo") \in Seq({"bdinfo"})
    BY <1>1
  <2> QED
    BY <1>1, <1>6, <2>1 DEF Answer, BoardSend, OnlyReports
<1>7. ASSUME NEW s \in Svc, NEW c \in Conn, CheckPeer(s, c)
      PROVE  OnlyReports'
  <2>1. lproc' = lproc /\ (rq' = rq \/ rq' = [rq EXCEPT ![c] = <<>>])
    BY <1>7 DEF CheckPeer
  <2>2. \A q \in Seq({"bdinfo"}) :
          [rq EXCEPT ![c] = q] \in [Conn -> Seq({"bdinfo"})]
    BY <1>1
  <2>3. <<>> \in Seq({"bdinfo"})
    OBVIOUS
  <2> QED
    BY <1>1, <2>1, <2>2, <2>3 DEF OnlyReports
<1>8. ASSUME NEW c \in Conn, Break(c)
      PROVE  UNCHANGED <<rq, lproc>>
  BY <1>8 DEF Break
<1>9. CASE Quiet /\ Tick
  BY <1>3, <1>9 DEF Tick
<1>10. CASE Main
  BY <1>3, <1>10 DEF Main, MTimers, MQuery, MKeepNode, MExpireNode,
     MReleaseBegin, MDelEntry, MReleaseEnd, MCmdDel, MGetCmd, MNoCmd, MWrite
<1>11. ASSUME NEW s \in Svc, Acceptor(s)
       PROVE  OnlyReports'
  <2>1. \/ \E c \in Conn : CheckPeer(s, c)
        \/ UNCHANGED <<rq, lproc>>
    BY <1>11 DEF Acceptor, Accept, AddNode, InsertNull, CheckBegin, DelNode,
       DelEntry, CheckEnd
  <2> QED
    BY <1>3, <1>7, <2>1
<1>12. CASE LProc
  <2>1. \/ \E c \in Conn : LRead(c)
        \/ rq' = rq /\ lproc'.pc # "got"
    <3>1. ASSUME NEW n \in Conn, LReport(n)
          PROVE  rq' = rq /\ lproc'.pc # "got"
      BY <1>2, <3>1 DEF LReport
    <3>2. CASE LInsert
      BY <1>2, <3>2 DEF LInsert
    <3> QED
      BY <1>12, <3>1, <3>2 DEF LProc, LData, LDrop, LUpdate, LIdle
  <2> QED
    BY <1>4, <1>5, <2>1
<1> QED
  BY <1>3, <1>6, <1>8, <1>9, <1>10, <1>11, <1>12 DEF TimedNext, Threads

(* disccb runs for a peer that ssock_check has unlinked.                   *)
LEMMA DeletedStep ==
  ASSUME IInv, TimedInv, TimedNext
  PROVE  DeletedIsReleased'
<1> USE DEF env, pcs, reg, lks
<1> SUFFICES ASSUME NEW s \in Svc, acc'[s].pc = "del"
             PROVE  link'[acc'[s].cur] = "gone"
  BY DEF DeletedIsReleased
<1>1. /\ link \in [Conn -> {"new", "up", "err", "gone"}]
      /\ acc \in [Svc -> AccState]
      /\ acc[s].pc = "del" => acc[s].cur \in Conn /\ link[acc[s].cur] = "gone"
  BY DEF IInv, TypeOK, ThreadsCarryValid, AccCarriesValid, TimedInv,
     DeletedIsReleased
<1>2. CASE acc' = acc /\ link' = link
  BY <1>1, <1>2
<1>3. ASSUME NEW c \in Conn, Break(c)
      PROVE  link'[acc'[s].cur] = "gone"
  BY <1>1, <1>3 DEF Break
<1>4. ASSUME NEW r \in Svc, NEW c \in Conn, Accept(r, c)
      PROVE  link'[acc'[s].cur] = "gone"
  <2>1. r # s /\ acc'[s] = acc[s]
    BY <1>1, <1>4 DEF Accept, AccGo
  <2> QED
    BY <1>1, <1>4, <2>1 DEF Accept
<1>5. ASSUME NEW r \in Svc, NEW c \in Conn, CheckPeer(r, c)
      PROVE  link'[acc'[s].cur] = "gone"
  <2>1. CASE r = s
    <3>1. link[c] = "err"
      BY <1>1, <1>5, <2>1 DEF CheckPeer, AccGo
    <3>2. acc'[s].cur = c /\ link' = [link EXCEPT ![c] = "gone"]
      BY <1>1, <1>5, <2>1, <3>1 DEF CheckPeer, AccGo
    <3> QED
      BY <1>1, <3>2
  <2>2. CASE r # s
    <3>1. acc'[s] = acc[s]
      BY <1>1, <1>5, <2>2 DEF CheckPeer, AccGo
    <3>2. link' = link \/ link' = [link EXCEPT ![c] = "gone"]
      BY <1>5 DEF CheckPeer
    <3> QED
      BY <1>1, <3>1, <3>2
  <2> QED
    BY <2>1, <2>2
<1>6. ASSUME NEW r \in Svc,
             \/ AddNode(r) \/ InsertNull(r) \/ CheckBegin(r)
             \/ DelNode(r) \/ DelEntry(r) \/ CheckEnd(r)
      PROVE  link'[acc'[s].cur] = "gone"
  <2>1. link' = link
    BY <1>6 DEF AddNode, InsertNull, CheckBegin, DelNode, DelEntry, CheckEnd
  <2>2. r # s /\ acc'[s] = acc[s]
    BY <1>1, <1>6 DEF AddNode, InsertNull, CheckBegin, DelNode, DelEntry,
       CheckEnd, AccGo
  <2> QED
    BY <1>1, <2>1, <2>2
<1>7. CASE LProc
  BY <1>2, <1>7 DEF LProc, LRead, LData, LReport, LDrop, LInsert, LUpdate
<1>8. CASE Main
  BY <1>2, <1>8 DEF Main, MTimers, MQuery, MKeepNode, MExpireNode,
     MReleaseBegin, MDelEntry, MReleaseEnd, MCmdDel, MGetCmd, MNoCmd, MWrite
<1>9. ASSUME NEW c \in Conn, Answer(c)
      PROVE  link'[acc'[s].cur] = "gone"
  BY <1>2, <1>9 DEF Answer, BoardSend
<1>10. CASE Quiet /\ Tick
  BY <1>2, <1>10 DEF Tick
<1> QED
  BY <1>3, <1>4, <1>5, <1>6, <1>7, <1>8, <1>9, <1>10
     DEF TimedNext, Threads, Acceptor

(* The age of a client that is not linked stays zero.                      *)
LEMMA UnlinkedStep ==
  ASSUME IInv, TimedInv, TimedNext
  PROVE  \A c \in Conn \ nodes' : age'[c] = 0
<1> USE DEF env, pcs, reg, lks
<1> SUFFICES ASSUME NEW c \in Conn, c \notin nodes'
             PROVE  age'[c] = 0
  OBVIOUS
<1>1. /\ c \notin nodes => age[c] = 0
      /\ age \in [Conn -> 0 .. MaxAge]
      /\ nodes \subseteq Conn
  BY DEF TimedInv, IInv, TypeOK
<1>2. CASE nodes \subseteq nodes' /\ age' = age
  BY <1>1, <1>2
<1>3. ASSUME NEW N, Release(N)
      PROVE  age'[c] = 0
  BY <1>1, <1>3 DEF Release
<1>4. CASE LUpdate
  <2>1. age' = [age EXCEPT ![lproc.node] = 0] /\ nodes' = nodes
    BY <1>4 DEF LUpdate
  <2> QED
    BY <1>1, <2>1
<1>5. CASE Quiet /\ Tick
  BY <1>1, <1>5 DEF Tick
<1>6. CASE LProc
  BY <1>2, <1>4, <1>6 DEF LProc, LRead, LData, LReport, LDrop, LInsert
<1>7. CASE Main
  BY <1>2, <1>3, <1>7 DEF Main, MTimers, MQuery, MKeepNode, MExpireNode,
     MReleaseBegin, MDelEntry, MReleaseEnd, MCmdDel, MGetCmd, MNoCmd, MWrite
<1>8. ASSUME NEW s \in Svc, Acceptor(s)
      PROVE  age'[c] = 0
  BY <1>2, <1>3, <1>8 DEF Acceptor, Accept, AddNode, InsertNull, CheckBegin,
     CheckPeer, DelNode, DelEntry, CheckEnd
<1>9. ASSUME NEW d \in Conn, Break(d) \/ Answer(d)
      PROVE  age'[c] = 0
  BY <1>2, <1>9 DEF Break, Answer, BoardSend
<1> QED
  BY <1>5, <1>6, <1>7, <1>8, <1>9 DEF TimedNext, Threads

(* A responsive board whose socket is fresh has no client yet.             *)
LEMMA NewIsUnlinked ==
  ASSUME TimedSetting, IInv, TimedInv, NEW c \in Responsive, link[c] = "new"
  PROVE  c \notin nodes
<1>1. c \in Conn /\ SvcOf[c] = "L"
      /\ \A d \in Conn : SvcOf[d] = "L" /\ AddrOf[d] = AddrOf[c] => d = c
  BY NmServerAssumption DEF TimedSetting
<1>2. ~HasPeer("L", AddrOf[c])
  BY <1>1 DEF HasPeer, Peers
<1>3. ~Leaving("L", {"del"}, AddrOf[c])
  <2> SUFFICES ASSUME acc["L"].pc = "del", AddrOf[acc["L"].cur] = AddrOf[c]
               PROVE  FALSE
    BY DEF Leaving
  <2>1. acc["L"].cur \in Conn /\ SvcOf[acc["L"].cur] = "L"
    BY DEF IInv, ThreadsCarryValid, AccCarriesValid, Svc
  <2>2. acc["L"].cur = c
    BY <1>1, <2>1
  <2> QED
    BY <2>2 DEF TimedInv, DeletedIsReleased, Svc
<1> QED
  BY <1>1, <1>2, <1>3 DEF IInv, ClientHasPeer

(* While a responsive board is linked and up, every step of the threads and*)
(* the network but the timers either sets its age to zero or leaves its age*)
(* and the clock alone and passes its query on: from the command queue to  *)
(* the socket, to the board, back into the receive queue and to the process*)
(* thread, which sets the time.                                            *)
QueryPassedOn(c) ==
  /\ c \in nodes /\ link[c] = "up"
  /\ age'[c] = age[c] /\ elapsed' = elapsed
  /\ Queried(c) => Queried(c)'

(* The accept threads do not touch a query.                                *)
LEMMA AcceptorPasses ==
  ASSUME TimedSetting, IInv, TimedInv, NEW c \in Responsive,
         NEW s \in Svc, Acceptor(s), c \in nodes', link'[c] = "up"
  PROVE  age'[c] = 0 \/ QueryPassedOn(c)
<1> USE DEF env, pcs, reg, lks
<1>1. /\ c \in Conn
      /\ link \in [Conn -> {"new", "up", "err", "gone"}]
      /\ rq \in [Conn -> Seq(Msg)]
      /\ age \in [Conn -> 0 .. MaxAge]
      /\ c \notin nodes => age[c] = 0
  BY NmServerAssumption DEF IInv, TypeOK, TimedInv
<1>2. UNCHANGED <<asked, lproc, mainT, cmds, elapsed>>
  BY DEF Acceptor, Accept, AddNode, InsertNull, CheckBegin, CheckPeer, DelNode,
     DelEntry, CheckEnd
<1>3. ASSUME c \in nodes, link[c] = "up", age'[c] = age[c], rq'[c] = rq[c]
      PROVE  QueryPassedOn(c)
  BY <1>2, <1>3 DEF QueryPassedOn, Queried
<1>4. ASSUME NEW d \in Conn, Accept(s, d)
      PROVE  age'[c] = 0 \/ QueryPassedOn(c)
  <2>1. UNCHANGED <<nodes, age, rq>> /\ link' = [link EXCEPT ![d] = "up"]
    BY <1>4 DEF Accept
  <2>2. CASE d = c
    <3>1. link[c] = "new"
      BY <1>4, <2>2 DEF Accept
    <3> QED
      BY <3>1, <2>1, NewIsUnlinked
  <2>3. CASE d # c
    BY <1>1, <1>3, <2>1, <2>3
  <2> QED
    BY <2>2, <2>3
<1>5. ASSUME NEW d \in Conn, CheckPeer(s, d)
      PROVE  QueryPassedOn(c)
  <2>1. UNCHANGED <<nodes, age>>
    BY <1>5 DEF CheckPeer
  <2>2. link[c] = "up" /\ rq'[c] = rq[c]
    BY <1>1, <1>5 DEF CheckPeer
  <2> QED
    BY <1>3, <2>1, <2>2
<1>6. CASE AddNode(s)
  <2>1. UNCHANGED <<link, rq, age>>
    BY <1>6 DEF AddNode
  <2> QED
    BY <1>1, <1>3, <2>1
<1>7. CASE DelNode(s)
  <2>1. UNCHANGED <<link, rq>>
    BY <1>7 DEF DelNode
  <2>2. c \in nodes /\ age'[c] = age[c]
    BY <1>1, <1>7 DEF DelNode, Release
  <2> QED
    BY <1>3, <2>1, <2>2
<1>8. CASE InsertNull(s) \/ CheckBegin(s) \/ DelEntry(s) \/ CheckEnd(s)
  <2>1. UNCHANGED <<link, rq, nodes, age>>
    BY <1>8 DEF InsertNull, CheckBegin, DelEntry, CheckEnd
  <2> QED
    BY <1>3, <2>1
<1> QED
  BY <1>4, <1>5, <1>6, <1>7, <1>8 DEF Acceptor

(* The process thread reads the answer, finds the client of the board and  *)
(* no other, and sets its time.                                            *)
LEMMA LProcPasses ==
  ASSUME TimedSetting, IInv, TimedInv, NEW c \in Responsive,
         LProc, c \in nodes', link'[c] = "up"
  PROVE  age'[c] = 0 \/ QueryPassedOn(c)
<1> USE DEF env, pcs, reg, lks
<1>1. /\ c \in Conn /\ SvcOf[c] = "L"
      /\ \A d \in Conn : SvcOf[d] = "L" /\ AddrOf[d] = AddrOf[c] => d = c
      /\ rq \in [Conn -> Seq(Msg)]
      /\ age \in [Conn -> 0 .. MaxAge]
      /\ nodes \subseteq Conn
      /\ lproc \in [pc : {"idle", "got", "insert", "update"},
                    addr : Addr \cup {None}, msg : Msg \cup {None},
                    node : Conn \cup {None}]
      /\ lproc.pc = "got" => lproc.msg = "bdinfo"
  BY NmServerAssumption DEF IInv, TypeOK, TimedInv, OnlyReports, TimedSetting
<1>2. /\ UNCHANGED <<link, nodes, asked, mainT, cmds, elapsed>>
      /\ c \in nodes /\ link[c] = "up"
  BY DEF LProc, LRead, LData, LReport, LDrop, LInsert, LUpdate
<1>3. c \in GetNode("L", AddrOf[c])
  BY <1>1, <1>2 DEF GetNode, Clients
<1>4. ASSUME age'[c] = age[c],
             rq[c] # <<>> => Queried(c)',
             lproc.pc # "idle" /\ lproc.addr = AddrOf[c] => Queried(c)'
      PROVE  QueryPassedOn(c)
  <2>1. Queried(c) => Queried(c)'
    BY <1>2, <1>4 DEF Queried
  <2> QED
    BY <1>2, <1>4, <2>1 DEF QueryPassedOn
<1>5. ASSUME NEW d \in Conn, LRead(d)
      PROVE  QueryPassedOn(c)
  <2>1. age' = age /\ lproc.pc = "idle"
    BY <1>5 DEF LRead
  <2>2. CASE d = c
    <3>1. lproc'.pc = "got" /\ lproc'.addr = AddrOf[c]
      BY <1>1, <1>5, <2>2 DEF LRead
    <3> QED
      BY <1>4, <2>1, <3>1 DEF Queried
  <2>3. CASE d # c
    <3>1. rq'[c] = rq[c]
      BY <1>1, <1>5, <2>3 DEF LRead
    <3> QED
      BY <1>4, <2>1, <3>1 DEF Queried
  <2> QED
    BY <2>2, <2>3
<1>6. CASE LDrop
  <2>1. age' = age /\ rq' = rq /\ lproc.addr # AddrOf[c]
    BY <1>3, <1>6 DEF LDrop
  <2> QED
    BY <1>4, <2>1 DEF Queried
<1>7. ASSUME NEW n \in Conn, LReport(n)
      PROVE  QueryPassedOn(c)
  <2>1. age' = age /\ rq' = rq /\ lproc'.pc = "insert" /\ lproc'.addr = lproc.addr
    BY <1>1, <1>7 DEF LReport
  <2> QED
    BY <1>4, <2>1 DEF Queried
<1>8. CASE LInsert
  <2>1. age' = age /\ rq' = rq /\ lproc'.pc = "update" /\ lproc'.addr = lproc.addr
    BY <1>1, <1>8 DEF LInsert
  <2> QED
    BY <1>4, <2>1 DEF Queried
<1>9. CASE LUpdate
  <2>1. lproc.node \in GetNode("L", lproc.addr)
    BY <1>9 DEF LUpdate, IInv, ThreadsCarryValid, LProcCarriesValid
  <2>2. lproc.node \in Conn /\ SvcOf[lproc.node] = "L"
        /\ AddrOf[lproc.node] = lproc.addr
    BY <1>1, <2>1 DEF GetNode, Clients
  <2>3. age' = [age EXCEPT ![lproc.node] = 0] /\ rq' = rq
    BY <1>9 DEF LUpdate
  <2>4. CASE lproc.addr = AddrOf[c]
    BY <1>1, <2>2, <2>3, <2>4
  <2>5. CASE lproc.addr # AddrOf[c]
    <3>1. age'[c] = age[c]
      BY <1>1, <2>2, <2>3, <2>5
    <3> QED
      BY <1>4, <2>3, <2>5, <3>1 DEF Queried
  <2> QED
    BY <2>4, <2>5
<1>10. ASSUME NEW n \in Conn, LData(n)
       PROVE  FALSE
  BY <1>1, <1>10 DEF LData
<1> QED
  BY <1>5, <1>6, <1>7, <1>8, <1>9, <1>10 DEF LProc

(* The main thread takes the queries from the queue and writes them; it    *)
(* never deletes the commands of a board that is not expired.              *)
LEMMA MainPasses ==
  ASSUME TimedSetting, IInv, TimedInv, NEW c \in Responsive,
         Main, ~MTimers, c \in nodes', link'[c] = "up"
  PROVE  QueryPassedOn(c)
<1> USE DEF env, pcs, reg, lks
<1>1. /\ c \in Conn /\ SvcOf[c] = "L"
      /\ \A d \in Conn : SvcOf[d] = "L" /\ AddrOf[d] = AddrOf[c] => d = c
      /\ age \in [Conn -> 0 .. MaxAge]
      /\ asked \in [Conn -> BOOLEAN]
      /\ cmds \in Seq(Addr)
      /\ mainT \in [pc : {"loop", "query", "release", "expire", "cmddel",
                          "send", "write"},
                    svc : Svc, todo : SUBSET Conn, cur : Conn \cup {None},
                    addr : Addr \cup {None}]
  BY NmServerAssumption DEF IInv, TypeOK, TimedSetting
<1>2. /\ UNCHANGED <<link, rq, lproc, elapsed>>
      /\ nodes' \subseteq nodes /\ c \in nodes /\ link[c] = "up"
  BY DEF Main, MTimers, MQuery, MKeepNode, MExpireNode, MReleaseBegin,
     MDelEntry, MReleaseEnd, MCmdDel, MGetCmd, MNoCmd, MWrite, Release
<1>3. age'[c] = age[c]
  <2>1. age' = age \/ \E n \in Conn : Release({n})
    BY DEF Main, MTimers, MQuery, MKeepNode, MExpireNode, MReleaseBegin,
       MDelEntry, MReleaseEnd, MCmdDel, MGetCmd, MNoCmd, MWrite
  <2> QED
    BY <1>1, <2>1 DEF Release
<1>4. ASSUME asked[c] => Queried(c)',
             mainT.pc = "query" => Queried(c)',
             \A k \in DOMAIN cmds : cmds[k] = AddrOf[c] => Queried(c)',
             mainT.pc = "write" /\ mainT.addr = AddrOf[c] => Queried(c)'
      PROVE  QueryPassedOn(c)
  <2>1. Queried(c) => Queried(c)'
    BY <1>2, <1>4 DEF Queried
  <2> QED
    BY <1>2, <1>3, <2>1 DEF QueryPassedOn
<1>5. CASE MQuery
  <2>1. PICK q \in Orders(Clients("L")) :
          cmds' = cmds \o [i \in DOMAIN q |-> AddrOf[q[i]]]
    BY <1>5 DEF MQuery
  <2>2. c \in Clients("L") /\ Clients("L") \in SUBSET Conn
    BY <1>1, <1>2 DEF Clients, IInv, TypeOK
  <2>3. PICK i \in DOMAIN q : q[i] = c
    BY <2>2 DEF Orders
  <2>4. Cardinality(Clients("L")) \in Nat
    BY <2>2, FS_Subset, FS_CardinalityType, NmServerAssumption
  <2>5. q \in [1 .. Cardinality(Clients("L")) -> Clients("L")]
    BY DEF Orders
  <2> DEFINE new == [j \in DOMAIN q |-> AddrOf[q[j]]]
  <2>6. new \in Seq(Addr) /\ i \in 1 .. Len(new) /\ new[i] = AddrOf[c]
    <3>1. new \in Seq(Addr)
      BY <2>2, OrdersType
    <3>2. DOMAIN new = 1 .. Cardinality(Clients("L"))
      BY <2>5
    <3>3. Len(new) = Cardinality(Clients("L"))
      BY <2>4, <3>1, <3>2
    <3> QED
      BY <2>3, <2>5, <3>1, <3>3
  <2> HIDE DEF new
  <2>7. /\ Len(cmds) + i \in DOMAIN (cmds \o new)
        /\ (cmds \o new)[Len(cmds) + i] = AddrOf[c]
    BY <1>1, <2>6
  <2>8. Queried(c)'
    BY <2>1, <2>7 DEF Queried, new
  <2> QED
    BY <1>4, <2>8
<1>6. ASSUME NEW k \in DOMAIN cmds, MCmdDel(k)
      PROVE  QueryPassedOn(c)
  <2>1. /\ cmds' = Without(cmds, k) /\ mainT' = mainT /\ asked' = asked
        /\ mainT.pc = "cmddel" /\ cmds[k] = AddrOf[mainT.cur]
    BY <1>6 DEF MCmdDel
  <2>2. GetNode("L", AddrOf[mainT.cur]) = {}
    BY <2>1 DEF IInv, ClientGoesFirst
  <2>3. cmds[k] # AddrOf[c]
    BY <1>1, <1>2, <2>1, <2>2 DEF GetNode, Clients
  <2>4. ASSUME NEW j \in DOMAIN cmds, cmds[j] = AddrOf[c]
        PROVE  Queried(c)'
    <3>1. \E i \in DOMAIN Without(cmds, k) : Without(cmds, k)[i] = AddrOf[c]
      <4>1. cmds \in Seq(Addr)
        BY <1>1
      <4> QED
        BY <2>3, <2>4, <4>1, WithoutKeeps
    <3> QED
      BY <2>1, <3>1 DEF Queried
  <2> QED
    BY <1>4, <2>1, <2>4 DEF Queried
<1>7. CASE MGetCmd
  <2>1. /\ cmds # <<>> /\ cmds' = Tail(cmds) /\ asked' = asked
        /\ mainT.pc \in {"send", "loop"}
        /\ mainT'.pc = "write" /\ mainT'.addr = Head(cmds)
    BY <1>1, <1>7 DEF MGetCmd
  <2>2. ASSUME NEW k \in DOMAIN cmds, cmds[k] = AddrOf[c]
        PROVE  Queried(c)'
    <3>1. CASE k = 1
      BY <1>1, <2>1, <2>2, <3>1 DEF Queried
    <3>2. CASE k # 1
      <4>1. k - 1 \in DOMAIN Tail(cmds) /\ Tail(cmds)[k - 1] = cmds[k]
        BY <1>1, <2>1, <3>2
      <4> QED
        BY <2>1, <2>2, <4>1 DEF Queried
    <3> QED
      BY <3>1, <3>2
  <2> QED
    BY <1>4, <2>1, <2>2 DEF Queried
<1>8. CASE MWrite
  <2>1. c \in Peers("L")
    BY <1>1, <1>2 DEF Peers
  <2>2. /\ asked'[c] = (asked[c] \/ AddrOf[c] = mainT.addr)
        /\ cmds' = cmds /\ mainT.pc = "write"
    BY <1>1, <1>2, <1>8, <2>1 DEF MWrite
  <2> QED
    BY <1>4, <2>2 DEF Queried
<1>9. CASE \/ \E n \in Conn : MKeepNode(n) \/ MExpireNode(n)
           \/ MReleaseBegin \/ MDelEntry \/ MReleaseEnd \/ MNoCmd
  <2>1. /\ UNCHANGED <<cmds, asked>>
        /\ mainT.pc \in {"expire", "release", "cmddel", "send"}
    BY <1>9 DEF MKeepNode, MExpireNode, MReleaseBegin, MDelEntry, MReleaseEnd,
       MNoCmd
  <2> QED
    BY <1>4, <2>1 DEF Queried
<1> QED
  BY <1>5, <1>6, <1>7, <1>8, <1>9 DEF Main

(* A board that answers stays on time.                                     *)
LEMMA OnTimeStep ==
  ASSUME TimedSetting, IInv, TimedInv, TimedNext
  PROVE  OnTime'
<1> USE DEF env, pcs, reg, lks
<1> SUFFICES ASSUME NEW c \in Responsive, c \in nodes', link'[c] = "up"
             PROVE  /\ age'[c] <= Interval
                    /\ age'[c] <= elapsed' \/ Queried(c)'
  BY DEF OnTime
<1>1. /\ c \in Conn /\ Interval \in Nat
      /\ link \in [Conn -> {"new", "up", "err", "gone"}]
      /\ rq \in [Conn -> Seq(Msg)]
      /\ age \in [Conn -> 0 .. MaxAge]
      /\ age[c] \in Nat
      /\ elapsed \in 0 .. Interval
      /\ c \in nodes /\ link[c] = "up" =>
           age[c] <= Interval /\ (age[c] <= elapsed \/ Queried(c))
  BY NmServerAssumption DEF IInv, TypeOK, TimedInv, OnTime, MaxAge
<1>2. elapsed' \in Nat
  BY TimedIsNext, TypeStep DEF TypeOK
<1>3. CASE age'[c] = 0
  BY <1>1, <1>2, <1>3
<1>4. CASE QueryPassedOn(c)
  BY <1>1, <1>4 DEF QueryPassedOn
<1>5. CASE MTimers
  <2>1. UNCHANGED <<link, nodes, age>> /\ mainT'.pc = "query"
    BY <1>5 DEF MTimers, MainGo, IInv, TypeOK
  <2> QED
    BY <1>1, <2>1 DEF Queried
<1>6. CASE Quiet /\ Tick
  <2>1. UNCHANGED <<link, nodes>>
    BY <1>6 DEF Tick
  <2>2. ~Queried(c) /\ elapsed < Interval
    BY <1>1, <1>6, <2>1 DEF Quiet, Queried
  <2>3. age[c] <= elapsed
    BY <1>1, <2>1, <2>2
  <2>4. elapsed' = elapsed + 1 /\ age'[c] <= age[c] + 1 /\ age'[c] \in Nat
    BY <1>1, <1>6, <2>2 DEF Tick
  <2> QED
    BY <1>1, <2>2, <2>3, <2>4
<1>7. ASSUME NEW d \in Conn, Break(d)
      PROVE  QueryPassedOn(c)
  BY <1>1, <1>7 DEF Break, QueryPassedOn, Queried
<1>8. ASSUME NEW d \in Conn, Answer(d)
      PROVE  QueryPassedOn(c)
  <2>1. /\ rq' = [rq EXCEPT ![d] = Append(@, "bdinfo")]
        /\ asked' = [asked EXCEPT ![d] = @ /\ "bdinfo" # "bdinfo"]
        /\ UNCHANGED <<link, lproc, mainT, nodes, age, cmds, elapsed>>
    BY <1>8 DEF Answer, BoardSend
  <2>2. rq[d] \in Seq(Msg) /\ "bdinfo" \in Msg
    BY <1>1 DEF TimedSetting
  <2>3. rq'[d] # <<>>
    <3>1. rq'[d] = Append(rq[d], "bdinfo")
      BY <1>1, <2>1
    <3> QED
      BY <2>2, <3>1
  <2>4. d # c => rq'[c] = rq[c] /\ asked'[c] = asked[c]
    BY <1>1, <2>1 DEF IInv, TypeOK
  <2> QED
    BY <2>1, <2>3, <2>4 DEF QueryPassedOn, Queried
<1> QED
  BY <1>3, <1>4, <1>5, <1>6, <1>7, <1>8, AcceptorPasses, LProcPasses,
     MainPasses DEF TimedNext, Threads

(* A board that answers every query is never timed out, for any number of  *)
(* boards, connections and clients and any interval and time-out with      *)
(* Interval <= Timeout: no client of a board that is up and answers leaves *)
(* the list, by nmclient_timeout_release or by disccb.                     *)
THEOREM ResponsiveStays == TimedSetting => (TimedSafety => ResponsiveKept)
<1> DEFINE Kept == \A c \in Responsive :
                     c \in nodes /\ link[c] = "up" => c \in nodes'
<1> SUFFICES ASSUME TimedSetting
             PROVE  TimedSafety => ResponsiveKept
  OBVIOUS
<1>1. Init => IInv /\ TimedInv
  <2> SUFFICES ASSUME Init
               PROVE  TimedInv
    BY InitIInv
  <2>1. OnlyReports
    <3>1. <<>> \in Seq({"bdinfo"})
      OBVIOUS
    <3> QED
      BY <3>1 DEF Init, LIdle, OnlyReports
  <2> QED
    BY <2>1 DEF Init, TimedInv, OnTime, DeletedIsReleased, AccIdle, Svc
<1>2. IInv /\ TimedInv /\ [TimedNext]_vars => IInv' /\ TimedInv'
  <2>1. ASSUME IInv, TimedInv, TimedNext
        PROVE  IInv' /\ TimedInv'
    <3>1. IInv'
      BY <2>1, TimedIsNext, StepIInv
    <3> QED
      BY <2>1, <3>1, OnTimeStep, OnlyReportsStep, DeletedStep, UnlinkedStep
         DEF TimedInv
  <2>2. ASSUME IInv, TimedInv, UNCHANGED vars
        PROVE  TimedInv'
    BY <2>2 DEF vars, TimedInv, OnTime, Queried, OnlyReports, DeletedIsReleased
  <2> QED
    BY <2>1, <2>2, StutterIInv
<1>3. IInv /\ TimedInv /\ [TimedNext]_vars => Kept
  <2>1. ASSUME IInv, TimedInv, TimedNext, NEW c \in Responsive,
               c \in nodes, link[c] = "up"
        PROVE  c \in nodes'
    <3> SUFFICES ASSUME c \notin nodes'
                 PROVE  FALSE
      OBVIOUS
    <3>1. /\ c \in Conn /\ SvcOf[c] = "L" /\ age[c] \in Nat
          /\ \A d \in Conn : SvcOf[d] = "L" /\ AddrOf[d] = AddrOf[c] => d = c
          /\ Interval \in Nat /\ Timeout \in Nat /\ Interval <= Timeout
          /\ age[c] <= Interval
      BY <2>1, NmServerAssumption
         DEF TimedSetting, TimedInv, OnTime, IInv, TypeOK, MaxAge
    <3>2. ~Expired(c)
      BY <3>1 DEF Expired
    <3>3. \/ \E n \in Conn : MExpireNode(n)
          \/ \E s \in Svc : DelNode(s)
      BY <2>1 DEF TimedNext, Threads, Acceptor, Accept, AddNode, InsertNull,
         CheckBegin, CheckPeer, DelEntry, CheckEnd, LProc, LRead, LData,
         LReport, LDrop, LInsert, LUpdate, Main, MTimers, MQuery, MKeepNode,
         MReleaseBegin, MDelEntry, MReleaseEnd, MCmdDel, MGetCmd, MNoCmd,
         MWrite, Break, Answer, BoardSend, Tick, reg
    <3>4. ASSUME NEW n \in Conn, MExpireNode(n)
          PROVE  FALSE
      BY <2>1, <3>2, <3>4 DEF MExpireNode, Release
    <3>5. ASSUME NEW s \in Svc, DelNode(s)
          PROVE  FALSE
      <4>1. c \in GetNode(s, AddrOf[acc[s].cur]) /\ acc[s].pc = "del"
        BY <2>1, <3>5 DEF DelNode, Release, AccAt
      <4>2. s = "L" /\ AddrOf[acc[s].cur] = AddrOf[c]
        BY <3>1, <4>1 DEF GetNode, Clients
      <4>3. acc[s].cur \in Conn /\ SvcOf[acc[s].cur] = s
        BY <2>1, <4>1 DEF IInv, ThreadsCarryValid, AccCarriesValid
      <4>4. acc[s].cur = c
        BY <3>1, <4>2, <4>3
      <4> QED
        BY <2>1, <4>1, <4>4 DEF TimedInv, DeletedIsReleased
    <3> QED
      BY <3>3, <3>4, <3>5
  <2>2. UNCHANGED vars => Kept
    BY DEF vars
  <2> QED
    BY <2>1, <2>2
<1>4. TimedSafety => [][Kept]_vars
  BY <1>1, <1>2, <1>3, PTL DEF TimedSafety
<1> QED
  BY <1>4 DEF ResponsiveKept
=============================================================================
