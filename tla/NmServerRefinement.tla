------------------------- MODULE NmServerRefinement -------------------------
(***************************************************************************)
(* NmServer implements BoardDirectory: proof of the safety part, for every *)
(* value of the constants.  Six actions change what the directory sees; each*)
(* of them is one action of the directory on one address.  All other steps *)
(* leave the peers, the leaving address and the board table as they are.   *)
(***************************************************************************)
EXTENDS NmServerProofs, NmServerDirectory

(* What is shown depends on the set of entries.                            *)
LEMMA ShownByEntries ==
  ASSUME NEW g \in Seq(Entry), Unique(g), NEW a
  PROVE  /\ ShownIn(g, a) \in {"no", "silent", "reported"}
         /\ ShownIn(g, a) = "no" <=> \A e \in Entries(g) : e.addr # a
         /\ ShownIn(g, a) = "reported"
              <=> \E e \in Entries(g) : e.addr = a /\ e.bdi = "set"
<1>1. CASE At(g, a) = {}
  BY <1>1 DEF At, Entries, ShownIn
<1>2. CASE At(g, a) # {}
  <2> DEFINE k == FirstAt(g, a)
  <2>1. k \in DOMAIN g /\ \A i \in DOMAIN g : g[i].addr = a <=> i = k
    BY <1>2, FirstIsOnly
  <2>2. ShownIn(g, a) = IF g[k].bdi = "set" THEN "reported" ELSE "silent"
    BY <1>2 DEF ShownIn
  <2> HIDE DEF k
  <2> QED
    BY <2>1, <2>2 DEF Entries
<1> QED
  BY <1>1, <1>2

(* Tables with the same entries at an address show the same.               *)
LEMMA SameShown ==
  ASSUME NEW g \in Seq(Entry), Unique(g), NEW h \in Seq(Entry), Unique(h), NEW a,
         \A e : e.addr = a => (e \in Entries(g) <=> e \in Entries(h))
  PROVE  ShownIn(h, a) = ShownIn(g, a)
<1>1. ShownIn(g, a) = "no" <=> ShownIn(h, a) = "no"
  BY ShownByEntries
<1>2. ShownIn(g, a) = "reported" <=> ShownIn(h, a) = "reported"
  BY ShownByEntries
<1>3. /\ ShownIn(g, a) \in {"no", "silent", "reported"}
      /\ ShownIn(h, a) \in {"no", "silent", "reported"}
  BY ShownByEntries
<1> QED
  BY <1>1, <1>2, <1>3

(* An insert shows the address and touches no other.                       *)
LEMMA InsertShown ==
  ASSUME NEW g \in Seq(Entry), Unique(g), NEW a \in Addr,
         NEW b \in {"unset", "set"}
  PROVE  /\ \A x \in Addr \ {a} :
              ShownIn(InsertBdinfo(g, a, b), x) = ShownIn(g, x)
         /\ b = "set" => ShownIn(InsertBdinfo(g, a, b), a) = "reported"
         /\ b = "unset" =>
              ShownIn(InsertBdinfo(g, a, b), a)
                = IF ShownIn(g, a) = "no" THEN "silent" ELSE ShownIn(g, a)
<1> DEFINE h == InsertBdinfo(g, a, b)
           e0 == [addr |-> a, bdi |-> b]
<1>1. h \in Seq(Entry) /\ Unique(h)
  BY InsertType, InsertEntries
<1>2. \A e \in Entries(h) : e \in Entries(g) \/ e = e0
  BY InsertEntries
<1>3. \A e \in Entries(g) : e.addr # a \/ b = "unset" => e \in Entries(h)
  BY InsertEntries
<1>4. e0 \in Entry /\ e0.addr = a /\ e0.bdi = b
  BY DEF Entry
<1>5. At(g, a) = {} <=> ShownIn(g, a) = "no"
  BY ShownByEntries DEF At, Entries
<1>6. b = "set" \/ At(g, a) = {} => e0 \in Entries(h)
  <2>1. CASE At(g, a) = {}
    BY <2>1, <1>4, PrependEntries DEF InsertBdinfo
  <2>2. CASE At(g, a) # {} /\ b = "set"
    <3> DEFINE k == FirstAt(g, a)
    <3> HIDE DEF k
    <3>1. h = [g EXCEPT ![k] = e0]
      BY <2>2 DEF InsertBdinfo, k
    <3>2. k \in DOMAIN g
      BY <2>2, FirstIsOnly DEF k
    <3> HIDE DEF h, e0
    <3>3. k \in DOMAIN h /\ h[k] = e0
      BY <3>1, <3>2
    <3> QED
      BY <3>3 DEF Entries
  <2> QED
    BY <2>1, <2>2
<1>7. b = "unset" /\ At(g, a) # {} => h = g
  BY DEF InsertBdinfo
<1> HIDE DEF h, e0
<1>8. ASSUME NEW x \in Addr \ {a}
      PROVE  ShownIn(h, x) = ShownIn(g, x)
  <2>1. \A e : e.addr = x => (e \in Entries(g) <=> e \in Entries(h))
    BY <1>2, <1>3, <1>4
  <2> QED
    BY <2>1, <1>1, SameShown
<1>9. b = "set" => ShownIn(h, a) = "reported"
  BY <1>1, <1>4, <1>6, ShownByEntries
<1>10. ASSUME b = "unset", ShownIn(g, a) = "no"
       PROVE  ShownIn(h, a) = "silent"
  <2>1. \A e \in Entries(g) : e.addr # a
    BY <1>10, ShownByEntries
  <2>2. e0 \in Entries(h)
    BY <1>5, <1>6, <1>10
  <2>3. ShownIn(h, a) # "no" /\ ShownIn(h, a) # "reported"
    BY <2>1, <2>2, <1>1, <1>2, <1>4, <1>10, ShownByEntries
  <2> QED
    BY <2>3, <1>1, ShownByEntries
<1> QED
  BY <1>5, <1>7, <1>8, <1>9, <1>10 DEF h

(* A deletion hides the address and touches no other.                      *)
LEMMA DelShown ==
  ASSUME NEW g \in Seq(Entry), Unique(g), NEW a
  PROVE  /\ \A x \in Addr \ {a} : ShownIn(DelBdinfo(g, a), x) = ShownIn(g, x)
         /\ ShownIn(DelBdinfo(g, a), a) = "no"
<1> DEFINE h == DelBdinfo(g, a)
<1>1. /\ h \in Seq(Entry) /\ Unique(h)
      /\ Entries(h) = {e \in Entries(g) : e.addr # a}
  BY DelEntries
<1> HIDE DEF h
<1>2. ASSUME NEW x \in Addr \ {a}
      PROVE  ShownIn(h, x) = ShownIn(g, x)
  <2>1. \A e : e.addr = x => (e \in Entries(g) <=> e \in Entries(h))
    BY <1>1
  <2> QED
    BY <2>1, <1>1, SameShown
<1>3. ShownIn(h, a) = "no"
  BY <1>1, ShownByEntries
<1> QED
  BY <1>2, <1>3 DEF h

-----------------------------------------------------------------------------
(* The mapped variables. *)
ConnBar  == [a \in Addr |-> ConnOf(a)]
ShownBar == [a \in Addr |-> ShownIn(glb, a)]

(* The connection state of an address depends on the peers of service L and*)
(* on the connection its accept thread releases.                           *)
LEMMA SameConn ==
  ASSUME Peers("L")' = Peers("L"),
         \A a \in Addr : Leaving("L", {"del", "gdel"}, a)'
                           <=> Leaving("L", {"del", "gdel"}, a)
  PROVE  ConnBar' = ConnBar
BY DEF ConnBar, ConnOf, HasPeer

(* A step that changes no peer of service L, no entry, and not which       *)
(* address is leaving is a stuttering step of the directory.               *)
LEMMA Stutter ==
  ASSUME Peers("L")' = Peers("L"), glb' = glb,
         \A a \in Addr : Leaving("L", {"del", "gdel"}, a)'
                           <=> Leaving("L", {"del", "gdel"}, a)
  PROVE  UNCHANGED Dir!vars
<1>1. ConnBar' = ConnBar
  BY SameConn
<1>2. ShownBar' = ShownBar
  BY DEF ShownBar
<1> QED
  BY <1>1, <1>2 DEF Dir!vars, ConnBar, ShownBar

(* A change of the connection state of one address.                        *)
LEMMA OneConn ==
  ASSUME NEW a \in Addr, \A x \in Addr \ {a} : ConnOf(x)' = ConnOf(x)
  PROVE  ConnBar' = [ConnBar EXCEPT ![a] = ConnOf(a)']
BY DEF ConnBar

(* A change of what is shown of one address.                               *)
LEMMA OneShown ==
  ASSUME NEW a \in Addr, NEW h, glb' = h,
         \A x \in Addr \ {a} : ShownIn(h, x) = ShownIn(glb, x)
  PROVE  ShownBar' = [ShownBar EXCEPT ![a] = ShownIn(h, a)]
BY DEF ShownBar

-----------------------------------------------------------------------------
(* The steps of the accept thread of service L. *)

(* ssock_accept connects the address, unless a failed peer of it is left.  *)
LEMMA AcceptMaps ==
  ASSUME IInv, NEW c \in Conn, Accept("L", c)
  PROVE  Dir!Next \/ UNCHANGED Dir!vars
<1> DEFINE a == AddrOf[c]
<1>1. a \in Addr /\ acc \in [Svc -> AccState]
  BY NmServerAssumption DEF IInv, TypeOK
<1>2. /\ Peers("L")' = Peers("L") \cup {c}
      /\ glb' = glb
  BY PeersStep DEF Accept, Svc
<1>3. acc["L"].pc = "idle" /\ acc'["L"].pc = "add"
  BY <1>1 DEF Accept, AccAt, AccGo, Svc
<1>4. \A x : ~Leaving("L", {"del", "gdel"}, x) /\ ~Leaving("L", {"del", "gdel"}, x)'
  BY <1>3 DEF Leaving
<1>5. \A x \in Addr \ {a} : HasPeer("L", x)' <=> HasPeer("L", x)
  BY <1>2 DEF HasPeer
<1>6. HasPeer("L", a)'
  BY <1>2 DEF HasPeer
<1>7. \A x \in Addr \ {a} : ConnOf(x)' = ConnOf(x)
  BY <1>4, <1>5 DEF ConnOf
<1>8. ConnOf(a)' = "up" /\ ConnOf(a) \in {"up", "none"}
  BY <1>4, <1>6 DEF ConnOf
<1>9. ShownBar' = ShownBar
  BY <1>2 DEF ShownBar
<1> HIDE DEF a
<1>10. ConnBar' = [ConnBar EXCEPT ![a] = "up"]
  BY <1>1, <1>7, <1>8, OneConn
<1>11. CASE ConnOf(a) = "none"
  <2>1. ConnBar[a] = "none"
    BY <1>1, <1>11 DEF ConnBar
  <2>2. Dir!Connect(a)
    BY <2>1, <1>9, <1>10 DEF Dir!Connect, ConnBar, ShownBar
  <2> QED
    BY <1>1, <2>2 DEF Dir!Next
<1>12. CASE ConnOf(a) = "up"
  <2>1. ConnBar' = ConnBar
    BY <1>1, <1>10, <1>12 DEF ConnBar
  <2> QED
    BY <2>1, <1>9 DEF Dir!vars, ConnBar, ShownBar
<1> QED
  BY <1>8, <1>11, <1>12

(* ssock_check of a failed peer: its address is leaving.                   *)
LEMMA CheckMaps ==
  ASSUME IInv, NEW c \in Conn, CheckPeer("L", c)
  PROVE  Dir!Next \/ UNCHANGED Dir!vars
<1> DEFINE a == AddrOf[c]
<1>1. /\ a \in Addr /\ acc \in [Svc -> AccState] /\ None \notin Conn
      /\ link \in [Conn -> {"new", "up", "err", "gone"}]
  BY NmServerAssumption DEF IInv, TypeOK
<1>2. glb' = glb /\ SvcOf[c] = "L"
  BY PeersStep DEF CheckPeer, Svc
<1>3. acc["L"].pc = "scan"
  BY DEF CheckPeer, AccAt
<1>4. \A x : ~Leaving("L", {"del", "gdel"}, x)
  BY <1>3 DEF Leaving
<1>5. CASE link[c] = "err"
  <2>1. link' = [link EXCEPT ![c] = "gone"]
    BY <1>5 DEF CheckPeer
  <2>2. c \in Peers("L") /\ Peers("L")' = Peers("L") \ {c}
    BY <1>1, <1>2, <1>5, <2>1 DEF Peers
  <2>3. acc'["L"].pc = "del" /\ acc'["L"].cur = c
    BY <1>1, <1>5 DEF CheckPeer, AccGo, Svc
  <2>4. \A x : Leaving("L", {"del", "gdel"}, x)' <=> x = a
    BY <1>1, <2>3 DEF Leaving
  <2>5. \A x \in Addr \ {a} : HasPeer("L", x)' <=> HasPeer("L", x)
    BY <2>2 DEF HasPeer
  <2>6. HasPeer("L", a)
    BY <2>2 DEF HasPeer
  <2>7. ConnOf(a) = "up" /\ ConnOf(a)' = "leaving"
    BY <1>4, <2>4, <2>6 DEF ConnOf
  <2>8. \A x \in Addr \ {a} : ConnOf(x)' = ConnOf(x)
    BY <1>4, <2>4, <2>5 DEF ConnOf
  <2> HIDE DEF a
  <2>9. ConnBar' = [ConnBar EXCEPT ![a] = "leaving"] /\ ConnBar[a] = "up"
    BY <1>1, <2>7, <2>8, OneConn DEF ConnBar
  <2>10. Dir!Lose(a)
    BY <1>2, <2>9 DEF Dir!Lose, ConnBar, ShownBar
  <2> QED
    BY <1>1, <2>10 DEF Dir!Next
<1>6. CASE link[c] # "err"
  <2>1. acc'["L"].pc = "scan"
    BY <1>1, <1>6 DEF CheckPeer, AccGo, Svc
  <2>2. \A x : ~Leaving("L", {"del", "gdel"}, x)'
    BY <2>1 DEF Leaving
  <2>3. Peers("L")' = Peers("L")
    BY <1>6, PeersStep DEF Svc
  <2> QED
    BY <1>2, <1>4, <2>2, <2>3, Stutter
<1> QED
  BY <1>5, <1>6

(* conncb shows an address that is not shown yet.                          *)
LEMMA InsertNullMaps ==
  ASSUME IInv, InsertNull("L")
  PROVE  Dir!Next \/ UNCHANGED Dir!vars
<1>1. /\ acc \in [Svc -> AccState] /\ glb \in Seq(Entry)
      /\ Unique(glb) /\ AccCarriesValid("L")
  BY DEF IInv, TypeOK, ThreadsCarryValid, UniqueByAddress, Unique, Svc
<1>2. acc["L"].pc = "insert" /\ acc'["L"].pc = "idle"
  BY <1>1 DEF InsertNull, AccAt, AccGo, Svc
<1>3. PICK a \in Addr : /\ acc["L"].cur \in Peers("L")
                       /\ a = AddrOf[acc["L"].cur]
                       /\ glb' = InsertBdinfo(glb, a, "unset")
  BY <1>1, <1>2, NmServerAssumption DEF AccCarriesValid, InsertNull
<1> DEFINE h == InsertBdinfo(glb, a, "unset")
<1>4. \A x : ~Leaving("L", {"del", "gdel"}, x) /\ ~Leaving("L", {"del", "gdel"}, x)'
  BY <1>2 DEF Leaving
<1>5. ConnBar' = ConnBar
  BY <1>4, PeersStep, SameConn DEF Svc
<1>6. ConnBar[a] # "none"
  BY <1>3, <1>4 DEF ConnBar, ConnOf, HasPeer
<1>7. /\ \A x \in Addr \ {a} : ShownIn(h, x) = ShownIn(glb, x)
      /\ ShownIn(h, a) = IF ShownIn(glb, a) = "no" THEN "silent"
                                                   ELSE ShownIn(glb, a)
  BY <1>1, <1>3, InsertShown
<1> HIDE DEF h
<1>8. ShownBar' = [ShownBar EXCEPT ![a] = ShownIn(h, a)]
  BY <1>3, <1>7, OneShown DEF h
<1>9. CASE ShownIn(glb, a) = "no"
  <2>1. ShownBar' = [ShownBar EXCEPT ![a] = "silent"] /\ ShownBar[a] = "no"
    BY <1>3, <1>7, <1>8, <1>9 DEF ShownBar
  <2>2. Dir!Show(a)
    BY <1>5, <1>6, <2>1 DEF Dir!Show, ConnBar, ShownBar
  <2> QED
    BY <1>3, <2>2 DEF Dir!Next
<1>10. CASE ShownIn(glb, a) # "no"
  <2>1. ShownBar' = ShownBar
    BY <1>3, <1>7, <1>8, <1>10 DEF ShownBar
  <2> QED
    BY <1>5, <2>1 DEF Dir!vars, ConnBar, ShownBar
<1> QED
  BY <1>9, <1>10

(* disccb forgets the address.                                             *)
LEMMA DelEntryMaps ==
  ASSUME IInv, DelEntry("L")
  PROVE  Dir!Next
<1>1. /\ acc \in [Svc -> AccState] /\ glb \in Seq(Entry)
      /\ Unique(glb) /\ AccCarriesValid("L") /\ None \notin Conn
  BY NmServerAssumption
     DEF IInv, TypeOK, ThreadsCarryValid, UniqueByAddress, Unique, Svc
<1>2. acc["L"].pc = "gdel" /\ acc'["L"].pc = "scan"
  BY <1>1 DEF DelEntry, AccAt, AccGo, Svc
<1>3. PICK a \in Addr : /\ acc["L"].cur \in Conn
                       /\ a = AddrOf[acc["L"].cur]
                       /\ glb' = DelBdinfo(glb, a)
  BY <1>1, <1>2, NmServerAssumption DEF AccCarriesValid, DelEntry
<1> DEFINE h == DelBdinfo(glb, a)
<1>4. \A x : Leaving("L", {"del", "gdel"}, x) <=> x = a
  BY <1>1, <1>2, <1>3 DEF Leaving
<1>5. \A x : ~Leaving("L", {"del", "gdel"}, x)'
  BY <1>2 DEF Leaving
<1>6. \A x : HasPeer("L", x)' <=> HasPeer("L", x)
  BY PeersStep DEF HasPeer, Svc
<1>7. ConnOf(a) = "leaving" /\ ConnOf(a)' \in {"none", "up"}
  BY <1>4, <1>5 DEF ConnOf
<1>8. \A x \in Addr \ {a} : ConnOf(x)' = ConnOf(x)
  BY <1>4, <1>5, <1>6 DEF ConnOf
<1>9. ConnBar' = [ConnBar EXCEPT ![a] = ConnOf(a)'] /\ ConnBar[a] = "leaving"
  BY <1>3, <1>7, <1>8, OneConn DEF ConnBar
<1>10. (\A x \in Addr \ {a} : ShownIn(h, x) = ShownIn(glb, x))
       /\ ShownIn(h, a) = "no"
  BY <1>1, DelShown
<1> HIDE DEF h
<1>11. ShownBar' = [ShownBar EXCEPT ![a] = "no"]
  BY <1>3, <1>10, OneShown DEF h
<1>12. Dir!Forget(a)
  BY <1>7, <1>9, <1>11 DEF Dir!Forget, ConnBar, ShownBar
<1> QED
  BY <1>3, <1>12 DEF Dir!Next

-----------------------------------------------------------------------------
(* The steps of the other threads that change the board table. *)

(* A report is shown; the client it was found for has a peer.              *)
LEMMA ReportMaps ==
  ASSUME IInv, LInsert
  PROVE  Dir!Next
<1>1. /\ glb \in Seq(Entry) /\ Unique(glb) /\ LProcCarriesValid
      /\ ClientHasPeer
  BY DEF IInv, TypeOK, ThreadsCarryValid, UniqueByAddress, Unique
<1>2. PICK a \in Addr : a = lproc.addr /\ glb' = InsertBdinfo(glb, a, "set")
  BY <1>1 DEF LInsert, LProcCarriesValid
<1> DEFINE h == InsertBdinfo(glb, a, "set")
<1>3. PICK n \in nodes : SvcOf[n] = "L" /\ AddrOf[n] = a
  BY <1>1, <1>2 DEF LInsert, LProcCarriesValid, GetNode, Clients
<1>4. ConnOf(a) # "none"
  BY <1>1, <1>3 DEF ClientHasPeer, ConnOf, Leaving
<1>5. ConnBar' = ConnBar
  <2>1. Peers("L")' = Peers("L") /\ acc' = acc
    BY PeersKept DEF LProc, Svc
  <2> QED
    BY <2>1, SameConn DEF Leaving
<1>6. (\A x \in Addr \ {a} : ShownIn(h, x) = ShownIn(glb, x))
      /\ ShownIn(h, a) = "reported"
  BY <1>1, <1>2, InsertShown
<1> HIDE DEF h
<1>7. ShownBar' = [ShownBar EXCEPT ![a] = "reported"] /\ ConnBar[a] # "none"
  BY <1>2, <1>4, <1>6, OneShown DEF ConnBar, h
<1>8. Dir!Report(a)
  BY <1>5, <1>7 DEF Dir!Report, ConnBar, ShownBar
<1> QED
  BY <1>2, <1>8 DEF Dir!Next

(* The entry of an expired client is dropped.                              *)
LEMMA ExpireMaps ==
  ASSUME IInv, MDelEntry
  PROVE  Dir!Next
<1>1. glb \in Seq(Entry) /\ Unique(glb) /\ MainCarriesValid
  BY DEF IInv, TypeOK, ThreadsCarryValid, UniqueByAddress, Unique
<1>2. PICK a \in Addr : a = AddrOf[mainT.cur] /\ glb' = DelBdinfo(glb, a)
  BY <1>1, NmServerAssumption DEF MDelEntry, MainCarriesValid
<1> DEFINE h == DelBdinfo(glb, a)
<1>3. ConnBar' = ConnBar
  <2>1. Peers("L")' = Peers("L") /\ acc' = acc
    BY PeersKept DEF Main, Svc
  <2> QED
    BY <2>1, SameConn DEF Leaving
<1>4. (\A x \in Addr \ {a} : ShownIn(h, x) = ShownIn(glb, x))
      /\ ShownIn(h, a) = "no"
  BY <1>1, DelShown
<1> HIDE DEF h
<1>5. ShownBar' = [ShownBar EXCEPT ![a] = "no"]
  BY <1>2, <1>4, OneShown DEF h
<1>6. Dir!Expire(a)
  BY <1>3, <1>5 DEF Dir!Expire, ConnBar, ShownBar
<1> QED
  BY <1>2, <1>6 DEF Dir!Next

-----------------------------------------------------------------------------
(* Every step of the server is a step of the directory or stutters.        *)
LEMMA StepMaps ==
  ASSUME IInv, Next
  PROVE  Dir!Next \/ UNCHANGED Dir!vars
<1>1. acc \in [Svc -> AccState] /\ \A s \in Svc : AccCarriesValid(s)
  BY DEF IInv, TypeOK, ThreadsCarryValid
<1>2. ASSUME LProc \/ Main \/ Boards \/ Tick, glb' = glb
      PROVE  UNCHANGED Dir!vars
  BY <1>2, PeersKept, Stutter DEF Leaving, Svc
<1>3. CASE LProc
  <2>1. glb' = glb \/ LInsert
    BY <1>3 DEF LProc, LRead, LDrop, LData, LReport, LUpdate
  <2> QED
    BY <1>2, <1>3, <2>1, ReportMaps
<1>4. CASE Main
  <2>1. glb' = glb \/ MDelEntry
    BY <1>4 DEF Main, MTimers, MQuery, MReleaseBegin, MKeepNode, MExpireNode,
          MCmdDel, MReleaseEnd, MGetCmd, MNoCmd, MWrite
  <2> QED
    BY <1>2, <1>4, <2>1, ExpireMaps
<1>5. CASE Boards \/ Tick
  <2>1. glb' = glb
    BY <1>5 DEF Boards, Break, BoardSend, Tick
  <2> QED
    BY <1>2, <1>5, <2>1
<1>6. CASE Acceptor("R")
  <2>1. acc'["L"] = acc["L"] /\ Peers("L")' = Peers("L")
    <3>1. acc'["L"] = acc["L"]
      BY <1>1, <1>6 DEF Acceptor, Accept, CheckPeer, AddNode, InsertNull,
            CheckBegin, DelNode, DelEntry, CheckEnd, AccGo, Svc
    <3> QED
      BY <3>1, <1>6, PeersStep DEF Acceptor, Svc
  <2>2. glb' = glb
    BY <1>1, <1>6 DEF Acceptor, Accept, CheckPeer, AddNode, InsertNull,
          CheckBegin, DelNode, DelEntry, CheckEnd, AccAt, AccCarriesValid, Svc
  <2> QED
    BY <2>1, <2>2, Stutter DEF Leaving
<1>7. CASE Acceptor("L")
  <2>1. ASSUME AddNode("L") \/ CheckBegin("L") \/ DelNode("L") \/ CheckEnd("L")
        PROVE  UNCHANGED Dir!vars
    <3>1. Peers("L")' = Peers("L")
      BY <2>1, PeersStep DEF Svc
    <3>2. glb' = glb
      BY <2>1 DEF AddNode, CheckBegin, DelNode, CheckEnd
    <3>3. \A a \in Addr : Leaving("L", {"del", "gdel"}, a)'
                            <=> Leaving("L", {"del", "gdel"}, a)
      BY <1>1, <2>1 DEF AddNode, CheckBegin, DelNode, CheckEnd, AccAt, AccGo,
            Leaving, Svc
    <3> QED
      BY <3>1, <3>2, <3>3, Stutter
  <2> QED
    BY <1>7, <2>1, AcceptMaps, CheckMaps, InsertNullMaps, DelEntryMaps DEF Acceptor
<1> QED
  BY <1>3, <1>4, <1>5, <1>6, <1>7 DEF Next, Threads, Svc

(* The server implements the board directory: every behaviour of the       *)
(* threads, the network and the clock is one the directory allows.         *)
THEOREM Implements == Spec => ImplementsDirectory
<1>1. Init => Dir!Init
  <2> SUFFICES ASSUME Init
               PROVE  Dir!Init
    OBVIOUS
  <2>1. \A a : ConnOf(a) = "none"
    BY DEF Init, AccIdle, ConnOf, Leaving, HasPeer, Peers, Svc
  <2>2. \A a : ShownIn(glb, a) = "no"
    BY DEF Init, ShownIn, At
  <2> QED
    BY <2>1, <2>2 DEF Dir!Init
<1>2. IInv /\ [Next]_vars => [Dir!Next]_(Dir!vars)
  <2>1. ASSUME UNCHANGED vars
        PROVE  UNCHANGED Dir!vars
    BY <2>1, Stutter DEF vars, Peers, Leaving
  <2> QED
    BY <2>1, StepMaps
<1> QED
  BY <1>1, <1>2, Invariance, PTL DEF Spec, ImplementsDirectory, Dir!Spec

(* The promise of the directory, for the server: what the clients are shown*)
(* is connected or its disconnection is being processed.                   *)
THEOREM ShownConnected == Spec => []Dir!ShownIsConnected
<1>1. IInv => Dir!ShownIsConnected
  <2> SUFFICES ASSUME IInv, NEW a \in Addr, ShownIn(glb, a) # "no"
               PROVE  ConnOf(a) # "none"
    BY DEF Dir!ShownIsConnected
  <2>1. glb \in Seq(Entry) /\ Unique(glb) /\ NoGhostBoard
    BY DEF IInv, TypeOK, UniqueByAddress, Unique
  <2>2. PICK e \in Entries(glb) : e.addr = a
    BY <2>1, ShownByEntries
  <2>3. HasPeer("L", a) \/ Leaving("L", {"del", "gdel"}, a)
    BY <2>1, <2>2 DEF NoGhostBoard, Entries
  <2> QED
    BY <2>3 DEF ConnOf
<1> QED
  BY <1>1, Invariance, PTL
=============================================================================
