---------------------------- MODULE PfifoProofs -----------------------------
(***************************************************************************)
(* Proofs for Pfifo: nobody touches a slot that is not his, and each ring  *)
(* is a bounded queue, for every size and number of rings.                 *)
(***************************************************************************)
EXTENDS Pfifo, SequenceTheorems, TLAPS

USE DEF Queue, Slot

-----------------------------------------------------------------------------
(* Positions. *)

(* The next position is a slot, and no two positions have the same next.   *)
LEMMA SuccSlot ==
  ASSUME NEW i \in Slot, NEW j \in Slot
  PROVE  Succ(i) \in Slot /\ (Succ(i) = Succ(j) => i = j)
BY PfifoAssumption DEF Succ

(* The reader's search stays inside the rings.                             *)
LEMMA NextTidQueue == ASSUME NEW q \in Queue PROVE NextTid(q) \in Queue
BY PfifoAssumption DEF NextTid

(* The initial state satisfies the invariant.                              *)
LEMMA InitPInv == Init => PInv
<1> SUFFICES ASSUME Init PROVE PInv
  OBVIOUS
<1>1. TypeOK
  <2>1. readCommit \in BOOLEAN
    BY DEF Init
  <2>2. elements \in [Queue -> [Slot -> Packet \cup {Junk}]]
    BY DEF Init
  <2>3. 0 \in Queue /\ 0 \in Slot
    BY PfifoAssumption
  <2>4. /\ r \in [Queue -> Slot] /\ w \in [Queue -> Slot]
        /\ writer \in [Queue -> {"idle", "copy", "commit"}]
    BY <2>3 DEF Init
  <2>5. /\ reader \in {"user", "scan"} /\ tid \in Queue
        /\ scanned \in 0 .. NumQueues /\ held \in Packet \cup {Junk, Nothing}
        /\ waiting \subseteq Queue
    BY <2>3, PfifoAssumption DEF Init
  <2> QED
    BY <2>1, <2>2, <2>4, <2>5 DEF TypeOK
<1>2. Ownership
  BY PfifoAssumption DEF Init, Ownership, Owned, Filled
<1>3. HandedOut
  BY DEF Init, HandedOut
<1> QED
  BY <1>1, <1>2, <1>3 DEF PInv

-----------------------------------------------------------------------------
(* Types. *)

LEMMA TypeStep == PInv /\ [Next]_vars => TypeOK'
<1> SUFFICES ASSUME PInv, [Next]_vars PROVE TypeOK'
  OBVIOUS
<1> USE PfifoAssumption DEF TypeOK, PInv
<1>1. ASSUME NEW q \in Queue, Write(q) PROVE TypeOK'
  BY <1>1 DEF Write, cursor
<1>2. ASSUME NEW q \in Queue, Copy(q) PROVE TypeOK'
  BY <1>2 DEF Copy, cursor
<1>3. ASSUME NEW q \in Queue, WriteCommit(q) PROVE TypeOK'
  BY <1>3, SuccSlot DEF WriteCommit, cursor
<1>4. CASE Read
  <2>1. readCommit' \in BOOLEAN
    BY <1>4 DEF Read
  <2>2. r[tid] \in Slot /\ Succ(r[tid]) \in Slot /\ NextTid(tid) \in Queue
    BY SuccSlot, NextTidQueue
  <2>3. r' \in [Queue -> Slot] /\ tid' \in Queue
    BY <1>4, <2>2 DEF Read
  <2>4. scanned' \in 0 .. NumQueues
    BY <1>4 DEF Read
  <2> QED
    BY <1>4, <2>1, <2>3, <2>4 DEF Read
<1>5. CASE Found
  <2>1. elements[tid] \in [Slot -> Packet \cup {Junk}] /\ r[tid] \in Slot
    OBVIOUS
  <2>2. elements[tid][r[tid]] \in Packet \cup {Junk}
    BY <2>1
  <2>3. held' \in Packet \cup {Junk, Nothing}
    BY <1>5, <2>2 DEF Found
  <2>4. scanned' \in 0 .. NumQueues
    BY <1>5 DEF Found
  <2> QED
    BY <1>5, <2>3, <2>4 DEF Found, rings
<1>6. CASE Empty
  <2>1. scanned' \in 0 .. NumQueues /\ reader' \in {"user", "scan"}
    BY <1>6 DEF Empty, HandedOut
  <2> QED
    BY <1>6, <2>1, NextTidQueue DEF Empty, rings
<1>7. CASE UNCHANGED vars
  BY <1>7 DEF vars
<1> QED
  BY <1>1, <1>2, <1>3, <1>4, <1>5, <1>6, <1>7 DEF Next, Worker, Reader

-----------------------------------------------------------------------------
(* Ownership. *)

(* A step that leaves a ring alone leaves its ownership alone.             *)
LEMMA SameRing ==
  ASSUME NEW q \in Queue, Owned(q), r'[q] = r[q], w'[q] = w[q],
         elements'[q] = elements[q], writer'[q] = writer[q]
  PROVE  Owned(q)'
BY DEF Owned, Filled

LEMMA OwnershipStep == PInv /\ [Next]_vars => Ownership'
<1> SUFFICES ASSUME PInv, [Next]_vars, NEW x \in Queue PROVE Owned(x)'
  BY DEF Ownership
<1> USE PfifoAssumption
<1>0. TypeOK /\ Owned(x)
  BY DEF PInv, Ownership
<1>1. ASSUME NEW q \in Queue, Write(q) PROVE Owned(x)'
  <2>1. CASE x = q
    BY <1>0, <1>1, <2>1 DEF Write, Owned, Filled, TypeOK
  <2>2. CASE x # q
    BY <1>0, <1>1, <2>2, SameRing DEF Write, TypeOK
  <2> QED
    BY <2>1, <2>2
<1>2. ASSUME NEW q \in Queue, Copy(q) PROVE Owned(x)'
  <2>1. CASE x = q
    BY <1>0, <1>2, <2>1 DEF Copy, Owned, Filled, TypeOK
  <2>2. CASE x # q
    BY <1>0, <1>2, <2>2, SameRing DEF Copy, TypeOK
  <2> QED
    BY <2>1, <2>2
<1>3. ASSUME NEW q \in Queue, WriteCommit(q) PROVE Owned(x)'
  <2>1. CASE x = q
    BY <1>0, <1>3, <2>1 DEF WriteCommit, Owned, Filled, TypeOK, Succ
  <2>2. CASE x # q
    BY <1>0, <1>3, <2>2, SameRing DEF WriteCommit, TypeOK
  <2> QED
    BY <2>1, <2>2
<1>4. CASE Read
  <2>1. CASE readCommit /\ x = tid
    <3>1. r[x] # w[x]
      BY <2>1 DEF PInv, HandedOut
    <3>2. /\ r'[x] = Succ(r[x]) /\ w' = w /\ elements' = elements /\ writer' = writer
          /\ r[x] \in Slot /\ w[x] \in Slot
      BY <1>0, <1>4, <2>1 DEF Read, TypeOK
    <3>3. writer'[x] # "idle" => Succ(w'[x]) # r'[x]
      BY <3>1, <3>2 DEF Succ
    <3>4. ASSUME NEW i \in Slot, Filled(x, i)' PROVE Filled(x, i)
      BY <3>1, <3>2, <3>4 DEF Filled, Succ
    <3> QED
      BY <1>0, <3>2, <3>3, <3>4 DEF Owned
  <2>2. CASE ~(readCommit /\ x = tid)
    BY <1>0, <1>4, <2>2, SameRing DEF Read, TypeOK
  <2> QED
    BY <2>1, <2>2
<1>5. CASE Found
  BY <1>0, <1>5, SameRing DEF Found, rings
<1>6. CASE Empty
  BY <1>0, <1>6, SameRing DEF Empty, rings
<1>7. CASE UNCHANGED vars
  BY <1>0, <1>7, SameRing DEF vars
<1> QED
  BY <1>1, <1>2, <1>3, <1>4, <1>5, <1>6, <1>7 DEF Next, Worker, Reader

-----------------------------------------------------------------------------
(* What the user holds. *)

(* A worker never changes the slot the reader is at, and never makes the   *)
(* ring look empty.                                                        *)
LEMMA WorkerKeepsHead ==
  ASSUME PInv, NEW q \in Queue, Worker(q), NEW x \in Queue, r[x] # w[x]
  PROVE  r'[x] = r[x] /\ r'[x] # w'[x] /\ elements'[x][r[x]] = elements[x][r[x]]
<1> USE PfifoAssumption DEF PInv, TypeOK
<1>1. CASE Write(q)
  BY <1>1 DEF Write
<1>2. CASE Copy(q)
  BY <1>2 DEF Copy
<1>3. CASE WriteCommit(q)
  BY <1>3 DEF WriteCommit, Ownership, Owned
<1> QED
  BY <1>1, <1>2, <1>3 DEF Worker

LEMMA HandedOutStep == PInv /\ [Next]_vars => HandedOut'
<1> SUFFICES ASSUME PInv, [Next]_vars PROVE HandedOut'
  OBVIOUS
<1> USE PfifoAssumption
<1>1. ASSUME NEW q \in Queue, Worker(q) PROVE HandedOut'
  <2>1. UNCHANGED cursor
    BY <1>1 DEF Worker, Write, Copy, WriteCommit
  <2>2. CASE readCommit
    <3>1. tid \in Queue /\ r[tid] # w[tid]
      BY <2>2 DEF PInv, TypeOK, HandedOut
    <3> QED
      BY <1>1, <2>1, <2>2, <3>1, WorkerKeepsHead DEF PInv, HandedOut, cursor
  <2>3. CASE ~readCommit
    BY <2>1, <2>3 DEF PInv, HandedOut, cursor
  <2> QED
    BY <2>2, <2>3
<1>2. CASE Read
  BY <1>2 DEF Read, HandedOut
<1>3. CASE Found
  BY <1>3 DEF Found, HandedOut, rings
<1>4. CASE Empty
  BY <1>4 DEF Empty, HandedOut, PInv, TypeOK
<1>5. CASE UNCHANGED vars
  BY <1>5 DEF vars, HandedOut, PInv
<1> QED
  BY <1>1, <1>2, <1>3, <1>4, <1>5 DEF Next, Reader

-----------------------------------------------------------------------------
(* The inductive invariant of the rings and their reader.                  *)
THEOREM RingInvariant == Spec => []PInv
<1>1. PInv /\ [Next]_vars => PInv'
  BY TypeStep, OwnershipStep, HandedOutStep DEF PInv
<1> QED
  BY InitPInv, <1>1, PTL DEF Spec

-----------------------------------------------------------------------------
(* The search of a call. *)

(* Moving on brings every other ring one step nearer.                      *)
LEMMA NextTidNearer ==
  ASSUME TypeOK, NEW q \in Queue, q # tid, tid' = NextTid(tid)
  PROVE  Ahead(q)' = Ahead(q) - 1
BY PfifoAssumption DEF TypeOK, Queue, NextTid, Ahead

(* The way from one ring to another, and the ring with none before it.     *)
LEMMA RoundBounds ==
  ASSUME NEW t \in Queue, NEW q \in Queue,
         NEW a, a = IF t <= q THEN q - t ELSE NumQueues - (t - q)
  PROVE  a \in 0 .. NumQueues - 1 /\ (a = 0 => q = t)
BY PfifoAssumption DEF Queue

LEMMA AheadBounds ==
  ASSUME TypeOK, NEW q \in Queue
  PROVE  Ahead(q) \in 0 .. NumQueues - 1 /\ (Ahead(q) = 0 => q = tid)
BY RoundBounds DEF TypeOK, Ahead

(* A call begins with every ring before it.                                *)
LEMMA ReadSearches ==
  ASSUME PInv, Read PROVE Searching' /\ NullMeansEmpty'
<1>1. TypeOK'
  BY TypeStep DEF PInv, Next, Reader
<1>2. scanned' = 0 /\ waiting' = {q \in Queue : r'[q] # w'[q]}
  BY DEF Read
<1>3. ASSUME NEW q \in waiting' PROVE Ahead(q)' < NumQueues
  <2>1. q \in Queue
    BY <1>2, <1>3
  <2>2. tid' \in Queue
    BY <1>1 DEF TypeOK
  <2>3. Ahead(q)' = IF tid' <= q THEN q - tid' ELSE NumQueues - (tid' - q)
    BY DEF Ahead
  <2>4. Ahead(q)' \in 0 .. NumQueues - 1
    BY <2>1, <2>2, <2>3, RoundBounds
  <2> QED
    BY <2>4, PfifoAssumption
<1>4. Searching'
  BY <1>2, <1>3, PfifoAssumption DEF Searching
<1> QED
  BY <1>2, <1>4, PfifoAssumption DEF NullMeansEmpty

(* An empty ring was not one of those with a packet; the others come       *)
(* nearer, and after the last ring there is none left.                     *)
LEMMA EmptySearches ==
  ASSUME PInv, Searching, Empty PROVE Searching' /\ NullMeansEmpty'
<1>1. /\ reader = "scan" /\ r[tid] = w[tid] /\ tid' = NextTid(tid)
      /\ scanned' = scanned + 1 /\ scanned \in Nat /\ scanned < NumQueues
      /\ reader' = (IF scanned + 1 = NumQueues THEN "user" ELSE "scan")
      /\ r' = r /\ w' = w /\ waiting' = waiting
  BY PfifoAssumption DEF Empty, rings, PInv, TypeOK, HandedOut
<1>2. ASSUME NEW q \in waiting
      PROVE  /\ q \in Queue /\ r[q] # w[q]
             /\ Ahead(q)' = Ahead(q) - 1 /\ Ahead(q) \in 1 .. NumQueues - 1
             /\ Ahead(q) < NumQueues - scanned
  <2>1. q \in Queue /\ r[q] # w[q] /\ Ahead(q) < NumQueues - scanned
    BY <1>1 DEF Searching, PInv, TypeOK
  <2>2. q # tid
    BY <1>1, <2>1
  <2>3. Ahead(q)' = Ahead(q) - 1
    BY <1>1, <2>1, <2>2, NextTidNearer DEF PInv
  <2>4. Ahead(q) \in 0 .. NumQueues - 1 /\ Ahead(q) # 0
    BY <2>1, <2>2, AheadBounds DEF PInv
  <2> QED
    BY <2>1, <2>3, <2>4
<1>3. Searching'
  <2> SUFFICES ASSUME NEW q \in waiting
               PROVE  r[q] # w[q] /\ Ahead(q)' < NumQueues - (scanned + 1)
    BY <1>1 DEF Searching
  <2> QED
    BY <1>1, <1>2, PfifoAssumption
<1>4. ASSUME scanned + 1 = NumQueues, NEW q \in waiting PROVE FALSE
  BY <1>1, <1>2, <1>4, PfifoAssumption
<1> QED
  BY <1>1, <1>3, <1>4 DEF NullMeansEmpty

(* A worker empties no ring and does not move the search.                  *)
LEMMA WorkerSearches ==
  ASSUME PInv, Searching, NullMeansEmpty, NEW q \in Queue, Worker(q)
  PROVE  Searching' /\ NullMeansEmpty'
<1>1. UNCHANGED cursor
  BY DEF Worker, Write, Copy, WriteCommit
<1>2. \A x \in waiting : x \in Queue /\ Ahead(x)' = Ahead(x)
  BY <1>1 DEF PInv, TypeOK, cursor, Ahead
<1>3. \A x \in Queue : r[x] # w[x] => r'[x] # w'[x]
  BY WorkerKeepsHead
<1>4. Searching'
  BY <1>1, <1>2, <1>3 DEF Searching, cursor
<1> QED
  BY <1>1, <1>4 DEF NullMeansEmpty, cursor

LEMMA SearchStep == SearchInv /\ [Next]_vars => SearchInv'
<1> SUFFICES ASSUME SearchInv, [Next]_vars PROVE SearchInv'
  OBVIOUS
<1>1. PInv /\ Searching /\ NullMeansEmpty
  BY DEF SearchInv
<1>2. PInv'
  BY <1>1, TypeStep, OwnershipStep, HandedOutStep DEF PInv
<1>3. ASSUME NEW q \in Queue, Worker(q) PROVE Searching' /\ NullMeansEmpty'
  BY <1>1, <1>3, WorkerSearches
<1>4. CASE Read
  BY <1>1, <1>2, <1>4, ReadSearches DEF SearchInv
<1>5. CASE Found
  <2>1. reader' = "user" /\ scanned' = 0
    BY <1>5 DEF Found
  <2>2. Searching' /\ NullMeansEmpty'
    BY <2>1, PfifoAssumption DEF Searching, NullMeansEmpty
  <2> QED
    BY <1>2, <2>2 DEF SearchInv
<1>6. CASE Empty
  BY <1>1, <1>2, <1>6, EmptySearches DEF SearchInv
<1>7. CASE UNCHANGED vars
  <2>1. \A x \in waiting : Ahead(x)' = Ahead(x)
    BY <1>7 DEF vars, Ahead
  <2>2. Searching' /\ NullMeansEmpty'
    BY <1>1, <1>7, <2>1 DEF vars, Searching, NullMeansEmpty
  <2> QED
    BY <1>2, <2>2 DEF SearchInv
<1> QED
  BY <1>2, <1>3, <1>4, <1>5, <1>6, <1>7 DEF SearchInv, Next, Reader

(* The inductive invariant of the search: rings that held a packet when    *)
(* the call began are still before the reader.                             *)
THEOREM SearchInvariant == Spec => []SearchInv
<1>1. Init => SearchInv
  <2> SUFFICES ASSUME Init PROVE SearchInv
    OBVIOUS
  <2>1. reader = "user" /\ scanned = 0 /\ waiting = {}
    BY DEF Init
  <2> QED
    BY <2>1, InitPInv DEF SearchInv, Searching, NullMeansEmpty
<1> QED
  BY <1>1, SearchStep, PTL DEF Spec

(* A call that returns NULL began with every ring empty, for every number  *)
(* of rings and any ring to begin with: the loop looks at each ring once.  *)
THEOREM NullReturnsAreRight == Spec => []NullMeansEmpty
<1>1. SearchInv => NullMeansEmpty
  BY DEF SearchInv
<1> QED
  BY SearchInvariant, <1>1, PTL

(* Positions stay inside the rings.                                        *)
THEOREM RingTypes == Spec => []TypeOK
<1>1. PInv => TypeOK
  BY DEF PInv
<1> QED
  BY RingInvariant, <1>1, PTL

(* The packet pfifo_read handed out is not touched until the next call.    *)
THEOREM HeldPacketIntact == Spec => []HeldIntact
<1>1. PInv => HeldIntact
  <2> SUFFICES ASSUME PInv, readCommit PROVE
        /\ held \in Packet /\ elements[tid][r[tid]] = held
        /\ ~(writer[tid] # "idle" /\ w[tid] = r[tid])
    BY DEF HeldIntact
  <2>1. tid \in Queue /\ r[tid] # w[tid] /\ held = elements[tid][r[tid]]
    BY DEF PInv, TypeOK, HandedOut
  <2>2. r[tid] \in Slot /\ w[tid] \in Slot
    BY <2>1 DEF PInv, TypeOK
  <2>3. Filled(tid, r[tid])
    BY <2>1, <2>2, PfifoAssumption DEF Filled
  <2> QED
    BY <2>1, <2>2, <2>3 DEF PInv, Ownership, Owned
<1> QED
  BY RingInvariant, <1>1, PTL

-----------------------------------------------------------------------------
(* A ring as a queue. *)

(* pfifo_get_cnt counts the packets, and is 0 just when pfifo_read has none.*)
LEMMA CntBounds ==
  ASSUME TypeOK, NEW q \in Queue
  PROVE  /\ Cnt(q) \in 0 .. Size - 1
         /\ Cnt(q) = 0 <=> r[q] = w[q]
<1>1. r[q] \in Slot /\ w[q] \in Slot
  BY DEF TypeOK
<1> QED
  BY <1>1, PfifoAssumption DEF Cnt

(* The k-th packet lies in a slot of the reader.                           *)
LEMMA AtFilled ==
  ASSUME TypeOK, NEW q \in Queue, NEW k \in 1 .. Cnt(q)
  PROVE  At(q, k - 1) \in Slot /\ Filled(q, At(q, k - 1))
<1>1. r[q] \in Slot /\ w[q] \in Slot
  BY DEF TypeOK
<1> QED
  BY <1>1, PfifoAssumption DEF Cnt, At, Filled

(* A ring holds a sequence of packets, never one that is half written.     *)
LEMMA ContentsSeq ==
  ASSUME PInv, NEW q \in Queue
  PROVE  Contents(q) \in Seq(Packet) /\ Len(Contents(q)) = Cnt(q)
<1>1. Cnt(q) \in Nat
  BY CntBounds, PfifoAssumption DEF PInv
<1>2. \A k \in 1 .. Cnt(q) : elements[q][At(q, k - 1)] \in Packet
  BY AtFilled DEF PInv, Ownership, Owned
<1>3. Contents(q) \in [1 .. Cnt(q) -> Packet]
  BY <1>2 DEF Contents
<1> QED
  BY <1>1, <1>3

(* A queue stays as it is when its positions and the slots between them do.*)
LEMMA SameContents ==
  ASSUME TypeOK, NEW q \in Queue, r'[q] = r[q], w'[q] = w[q],
         \A i \in Slot : Filled(q, i) => elements'[q][i] = elements[q][i]
  PROVE  Contents(q)' = Contents(q)
<1>1. Cnt(q)' = Cnt(q)
  BY DEF Cnt
<1>2. \A k \in 1 .. Cnt(q) : elements'[q][At(q, k - 1)'] = elements[q][At(q, k - 1)]
  BY AtFilled DEF At
<1> QED
  BY <1>1, <1>2 DEF Contents

(* Writing into the slot at w is not seen.                                 *)
LEMMA WritingUnseen ==
  ASSUME PInv, NEW q \in Queue, Write(q) \/ Copy(q), NEW x \in Queue
  PROVE  Contents(x)' = Contents(x)
<1>1. TypeOK
  BY DEF PInv
<1>2. ~Filled(q, w[q])
  BY <1>1, PfifoAssumption DEF Filled, TypeOK
<1>3. r'[x] = r[x] /\ w'[x] = w[x]
  BY DEF Write, Copy
<1>4. \A i \in Slot : Filled(x, i) => elements'[x][i] = elements[x][i]
  <2>1. CASE x = q
    <3>1. w[q] \in Slot
      BY <1>1 DEF TypeOK
    <3>2. /\ elements \in [Queue -> [Slot -> Packet \cup {Junk}]]
          /\ elements[q] \in [Slot -> Packet \cup {Junk}]
      BY <1>1 DEF TypeOK
    <3>3. \E p : elements' = [elements EXCEPT ![q][w[q]] = p]
      BY DEF Write, Copy
    <3>4. PICK p : elements' = [elements EXCEPT ![q] = [elements[q] EXCEPT ![w[q]] = p]]
      BY <3>3
    <3>5. elements'[q] = [elements[q] EXCEPT ![w[q]] = p]
      BY <3>2, <3>4
    <3> QED
      BY <1>2, <2>1, <3>1, <3>2, <3>5
  <2>2. CASE x # q
    BY <1>1, <2>2 DEF Write, Copy, TypeOK
  <2> QED
    BY <2>1, <2>2
<1> QED
  BY <1>1, <1>3, <1>4, SameContents

(* A commit appends the packet in the slot at w, and there was room.       *)
LEMMA CommitAppends ==
  ASSUME PInv, NEW q \in Queue, WriteCommit(q)
  PROVE  /\ Len(Contents(q)) < Size - 1
         /\ elements[q][w[q]] \in Packet
         /\ Contents(q)' = Append(Contents(q), elements[q][w[q]])
<1>1. TypeOK /\ r[q] \in Slot /\ w[q] \in Slot
  BY DEF PInv, TypeOK
<1>2. Succ(w[q]) # r[q] /\ elements[q][w[q]] \in Packet
  BY DEF PInv, Ownership, Owned, WriteCommit
<1>3. r'[q] = r[q] /\ w'[q] = Succ(w[q]) /\ elements' = elements
  BY <1>1 DEF WriteCommit, TypeOK
<1>4. Cnt(q) < Size - 1 /\ Cnt(q)' = Cnt(q) + 1 /\ At(q, Cnt(q)) = w[q]
  BY <1>1, <1>2, <1>3, PfifoAssumption DEF Cnt, At, Succ
<1>5. Contents(q) \in Seq(Packet) /\ Len(Contents(q)) = Cnt(q) /\ Cnt(q) \in Nat
  BY ContentsSeq, CntBounds, <1>1, PfifoAssumption
<1>6. \A k \in 1 .. Cnt(q) + 1 :
        elements'[q][At(q, k - 1)'] =
          IF k <= Cnt(q) THEN elements[q][At(q, k - 1)] ELSE elements[q][w[q]]
  BY <1>3, <1>4, <1>5 DEF At
<1>7. Contents(q)' = [k \in 1 .. Cnt(q) + 1 |->
        IF k <= Cnt(q) THEN elements[q][At(q, k - 1)] ELSE elements[q][w[q]]]
  BY <1>4, <1>6 DEF Contents
<1>8. Append(Contents(q), elements[q][w[q]]) = [k \in 1 .. Cnt(q) + 1 |->
        IF k <= Cnt(q) THEN Contents(q)[k] ELSE elements[q][w[q]]]
  BY <1>2, <1>5
<1>9. \A k \in 1 .. Cnt(q) : Contents(q)[k] = elements[q][At(q, k - 1)]
  BY DEF Contents
<1>10. \A k \in 1 .. Cnt(q) + 1 : k <= Cnt(q) => k \in 1 .. Cnt(q)
  BY <1>5
<1>11. Contents(q)' = Append(Contents(q), elements[q][w[q]])
  BY <1>7, <1>8, <1>9, <1>10
<1> QED
  BY <1>2, <1>4, <1>5, <1>11

(* The first packet of a ring is the one at r.                             *)
LEMMA HeadAtReader ==
  ASSUME PInv, NEW q \in Queue, r[q] # w[q]
  PROVE  Contents(q) # <<>> /\ Head(Contents(q)) = elements[q][r[q]]
<1>1. TypeOK /\ r[q] \in Slot
  BY DEF PInv, TypeOK
<1>2. Cnt(q) \in Nat /\ Cnt(q) > 0
  BY <1>1, CntBounds, PfifoAssumption
<1>3. Contents(q) \in Seq(Packet) /\ Len(Contents(q)) = Cnt(q)
  BY ContentsSeq
<1>4. Contents(q)[1] = elements[q][At(q, 0)]
  BY <1>2 DEF Contents
<1>5. At(q, 0) = r[q]
  BY <1>1, PfifoAssumption DEF At
<1> QED
  BY <1>2, <1>3, <1>4, <1>5

(* Ending the use of a packet removes it from the front.                   *)
LEMMA AdvanceRemoves ==
  ASSUME PInv, NEW q \in Queue, r[q] # w[q],
         r'[q] = Succ(r[q]), w'[q] = w[q], elements' = elements
  PROVE  Contents(q)' = Tail(Contents(q))
<1>1. TypeOK /\ r[q] \in Slot /\ w[q] \in Slot
  BY DEF PInv, TypeOK
<1>2. Cnt(q) \in Nat /\ Cnt(q) > 0 /\ Cnt(q) < Size
  BY <1>1, CntBounds, PfifoAssumption
<1>3. Cnt(q)' = Cnt(q) - 1
  BY <1>1, PfifoAssumption DEF Cnt, Succ
<1>4. \A k \in 1 .. Cnt(q) - 1 : At(q, k - 1)' = At(q, k)
  BY <1>1, <1>2, PfifoAssumption DEF At, Succ
<1>5. Contents(q) \in Seq(Packet) /\ Len(Contents(q)) = Cnt(q)
  BY ContentsSeq
<1>6. Tail(Contents(q)) = [k \in 1 .. Cnt(q) - 1 |-> Contents(q)[k + 1]]
  <2>1. Contents(q) # <<>>
    BY <1>2, <1>5
  <2>2. /\ Tail(Contents(q)) \in Seq(Packet)
        /\ Len(Tail(Contents(q))) = Cnt(q) - 1
        /\ \A k \in 1 .. Cnt(q) - 1 : Tail(Contents(q))[k] = Contents(q)[k + 1]
    BY <1>5, <2>1, HeadTailProperties
  <2>3. Tail(Contents(q)) \in [1 .. Cnt(q) - 1 -> Packet]
    BY <2>2, LenProperties
  <2>4. DOMAIN Tail(Contents(q)) = 1 .. Cnt(q) - 1
    BY <2>3
  <2>5. Tail(Contents(q)) = [k \in 1 .. Cnt(q) - 1 |-> Tail(Contents(q))[k]]
    BY <2>3, <2>4, Zenon
  <2> QED
    BY <2>2, <2>5, Zenon
<1>7. \A k \in 1 .. Cnt(q) - 1 : Contents(q)[k + 1] = elements[q][At(q, k)]
  BY <1>2 DEF Contents
<1>8. Contents(q)' = [k \in 1 .. Cnt(q) - 1 |-> elements[q][At(q, k)]]
  BY <1>3, <1>4 DEF Contents
<1> QED
  BY <1>6, <1>7, <1>8

-----------------------------------------------------------------------------
(* The rings implement the queues. *)

(* The mapping of the refinement: the state of the queues is read off the  *)
(* rings, and the packet handed out off the reader.                        *)
AsQueues == [q \in Queue |-> Contents(q)]
AsOut    == IF readCommit THEN <<tid, held>> ELSE Nothing

(* A step that changes no contents and hands nothing out or back.          *)
LEMMA Stutter ==
  ASSUME AsOut' = AsOut, \A q \in Queue : Contents(q)' = Contents(q)
  PROVE  UNCHANGED Queues!qvars
BY DEF Queues!qvars, AsOut

(* A queue may change when the others do not.                              *)
LEMMA OneQueue ==
  ASSUME NEW q \in Queue, NEW s, Contents(q)' = s,
         \A x \in Queue : x # q => Contents(x)' = Contents(x)
  PROVE  AsQueues' = [AsQueues EXCEPT ![q] = s]
BY DEF AsQueues

(* Every ring is empty at the start.                                       *)
LEMMA QueuesInit == Init => Queues!QInit
<1> SUFFICES ASSUME Init PROVE Queues!QInit
  OBVIOUS
<1>1. \A q \in Queue : Contents(q) = <<>>
  <2> SUFFICES ASSUME NEW q \in Queue PROVE Contents(q) = <<>>
    OBVIOUS
  <2>1. TypeOK /\ r[q] = w[q]
    BY InitPInv DEF PInv, Init
  <2>2. Cnt(q) = 0
    BY <2>1, CntBounds
  <2>3. 1 .. Cnt(q) = {}
    BY <2>2
  <2> QED
    BY <2>3 DEF Contents
<1> QED
  BY <1>1 DEF Queues!QInit, Init

(* A commit is a Put.                                                      *)
LEMMA CommitPuts ==
  ASSUME PInv, NEW q \in Queue, WriteCommit(q) PROVE Queues!Put(q)
<1>1. /\ Len(Contents(q)) < Size - 1
      /\ elements[q][w[q]] \in Packet
      /\ Contents(q)' = Append(Contents(q), elements[q][w[q]])
  BY CommitAppends
<1>2. \A x \in Queue : x # q => Contents(x)' = Contents(x)
  <2> SUFFICES ASSUME NEW x \in Queue, x # q PROVE Contents(x)' = Contents(x)
    OBVIOUS
  <2>1. TypeOK /\ r'[x] = r[x] /\ w'[x] = w[x] /\ elements' = elements
    BY DEF PInv, TypeOK, WriteCommit
  <2> QED
    BY <2>1, SameContents
<1>3. AsQueues' = [AsQueues EXCEPT ![q] = Append(Contents(q), elements[q][w[q]])]
  BY <1>1, <1>2, OneQueue
<1>4. AsQueues[q] = Contents(q)
  BY DEF AsQueues
<1>5. AsOut' = AsOut
  BY DEF WriteCommit, cursor, AsOut
<1> QED
  BY <1>1, <1>3, <1>4, <1>5 DEF Queues!Put, AsQueues, AsOut

(* Finding a packet is a Give of the ring searched.                        *)
LEMMA FoundGives == ASSUME PInv, Found PROVE Queues!Give(tid)
<1>1. tid \in Queue /\ r[tid] # w[tid] /\ ~readCommit
  BY DEF PInv, TypeOK, HandedOut, Found
<1>2. Contents(tid) # <<>> /\ Head(Contents(tid)) = elements[tid][r[tid]]
  BY <1>1, HeadAtReader
<1>3. \A q \in Queue : Contents(q)' = Contents(q)
  BY SameContents DEF PInv, Found, rings
<1>4. AsOut = Nothing /\ AsOut' = <<tid, Head(Contents(tid))>>
  BY <1>1, <1>2 DEF AsOut, Found
<1>5. AsQueues' = AsQueues /\ AsQueues[tid] = Contents(tid)
  BY <1>1, <1>3 DEF AsQueues
<1> QED
  BY <1>2, <1>4, <1>5 DEF Queues!Give, AsQueues, AsOut

(* The next call takes back the packet handed out, if there is one.        *)
LEMMA ReadTakesBack ==
  ASSUME PInv, Read
  PROVE  (\E q \in Queue : Queues!TakeBack(q)) \/ UNCHANGED Queues!qvars
<1>1. CASE readCommit
  <2>1. PICK q \in Queue : q = tid
    BY DEF PInv, TypeOK
  <2>2. r[q] # w[q] /\ held = elements[q][r[q]]
    BY <1>1, <2>1 DEF PInv, HandedOut
  <2>3. Contents(q) # <<>> /\ Head(Contents(q)) = held
    BY <2>2, HeadAtReader
  <2>4. r' = [r EXCEPT ![q] = Succ(r[q])] /\ w' = w /\ elements' = elements
    BY <1>1, <2>1 DEF Read
  <2>5. r \in [Queue -> Slot] /\ TypeOK
    BY DEF PInv, TypeOK
  <2>6. Contents(q)' = Tail(Contents(q))
    BY <2>2, <2>4, <2>5, AdvanceRemoves
  <2>7. \A x \in Queue : x # q => Contents(x)' = Contents(x)
    BY <2>4, <2>5, SameContents
  <2>8. AsQueues' = [AsQueues EXCEPT ![q] = Tail(Contents(q))]
    BY <2>6, <2>7, OneQueue
  <2>9. AsQueues[q] = Contents(q)
    BY DEF AsQueues
  <2>10. AsOut = <<q, Head(Contents(q))>> /\ AsOut' = Nothing
    BY <1>1, <2>1, <2>3 DEF AsOut, Read
  <2>11. Queues!TakeBack(q)
    BY <2>3, <2>8, <2>9, <2>10 DEF Queues!TakeBack, AsQueues, AsOut
  <2> QED
    BY <2>11
<1>2. CASE ~readCommit
  <2>1. \A q \in Queue : Contents(q)' = Contents(q)
    BY <1>2, SameContents DEF PInv, Read
  <2>2. AsOut' = AsOut
    BY <1>2 DEF AsOut, Read
  <2> QED
    BY <2>1, <2>2, Stutter
<1> QED
  BY <1>1, <1>2

(* A step of the rings is a step of the queues, or none.                   *)
LEMMA QueuesStep ==
  ASSUME PInv, [Next]_vars
  PROVE  [Queues!QNext]_(Queues!qvars)
<1>1. ASSUME NEW q \in Queue, Write(q) \/ Copy(q) PROVE UNCHANGED Queues!qvars
  <2>1. \A x \in Queue : Contents(x)' = Contents(x)
    BY <1>1, WritingUnseen
  <2>2. AsOut' = AsOut
    BY <1>1 DEF Write, Copy, cursor, AsOut
  <2> QED
    BY <2>1, <2>2, Stutter
<1>2. ASSUME NEW q \in Queue, WriteCommit(q) PROVE Queues!Put(q)
  BY <1>2, CommitPuts
<1>3. CASE Read
  BY <1>3, ReadTakesBack DEF Queues!QNext
<1>4. CASE Found
  <2>1. tid \in Queue
    BY DEF PInv, TypeOK
  <2> QED
    BY <1>4, <2>1, FoundGives DEF Queues!QNext
<1>5. CASE Empty
  <2>1. ~readCommit
    BY <1>5 DEF PInv, HandedOut, Empty
  <2>2. \A q \in Queue : Contents(q)' = Contents(q)
    BY <1>5, SameContents DEF PInv, Empty, rings
  <2>3. AsOut' = AsOut
    BY <1>5, <2>1 DEF AsOut, Empty
  <2> QED
    BY <2>2, <2>3, Stutter
<1>6. CASE UNCHANGED vars
  <2>1. \A q \in Queue : Contents(q)' = Contents(q)
    BY <1>6, SameContents DEF PInv, vars
  <2>2. AsOut' = AsOut
    BY <1>6 DEF AsOut, vars
  <2> QED
    BY <2>1, <2>2, Stutter
<1> QED
  BY <1>1, <1>2, <1>3, <1>4, <1>5, <1>6 DEF Next, Worker, Reader, Queues!QNext

(* Each ring is a bounded queue: every packet accepted is handed out, in   *)
(* the order of arrival and once, and stays whole until it is given back.  *)
THEOREM RingsAreQueues == Spec => ImplementsQueues
<1>1. PInv /\ [Next]_vars => [Queues!QNext]_(Queues!qvars)
  BY QueuesStep
<1> QED
  BY QueuesInit, <1>1, RingInvariant, PTL DEF Spec, ImplementsQueues, Queues!QSpec
=============================================================================
