------------------------------- MODULE Pfifo --------------------------------
(***************************************************************************)
(* The rings of lch/util/pfifo.c between the worker threads of             *)
(* lch/adapter/adapter_mpipe.c, one writer for each ring, and the thread   *)
(* that calls adapter_mpipe_read.  There is no lock: the writer owns w and *)
(* the slot at w, the reader owns r and the slots from r up to w.          *)
(*                                                                         *)
(* Accesses are steps in program order: smp_wmb comes between the copy and *)
(* the store to w, and a load of w is used by a branch before the packet is*)
(* read.  The bytes of a packet are written over several steps of other    *)
(* threads, so its slot is Junk from pfifo_write to the end of the copy.   *)
(***************************************************************************)
EXTENDS Naturals, Sequences

CONSTANTS
  NumQueues, \* ctl->numiqueues
  Size,      \* ctrl->size
  Packet,    \* what is written
  Junk,      \* a slot never written, freed, or half written
  Nothing    \* NULL

ASSUME PfifoAssumption ==
  /\ NumQueues \in Nat \ {0}
  /\ Size \in Nat /\ Size > 1
  /\ Junk \notin Packet /\ Nothing \notin Packet

Queue == 0 .. NumQueues - 1
Slot  == 0 .. Size - 1

VARIABLES
  r, w,       \* ctrl->r and ctrl->w of each ring
  elements,   \* contents of the slots of each ring
  writer,     \* the worker of each ring: "idle", "copy" or "commit"
  reader,     \* "user", or "scan" inside adapter_mpipe_read
  readCommit, \* static read_commit
  tid,        \* static tid
  scanned,    \* i, the rings found empty in this call, or in the one that gave NULL
  held,       \* the packet the user was given, as it was then
  waiting     \* history: the rings that held a packet when the call began, until it finds one

rings  == <<r, w, elements, writer>>
cursor == <<reader, readCommit, tid, scanned, held, waiting>>
vars   == <<r, w, elements, writer, reader, readCommit, tid, scanned, held, waiting>>

Succ(i)    == IF i + 1 = Size THEN 0 ELSE i + 1
NextTid(q) == IF q + 1 = NumQueues THEN 0 ELSE q + 1

(* pfifo_get_cnt *)
Cnt(q) == IF r[q] <= w[q] THEN w[q] - r[q] ELSE Size - (r[q] - w[q])

Init ==
  /\ r = [q \in Queue |-> 0] /\ w = [q \in Queue |-> 0]
  /\ elements = [q \in Queue |-> [i \in Slot |-> Junk]]
  /\ writer = [q \in Queue |-> "idle"]
  /\ reader = "user" /\ readCommit = FALSE /\ tid = 0
  /\ scanned = 0 /\ held = Nothing /\ waiting = {}

-----------------------------------------------------------------------------
(* pkt_cb_default in a worker thread. *)

\* Mistaken: all slots are used, so that a full ring looks empty.
Write_AllSlots(q) ==
  /\ writer[q] = "idle"
  /\ writer' = [writer EXCEPT ![q] = "copy"]
  /\ elements' = [elements EXCEPT ![q][w[q]] = Junk]
  /\ UNCHANGED <<r, w, cursor>>

(* pfifo_write: the slot at w, unless the ring is full and the packet is   *)
(* counted in rfull; a packet longer than avpsize gets new memory first.   *)
Write(q) ==
  /\ writer[q] = "idle" /\ Succ(w[q]) # r[q]
  /\ writer' = [writer EXCEPT ![q] = "copy"]
  /\ elements' = [elements EXCEPT ![q][w[q]] = Junk]
  /\ UNCHANGED <<r, w, cursor>>

(* memcpy *)
Copy(q) ==
  /\ writer[q] = "copy"
  /\ \E p \in Packet : elements' = [elements EXCEPT ![q][w[q]] = p]
  /\ writer' = [writer EXCEPT ![q] = "commit"]
  /\ UNCHANGED <<r, w, cursor>>

(* pfifo_write_commit *)
WriteCommit(q) ==
  /\ writer[q] = "commit"
  /\ w' = [w EXCEPT ![q] = Succ(@)]
  /\ writer' = [writer EXCEPT ![q] = "idle"]
  /\ UNCHANGED <<r, elements, cursor>>

-----------------------------------------------------------------------------
(* adapter_mpipe_read *)

\* Mistaken: the search goes on in the ring that was served.
Read_SameQueue ==
  /\ reader = "user"
  /\ reader' = "scan" /\ scanned' = 0
  /\ readCommit' = FALSE /\ held' = Nothing
  /\ r' = IF readCommit THEN [r EXCEPT ![tid] = Succ(@)] ELSE r
  /\ waiting' = {q \in Queue : r'[q] # w[q]}
  /\ UNCHANGED <<w, elements, writer, tid>>

(* The call ends the use of the packet handed out before                   *)
(* (pfifo_read_commit) and moves on to the next ring.                      *)
Read ==
  /\ reader = "user"
  /\ reader' = "scan" /\ scanned' = 0
  /\ readCommit' = FALSE /\ held' = Nothing
  /\ r'   = IF readCommit THEN [r EXCEPT ![tid] = Succ(@)] ELSE r
  /\ tid' = IF readCommit THEN NextTid(tid) ELSE tid
  /\ waiting' = {q \in Queue : r'[q] # w[q]}
  /\ UNCHANGED <<w, elements, writer>>

\* Mistaken: the slot is given back while the user holds the packet.
Found_Commit ==
  /\ reader = "scan" /\ r[tid] # w[tid]
  /\ held' = elements[tid][r[tid]]
  /\ r' = [r EXCEPT ![tid] = Succ(@)]
  /\ readCommit' = TRUE /\ reader' = "user"
  /\ scanned' = 0 /\ waiting' = {}
  /\ UNCHANGED <<w, elements, writer, tid>>

(* pfifo_read returns the slot at r.                                       *)
Found ==
  /\ reader = "scan" /\ r[tid] # w[tid]
  /\ held' = elements[tid][r[tid]]
  /\ readCommit' = TRUE /\ reader' = "user"
  /\ scanned' = 0 /\ waiting' = {}
  /\ UNCHANGED <<rings, tid>>

\* Mistaken: the search does not move on from an empty ring.
Empty_Stay ==
  /\ reader = "scan" /\ r[tid] = w[tid]
  /\ scanned' = scanned + 1
  /\ reader' = IF scanned + 1 = NumQueues THEN "user" ELSE "scan"
  /\ UNCHANGED <<rings, readCommit, tid, held, waiting>>

(* pfifo_read returns NULL; when all rings were searched, the call returns *)
(* NULL too.                                                               *)
Empty ==
  /\ reader = "scan" /\ r[tid] = w[tid]
  /\ tid' = NextTid(tid)
  /\ scanned' = scanned + 1
  /\ reader' = IF scanned + 1 = NumQueues THEN "user" ELSE "scan"
  /\ UNCHANGED <<rings, readCommit, held, waiting>>

-----------------------------------------------------------------------------
Worker(q) == Write(q) \/ Copy(q) \/ WriteCommit(q)
Reader    == Read \/ Found \/ Empty

Next == Reader \/ \E q \in Queue : Worker(q)

Spec == Init /\ [][Next]_vars

(* The user calls adapter_mpipe_read again and again.  Workers may stop.   *)
FairSpec == Spec /\ WF_vars(Reader)

-----------------------------------------------------------------------------
(* Properties. *)

(* Positions are slots, the reader is in one of its two places.            *)
TypeOK ==
  /\ r \in [Queue -> Slot] /\ w \in [Queue -> Slot]
  /\ elements \in [Queue -> [Slot -> Packet \cup {Junk}]]
  /\ writer \in [Queue -> {"idle", "copy", "commit"}]
  /\ reader \in {"user", "scan"} /\ readCommit \in BOOLEAN
  /\ tid \in Queue /\ scanned \in 0 .. NumQueues
  /\ held \in Packet \cup {Junk, Nothing} /\ waiting \subseteq Queue

(* The packet the user holds is whole and is not written over, freed or    *)
(* reused by a worker until the user calls again, however many packets     *)
(* arrive meanwhile (pfifo_read hands out the slot itself, no copy).       *)
HeldIntact ==
  readCommit => /\ held \in Packet
                /\ elements[tid][r[tid]] = held
                /\ ~(writer[tid] # "idle" /\ w[tid] = r[tid])

(* The slots between r and w.                                              *)
Filled(q, i) == IF r[q] <= w[q] THEN r[q] <= i /\ i < w[q]
                                ELSE r[q] <= i \/ i < w[q]

(* Slots are the writer's or the reader's, never both: the ring never      *)
(* passes for empty by being full, and what lies between r and w is whole. *)
Owned(q) ==
  /\ writer[q] # "idle" => Succ(w[q]) # r[q]
  /\ writer[q] = "commit" => elements[q][w[q]] \in Packet
  /\ \A i \in Slot : Filled(q, i) => elements[q][i] \in Packet

Ownership == \A q \in Queue : Owned(q)

(* Inside a call nothing is handed out, and there are rings to look at.     *)
HandedOut ==
  /\ IF readCommit
     THEN reader = "user" /\ r[tid] # w[tid] /\ held = elements[tid][r[tid]]
     ELSE held = Nothing
  /\ reader = "scan" => scanned < NumQueues

(* The inductive invariant of the rings.                                   *)
PInv == TypeOK /\ Ownership /\ HandedOut

(* How many rings come before ring q in the search.                        *)
Ahead(q) == IF tid <= q THEN q - tid ELSE NumQueues - (tid - q)

(* Rings that held a packet when the call began still hold it, and the     *)
(* search has not passed them.                                             *)
Searching ==
  reader = "scan" =>
    \A q \in waiting : r[q] # w[q] /\ Ahead(q) < NumQueues - scanned

(* adapter_mpipe_read returns NULL only if every ring was empty when it    *)
(* was called (but for the packet then given back), wherever the search    *)
(* began, whatever the workers did meanwhile.                              *)
NullMeansEmpty == reader = "user" /\ scanned = NumQueues => waiting = {}

(* The inductive invariant of the search.                                  *)
SearchInv == PInv /\ Searching /\ NullMeansEmpty

(* Each ring is a bounded queue whose packets come out in order, once.     *)
At(q, k)    == IF r[q] + k < Size THEN r[q] + k ELSE r[q] + k - Size
Contents(q) == [k \in 1 .. Cnt(q) |-> elements[q][At(q, k - 1)]]
Queues == INSTANCE PacketQueues WITH
  Capacity <- Size - 1,
  queue <- [q \in Queue |-> Contents(q)],
  out <- IF readCommit THEN <<tid, held>> ELSE Nothing
ImplementsQueues == Queues!QSpec

(* A ring that holds packets is served, however busy the others are.       *)
Served == \A q \in Queue : \A i \in Slot :
  r[q] = i /\ w[q] # i ~> r[q] # i
=============================================================================
