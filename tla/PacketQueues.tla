---------------------------- MODULE PacketQueues ----------------------------
(***************************************************************************)
(* What the reader of several packet fifos is promised: each is a bounded  *)
(* queue.  A packet handed out stays at the head of its queue, unchanged,  *)
(* until the reader asks for the next one.                                 *)
(***************************************************************************)
EXTENDS Naturals, Sequences

CONSTANTS Queue, Packet, Capacity, Nothing

VARIABLES
  queue, \* the accepted packets of each queue
  out    \* the queue and the packet handed out, or Nothing

qvars == <<queue, out>>

QInit == queue = [q \in Queue |-> <<>>] /\ out = Nothing

Put(q) ==
  /\ Len(queue[q]) < Capacity
  /\ \E p \in Packet : queue' = [queue EXCEPT ![q] = Append(@, p)]
  /\ UNCHANGED out

Give(q) ==
  /\ out = Nothing /\ queue[q] # <<>>
  /\ out' = <<q, Head(queue[q])>>
  /\ UNCHANGED queue

TakeBack(q) ==
  /\ queue[q] # <<>> /\ out = <<q, Head(queue[q])>>
  /\ queue' = [queue EXCEPT ![q] = Tail(@)]
  /\ out' = Nothing

QNext == \E q \in Queue : Put(q) \/ Give(q) \/ TakeBack(q)

QSpec == QInit /\ [][QNext]_qvars
=============================================================================
