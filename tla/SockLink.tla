------------------------------ MODULE SockLink ------------------------------
(***************************************************************************)
(* One client socket (lch/util/csock.c, driven by the threads of           *)
(* mpktconn.c) and the server socket it connects to (ssock.c), with TCP    *)
(* between them.  Packets written at one end are queued, merged, cut into  *)
(* whatever the socket accepts, put together again and queued for reading. *)
(* The client keeps its queues when it reconnects; the server has new ones *)
(* for every connection it accepts.                                        *)
(*                                                                         *)
(* Threads: check, flush_tx and flush_rx of the client, and its writers and*)
(* readers; accept of the server, and check, flush_tx and flush_rx of each *)
(* peer.  csock->lock is held through one call of flush_tx or flush_rx,    *)
(* which loops; here each turn of those loops is a step.  A turn can be the*)
(* last of a call (the socket blocks, or the queue is empty until the next *)
(* write), so another holder of the lock may follow every turn.  The       *)
(* critical sections of conn->wlock and svc->lock are single steps.        *)
(*                                                                         *)
(* A packet is its number; in the stream it is a header and a body, and a  *)
(* heartbeat is a header alone, so that every packet can be torn.  Byte    *)
(* sizes are left out: any number of waiting packets can make a batch.     *)
(***************************************************************************)
EXTENDS Integers, Sequences, SequencesExt, FiniteSets

CONSTANTS
  MaxConn,   \* bound: connections established during a behaviour
  UpN,       \* packets 1 .. UpN are written by the client's user
  DownN,     \* packets 1 .. DownN are written by the server's user
  Heartbeat, \* FALSE with CSSOCK_NO_HEARTBEAT
  TxCap,     \* packets a transmit fifo holds
  RxCap,     \* packets a receive queue holds
  SockCap,   \* pieces the sockets hold in one direction
  RetryWait  \* seconds between two attempts to connect

ASSUME SockLinkAssumption ==
  /\ MaxConn \in Nat \ {0} /\ UpN \in Nat /\ DownN \in Nat
  /\ TxCap \in Nat \ {0} /\ RxCap \in Nat \ {0} /\ SockCap \in Nat \ {0}
  /\ RetryWait \in Nat /\ Heartbeat \in BOOLEAN

ConnId == 1 .. MaxConn
Hb     == 0                      \* PKT_TYPE_HEARTBEAT
Torn   == -1                     \* a packet made of pieces of several packets
Packet == {Hb} \cup 1 .. UpN \cup 1 .. DownN
Piece  == Packet \X {1, 2}

VARIABLES
  \* the client, sock_connection_t of csock.c
  fd,         \* connection of the socket, 0 when conn->fd is -1
  inprogress, \* conn->inprogress
  wait,       \* seconds until conn->prev allows the next attempt
  ctq, ctmp,  \* transmit fifo and txtmpbuf
  cral, crq,  \* rxalignbuf and receive queue
  \* the connections, each named by its number
  net,        \* "none", "syn", "refused", "ok" or "cut"
  up, down,   \* pieces on their way to the server and to the client
  \* the server, a sock_peer for each connection
  peer,       \* "none", "up" linked, "err" with peer->error, "gone" released
  stq, stmp,  \* transmit fifo and txtmpbuf
  sral, srq,  \* rxalignbuf and receive queue
  \* the users
  cnext, snext, \* next packet each user writes
  cgot,       \* packets the client's user has read
  sgot,       \* packets the server's user has read from each connection
  via,        \* connection on which each packet of the client was sent
  full        \* packets dropped because a receive queue was full

client == <<fd, inprogress, wait, ctq, ctmp, cral, crq>>
tcp    == <<net, up, down>>
server == <<peer, stq, stmp, sral, srq>>
users  == <<cnext, snext, cgot, sgot>>
vars   == <<fd, inprogress, wait, ctq, ctmp, cral, crq, net, up, down,
            peer, stq, stmp, sral, srq, cnext, snext, cgot, sgot, via, full>>

-----------------------------------------------------------------------------
(* Packets and pieces. *)

Len2(m)   == IF m = Hb THEN 1 ELSE 2
Pieces(m) == [k \in 1 .. Len2(m) |-> <<m, k>>]
Stream(q) == FlattenSeq([i \in DOMAIN q |-> Pieces(q[i])])

First(s, k) == SubSeq(s, 1, k)
Rest(s, k)  == SubSeq(s, k + 1, Len(s))

(* sock_read_from_socket on the align buffer: what stays in it, and the    *)
(* packet it completes, if any.  A piece that is no header is skipped; a   *)
(* header makes the next pieces its body, whatever they are.               *)
Aligned(ral) ==
  IF ral[1][2] # 1 THEN [rest |-> Tail(ral), got |-> <<>>]
  ELSE IF Len(ral) < Len2(ral[1][1]) THEN [rest |-> ral, got |-> <<>>]
  ELSE [rest |-> <<>>,
        got |-> IF ral[1][1] = Hb THEN <<>>
                ELSE IF ral = Pieces(ral[1][1]) THEN <<ral[1][1]>>
                ELSE <<Torn>>]

Init ==
  /\ fd = 0 /\ inprogress = FALSE /\ wait = 0
  /\ ctq = <<>> /\ ctmp = <<>> /\ cral = <<>> /\ crq = <<>>
  /\ net = [n \in ConnId |-> "none"]
  /\ up = [n \in ConnId |-> <<>>] /\ down = [n \in ConnId |-> <<>>]
  /\ peer = [n \in ConnId |-> "none"]
  /\ stq = [n \in ConnId |-> <<>>] /\ stmp = [n \in ConnId |-> <<>>]
  /\ sral = [n \in ConnId |-> <<>>] /\ srq = [n \in ConnId |-> <<>>]
  /\ cnext = 1 /\ snext = 1
  /\ cgot = <<>> /\ sgot = [n \in ConnId |-> <<>>]
  /\ via = [m \in 1 .. UpN |-> 0]
  /\ full = {}

-----------------------------------------------------------------------------
(* TCP. *)

(* The kernels complete or refuse a connection.                            *)
Handshake(n) ==
  /\ net[n] = "syn"
  /\ \E r \in {"ok", "refused"} : net' = [net EXCEPT ![n] = r]
  /\ UNCHANGED <<client, up, down, server, users, via, full>>

(* The network fails.  Both ends may still read what arrived, and meet the *)
(* error sooner or later.  The last connection of a behaviour holds.       *)
Break(n) ==
  /\ net[n] = "ok" /\ n < MaxConn
  /\ net' = [net EXCEPT ![n] = "cut"]
  /\ UNCHANGED <<client, up, down, server, users, via, full>>

(* What the socket accepts of s, when it holds q: a first part, maybe none. *)
Accepts(q, s) == {k \in 0 .. Len(s) : Len(q) + k <= SockCap}

-----------------------------------------------------------------------------
(* The client. *)

Connected == fd # 0 /\ ~inprogress

ClosedNet ==
  IF fd = 0 THEN UNCHANGED <<net, down>>
  ELSE /\ net' = [net EXCEPT ![fd] = IF @ \in {"ok", "cut"} THEN "cut" ELSE "none"]
       /\ down' = [down EXCEPT ![fd] = <<>>]

\* Mistaken: the rest of a packet to send is kept for the next connection.
Close_KeepTmp(w) ==
  /\ fd' = 0 /\ inprogress' = FALSE
  /\ cral' = <<>> /\ wait' = w
  /\ UNCHANGED <<ctq, ctmp, crq>>
  /\ ClosedNet

\* Mistaken: the first piece of a packet is kept for the next connection.
Close_KeepAlign(w) ==
  /\ fd' = 0 /\ inprogress' = FALSE
  /\ ctmp' = <<>> /\ wait' = w
  /\ UNCHANGED <<ctq, cral, crq>>
  /\ ClosedNet

(* csock_close_socket: the next attempt may come at once (w = 0), what is  *)
(* left of a packet goes, the queues stay.                                 *)
Close(w) ==
  /\ fd' = 0 /\ inprogress' = FALSE
  /\ cral' = <<>> /\ ctmp' = <<>> /\ wait' = w
  /\ UNCHANGED <<ctq, crq>>
  /\ ClosedNet

\* Mistaken: conn->inprogress is looked at before conn->fd.
Create_NotInProgress(n) ==
  /\ fd = 0 /\ wait = 0 /\ ~inprogress
  /\ net[n] = "none" /\ \A k \in 1 .. n - 1 : net[k] # "none"
  /\ wait' = RetryWait
  /\ \/ fd' = n /\ inprogress' = TRUE /\ net' = [net EXCEPT ![n] = "syn"]
     \/ fd' = n /\ inprogress' = FALSE /\ net' = [net EXCEPT ![n] = "ok"]
     \/ UNCHANGED <<fd, inprogress, net>>
  /\ UNCHANGED <<ctq, ctmp, cral, crq, up, down, server, users, via, full>>

(* csock_create_connection: connect() is under way, is done, or fails at   *)
(* once, as may the calls before it.                                       *)
Create(n) ==
  /\ fd = 0 /\ wait = 0
  /\ net[n] = "none" /\ \A k \in 1 .. n - 1 : net[k] # "none"
  /\ wait' = RetryWait
  /\ \/ fd' = n /\ inprogress' = TRUE /\ net' = [net EXCEPT ![n] = "syn"]
     \/ fd' = n /\ inprogress' = FALSE /\ net' = [net EXCEPT ![n] = "ok"]
     \/ UNCHANGED <<fd, inprogress, net>>
  /\ UNCHANGED <<ctq, ctmp, cral, crq, up, down, server, users, via, full>>

(* csock_check_if_established, once select says that the socket is ready.  *)
(* A refused socket is closed, and conn->inprogress stays set.             *)
CheckEstablished ==
  /\ fd # 0 /\ inprogress /\ net[fd] # "syn"
  /\ IF net[fd] = "refused"
     THEN fd' = 0 /\ net' = [net EXCEPT ![fd] = "none"] /\ UNCHANGED inprogress
     ELSE inprogress' = FALSE /\ UNCHANGED <<fd, net>>
  /\ UNCHANGED <<wait, ctq, ctmp, cral, crq, up, down, server, users, via, full>>

(* A second passes.                                                        *)
Tick ==
  /\ wait > 0 /\ wait' = wait - 1
  /\ UNCHANGED <<fd, inprogress, ctq, ctmp, cral, crq, tcp, server, users, via, full>>

(* mpktconn_close_svr, csock_close_socket_lock.                            *)
UserClose ==
  /\ fd = MaxConn => net[fd] # "ok"    \* the last connection holds
  /\ Close(0)
  /\ UNCHANGED <<up, server, users, via, full>>

(* mpktconn_do_check after csock_check_connection returned 1.  A close that *)
(* comes between the two calls does not touch the fifo, and only this      *)
(* thread connects again, so one step stands for both.                     *)
ClientHeartbeat ==
  /\ Heartbeat /\ Connected /\ Len(ctq) < TxCap
  /\ ctq' = Append(ctq, Hb)
  /\ UNCHANGED <<fd, inprogress, wait, ctmp, cral, crq, tcp, server, users, via, full>>

\* Mistaken: the limit of the fifo is not looked at.
ClientWrite_NoLimit ==
  /\ cnext <= UpN
  /\ cnext' = cnext + 1
  /\ ctq' = Append(ctq, cnext)
  /\ UNCHANGED <<fd, inprogress, wait, ctmp, cral, crq, tcp, server, snext, cgot,
                 sgot, via, full>>

(* csock_write, connected or not.  A full fifo drops the packet.           *)
ClientWrite ==
  /\ cnext <= UpN
  /\ cnext' = cnext + 1
  /\ ctq' = IF Len(ctq) < TxCap THEN Append(ctq, cnext) ELSE ctq
  /\ UNCHANGED <<fd, inprogress, wait, ctmp, cral, crq, tcp, server, snext, cgot,
                 sgot, via, full>>

(* csock_read *)
ClientRead ==
  /\ crq # <<>>
  /\ crq' = Tail(crq)
  /\ cgot' = Append(cgot, Head(crq))
  /\ UNCHANGED <<fd, inprogress, wait, ctq, ctmp, cral, tcp, server, cnext, snext,
                 sgot, via, full>>

\* Mistaken: the last packet of a batch is not committed.
ClientSend_NoCommit(j, k) ==
  LET batch == Stream(First(ctq, j)) IN
  /\ Connected /\ ctmp = <<>> /\ j \in 1 .. Len(ctq)
  /\ k \in Accepts(up[fd], batch)
  /\ up' = [up EXCEPT ![fd] = @ \o First(batch, k)]
  /\ ctmp' = Rest(batch, k)
  /\ ctq' = Rest(ctq, j - 1)
  /\ via' = [m \in DOMAIN via |-> IF m \in ToSet(First(ctq, j)) THEN fd ELSE via[m]]
  /\ UNCHANGED <<fd, inprogress, wait, cral, crq, net, down, server, users, full>>

(* csock_flush_tx: the first packets of the fifo are sent together; what   *)
(* the socket does not accept goes to txtmpbuf.                            *)
ClientSend(j, k) ==
  LET batch == Stream(First(ctq, j)) IN
  /\ Connected /\ ctmp = <<>> /\ j \in 1 .. Len(ctq)
  /\ k \in Accepts(up[fd], batch)
  /\ up' = [up EXCEPT ![fd] = @ \o First(batch, k)]
  /\ ctmp' = Rest(batch, k)
  /\ ctq' = Rest(ctq, j)
  /\ via' = [m \in DOMAIN via |-> IF m \in ToSet(First(ctq, j)) THEN fd ELSE via[m]]
  /\ UNCHANGED <<fd, inprogress, wait, cral, crq, net, down, server, users, full>>

\* Mistaken: txtmpbuf is emptied although only a part was sent.
ClientSendTmp_Discard(k) ==
  /\ Connected /\ ctmp # <<>> /\ k \in Accepts(up[fd], ctmp)
  /\ up' = [up EXCEPT ![fd] = @ \o First(ctmp, k)]
  /\ ctmp' = <<>>
  /\ UNCHANGED <<fd, inprogress, wait, ctq, cral, crq, net, down, server, users, via, full>>

(* csock_flush_tx when txtmpbuf is not empty.                              *)
ClientSendTmp(k) ==
  /\ Connected /\ ctmp # <<>> /\ k \in Accepts(up[fd], ctmp)
  /\ up' = [up EXCEPT ![fd] = @ \o First(ctmp, k)]
  /\ ctmp' = Rest(ctmp, k)
  /\ UNCHANGED <<fd, inprogress, wait, ctq, cral, crq, net, down, server, users, via, full>>

(* csock_flush_rx: the next piece is put behind the align buffer.          *)
ClientRecv ==
  /\ Connected /\ down[fd] # <<>>
  /\ LET r == Aligned(Append(cral, Head(down[fd]))) IN
     /\ cral' = r.rest
     /\ crq' = IF Len(crq) < RxCap THEN crq \o r.got ELSE crq
  /\ down' = [down EXCEPT ![fd] = Tail(@)]
  /\ UNCHANGED <<fd, inprogress, wait, ctq, ctmp, net, up, server, users, via, full>>

(* flush_tx or flush_rx meets an error.                                    *)
ClientError ==
  /\ Connected /\ net[fd] = "cut"
  /\ Close(0)
  /\ UNCHANGED <<up, server, users, via, full>>

-----------------------------------------------------------------------------
(* The server. *)

Linked(n) == peer[n] \in {"up", "err"}

(* ssock_accept, in the order in which the connections were completed.     *)
Accept(n) ==
  /\ peer[n] = "none" /\ net[n] \in {"ok", "cut"}
  /\ \A k \in 1 .. n - 1 : peer[k] # "none"
  /\ peer' = [peer EXCEPT ![n] = "up"]
  /\ UNCHANGED <<client, tcp, stq, stmp, sral, srq, users, via, full>>

(* ssock_release_peer for the peers in S, which have left the list: their  *)
(* threads are joined, and the queues go with the connection.              *)
Released(S) ==
  LET Emptied(f) == [n \in ConnId |-> IF n \in S THEN <<>> ELSE f[n]] IN
  /\ peer' = [n \in ConnId |-> IF n \in S THEN "gone" ELSE peer[n]]
  /\ net' = [n \in ConnId |-> IF n \in S THEN "cut" ELSE net[n]]
  /\ up' = Emptied(up) /\ stq' = Emptied(stq) /\ stmp' = Emptied(stmp)
  /\ sral' = Emptied(sral) /\ srq' = Emptied(srq)
  /\ UNCHANGED <<client, down, users, via, full>>

\* Mistaken: only the peer at the head of the list is looked at.
Check_Head ==
  /\ \E n \in ConnId : /\ peer[n] = "err" /\ \A k \in n + 1 .. MaxConn : ~Linked(k)
                      /\ Released({n})

(* ssock_check, by the accept thread.                                      *)
Check ==
  /\ \E n \in ConnId : peer[n] = "err"
  /\ Released({n \in ConnId : peer[n] = "err"})

(* ssock_disconnect_peer *)
Disconnect(n) ==
  /\ Linked(n) /\ n < MaxConn
  /\ Released({n})

(* ssock_peer_do_check *)
ServerHeartbeat(n) ==
  /\ Heartbeat /\ peer[n] = "up" /\ Len(stq[n]) < TxCap
  /\ stq' = [stq EXCEPT ![n] = Append(@, Hb)]
  /\ UNCHANGED <<client, tcp, peer, stmp, sral, srq, users, via, full>>

(* ssock_write_to: every peer that has not failed gets the packet, if its  *)
(* fifo has room.                                                          *)
ServerWrite ==
  /\ snext <= DownN
  /\ snext' = snext + 1
  /\ stq' = [n \in ConnId |-> IF peer[n] = "up" /\ Len(stq[n]) < TxCap
                              THEN Append(stq[n], snext) ELSE stq[n]]
  /\ UNCHANGED <<client, tcp, peer, stmp, sral, srq, cnext, cgot, sgot, via, full>>

(* ssock_read_from: the newest peer is at the head of the list.            *)
ServerRead(n) ==
  /\ Linked(n) /\ srq[n] # <<>>
  /\ \A k \in n + 1 .. MaxConn : Linked(k) => srq[k] = <<>>
  /\ srq' = [srq EXCEPT ![n] = Tail(@)]
  /\ sgot' = [sgot EXCEPT ![n] = Append(@, Head(srq[n]))]
  /\ UNCHANGED <<client, tcp, peer, stq, stmp, sral, cnext, snext, cgot, via, full>>

(* Pieces sent after the client closed its socket are lost.                *)
Arrives(n, s) == IF fd = n THEN [down EXCEPT ![n] = @ \o s] ELSE down

(* ssock_peer_do_flush_tx *)
ServerSend(n, j, k) ==
  LET batch == Stream(First(stq[n], j)) IN
  /\ peer[n] = "up" /\ stmp[n] = <<>> /\ j \in 1 .. Len(stq[n])
  /\ k \in Accepts(down[n], batch)
  /\ down' = Arrives(n, First(batch, k))
  /\ stmp' = [stmp EXCEPT ![n] = Rest(batch, k)]
  /\ stq' = [stq EXCEPT ![n] = Rest(@, j)]
  /\ UNCHANGED <<client, net, up, peer, sral, srq, users, via, full>>

\* Mistaken: txtmpbuf is not emptied once all of it was sent.
ServerSendTmp_Keep(n, k) ==
  /\ peer[n] = "up" /\ stmp[n] # <<>> /\ k \in Accepts(down[n], stmp[n])
  /\ down' = Arrives(n, First(stmp[n], k))
  /\ stmp' = [stmp EXCEPT ![n] = IF k = Len(@) THEN @ ELSE Rest(@, k)]
  /\ UNCHANGED <<client, net, up, peer, stq, sral, srq, users, via, full>>

ServerSendTmp(n, k) ==
  /\ peer[n] = "up" /\ stmp[n] # <<>> /\ k \in Accepts(down[n], stmp[n])
  /\ down' = Arrives(n, First(stmp[n], k))
  /\ stmp' = [stmp EXCEPT ![n] = Rest(@, k)]
  /\ UNCHANGED <<client, net, up, peer, stq, sral, srq, users, via, full>>

(* ssock_peer_do_flush_rx.  A full receive queue drops the packet.          *)
ServerRecv(n) ==
  LET r == Aligned(Append(sral[n], Head(up[n]))) IN
  /\ peer[n] = "up" /\ up[n] # <<>>
  /\ up' = [up EXCEPT ![n] = Tail(@)]
  /\ sral' = [sral EXCEPT ![n] = r.rest]
  /\ IF Len(srq[n]) < RxCap
     THEN srq' = [srq EXCEPT ![n] = @ \o r.got] /\ UNCHANGED full
     ELSE full' = full \cup ToSet(r.got) /\ UNCHANGED srq
  /\ UNCHANGED <<client, net, down, peer, stq, stmp, users, via>>

(* flush_tx or flush_rx of a peer meets an error: peer->error is set.      *)
ServerError(n) ==
  /\ peer[n] = "up" /\ net[n] = "cut"
  /\ peer' = [peer EXCEPT ![n] = "err"]
  /\ UNCHANGED <<client, tcp, stq, stmp, sral, srq, users, via, full>>

-----------------------------------------------------------------------------
ClientSends == \/ \E j \in 1 .. TxCap, k \in 0 .. SockCap : ClientSend(j, k)
               \/ \E k \in 0 .. SockCap : ClientSendTmp(k)

Client ==
  \/ \E n \in ConnId : Create(n)
  \/ CheckEstablished \/ UserClose \/ ClientHeartbeat
  \/ ClientWrite \/ ClientRead \/ ClientSends \/ ClientRecv \/ ClientError

ServerSends(n) == \/ \E j \in 1 .. TxCap, k \in 0 .. SockCap : ServerSend(n, j, k)
                  \/ \E k \in 0 .. SockCap : ServerSendTmp(n, k)

Server ==
  \/ ServerWrite \/ Check
  \/ \E n \in ConnId :
       \/ Accept(n) \/ Disconnect(n) \/ ServerHeartbeat(n) \/ ServerRead(n)
       \/ ServerSends(n) \/ ServerRecv(n) \/ ServerError(n)

Network == Tick \/ \E n \in ConnId : Handshake(n) \/ Break(n)

Next == Client \/ Server \/ Network

Spec == Init /\ [][Next]_vars

(* Every thread runs again and again, and whoever reads does so.  Of the   *)
(* network: attempts to connect do not fail for ever (strong fairness, as  *)
(* each failure is followed by a new attempt), and a socket that has room  *)
(* accepts at least one piece.                                             *)
ClientProgress ==
  \E k \in 1 .. SockCap : ClientSendTmp(k) \/ \E j \in 1 .. TxCap : ClientSend(j, k)

FairSpec ==
  /\ Spec
  /\ WF_vars(Tick) /\ WF_vars(CheckEstablished)
  /\ WF_vars(ClientProgress) /\ WF_vars(ClientError) /\ WF_vars(Check)
  /\ \A n \in ConnId :
       /\ SF_vars(Create(n) /\ fd' # 0)
       /\ SF_vars(Handshake(n) /\ net'[n] = "ok")
       /\ WF_vars(Accept(n)) /\ WF_vars(ServerRecv(n)) /\ WF_vars(ServerError(n))

-----------------------------------------------------------------------------
(* Properties. *)

(* Every queue holds packets and keeps its limit; what is left of a packet *)
(* is at most all but its first piece on the sending side.                 *)
TypeOK ==
  /\ fd \in 0 .. MaxConn /\ inprogress \in BOOLEAN /\ wait \in 0 .. RetryWait
  /\ \A q \in {ctq} \cup {stq[n] : n \in ConnId} :
       Len(q) <= TxCap /\ ToSet(q) \subseteq Packet
  /\ \A q \in {crq} \cup {srq[n] : n \in ConnId} :
       Len(q) <= RxCap /\ ToSet(q) \subseteq Packet \cup {Torn}
  /\ \A s \in {ctmp, cral} \cup UNION {{up[n], down[n], stmp[n], sral[n]} : n \in ConnId} :
       ToSet(s) \subseteq Piece
  /\ \A n \in ConnId :
       /\ net[n] \in {"none", "syn", "refused", "ok", "cut"}
       /\ peer[n] \in {"none", "up", "err", "gone"}
       /\ Len(up[n]) <= SockCap /\ Len(down[n]) <= SockCap
       /\ ToSet(sgot[n]) \subseteq 1 .. UpN \cup {Torn}
  /\ cnext \in 1 .. UpN + 1 /\ snext \in 1 .. DownN + 1
  /\ ToSet(cgot) \subseteq 1 .. DownN \cup {Torn}
  /\ via \in [1 .. UpN -> 0 .. MaxConn] /\ full \subseteq 1 .. UpN

(* s can be the beginning of whole packets, or is whole packets.           *)
Begun(s) == \A i \in DOMAIN s :
  /\ s[i][2] = 2 => i > 1 /\ s[i - 1] = <<s[i][1], 1>>
  /\ s[i][2] = 1 /\ s[i][1] # Hb /\ i < Len(s) => s[i + 1] = <<s[i][1], 2>>
Whole(s) == Begun(s) /\ (s # <<>> => s[Len(s)][2] = Len2(s[Len(s)][1]))

(* Both ends agree on where packets begin: what the receiver holds in its  *)
(* align buffer, what is on its way and what the sender holds in txtmpbuf  *)
(* are whole packets together, however sends were cut short and whatever   *)
(* happened to earlier connections of the same sock_connection_t.  So no   *)
(* packet given to a user is made of pieces of others.                     *)
InStep ==
  /\ \A n \in ConnId :
       /\ peer[n] \in {"none", "up"} => Begun(sral[n] \o up[n])
       /\ peer[n] \in {"none", "up"} /\ fd = n /\ ~inprogress =>
            Whole(sral[n] \o up[n] \o ctmp)
       /\ fd = n => Begun(cral \o down[n])
       /\ fd = n /\ peer[n] = "up" => Whole(cral \o down[n] \o stmp[n])
       /\ Torn \notin ToSet(srq[n] \o sgot[n])
  /\ Torn \notin ToSet(crq \o cgot)

Increasing(s) == \A i, j \in DOMAIN s : i < j => s[i] < s[j]

(* The server's user gets the packets of a connection in the order in      *)
(* which they were written, each at most once and on one connection only,  *)
(* though the client's fifo outlives its connections; and a packet written *)
(* later is never sent on an earlier connection.                           *)
UpInOrder ==
  /\ \A n \in ConnId : LET s == sgot[n] \o srq[n] IN
       Increasing(s) /\ \A m \in ToSet(s) : m # Torn /\ via[m] = n
  /\ \A m, k \in 1 .. UpN : m < k /\ via[k] # 0 => via[m] <= via[k]

(* The client's user gets the packets of ssock_write_to in order and each  *)
(* at most once, though each is put into the fifo of every linked peer,    *)
(* those of connections the client has given up among them.                *)
DownInOrder == Increasing(cgot \o crq)

(* A packet the fifo took is received, unless the receive queue is full or *)
(* the connection on which it was sent fails.  A packet still in the fifo  *)
(* when a connection fails goes out on a later one.                        *)
UpDelivered == \A m \in 1 .. UpN :
  m \in ToSet(ctq) ~>
    \/ \E n \in ConnId : m \in ToSet(srq[n] \o sgot[n])
    \/ m \in full
    \/ via[m] # 0 /\ net[via[m]] = "cut"

(* A client without a socket connects again, whatever a refused attempt or *)
(* a closed connection left in the sock_connection_t.                      *)
Reconnects == fd = 0 ~> Connected

(* The peer of a connection that failed is released, even while others     *)
(* work, so peers and their threads and queues do not pile up.             *)
PeersReleased == \A n \in ConnId :
  net[n] = "cut" /\ Linked(n) ~> peer[n] = "gone"
=============================================================================
