------------------------------ MODULE NmServer ------------------------------
(***************************************************************************)
(* The network management server, netmanage/nmserver: one process with two *)
(* TCP services.  Service "L" (port 28000) accepts the boards' agents,     *)
(* service "R" (port 28002) accepts web, cli and snmp clients.             *)
(*                                                                         *)
(* Threads of the process that appear here:                                *)
(*   "accL", "accR"  ssock_do_accept of each service: accepts connections, *)
(*                   releases failed ones, calls conncb and disccb;        *)
(*   "lproc"         nmserver_proc_thread of service L;                    *)
(*   "main"          nmserver_run: timers, time-outs and queued commands.  *)
(*                                                                         *)
(* Shared state: the peer list of each service (svc->lock), the client     *)
(* list of each service (ctrl->lock), the board table (glb->lock) and the  *)
(* command queue (cmd_lock).  A critical section that takes no further     *)
(* lock is one step, enabled when its lock is free.  Critical sections of  *)
(* svc->lock and ctrl->lock that take a second lock are several steps, and *)
(* svcLock and ctrlLock record the holder.  glb->lock and cmd_lock are     *)
(* only taken by sections that take nothing else, so no step ever waits    *)
(* for them.  malloc is assumed to succeed.                                *)
(***************************************************************************)
EXTENDS Integers, Sequences, FiniteSets

CONSTANTS
  Conn,        \* TCP connections made during a behaviour
  Addr,        \* remote ip:port pairs
  AddrOf,      \* the remote address of a connection
  SvcOf,       \* the service a connection is made to
  Msg,         \* kinds of messages the boards send
  Responsive,  \* boards whose agent answers every query
  Mute,        \* boards that never send anything
  Interval,    \* NMSERVER_QUERY_INTERVAL, in ticks
  Timeout,     \* TIMEOUT, in ticks
  MaxRq,       \* bound: messages waiting in a peer's receive queue
  MaxCmds,     \* bound: time passes only while the queue is this short
  None         \* no thread, no connection

Svc    == {"L", "R"}
AccOf  == [s \in Svc |-> IF s = "L" THEN "accL" ELSE "accR"]
Thread == {"accL", "accR", "lproc", "main"}

ASSUME NmServerAssumption ==
  /\ AddrOf \in [Conn -> Addr]
  /\ SvcOf \in [Conn -> Svc]
  /\ Msg \subseteq {"bdinfo", "data"}
  /\ IsFiniteSet(Conn)
  /\ Responsive \subseteq Conn
  /\ Mute \subseteq Conn
  /\ Interval \in Nat \ {0}
  /\ Timeout \in Nat \ {0}
  /\ MaxRq \in Nat \ {0}
  /\ MaxCmds \in Nat
  /\ None \notin Conn \cup Addr \cup Thread

VARIABLES
  link,      \* each connection: "new", "up", "err" (peer->error) or "gone"
  rq,        \* receive queue of each connection (conn->rq)
  asked,     \* a board information query reached the board, unanswered
  acc,       \* accept thread of each service: pc, current connection, scan
  lproc,     \* the L process thread: pc, address, message, client found
  mainT,     \* the main thread: pc, service, list cursor, client, address
  nodes,     \* clients linked in the lists of struct nmclient_ctrl, named by
             \* the connection whose conncb allocated them
  age,       \* time since time_s of each client was set
  comp,      \* component of each client: "none", "ctl" allocated, "open"
  glb,       \* board table, lsthd of struct nms_glb_ctl, head first
  cmds,      \* cmd_head of the L client list: addresses to query
  elapsed,   \* time since nmserver_run last ran its timers
  svcLock,   \* holder of svc->lock of each service
  ctrlLock   \* holder of ctrl->lock of each service

env  == <<link, rq, asked>>
pcs  == <<acc, lproc, mainT>>
reg  == <<nodes, age, comp>>
lks  == <<svcLock, ctrlLock>>
vars == <<link, rq, asked, acc, lproc, mainT, nodes, age, comp, glb, cmds,
          elapsed, svcLock, ctrlLock>>

-----------------------------------------------------------------------------
(* The registries. *)

MaxAge == Timeout + 1

(* struct nms_bdinfo: "unset" when conncb linked the entry without a board *)
(* information, "set" once a report has been copied into it.               *)
Entry == [addr : Addr, bdi : {"unset", "set"}]

(* The clients of service s, and those of them at address a: the list      *)
(* nmclient_get_node walks and what it can return.                         *)
Clients(s) == {n \in nodes : SvcOf[n] = s}
GetNode(s, a) == {n \in Clients(s) : AddrOf[n] = a}

(* list_del and nmclient_release_node of the clients N: what a freed client*)
(* held is of no more use and is reset.                                    *)
Release(N) ==
  /\ nodes' = nodes \ N
  /\ age' = [n \in Conn |-> IF n \in N THEN 0 ELSE age[n]]
  /\ comp' = [n \in Conn |-> IF n \in N THEN "none" ELSE comp[n]]

(* nms_glb_find_entry_byip *)
At(g, a)     == {i \in DOMAIN g : g[i].addr = a}
FirstAt(g, a) == CHOOSE i \in At(g, a) : \A j \in At(g, a) : i <= j

\* Mistaken: a NULL bdi is inserted without looking the address up.
InsertBdinfo_NoLookup(g, a, b) ==
  IF At(g, a) = {} \/ b = "unset"
  THEN <<[addr |-> a, bdi |-> b]>> \o g
  ELSE [g EXCEPT ![FirstAt(g, a)] = [addr |-> a, bdi |-> b]]

\* Mistaken: a NULL bdi clears the entry it finds.
InsertBdinfo_Clear(g, a, b) ==
  IF At(g, a) = {}
  THEN <<[addr |-> a, bdi |-> b]>> \o g
  ELSE [g EXCEPT ![FirstAt(g, a)] = [addr |-> a, bdi |-> b]]

(* nms_glb_insert_bdinfo: b is "unset" for a NULL bdi. *)
InsertBdinfo(g, a, b) ==
  IF At(g, a) = {}
  THEN <<[addr |-> a, bdi |-> b]>> \o g
  ELSE IF b = "unset" THEN g
  ELSE [g EXCEPT ![FirstAt(g, a)] = [addr |-> a, bdi |-> b]]

(* nms_glb_del_bdinfo: the first entry of the address. *)
Without(q, k) == [i \in 1 .. Len(q) - 1 |-> IF i < k THEN q[i] ELSE q[i + 1]]
DelBdinfo(g, a) == IF At(g, a) = {} THEN g ELSE Without(g, FirstAt(g, a))

(* The peers linked in svc->peers. *)
Peers(s) == {c \in Conn : SvcOf[c] = s /\ link[c] \in {"up", "err"}}

-----------------------------------------------------------------------------
(* The accept threads, and the threads between two turns of their loops.   *)
AccState == [pc : {"idle", "add", "insert", "scan", "del", "gdel"},
             cur : Conn \cup {None}, todo : SUBSET Conn]
AccIdle  == [pc |-> "idle", cur |-> None, todo |-> {}]
LIdle    == [pc |-> "idle", addr |-> None, msg |-> None, node |-> None]
MainIdle == [pc |-> "loop", svc |-> "L", todo |-> {}, cur |-> None,
             addr |-> None]

Init ==
  /\ link = [c \in Conn |-> "new"]
  /\ rq = [c \in Conn |-> <<>>]
  /\ asked = [c \in Conn |-> FALSE]
  /\ acc = [s \in Svc |-> AccIdle]
  /\ lproc = LIdle
  /\ mainT = MainIdle
  /\ nodes = {}
  /\ age = [c \in Conn |-> 0]
  /\ comp = [c \in Conn |-> "none"]
  /\ glb = <<>>
  /\ cmds = <<>>
  /\ elapsed = Interval
  /\ svcLock = [s \in Svc |-> None]
  /\ ctrlLock = [s \in Svc |-> None]

-----------------------------------------------------------------------------
(* The boards and the network. *)

(* The agent of a board sends a board information report or component data;*)
(* the receive thread of the peer queues it.                               *)
BoardSend(c, m) ==
  /\ link[c] = "up" /\ SvcOf[c] = "L" /\ c \notin Mute
  /\ Len(rq[c]) < MaxRq
  /\ rq' = [rq EXCEPT ![c] = Append(@, m)]
  /\ asked' = [asked EXCEPT ![c] = @ /\ m # "bdinfo"]
  /\ UNCHANGED <<link, pcs, reg, glb, cmds, elapsed, lks>>

(* The receive thread meets an error or the end of the stream.             *)
Break(c) ==
  /\ link[c] = "up"
  /\ link' = [link EXCEPT ![c] = "err"]
  /\ UNCHANGED <<rq, asked, pcs, reg, glb, cmds, elapsed, lks>>

(* A second passes, all clocks at once; ages stop at MaxAge.               *)
Tick ==
  /\ Len(cmds) <= MaxCmds
  /\ age' = [n \in Conn |-> IF n \in nodes /\ age[n] < MaxAge
                            THEN age[n] + 1 ELSE age[n]]
  /\ elapsed' = IF elapsed < Interval THEN elapsed + 1 ELSE elapsed
  /\ UNCHANGED <<env, pcs, nodes, comp, glb, cmds, lks>>

-----------------------------------------------------------------------------
(* The accept thread of service s. *)

AccAt(s, p) == acc[s].pc = p
AccGo(s, p, c, S) ==
  acc' = [acc EXCEPT ![s] = [pc |-> p, cur |-> c, todo |-> S]]

(* ssock_accept: the peer is linked under svc->lock, released before conncb*)
(* runs.  Another connection of the same address may still be unreleased,  *)
(* but its socket has failed.                                              *)
Accept(s, c) ==
  /\ AccAt(s, "idle") /\ svcLock[s] = None
  /\ SvcOf[c] = s /\ link[c] = "new"
  /\ \A d \in Peers(s) : AddrOf[d] = AddrOf[c] => link[d] # "up"
  /\ link' = [link EXCEPT ![c] = "up"]
  /\ AccGo(s, "add", c, {})
  /\ UNCHANGED <<rq, asked, lproc, mainT, reg, glb, cmds, elapsed, lks>>

(* conncb, first half: nmclient_add_node.                                  *)
AddNode(s) ==
  LET c == acc[s].cur IN
  /\ AccAt(s, "add") /\ ctrlLock[s] = None
  /\ IF GetNode(s, AddrOf[c]) = {}
     THEN nodes' = nodes \cup {c}
     ELSE UNCHANGED nodes
  /\ IF s = "L" THEN AccGo(s, "insert", c, {}) ELSE AccGo(s, "idle", None, {})
  /\ UNCHANGED <<env, lproc, mainT, age, comp, glb, cmds, elapsed, lks>>

(* conncb, second half: nms_glb_insert_bdinfo with a NULL bdi.             *)
InsertNull(s) ==
  /\ AccAt(s, "insert")
  /\ glb' = InsertBdinfo(glb, AddrOf[acc[s].cur], "unset")
  /\ AccGo(s, "idle", None, {})
  /\ UNCHANGED <<env, lproc, mainT, reg, cmds, elapsed, lks>>

(* ssock_check: svc->lock is held while every failed peer is unlinked, its *)
(* threads joined and disccb called.  On an empty list it does nothing.    *)
CheckBegin(s) ==
  /\ AccAt(s, "idle") /\ svcLock[s] = None /\ Peers(s) # {}
  /\ svcLock' = [svcLock EXCEPT ![s] = AccOf[s]]
  /\ AccGo(s, "scan", None, Peers(s))
  /\ UNCHANGED <<env, lproc, mainT, reg, glb, cmds, elapsed, ctrlLock>>

\* Mistaken: a failed peer is unlinked without calling disccb.
CheckPeer_NoDisccb(s, c) ==
  /\ AccAt(s, "scan") /\ c \in acc[s].todo
  /\ link' = [link EXCEPT ![c] = IF @ = "err" THEN "gone" ELSE @]
  /\ AccGo(s, "scan", None, acc[s].todo \ {c})
  /\ UNCHANGED <<rq, asked, lproc, mainT, reg, glb, cmds, elapsed, lks>>

CheckPeer(s, c) ==
  /\ AccAt(s, "scan") /\ c \in acc[s].todo
  /\ IF link[c] = "err"
     THEN /\ link' = [link EXCEPT ![c] = "gone"]
          /\ rq' = [rq EXCEPT ![c] = <<>>]
          /\ AccGo(s, "del", c, acc[s].todo \ {c})
     ELSE /\ AccGo(s, "scan", None, acc[s].todo \ {c})
          /\ UNCHANGED <<link, rq>>
  /\ UNCHANGED <<asked, lproc, mainT, reg, glb, cmds, elapsed, lks>>

\* Mistaken: the client is deleted without ctrl->lock.
DelNode_NoLock(s) ==
  /\ AccAt(s, "del")
  /\ Release(GetNode(s, AddrOf[acc[s].cur]))
  /\ IF s = "L" THEN AccGo(s, "gdel", acc[s].cur, acc[s].todo)
                ELSE AccGo(s, "scan", None, acc[s].todo)
  /\ UNCHANGED <<env, lproc, mainT, glb, cmds, elapsed, lks>>

(* disccb, first half: nmclient_del_node.                                  *)
DelNode(s) ==
  /\ AccAt(s, "del") /\ ctrlLock[s] = None
  /\ Release(GetNode(s, AddrOf[acc[s].cur]))
  /\ IF s = "L" THEN AccGo(s, "gdel", acc[s].cur, acc[s].todo)
                ELSE AccGo(s, "scan", None, acc[s].todo)
  /\ UNCHANGED <<env, lproc, mainT, glb, cmds, elapsed, lks>>

\* Mistaken: the board entry is left.
DelEntry_Keep(s) ==
  /\ AccAt(s, "gdel")
  /\ AccGo(s, "scan", None, acc[s].todo)
  /\ UNCHANGED <<env, lproc, mainT, reg, glb, cmds, elapsed, lks>>

(* disccb, second half: nms_glb_del_bdinfo; then the socket is closed.     *)
DelEntry(s) ==
  /\ AccAt(s, "gdel")
  /\ glb' = DelBdinfo(glb, AddrOf[acc[s].cur])
  /\ AccGo(s, "scan", None, acc[s].todo)
  /\ UNCHANGED <<env, lproc, mainT, reg, cmds, elapsed, lks>>

CheckEnd(s) ==
  /\ AccAt(s, "scan") /\ acc[s].todo = {}
  /\ svcLock' = [svcLock EXCEPT ![s] = None]
  /\ AccGo(s, "idle", None, {})
  /\ UNCHANGED <<env, lproc, mainT, reg, glb, cmds, elapsed, ctrlLock>>

-----------------------------------------------------------------------------
(* The L process thread. *)

(* adapter_read_from: a packet of some peer, failed peers included.  Which *)
(* of several peers is read first depends on the order of the peer list,   *)
(* which is left out.                                                      *)
LRead(c) ==
  /\ lproc.pc = "idle" /\ svcLock["L"] = None
  /\ c \in Peers("L") /\ rq[c] # <<>>
  /\ rq' = [rq EXCEPT ![c] = Tail(@)]
  /\ lproc' = [lproc EXCEPT !.pc = "got", !.addr = AddrOf[c],
                            !.msg = Head(rq[c])]
  /\ UNCHANGED <<link, asked, acc, mainT, reg, glb, cmds, elapsed, lks>>

(* nmclient_lprocess: the client of the sender's address is looked up under*)
(* ctrl->lock; without one the packet is dropped.                          *)
LDrop ==
  /\ lproc.pc = "got" /\ ctrlLock["L"] = None
  /\ GetNode("L", lproc.addr) = {}
  /\ lproc' = LIdle
  /\ UNCHANGED <<env, acc, mainT, reg, glb, cmds, elapsed, lks>>

(* Component data changes nothing but the data of an open component.       *)
LData(n) ==
  /\ lproc.pc = "got" /\ ctrlLock["L"] = None
  /\ n \in GetNode("L", lproc.addr) /\ lproc.msg = "data"
  /\ comp' = [comp EXCEPT ![n] = IF @ = "none" THEN "ctl" ELSE @]
  /\ lproc' = LIdle
  /\ UNCHANGED <<env, acc, mainT, nodes, age, glb, cmds, elapsed, lks>>

\* Mistaken: ctrl->lock is released once the client is found.
LReport_Unlocked(n) ==
  /\ lproc.pc = "got" /\ ctrlLock["L"] = None
  /\ n \in GetNode("L", lproc.addr) /\ lproc.msg = "bdinfo"
  /\ comp' = [comp EXCEPT ![n] = IF @ = "none" THEN "ctl" ELSE @]
  /\ lproc' = [lproc EXCEPT !.pc = "insert", !.node = n]
  /\ UNCHANGED <<env, acc, mainT, nodes, age, glb, cmds, elapsed, lks>>

(* A report: ctrl->lock is kept through nm_component_lproc_glb_bdinfo.     *)
LReport(n) ==
  /\ lproc.pc = "got" /\ ctrlLock["L"] = None
  /\ n \in GetNode("L", lproc.addr) /\ lproc.msg = "bdinfo"
  /\ ctrlLock' = [ctrlLock EXCEPT !["L"] = "lproc"]
  /\ comp' = [comp EXCEPT ![n] = IF @ = "none" THEN "ctl" ELSE @]
  /\ lproc' = [lproc EXCEPT !.pc = "insert", !.node = n]
  /\ UNCHANGED <<env, acc, mainT, nodes, age, glb, cmds, elapsed, svcLock>>

LInsert ==
  /\ lproc.pc = "insert"
  /\ glb' = InsertBdinfo(glb, lproc.addr, "set")
  /\ lproc' = [lproc EXCEPT !.pc = "update"]
  /\ UNCHANGED <<env, acc, mainT, reg, cmds, elapsed, lks>>

\* Mistaken: the components are not opened.
LUpdate_NoOpen ==
  /\ lproc.pc = "update"
  /\ age' = [age EXCEPT ![lproc.node] = 0]
  /\ ctrlLock' = [ctrlLock EXCEPT !["L"] = None]
  /\ lproc' = LIdle
  /\ UNCHANGED <<env, acc, mainT, nodes, comp, glb, cmds, elapsed, svcLock>>

\* Mistaken: the time of the client is not set.
LUpdate_NoTime ==
  /\ lproc.pc = "update"
  /\ comp' = [comp EXCEPT ![lproc.node] = "open"]
  /\ ctrlLock' = [ctrlLock EXCEPT !["L"] = None]
  /\ lproc' = LIdle
  /\ UNCHANGED <<env, acc, mainT, nodes, age, glb, cmds, elapsed, svcLock>>

(* nmclient_update_time, nm_component_open_comp, unlock.                   *)
LUpdate ==
  /\ lproc.pc = "update"
  /\ age' = [age EXCEPT ![lproc.node] = 0]
  /\ comp' = [comp EXCEPT ![lproc.node] = "open"]
  /\ ctrlLock' = [ctrlLock EXCEPT !["L"] = None]
  /\ lproc' = LIdle
  /\ UNCHANGED <<env, acc, mainT, nodes, glb, cmds, elapsed, svcLock>>

-----------------------------------------------------------------------------
(* The main thread: nmserver_run. *)

MainGo(p) == mainT' = [mainT EXCEPT !.pc = p]

(* The timers run when Interval has passed; the first time at once.        *)
MTimers ==
  /\ mainT.pc = "loop" /\ elapsed >= Interval
  /\ elapsed' = 0
  /\ MainGo("query")
  /\ UNCHANGED <<env, acc, lproc, reg, glb, cmds, lks>>

(* nmclient_cmd_timer_query: a query for each L client, under ctrl->lock,  *)
(* in the order of the client list, which is left out.                     *)
Orders(S) == {q \in [1 .. Cardinality(S) -> S] : {q[i] : i \in DOMAIN q} = S}

\* Mistaken: only clients that have reported are asked.
MQuery_Known ==
  /\ mainT.pc = "query" /\ ctrlLock["L"] = None
  /\ \E q \in Orders({n \in Clients("L") : comp[n] = "open"}) :
       cmds' = cmds \o [i \in DOMAIN q |-> AddrOf[q[i]]]
  /\ mainT' = [mainT EXCEPT !.pc = "release", !.svc = "L"]
  /\ UNCHANGED <<env, acc, lproc, reg, glb, elapsed, lks>>

MQuery ==
  /\ mainT.pc = "query" /\ ctrlLock["L"] = None
  /\ \E q \in Orders(Clients("L")) :
       cmds' = cmds \o [i \in DOMAIN q |-> AddrOf[q[i]]]
  /\ mainT' = [mainT EXCEPT !.pc = "release", !.svc = "L"]
  /\ UNCHANGED <<env, acc, lproc, reg, glb, elapsed, lks>>

(* nmclient_timeout_release of service L, then of service R, each under    *)
(* the ctrl->lock of its service.                                          *)
MReleaseBegin ==
  /\ mainT.pc = "release" /\ ctrlLock[mainT.svc] = None
  /\ ctrlLock' = [ctrlLock EXCEPT ![mainT.svc] = "main"]
  /\ mainT' = [mainT EXCEPT !.pc = "expire", !.todo = Clients(mainT.svc)]
  /\ UNCHANGED <<env, acc, lproc, reg, glb, cmds, elapsed, svcLock>>

Expired(n) == age[n] > Timeout

MKeepNode(n) ==
  /\ mainT.pc = "expire" /\ n \in mainT.todo /\ ~Expired(n)
  /\ mainT' = [mainT EXCEPT !.todo = @ \ {n}]
  /\ UNCHANGED <<env, acc, lproc, reg, glb, cmds, elapsed, lks>>

\* Mistaken: the expired client stays in the list.
MExpireNode_Linked(n) ==
  /\ mainT.pc = "expire" /\ n \in mainT.todo /\ Expired(n)
  /\ mainT' = [mainT EXCEPT !.todo = @ \ {n},
                            !.cur = IF mainT.svc = "L" THEN n ELSE None,
                            !.pc = IF mainT.svc = "L" THEN "cmddel" ELSE @]
  /\ UNCHANGED <<env, acc, lproc, reg, glb, cmds, elapsed, lks>>

(* An expired client is unlinked; for L its queued commands and its board  *)
(* entry go before the client is freed.                                    *)
MExpireNode(n) ==
  /\ mainT.pc = "expire" /\ n \in mainT.todo /\ Expired(n)
  /\ Release({n})
  /\ mainT' = [mainT EXCEPT !.todo = @ \ {n},
                            !.cur = IF mainT.svc = "L" THEN n ELSE None,
                            !.pc = IF mainT.svc = "L" THEN "cmddel" ELSE @]
  /\ UNCHANGED <<env, acc, lproc, glb, cmds, elapsed, lks>>

(* nmclient_cmd_del, one matching command at a time.                       *)
MCmdDel(k) ==
  /\ mainT.pc = "cmddel"
  /\ k \in DOMAIN cmds /\ cmds[k] = AddrOf[mainT.cur]
  /\ cmds' = Without(cmds, k)
  /\ UNCHANGED <<env, pcs, reg, glb, elapsed, lks>>

\* Mistaken: the board entry of an expired client is left.
MDelEntry_Keep ==
  /\ mainT.pc = "cmddel"
  /\ \A k \in DOMAIN cmds : cmds[k] # AddrOf[mainT.cur]
  /\ mainT' = [mainT EXCEPT !.pc = "expire", !.cur = None]
  /\ UNCHANGED <<env, acc, lproc, reg, glb, cmds, elapsed, lks>>

MDelEntry ==
  /\ mainT.pc = "cmddel"
  /\ \A k \in DOMAIN cmds : cmds[k] # AddrOf[mainT.cur]
  /\ glb' = DelBdinfo(glb, AddrOf[mainT.cur])
  /\ mainT' = [mainT EXCEPT !.pc = "expire", !.cur = None]
  /\ UNCHANGED <<env, acc, lproc, reg, cmds, elapsed, lks>>

\* Mistaken: ctrl->lock is not released.
MReleaseEnd_Locked ==
  /\ mainT.pc = "expire" /\ mainT.todo = {}
  /\ mainT' = [mainT EXCEPT
                 !.pc = IF mainT.svc = "L" THEN "release" ELSE "send",
                 !.svc = IF mainT.svc = "L" THEN "R" ELSE "L"]
  /\ UNCHANGED <<env, acc, lproc, reg, glb, cmds, elapsed, lks>>

MReleaseEnd ==
  /\ mainT.pc = "expire" /\ mainT.todo = {}
  /\ ctrlLock' = [ctrlLock EXCEPT ![mainT.svc] = None]
  /\ mainT' = [mainT EXCEPT
                 !.pc = IF mainT.svc = "L" THEN "release" ELSE "send",
                 !.svc = IF mainT.svc = "L" THEN "R" ELSE "L"]
  /\ UNCHANGED <<env, acc, lproc, reg, glb, cmds, elapsed, svcLock>>

(* nmserver_send_cmd: nmclient_cmd_get, then adapter_write_to.  It follows *)
(* the timers and is all that a turn of the loop without timers does.      *)
(* Nothing is ever queued for service R.                                   *)
MGetCmd ==
  /\ mainT.pc = "send" \/ (mainT.pc = "loop" /\ elapsed < Interval)
  /\ cmds # <<>>
  /\ mainT' = [mainT EXCEPT !.pc = "write", !.addr = Head(cmds)]
  /\ cmds' = Tail(cmds)
  /\ UNCHANGED <<env, acc, lproc, reg, glb, elapsed, lks>>

MNoCmd ==
  /\ mainT.pc = "send" /\ cmds = <<>>
  /\ mainT' = MainIdle
  /\ UNCHANGED <<env, acc, lproc, reg, glb, cmds, elapsed, lks>>

(* ssock_write_to: every peer of the address that has not failed.          *)
MWrite ==
  /\ mainT.pc = "write" /\ svcLock["L"] = None
  /\ asked' = [c \in Conn |-> \/ asked[c]
                              \/ /\ c \in Peers("L") \cap Responsive
                                 /\ link[c] = "up"
                                 /\ AddrOf[c] = mainT.addr]
  /\ mainT' = MainIdle
  /\ UNCHANGED <<link, rq, acc, lproc, reg, glb, cmds, elapsed, lks>>

-----------------------------------------------------------------------------
Acceptor(s) ==
  \/ \E c \in Conn : Accept(s, c) \/ CheckPeer(s, c)
  \/ AddNode(s) \/ InsertNull(s)
  \/ CheckBegin(s) \/ DelNode(s) \/ DelEntry(s) \/ CheckEnd(s)

LProc ==
  \/ \E c \in Conn : LRead(c) \/ LData(c) \/ LReport(c)
  \/ LDrop \/ LInsert \/ LUpdate

Main ==
  \/ MTimers \/ MQuery
  \/ \E n \in Conn : MKeepNode(n) \/ MExpireNode(n)
  \/ MReleaseBegin \/ MDelEntry \/ MReleaseEnd
  \/ \E k \in DOMAIN cmds : MCmdDel(k)
  \/ MGetCmd \/ MNoCmd \/ MWrite

Boards == \E c \in Conn : Break(c) \/ \E m \in Msg : BoardSend(c, m)

Threads == LProc \/ Main \/ \E s \in Svc : Acceptor(s)

Next == Threads \/ Boards \/ Tick

Spec == Init /\ [][Next]_vars

-----------------------------------------------------------------------------
(* Fairness.  Every thread of the process keeps running.  The steps that   *)
(* wait for svc->lock or ctrl->lock find it free again and again: a holder *)
(* releases it after a bounded number of steps and then sleeps for 10 or   *)
(* 200 ms, so a waiting thread gets it.  Those steps are strongly fair.    *)
ThreadFairness ==
  /\ \A s \in Svc :
       /\ SF_vars(AddNode(s) \/ DelNode(s))
       /\ WF_vars(InsertNull(s) \/ CheckBegin(s) \/ DelEntry(s) \/ CheckEnd(s))
       /\ WF_vars(\E c \in Conn : CheckPeer(s, c))
  /\ SF_vars(LProc)
  /\ SF_vars(Main)

FairSpec == Spec /\ ThreadFairness

(* Timed behaviours.  The threads and the responsive boards act within     *)
(* milliseconds (loops of 10 and 200 ms), so no second passes while one of *)
(* them has something to do; a failed peer may wait for the next           *)
(* ssock_check, at most 16 turns of 200 ms.  Boards only answer queries.   *)
Quiet ==
  /\ mainT.pc = "loop" /\ elapsed < Interval /\ cmds = <<>>
  /\ lproc.pc = "idle"
  /\ \A s \in Svc : acc[s].pc \in {"idle", "scan"}
  /\ \A c \in Conn : rq[c] = <<>>
  /\ \A c \in Responsive : link[c] = "up" => ~asked[c]

Answer(c) == asked[c] /\ BoardSend(c, "bdinfo")

TimedNext ==
  \/ Threads
  \/ \E c \in Conn : Break(c) \/ Answer(c)
  \/ Quiet /\ Tick

TimedSafety == Init /\ [][TimedNext]_vars

TimedSpec ==
  /\ TimedSafety
  /\ ThreadFairness
  /\ WF_vars(Quiet /\ Tick)
  /\ \A c \in Responsive : WF_vars(Answer(c))

-----------------------------------------------------------------------------
(* Correctness. *)

(* The values the variables range over.                                    *)
TypeOK ==
  /\ link \in [Conn -> {"new", "up", "err", "gone"}]
  /\ rq \in [Conn -> Seq(Msg)]
  /\ asked \in [Conn -> BOOLEAN]
  /\ acc \in [Svc -> AccState]
  /\ lproc \in [pc : {"idle", "got", "insert", "update"},
                addr : Addr \cup {None}, msg : Msg \cup {None},
                node : Conn \cup {None}]
  /\ mainT \in [pc : {"loop", "query", "release", "expire", "cmddel",
                      "send", "write"},
                svc : Svc, todo : SUBSET Conn, cur : Conn \cup {None},
                addr : Addr \cup {None}]
  /\ nodes \subseteq Conn
  /\ age \in [Conn -> 0 .. MaxAge]
  /\ comp \in [Conn -> {"none", "ctl", "open"}]
  /\ glb \in Seq(Entry)
  /\ cmds \in Seq(Addr)
  /\ elapsed \in 0 .. Interval
  /\ svcLock \in [Svc -> Thread \cup {None}]
  /\ ctrlLock \in [Svc -> Thread \cup {None}]

(* The lock a thread waits for, as <<kind, service>>, and its holder.      *)
Wants(t) ==
  CASE t \in {"accL", "accR"} ->
         LET s == IF t = "accL" THEN "L" ELSE "R" IN
         IF acc[s].pc = "idle" THEN <<"svc", s>>
         ELSE IF acc[s].pc \in {"add", "del"} THEN <<"ctrl", s>> ELSE <<>>
    [] t = "lproc" ->
         IF lproc.pc = "idle" THEN <<"svc", "L">>
         ELSE IF lproc.pc = "got" THEN <<"ctrl", "L">> ELSE <<>>
    [] OTHER ->
         IF mainT.pc = "query" THEN <<"ctrl", "L">>
         ELSE IF mainT.pc = "release" THEN <<"ctrl", mainT.svc>>
         ELSE IF mainT.pc = "write" THEN <<"svc", "L">> ELSE <<>>

Holder(l) ==
  IF l = <<>> THEN None
  ELSE IF l[1] = "svc" THEN svcLock[l[2]] ELSE ctrlLock[l[2]]

(* No group of threads waits for one another: in every group some thread   *)
(* waits for no lock that the group holds.  ssock_check keeps svc->lock    *)
(* while disccb takes ctrl->lock, so any path that asks for svc->lock with *)
(* ctrl->lock still taken would stop the server.                           *)
NoCircularWait ==
  \A T \in (SUBSET Thread) \ {{}} : \E t \in T : Holder(Wants(t)) \notin T

(* An address has one client in each list and one entry in the board table,*)
(* whatever the order of conncb, disccb, reports and time-outs and also    *)
(* when an address is used again before the old connection was released:   *)
(* lookups, commands and deletions go by address.                          *)
UniqueByAddress ==
  /\ \A s \in Svc : \A m, n \in Clients(s) : AddrOf[m] = AddrOf[n] => m = n
  /\ \A i, j \in DOMAIN glb : glb[i].addr = glb[j].addr => i = j

(* disccb for a connection of address a has not reached step p's end.      *)
Leaving(s, ps, a) ==
  /\ acc[s].pc \in ps
  /\ acc[s].cur # None
  /\ AddrOf[acc[s].cur] = a
HasPeer(s, a) == \E c \in Peers(s) : AddrOf[c] = a

(* The board table holds no board whose connection was released: an entry  *)
(* has a peer, or the disccb that deletes it is running.  A report read    *)
(* before the release and processed after it cannot bring the entry back,  *)
(* because disccb removes the client before the entry.                     *)
NoGhostBoard ==
  \A i \in DOMAIN glb :
    \/ HasPeer("L", glb[i].addr)
    \/ Leaving("L", {"del", "gdel"}, glb[i].addr)

(* Every client of the board list is in the board table, but for the gap   *)
(* between the two halves of conncb: no registered board is invisible.     *)
RegisteredIsListed ==
  \A n \in Clients("L") :
    \/ At(glb, AddrOf[n]) # {}
    \/ acc["L"].pc = "insert" /\ AddrOf[acc["L"].cur] = AddrOf[n]

(* A board shown with its information has its components open, unless its  *)
(* first report is being processed under ctrl->lock.                       *)
ReportedIsServed ==
  \A n \in Clients("L") : \A i \in DOMAIN glb :
    glb[i].addr = AddrOf[n] /\ glb[i].bdi = "set" =>
      \/ comp[n] = "open"
      \/ lproc.pc = "update" /\ lproc.node = n

(* Board information, once reported, stays until the entry is removed: a   *)
(* conncb that comes after the first report does not erase it.             *)
ReportKept ==
  [][\A i \in DOMAIN glb :
       glb[i].bdi = "set" =>
         \A j \in DOMAIN glb' :
           glb'[j].addr = glb[i].addr => glb'[j].bdi = "set"]_vars

(* A failed board connection leaves the table: eventually no entry of its  *)
(* address is left, or the address is connected again.                     *)
FailedIsRemoved ==
  \A c \in Conn :
    SvcOf[c] = "L" /\ link[c] = "err" ~>
      \/ At(glb, AddrOf[c]) = {}
      \/ \E d \in Peers("L") : d # c /\ AddrOf[d] = AddrOf[c]

(* Timed: a board that answers every query is never timed out.             *)
ResponsiveKept ==
  [][\A c \in Responsive :
       c \in nodes /\ link[c] = "up" => c \in nodes']_vars

(* Timed: a connected board that answers is shown with its information, or *)
(* its connection fails.                                                   *)
ResponsiveShown ==
  \A c \in Responsive :
    link[c] = "up" ~>
      \/ link[c] # "up"
      \/ \E i \in DOMAIN glb : glb[i] = [addr |-> AddrOf[c], bdi |-> "set"]

(* Timed: a board that stays silent leaves the table even though its       *)
(* connection is up.                                                       *)
SilentRemoved ==
  \A c \in Mute :
    SvcOf[c] = "L" /\ c \in nodes ~> At(glb, AddrOf[c]) = {}

-----------------------------------------------------------------------------
(* The inductive invariant behind the safety properties. *)

(* Each lock is held exactly in the steps of a thread between taking and   *)
(* releasing it.                                                           *)
LocksMatchThreads ==
  \A s \in Svc :
    /\ svcLock[s] = IF acc[s].pc \in {"scan", "del", "gdel"}
                    THEN AccOf[s] ELSE None
    /\ ctrlLock[s] = "lproc" <=> s = "L" /\ lproc.pc \in {"insert", "update"}
    /\ ctrlLock[s] = "main" <=>
         mainT.svc = s /\ mainT.pc \in {"expire", "cmddel"}
    /\ ctrlLock[s] \in {"lproc", "main", None}

(* What a thread carries from step to step stays valid: the accept thread  *)
(* works on connections that only it can release, and the clients that the *)
(* process and the main thread work on stay linked while they hold         *)
(* ctrl->lock.                                                             *)
AccCarriesValid(s) ==
  /\ acc[s].pc \in {"add", "insert", "del", "gdel"} =>
       acc[s].cur \in Conn /\ SvcOf[acc[s].cur] = s
  /\ acc[s].pc \in {"add", "insert"} => acc[s].cur \in Peers(s)
  /\ acc[s].pc \in {"insert", "gdel"} => s = "L"
  /\ acc[s].todo \subseteq Peers(s)
  /\ acc[s].pc \in {"add", "insert", "idle"} => acc[s].todo = {}
  /\ acc[s].pc \in {"idle", "scan"} => acc[s].cur = None

LProcCarriesValid ==
  /\ lproc.pc # "idle" => lproc.addr \in Addr
  /\ lproc.pc \in {"insert", "update"} =>
       lproc.node \in GetNode("L", lproc.addr)

MainCarriesValid ==
  /\ mainT.pc = "cmddel" =>
       mainT.svc = "L" /\ mainT.cur \in Conn /\ SvcOf[mainT.cur] = "L"
  /\ mainT.pc \in {"expire", "cmddel"} => mainT.todo \subseteq Clients(mainT.svc)
  /\ mainT.pc = "write" => mainT.addr \in Addr

ThreadsCarryValid ==
  (\A s \in Svc : AccCarriesValid(s)) /\ LProcCarriesValid /\ MainCarriesValid

(* A client belongs to a peer, until disccb deletes it.                    *)
ClientHasPeer ==
  \A n \in nodes :
    \/ HasPeer(SvcOf[n], AddrOf[n])
    \/ Leaving(SvcOf[n], {"del"}, AddrOf[n])

(* When a board entry is about to be deleted its client is gone, and no    *)
(* client of that address comes back before the deletion.                  *)
ClientGoesFirst ==
  /\ acc["L"].pc = "gdel" => GetNode("L", AddrOf[acc["L"].cur]) = {}
  /\ mainT.pc = "cmddel" => GetNode("L", AddrOf[mainT.cur]) = {}

(* Board information belongs to a client, or is being deleted.             *)
ReportHasClient ==
  \A i \in DOMAIN glb : glb[i].bdi = "set" =>
    \/ GetNode("L", glb[i].addr) # {}
    \/ Leaving("L", {"gdel"}, glb[i].addr)
    \/ mainT.pc = "cmddel" /\ AddrOf[mainT.cur] = glb[i].addr

IInv ==
  /\ TypeOK
  /\ LocksMatchThreads
  /\ ThreadsCarryValid
  /\ ClientHasPeer
  /\ NoGhostBoard
  /\ UniqueByAddress
  /\ RegisteredIsListed
  /\ ClientGoesFirst
  /\ ReportHasClient
  /\ ReportedIsServed

(* The setting of the timed behaviours: reports exist, a responsive board  *)
(* is a board with an address of its own, and the time-out is no shorter   *)
(* than the query interval (15 s and 5 s in the code).                     *)
TimedSetting ==
  /\ "bdinfo" \in Msg
  /\ \A c \in Responsive :
       /\ SvcOf[c] = "L"
       /\ \A d \in Conn : SvcOf[d] = "L" /\ AddrOf[d] = AddrOf[c] => d = c
  /\ Interval <= Timeout

(* A query of board c is to be made, queued, being written or unanswered,  *)
(* or its answer is not yet processed.                                     *)
Queried(c) ==
  \/ mainT.pc = "query"
  \/ \E k \in DOMAIN cmds : cmds[k] = AddrOf[c]
  \/ mainT.pc = "write" /\ mainT.addr = AddrOf[c]
  \/ asked[c]
  \/ rq[c] # <<>>
  \/ lproc.pc # "idle" /\ lproc.addr = AddrOf[c]

(* Why a board that answers is never timed out: its age is at most the time*)
(* since the timers ran, or its next query is under way, and then no time  *)
(* passes.  Only reports are on the way, a client that is not linked has   *)
(* age zero, and the connection disccb is called for has been released.    *)
OnTime ==
  \A c \in Responsive : c \in nodes /\ link[c] = "up" =>
    /\ age[c] <= Interval
    /\ age[c] <= elapsed \/ Queried(c)

OnlyReports ==
  /\ rq \in [Conn -> Seq({"bdinfo"})]
  /\ lproc.pc = "got" => lproc.msg = "bdinfo"

DeletedIsReleased ==
  \A s \in Svc : acc[s].pc = "del" => link[acc[s].cur] = "gone"

TimedInv ==
  /\ OnTime
  /\ OnlyReports
  /\ DeletedIsReleased
  /\ \A c \in Conn \ nodes : age[c] = 0
=============================================================================
