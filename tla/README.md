# Verification of the management, socket and interface card software

TLA+ models of this repository, model-checked with TLC on small instances, with
TLAPS proofs for every value of the constants.

## 1. The system

The repository is the software of an optical interface board: a common library
(`lch/`), a network management server with its board agents (`netmanage/`), probe
agents (`psagentfrm*/`, `oiamc/`), the applications and the kernel driver of the
optical interface card (`oic/`) and a few tools (`app/`).

```
 web, cli, snmp                        boards
      | TCP 28002                         | TCP 28000
      v                                   v
 +----------------- nmserver (one process) ------------------+
 | service R                        service L                |
 |  accept thread, proc thread       accept thread, proc thr.|
 |  client list (ctrl->lock)         client list, cmd queue  |
 |             \                    /                        |
 |              main thread: timers, time-outs, commands     |
 |                       board table (glb->lock)             |
 +-----------------------------------------------------------+
        ssock (svc->lock, peers)     <-- TCP -->   csock (agents)
```

| component | state | operations | how it interacts | what is hard, what must hold |
|---|---|---|---|---|
| `netmanage/nmserver` | client list and command queue of each service, time stamps, components | connect and disconnect callbacks, process a report, query, time-out, send a command | callbacks from the accept threads of `ssock`; all threads share the lists and the board table | five threads and five kinds of locks, lookups by address, time-outs against late answers; one client and one entry per address, no released board shown, no deadlock |
| `netmanage/nmbase/nm_glb.c` | list of boards with their information | insert, delete, lookup by address or location, pack | called under `ctrl->lock` and without it | a NULL insert before or after the first report |
| `netmanage/nmbase` (others) | data of e1phy, switch and fpga; list of open requests (`seqlst.c`) | update, read; add, match, expire | `nm_component.c`, service R | expiry races the answer |
| `netmanage/nmclient` (agent) | connected flag, report timer, sequence number | report, answer a query | `csock`, `utimer` | reports while the connection comes and goes |
| `lch/util/ssock.c`, `adapter_ss.c` | peer list (`svc->lock`), per peer a receive queue, a transmit fifo, three threads, an error flag | accept, check, read_from, write_to, disconnect, close | callbacks into the owner with `svc->lock` held | release while other threads use the peer, lock order |
| `lch/util/csock.c`, `mpktconn.c`, `adapter_cs.c` | socket, in-progress flag, align and transmit buffers | connect, flush, read, write, close | TCP, callbacks | reconnect at a packet boundary, no half packet |
| `lch/util/pktqueue.c`, `fifo.c`, `pfifo.c` | queues with a size limit, sort window | push, pop, clear; write/commit/rollback, read/commit | producers and consumers in different threads | accounting, limit, order; no overwritten slot |
| `lch/util/utimer.c`, `timermgr.c` | timers ordered by expiry | add, delete, run | callbacks that add and delete timers | entry freed after its callback, clock that is set |
| `app/ugclient` | `upginfo` with the address of the server, flag `upgrading`, timer, queues of the adapters | take a command, run it, reply, notify | `adapter_udp`, `utimer`, `upg.sh` | two threads share `upginfo` without a lock; each reply to the server that asked, one timer for ever |
| `psagentfrm*/`, `oiamc/app/psagent*` | silence links with a timer each, connected flag | start, stop, time-out | `utimer`, `csock` | stop after the timer fired |
| `oic/oiclib/grpsm.c`, `oic/cascade` | candidate links by sequence number, the groups given, tried and confirmed | push, get; study, try | the study asks, the board tries, the results decide what is asked next | the search neither skips nor repeats, and ends |
| `oic/oicdrv/oicfops.c` | registers, the content of the card behind them, `oicdev->lock`, shadow masks | about 70 ioctl calls | applications of several processes call at any time | address, data and strobe are separate writes; every access at its place, values whole, lock given back |
| `lch/apframe` | running flag, child process | start, signals, watch | all programs | restart |
| other `oic/*app`, `oiamc/base`, other `app/*` | registers, configuration files | read and write registers | ioctl, files | sequential |
| `lch/adapter/adapter_mpipe.c` | a ring for each worker thread, the ring being read, `read_commit` | worker writes, reader takes | lock-free rings, the reader is given the slot itself | one owner of a slot; order, no loss after acceptance, no starved ring |
| other `lch/adapter`, `lch/psp*`, `lch/cgiparse`, `lch/aplog`, `lch/cmdsvr`, other `lch/util` | buffers | parse, format, input, output, containers | | sequential library code |

`netmanage/snmp` holds a vendored net-snmp and generated table handlers.

The hazards, each with its line, are in `PROJECT.json`; the properties are
written for them.

## 2. Modules and plan

| module | models | state |
|---|---|---|
| `NmServer` | accept, process and main threads of `nmserver` with `nm_client.c`, `nm_glb.c`, and what they use of `ssock.c` | done |
| `BoardDirectory` | what the server promises: which boards are shown | done |
| `NmServerDirectory` | the mapping of `NmServer` to `BoardDirectory` | done |
| `NmServerProofs` | theorems of `NmServer` | done |
| `NmServerRefinement` | proof that `NmServer` implements `BoardDirectory` | done |
| `NmServerMC` | constants for TLC | done |
| `SockLink` | a client socket, the server socket it connects to, TCP between them | done |
| `FlattenProofs` | lemmas about sequences: induction over numbers, what `FlattenSeq` computes | done |
| `SockLinkProofs` | theorems of `SockLink` | done |
| `Pfifo` | the rings of `pfifo.c` between the worker threads of `adapter_mpipe.c` and its reader | done |
| `PacketQueues` | what the reader is promised: bounded queues | done |
| `PfifoProofs` | theorems of `Pfifo`, and that it implements `PacketQueues` | done |

| `RegProgram` | how the text of an ioctl handler is written down | done |
| `OicPrograms`, `GfpPrograms`, `SdhPrograms` | the handlers of the three cards | done |
| `OicCalls` | the table of calls, the windows of the registers | done |
| `OicIoctl` | the processes that make the calls, the lock, the device | done |
| `OicRules` | what the text of a handler has to keep | done |
| `OicIoctlMC` | `OicIoctl` with the calls, for TLC | done |
| `OicIoctlProofs` | theorems of `OicIoctl`, for any programs that keep the rules | done |
| `GrpSm` | the search for virtual groups with the study that drives it | done |
| `GrpSmProofs` | theorems of `GrpSm` | done |
| `UTimer` | the timers of `utimer.c`, as operators | done |
| `UpgClient` | the upgrade client over `UTimer`, its datagrams and its script | done |
| `UpgClientProofs` | theorems of `UpgClient` | done |

Left, in this order:

1. `NmQuery`: the process thread of service R on the lists of service L, set
   commands and `cmd_add`; `NmLifecycle`: start-up and shutdown order;
   `SeqList`, `NmClient`.
2. `Channel`, an abstract lossy channel that never reorders, repeats or tears a
   packet, implemented by `SockLink`; `PktQueue`: the sorted queue and its limit
   with several threads that push.
3. `ApFrame`, `fst` and the watchdog timer of the drivers.

Every safety invariant of the runs is a theorem, but for `CallsDisciplined` (see 9). Worth
proving next: what the new modules above promise.

## 3. NmServer

### Correspondence

A step is a critical section. A section that takes no further lock is one action
enabled when its lock is free; `svc->lock` in `ssock_check` and `ctrl->lock` in
`nmclient_lprocess` and `nmclient_timeout_release` are kept over further locks, so
they are several actions and `svcLock`, `ctrlLock` name the holder. `glb->lock`
and `cmd_lock` are leaves: sections under them take nothing else, so nobody ever
has to wait and they need no variable.

| thread | code | actions |
|---|---|---|
| `accL`, `accR` | `ssock_do_accept`, `ssock_accept`, `nmserver_conncb` | `Accept`, `AddNode`, `InsertNull` |
| | `ssock_check`, `nmserver_disccb` | `CheckBegin`, `CheckPeer`, `DelNode`, `DelEntry`, `CheckEnd` |
| `lproc` | `nmserver_proc_thread` of service L, `ssock_read_from`, `nmclient_lprocess` | `LRead`, `LDrop`, `LData`, `LReport`, `LInsert`, `LUpdate` |
| `main` | `nmserver_run`, `nmserver_timer_process` | `MTimers`, `MQuery`, `MReleaseBegin`, `MKeepNode`, `MExpireNode`, `MCmdDel`, `MDelEntry`, `MReleaseEnd` |
| | `nmserver_send_cmd` | `MGetCmd`, `MNoCmd`, `MWrite` |
| boards, clock | outside | `BoardSend`, `Break`, `Tick` |

State: `link` is the peer (`up` linked, `err` with `peer->error` set, `gone`
released); `nodes` are the linked `struct nmclient`, named by the connection whose
`conncb` allocated them, because an address may be used again before its old client
is gone; `age` is the time since `time_s`; `comp` is `client->component`; `glb` the
board table in list order; `cmds` the addresses of queued queries.

Abstractions: addresses are values; `malloc` succeeds; the order of the client and
peer lists is left out, so a loop over them may take any order; ages stop one above
`TIMEOUT`; of a board's information only whether it was ever set is kept. A scan of
an empty peer list by `ssock_check` changes nothing and is left out. The kernel
gives an address to a new connection only when the old socket has failed (`Accept`).

### Abstract specification

`BoardDirectory` says what a user of the server sees: boards appear when they
connect, get their information once, keep it, and disappear; every board whose
connection failed disappears eventually. `NmServerDirectory` maps `glb` to it, and
`ImplementsFairDirectory` is checked as a property.

### Fairness

Each thread is a loop that does not stop. Steps that wait for no lock are weakly
fair. Steps that wait for `svc->lock` or `ctrl->lock` are strongly fair: each holder
releases after a bounded number of steps and then sleeps (10 ms in the process and
main threads, 200 ms in the accept threads), so the lock is free again and again
for far longer than a waiter needs. Nothing is assumed of connections: they need not
arrive, send or fail.

`TimedSpec` adds the clock. A second passes only when the threads, which turn every
10 ms, and the boards in `Responsive` have nothing to do (`Quiet`); a failed peer
may wait for the next scan while time passes. This is the assumption under which a
time-out of 15 s with a query interval of a few seconds is meant to work; without it
no time-out is safe. The properties of this run speak only of distinct addresses:
when an address is used again before the old connection is released, `add_node`
keeps the old client, the release deletes it, and the new connection has no client
until it connects once more.

### Runs

| run | instance | shows |
|---|---|---|
| `reuse` | two board connections of one address, a receive queue of one, time-out after one tick, fairness | `UniqueByAddress`, `NoGhostBoard`, `RegisteredIsListed`, `ReportedIsServed`, `ReportKept`; `FailedIsRemoved` (liveness); refinement of `BoardDirectory` |
| `mixed` | a board and a client of service R, both message kinds, one queued command while time passes | the inductive invariant `IInv` (its first conjunct is `TypeOK`), `NoCircularWait` with all four threads |
| `timed` | an answering and a silent board, time-out of three ticks, `TimedSpec` | `ResponsiveKept`, `ResponsiveShown`, `SilentRemoved` |

Bounds: one address used by two connections is the smallest instance in which a
lookup by address can meet the wrong connection, and a third connection meets the
same two cases (old one linked, old one gone). A receive queue of one message is
enough for a report that is read before and processed after a release, because
the process thread holds a second one. `MaxCmds` stops the clock while the queue is
longer, so that several queries for one address occur (one per turn) without growing
for ever. `Timeout` of one tick with `Interval` one makes every race of a time-out
with a report happen; three ticks leave room for a late answer in `timed`.

Every property has a mutant in `PROJECT.json`: a mistaken version of one action,
kept beside the action and marked `Mistaken`, with which the run fails.

## 4. SockLink

### Correspondence

| part | code | actions |
|---|---|---|
| client, check thread | `mpktconn_do_check`, `csock_check_connection` | `Create`, `CheckEstablished`, `ClientHeartbeat` |
| client, flush threads | `csock_flush_tx`, `csock_flush_rx` | `ClientSend`, `ClientSendTmp`, `ClientRecv`, `ClientError` |
| client, user | `csock_write`, `csock_read`, `mpktconn_close_svr` | `ClientWrite`, `ClientRead`, `UserClose` |
| server, accept thread | `ssock_accept`, `ssock_check` | `Accept`, `Check` |
| server, threads of a peer | `ssock_peer_do_check`, `_flush_tx`, `_flush_rx` | `ServerHeartbeat`, `ServerSend`, `ServerSendTmp`, `ServerRecv`, `ServerError` |
| server, user | `ssock_write_to`, `ssock_read_from`, `ssock_disconnect_peer` | `ServerWrite`, `ServerRead`, `Disconnect` |
| outside | TCP, clock | `Handshake`, `Break`, `Tick` |

A packet in the stream is two pieces, a header and a body, and a heartbeat is a
header alone; a send takes any first part of what it is given, so a packet may be
torn at any of its boundaries. What a socket did not take stays in `txtmpbuf`
(`ctmp`, `stmp`), what the receiver cannot complete yet in the align buffer
(`cral`, `sral`). `Aligned` follows `sock_read_from_socket`: a piece that is no header is
skipped, and a header takes the next pieces as its body whatever they are, so a
stream out of step shows as a `Torn` packet. The client's fifo and receive queue
(`ctq`, `crq`) outlive a connection, everything of a peer goes with it.

Abstractions: sizes in bytes (any number of packets can make a batch), statistics,
the callbacks, pktsync framing. A peer's threads start before the peer is in the
list, but have nothing to send until it is, so `Accept` is one step. A send error
after the batch was taken from the fifo is `ClientSend` with nothing accepted and
then `ClientError`. Every turn of a flush loop is a step, although `csock->lock` is held through a
call: any turn may be the last of its call.

### Properties

- `InStep`: align buffer, stream and `txtmpbuf` together are whole packets at every
  moment, so no reconnection, partial send or heartbeat makes a receiver take the
  middle of a packet for its beginning;
- `UpInOrder`, `DownInOrder`: order and no repetition, towards the server for each
  connection, towards the client over all its connections. The second is not
  obvious: `ssock_write_to` gives a packet to every linked peer, also to those whose
  connection the client has left. It holds because such a peer's stream ends at a
  closed socket, and a peer accepted later only gets what is written later;
- `UpDelivered`: a packet in the client's fifo arrives, is dropped by a full receive
  queue, or was sent on a connection that failed. This is all the code promises:
  what was in flight when a connection fails is lost;
- `Reconnects`, `PeersReleased`: no state left by a refused attempt or a failed
  connection keeps the client from connecting or the server from cleaning up.

### Runs, bounds, fairness

| run | instance | shows |
|---|---|---|
| `sock_up` | three packets up, fifo of two, receive queue of one, two connections, one tick between attempts, fairness | `TypeOK`, `UpInOrder`, `UpDelivered`, `Reconnects`, `PeersReleased` |
| `sock_down` | three packets down, three connections, three pieces in a socket | `InStep`, `DownInOrder` |
| `sock_beat` | a packet each way and heartbeats both ways, two connections | `InStep` |

Two pieces in a socket are less than a batch of two packets, so every batch can be
cut in its header, between its packets and in its body. The last connection of a
behaviour does not fail: the liveness properties need one that lasts, and the
earlier ones show every way to fail. Two connections meet everything a reconnection
can meet; three let two stale peers take a packet at once.

Fairness: the flush, check and accept threads are loops that do not stop (weak
fairness); `ClientProgress` says that a socket with room takes at least a piece. Of
the network it is assumed that attempts to connect do not fail for ever: strong
fairness of a successful `Create` and `Handshake`, since each failure is followed by
another attempt. Users need not read, write or close, heartbeats need not be sent.

## 5. Pfifo

### Correspondence

| thread | code | actions |
|---|---|---|
| a worker, one for each ring | `pkt_cb_default`, `pfifo_write`, `memcpy`, `pfifo_write_commit` | `Write`, `Copy`, `WriteCommit` |
| the user | `adapter_mpipe_read`, `pfifo_read_commit`, `pfifo_read` | `Read`, `Found`, `Empty` |

`r`, `w`, `elements` are those of `struct pfifo_ctrl`; `readCommit` and `tid` are the
static variables of `adapter_mpipe_read`; `held` is what the user saw when it was
handed the slot. A ring that is full, or a failed `malloc`, drops the packet and
changes nothing but `rfull`. A slot is `Junk` from `pfifo_write` to the end of the
copy: that stands for the bytes being written in any order, and for the memory that
`pfifo_write` frees and replaces when a packet is longer than `avpsize`.

No lock protects a ring, so the memory order matters. The model has the accesses in
program order, which is what the code asks for: `smp_wmb` stands between the copy and
the store to `w` (a fence instruction on the target of this adapter), and the reader
reads the packet only behind a branch on `w`. There is no barrier before the store
to `r`; the reader has done with the slot then, and the model takes its reads to be
over. Without the first barrier a packet could be found before it is whole.

### Properties

- `HeldIntact`: what the user holds stays whole and unchanged until it calls again,
  although it is the ring's own slot and the worker goes on;
- `SearchInv`: each slot has one owner, the ring never passes for empty by being full
  (`PInv`); rings that held a packet when a call began still hold it and are still before
  the reader (`Searching`), so a call returns NULL only if every ring was empty when it
  began (`NullMeansEmpty`), wherever the search begins and whatever the workers do
  meanwhile. The user takes NULL for "nothing to do". What the call began with is the
  history variable `waiting`; `scanned` is `i`, and is `NumQueues` after a NULL only;
- `ImplementsQueues`: through `Contents`, each ring is a bounded queue of
  `PacketQueues` (`Size - 1` packets), and a call takes back exactly the packet the
  previous call gave;
- `Served`: a ring with a packet is served, however busy the others are. It needs
  `tid` to move on after a packet was found, not only after an empty ring.

Run `mpipe`: two rings of three slots, two packets. Three slots hold a full ring, an
empty one and one packet, with `w` before and behind `r`; two rings are enough for one
to be busy while the other waits. Two packets tell order and loss apart for a queue
of two. Fairness is only that the user calls `adapter_mpipe_read` again and again and
the call goes on (`WF_vars(Reader)`); workers may stop anywhere. The sockets use the same ring
under `wlock`, where `SockLink` has it as a bounded sequence.

## 6. OicIoctl

### Correspondence

`oic_ioctl` is the `unlocked_ioctl` of the device: calls of several processes run at
the same time and only `oicdev->lock` keeps them apart. A handler is data: sections
(what runs between `mutex_lock` and `mutex_unlock`, or a stretch without the lock) of
register accesses in the order of the text, written with the operators of
`RegProgram`. Each access is a step.

| code | here |
|---|---|
| `oic_ioctl`, its dispatch | `Call`, the tables of `OicCalls` |
| `mutex_lock`, `mutex_unlock` | `Enter`, `Leave` |
| `BDREGCHK` that succeeds | `Put`, and `Strobe` for a register that makes the device act |
| `BDREGCHK` that gives up | `Fail`: it unlocks, whoever has the lock, and returns `-EIO` |
| reading of the value registers | `Get` |
| read-modify-write of `csr`, `g_channel1`, `g_channel2` | `Load`, `Modify` |
| loops over bytes, links, groups, tables | sections and steps repeated, two or three times |
| the FPGA | `Selected`, `Reaction`, `Content`: address registers select a place, an edge of the strobe stores or fetches it |

`Section1(locked, exit, onFail, steps)` keeps what differs between handlers: `Locked`,
`Bare` (no lock), `Abandoned` (returns with the lock), `Ignored` and `Heedless` (the
caller goes on after a helper gave up). The argument of a call is a mark of the process that
makes it, so that a value of another process is told apart; the content of a place
nobody wrote is its own mark. The build is the one without `IN_X86`. Nothing in the
driver belongs to a process between its calls, so a behaviour has two processes, each making
one call over and over, and `Init` takes every two calls that share a register.

### Properties

- `CallsDisciplined`: the handlers keep the rules that the proofs need. Every section unlocks
  where it ends, and a register that can refuse a value is written under the lock by a
  handler that stops there (`Disciplined`). A locked section selects the place of an access, sets the
  data and takes the strobe back before it (`KeepsAim`), fetches what it reads and does
  not write over it (`KeepsHold`), and has both halves of a read-modify-write, of a
  register no code without the lock writes (`KeepsPart`). It is a condition on the
  text of the handlers, so TLC evaluates it where no call has begun;
- `LockHeld`: the lock belongs to who is inside a locked section (`OneOwner`), the failures
  in the middle included, until a register refuses a value in one of the eight calls
  below;
- `RightPlace`: every access of a locked section is to the place and with the data its
  handler names, whatever the call before left in the select, data and strobe
  registers, a strobe that stayed high among it;
- `OneMoment`: what a section has read or stored is still so while it lasts: the bytes of a
  value belong together, a value set is the one its caller gave;
- `PartsKept`: a read-modify-write takes nothing back that another call wrote;
- `Returns`: every call comes to its end.

What the driver does not keep is visible in the statements. Eight calls (`Careless`) access shared
registers without the lock (`get_fpga_try_group`, `get_fpga_group`, `set_fpga_hdlc_cfg`,
`get_channel2global`, the clearing of statistics) or go on after a helper has given up
(`set_sdh_board_stat`). This limits the claims in two ways:

- a section that an access without the lock crosses is exempt from `RightPlace` and
  `OneMoment` (`crossed`);
- when a register refuses a value in such a call, `BDREGCHK` unlocks the mutex although the call
  does not own it (`oicfops.c:1433`, 1852, 1880, 1917, 1956, 2850, 2965). Then another process loses the
  lock in the middle of its section, or `set_sdh_board_stat` goes on in a section without it. The model
  does that step (`Fail`) and goes on after it, and `broken` records it. **From then on
  `LockHeld`, `RightPlace`, `OneMoment` and `PartsKept` are not claimed**: `OneOwner` and `RightPlace` without
  `~broken` are false of the driver, as TLC shows after a few steps. No comment or document of
  the driver says otherwise, so this is no finding but a limit of what holds. `TypeOK` and
  `Returns` are checked in all behaviours.

`get_fpga_pl_match` copies the table to the caller after it unlocked, which is
no register access and not in the model.

### Runs, bounds, fairness

| run | instance | shows |
|---|---|---|
| `oic` | two processes, all calls, modes 0 and 1, group rate C12, at most one refused value, in any call | all of the above, within the limits named there |
| `oic_c11` | the same with groups of rate C11 | `GroupsCommitted` fails: `set_info_rule` knows C4 and C12 only and returns with the lock taken, although `oic.h` documents C11 |

Two processes are the smallest meeting, and a third would meet the registers as one of
the two left them. `set_fpga_pl_mode` keeps bit 0 of the old mode (`data & 0xfd`, `oicfops.c:728`), which
`NewMode` does too; modes 2 and 3 are left out because they meet the registers as 0 and 1 do. `set_try_group` sets
one group of one link and `get_fpga_try_group` reads one entry, where `set_group` has groups of two lengths and
`get_fpga_group` reads two. One refusal is enough to leave any handler at any access;
a second one leaves another handler in a state the first could have left.

Fairness: a process in a call runs on (weak), and a mutex that is released again and
again is not withheld from one waiter for ever (strong, of `Enter`). Nobody has to
make calls.

## 7. GrpSm

### Correspondence

| code | here |
|---|---|
| `convert_linkinfo`, `grpsm_push` (`grpsm_init_fiber`, `grpsm_init_svc`) | `LinkInfo`, `Bundles`, `Init` |
| `grpsm_get_lcas`, `grpsm_get_lcas_from_svc` | `get_lcas`, `get_lcas_from_svc` |
| `grpsm_get_vc`, `grpsm_get_vcs_from_svc`, `_svc_sq`, `grpsm_init_sqlinks`, `grpsm_cfg_from_sqlinks`, `grpsm_near_mfi` | operators of the same names |
| `grpsm_remove_olinks_from_svc` | `remove_olinks` |
| `grpsm_get` | `GetLcas`, `GetVc` |
| `study`, `Get`, `try` of the cascade application | `Answer`, `TryBatch`, `Quit` |
| far end, board | `Fleets`, `Verdicts` |

The algorithms are the operators of the model, the loop between library, study and board its actions. The
multiframe numbers are counted modulo a small number with the threshold scaled to it;
the batch of the board is `MaxLink` links instead of 255. Numbers have no width: `num_groups`
of `grpsm_cfg_from_sqlinks` is an `int`, and the product of the link counts is taken to fit. Where
it does not, neither the run nor the theorems say anything of the code.

### Properties

- `LcasGiven`: a group with LCAS whose members are all received is in the first answer
  when no other group of the service shares an identifier and the multiframe number with it,
  whatever the other groups are and have lost;
- `RoundExact`: a round is compared with its definition: every choice of one free link
  for each sequence number that fits the last one, each once, nothing else. It relates the
  arithmetic that numbers the candidates to the links the results have taken away;
- `NonePassedOver`: a group without LCAS whose members are all received has been given
  when the study ends, although a round skips the lengths where the counts of links do not
  drop, and the board may confirm or miss what it likes. It needs a board that confirms no
  wrong group, and all members of all groups: with a stray link of a
  group that lost a member the counts can drop elsewhere, or not at all, and the code does pass groups over;
- `NothingLeft`: what was given and not tried has been given again or has lost a link;
- `StudyEnds`: under the fairness of the study alone, with any board.

Run `grpsm`: up to three groups of up to three members. All groups without LCAS, or up to
two of any kind with one member lost; two service types, three
multiframe numbers (two near each other, one near only across the wrap), and group identifiers
of which two are distinct and a third overlaps both (a group that is changing its identifier has two). Batches of four links split a round between and inside its
lengths. Three groups of one service give eight or more candidates, so rounds take several
batches and are repeated after a success in the first.

## 8. UTimer and UpgClient

### Correspondence

| thread | code | actions |
|---|---|---|
| main | `upgcli_run`, `upgcli_process` | `Read`, `Publish` |
| | `utimer_run`, `upgcli_timer_cb` | `TimePasses`, `TimeStands`, `TimeIsSet`, `Fire`, `Fired` |
| | `upgcli_exit_env`, `utimer_close`, `thread_close` | `Leave`, `Close`, `Join` |
| sys | `upgcli_dosys` | `SysIdle`, `Accept`, `Execute`, `Result`, `Clear` |
| adapters | `adapter_udp_dorcv`, `adapter_udp_dosnd` | `Receive`, `Send` |
| outside | a signal | `Quit` |

`UTimer` has the tree of `utimer.c` as a sequence in the order of expiry and its functions
as operators. Times are counted from the last run of the timers, so a clock that is
set by any amount moves all entries at once (`Run`), as `gettimeofday` does to the code. Two
names are enough for the entries: one is out of the tree while its callback runs and
the other is added.

`upgrading` is an `int` without a lock. The model has the copies to `upginfo` and `svrip`
before the store to it, in the order of the program; a compiler or processor that moved
them would break `RepliesInStep`. Datagrams may be lost, repeated and delayed: any command may
come at any time. The queue of replies has no limit here, since a behaviour cannot
reach the 8 MB of the adapter; notifications are not put into a queue. Versions are 16 bits in a
datagram and 8 in `upg_info` (`Decoded`), so the script and the replies get them modulo 256. `taken` is
the history of the datagrams accepted, as they were sent (`asked`). `upg.sh` is its exit
codes: 253 unless it has exactly two arguments, 254 when it is killed, 0 otherwise.

### Properties and runs

- `RepliesInStep`: each accepted datagram runs once, in order, with its command and the low 8 bits
  of its version, and its accept and its result go to the server that asked, in this order,
  while other servers send commands. That the version is the one asked for is not part of it,
  since it is false: `UpgradeKept`;
- `TimerKept`: `timer` names the one entry in the tree, or is NULL and the tree is empty:
  so `utimer_delete` at the end never gets an entry that was freed;
- `Notified`: notifications go on, whatever the clock is set to, until an entry cannot
  be allocated; `Answered`: no command stays unread, and what is accepted is run and answered.

| run | instance | shows |
|---|---|---|
| `upgrade` | two servers, two commands, a period of two ticks, the clock set once by two ticks either way, one failed allocation | the four properties |
| `upg_usage` | the same | `UpgradeKept` fails, twice in one state. The usage line of `upg.sh` has eight arguments for an upgrade, and its test lets only two pass (exit code 253). And `basever` and `appver` of `upg_info` are `unsigned char`: asked for version 1.2 (258), the script is given 0.2, although `upgdef.h:48-50` has 16-bit versions and `upgcli.c:150-162` prints two bytes of them |

Two commands of two servers are enough for one to come at every point of the run of the
other; setting the clock back by as much as the period makes an entry wait twice, setting it on
makes it due at once.

Fairness: both threads and the sender are loops that do not stop while they may run (weak). Time
passes between two turns of the main loop again and again (strong, of `TimePasses`): the
loop sleeps 10 ms whenever it has read nothing.

## 9. Proofs

`NmServerProofs` proves `Spec => []IInv`, and from it `TypeOK`, `NoGhostBoard`,
`UniqueByAddress`, `RegisteredIsListed`, `ReportedIsServed`, `NoCircularWait` and the
action property `ReportKept` (and the timed `ResponsiveKept`, below), for any set of connections, addresses, list lengths
and time-outs that satisfies `NmServerAssumption` (the only assumption: types, a
finite set of connections, positive bounds).

Why `IInv` has these conjuncts:

- `LocksMatchThreads` ties each lock to the program counters, so that a step under a
  lock excludes the others;
- `ThreadsCarryValid` says that the connection, client or address a thread carries
  from one step to the next is still what it was; it needs the locks;
- `ClientHasPeer`: a client has a linked peer until its `disccb` runs. Without it
  `NoGhostBoard` is not inductive: a report is inserted because a client exists, and
  only this conjunct gives the peer;
- `ClientGoesFirst`: when an entry is about to be deleted its client is gone and
  cannot come back, since only the accept thread adds clients and it is the one that
  deletes, or the main thread holds `ctrl->lock`. It gives `RegisteredIsListed`;
- `ReportHasClient`: information in the table belongs to a client, which gives
  `ReportedIsServed` when a new client of a known address is added.

Each conjunct has its lemma over all actions (`LocksStep`, `CarryStep`,
`ClientHasPeerStep`, `NoGhostStep`, ...), and lemmas on the board table
(`InsertEntries`, `DelEntries`) and on the orders of a query are stated once.

`ResponsiveStays` is about timed behaviours, without their fairness (`TimedSafety`):
a board that is up and answers every query never leaves the client list
(`ResponsiveKept`). Its hypothesis `TimedSetting` says that the board has an address
of its own and that `Interval <= Timeout`; the code has 5 s and 15 s, and run `timed`
evaluates the hypothesis for its instance. The invariant (`TimedInv`, beside `IInv`)
is `OnTime`: the age of such a client is at most the time since the timers ran, or
its next query is somewhere between the queue, the socket, the board, the receive
queue and the process thread (`Queried`), and then `Quiet` lets no time pass. One
lemma per thread shows that the query is passed on or the age set to zero; the report
of an address finds its own client because no other connection has that address.
TLC has checked `TimedInv` on run `timed`, and with the time-out equal to the interval.

`NmServerRefinement` proves that `NmServer` implements `BoardDirectory`
(`Implements`): from `IInv`, every step is a step of the directory on one address or
leaves what the directory sees as it is. The actions that matter: `Accept` connects,
`CheckPeer` of a failed peer loses, `InsertNull` shows, `LInsert` reports (the client
it was found for has a peer by `ClientHasPeer`), `DelEntry` forgets, `MDelEntry`
expires; `AddNode` and `DelNode` move the accept thread without changing the picture.
`ShownConnected` is the promise of the directory read back through the mapping.

`PfifoProofs` proves, for any number of rings and any size above one, that `PInv`
holds (`RingInvariant`), and from it `HeldIntact` (`HeldPacketIntact`) and the
refinement of `PacketQueues` (`RingsAreQueues`). `HeldIntact` alone is not inductive: that the
worker is not in the slot held needs `Owned`, a writing worker never stands just
behind `r`, and that a found packet is whole needs that everything between `r` and `w`
is. The refinement rests on lemmas about a ring seen as a sequence: a write is not
seen (`WritingUnseen`), a commit appends (`CommitAppends`), a read commit removes the
first (`AdvanceRemoves`), and the first is what `pfifo_read` returns (`HeadAtReader`).
The assumption is `PfifoAssumption`: at least one ring, at least two slots as
`pfifo_open` demands, and that `Junk` and `Nothing` are no packets. `SearchInvariant` and
`NullReturnsAreRight` are the safe half of `Served`: `Ahead(q)` counts the rings before `q`
in the search, each empty ring brings `q` one step nearer (`NextTidNearer`), and since only
the reader empties a ring (`WorkerKeepsHead`), a ring with a packet is met before `i`
reaches `NumQueues`. That a ring is served at last rests on fairness and stays with TLC.

`SockLinkProofs` proves `Spec => []IInv` (`Invariance`), and from it `TypeOK`, `InStep`
(`Framing`), `UpInOrder` (`UpOrder`) and `DownInOrder` (`DownOrder`), for any number of
connections and packets and any limits that satisfy `SockLinkAssumption`. Its parts:

- `Phases`: what a connection may hold in each phase, `ctmp` and `cral` empty between two
  connections above all. A connection that is not established has nothing in either
  direction; without that the refused branch of `CheckEstablished` is not inductive;
- `UpFramed`, `DownFramed`: align buffer, stream and `txtmpbuf` together are whole packets, but
  for what a failed sender can no longer complete. `InStep` follows, but is not inductive
  by itself: a receiver takes pieces whose rest is still in `txtmpbuf`;
- `UpOrdered`: on each connection what the user has comes before what is on its way, and all
  of it was sent on that connection (`via`). `SentFirst`: what was sent was written before what is
  in the fifo, and never on an earlier connection. Both together are
  `UpInOrder` over reconnections;
- `DownLined`: towards the client only the connection it is on matters: what it has, the line
  and the fifo of that peer are in order. That a new peer's fifo holds newer packets than any the
  client has read is `DownKept`.

The work is in what a turn of a flush thread does to a stream cut anywhere (`Aligned`): lemmas on
whole packets, on what a receiver in step makes of a part of them, and on a sorted
line, each proved once for both directions. `FlattenSeq` is defined by a recursive function;
`FlattenProofs` shows what it computes by an induction over a set of numbers (`NatSet`), which the
provers can apply where the library's induction theorems, with an operator as parameter,
cannot be. These are lemmas about sequences that the proofs rest on, not results about the code.

`OicIoctlProofs` proves its theorems for any set of processes, any calls and any registers, as a
condition on the text of each section alone: a call that keeps the rules is right whoever
else calls the driver, until a register refuses a value in a `Careless` call (`broken`). Run `oic` checks the rules of every call of the driver that shares a register with a call
(`CallsDisciplined`), so the theorems hold of the real table, groups of rate C11 excepted.

| theorem | property | hypotheses |
|---|---|---|
| `LockIsHeld` | `LockHeld` | `Disciplined` |
| `OicTypeCorrect` | `TypeOK` | none |
| `RightPlaces` | `RightPlace` | `Disciplined`, `AllAim` |
| `OneMomentHolds` | `OneMoment` | `Disciplined`, `AllAim`, `AllHold` |
| `PartsStay` | `PartsKept` | `Disciplined`, `AllPart` |

All but `OicTypeCorrect` are of the properties as they stand, with `~broken`; `AimSafe` carries
the invariants under that hypothesis, and nothing resets `broken` (`StaysBroken`).

The invariants: where each process is (`Places`), each access leaves that alone (`LockKept`), and
a process that goes on has given the lock back (`LockGoOn`). A section that nobody without
the lock has crossed knows the value of each register it has written (`Known`), from which
every access selects its place, finds an edge at its strobe and has its data (`AimsAt`). For
`OneMoment` the notes of a section are those of the device (`Moment`), and that needs to know
that a fetched value is still in its register (`FetchKept`), that no other section has
notes (`Unseen`), and where the content of a place can be kept (`CellsSeen`). For `PartsKept` a
section that has loaded a register knows what is in it (`Loaded`), if no code without the
lock writes it.

`UpgClientProofs` proves, for any servers, versions, period, bounds and settings of the clock,
`TimerKept` (`TimerIsKept`), that `upginfo` does not change from accept to result (`UpginfoStays`),
`TypeOK` (`TypeCorrect`) and `RepliesInStep` (`RepliesAreInStep`, which claims the low 8 bits of a
version, not the version asked for). The invariant of the last, `RInv`, says what
has been answered at each place of the sys thread (`Wire`), for which the command in `upginfo` is
the one accepted last (`Held`) and the only one not yet run (`Counted`), by the hand-over
through `upgrading` (`Handover`); `Ending` keeps the queues until the sys thread has stopped.

`GrpSmProofs` proves `LcasGiven` (`LcasGroupsGiven`), `RoundExact` (`RoundsAreExact`), `NothingLeft`
(`NothingIsLeft`) and `NonePassedOver` (`NoneIsPassedOver`) for any number and lengths of groups, services,
multiframe numbers, identifiers and size of batch that satisfy `GrpSmAssumption`, with numbers that have no
width, that is, as long as `num_groups` and `cm` of the code fit an `int`: the bounds are
numbers, multiframe numbers are below `MfiDist`, a link with LCAS has an identifier, and the board
takes at least one group at a time. One half is what the algorithms compute, as sets:

- the table of a service has each of its links once at its sequence number (`BundleFacts`);
- `cfg_from_sqlinks` gives every choice of links exactly once (`CfgFacts`). The group at a number is
  made of the digits of that number in the radices of the link counts; every number below the
  product has digits of its own (`DigitsDiffer`), and any digits are those of a number (`DigitsAny`);
- a round of all services is the set of choices that fit their last link (`RoundOfFacts`), and
  `get_lcas_from_svc` has the groups that are whole and alone (`LcasWhole`).

The other half is the inductive invariant `IInv`. `RoundExact` is not inductive, because the groups
that pass leave the tables at the next call only: `Behind` says that the tables hold the links of all groups but
those confirmed before the last answer, with `Before` for the LCAS groups, which take no link from
them. `Left` gives `NothingLeft`: what was given and is neither tried nor touched is in the last answer, and
a repeated round still has it (`RoundRepeated`). `Offering` gives `NonePassedOver`: a group is offered
before the rounds of its service pass its length. With an honest board the free links at
number `i` are the members of the unconfirmed groups longer than `i` (`FreeLinks`), so the counts drop where one
of them ends (`CountsDrop`), and `find_sq` cannot have skipped that length; when no round is left, a group
that was not given would have a prefix that is a candidate (`PrefixGiven`). TLC has checked each
conjunct of `IInv` on a smaller instance of run `grpsm`.

Only model-checked: liveness, which needs fairness: `UpDelivered`, `Reconnects`,
`PeersReleased`, `FailedIsRemoved`, `ResponsiveShown`, `SilentRemoved`, `Served`,
`Returns`, `Notified`, `Answered`, `StudyEnds`, the
fairness part of the refinement (`ImplementsFairDirectory`); and `CallsDisciplined`, which is a
fact about the handlers as they are and has no general form.

## 10. Not modelled

Input and output, parsing and formatting (`pktcmd*`, `cconfig`, `psp`, `cgiparse`),
logs, generic containers, `fifo.c` (nobody opens one), `timermgr.c` (nobody opens one),
`pfifo_write_rollback` and `pfifo_clear` (nobody calls them), `grpsm_stat` and the
virtual groups it reads (nobody calls it), the generated snmp tables, the vendored net-snmp. Of
`nmserver`: the process thread of service R, set commands, start-up
and shutdown (planned, see 2). Of the sockets: opening and closing a service, several
servers of one `mpktconn`, framing by `pktsync`. The data of components is not kept, a data message is
one kind of message that leaves the table alone. Of the interface card: opening the
device, copying between user and kernel, the match tables of `fst.c`, `oicproc.c`, the
X86 build, and the front ends that make one call each. Of the upgrade client: a failing
initialisation and what the script does to the board (`do_upgrade` is out of reach).
