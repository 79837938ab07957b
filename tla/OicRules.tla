------------------------------ MODULE OicRules ------------------------------
(***************************************************************************)
(* Rules that the text of a handler can keep or break, one section at a     *)
(* time: which register it has to write before which access.  A handler     *)
(* that keeps them is right whenever it runs, whoever else calls the driver:*)
(* OicIoctlProofs.  The handlers of the interface cards keep them           *)
(* (CallsDisciplined of OicIoctlMC).                                        *)
(***************************************************************************)
EXTENDS OicIoctl

\* The registers that an access changes; a strobe may make the device fill another.
Strobes == {"store", "fetch"}
Changing == {"put", "modify", "pass"} \cup Strobes
Writes(s) == (IF s.op \in Changing THEN {s.reg} ELSE {})
               \cup (IF s.op \in Strobes THEN {Port[s.win].out} ELSE {})

\* The last step before step k that changes register r is step j.
LastWrite(steps, j, k, r) ==
  j \in 1 .. k - 1 /\ r \in Writes(steps[j]) /\ \A i \in j + 1 .. k - 1 : r \notin Writes(steps[i])

\* ... and it leaves its value in r.
Puts(steps, j, k, r) ==
  /\ LastWrite(steps, j, k, r)
  /\ steps[j].reg = r
  /\ steps[j].op = "put" \/ (steps[j].op \in Strobes /\ r # Port[steps[j].win].out)
Holds(steps, k, r, v) == \E j \in 1 .. k - 1 : Puts(steps, j, k, r) /\ steps[j].val = v
TheyHold(steps, k, regs, vals) ==
  DOMAIN vals = DOMAIN regs /\ \A i \in DOMAIN regs : Holds(steps, k, regs[i], vals[i])

\* The section itself has selected the place of an access, set the data that it means to
\* store and taken the strobe back, so that there is an edge.
Toward(steps, k) ==
  LET s == steps[k] w == Port[s.win] IN
  IF w.dir # NoReg
  THEN \E j \in 1 .. k - 1 : Puts(steps, j, k, w.dir) /\ (steps[j].val = 1 <=> s.op = "fetch")
  ELSE s.reg = w.rd <=> s.op = "fetch"
AimedStep(steps, k) ==
  LET s == steps[k] w == Port[s.win] IN
  /\ s.op \in Strobes \cup {"get"} => s.win # NoReg
  /\ s.op \in Strobes =>
       /\ s.reg # NoReg
       /\ TheyHold(steps, k, w.addr, s.addr)
       /\ \E j \in 1 .. k - 1 : Puts(steps, j, k, s.reg) /\ steps[j].val # s.val
       /\ Toward(steps, k)
       /\ s.op = "store" /\ s.data # <<>> => TheyHold(steps, k, w.data, s.data)
  /\ s.op = "get" /\ w.out = NoReg => TheyHold(steps, k, w.addr, s.addr)
Aimed(steps) == \A k \in DOMAIN steps : AimedStep(steps, k)

\* What is read is what the section fetched last, and the section does not write over
\* what it has read.
Fetches(steps, j, k, w, a) ==
  /\ LastWrite(steps, j, k, Port[w].out)
  /\ steps[j].op = "fetch" /\ steps[j].win = w /\ steps[j].addr = a
  /\ steps[j].reg # Port[w].out
  /\ \A i \in j + 1 .. k - 1 : ~(steps[i].op = "store" /\ steps[i].win = w)
SettledStep(steps, k) ==
  LET s == steps[k] w == Port[s.win] IN
  /\ s.op \in Strobes => w.plain = NoReg
  /\ s.op = "get" /\ w.out # NoReg =>
       w.plain = NoReg /\ \E j \in 1 .. k - 1 : Fetches(steps, j, k, s.win, s.addr)
  /\ s.op = "get" /\ w.plain # NoReg =>
       \A i \in DOMAIN steps : i > k => w.plain \notin Writes(steps[i])
Settled(steps) == \A k \in DOMAIN steps : SettledStep(steps, k)

\* The load of a read-modify-write is in the same section, which does nothing to the
\* register in between.
Loads(steps, j, k, r) ==
  /\ j \in 1 .. k - 1 /\ steps[j].op = "load" /\ steps[j].reg = r
  /\ \A i \in j + 1 .. k - 1 : steps[i].op \notin {"load", "modify", "pass"} /\ r \notin Writes(steps[i])
PairedStep(steps, k) ==
  steps[k].op = "modify" => steps[k].reg # NoReg /\ \E j \in 1 .. k - 1 : Loads(steps, j, k, steps[k].reg)
Paired(steps) == \A k \in DOMAIN steps : PairedStep(steps, k)
-----------------------------------------------------------------------------
(* The rules of a section s, and of all sections that a process can run.    *)

\* The registers that code without the lock changes.
BareSections(c) == {i \in DOMAIN Prog[c] : ~Prog[c][i].locked}
WritesOf(steps) == UNION {Writes(steps[k]) : k \in DOMAIN steps}
BareWrites ==
  UNION {UNION {WritesOf(Prog[c][i].steps) : i \in BareSections(c)} : c \in DOMAIN Prog}

KeepsAim(s)  == s.locked => Aimed(s.steps)
KeepsHold(s) ==
  IF s.locked THEN Settled(s.steps)
  ELSE \A k \in DOMAIN s.steps : s.steps[k].op \in Strobes => Port[s.steps[k].win].out = NoReg
KeepsPart(s) ==
  IF s.locked
  THEN Paired(s.steps) /\ \A k \in DOMAIN s.steps : s.steps[k].op = "modify" => s.steps[k].reg \notin BareWrites
  ELSE \A k \in DOMAIN s.steps : s.steps[k].op # "modify"

AllAim  == \A p \in Proc : \A c \in DOMAIN Prog : \A i \in DOMAIN Prog[c] : KeepsAim(Code[p][c][i])
AllHold == \A p \in Proc : \A c \in DOMAIN Prog : \A i \in DOMAIN Prog[c] : KeepsHold(Code[p][c][i])
AllPart == \A p \in Proc : \A c \in DOMAIN Prog : \A i \in DOMAIN Prog[c] : KeepsPart(Code[p][c][i])
=============================================================================
