------------------------------ MODULE OicIoctl ------------------------------
(***************************************************************************)
(* The ioctl calls of the interface card driver (oic/oicdrv/oicfops.c) over *)
(* the registers of an FPGA.  oic_ioctl is the unlocked_ioctl of the device,*)
(* so the calls of several processes run at the same time; oicdev->lock is  *)
(* what keeps them apart.                                                   *)
(*                                                                          *)
(* Most of the card is behind windows: a call writes an address to select   *)
(* registers, data to data registers, and 0 then 1 to a strobe register, on *)
(* which the device stores the data at the address, or fetches the content  *)
(* of the address into an output register.  Other windows have no strobe:   *)
(* what is read follows the select registers.  A call that is interrupted   *)
(* between the select and the access reads or writes somewhere else.        *)
(*                                                                          *)
(* What each call does is data, Prog: the sections of its handler, and the  *)
(* register accesses of each section.  A section is what runs between       *)
(* mutex_lock and mutex_unlock, or a stretch of code that takes no lock.    *)
(* Each access is a step.  Nothing in the driver belongs to a process, and   *)
(* calls without a common register meet at the lock only: in a behaviour    *)
(* every process makes one call over and over, and they share a register.   *)
(***************************************************************************)
EXTENDS RegProgram

CONSTANTS
  Prog,     \* the sections of every call
  Windows,  \* the registers of every window
  First,    \* the registers that are not 0 at first, and their values
  Nil,      \* owner of the free lock, and a local variable without a value
  Soft,     \* variables of the driver that are kept among the registers
  Careless, \* calls that use BDREGCHK outside the sections of the lock, or go on after it
  MaxFaults \* bound: refused values during a behaviour

ASSUME OicIoctlAssumption ==
  /\ Nil \notin Proc /\ Own \notin Proc
  /\ MaxFaults \in Nat
  /\ \A c \in DOMAIN Prog :
       /\ 1 \in DOMAIN Prog[c]
       /\ \A i \in DOMAIN Prog[c] : Prog[c][i].steps \in Seq(Range(Prog[c][i].steps))

VARIABLES
  call,    \* the call that each process makes over and over
  phase,   \* "idle", "enter" before a section, "body" inside it
  sec, at, \* section of the call, and access of the section, that come next
  tmp,     \* the local variable of a read-modify-write
  seen,    \* what the section stored and read so far: places and contents
  astray,  \* an access of the section was not to the place the code names
  crossed, \* a call without the lock touched a register during the section
  lock,    \* oicdev->lock: the owner, Nil when it is free
  reg,     \* the registers
  cells,   \* the content behind the windows, of the places a section has seen
  faults,  \* values refused so far
  broken   \* a value was refused during a Careless call: the lock may have lost its owner

local == <<sec, at, tmp, seen, astray, crossed>>
vars  == <<call, phase, local, lock, reg, cells, faults, broken>>

\* The argument of the caller is its mark: every caller gives another one.
Value(p, v)  == IF v = Own THEN p ELSE v
Filled(p, s) == [i \in DOMAIN s |-> Value(p, s[i])]
StepOf(p, s) == Access(s.op, s.reg, Value(p, s.val), s.win, Filled(p, s.addr),
                       Filled(p, s.data), s.part, Filled(p, s.fn))
SectionOf(p, s) ==
  Section1(s.locked, s.exit, s.onFail, [k \in DOMAIN s.steps |-> StepOf(p, s.steps[k])])
CallsOf(p, prog) == [c \in DOMAIN prog |-> [i \in DOMAIN prog[c] |-> SectionOf(p, prog[c][i])]]
Code == [p \in Proc |-> CallsOf(p, Prog)]

\* No handler keeps the lock when it returns, and BDREGCHK is used inside the
\* sections of the lock only, by a handler that stops there -- except in the
\* Careless calls.
Refusable(s) == s.op \in {"put", "store", "fetch", "modify", "pass"} /\ s.reg \notin Soft
DisciplinedCall(c) ==
  \A i \in DOMAIN Prog[c] :
    LET s == Prog[c][i] IN
    /\ s.exit = "unlock"
    /\ c \notin Careless /\ (\E k \in DOMAIN s.steps : Refusable(s.steps[k])) =>
         s.locked /\ s.onFail # "resume"
Disciplined == \A c \in DOMAIN Prog : DisciplinedCall(c)

\* Where a process is.
Handler(p) == Code[p][call[p]]
Section(p) == Handler(p)[sec[p]]
Steps(p)   == Section(p).steps
Cur(p)     == Steps(p)[at[p]]
Inside(p)  == phase[p] = "body"
Holding(p) == Inside(p) /\ Section(p).locked
Doing(p, ops) == Inside(p) /\ \E s \in {Steps(p)} : at[p] \in DOMAIN s /\ s[at[p]].op \in ops

\* The window of a name.
Port == Windows

RegsOfPort(w) ==
  Range(w.addr) \cup Range(w.data) \cup ({w.dir, w.out, w.plain} \ {NoReg})
TouchedIn(steps) ==
  {s.reg : s \in {t \in steps : t.reg # NoReg}}
    \cup UNION {RegsOfPort(Port[s.win]) : s \in {t \in steps : t.win # NoReg}}
TouchedBy(prog) ==
  [c \in DOMAIN prog |-> TouchedIn(UNION {Range(prog[c][i].steps) : i \in DOMAIN prog[c]})]
Touched == TouchedBy(Prog)

\* The place behind window w that the registers select.
Selected(w) == <<w, [i \in DOMAIN Port[w].addr |-> reg[Port[w].addr[i]]]>>

\* What a write of 1 to the strobe register r of window w makes the device do.
Reaction(w, r) ==
  IF Port[w].dir # NoReg
  THEN IF reg[Port[w].dir] = 1 THEN "fetch" ELSE "store"
  ELSE IF r = Port[w].rd THEN "fetch" ELSE "store"

Data(w)    == [i \in DOMAIN Port[w].data |-> reg[Port[w].data[i]]]

\* What a place holds; a window with plain set is a register of its own.  The
\* content of a place that no section in progress has seen is its own mark.
Content(c) ==
  IF Port[c[1]].plain # NoReg THEN reg[Port[c[1]].plain]
  ELSE IF c \in DOMAIN cells THEN cells[c] ELSE <<c>>

With(f, c, v) == [x \in DOMAIN f \cup {c} |-> IF x = c THEN v ELSE f[x]]
Nothing == [c \in {} |-> 0]

\* Two calls that share a register, dealt out to the processes in some way.
MeetingsOf(touched) ==
  LET shared == {cd \in (DOMAIN touched) \X (DOMAIN touched) : touched[cd[1]] \cap touched[cd[2]] # {}}
  IN [Proc -> DOMAIN touched]
       \cap {CHOOSE f \in [Proc -> m] : Range(f) = m : m \in {Range(cd) : cd \in shared}}
Meetings == MeetingsOf(Touched)

TypeOK ==
  /\ call \in [Proc -> DOMAIN Prog]
  /\ phase \in [Proc -> {"idle", "enter", "body"}]
  /\ \A p \in Proc : phase[p] # "idle" => sec[p] \in DOMAIN Prog[call[p]]
  /\ \A p \in Proc : Inside(p) => at[p] \in 1 .. Len(Steps(p)) + 1
  /\ astray \in [Proc -> BOOLEAN] /\ crossed \in [Proc -> BOOLEAN]
  /\ lock \in Proc \cup {Nil}
  /\ faults \in 0 .. MaxFaults
  /\ broken \in BOOLEAN

Init ==
  /\ call \in Meetings
  /\ phase = [p \in Proc |-> "idle"]
  /\ sec = [p \in Proc |-> 0] /\ at = [p \in Proc |-> 0]
  /\ tmp = [p \in Proc |-> Nil]
  /\ seen = [p \in Proc |-> Nothing]
  /\ astray = [p \in Proc |-> FALSE] /\ crossed = [p \in Proc |-> FALSE]
  /\ lock = Nil
  /\ reg = [r \in UNION {Touched[call[p]] : p \in Proc} |->
              IF r \in DOMAIN First THEN First[r] ELSE 0]
  /\ cells = Nothing
  /\ faults = 0
  /\ broken = FALSE
-----------------------------------------------------------------------------
\* oic_ioctl dispatches a command, after its arguments were copied in.
Call(p) ==
  /\ phase[p] = "idle"
  /\ phase' = [phase EXCEPT ![p] = "enter"]
  /\ sec' = [sec EXCEPT ![p] = 1]
  /\ UNCHANGED <<call, at, tmp, seen, astray, crossed, lock, reg, cells, faults, broken>>

\* mutex_lock(&oicdev->lock), or the start of a stretch without it.
Enter(p) ==
  /\ phase[p] = "enter"
  /\ IF Section(p).locked THEN lock = Nil /\ lock' = p ELSE UNCHANGED lock
  /\ phase' = [phase EXCEPT ![p] = "body"]
  /\ at' = [at EXCEPT ![p] = 1]
  /\ UNCHANGED <<call, sec, tmp, seen, astray, crossed, reg, cells, faults, broken>>

\* A section under the lock takes down what it stored at or read from place c, and
\* whether that is right, what the code means.  An access without the lock crosses
\* the sections in progress: what they have taken down is void.
Note(p, c, v, right) ==
  IF crossed[p] THEN UNCHANGED <<seen, astray>>
  ELSE /\ seen' = [seen EXCEPT ![p] = With(@, c, v)]
       /\ astray' = [astray EXCEPT ![p] = @ \/ ~right]

Cross(p) ==
  LET hit(q) == q # p /\ Holding(q) IN
  /\ ~Section(p).locked
  /\ crossed' = [q \in Proc |-> crossed[q] \/ hit(q)]
  /\ seen' = [q \in Proc |-> IF hit(q) THEN Nothing ELSE seen[q]]
  /\ astray' = [q \in Proc |-> astray[q] /\ ~hit(q)]

\* What becomes of the notes: taken is what a section under the lock does to its own.
Noted(p, taken) == IF Section(p).locked THEN taken /\ UNCHANGED crossed ELSE Cross(p)
Unnoted(p) == Noted(p, UNCHANGED <<seen, astray>>)

Advance(p) ==
  at' = [at EXCEPT ![p] = @ + 1] /\ UNCHANGED <<call, phase, sec, lock, faults, broken>>

\* BDREGCHK(reg, val), the register has taken the value.
Put(p) ==
  /\ Doing(p, {"put"})
  /\ \E s \in {Cur(p)} : reg' = [reg EXCEPT ![s.reg] = s.val]
  /\ Advance(p) /\ Unnoted(p)
  /\ UNCHANGED <<tmp, cells>>

\* The strobe is written: on its edge the device stores the data registers at
\* the selected place, or fetches its content.
Effect(s) == IF reg[s.reg] # s.val THEN Reaction(s.win, s.reg) ELSE "nothing"

StrobeAt(p, s, c, does) ==
  LET right == c = <<s.win, s.addr>> /\ does = s.op IN
  IF does = "store"
  THEN /\ cells' = With(cells, c, Data(s.win))
       /\ reg' = [reg EXCEPT ![s.reg] = s.val]
       /\ Noted(p, Note(p, c, Data(s.win), right /\ s.data \in {<<>>, Data(s.win)}))
  ELSE /\ reg' = IF does = "fetch"
                 THEN [reg EXCEPT ![s.reg] = s.val, ![Port[s.win].out] = Content(c)]
                 ELSE [reg EXCEPT ![s.reg] = s.val]
       /\ Noted(p, /\ astray' = [astray EXCEPT ![p] = @ \/ ~(right \/ crossed[p])]
                   /\ UNCHANGED seen)
       /\ UNCHANGED cells

Strobe(p) ==
  /\ Doing(p, {"store", "fetch"})
  /\ \E s \in {Cur(p)} : StrobeAt(p, s, Selected(s.win), Effect(s))
  /\ Advance(p)
  /\ UNCHANGED tmp

\* The value registers of a window are read: from the selected place, or from the
\* register that a fetch has filled.
Source(s) == IF Port[s.win].out = NoReg THEN Selected(s.win) ELSE <<s.win, s.addr>>
Result(s) == IF Port[s.win].out = NoReg THEN Content(Selected(s.win)) ELSE reg[Port[s.win].out]

Get(p) ==
  /\ Doing(p, {"get"})
  /\ \E s \in {Cur(p)} :
       Noted(p, Note(p, Source(s), Result(s), Source(s) = <<s.win, s.addr>>))
  /\ Advance(p)
  /\ UNCHANGED <<tmp, reg, cells>>

\* The read of a read-modify-write.
Load(p) ==
  /\ Doing(p, {"load"})
  /\ tmp' = [tmp EXCEPT ![p] = reg[Cur(p).reg]]
  /\ Advance(p) /\ Unnoted(p)
  /\ UNCHANGED <<reg, cells>>

\* The write of a read-modify-write: one part of what was read is replaced.  The
\* result goes back, or to another register.
Modify(p) ==
  /\ Doing(p, {"modify", "pass"})
  /\ \E s \in {Cur(p)} : reg' = [reg EXCEPT ![s.reg] = [tmp[p] EXCEPT ![s.part] = s.fn[@]]]
  /\ tmp' = [tmp EXCEPT ![p] = Nil]
  /\ Advance(p) /\ Unnoted(p)
  /\ UNCHANGED cells

-----------------------------------------------------------------------------
\* The process leaves the section and goes on to the next one, if next holds
\* and there is one, or returns from the call.
Forget(p) ==
  /\ at' = [at EXCEPT ![p] = 0] /\ tmp' = [tmp EXCEPT ![p] = Nil]
  /\ seen' = [seen EXCEPT ![p] = Nothing]
  /\ astray' = [astray EXCEPT ![p] = FALSE]
  /\ crossed' = [crossed EXCEPT ![p] = FALSE]
  /\ cells' = Restrict(cells, DOMAIN cells \cap UNION {DOMAIN seen[q] : q \in Proc \ {p}})

\* Mutant: one section too many.
GoOn_Past(p, next) ==
  IF next /\ sec[p] \in DOMAIN Handler(p)
  THEN phase' = [phase EXCEPT ![p] = "enter"] /\ sec' = [sec EXCEPT ![p] = @ + 1]
  ELSE phase' = [phase EXCEPT ![p] = "idle"] /\ sec' = [sec EXCEPT ![p] = 0]

GoOn(p, next) ==
  IF next /\ sec[p] + 1 \in DOMAIN Handler(p)
  THEN /\ phase' = [phase EXCEPT ![p] = "enter"]
       /\ sec' = [sec EXCEPT ![p] = @ + 1]
  ELSE /\ phase' = [phase EXCEPT ![p] = "idle"]
       /\ sec' = [sec EXCEPT ![p] = 0]

\* mutex_unlock(&oicdev->lock), or a return that leaves the lock taken.
Leave(p) ==
  /\ Inside(p) /\ at[p] > Len(Steps(p))
  /\ lock' = IF Section(p).locked /\ Section(p).exit = "unlock" THEN Nil ELSE lock
  /\ GoOn(p, Section(p).exit = "unlock")
  /\ Forget(p)
  /\ UNCHANGED <<call, reg, faults, broken>>

\* BDREGCHK gives up after three attempts: it unlocks, whoever has the lock,
\* and the function returns -EIO.  In a Careless call this takes the lock from the
\* process that has it, or lets the handler go on in its section without it.
Fail(p) ==
  /\ Inside(p) /\ at[p] \in DOMAIN Steps(p) /\ Refusable(Cur(p))
  /\ faults < MaxFaults
  /\ faults' = faults + 1
  /\ broken' = (broken \/ call[p] \in Careless)
  /\ lock' = Nil
  /\ IF Section(p).onFail = "resume"
     THEN /\ at' = [at EXCEPT ![p] = 1 + CHOOSE n \in at[p] .. Len(Steps(p)) :
                     /\ n < Len(Steps(p)) => Steps(p)[n + 1].op = "put"
                     /\ \A m \in at[p] + 1 .. n : Steps(p)[m].op # "put"]
          /\ UNCHANGED <<phase, sec, tmp, seen, astray, crossed, cells>>
     ELSE GoOn(p, Section(p).onFail = "next") /\ Forget(p)
  /\ UNCHANGED <<call, reg>>

Go(p) == Enter(p) \/ Put(p) \/ Strobe(p) \/ Get(p) \/ Load(p) \/ Modify(p) \/ Leave(p) \/ Fail(p)

Next == \E p \in Proc : Call(p) \/ Go(p)

Spec == Init /\ [][Next]_vars

\* A process in a call runs on, and a mutex that is released again and again is
\* not withheld from one of its waiters for ever.  Nobody has to make calls.
FairSpec == Spec /\ \A p \in Proc : WF_vars(Go(p)) /\ SF_vars(Enter(p))
-----------------------------------------------------------------------------
\* The lock belongs to the process inside a locked section and to nobody else:
\* at most one is inside, and no handler returns, with -EIO or without, while it
\* keeps the lock (the pairs of mutex_lock and mutex_unlock, and BDREGCHK in the
\* middle of a section).  Claimed until a register refuses a value in a Careless
\* call: from then on it is false of the driver, because BDREGCHK there unlocks a
\* mutex that another process holds.
OneOwner == \A p \in Proc : lock = p <=> Holding(p)
LockHeld == ~broken => OneOwner

\* Every access of a locked section is to the place its handler names and stores
\* the value its handler names, although the address, the data and the strobe
\* are separate registers that every call writes, whatever the call before left in
\* them -- unless a call that takes no lock came in between (the select, data and
\* strobe writes of every handler), and as long as LockHeld is claimed.
RightPlace == ~broken => \A p \in Proc : Holding(p) => ~astray[p]

\* A locked section is one moment: whatever it has read or stored so far is still
\* what the device holds, so that the bytes of a value belong together and a
\* value that was set is the one its caller gave (the extent of the sections), as
\* long as LockHeld is claimed.
OneMoment ==
  ~broken => \A p \in Proc : Holding(p) => \A c \in DOMAIN seen[p] : Content(c) = seen[p][c]

\* A read-modify-write changes its own part of the register and takes nothing
\* back that another call wrote to the rest since it was read (the csr register of
\* the link map, and the channel masks g_channel1 and g_channel2), as long as
\* LockHeld is claimed.
PartsKept ==
  [][\A p \in Proc : ~broken /\ Modify(p) /\ Cur(p).op = "modify" =>
       LET s == Cur(p) IN
       \A x \in DOMAIN reg[s.reg] : x # s.part => reg'[s.reg][x] = reg[s.reg][x]]_vars

\* Every call returns: no handler leaves another waiting for ever for the lock, even
\* where BDREGCHK has unlocked the mutex of another process.
Returns == \A p \in Proc : phase[p] # "idle" ~> phase[p] = "idle"
=============================================================================
