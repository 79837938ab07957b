--------------------------- MODULE OicIoctlProofs ---------------------------
(***************************************************************************)
(* The ioctl calls of the interface card driver, for every set of processes,*)
(* of calls and of registers, as long as the sections of the calls keep the *)
(* rules of OicRules: the lock, the place of every access, the values of a  *)
(* section, and the parts of a register.                                    *)
(***************************************************************************)
EXTENDS OicRules, WellFoundedInduction, TLAPS

\* Where every process is: the part of TypeOK that the lock rests on.
Places ==
  /\ call \in [Proc -> DOMAIN Prog]
  /\ phase \in [Proc -> {"idle", "enter", "body"}]
  /\ sec \in [Proc -> Int]
  /\ \A p \in Proc : phase[p] # "idle" => sec[p] \in DOMAIN Prog[call[p]]

LockInv == Places /\ OneOwner

\* What a process executes is what the program says: the argument that is put in
\* changes the values and nothing else.
LEMMA SectionIs ==
  ASSUME NEW p \in Proc, Places, phase[p] # "idle"
  PROVE  /\ Section(p).locked = Prog[call[p]][sec[p]].locked
         /\ Section(p).exit = Prog[call[p]][sec[p]].exit
         /\ Section(p).onFail = Prog[call[p]][sec[p]].onFail
         /\ DOMAIN Steps(p) = DOMAIN Prog[call[p]][sec[p]].steps
         /\ \A k \in DOMAIN Steps(p) :
              Refusable(Steps(p)[k]) = Refusable(Prog[call[p]][sec[p]].steps[k])
<1> DEFINE s == Prog[call[p]][sec[p]]
<1>1. call[p] \in DOMAIN Prog /\ sec[p] \in DOMAIN Prog[call[p]]
  BY DEF Places
<1>2. Section(p) = SectionOf(p, s)
  BY <1>1 DEF Section, Handler, Code, CallsOf
<1>3. Steps(p) = [k \in DOMAIN s.steps |-> StepOf(p, s.steps[k])]
  BY <1>2 DEF Steps, SectionOf, Section1
<1>4. \A k \in DOMAIN s.steps : /\ StepOf(p, s.steps[k]).op = s.steps[k].op
                                /\ StepOf(p, s.steps[k]).reg = s.steps[k].reg
  BY DEF StepOf, Access
<1>5. \A k \in DOMAIN Steps(p) : Refusable(Steps(p)[k]) = Refusable(s.steps[k])
  BY <1>3, <1>4 DEF Refusable
<1>6. /\ Section(p).locked = s.locked /\ Section(p).exit = s.exit
      /\ Section(p).onFail = s.onFail
  BY <1>2 DEF SectionOf, Section1
<1>7. DOMAIN Steps(p) = DOMAIN s.steps
  BY <1>3
<1> QED
  BY <1>5, <1>6, <1>7

LEMMA HandlerIs ==
  ASSUME NEW p \in Proc, Places
  PROVE  DOMAIN Handler(p) = DOMAIN Prog[call[p]]
BY DEF Places, Handler, Code, CallsOf

\* Going on leads to a section that the call has, or out of the call.
LEMMA GoesOn ==
  ASSUME NEW p \in Proc, Places, NEW next, GoOn(p, next), call' = call
  PROVE  Places' /\ phase'[p] # "body" /\ \A q \in Proc \ {p} : phase'[q] = phase[q] /\ sec'[q] = sec[q]
<1>1. DOMAIN Handler(p) = DOMAIN Prog[call[p]]
  BY HandlerIs
<1>2. CASE next /\ sec[p] + 1 \in DOMAIN Handler(p)
  <2>1. /\ phase' = [phase EXCEPT ![p] = "enter"]
        /\ sec' = [sec EXCEPT ![p] = @ + 1]
    BY <1>2 DEF GoOn
  <2> QED BY <1>1, <1>2, <2>1 DEF Places
<1>3. CASE ~(next /\ sec[p] + 1 \in DOMAIN Handler(p))
  <2>1. /\ phase' = [phase EXCEPT ![p] = "idle"]
        /\ sec' = [sec EXCEPT ![p] = 0]
    BY <1>3 DEF GoOn
  <2> QED BY <2>1 DEF Places
<1> QED BY <1>2, <1>3

LEMMA LockInit == ASSUME Init PROVE LockInv
<1>1. call \in [Proc -> DOMAIN Prog]
  BY DEF Init, Meetings, MeetingsOf, Touched, TouchedBy
<1>2. Nil \notin Proc
  BY OicIoctlAssumption
<1> QED BY <1>1, <1>2 DEF Init, LockInv, Places, OneOwner, Holding, Inside

\* An access leaves every process where it is, and the lock alone.
LEMMA LockKept ==
  ASSUME LockInv, UNCHANGED <<call, phase, sec, lock>>
  PROVE  LockInv'
BY DEF LockInv, Places, OneOwner, Holding, Inside, Section, Handler

LEMMA LockCall ==
  ASSUME LockInv, NEW p \in Proc, Call(p)
  PROVE  LockInv'
<1>1. Places'
  BY OicIoctlAssumption DEF LockInv, Places, Call
<1>2. \A q \in Proc : Holding(q)' = Holding(q)
  BY DEF LockInv, Places, Call, Holding, Inside, Section, Handler
<1> QED BY <1>1, <1>2 DEF LockInv, OneOwner, Call

LEMMA LockEnter ==
  ASSUME LockInv, NEW p \in Proc, Enter(p)
  PROVE  LockInv'
<1>1. Places'
  BY DEF LockInv, Places, Enter
<1>2. /\ phase' = [phase EXCEPT ![p] = "body"] /\ phase[p] = "enter"
      /\ call' = call /\ sec' = sec
  BY DEF Enter
<1>3. \A q \in Proc \ {p} : Holding(q)' = Holding(q)
  BY <1>2 DEF LockInv, Places, Holding, Inside, Section, Handler
<1>4. Holding(p)' <=> Section(p).locked
  BY <1>2 DEF LockInv, Places, Holding, Inside, Section, Handler
<1>5. lock # p
  BY <1>2 DEF LockInv, OneOwner, Holding, Inside
<1>6. CASE Section(p).locked
  <2>1. lock = Nil /\ lock' = p
    BY <1>6 DEF Enter
  <2> QED BY <1>1, <1>3, <1>4, <1>6, <2>1, OicIoctlAssumption DEF LockInv, OneOwner
<1>7. CASE ~Section(p).locked
  <2>1. lock' = lock
    BY <1>7 DEF Enter
  <2> QED BY <1>1, <1>3, <1>4, <1>5, <1>7, <2>1 DEF LockInv, OneOwner
<1> QED BY <1>6, <1>7

\* A process that goes on has given the lock back, when it had it.
LEMMA LockGoOn ==
  ASSUME LockInv, NEW p \in Proc, NEW next, GoOn(p, next), call' = call,
         lock' = IF Section(p).locked THEN Nil ELSE lock, Inside(p)
  PROVE  LockInv'
<1>1. Places' /\ phase'[p] # "body" /\ \A q \in Proc \ {p} : phase'[q] = phase[q] /\ sec'[q] = sec[q]
  BY GoesOn DEF LockInv
<1>2. \A q \in Proc \ {p} : Holding(q)' = Holding(q)
  BY <1>1 DEF Holding, Inside, Section, Handler
<1>3. ~Holding(p)'
  BY <1>1 DEF Holding, Inside
<1>4. lock = p <=> Section(p).locked
  BY DEF LockInv, OneOwner, Holding
<1>5. lock' # p
  BY <1>4, OicIoctlAssumption
<1>6. \A q \in Proc \ {p} : lock' = q <=> lock = q
  BY <1>4, OicIoctlAssumption
<1> QED BY <1>1, <1>2, <1>3, <1>5, <1>6 DEF LockInv, OneOwner

LEMMA LockLeave ==
  ASSUME Disciplined, LockInv, NEW p \in Proc, Leave(p)
  PROVE  LockInv'
<1>1. Inside(p) /\ call' = call /\ GoOn(p, Section(p).exit = "unlock")
  BY DEF Leave
<1>2. Section(p).exit = "unlock"
  BY <1>1, SectionIs DEF LockInv, Places, Inside, Disciplined, DisciplinedCall
<1>3. lock' = IF Section(p).locked THEN Nil ELSE lock
  BY <1>2 DEF Leave
<1> QED BY <1>1, <1>3, LockGoOn

LEMMA LockFail ==
  ASSUME Disciplined, LockInv, NEW p \in Proc, Fail(p), ~broken'
  PROVE  LockInv'
<1>1. /\ Inside(p) /\ at[p] \in DOMAIN Steps(p) /\ Refusable(Cur(p))
      /\ call[p] \notin Careless /\ lock' = Nil /\ call' = call
  BY DEF Fail
<1>2. Section(p).locked /\ Section(p).onFail # "resume"
  BY <1>1, SectionIs DEF LockInv, Places, Inside, Disciplined, DisciplinedCall, Cur
<1>3. GoOn(p, Section(p).onFail = "next")
  BY <1>2 DEF Fail
<1> QED BY <1>1, <1>2, <1>3, LockGoOn

LEMMA LockStep == ASSUME Disciplined, LockInv, [Next]_vars, ~broken' PROVE LockInv'
<1>1. CASE UNCHANGED vars
  BY <1>1, LockKept DEF vars, local
<1>2. ASSUME NEW p \in Proc, Put(p) \/ Strobe(p) \/ Get(p) \/ Load(p) \/ Modify(p)
      PROVE  LockInv'
  <2>1. UNCHANGED <<call, phase, sec, lock>>
    BY <1>2 DEF Put, Strobe, Get, Load, Modify, Advance
  <2> QED BY <2>1, LockKept
<1> QED BY <1>1, <1>2, LockCall, LockEnter, LockLeave, LockFail DEF Next, Go

\* Nothing mends what a Careless call has broken.
LEMMA StaysBroken == ASSUME [Next]_vars, ~broken' PROVE ~broken
BY DEF Next, Go, Call, Enter, Put, Strobe, Get, Load, Modify, Leave, Fail, Advance, vars

\* The lock belongs to the process inside a locked section and to nobody else
\* (mutex_lock, mutex_unlock and BDREGCHK), whatever the calls and the faults, until a
\* register refuses a value in a Careless call.
THEOREM LockIsHeld == ASSUME Disciplined PROVE Spec => []LockHeld
<1> DEFINE Inv == ~broken => LockInv
<1>1. Init => Inv
  BY LockInit
<1>2. Inv /\ [Next]_vars => Inv'
  BY LockStep, StaysBroken
<1>3. Inv => LockHeld
  BY DEF LockInv, LockHeld
<1> QED BY <1>1, <1>2, <1>3, PTL DEF Spec
-----------------------------------------------------------------------------
(* What a process executes, and where it is. *)

\* The text of a step: its place and data are sequences, its registers those of the call.
LEMMA StepIs ==
  ASSUME NEW p \in Proc, Places, phase[p] # "idle"
  PROVE  /\ Section(p) = Code[p][call[p]][sec[p]]
         /\ call[p] \in DOMAIN Prog /\ sec[p] \in DOMAIN Prog[call[p]]
         /\ Len(Steps(p)) \in Nat /\ DOMAIN Steps(p) = 1 .. Len(Steps(p))
         /\ \A k \in DOMAIN Steps(p) :
              LET s == Steps(p)[k] t == Prog[call[p]][sec[p]].steps[k] IN
              /\ s.addr = [i \in DOMAIN s.addr |-> s.addr[i]]
              /\ s.data = [i \in DOMAIN s.data |-> s.data[i]]
              /\ s.op = t.op /\ s.reg = t.reg /\ s.win = t.win
              /\ k \in DOMAIN Prog[call[p]][sec[p]].steps
<1> DEFINE c == Prog[call[p]][sec[p]]
<1>1. call[p] \in DOMAIN Prog /\ sec[p] \in DOMAIN Prog[call[p]]
  BY DEF Places
<1>2. Section(p) = SectionOf(p, c) /\ Section(p) = Code[p][call[p]][sec[p]]
  BY <1>1 DEF Section, Handler, Code, CallsOf
<1>3. Steps(p) = [k \in DOMAIN c.steps |-> StepOf(p, c.steps[k])]
  BY <1>2 DEF Steps, SectionOf, Section1
<1>4. c.steps \in Seq(Range(c.steps))
  BY <1>1, OicIoctlAssumption
<1>5. Len(c.steps) \in Nat /\ DOMAIN c.steps = 1 .. Len(c.steps)
  BY <1>4
<1>6. Len(Steps(p)) = Len(c.steps)
  BY <1>3, <1>5
<1>7. ASSUME NEW k \in DOMAIN Steps(p)
      PROVE  LET s == Steps(p)[k] t == c.steps[k] IN
             /\ s.addr = [i \in DOMAIN s.addr |-> s.addr[i]]
             /\ s.data = [i \in DOMAIN s.data |-> s.data[i]]
             /\ s.op = t.op /\ s.reg = t.reg /\ s.win = t.win
  <2> DEFINE t == c.steps[k]
  <2>1. Steps(p)[k] = StepOf(p, t)
    BY <1>3
  <2>2. /\ StepOf(p, t).op = t.op /\ StepOf(p, t).reg = t.reg /\ StepOf(p, t).win = t.win
        /\ StepOf(p, t).addr = Filled(p, t.addr) /\ StepOf(p, t).data = Filled(p, t.data)
    BY DEF StepOf, Access
  <2>3. \A f : Filled(p, f) = [i \in DOMAIN Filled(p, f) |-> Filled(p, f)[i]]
    BY DEF Filled
  <2> QED
    BY <2>1, <2>2, <2>3
<1> QED
  BY <1>1, <1>2, <1>3, <1>5, <1>6, <1>7

\* The registers of a behaviour are those that its calls touch.
RegsKept == DOMAIN reg = UNION {Touched[call[p]] : p \in Proc}

LEMMA StepTouches ==
  ASSUME RegsKept, NEW p \in Proc, Places, phase[p] # "idle", NEW k \in DOMAIN Steps(p)
  PROVE  /\ Steps(p)[k].reg # NoReg => Steps(p)[k].reg \in DOMAIN reg
         /\ Steps(p)[k].win # NoReg => RegsOfPort(Port[Steps(p)[k].win]) \subseteq DOMAIN reg
<1> DEFINE c == Prog[call[p]]
           t == c[sec[p]].steps[k]
           all == UNION {Range(c[i].steps) : i \in DOMAIN c}
<1>1. /\ call[p] \in DOMAIN Prog /\ sec[p] \in DOMAIN c /\ k \in DOMAIN c[sec[p]].steps
      /\ Steps(p)[k].reg = t.reg /\ Steps(p)[k].win = t.win
  BY StepIs
<1>2. t \in all
  <2>1. t \in Range(c[sec[p]].steps)
    BY <1>1 DEF Range
  <2> QED
    BY <1>1, <2>1
<1>3. Touched[call[p]] = TouchedIn(all)
  BY <1>1 DEF Touched, TouchedBy
<1>4. t.reg # NoReg => t.reg \in TouchedIn(all)
  <2> HIDE DEF all, t
  <2> QED
    BY <1>2 DEF TouchedIn
<1>5. t.win # NoReg => RegsOfPort(Port[t.win]) \subseteq TouchedIn(all)
  <2> HIDE DEF all, t
  <2> QED
    BY <1>2 DEF TouchedIn
<1>6. TouchedIn(all) \subseteq DOMAIN reg
  BY <1>3 DEF RegsKept
<1> QED
  BY <1>1, <1>4, <1>5, <1>6

\* Where a process is in its section; what it keeps is kept for each process.
Kept ==
  /\ at \in [Proc -> Int] /\ DOMAIN tmp = Proc /\ DOMAIN seen = Proc
  /\ astray \in [Proc -> BOOLEAN] /\ crossed \in [Proc -> BOOLEAN]
  /\ \A p \in Proc : Inside(p) => at[p] \in 1 .. Len(Steps(p)) + 1
  /\ RegsKept

OicType == Places /\ Kept /\ lock \in Proc \cup {Nil}
             /\ faults \in 0 .. MaxFaults /\ broken \in BOOLEAN

LEMMA OicTypeImplies == OicType => TypeOK
BY DEF OicType, Places, Kept, TypeOK

-----------------------------------------------------------------------------
(* The accesses. *)

Acc(p) == Put(p) \/ Strobe(p) \/ Get(p) \/ Load(p) \/ Modify(p)

\* An access changes the registers it writes, and goes on to the next step.
LEMMA AccIs ==
  ASSUME NEW p \in Proc, Acc(p)
  PROVE  /\ Inside(p) /\ at[p] \in DOMAIN Steps(p)
         /\ at' = [at EXCEPT ![p] = @ + 1] /\ UNCHANGED <<call, phase, sec, lock, faults, broken>>
         /\ DOMAIN reg' = DOMAIN reg
         /\ \A r \in DOMAIN reg : r \notin Writes(Cur(p)) => reg'[r] = reg[r]
         /\ tmp' = tmp \/ \E v : tmp' = [tmp EXCEPT ![p] = v]
<1>1. CASE Put(p)
  <2>1. Inside(p) /\ at[p] \in DOMAIN Steps(p) /\ Cur(p).op = "put"
    BY <1>1 DEF Put, Doing, Cur
  <2>2. reg' = [reg EXCEPT ![Cur(p).reg] = Cur(p).val] /\ tmp' = tmp
    BY <1>1 DEF Put
  <2>3. Cur(p).reg \in Writes(Cur(p))
    BY <2>1 DEF Writes, Changing
  <2> QED
    BY <1>1, <2>1, <2>2, <2>3 DEF Put, Advance
<1>2. CASE Strobe(p)
  <2>1. Inside(p) /\ at[p] \in DOMAIN Steps(p) /\ Cur(p).op \in Strobes
    BY <1>2 DEF Strobe, Doing, Cur, Strobes
  <2>2. StrobeAt(p, Cur(p), Selected(Cur(p).win), Effect(Cur(p))) /\ tmp' = tmp
    BY <1>2 DEF Strobe
  <2>3. Cur(p).reg \in Writes(Cur(p)) /\ Port[Cur(p).win].out \in Writes(Cur(p))
    BY <2>1 DEF Writes, Changing
  <2>4. \/ reg' = [reg EXCEPT ![Cur(p).reg] = Cur(p).val]
        \/ \E v : reg' = [reg EXCEPT ![Cur(p).reg] = Cur(p).val, ![Port[Cur(p).win].out] = v]
    BY <2>2 DEF StrobeAt
  <2> QED
    BY <1>2, <2>1, <2>2, <2>3, <2>4 DEF Strobe, Advance
<1>3. CASE Get(p)
  BY <1>3 DEF Get, Doing, Advance
<1>4. CASE Load(p)
  BY <1>4 DEF Load, Doing, Advance
<1>5. CASE Modify(p)
  <2>1. Inside(p) /\ at[p] \in DOMAIN Steps(p) /\ Cur(p).op \in {"modify", "pass"}
    BY <1>5 DEF Modify, Doing, Cur
  <2>2. \E v : reg' = [reg EXCEPT ![Cur(p).reg] = v]
    BY <1>5 DEF Modify
  <2>3. Cur(p).reg \in Writes(Cur(p))
    BY <2>1 DEF Writes, Changing
  <2>4. tmp' = [tmp EXCEPT ![p] = Nil]
    BY <1>5 DEF Modify
  <2> QED
    BY <1>5, <2>1, <2>2, <2>3, <2>4 DEF Modify, Advance
<1> QED
  BY <1>1, <1>2, <1>3, <1>4, <1>5 DEF Acc

LEMMA CrossKept ==
  ASSUME NEW p \in Proc, Kept, Cross(p)
  PROVE  /\ seen' = [q \in Proc |-> IF q # p /\ Holding(q) THEN Nothing ELSE seen[q]]
         /\ astray' = [q \in Proc |-> astray[q] /\ ~(q # p /\ Holding(q))]
         /\ crossed' = [q \in Proc |-> crossed[q] \/ (q # p /\ Holding(q))]
         /\ DOMAIN seen' = Proc /\ astray' \in [Proc -> BOOLEAN] /\ crossed' \in [Proc -> BOOLEAN]
<1>1. /\ seen' = [q \in Proc |-> IF q # p /\ Holding(q) THEN Nothing ELSE seen[q]]
      /\ astray' = [q \in Proc |-> astray[q] /\ ~(q # p /\ Holding(q))]
      /\ crossed' = [q \in Proc |-> crossed[q] \/ (q # p /\ Holding(q))]
  BY Zenon DEF Cross
<1> QED
  BY <1>1, Zenon

LEMMA NoteKept ==
  ASSUME NEW p \in Proc, Kept, NEW c, NEW v, NEW right, Note(p, c, v, right)
  PROVE  DOMAIN seen' = Proc /\ astray' \in [Proc -> BOOLEAN]
<1>1. \/ UNCHANGED <<seen, astray>>
      \/ /\ seen' = [seen EXCEPT ![p] = With(@, c, v)]
         /\ astray' = [astray EXCEPT ![p] = @ \/ ~right]
  BY DEF Note
<1>2. DOMAIN seen' = Proc
  BY <1>1 DEF Kept
<1>3. astray \in [Proc -> BOOLEAN]
  BY DEF Kept
<1>4. (astray[p] \/ ~right) \in BOOLEAN
  BY Zenon
<1>5. astray' = astray \/ \E b \in BOOLEAN : astray' = [astray EXCEPT ![p] = b]
  BY <1>1, <1>4, Zenon
<1>6. astray' \in [Proc -> BOOLEAN]
  BY <1>3, <1>5
<1> QED
  BY <1>2, <1>6

LEMMA AccNotes ==
  ASSUME NEW p \in Proc, Kept, Acc(p)
  PROVE  DOMAIN seen' = Proc /\ astray' \in [Proc -> BOOLEAN] /\ crossed' \in [Proc -> BOOLEAN]
<1>0. DOMAIN seen = Proc /\ astray \in [Proc -> BOOLEAN] /\ crossed \in [Proc -> BOOLEAN]
  BY DEF Kept
<1>1. CASE ~Section(p).locked
  <2>1. Cross(p)
    BY <1>1 DEF Acc, Put, Strobe, StrobeAt, Get, Load, Modify, Noted, Unnoted
  <2> QED
    BY <2>1, CrossKept
<1>2. CASE Section(p).locked
  <2>1. CASE Put(p) \/ Load(p) \/ Modify(p)
    BY <1>0, <1>2, <2>1 DEF Put, Load, Modify, Noted, Unnoted
  <2>2. CASE Get(p)
    BY <1>0, <1>2, <2>2, NoteKept DEF Get, Noted
  <2>3. CASE Strobe(p)
    <3> DEFINE s == Cur(p)
               c == Selected(s.win)
               right == c = <<s.win, s.addr>> /\ Effect(s) = s.op
    <3>1. StrobeAt(p, s, c, Effect(s))
      BY <2>3 DEF Strobe
    <3> HIDE DEF s, c
    <3>2. CASE Effect(s) = "store"
      <4>1. Note(p, c, Data(s.win), right /\ s.data \in {<<>>, Data(s.win)}) /\ crossed' = crossed
        BY <1>2, <3>1, <3>2 DEF StrobeAt, Noted
      <4> QED
        BY <1>0, <4>1, NoteKept
    <3>3. CASE Effect(s) # "store"
      <4>1. astray' = [astray EXCEPT ![p] = @ \/ ~(right \/ crossed[p])] /\ UNCHANGED <<seen, crossed>>
        BY <1>2, <3>1, <3>3 DEF StrobeAt, Noted
      <4>2. (astray[p] \/ ~(right \/ crossed[p])) \in BOOLEAN
        BY Zenon
      <4>3. \E b \in BOOLEAN : astray' = [astray EXCEPT ![p] = b]
        BY <4>1, <4>2, Zenon
      <4> QED
        BY <1>0, <4>1, <4>3
    <3> QED
      BY <3>2, <3>3
  <2> QED
    BY <2>1, <2>2, <2>3 DEF Acc
<1> QED
  BY <1>1, <1>2

-----------------------------------------------------------------------------
(* Type correctness. *)

\* An access leaves the process at a step of the section or at its end.
LEMMA AccType == ASSUME OicType, NEW p \in Proc, Acc(p) PROVE OicType'
<1>1. /\ Inside(p) /\ at[p] \in DOMAIN Steps(p)
      /\ at' = [at EXCEPT ![p] = @ + 1] /\ UNCHANGED <<call, phase, sec, lock, faults, broken>>
      /\ DOMAIN reg' = DOMAIN reg /\ (tmp' = tmp \/ \E v : tmp' = [tmp EXCEPT ![p] = v])
  BY AccIs
<1>2. DOMAIN seen' = Proc /\ astray' \in [Proc -> BOOLEAN] /\ crossed' \in [Proc -> BOOLEAN]
  BY AccNotes DEF OicType
<1>3. \A q \in Proc : Inside(q)' = Inside(q) /\ Steps(q)' = Steps(q)
  BY <1>1 DEF Inside, Steps, Section, Handler
<1>4. Len(Steps(p)) \in Nat /\ DOMAIN Steps(p) = 1 .. Len(Steps(p))
  BY <1>1, StepIs DEF OicType, Inside
<1>5. at' \in [Proc -> Int] /\ at'[p] \in 1 .. Len(Steps(p)) + 1 /\ \A q \in Proc \ {p} : at'[q] = at[q]
  BY <1>1, <1>4 DEF OicType, Kept
<1>6. \A q \in Proc : Inside(q)' => at'[q] \in 1 .. Len(Steps(q)') + 1
  BY <1>3, <1>5 DEF OicType, Kept
<1>7. DOMAIN tmp' = Proc
  BY <1>1 DEF OicType, Kept
<1>8. RegsKept'
  BY <1>1 DEF OicType, Kept, RegsKept
<1>9. Places'
  BY <1>1 DEF OicType, Places
<1> QED
  BY <1>1, <1>2, <1>5, <1>6, <1>7, <1>8, <1>9 DEF OicType, Kept

LEMMA ForgetType ==
  ASSUME OicType, NEW p \in Proc, Forget(p)
  PROVE  /\ at' \in [Proc -> Int] /\ DOMAIN tmp' = Proc /\ DOMAIN seen' = Proc
         /\ astray' \in [Proc -> BOOLEAN] /\ crossed' \in [Proc -> BOOLEAN]
         /\ \A q \in Proc \ {p} : at'[q] = at[q]
BY DEF OicType, Kept, Forget

LEMMA LeaveType ==
  ASSUME OicType, NEW p \in Proc, NEW next, GoOn(p, next), Forget(p), UNCHANGED <<call, reg>>,
         lock' \in {lock, Nil}, faults' \in 0 .. MaxFaults, broken' \in BOOLEAN
  PROVE  OicType'
<1>1. Places' /\ phase'[p] # "body" /\ \A q \in Proc \ {p} : phase'[q] = phase[q] /\ sec'[q] = sec[q]
  BY GoesOn DEF OicType
<1>2. \A q \in Proc : Inside(q)' => q # p /\ Inside(q) /\ Steps(q)' = Steps(q)
  BY <1>1 DEF Inside, Steps, Section, Handler
<1>3. \A q \in Proc : Inside(q)' => at'[q] \in 1 .. Len(Steps(q)') + 1
  BY <1>2, ForgetType DEF OicType, Kept
<1>4. RegsKept'
  BY DEF OicType, Kept, RegsKept
<1> QED
  BY <1>1, <1>3, <1>4, ForgetType DEF OicType, Kept

\* The step where a helper that failed goes on exists: the next put of the section or
\* its end.
LEMMA ResumeStep ==
  ASSUME OicType, NEW p \in Proc, Inside(p), at[p] \in DOMAIN Steps(p)
  PROVE  \E n \in at[p] .. Len(Steps(p)) :
           /\ n < Len(Steps(p)) => Steps(p)[n + 1].op = "put"
           /\ \A m \in at[p] + 1 .. n : Steps(p)[m].op # "put"
<1> DEFINE a == at[p]
           len == Len(Steps(p))
           stops == {n \in a .. len : n < len => Steps(p)[n + 1].op = "put"}
           less == {nn \in Nat \X Nat : nn[1] < nn[2]}
<1>1. len \in Nat /\ a \in Nat /\ a <= len
  <2>1. phase[p] # "idle" /\ Places
    BY DEF OicType, Inside
  <2>2. len \in Nat /\ DOMAIN Steps(p) = 1 .. len
    BY <2>1, StepIs
  <2> HIDE DEF len
  <2> QED
    BY <2>2
<1>2. len \in stops /\ stops \subseteq Nat
  BY <1>1
<1>3. PICK n \in stops : \A m \in stops : ~ (<<m, n>> \in less)
  <2>1. IsWellFoundedOn(less, Nat)
    BY NatLessThanWellFounded DEF OpToRel
  <2>2. stops \subseteq Nat /\ stops # {}
    BY <1>2
  <2> HIDE DEF less, stops
  <2> QED
    BY <2>1, <2>2, WFMin
<1>4. ASSUME NEW m \in a + 1 .. n, Steps(p)[m].op = "put" PROVE FALSE
  <2>1. m - 1 \in stops
    BY <1>1, <1>3, <1>4
  <2>2. <<m - 1, n>> \in less
    BY <1>1, <1>3, <1>4
  <2> QED
    BY <1>3, <2>1, <2>2
<1>5. n \in a .. len /\ (n < len => Steps(p)[n + 1].op = "put")
  BY <1>3
<1> QED
  BY <1>4, <1>5

LEMMA FailType == ASSUME OicType, NEW p \in Proc, Fail(p) PROVE OicType'
<1>1. /\ Inside(p) /\ at[p] \in DOMAIN Steps(p) /\ lock' = Nil /\ faults' = faults + 1
      /\ faults < MaxFaults /\ UNCHANGED <<call, reg>>
  BY DEF Fail
<1>2. faults' \in 0 .. MaxFaults /\ broken' \in BOOLEAN
  <2>1. faults' \in 0 .. MaxFaults
    BY <1>1, OicIoctlAssumption DEF OicType
  <2>2. broken' \in BOOLEAN
    BY DEF Fail
  <2> QED
    BY <2>1, <2>2
<1>3. CASE Section(p).onFail # "resume"
  BY <1>1, <1>2, <1>3, LeaveType DEF Fail
<1>4. CASE Section(p).onFail = "resume"
  <2> DEFINE n == CHOOSE n \in at[p] .. Len(Steps(p)) :
                    /\ n < Len(Steps(p)) => Steps(p)[n + 1].op = "put"
                    /\ \A m \in at[p] + 1 .. n : Steps(p)[m].op # "put"
  <2>1. at' = [at EXCEPT ![p] = 1 + n] /\ UNCHANGED <<phase, sec, tmp, seen, astray, crossed, cells>>
    BY <1>4 DEF Fail
  <2>2. n \in at[p] .. Len(Steps(p))
    BY <1>1, ResumeStep
  <2>3. Len(Steps(p)) \in Nat /\ at[p] \in 1 .. Len(Steps(p))
    BY <1>1, StepIs DEF OicType, Inside
  <2> HIDE DEF n
  <2>4. 1 + n \in 1 .. Len(Steps(p)) + 1
    BY <2>2, <2>3
  <2>5. \A q \in Proc : Inside(q)' = Inside(q) /\ Steps(q)' = Steps(q)
    BY <1>1, <2>1 DEF Inside, Steps, Section, Handler
  <2>6. at' \in [Proc -> Int] /\ \A q \in Proc : Inside(q)' => at'[q] \in 1 .. Len(Steps(q)') + 1
    BY <2>1, <2>3, <2>4, <2>5 DEF OicType, Kept
  <2>7. RegsKept' /\ Places'
    BY <1>1, <2>1 DEF OicType, Kept, RegsKept, Places
  <2> QED
    BY <1>1, <1>2, <2>1, <2>6, <2>7 DEF OicType, Kept
<1> QED
  BY <1>3, <1>4

LEMMA OicTypeInit == Init => OicType
<1> SUFFICES ASSUME Init PROVE OicType
  OBVIOUS
<1>1. Places
  BY LockInit DEF LockInv
<1>2. RegsKept
  BY DEF Init, RegsKept
<1>3. Kept
  BY <1>2 DEF Init, Kept, Inside
<1>4. lock \in Proc \cup {Nil} /\ faults \in 0 .. MaxFaults
  BY OicIoctlAssumption DEF Init
<1>5. broken \in BOOLEAN
  BY DEF Init
<1> QED
  BY <1>1, <1>3, <1>4, <1>5 DEF OicType

LEMMA OicTypeStep == OicType /\ [Next]_vars => OicType'
<1> SUFFICES ASSUME OicType, [Next]_vars PROVE OicType'
  OBVIOUS
<1>1. ASSUME NEW p \in Proc, Call(p) PROVE OicType'
  <2>1. /\ phase[p] = "idle" /\ phase' = [phase EXCEPT ![p] = "enter"] /\ sec' = [sec EXCEPT ![p] = 1]
        /\ UNCHANGED <<call, at, tmp, seen, astray, crossed, lock, reg, faults, broken>>
    BY <1>1 DEF Call
  <2>2. Places'
    BY <2>1, OicIoctlAssumption DEF OicType, Places
  <2>3. \A q \in Proc : Inside(q)' => Inside(q) /\ Steps(q)' = Steps(q)
    BY <2>1 DEF OicType, Places, Inside, Steps, Section, Handler
  <2> QED
    BY <2>1, <2>2, <2>3 DEF OicType, Kept, RegsKept
<1>2. ASSUME NEW p \in Proc, Enter(p) PROVE OicType'
  <2>1. /\ phase[p] = "enter" /\ phase' = [phase EXCEPT ![p] = "body"] /\ at' = [at EXCEPT ![p] = 1]
        /\ UNCHANGED <<call, sec, tmp, seen, astray, crossed, reg, faults, broken>>
        /\ lock' \in {lock, p}
    BY <1>2 DEF Enter
  <2>2. Places'
    BY <2>1 DEF OicType, Places
  <2>3. \A q \in Proc : Inside(q)' => (q = p \/ Inside(q)) /\ Steps(q)' = Steps(q)
    BY <2>1 DEF OicType, Places, Inside, Steps, Section, Handler
  <2>4. Len(Steps(p)) \in Nat
    BY <2>1, StepIs DEF OicType
  <2>5. at' \in [Proc -> Int] /\ at'[p] = 1 /\ \A q \in Proc \ {p} : at'[q] = at[q]
    BY <2>1 DEF OicType, Kept
  <2>6. \A q \in Proc : Inside(q)' => at'[q] \in 1 .. Len(Steps(q)') + 1
    BY <2>3, <2>4, <2>5 DEF OicType, Kept
  <2> QED
    BY <2>1, <2>2, <2>5, <2>6 DEF OicType, Kept, RegsKept
<1>3. ASSUME NEW p \in Proc, Leave(p) PROVE OicType'
  BY <1>3, LeaveType DEF Leave, OicType
<1>4. CASE UNCHANGED vars
  BY <1>4 DEF vars, local, OicType, Places, Kept, RegsKept, Inside, Steps, Section, Handler
<1> QED
  BY <1>1, <1>2, <1>3, <1>4, AccType, FailType DEF Next, Go, Acc

\* Every process is at a section of its call and at a step of the section or at its end,
\* wherever a failing register has sent it (GoOn, Fail).
THEOREM OicTypeCorrect == Spec => []TypeOK
BY OicTypeInit, OicTypeStep, OicTypeImplies, PTL DEF Spec

-----------------------------------------------------------------------------
(* Every access is to the place that its handler names. *)

\* A section that nobody without the lock has disturbed.
Sound(p) == Holding(p) /\ ~crossed[p]

\* It knows what it has written: the register still holds the value.
Known ==
  \A p \in Proc : Sound(p) =>
    \A r \in DOMAIN reg : \A j \in 1 .. at[p] - 1 :
      Puts(Steps(p), j, at[p], r) => reg[r] = Steps(p)[j].val

NoneAstray == \A p \in Proc : ~astray[p]

AimInv == OicType /\ OneOwner /\ Known /\ NoneAstray

LEMMA Alone ==
  ASSUME OneOwner, NEW p \in Proc, Holding(p), NEW q \in Proc, q # p
  PROVE  ~Holding(q)
BY DEF OneOwner

LEMMA StepsOf ==
  ASSUME OicType, NEW p \in Proc, Inside(p)
  PROVE  /\ Steps(p) = Section(p).steps /\ (Holding(p) <=> Section(p).locked)
         /\ AllAim => KeepsAim(Section(p))
         /\ AllHold => KeepsHold(Section(p))
         /\ AllPart => KeepsPart(Section(p))
<1>1. phase[p] # "idle"
  BY DEF Inside
<1>2. /\ Section(p) = Code[p][call[p]][sec[p]]
      /\ call[p] \in DOMAIN Prog /\ sec[p] \in DOMAIN Prog[call[p]]
  BY <1>1, StepIs DEF OicType
<1>3. Steps(p) = Section(p).steps
  BY DEF Steps
<1>4. Holding(p) <=> Section(p).locked
  BY DEF Holding
<1> QED
  BY <1>2, <1>3, <1>4 DEF AllAim, AllHold, AllPart

\* The last write before the step after k is by step k or before it.
LEMMA PutsNext ==
  ASSUME NEW steps, NEW k \in Int, NEW j \in 1 .. (k + 1) - 1, NEW r, Puts(steps, j, k + 1, r)
  PROVE  \/ j \in 1 .. k - 1 /\ Puts(steps, j, k, r) /\ r \notin Writes(steps[k])
         \/ j = k /\ steps[k].reg = r
            /\ (steps[k].op = "put" \/ (steps[k].op \in Strobes /\ r # Port[steps[k].win].out))
<1>1. /\ r \in Writes(steps[j]) /\ \A i \in j + 1 .. (k + 1) - 1 : r \notin Writes(steps[i])
      /\ steps[j].reg = r
      /\ (steps[j].op = "put" \/ (steps[j].op \in Strobes /\ r # Port[steps[j].win].out))
  BY DEF Puts, LastWrite
<1>2. CASE j = k
  BY <1>1, <1>2
<1>3. CASE j # k
  <2>1. j \in 1 .. k - 1 /\ k \in j + 1 .. (k + 1) - 1
    BY <1>3
  <2>2. \A i \in j + 1 .. k - 1 : r \notin Writes(steps[i])
    BY <1>1
  <2> QED
    BY <1>1, <2>1, <2>2 DEF Puts, LastWrite
<1> QED
  BY <1>2, <1>3

LEMMA AccPuts ==
  ASSUME NEW p \in Proc, Acc(p), NEW r \in DOMAIN reg, Cur(p).reg = r,
         Cur(p).op = "put" \/ (Cur(p).op \in Strobes /\ r # Port[Cur(p).win].out)
  PROVE  reg'[r] = Cur(p).val
<1>1. Put(p) \/ Strobe(p)
  BY DEF Acc, Put, Strobe, Get, Load, Modify, Doing, Cur, Strobes
<1>2. CASE Put(p)
  BY <1>2 DEF Put
<1>3. CASE Strobe(p)
  <2>1. StrobeAt(p, Cur(p), Selected(Cur(p).win), Effect(Cur(p))) /\ Cur(p).op # "put"
    BY <1>3 DEF Strobe, Doing, Cur
  <2>2. \/ reg' = [reg EXCEPT ![Cur(p).reg] = Cur(p).val]
        \/ \E v : reg' = [reg EXCEPT ![Cur(p).reg] = Cur(p).val, ![Port[Cur(p).win].out] = v]
    BY <2>1 DEF StrobeAt
  <2> QED
    BY <2>1, <2>2
<1> QED
  BY <1>1, <1>2, <1>3

\* What a locked section has written so far selects the place of its next access.
LEMMA TheyAre ==
  ASSUME Known, NEW p \in Proc, Sound(p), NEW regs, NEW vals, Range(regs) \subseteq DOMAIN reg,
         TheyHold(Steps(p), at[p], regs, vals), vals = [i \in DOMAIN vals |-> vals[i]]
  PROVE  [i \in DOMAIN regs |-> reg[regs[i]]] = vals
<1>1. ASSUME NEW i \in DOMAIN regs PROVE reg[regs[i]] = vals[i]
  <2>1. regs[i] \in DOMAIN reg
    BY DEF Range
  <2>2. PICK j \in 1 .. at[p] - 1 : Puts(Steps(p), j, at[p], regs[i]) /\ Steps(p)[j].val = vals[i]
    BY DEF TheyHold, Holds
  <2> QED
    BY <2>1, <2>2 DEF Known
<1>2. DOMAIN vals = DOMAIN regs
  BY DEF TheyHold
<1> QED
  BY <1>1, <1>2

LEMMA AimsAt ==
  ASSUME AllAim, OicType, Known, NEW p \in Proc, Sound(p), at[p] \in DOMAIN Steps(p)
  PROVE  LET s == Cur(p) IN
         /\ s.op \in Strobes =>
              /\ Selected(s.win) = <<s.win, s.addr>> /\ Effect(s) = s.op
              /\ s.op = "store" => s.data \in {<<>>, Data(s.win)}
         /\ s.op = "get" => Source(s) = <<s.win, s.addr>>
         /\ s.op \in Strobes \cup {"get"} => RegsOfPort(Port[s.win]) \subseteq DOMAIN reg
<1> DEFINE s == Cur(p)
           k == at[p]
           w == Port[s.win]
<1>1. Inside(p) /\ Section(p).locked /\ phase[p] # "idle"
  BY DEF Sound, Holding, Inside
<1>2. AimedStep(Steps(p), k) /\ s = Steps(p)[k]
  BY <1>1, StepsOf DEF KeepsAim, Aimed, Cur
<1>3. /\ s.addr = [i \in DOMAIN s.addr |-> s.addr[i]]
      /\ s.data = [i \in DOMAIN s.data |-> s.data[i]]
      /\ s.reg # NoReg => s.reg \in DOMAIN reg
      /\ s.win # NoReg => RegsOfPort(w) \subseteq DOMAIN reg
  <2>1. phase[p] # "idle" /\ k \in DOMAIN Steps(p) /\ s = Steps(p)[k]
    BY <1>1, <1>2
  <2>2. /\ s.addr = [i \in DOMAIN s.addr |-> s.addr[i]]
        /\ s.data = [i \in DOMAIN s.data |-> s.data[i]]
    BY <2>1, StepIs DEF OicType
  <2>3. /\ s.reg # NoReg => s.reg \in DOMAIN reg
        /\ s.win # NoReg => RegsOfPort(w) \subseteq DOMAIN reg
    BY <2>1, StepTouches DEF OicType, Kept
  <2> QED
    BY <2>2, <2>3
<1>4. s.op \in Strobes \cup {"get"} => RegsOfPort(w) \subseteq DOMAIN reg
  BY <1>2, <1>3 DEF AimedStep
<1>5. /\ Range(w.addr) \subseteq RegsOfPort(w) /\ Range(w.data) \subseteq RegsOfPort(w)
      /\ (w.dir # NoReg => w.dir \in RegsOfPort(w))
  BY DEF RegsOfPort
<1>6. ASSUME s.op \in Strobes \/ (s.op = "get" /\ w.out = NoReg)
      PROVE  Selected(s.win) = <<s.win, s.addr>>
  <2>1. TheyHold(Steps(p), k, w.addr, s.addr)
    BY <1>2, <1>6 DEF AimedStep
  <2>2. Range(w.addr) \subseteq DOMAIN reg
    BY <1>4, <1>5, <1>6
  <2>3. [i \in DOMAIN w.addr |-> reg[w.addr[i]]] = s.addr
    BY <1>3, <2>1, <2>2, TheyAre
  <2> QED
    BY <2>3 DEF Selected
<1>7. ASSUME s.op \in Strobes PROVE Effect(s) = s.op
  <2>1. PICK j \in 1 .. k - 1 : Puts(Steps(p), j, k, s.reg) /\ Steps(p)[j].val # s.val
    BY <1>2, <1>7 DEF AimedStep
  <2>2. s.reg \in DOMAIN reg
    BY <1>2, <1>3, <1>7 DEF AimedStep
  <2>3. reg[s.reg] # s.val
    BY <2>1, <2>2 DEF Known
  <2>4. Effect(s) = Reaction(s.win, s.reg)
    BY <2>3 DEF Effect
  <2>5. Toward(Steps(p), k)
    BY <1>2, <1>7 DEF AimedStep
  <2>6. CASE w.dir # NoReg
    <3>1. PICK i \in 1 .. k - 1 : Puts(Steps(p), i, k, w.dir) /\ (Steps(p)[i].val = 1 <=> s.op = "fetch")
      BY <1>2, <2>5, <2>6 DEF Toward
    <3>2. w.dir \in DOMAIN reg
      BY <1>4, <1>5, <1>7, <2>6
    <3>3. reg[w.dir] = 1 <=> s.op = "fetch"
      BY <3>1, <3>2 DEF Known
    <3> QED
      BY <1>7, <2>4, <2>6, <3>3 DEF Reaction, Strobes
  <2>7. CASE w.dir = NoReg
    <3>1. s.reg = w.rd <=> s.op = "fetch"
      BY <1>2, <2>5, <2>7 DEF Toward
    <3> QED
      BY <1>7, <2>4, <2>7, <3>1 DEF Reaction, Strobes
  <2> QED
    BY <2>6, <2>7
<1>8. ASSUME s.op = "store" PROVE s.data \in {<<>>, Data(s.win)}
  <2>1. CASE s.data # <<>>
    <3>1. TheyHold(Steps(p), k, w.data, s.data)
      BY <1>2, <1>8, <2>1 DEF AimedStep, Strobes
    <3>2. Range(w.data) \subseteq DOMAIN reg
      BY <1>4, <1>5, <1>8 DEF Strobes
    <3>3. [i \in DOMAIN w.data |-> reg[w.data[i]]] = s.data
      BY <1>3, <3>1, <3>2, TheyAre
    <3> QED
      BY <3>3 DEF Data
  <2> QED
    BY <2>1
<1>9. s.op = "get" => Source(s) = <<s.win, s.addr>>
  BY <1>6 DEF Source
<1> QED
  BY <1>4, <1>6, <1>7, <1>8, <1>9 DEF Cur

\* An access is a step of its process alone.
LEMMA AccOthers ==
  ASSUME NEW p \in Proc, OicType, Acc(p)
  PROVE  /\ \A q \in Proc : Steps(q)' = Steps(q) /\ (Holding(q)' <=> Holding(q)) /\ (Inside(q)' <=> Inside(q))
         /\ at'[p] = at[p] + 1 /\ at[p] \in Int /\ \A q \in Proc \ {p} : at'[q] = at[q]
         /\ Inside(p) /\ at[p] \in DOMAIN Steps(p) /\ Cur(p) = Steps(p)[at[p]]
BY AccIs DEF OicType, Kept, Inside, Holding, Steps, Section, Handler, Cur

\* Without the lock it disturbs the section that has it, which is then no longer sound.
LEMMA AccBare ==
  ASSUME NEW p \in Proc, OicType, OneOwner, Acc(p), ~Section(p).locked
  PROVE  /\ Cross(p) /\ ~Holding(p) /\ \A q \in Proc : ~Sound(q)'
         /\ seen' = [q \in Proc |-> IF q # p /\ Holding(q) THEN Nothing ELSE seen[q]]
         /\ astray' = [q \in Proc |-> astray[q] /\ ~(q # p /\ Holding(q))]
         /\ crossed' = [q \in Proc |-> crossed[q] \/ (q # p /\ Holding(q))]
<1>1. Cross(p)
  BY DEF Acc, Put, Strobe, StrobeAt, Get, Load, Modify, Noted, Unnoted
<1>2. crossed' = [q \in Proc |-> crossed[q] \/ (q # p /\ Holding(q))]
  BY <1>1, CrossKept DEF OicType
<1>3. ~Holding(p)
  BY DEF Holding
<1>4. ASSUME NEW q \in Proc, Sound(q)' PROVE FALSE
  <2>1. Holding(q) /\ ~crossed'[q]
    BY <1>4, AccOthers DEF Sound
  <2>2. crossed'[q] = (crossed[q] \/ (q # p /\ Holding(q)))
    BY <1>2
  <2> QED
    BY <1>3, <2>1, <2>2
<1> QED
  BY <1>1, <1>2, <1>3, <1>4, CrossKept DEF OicType

\* With the lock it is alone.
LEMMA AccLocked ==
  ASSUME NEW p \in Proc, OicType, OneOwner, Acc(p), Section(p).locked
  PROVE  /\ Holding(p) /\ crossed' = crossed /\ \A q \in Proc : Sound(q)' => q = p /\ Sound(p)
         /\ \A q \in Proc \ {p} : ~Holding(q) /\ ~Holding(q)' /\ ~Sound(q)
<1>1. Holding(p)
  BY AccIs DEF Holding
<1>2. crossed' = crossed
  BY DEF Acc, Put, Strobe, StrobeAt, Get, Load, Modify, Noted, Unnoted
<1>3. \A q \in Proc \ {p} : ~Holding(q) /\ ~Holding(q)'
  BY <1>1, Alone, AccOthers
<1> QED
  BY <1>1, <1>2, <1>3, AccOthers DEF Sound

LEMMA AccKnown == ASSUME OicType, OneOwner, Known, NEW p \in Proc, Acc(p) PROVE Known'
<1>1. CASE ~Section(p).locked
  BY <1>1, AccBare DEF Known
<1>2. CASE Section(p).locked
  <2>1. SUFFICES ASSUME Sound(p), NEW r \in DOMAIN reg, NEW j \in 1 .. (at[p] + 1) - 1,
                        Puts(Steps(p), j, at[p] + 1, r)
                 PROVE  reg'[r] = Steps(p)[j].val
    BY <1>2, AccLocked, AccOthers, AccIs DEF Known
  <2>2. CASE j \in 1 .. at[p] - 1 /\ Puts(Steps(p), j, at[p], r) /\ r \notin Writes(Steps(p)[at[p]])
    <3>1. reg'[r] = reg[r]
      BY <2>2, AccOthers, AccIs
    <3> QED
      BY <2>1, <2>2, <3>1 DEF Known
  <2>3. CASE j = at[p] /\ Steps(p)[at[p]].reg = r
             /\ (Steps(p)[at[p]].op = "put"
                   \/ (Steps(p)[at[p]].op \in Strobes /\ r # Port[Steps(p)[at[p]].win].out))
    BY <2>3, AccOthers, AccPuts
  <2> QED
    BY <2>1, <2>2, <2>3, PutsNext, AccOthers
<1> QED
  BY <1>1, <1>2

LEMMA NoteRight ==
  ASSUME OicType, NEW p \in Proc, ~astray[p], NEW c, NEW v, NEW right,
         ~crossed[p] => right, Note(p, c, v, right)
  PROVE  astray' = astray
<1>1. astray \in [Proc -> BOOLEAN]
  BY DEF OicType, Kept
<1>2. CASE crossed[p]
  BY <1>2 DEF Note
<1>3. CASE ~crossed[p]
  <2>1. astray' = [astray EXCEPT ![p] = @ \/ ~right]
    BY <1>3 DEF Note
  <2>2. (astray[p] \/ ~right) = FALSE
    BY <1>3, Zenon
  <2>3. astray' = [astray EXCEPT ![p] = FALSE] /\ astray[p] = FALSE
    BY <1>1, <2>1, <2>2
  <2> QED
    BY <1>1, <2>3
<1> QED
  BY <1>2, <1>3

LEMMA AccAstray == ASSUME AllAim, AimInv, NEW p \in Proc, Acc(p) PROVE NoneAstray'
<1>0. ~astray[p] /\ astray \in [Proc -> BOOLEAN]
  BY DEF AimInv, NoneAstray, OicType, Kept
<1>1. CASE ~Section(p).locked
  <2>1. \A q \in Proc : astray'[q] = (astray[q] /\ ~(q # p /\ Holding(q)))
    BY <1>1, AccBare DEF AimInv
  <2> QED
    BY <2>1 DEF AimInv, NoneAstray
<1>2. CASE Section(p).locked
  <2>0. ~crossed[p] => Sound(p) /\ at[p] \in DOMAIN Steps(p)
    BY <1>2, AccLocked, AccIs DEF AimInv, Sound
  <2>1. CASE Put(p) \/ Load(p) \/ Modify(p)
    <3>1. astray' = astray
      BY <1>2, <2>1 DEF Put, Load, Modify, Noted, Unnoted
    <3> QED
      BY <3>1 DEF AimInv, NoneAstray
  <2>2. CASE Get(p)
    <3> DEFINE s == Cur(p)
    <3>1. Note(p, Source(s), Result(s), Source(s) = <<s.win, s.addr>>) /\ s.op = "get"
      BY <1>2, <2>2 DEF Get, Noted, Doing, Cur
    <3>2. ~crossed[p] => Source(s) = <<s.win, s.addr>>
      BY <2>0, <3>1, AimsAt DEF AimInv
    <3> HIDE DEF s
    <3>3. astray' = astray
      BY <1>0, <3>1, <3>2, NoteRight DEF AimInv
    <3> QED
      BY <3>3 DEF AimInv, NoneAstray
  <2>3. CASE Strobe(p)
    <3> DEFINE s == Cur(p)
               c == Selected(s.win)
               does == Effect(s)
               right == c = <<s.win, s.addr>> /\ does = s.op
    <3>1. StrobeAt(p, s, c, does) /\ s.op \in Strobes
      BY <2>3 DEF Strobe, Doing, Cur, Strobes
    <3>2. ~crossed[p] => right /\ (s.op = "store" => s.data \in {<<>>, Data(s.win)})
      BY <2>0, <3>1, AimsAt DEF AimInv
    <3> HIDE DEF s, c, does
    <3>3. CASE does = "store"
      <4> DEFINE ok == right /\ s.data \in {<<>>, Data(s.win)}
      <4>1. Note(p, c, Data(s.win), ok)
        BY <1>2, <3>1, <3>3 DEF StrobeAt, Noted
      <4>2. ~crossed[p] => ok
        BY <3>2, <3>3
      <4> HIDE DEF ok
      <4>3. astray' = astray
        BY <1>0, <4>1, <4>2, NoteRight DEF AimInv
      <4> QED
        BY <4>3 DEF AimInv, NoneAstray
    <3>4. CASE does # "store"
      <4>1. astray' = [astray EXCEPT ![p] = @ \/ ~(right \/ crossed[p])]
        BY <1>2, <3>1, <3>4 DEF StrobeAt, Noted
      <4>2. (astray[p] \/ ~(right \/ crossed[p])) = FALSE
        BY <1>0, <3>2, Zenon
      <4>3. astray' = [astray EXCEPT ![p] = FALSE]
        BY <4>1, <4>2
      <4> QED
        BY <1>0, <4>3 DEF AimInv, NoneAstray
    <3> QED
      BY <3>3, <3>4
  <2> QED
    BY <2>1, <2>2, <2>3 DEF Acc
<1> QED
  BY <1>1, <1>2

\* A process that leaves a section forgets what it knew.
Clears(p) ==
  /\ ~Inside(p)' /\ ~astray'[p] /\ seen'[p] = Nothing
  /\ cells' = Restrict(cells, DOMAIN cells \cap UNION {DOMAIN seen[q] : q \in Proc \ {p}})

LEMMA Moves ==
  ASSUME Disciplined, OicType, OneOwner, NEW p \in Proc, Call(p) \/ Enter(p) \/ Leave(p) \/ Fail(p),
         ~broken'
  PROVE  /\ reg' = reg /\ call' = call
         /\ \A q \in Proc \ {p} :
              /\ (Holding(q)' <=> Holding(q)) /\ (Sound(q)' <=> Sound(q))
              /\ at'[q] = at[q] /\ tmp'[q] = tmp[q] /\ seen'[q] = seen[q]
              /\ astray'[q] = astray[q] /\ crossed'[q] = crossed[q] /\ Steps(q)' = Steps(q)
         /\ \/ Call(p) /\ ~Inside(p)' /\ ~Inside(p) /\ UNCHANGED <<seen, astray, cells>>
            \/ Enter(p) /\ at'[p] = 1 /\ ~Inside(p) /\ UNCHANGED <<seen, astray, cells>>
            \/ (Leave(p) \/ Fail(p)) /\ Inside(p) /\ Clears(p)
<1>1. CASE Call(p)
  BY <1>1 DEF Call, OicType, Places, Holding, Sound, Inside, Steps, Section, Handler
<1>2. CASE Enter(p)
  BY <1>2 DEF Enter, OicType, Places, Kept, Holding, Sound, Inside, Steps, Section, Handler
<1>3. ASSUME NEW next, GoOn(p, next), Forget(p), UNCHANGED <<call, reg>>, Inside(p), Leave(p) \/ Fail(p)
      PROVE  /\ \A q \in Proc \ {p} :
                  /\ (Holding(q)' <=> Holding(q)) /\ (Sound(q)' <=> Sound(q))
                  /\ at'[q] = at[q] /\ tmp'[q] = tmp[q] /\ seen'[q] = seen[q]
                  /\ astray'[q] = astray[q] /\ crossed'[q] = crossed[q] /\ Steps(q)' = Steps(q)
             /\ Clears(p)
  <2>1. phase'[p] # "body" /\ \A q \in Proc \ {p} : phase'[q] = phase[q] /\ sec'[q] = sec[q]
    BY <1>3, GoesOn DEF OicType
  <2>2. Clears(p)
    BY <1>3, <2>1 DEF Forget, Clears, Inside, OicType, Kept
  <2>3. \A q \in Proc \ {p} :
          /\ at'[q] = at[q] /\ tmp'[q] = tmp[q] /\ seen'[q] = seen[q]
          /\ astray'[q] = astray[q] /\ crossed'[q] = crossed[q]
    BY <1>3 DEF Forget, OicType, Kept
  <2>4. \A q \in Proc \ {p} :
          /\ (Holding(q)' <=> Holding(q)) /\ (Sound(q)' <=> Sound(q))
          /\ Steps(q)' = Steps(q)
    BY <1>3, <2>1, <2>3 DEF Holding, Sound, Inside, Steps, Section, Handler
  <2> QED
    BY <2>2, <2>3, <2>4
<1>4. CASE Leave(p)
  <2>1. GoOn(p, Section(p).exit = "unlock") /\ Forget(p) /\ UNCHANGED <<call, reg>> /\ Inside(p)
    BY <1>4 DEF Leave
  <2> QED
    BY <1>3, <1>4, <2>1
<1>5. CASE Fail(p)
  <2>1. /\ Inside(p) /\ at[p] \in DOMAIN Steps(p) /\ Refusable(Cur(p))
        /\ call[p] \notin Careless /\ UNCHANGED <<call, reg>>
    BY <1>5 DEF Fail
  <2>2. Section(p).onFail # "resume"
    BY <2>1, SectionIs DEF OicType, Places, Inside, Disciplined, DisciplinedCall, Cur
  <2>3. GoOn(p, Section(p).onFail = "next") /\ Forget(p)
    BY <1>5, <2>2 DEF Fail
  <2> QED
    BY <1>3, <1>5, <2>1, <2>3
<1> QED
  BY <1>1, <1>2, <1>4, <1>5

LEMMA MovesKnown ==
  ASSUME Disciplined, OicType, OneOwner, Known, NoneAstray,
         NEW p \in Proc, Call(p) \/ Enter(p) \/ Leave(p) \/ Fail(p), ~broken'
  PROVE  Known' /\ NoneAstray'
<1>1. ASSUME NEW q \in Proc, Sound(q)' PROVE at'[q] = 1 \/ (Sound(q) /\ at'[q] = at[q] /\ Steps(q)' = Steps(q))
  <2>1. CASE q = p
    BY <1>1, <2>1, Moves DEF Sound, Holding, Clears
  <2>2. CASE q # p
    BY <1>1, <2>2, Moves
  <2> QED
    BY <2>1, <2>2
<1>2. reg' = reg
  BY Moves
<1>3. Known'
  <2>1. SUFFICES ASSUME NEW q \in Proc, Sound(q)', NEW r \in DOMAIN reg, NEW j \in 1 .. at'[q] - 1,
                        Puts(Steps(q), j, at[q], r)'
                 PROVE  reg[r] = Steps(q)'[j].val
    BY <1>2 DEF Known
  <2>2. CASE at'[q] = 1
    BY <2>1, <2>2
  <2>3. CASE Sound(q) /\ at'[q] = at[q] /\ Steps(q)' = Steps(q)
    BY <2>1, <2>3 DEF Known, Puts, LastWrite, Writes
  <2> QED
    BY <1>1, <2>1, <2>2, <2>3
<1>4. NoneAstray'
  <2>1. \A q \in Proc \ {p} : astray'[q] = astray[q]
    BY Moves
  <2>2. ~astray'[p]
    BY Moves DEF Clears, NoneAstray
  <2> QED
    BY <2>1, <2>2 DEF NoneAstray
<1> QED
  BY <1>3, <1>4

LEMMA AimInit == Init => AimInv
<1> SUFFICES ASSUME Init PROVE AimInv
  OBVIOUS
<1>1. OicType /\ OneOwner
  BY OicTypeInit, LockInit DEF LockInv
<1>2. \A p \in Proc : ~Inside(p) /\ ~astray[p]
  BY DEF Init, Inside
<1> QED
  BY <1>1, <1>2 DEF AimInv, Known, NoneAstray, Sound, Holding

\* What is the same in the next state when no variable changes.
LEMMA Still ==
  ASSUME UNCHANGED vars
  PROVE  /\ UNCHANGED <<call, phase, sec, at, tmp, seen, astray, crossed, lock, reg, cells>>
         /\ \A q \in Proc : Steps(q)' = Steps(q) /\ (Holding(q)' <=> Holding(q)) /\ (Sound(q)' <=> Sound(q))
BY DEF vars, local, Sound, Holding, Inside, Steps, Section, Handler

LEMMA AimStutter == ASSUME Known, NoneAstray, UNCHANGED vars PROVE Known' /\ NoneAstray'
<1>1. NoneAstray'
  BY Still DEF NoneAstray
<1>2. SUFFICES ASSUME NEW q \in Proc, Sound(q), NEW r \in DOMAIN reg, NEW j \in 1 .. at[q] - 1,
                      Puts(Steps(q), j, at[q], r)
               PROVE  reg[r] = Steps(q)[j].val
  BY <1>1, Still DEF Known
<1> QED
  BY <1>2 DEF Known

LEMMA NextIs ==
  ASSUME Next
  PROVE  \E p \in Proc : Acc(p) \/ Call(p) \/ Enter(p) \/ Leave(p) \/ Fail(p)
BY DEF Next, Go, Acc

LEMMA AimStep ==
  ASSUME Disciplined, AllAim, LockInv, AimInv, [Next]_vars, ~broken'
  PROVE  AimInv'
<1>1. OicType' /\ OneOwner'
  BY OicTypeStep, LockStep DEF AimInv, LockInv
<1>2. Known' /\ NoneAstray'
  <2>1. CASE UNCHANGED vars
    BY <2>1, AimStutter DEF AimInv
  <2>2. CASE Next
    <3>1. PICK p \in Proc : Acc(p) \/ Call(p) \/ Enter(p) \/ Leave(p) \/ Fail(p)
      BY <2>2, NextIs
    <3>2. CASE Acc(p)
      BY <3>2, AccKnown, AccAstray DEF AimInv
    <3>3. CASE Call(p) \/ Enter(p) \/ Leave(p) \/ Fail(p)
      BY <3>3, MovesKnown DEF AimInv
    <3> QED
      BY <3>1, <3>2, <3>3
  <2> QED
    BY <2>1, <2>2
<1> QED
  BY <1>1, <1>2 DEF AimInv

AimSafe == ~broken => LockInv /\ AimInv

LEMMA AimIsSafe == ASSUME Disciplined, AllAim PROVE Spec => []AimSafe
<1>1. Init => AimSafe
  BY LockInit, AimInit DEF AimSafe
<1>2. AimSafe /\ [Next]_vars => AimSafe'
  BY AimStep, LockStep, StaysBroken DEF AimSafe
<1> QED
  BY <1>1, <1>2, PTL DEF Spec

\* RightPlace: in a driver whose sections select, set and strobe what they mean to,
\* no call can divert the access of another, or leave the device so that an access
\* of a later call goes astray, until a register refuses a value in a Careless call.
THEOREM RightPlaces == ASSUME Disciplined, AllAim PROVE Spec => []RightPlace
<1>1. AimSafe => RightPlace
  BY DEF AimSafe, AimInv, NoneAstray, RightPlace
<1> QED
  BY <1>1, AimIsSafe, PTL
-----------------------------------------------------------------------------
(* A locked section is one moment.  *)

\* Only a section that holds the lock undisturbed has notes.
Unseen == \A p \in Proc : ~Sound(p) => seen[p] = Nothing
Moment == \A p \in Proc : \A c \in DOMAIN seen[p] : Content(c) = seen[p][c]

\* A register that was read as itself was read by an earlier step.
SeenPlain ==
  \A p \in Proc : \A c \in DOMAIN seen[p] : Port[c[1]].plain # NoReg =>
    \E k \in DOMAIN Steps(p) : k < at[p] /\ Steps(p)[k].op = "get" /\ Steps(p)[k].win = c[1]

\* A place that is fetched through a register keeps its own content while the section in
\* progress, if any, has it in its notes.
CellsSeen ==
  \A c \in DOMAIN cells : Port[c[1]].out # NoReg =>
    \E p \in Proc : Holding(p) /\ (crossed[p] \/ c \in DOMAIN seen[p])

\* What was fetched last is still in the output register.
FetchKept ==
  \A p \in Proc : Sound(p) => \A j \in 1 .. at[p] - 1 :
    LET t == Steps(p)[j] IN
    t.win # NoReg /\ Port[t.win].plain = NoReg /\ Port[t.win].out # NoReg
      /\ Fetches(Steps(p), j, at[p], t.win, t.addr)
      => reg[Port[t.win].out] = Content(<<t.win, t.addr>>)

Notes == Unseen /\ Moment /\ SeenPlain /\ CellsSeen /\ FetchKept

LEMMA ContentKept ==
  ASSUME NEW c, Port[c[1]].plain # NoReg => reg'[Port[c[1]].plain] = reg[Port[c[1]].plain],
         Port[c[1]].plain = NoReg =>
           (c \in DOMAIN cells' <=> c \in DOMAIN cells) /\ (c \in DOMAIN cells => cells'[c] = cells[c])
  PROVE  Content(c)' = Content(c)
BY DEF Content

\* The notes on an access by the code without the lock.
LEMMA BareNotes ==
  ASSUME AllHold, AimInv, Notes, NEW p \in Proc, Acc(p), ~Section(p).locked
  PROVE  Notes'
<1>1. \A q \in Proc : ~Sound(q)' /\ seen'[q] = Nothing
  <2>1. TAKE q \in Proc
  <2>2. seen'[q] = IF q # p /\ Holding(q) THEN Nothing ELSE seen[q]
    BY AccBare DEF AimInv
  <2>3. ~(q # p /\ Holding(q)) => seen[q] = Nothing
    BY AccBare DEF AimInv, Notes, Unseen, Sound
  <2> QED
    BY <2>2, <2>3, AccBare DEF AimInv
<1>2. DOMAIN Nothing = {}
  BY DEF Nothing
<1>3. Unseen' /\ Moment' /\ SeenPlain' /\ FetchKept'
  BY <1>1, <1>2 DEF Unseen, Moment, SeenPlain, FetchKept
<1>4. CellsSeen'
  <2>1. SUFFICES ASSUME NEW c \in DOMAIN cells', Port[c[1]].out # NoReg
                 PROVE  \E q \in Proc : Holding(q)' /\ crossed'[q]
    BY DEF CellsSeen
  <2>2. c \in DOMAIN cells
    <3>1. SUFFICES ASSUME Strobe(p), c = Selected(Cur(p).win) PROVE FALSE
      <4>1. CASE Strobe(p)
        <5>1. cells' = cells \/ cells' = With(cells, Selected(Cur(p).win), Data(Cur(p).win))
          BY <4>1 DEF Strobe, StrobeAt
        <5>2. DOMAIN cells' \subseteq DOMAIN cells \cup {Selected(Cur(p).win)}
          BY <5>1 DEF With
        <5> QED
          BY <2>1, <4>1, <5>2
      <4>2. CASE Put(p) \/ Get(p) \/ Load(p) \/ Modify(p)
        <5>1. cells' = cells
          BY <4>2 DEF Put, Get, Load, Modify
        <5> QED
          BY <2>1, <5>1
      <4> QED
        BY <4>1, <4>2 DEF Acc
    <3>2. Cur(p).op \in Strobes
      BY <3>1 DEF Strobe, Doing, Cur, Strobes
    <3>3. c[1] = Cur(p).win
      BY <3>1 DEF Selected
    <3>4. KeepsHold(Section(p)) /\ Cur(p) = Section(p).steps[at[p]] /\ at[p] \in DOMAIN Section(p).steps
      BY AccIs, StepsOf DEF AimInv, Cur
    <3> QED
      BY <2>1, <3>2, <3>3, <3>4 DEF KeepsHold
  <2>3. PICK q \in Proc : Holding(q)
    BY <2>1, <2>2 DEF Notes, CellsSeen
  <2>4. q # p /\ Holding(q)'
    BY <2>3, AccBare, AccOthers DEF AimInv
  <2>5. crossed'[q]
    BY <2>3, <2>4, AccBare DEF AimInv
  <2> QED
    BY <2>4, <2>5
<1> QED
  BY <1>3, <1>4 DEF Notes

\* The notes of a section that another has disturbed stay void.
LEMMA CrossedNotes ==
  ASSUME AimInv, Notes, NEW p \in Proc, Acc(p), Section(p).locked, crossed[p]
  PROVE  Notes'
<1>1. Holding(p)' /\ crossed'[p] /\ \A q \in Proc : ~Sound(q)'
  BY AccLocked, AccOthers DEF AimInv, Sound
<1>2. \A q \in Proc : ~Sound(q)
  BY AccLocked DEF AimInv, Sound
<1>3. seen' = seen
  BY DEF Acc, Put, Strobe, StrobeAt, Get, Load, Modify, Noted, Unnoted, Note
<1>4. \A q \in Proc : seen'[q] = Nothing
  BY <1>2, <1>3 DEF Notes, Unseen
<1>5. DOMAIN Nothing = {}
  BY DEF Nothing
<1>6. Unseen' /\ Moment' /\ SeenPlain' /\ FetchKept'
  BY <1>1, <1>4, <1>5 DEF Unseen, Moment, SeenPlain, FetchKept
<1>7. CellsSeen'
  BY <1>1 DEF CellsSeen
<1> QED
  BY <1>6, <1>7 DEF Notes

\* What an access of an undisturbed section does to the notes and to the device.
Quiet(p) ==
  /\ seen' = seen /\ cells' = cells /\ Cur(p).op \notin {"get", "store", "fetch"}
Read(p) ==
  /\ Cur(p).op = "get" /\ reg' = reg /\ cells' = cells
  /\ seen' = [seen EXCEPT ![p] = With(@, <<Cur(p).win, Cur(p).addr>>, Content(<<Cur(p).win, Cur(p).addr>>))]
Stored(p) ==
  /\ Cur(p).op = "store" /\ Port[Cur(p).win].plain = NoReg
  /\ cells' = With(cells, <<Cur(p).win, Cur(p).addr>>, Data(Cur(p).win))
  /\ seen' = [seen EXCEPT ![p] = With(@, <<Cur(p).win, Cur(p).addr>>, Data(Cur(p).win))]
FetchedNow(p) ==
  /\ Cur(p).op = "fetch" /\ Port[Cur(p).win].plain = NoReg /\ seen' = seen /\ cells' = cells
  /\ reg' = [reg EXCEPT ![Cur(p).reg] = Cur(p).val,
                        ![Port[Cur(p).win].out] = Content(<<Cur(p).win, Cur(p).addr>>)]

LEMMA AccMoment ==
  ASSUME AllAim, AllHold, AimInv, Notes, NEW p \in Proc, Acc(p), Section(p).locked, Sound(p)
  PROVE  Quiet(p) \/ Read(p) \/ Stored(p) \/ FetchedNow(p)
<1> DEFINE s == Cur(p)
<1>1. at[p] \in DOMAIN Steps(p) /\ s = Steps(p)[at[p]] /\ Inside(p)
  BY AccIs DEF Cur
<1>2. SettledStep(Steps(p), at[p])
  BY <1>1, StepsOf DEF AimInv, KeepsHold, Settled
<1>3. /\ s.op \in Strobes => Selected(s.win) = <<s.win, s.addr>> /\ Effect(s) = s.op
      /\ s.op = "get" => Source(s) = <<s.win, s.addr>>
  BY <1>1, AimsAt DEF AimInv
<1>4. CASE Put(p) \/ Load(p) \/ Modify(p)
  <2>1. s.op \in {"put", "load", "modify", "pass"}
    BY <1>4 DEF Put, Load, Modify, Doing, Cur
  <2>2. seen' = seen /\ cells' = cells
    BY <1>4 DEF Put, Load, Modify, Noted, Unnoted
  <2> QED
    BY <2>1, <2>2 DEF Quiet
<1>5. CASE Get(p)
  <2>1. s.op = "get" /\ Note(p, Source(s), Result(s), Source(s) = <<s.win, s.addr>>) /\ reg' = reg /\ cells' = cells
    BY <1>5 DEF Get, Noted, Doing, Cur
  <2>2. seen' = [seen EXCEPT ![p] = With(@, <<s.win, s.addr>>, Result(s))]
    BY <1>3, <2>1 DEF Note, Sound
  <2>3. Result(s) = Content(<<s.win, s.addr>>)
    <3>1. CASE Port[s.win].out = NoReg
      BY <1>3, <2>1, <3>1 DEF Result, Source
    <3>2. CASE Port[s.win].out # NoReg
      <4>1. /\ Port[s.win].plain = NoReg
            /\ \E j \in 1 .. at[p] - 1 : Fetches(Steps(p), j, at[p], s.win, s.addr)
        BY <1>1, <1>2, <2>1, <3>2 DEF SettledStep
      <4>2. PICK j \in 1 .. at[p] - 1 : Fetches(Steps(p), j, at[p], s.win, s.addr)
        BY <4>1
      <4>3. Steps(p)[j].win = s.win /\ Steps(p)[j].addr = s.addr
        BY <4>2 DEF Fetches
      <4>4. AimedStep(Steps(p), at[p])
        BY <1>1, StepsOf DEF AimInv, KeepsAim, Aimed
      <4>5. s.win # NoReg
        BY <1>1, <2>1, <4>4 DEF AimedStep
      <4>6. reg[Port[s.win].out] = Content(<<s.win, s.addr>>)
        BY <3>2, <4>1, <4>2, <4>3, <4>5 DEF Notes, FetchKept
      <4> QED
        BY <3>2, <4>6 DEF Result
    <3> QED
      BY <3>1, <3>2
  <2> QED
    BY <2>1, <2>2, <2>3 DEF Read
<1>6. CASE Strobe(p)
  <2>1. s.op \in Strobes /\ StrobeAt(p, s, <<s.win, s.addr>>, s.op)
    BY <1>3, <1>6 DEF Strobe, Doing, Cur, Strobes
  <2>2. Port[s.win].plain = NoReg
    BY <1>1, <1>2, <2>1 DEF SettledStep
  <2>3. CASE s.op = "store"
    BY <2>1, <2>2, <2>3 DEF StrobeAt, Noted, Note, Stored, Sound
  <2>4. CASE s.op = "fetch"
    BY <2>1, <2>2, <2>4 DEF StrobeAt, Noted, FetchedNow
  <2> QED
    BY <2>1, <2>3, <2>4 DEF Strobes
<1> QED
  BY <1>4, <1>5, <1>6 DEF Acc

\* ... it leaves the content of every place in its notes as it was, but for the one it stores.
LEMMA OldNotes ==
  ASSUME AllAim, AllHold, AimInv, Notes, NEW p \in Proc, Acc(p), Section(p).locked,
         Quiet(p) \/ Read(p) \/ Stored(p) \/ FetchedNow(p),
         NEW c \in DOMAIN seen[p], Cur(p).op = "store" => c # <<Cur(p).win, Cur(p).addr>>
  PROVE  Content(c)' = Content(c)
<1>1. at[p] \in DOMAIN Steps(p) /\ Cur(p) = Steps(p)[at[p]] /\ Inside(p)
  BY AccIs DEF Cur
<1>2. ASSUME Port[c[1]].plain # NoReg PROVE reg'[Port[c[1]].plain] = reg[Port[c[1]].plain]
  <2>1. PICK k \in DOMAIN Steps(p) : k < at[p] /\ Steps(p)[k].op = "get" /\ Steps(p)[k].win = c[1]
    BY <1>2 DEF Notes, SeenPlain
  <2>2. SettledStep(Steps(p), k)
    BY <1>1, StepsOf DEF AimInv, KeepsHold, Settled
  <2>3. Port[c[1]].plain \notin Writes(Cur(p))
    BY <1>1, <1>2, <2>1, <2>2, AccOthers DEF SettledStep, AimInv
  <2>4. Port[c[1]].plain \in DOMAIN reg
    <3>1. AimInv /\ phase[p] # "idle" /\ Steps(p)[k].win # NoReg => RegsOfPort(Port[c[1]]) \subseteq DOMAIN reg
      BY <2>1, StepTouches DEF AimInv, OicType, Kept
    <3>2. AimedStep(Steps(p), k)
      BY <1>1, StepsOf DEF AimInv, KeepsAim, Aimed
    <3> QED
      BY <1>1, <1>2, <2>1, <3>1, <3>2 DEF AimedStep, RegsOfPort, Inside
  <2> QED
    BY <2>3, <2>4, AccIs
<1>3. ASSUME Port[c[1]].plain = NoReg
      PROVE  /\ c \in DOMAIN cells' <=> c \in DOMAIN cells
             /\ c \in DOMAIN cells => cells'[c] = cells[c]
  BY DEF Quiet, Read, Stored, FetchedNow, With
<1> QED
  BY <1>2, <1>3, ContentKept

\* Only the section itself takes notes, of places that it reads or stores at.
LEMMA NewNotes ==
  ASSUME AimInv, Notes, NEW p \in Proc, Acc(p), Section(p).locked, Sound(p),
         Quiet(p) \/ Read(p) \/ Stored(p) \/ FetchedNow(p)
  PROVE  /\ \A q \in Proc \ {p} : seen'[q] = Nothing
         /\ \A c : c \in DOMAIN seen'[p] <=>
              c \in DOMAIN seen[p] \/ (Cur(p).op \in {"get", "store"} /\ c = <<Cur(p).win, Cur(p).addr>>)
         /\ Sound(p)' /\ Holding(p)' /\ \A q \in Proc \ {p} : ~Sound(q)'
<1>1. Sound(p)' /\ Holding(p)' /\ \A q \in Proc \ {p} : ~Sound(q) /\ ~Sound(q)'
  BY AccLocked, AccOthers DEF AimInv, Sound
<1>2. \A q \in Proc \ {p} : seen[q] = Nothing
  BY <1>1 DEF Notes, Unseen
<1>3. seen' = seen \/ \E v : seen' = [seen EXCEPT ![p] = v]
  BY DEF Quiet, Read, Stored, FetchedNow
<1>4. DOMAIN seen = Proc
  BY DEF AimInv, OicType, Kept
<1>5. \A c : c \in DOMAIN seen'[p] <=>
        c \in DOMAIN seen[p] \/ (Cur(p).op \in {"get", "store"} /\ c = <<Cur(p).win, Cur(p).addr>>)
  <2>1. CASE Quiet(p)
    BY <2>1 DEF Quiet
  <2>2. CASE Read(p)
    BY <1>4, <2>2 DEF Read, With
  <2>3. CASE Stored(p)
    BY <1>4, <2>3 DEF Stored, With
  <2>4. CASE FetchedNow(p)
    BY <2>4 DEF FetchedNow
  <2> QED
    BY <2>1, <2>2, <2>3, <2>4
<1>6. \A q \in Proc \ {p} : seen'[q] = seen[q]
  BY <1>3, <1>4
<1> QED
  BY <1>1, <1>2, <1>5, <1>6

LEMMA SoundMoment ==
  ASSUME AllAim, AllHold, AimInv, Notes, NEW p \in Proc, Acc(p), Section(p).locked, Sound(p),
         Quiet(p) \/ Read(p) \/ Stored(p) \/ FetchedNow(p)
  PROVE  Unseen' /\ Moment' /\ SeenPlain' /\ CellsSeen'
<1> DEFINE s == Cur(p)
           here == <<s.win, s.addr>>
<1>0. DOMAIN Nothing = {} /\ DOMAIN seen = Proc
  BY DEF Nothing, AimInv, OicType, Kept
<1>1. Unseen'
  BY NewNotes DEF Unseen
<1>2. Moment'
  <2>1. SUFFICES ASSUME NEW c \in DOMAIN seen'[p] PROVE Content(c)' = seen'[p][c]
    BY <1>0, NewNotes DEF Moment
  <2>2. CASE s.op = "get" /\ c = here
    <3>1. Read(p)
      BY <2>2 DEF Quiet, Read, Stored, FetchedNow
    <3>2. seen'[p][c] = Content(c)
      BY <1>0, <2>2, <3>1 DEF Read, With
    <3>3. Content(c)' = Content(c)
      BY <3>1, ContentKept DEF Read
    <3> QED
      BY <3>2, <3>3
  <2>3. CASE s.op = "store" /\ c = here
    <3>1. Stored(p)
      BY <2>3 DEF Quiet, Read, Stored, FetchedNow
    <3>2. seen'[p][c] = Data(s.win) /\ c \in DOMAIN cells' /\ cells'[c] = Data(s.win) /\ Port[c[1]].plain = NoReg
      BY <1>0, <2>3, <3>1 DEF Stored, With
    <3> QED
      BY <3>2 DEF Content
  <2>4. CASE ~(s.op \in {"get", "store"} /\ c = here)
    <3>1. c \in DOMAIN seen[p]
      BY <2>1, <2>4, NewNotes
    <3>2. seen'[p][c] = seen[p][c]
      BY <1>0, <2>4, <3>1 DEF Quiet, Read, Stored, FetchedNow, With
    <3>3. Content(c)' = Content(c)
      BY <2>4, <3>1, OldNotes
    <3> QED
      BY <3>1, <3>2, <3>3 DEF Notes, Moment
  <2> QED
    BY <2>2, <2>3, <2>4
<1>3. SeenPlain'
  <2>0. at'[p] = at[p] + 1 /\ at[p] \in Int /\ Steps(p)' = Steps(p) /\ at[p] \in DOMAIN Steps(p) /\ s = Steps(p)[at[p]]
    BY AccOthers DEF AimInv
  <2>1. SUFFICES ASSUME NEW c \in DOMAIN seen'[p], Port[c[1]].plain # NoReg
                 PROVE  \E k \in DOMAIN Steps(p) : k < at[p] + 1 /\ Steps(p)[k].op = "get" /\ Steps(p)[k].win = c[1]
    BY <1>0, <2>0, NewNotes DEF SeenPlain
  <2>2. CASE c \in DOMAIN seen[p]
    <3>1. PICK k \in DOMAIN Steps(p) : k < at[p] /\ Steps(p)[k].op = "get" /\ Steps(p)[k].win = c[1]
      BY <2>1, <2>2 DEF Notes, SeenPlain
    <3>2. k \in Int
      <4>1. Places /\ phase[p] # "idle"
        BY AccIs DEF AimInv, OicType, Inside
      <4>2. DOMAIN Steps(p) = 1 .. Len(Steps(p))
        BY <4>1, StepIs
      <4> QED
        BY <4>2
    <3> QED
      BY <2>0, <3>1, <3>2
  <2>3. CASE c \notin DOMAIN seen[p]
    <3>1. s.op \in {"get", "store"} /\ c = here
      BY <2>1, <2>3, NewNotes
    <3>2. s.op # "store"
      BY <2>1, <3>1 DEF Quiet, Read, Stored, FetchedNow
    <3> QED
      BY <2>0, <3>1, <3>2
  <2> QED
    BY <2>2, <2>3
<1>4. CellsSeen'
  <2>1. SUFFICES ASSUME NEW c \in DOMAIN cells', Port[c[1]].out # NoReg PROVE c \in DOMAIN seen'[p]
    BY NewNotes DEF CellsSeen
  <2>2. CASE c \in DOMAIN cells
    <3>1. PICK q \in Proc : Holding(q) /\ (crossed[q] \/ c \in DOMAIN seen[q])
      BY <2>1, <2>2 DEF Notes, CellsSeen
    <3>2. q = p
      BY <3>1, Alone DEF AimInv, Sound
    <3> QED
      BY <3>1, <3>2, NewNotes DEF Sound
  <2>3. CASE c \notin DOMAIN cells
    <3>1. Stored(p) /\ c = here
      BY <2>1, <2>3 DEF Quiet, Read, Stored, FetchedNow, With
    <3> QED
      BY <3>1, NewNotes DEF Stored
  <2> QED
    BY <2>2, <2>3
<1> QED
  BY <1>1, <1>2, <1>3, <1>4

LEMMA SoundFetch ==
  ASSUME AllAim, AllHold, AimInv, Notes, NEW p \in Proc, Acc(p), Section(p).locked, Sound(p),
         Quiet(p) \/ Read(p) \/ Stored(p) \/ FetchedNow(p)
  PROVE  FetchKept'
<1> DEFINE s == Cur(p)
           k == at[p]
<1>0. at'[p] = k + 1 /\ k \in Int /\ Steps(p)' = Steps(p) /\ k \in DOMAIN Steps(p) /\ s = Steps(p)[k] /\ Inside(p)
  BY AccOthers DEF AimInv
<1>1. SUFFICES ASSUME NEW j \in 1 .. (k + 1) - 1, NEW w, NEW a, w = Steps(p)[j].win, a = Steps(p)[j].addr,
                      w # NoReg, Port[w].plain = NoReg, Port[w].out # NoReg,
                      Fetches(Steps(p), j, k + 1, w, a)
               PROVE  reg'[Port[w].out] = Content(<<w, a>>)'
  <2>1. SUFFICES ASSUME NEW q \in Proc, Sound(q)', NEW j \in 1 .. at'[q] - 1,
                        Steps(q)'[j].win # NoReg, Port[Steps(q)'[j].win].plain = NoReg,
                        Port[Steps(q)'[j].win].out # NoReg,
                        Fetches(Steps(q), j, at[q], Steps(q)[j].win, Steps(q)[j].addr)'
                 PROVE  reg'[Port[Steps(q)'[j].win].out] = Content(<<Steps(q)[j].win, Steps(q)[j].addr>>)'
    BY DEF FetchKept
  <2>2. q = p
    BY <2>1, NewNotes
  <2>3. Fetches(Steps(p), j, k + 1, Steps(p)[j].win, Steps(p)[j].addr)
    BY <1>0, <2>1, <2>2 DEF Fetches, LastWrite, Writes
  <2>4. reg'[Port[Steps(p)[j].win].out] = Content(<<Steps(p)[j].win, Steps(p)[j].addr>>)'
    BY <1>0, <1>1, <2>1, <2>2, <2>3
  <2> QED
    BY <1>0, <2>2, <2>4
<1>2. CASE j = k
  <2>1. s.op = "fetch" /\ s.win = w /\ s.addr = a /\ s.reg # Port[w].out
    BY <1>0, <1>1, <1>2 DEF Fetches
  <2>2. FetchedNow(p)
    BY <2>1 DEF Quiet, Read, Stored, FetchedNow
  <2>3. Port[w].out \in DOMAIN reg
    BY <1>0, <1>1, <2>1, StepTouches DEF AimInv, OicType, Kept, Inside, RegsOfPort
  <2>4. reg'[Port[w].out] = Content(<<w, a>>)
    BY <2>1, <2>2, <2>3 DEF FetchedNow
  <2>5. Content(<<w, a>>)' = Content(<<w, a>>)
    BY <1>1, <2>2, ContentKept DEF FetchedNow
  <2> QED
    BY <2>4, <2>5
<1>3. CASE j # k
  <2>1. j \in 1 .. k - 1 /\ k \in j + 1 .. (k + 1) - 1
    BY <1>0, <1>1, <1>3
  <2>2. Port[w].out \notin Writes(s) /\ ~(s.op = "store" /\ s.win = w) /\ Fetches(Steps(p), j, k, w, a)
    BY <1>0, <1>1, <2>1 DEF Fetches, LastWrite
  <2>3. reg[Port[w].out] = Content(<<w, a>>)
    BY <1>1, <2>1, <2>2 DEF Notes, FetchKept
  <2>4. Port[w].out \in DOMAIN reg
    <3>1. j \in DOMAIN Steps(p)
      <4>1. Places /\ phase[p] # "idle"
        BY <1>0 DEF AimInv, OicType, Inside
      <4>2. Len(Steps(p)) \in Nat /\ DOMAIN Steps(p) = 1 .. Len(Steps(p))
        BY <4>1, StepIs
      <4> QED
        BY <1>0, <2>1, <4>2
    <3> QED
      BY <1>0, <1>1, <3>1, StepTouches DEF AimInv, OicType, Kept, Inside, RegsOfPort
  <2>5. reg'[Port[w].out] = reg[Port[w].out]
    BY <2>2, <2>4, AccIs
  <2>6. Content(<<w, a>>)' = Content(<<w, a>>)
    <3>1. /\ <<w, a>> \in DOMAIN cells' <=> <<w, a>> \in DOMAIN cells
          /\ <<w, a>> \in DOMAIN cells => cells'[<<w, a>>] = cells[<<w, a>>]
      BY <2>2 DEF Quiet, Read, Stored, FetchedNow, With
    <3> QED
      BY <1>1, <3>1, ContentKept
  <2> QED
    BY <2>3, <2>5, <2>6
<1> QED
  BY <1>2, <1>3

LEMMA AccNotesKept == ASSUME AllAim, AllHold, AimInv, Notes, NEW p \in Proc, Acc(p) PROVE Notes'
<1>1. CASE ~Section(p).locked
  BY <1>1, BareNotes
<1>2. CASE Section(p).locked /\ crossed[p]
  BY <1>2, CrossedNotes
<1>3. CASE Section(p).locked /\ ~crossed[p]
  <2>1. Sound(p)
    BY <1>3, AccLocked DEF AimInv, Sound
  <2>2. Quiet(p) \/ Read(p) \/ Stored(p) \/ FetchedNow(p)
    BY <1>3, <2>1, AccMoment
  <2> QED
    BY <1>3, <2>1, <2>2, SoundMoment, SoundFetch DEF Notes
<1> QED
  BY <1>1, <1>2, <1>3

\* A process that enters or leaves a section disturbs no other.
LEMMA MovesNotes ==
  ASSUME Disciplined, AimInv, Notes, NEW p \in Proc, Call(p) \/ Enter(p) \/ Leave(p) \/ Fail(p),
         ~broken'
  PROVE  Notes'
<1>0. /\ OicType /\ OneOwner /\ reg' = reg
      /\ \A q \in Proc \ {p} :
           /\ (Holding(q)' <=> Holding(q)) /\ (Sound(q)' <=> Sound(q))
           /\ at'[q] = at[q] /\ seen'[q] = seen[q] /\ crossed'[q] = crossed[q] /\ Steps(q)' = Steps(q)
  BY Moves DEF AimInv
<1>1. seen'[p] = Nothing /\ (Sound(p)' => at'[p] = 1)
  <2>1. CASE ~Inside(p) /\ UNCHANGED seen
    <3>1. ~Sound(p)
      BY <2>1 DEF Sound, Holding
    <3> QED
      BY <1>0, <2>1, <3>1, Moves DEF Notes, Unseen, Sound, Holding, Clears
  <2>2. CASE Clears(p)
    BY <2>2 DEF Clears, Sound, Holding
  <2> QED
    BY <1>0, <2>1, <2>2, Moves
<1>2. DOMAIN Nothing = {}
  BY DEF Nothing
<1>3. \/ cells' = cells /\ ~Inside(p)
      \/ cells' = Restrict(cells, DOMAIN cells \cap UNION {DOMAIN seen[q] : q \in Proc \ {p}})
  BY <1>0, Moves DEF Clears
\* The content that is kept is that of the places in the notes of the others.
<1>4. ASSUME NEW c
      PROVE  /\ c \in DOMAIN cells' =>
                  /\ c \in DOMAIN cells /\ cells'[c] = cells[c]
                  /\ (cells' = cells /\ ~Inside(p)) \/ \E q \in Proc \ {p} : c \in DOMAIN seen[q]
             /\ \A q \in Proc \ {p} : c \in DOMAIN seen[q] =>
                  (c \in DOMAIN cells' <=> c \in DOMAIN cells)
  BY <1>3 DEF Restrict
<1>5. Unseen'
  BY <1>0, <1>1 DEF Notes, Unseen
<1>6. Moment'
  <2>1. SUFFICES ASSUME NEW q \in Proc \ {p}, NEW c \in DOMAIN seen[q] PROVE Content(c)' = Content(c)
    BY <1>0, <1>1, <1>2 DEF Notes, Moment
  <2> QED
    BY <1>0, <1>4, <2>1, ContentKept
<1>7. SeenPlain'
  BY <1>0, <1>1, <1>2 DEF Notes, SeenPlain
<1>8. CellsSeen'
  <2>1. SUFFICES ASSUME NEW c \in DOMAIN cells', Port[c[1]].out # NoReg
                 PROVE  \E q \in Proc \ {p} : Holding(q) /\ (crossed[q] \/ c \in DOMAIN seen[q])
    BY <1>0 DEF CellsSeen
  <2>2. CASE cells' = cells /\ ~Inside(p)
    BY <2>1, <2>2 DEF Notes, CellsSeen, Holding
  <2>3. CASE \E q \in Proc \ {p} : c \in DOMAIN seen[q]
    BY <1>2, <2>3 DEF Notes, Unseen, Sound
  <2> QED
    BY <1>4, <2>1, <2>2, <2>3
<1>9. FetchKept'
  <2>1. SUFFICES ASSUME NEW q \in Proc \ {p}, Sound(q), NEW j \in 1 .. at[q] - 1,
                        Steps(q)[j].win # NoReg, Port[Steps(q)[j].win].plain = NoReg,
                        Port[Steps(q)[j].win].out # NoReg,
                        Fetches(Steps(q), j, at[q], Steps(q)[j].win, Steps(q)[j].addr)
                 PROVE  Content(<<Steps(q)[j].win, Steps(q)[j].addr>>)' = Content(<<Steps(q)[j].win, Steps(q)[j].addr>>)
    <3>1. SUFFICES ASSUME NEW q \in Proc, Sound(q)', NEW j \in 1 .. at'[q] - 1,
                          Steps(q)'[j].win # NoReg, Port[Steps(q)'[j].win].plain = NoReg,
                          Port[Steps(q)'[j].win].out # NoReg,
                          Fetches(Steps(q), j, at[q], Steps(q)[j].win, Steps(q)[j].addr)'
                   PROVE  reg'[Port[Steps(q)'[j].win].out] = Content(<<Steps(q)[j].win, Steps(q)[j].addr>>)'
      BY DEF FetchKept
    <3>2. q # p
      BY <1>1, <3>1
    <3>3. Sound(q) /\ at'[q] = at[q] /\ Steps(q)' = Steps(q)
      BY <1>0, <3>1, <3>2
    <3>4. Fetches(Steps(q), j, at[q], Steps(q)[j].win, Steps(q)[j].addr)
      BY <3>1, <3>3 DEF Fetches, LastWrite, Writes
    <3>5. reg[Port[Steps(q)[j].win].out] = Content(<<Steps(q)[j].win, Steps(q)[j].addr>>)
      BY <3>1, <3>3, <3>4 DEF Notes, FetchKept
    <3>6. Content(<<Steps(q)[j].win, Steps(q)[j].addr>>)' = Content(<<Steps(q)[j].win, Steps(q)[j].addr>>)
      BY <2>1, <3>1, <3>2, <3>3, <3>4
    <3> QED
      BY <1>0, <3>3, <3>5, <3>6
  <2> DEFINE c == <<Steps(q)[j].win, Steps(q)[j].addr>>
  <2>2. c \in DOMAIN cells => c \in DOMAIN seen[q]
    <3>1. SUFFICES ASSUME c \in DOMAIN cells PROVE c \in DOMAIN seen[q]
      OBVIOUS
    <3>2. PICK r \in Proc : Holding(r) /\ (crossed[r] \/ c \in DOMAIN seen[r])
      BY <2>1, <3>1 DEF Notes, CellsSeen
    <3>3. r = q
      BY <1>0, <2>1, <3>2, Alone DEF Sound
    <3> QED
      BY <2>1, <3>2, <3>3 DEF Sound
  <2>3. (c \in DOMAIN cells' <=> c \in DOMAIN cells) /\ (c \in DOMAIN cells => cells'[c] = cells[c])
    <3> HIDE DEF c
    <3> QED
      BY <1>4, <2>2
  <2>4. Port[c[1]].plain = NoReg
    BY <2>1
  <2>5. Steps(q)' = Steps(q)
    BY <1>0
  <2> QED
    BY <2>3, <2>4, <2>5 DEF Content
<1> QED
  BY <1>5, <1>6, <1>7, <1>8, <1>9 DEF Notes

LEMMA NotesInit == Init => Notes
<1> SUFFICES ASSUME Init PROVE Notes
  OBVIOUS
<1>1. \A p \in Proc : ~Inside(p) /\ seen[p] = Nothing
  BY DEF Init, Inside
<1>2. cells = Nothing /\ DOMAIN Nothing = {}
  BY DEF Init, Nothing
<1> QED
  BY <1>1, <1>2 DEF Notes, Unseen, Moment, SeenPlain, CellsSeen, FetchKept, Sound, Holding

LEMMA NotesStutter == ASSUME Notes, UNCHANGED vars PROVE Notes'
<1>1. \A c : Content(c)' = Content(c)
  BY Still, ContentKept
<1>2. Unseen' /\ Moment' /\ CellsSeen'
  BY <1>1, Still DEF Notes, Unseen, Moment, CellsSeen
<1>3. SeenPlain'
  BY Still DEF Notes, SeenPlain
<1>4. FetchKept'
  <2>1. SUFFICES ASSUME NEW q \in Proc, Sound(q)', NEW j \in 1 .. at'[q] - 1,
                        Steps(q)'[j].win # NoReg, Port[Steps(q)'[j].win].plain = NoReg,
                        Port[Steps(q)'[j].win].out # NoReg,
                        Fetches(Steps(q), j, at[q], Steps(q)[j].win, Steps(q)[j].addr)'
                 PROVE  reg'[Port[Steps(q)'[j].win].out] = Content(<<Steps(q)[j].win, Steps(q)[j].addr>>)'
    BY DEF FetchKept
  <2>2. Fetches(Steps(q), j, at[q], Steps(q)[j].win, Steps(q)[j].addr)
    BY <2>1, Still DEF Fetches, LastWrite, Writes
  <2>3. reg[Port[Steps(q)[j].win].out] = Content(<<Steps(q)[j].win, Steps(q)[j].addr>>)
    BY <2>1, <2>2, Still DEF Notes, FetchKept
  <2> QED
    BY <2>3, Still DEF Content
<1> QED
  BY <1>2, <1>3, <1>4 DEF Notes

LEMMA NotesStep ==
  ASSUME Disciplined, AllAim, AllHold, AimInv, Notes, [Next]_vars, ~broken'
  PROVE  Notes'
<1>1. CASE UNCHANGED vars
  BY <1>1, NotesStutter
<1>2. CASE Next
  <2>1. PICK p \in Proc : Acc(p) \/ Call(p) \/ Enter(p) \/ Leave(p) \/ Fail(p)
    BY <1>2, NextIs
  <2> QED
    BY <2>1, AccNotesKept, MovesNotes
<1> QED
  BY <1>1, <1>2

\* OneMoment: in a driver whose sections also fetch what they read, and do not write over
\* what they have read, nothing that a locked section has read or stored changes before
\* it ends, whatever the other calls do, until a register refuses a value in a Careless
\* call.
THEOREM OneMomentHolds == ASSUME Disciplined, AllAim, AllHold PROVE Spec => []OneMoment
<1> DEFINE Inv == ~broken => LockInv /\ AimInv /\ Notes
<1>1. Init => Inv
  BY LockInit, AimInit, NotesInit
<1>2. Inv /\ [Next]_vars => Inv'
  BY AimStep, LockStep, NotesStep, StaysBroken
<1>3. Inv => OneMoment
  BY DEF Notes, Moment, OneMoment
<1> QED
  BY <1>1, <1>2, <1>3, PTL DEF Spec
-----------------------------------------------------------------------------
(* What a read-modify-write takes back.  *)

\* A section that has read a register no bare code changes, and has not written it since,
\* knows what is in it.
Loaded ==
  \A p \in Proc : Holding(p) => \A j \in 1 .. at[p] - 1 :
    Steps(p)[j].reg \in DOMAIN reg \ BareWrites /\ Loads(Steps(p), j, at[p], Steps(p)[j].reg)
      => tmp[p] = reg[Steps(p)[j].reg]

LEMMA LoadsNext ==
  ASSUME NEW steps, NEW k \in Int, NEW j \in 1 .. (k + 1) - 1, NEW r, Loads(steps, j, k + 1, r)
  PROVE  \/ j \in 1 .. k - 1 /\ Loads(steps, j, k, r) /\ r \notin Writes(steps[k])
              /\ steps[k].op \notin {"load", "modify", "pass"}
         \/ j = k /\ steps[k].reg = r /\ steps[k].op = "load"
<1>1. CASE j = k
  BY <1>1 DEF Loads
<1>2. CASE j # k
  <2>1. j \in 1 .. k - 1 /\ k \in j + 1 .. (k + 1) - 1 /\ \A i \in j + 1 .. k - 1 : i \in j + 1 .. (k + 1) - 1
    BY <1>2
  <2> QED
    BY <2>1 DEF Loads
<1> QED
  BY <1>1, <1>2

\* Code without the lock writes the registers of BareWrites.
LEMMA BareIs ==
  ASSUME OicType, NEW p \in Proc, Acc(p), ~Section(p).locked, NEW r \in Writes(Cur(p))
  PROVE  r \in BareWrites
<1> DEFINE c == call[p]
           i == sec[p]
           t == Prog[c][i].steps[at[p]]
<1>1. phase[p] # "idle" /\ at[p] \in DOMAIN Steps(p) /\ Cur(p) = Steps(p)[at[p]]
  BY AccIs DEF Inside, Cur
<1>2. /\ c \in DOMAIN Prog /\ i \in DOMAIN Prog[c] /\ Section(p) = Code[p][c][i]
      /\ at[p] \in DOMAIN Prog[c][i].steps
      /\ Cur(p).op = t.op /\ Cur(p).reg = t.reg /\ Cur(p).win = t.win
  <2>1. Places
    BY DEF OicType
  <2>2. /\ Section(p) = Code[p][call[p]][sec[p]]
        /\ call[p] \in DOMAIN Prog /\ sec[p] \in DOMAIN Prog[call[p]]
    BY <1>1, <2>1, StepIs
  <2>3. LET s == Steps(p)[at[p]] u == Prog[call[p]][sec[p]].steps[at[p]] IN
        /\ s.op = u.op /\ s.reg = u.reg /\ s.win = u.win
        /\ at[p] \in DOMAIN Prog[call[p]][sec[p]].steps
    BY <1>1, <2>1, StepIs
  <2> QED
    BY <1>1, <2>2, <2>3
<1>3. ~Prog[c][i].locked
  <2>1. Places
    BY DEF OicType
  <2> QED
    BY <1>1, <2>1, SectionIs
<1>4. r \in Writes(t)
  BY <1>2 DEF Writes
<1>5. r \in WritesOf(Prog[c][i].steps)
  BY <1>2, <1>4 DEF WritesOf
<1>6. i \in BareSections(c)
  BY <1>2, <1>3 DEF BareSections
<1> HIDE DEF c, i
<1> QED
  BY <1>2, <1>5, <1>6 DEF BareWrites

LEMMA AccLoaded == ASSUME OicType, OneOwner, Loaded, NEW p \in Proc, Acc(p) PROVE Loaded'
<1>0. DOMAIN tmp = Proc /\ DOMAIN reg' = DOMAIN reg
  BY AccIs DEF OicType, Kept
<1>1. SUFFICES ASSUME NEW q \in Proc, Holding(q), NEW j \in 1 .. at'[q] - 1,
                      Steps(q)[j].reg \in DOMAIN reg \ BareWrites,
                      Loads(Steps(q), j, at'[q], Steps(q)[j].reg)
               PROVE  tmp'[q] = reg'[Steps(q)[j].reg]
  <2>1. SUFFICES ASSUME NEW q \in Proc, Holding(q)', NEW j \in 1 .. at'[q] - 1,
                        Steps(q)'[j].reg \in DOMAIN reg' \ BareWrites,
                        Loads(Steps(q), j, at[q], Steps(q)[j].reg)'
                 PROVE  tmp'[q] = reg'[Steps(q)'[j].reg]
    BY DEF Loaded
  <2>2. Holding(q) /\ Steps(q)' = Steps(q)
    BY <2>1, AccOthers
  <2>3. Loads(Steps(q), j, at'[q], Steps(q)[j].reg)
    BY <2>1, <2>2 DEF Loads, Writes
  <2> QED
    BY <1>0, <1>1, <2>1, <2>2, <2>3
<1> DEFINE r == Steps(q)[j].reg
<1>2. CASE ~Section(p).locked
  <2>1. q # p /\ at'[q] = at[q]
    BY <1>1, <1>2, AccOthers DEF Holding
  <2>2. tmp'[q] = tmp[q]
    BY <1>0, <2>1, AccIs
  <2>3. reg'[r] = reg[r]
    BY <1>1, <1>2, BareIs, AccIs
  <2> QED
    BY <1>1, <2>1, <2>2, <2>3 DEF Loaded
<1>3. CASE Section(p).locked
  <2>1. q = p /\ at'[p] = at[p] + 1 /\ at[p] \in Int /\ Cur(p) = Steps(p)[at[p]]
    BY <1>1, <1>3, AccLocked, AccOthers
  <2>2. CASE /\ j \in 1 .. at[p] - 1 /\ Loads(Steps(p), j, at[p], r) /\ r \notin Writes(Cur(p))
             /\ Cur(p).op \notin {"load", "modify", "pass"}
    <3>1. tmp'[p] = tmp[p]
      BY <2>2 DEF Acc, Put, Strobe, Get, Load, Modify, Doing, Cur
    <3>2. reg'[r] = reg[r]
      BY <1>1, <2>2, AccIs
    <3> QED
      BY <1>1, <2>1, <2>2, <3>1, <3>2 DEF Loaded
  <2>3. CASE Cur(p).reg = r /\ Cur(p).op = "load"
    <3>1. Load(p)
      BY <2>3 DEF Acc, Put, Strobe, Get, Load, Modify, Doing, Cur
    <3> QED
      BY <1>0, <2>1, <2>3, <3>1 DEF Load
  <2>4. j \in 1 .. (at[p] + 1) - 1 /\ Loads(Steps(p), j, at[p] + 1, r)
    BY <1>1, <2>1
  <2>5. \/ j \in 1 .. at[p] - 1 /\ Loads(Steps(p), j, at[p], r) /\ r \notin Writes(Steps(p)[at[p]])
             /\ Steps(p)[at[p]].op \notin {"load", "modify", "pass"}
        \/ j = at[p] /\ Steps(p)[at[p]].reg = r /\ Steps(p)[at[p]].op = "load"
    <3> HIDE DEF r
    <3> QED
      BY <2>1, <2>4, LoadsNext
  <2> QED
    BY <2>1, <2>2, <2>3, <2>5
<1> QED
  BY <1>2, <1>3

LEMMA MovesLoaded ==
  ASSUME Disciplined, OicType, OneOwner, Loaded,
         NEW p \in Proc, Call(p) \/ Enter(p) \/ Leave(p) \/ Fail(p), ~broken'
  PROVE  Loaded'
<1>1. /\ reg' = reg /\ (Holding(p)' => at'[p] = 1)
      /\ \A q \in Proc \ {p} :
           (Holding(q)' <=> Holding(q)) /\ at'[q] = at[q] /\ tmp'[q] = tmp[q] /\ Steps(q)' = Steps(q)
  BY Moves DEF Clears, Holding
<1>2. SUFFICES ASSUME NEW q \in Proc, Holding(q)', NEW j \in 1 .. at'[q] - 1,
                      Steps(q)'[j].reg \in DOMAIN reg' \ BareWrites,
                      Loads(Steps(q), j, at[q], Steps(q)[j].reg)'
               PROVE  tmp'[q] = reg'[Steps(q)'[j].reg]
  BY DEF Loaded
<1>3. q # p
  BY <1>1, <1>2
<1>4. Holding(q) /\ at'[q] = at[q] /\ tmp'[q] = tmp[q] /\ Steps(q)' = Steps(q)
  BY <1>1, <1>2, <1>3
<1>5. Loads(Steps(q), j, at[q], Steps(q)[j].reg)
  BY <1>2, <1>4 DEF Loads, Writes
<1> QED
  BY <1>1, <1>2, <1>4, <1>5 DEF Loaded

LEMMA LoadedStutter == ASSUME Loaded, UNCHANGED vars PROVE Loaded'
<1>1. SUFFICES ASSUME NEW q \in Proc, Holding(q)', NEW j \in 1 .. at'[q] - 1,
                      Steps(q)'[j].reg \in DOMAIN reg' \ BareWrites,
                      Loads(Steps(q), j, at[q], Steps(q)[j].reg)'
               PROVE  tmp'[q] = reg'[Steps(q)'[j].reg]
  BY DEF Loaded
<1>2. Loads(Steps(q), j, at[q], Steps(q)[j].reg)
  BY <1>1, Still DEF Loads, Writes
<1> QED
  BY <1>1, <1>2, Still DEF Loaded

LEMMA LoadedStep ==
  ASSUME Disciplined, OicType, OneOwner, Loaded, [Next]_vars, ~broken'
  PROVE  Loaded'
<1>1. CASE UNCHANGED vars
  BY <1>1, LoadedStutter
<1>2. CASE Next
  <2>1. PICK p \in Proc : Acc(p) \/ Call(p) \/ Enter(p) \/ Leave(p) \/ Fail(p)
    BY <1>2, NextIs
  <2> QED
    BY <2>1, AccLoaded, MovesLoaded
<1> QED
  BY <1>1, <1>2

LEMMA ModifyKeeps ==
  ASSUME AllPart, OicType, Loaded, NEW p \in Proc, Modify(p), Cur(p).op = "modify",
         NEW x \in DOMAIN reg[Cur(p).reg], x # Cur(p).part
  PROVE  reg'[Cur(p).reg][x] = reg[Cur(p).reg][x]
<1> DEFINE s == Cur(p)
<1>1. Inside(p) /\ at[p] \in DOMAIN Steps(p) /\ s = Steps(p)[at[p]] /\ phase[p] # "idle"
  BY DEF Modify, Doing, Cur, Inside
<1>2. KeepsPart(Section(p)) /\ Steps(p) = Section(p).steps /\ (Holding(p) <=> Section(p).locked)
  BY <1>1, StepsOf
<1>3. Section(p).locked /\ Holding(p)
  BY <1>1, <1>2 DEF KeepsPart
<1>4. PairedStep(Steps(p), at[p]) /\ s.reg \notin BareWrites
  BY <1>1, <1>2, <1>3 DEF KeepsPart, Paired
<1>5. s.reg # NoReg /\ \E j \in 1 .. at[p] - 1 : Loads(Steps(p), j, at[p], s.reg)
  BY <1>1, <1>4 DEF PairedStep
<1>6. PICK j \in 1 .. at[p] - 1 : Loads(Steps(p), j, at[p], s.reg)
  BY <1>5
<1>7. s.reg \in DOMAIN reg
  BY <1>1, <1>5, StepTouches DEF OicType, Kept
<1>8. tmp[p] = reg[s.reg]
  BY <1>3, <1>4, <1>6, <1>7 DEF Loaded, Loads
<1>9. reg' = [reg EXCEPT ![s.reg] = [tmp[p] EXCEPT ![s.part] = s.fn[@]]]
  BY DEF Modify
<1> HIDE DEF s
<1>10. reg'[s.reg] = [reg[s.reg] EXCEPT ![s.part] = s.fn[@]]
  BY <1>7, <1>8, <1>9
<1> QED
  BY <1>10 DEF s

\* PartsKept: in a driver that reads and writes back a register in one locked section, and
\* no bare code of which writes that register, a read-modify-write changes its part alone,
\* until a register refuses a value in a Careless call.
THEOREM PartsStay == ASSUME Disciplined, AllPart PROVE Spec => PartsKept
<1> DEFINE Inv == ~broken => LockInv /\ OicType /\ Loaded
           Keeps == \A p \in Proc : ~broken /\ Modify(p) /\ Cur(p).op = "modify" =>
                      \A x \in DOMAIN reg[Cur(p).reg] : x # Cur(p).part => reg'[Cur(p).reg][x] = reg[Cur(p).reg][x]
<1>1. Init => Inv
  <2>1. Init => Loaded
    BY DEF Init, Loaded, Holding, Inside
  <2> QED
    BY <2>1, LockInit, OicTypeInit
<1>2. Inv /\ [Next]_vars => Inv'
  BY OicTypeStep, LockStep, LoadedStep, StaysBroken DEF LockInv
<1>3. Inv /\ [Next]_vars => [Keeps]_vars
  BY ModifyKeeps
<1>4. [][Keeps]_vars => PartsKept
  BY DEF PartsKept
<1> QED
  BY <1>1, <1>2, <1>3, <1>4, PTL DEF Spec
=============================================================================
