--------------------------- MODULE UpgClientProofs ---------------------------
(***************************************************************************)
(* For all servers, periods, settings of the clock and numbers of failed    *)
(* allocations: timer of the upgrade client names the entry in the tree, so *)
(* that nothing that was freed is deleted and no entry is left behind; and  *)
(* the sys thread finds upginfo as it was when the command was accepted.    *)
(***************************************************************************)
EXTENDS UpgClient, FlattenProofs, FiniteSetTheorems, SequenceTheorems

\* The inductive invariant: before the end of the loop there is one entry, or none
\* and timer is NULL.
One(id, x) == <<[id |-> id, expire |-> x]>>
Looping == main \notin {"exit", "join", "done"}
TInv ==
  Looping => \/ timer = Nil /\ ut = <<>>
             \/ timer \in {0, 1} /\ \E x \in Int : ut = One(timer, x)

\* utimer_add_by_offset into an empty tree.
LEMMA AddToEmpty ==
  ASSUME NEW id, NEW offset \in Int
  PROVE  AddByOffset(<<>>, offset, id) = One(id, offset)
<1>1. {i \in DOMAIN <<>> : <<>>[i].expire <= offset} = {}
  OBVIOUS
<1>2. Cardinality({}) = 0
  BY FS_EmptySet
<1>. DEFINE e == [id |-> id, expire |-> offset]
<1>3. AddByOffset(<<>>, offset, id) = InsertAt(<<>>, 1, e)
  <2>1. Add(<<>>, offset, id) = InsertAt(<<>>, Cardinality({}) + 1, e)
    BY <1>1, Zenon DEF Add
  <2>. QED
    BY <2>1, <1>2 DEF AddByOffset
<1>4. InsertAt(<<>>, 1, e) = SubSeq(<<>>, 1, 0) \o <<e>> \o SubSeq(<<>>, 1, 0)
  BY DEF InsertAt
<1>5. SubSeq(<<>>, 1, 0) = <<>>
  OBVIOUS
<1>. HIDE DEF e
<1>6. <<>> \o <<e>> \o <<>> = <<e>>
  OBVIOUS
<1>. QED
  BY <1>3, <1>4, <1>5, <1>6 DEF One, e

\* utimer_run on one entry moves its time.
LEMMA RunOne ==
  ASSUME NEW id, NEW x \in Int, NEW d \in Int
  PROVE  Run(One(id, x), d) = One(id, x - d)
BY DEF Run, One

LEMMA PopOne ==
  ASSUME NEW id, NEW x
  PROVE  Pop(One(id, x)) = <<>> /\ Head(One(id, x)).id = id
BY DEF Pop, One

LEMMA TInvInit == Init => TInv
<1>. SUFFICES ASSUME Init PROVE TInv
  OBVIOUS
<1>1. Period \in Int
  BY UpgAssumption
<1>2. ut = One(0, Period)
  BY <1>1, AddToEmpty DEF Init, Open
<1>. QED
  BY <1>1, <1>2 DEF TInv, Init

LEMMA TInvStep == TInv /\ [Next]_vars => TInv'
<1>. SUFFICES ASSUME TInv, [Next]_vars PROVE TInv'
  OBVIOUS
<1>0. Period \in Int /\ Step \in Int
  BY UpgAssumption
<1>1. ASSUME UNCHANGED <<ut, timer>>, Looping' => Looping PROVE TInv'
  BY <1>1 DEF TInv, Looping
<1>2. ASSUME NEW d \in Int, TimerRun(d) PROVE TInv'
  <2>1. CASE timer = Nil /\ ut = <<>>
    <3>1. ut' = <<>> /\ timer' = Nil
      BY <1>2, <2>1 DEF TimerRun, Run
    <3>. QED
      BY <3>1 DEF TInv
  <2>2. ASSUME NEW x \in Int, timer \in {0, 1}, ut = One(timer, x) PROVE TInv'
    <3>1. ut' = One(timer, x - d) /\ timer' = timer
      BY <1>2, <2>2, RunOne DEF TimerRun
    <3>. QED
      BY <2>2, <3>1 DEF TInv
  <2>. QED
    BY <1>2, <2>1, <2>2 DEF TInv, Looping, TimerRun
<1>3. CASE Fire
  <2>1. Due(ut) /\ Looping /\ Rearm(1 - Head(ut).id)
    BY <1>3 DEF Fire, Looping
  <2>2. PICK x \in Int : timer \in {0, 1} /\ ut = One(timer, x)
    BY <2>1 DEF TInv, Due
  <2>3. Pop(ut) = <<>> /\ Head(ut).id = timer
    BY <2>2, PopOne
  <2>4. CASE ut' = AddByOffset(Pop(ut), Period, 1 - timer) /\ timer' = 1 - timer
    <3>1. ut' = One(timer', Period)
      BY <2>3, <2>4, <1>0, AddToEmpty
    <3>2. timer' \in {0, 1}
      BY <2>2, <2>4
    <3>. QED
      BY <3>1, <3>2, <1>0, Zenon DEF TInv
  <2>5. CASE ut' = Pop(ut) /\ timer' = Nil
    BY <2>3, <2>5 DEF TInv
  <2>. QED
    BY <2>1, <2>3, <2>4, <2>5 DEF Rearm
<1>4. CASE Leave \/ Close \/ Join
  BY <1>4 DEF Leave, Close, Join, TInv, Looping
<1>5. CASE Read \/ Publish \/ Fired
  BY <1>5, <1>1 DEF Read, Publish, Fired, Looping
<1>6. CASE SysStep
  BY <1>6, <1>1 DEF SysStep, SysIdle, Accept, Execute, Result, Clear, mainVars, Looping
<1>7. CASE (\E c \in Command : Receive(c)) \/ Send \/ Quit
  BY <1>7, <1>1 DEF Receive, Send, Quit, mainVars, Looping
<1>8. CASE TimePasses \/ TimeStands \/ TimeIsSet
  BY <1>8, <1>2, <1>0 DEF TimePasses, TimeStands, TimeIsSet
<1>9. CASE UNCHANGED vars
  BY <1>9, <1>1 DEF vars, mainVars, Looping
<1>. QED
  BY <1>3, <1>4, <1>5, <1>6, <1>7, <1>8, <1>9 DEF Next, MainStep

LEMMA TInvImplies == TInv => TimerKept
<1>. SUFFICES ASSUME TInv, Looping PROVE Len(ut) <= 1 /\ Ids(ut) = IF timer = Nil THEN {} ELSE {timer}
  BY DEF TimerKept, Looping
<1>1. CASE timer = Nil /\ ut = <<>>
  BY <1>1 DEF Ids
<1>2. ASSUME NEW x \in Int, timer \in {0, 1}, ut = One(timer, x)
      PROVE Len(ut) <= 1 /\ Ids(ut) = IF timer = Nil THEN {} ELSE {timer}
  <2>1. timer # Nil
    <3>1. Nil \notin {0, 1}
      BY UpgAssumption
    <3>2. timer \in {0, 1}
      BY <1>2
    <3>. QED
      BY <3>1, <3>2
  <2>2. Len(ut) = 1 /\ DOMAIN ut = {1} /\ ut[1].id = timer
    BY <1>2 DEF One
  <2>. QED
    BY <2>1, <2>2 DEF Ids
<1>. QED
  BY <1>1, <1>2 DEF TInv

\* What upgcli_exit_env deletes is the entry in the tree, whatever the callback, the
\* clock and the allocations did before (upgcli_timer_cb, utimer_run, utimer_delete).
THEOREM TimerIsKept == Spec => []TimerKept
BY TInvInit, TInvStep, TInvImplies, PTL DEF Spec

-----------------------------------------------------------------------------
\* The inductive invariant: the flag upgrading hands upginfo over and back.
Busy == sys \in {"accept", "exec", "result", "clear"}
Handover == (Busy => upgrading) /\ (main = "publish" => ~upgrading)

LEMMA HandoverInit == Init => Handover
BY DEF Init, Handover, Busy

LEMMA HandoverStep == Handover /\ [Next]_vars => Handover'
<1>. SUFFICES ASSUME Handover, [Next]_vars PROVE Handover'
  OBVIOUS
<1>1. CASE UNCHANGED <<main, sys, upgrading>>
  BY <1>1 DEF Handover, Busy
<1>2. CASE Read
  <2>1. CASE main' = "publish"
    <3>1. ~upgrading
      BY <1>2, <2>1, Zenon DEF Read, Takes
    <3>. QED
      BY <1>2, <3>1 DEF Read, sysVars, Handover, Busy
  <2>. QED
    BY <1>2, <2>1 DEF Read, sysVars, Handover, Busy
<1>3. CASE Publish
  BY <1>3 DEF Publish, sysVars, Handover, Busy
<1>4. ASSUME NEW d, TimerRun(d) PROVE Handover'
  BY <1>4 DEF TimerRun, sysVars, cmdVars, Handover, Busy
<1>5. CASE Fire \/ Fired \/ Leave \/ Close \/ Join
  BY <1>5 DEF Fire, Fired, Leave, Close, Join, sysVars, cmdVars, Handover, Busy
<1>6. CASE SysStep
  BY <1>6 DEF SysStep, SysIdle, Accept, Execute, Result, Clear, mainVars, cmdVars, Handover, Busy
<1>7. CASE (\E c \in Command : Receive(c)) \/ Send \/ Quit
  BY <1>7, <1>1 DEF Receive, Send, Quit, mainVars, sysVars, cmdVars
<1>8. CASE TimePasses \/ TimeStands \/ TimeIsSet
  BY <1>8, <1>4 DEF TimePasses, TimeStands, TimeIsSet
<1>9. CASE UNCHANGED vars
  BY <1>9, <1>1 DEF vars, mainVars, sysVars, cmdVars
<1>. QED
  BY <1>2, <1>3, <1>5, <1>6, <1>7, <1>8, <1>9 DEF Next, MainStep

\* While the sys thread answers and runs a command, upginfo and svrip do not change:
\* the main thread tests upgrading before it copies, and the flag is set after the
\* copy and cleared after the last use (upgcli_process, upgcli_dosys).
LEMMA UpginfoStep == Handover /\ [Next]_vars => (Busy => UNCHANGED upginfo)
<1>. SUFFICES ASSUME Handover, [Next]_vars, Busy PROVE UNCHANGED upginfo
  OBVIOUS
<1>1. upgrading
  BY DEF Handover
<1>2. CASE Read
  BY <1>1, <1>2, Zenon DEF Read, Takes
<1>3. ASSUME NEW d, TimerRun(d) PROVE UNCHANGED upginfo
  BY <1>3 DEF TimerRun, cmdVars
<1>4. CASE Publish \/ Fire \/ Fired \/ Leave \/ Close \/ Join
  BY <1>4 DEF Publish, Fire, Fired, Leave, Close, Join, cmdVars
<1>5. CASE SysStep
  BY <1>5 DEF SysStep, SysIdle, Accept, Execute, Result, Clear, cmdVars
<1>6. CASE (\E c \in Command : Receive(c)) \/ Send \/ Quit
  BY <1>6 DEF Receive, Send, Quit, cmdVars
<1>7. CASE TimePasses \/ TimeStands \/ TimeIsSet
  BY <1>7, <1>3 DEF TimePasses, TimeStands, TimeIsSet
<1>8. CASE UNCHANGED vars
  BY <1>8 DEF vars, cmdVars
<1>. QED
  BY <1>2, <1>4, <1>5, <1>6, <1>7, <1>8 DEF Next, MainStep

THEOREM UpginfoStays == Spec => [][Busy => UNCHANGED upginfo]_vars
<1>1. Spec => []Handover
  BY HandoverInit, HandoverStep, PTL DEF Spec
<1>2. Handover /\ [Next]_vars => [Busy => UNCHANGED upginfo]_vars
  BY UpginfoStep
<1>. QED
  BY <1>1, <1>2, PTL DEF Spec
-----------------------------------------------------------------------------
LEMMA TypeInit == Init => TypeOK
<1>. SUFFICES ASSUME Init PROVE TypeOK
  OBVIOUS
<1>1. /\ timer \in {Nil, 0, 1} /\ asked \in {Nil} \cup Command
      /\ upginfo \in {Nil} \cup {Decoded(c) : c \in Command}
  BY Zenon DEF Init
<1>2. rq \in Seq(Command)
  BY DEF Init
<1>. QED
  BY <1>1, <1>2, Zenon DEF Init, TypeOK

LEMMA TypeStep == TypeOK /\ TInv /\ [Next]_vars => TypeOK'
<1>. SUFFICES ASSUME TypeOK, TInv, [Next]_vars PROVE TypeOK'
  OBVIOUS
<1>. USE DEF TypeOK
<1>1. CASE Read
  <2>1. CASE rq = <<>>
    BY <1>1, <2>1 DEF Read, sysVars, envVars
  <2>2. CASE rq # <<>>
    <3>1. Head(rq) \in Command /\ Tail(rq) \in Seq(Command)
      BY <2>2
    <3>2. /\ upginfo' \in {upginfo, Decoded(Head(rq))} /\ main' \in {"publish", "timer"}
          /\ asked' \in {asked, Head(rq)}
      BY <1>1, <2>2 DEF Read
    <3>3. rq' = Tail(rq)
      BY <1>1, <2>2 DEF Read
    <3>4. UNCHANGED <<sys, timer, upgrading, flag, running>>
      BY <1>1 DEF Read, sysVars, envVars
    <3>. QED
      BY <3>1, <3>2, <3>3, <3>4
  <2>. QED
    BY <2>1, <2>2
<1>2. CASE Publish
  BY <1>2 DEF Publish, sysVars, envVars
<1>3. ASSUME NEW d, TimerRun(d) PROVE TypeOK'
  BY <1>3 DEF TimerRun, sysVars, cmdVars
<1>4. CASE Fire
  <2>1. UNCHANGED <<main, sys, rq, upgrading, flag, running, upginfo, asked>>
    BY <1>4 DEF Fire, sysVars, cmdVars, envVars
  <2>2. timer' \in {Nil, 0, 1}
    <3>1. main = "fire" /\ ut # <<>> /\ Rearm(1 - Head(ut).id)
      BY <1>4 DEF Fire, Due
    <3>2. PICK x \in Int : timer \in {0, 1} /\ ut = One(timer, x)
      BY <3>1 DEF TInv, Looping
    <3>3. Head(ut).id = timer
      BY <3>2, PopOne
    <3>4. 1 - timer \in {0, 1}
      BY <3>2
    <3>. QED
      BY <3>1, <3>3, <3>4, Zenon DEF Rearm
  <2>. QED
    BY <2>1, <2>2
<1>5. CASE Fired \/ Leave \/ Close
  BY <1>5 DEF Fired, Leave, Close, sysVars, cmdVars, envVars
<1>6. CASE Join
  BY <1>6 DEF Join, cmdVars, envVars
<1>7. CASE SysStep
  BY <1>7 DEF SysStep, SysIdle, Accept, Execute, Result, Clear, mainVars, cmdVars, envVars
<1>8. ASSUME NEW c \in Command, Receive(c) PROVE TypeOK'
  BY <1>8 DEF Receive, mainVars, sysVars, cmdVars
<1>9. CASE Send
  BY <1>9 DEF Send, mainVars, cmdVars, envVars
<1>10. CASE Quit
  BY <1>10 DEF Quit, mainVars, sysVars, cmdVars
<1>11. CASE TimePasses \/ TimeStands \/ TimeIsSet
  BY <1>11, <1>3 DEF TimePasses, TimeStands, TimeIsSet
<1>12. CASE UNCHANGED vars
  BY <1>12 DEF vars, mainVars, sysVars, cmdVars, envVars
<1>. QED
  BY <1>1, <1>2, <1>4, <1>5, <1>6, <1>7, <1>8, <1>9, <1>10, <1>11, <1>12 DEF Next, MainStep

\* The variables hold what the program can put into them: upginfo is NULL or a command
\* with its versions cut to 8 bits, timer a live address or NULL.
THEOREM TypeCorrect == Spec => []TypeOK
BY TInvInit, TInvStep, TypeInit, TypeStep, PTL DEF Spec
-----------------------------------------------------------------------------
(* The replies. *)

Codes == {0, 253, 254}
Cmds  == {Decoded(c) : c \in Command}
Note(c, kind, code) == [to |-> c.from, cmd |-> c.cmd, ver |-> c.ver, kind |-> kind, code |-> code]
Notes == {Note(c, kind, code) : c \in Cmds, kind \in {"accept", "result"}, code \in Codes}
Runs  == {[cmd |-> c.cmd, ver |-> c.ver, code |-> x] : c \in Cmds, x \in Codes}

\* A datagram as upg_info keeps it.
Kept(i) == Decoded(taken[i])
Answers(i) ==
  <<Note(Kept(i), "accept", 0)>> \o IF Kept(i).cmd # "reboot" /\ i <= Len(ran)
                                    THEN <<Note(Kept(i), "result", ran[i].code)>> ELSE <<>>

RTypes ==
  /\ taken \in Seq(Command) /\ ran \in Seq(Runs) /\ tq \in Seq(Notes) /\ sent \in Seq(Notes)
  /\ result \in Codes
  /\ main = "publish" => asked \in Command /\ upginfo = Decoded(asked)

\* The sys thread stops when the main thread waits for it, and the queues go after that.
Ending ==
  /\ flag <=> main \notin {"join", "done"}
  /\ sys = "stopped" => ~flag
  /\ main = "done" => sys = "stopped"

\* The last datagram accepted is in upginfo, decoded, as long as the flag is set.
Held == upgrading => taken # <<>> /\ upginfo = Kept(Len(taken))

\* It is the only one that has not been run, and nothing else is missing.
Waiting == upgrading /\ sys \in {"idle", "accept", "stopped"}
Counted == Len(taken) = Len(ran) + IF Waiting \/ sys = "exec" THEN 1 ELSE 0
AsKept == \A i \in DOMAIN ran : ran[i].cmd = Kept(i).cmd /\ ran[i].ver = Kept(i).ver
LastRun == sys = "result" => ran # <<>> /\ ran[Len(ran)].code = result

\* What has been answered at each place of the sys thread.
Wire ==
  main # "done" =>
    sent \o tq = IF Waiting THEN Replies(Len(ran))
                 ELSE IF sys = "result" THEN Replies(Len(ran) - 1) \o <<Note(upginfo, "accept", 0)>>
                 ELSE Replies(Len(taken))

RInv == RTypes /\ Ending /\ Handover /\ Held /\ Counted /\ AsKept /\ LastRun /\ Wire

\* Decoding keeps the server and the command, and the low 8 bits of the version.
LEMMA DecodedIs ==
  ASSUME NEW c \in Command
  PROVE  /\ Decoded(c) \in Cmds
         /\ Decoded(c).from = c.from /\ Decoded(c).cmd = c.cmd /\ Decoded(c).ver = c.ver % 256
<1>1. Decoded(c) \in Cmds
  BY DEF Cmds
<1>2. c = [from |-> c.from, cmd |-> c.cmd, ver |-> c.ver]
  BY DEF Command
<1>3. /\ [c EXCEPT !.ver = @ % 256].from = c.from /\ [c EXCEPT !.ver = @ % 256].cmd = c.cmd
      /\ [c EXCEPT !.ver = @ % 256].ver = c.ver % 256
  BY <1>2
<1> QED
  BY <1>1, <1>3 DEF Decoded

\* Putting replies together is associative.
LEMMA NotesAssociative ==
  ASSUME NEW a \in Seq(Notes), NEW b \in Seq(Notes), NEW c \in Seq(Notes)
  PROVE  (a \o b) \o c = a \o (b \o c)
BY ConcatAssociative

\* One more command, and its answers follow the replies so far.
LEMMA RepliesNext ==
  ASSUME NEW n \in Nat
  PROVE  Replies(n + 1) = Replies(n) \o Answers(n + 1) /\ Replies(0) = <<>>
<1> DEFINE F(m) == [i \in 1 .. m |-> Answers(i)]
<1>1. \A m : Replies(m) = FlattenSeq(F(m))
  BY DEF Replies, Answers, Kept, Note
<1>2. Replies(0) = <<>>
  <2>1. F(0) = <<>> /\ Len(<<>>) = 0
    OBVIOUS
  <2> QED
    BY <1>1, <2>1 DEF FlattenSeq
<1>3. /\ Len(F(n)) = n /\ Len(F(n + 1)) = n + 1 /\ F(n + 1)[n + 1] = Answers(n + 1)
      /\ \A i \in 1 .. n : F(n + 1)[i] = F(n)[i]
  OBVIOUS
<1> DEFINE s == F(n)
           t == F(n + 1)
<1>4. FlattenSeq(t) = IF n = 0 THEN Answers(n + 1) ELSE FlattenSeq(s) \o Answers(n + 1)
  <2>1. Len(s) = n /\ Len(t) = n + 1 /\ \A i \in 1 .. n : t[i] = s[i]
    BY <1>3
  <2>2. t[n + 1] = Answers(n + 1)
    BY <1>3
  <2> HIDE DEF s, t
  <2>3. FlattenSeq(t) = IF n = 0 THEN t[1] ELSE FlattenSeq(s) \o t[n + 1]
    BY <2>1, FlattenAppend
  <2> QED
    BY <2>2, <2>3
<1> HIDE DEF F
<1>5. <<>> \o Answers(n + 1) = Answers(n + 1)
  <2> DEFINE x == Note(Kept(n + 1), "accept", 0)
             y == Note(Kept(n + 1), "result", ran[n + 1].code)
  <2>1. Answers(n + 1) \in Seq({x, y})
    <3> HIDE DEF x, y
    <3>1. <<x>> \in Seq({x, y}) /\ <<y>> \in Seq({x, y}) /\ <<>> \in Seq({x, y})
      OBVIOUS
    <3> QED
      BY <3>1, ConcatProperties DEF Answers, x, y
  <2> QED
    BY <2>1, ConcatEmptySeq
<1> QED
  BY <1>1, <1>2, <1>4, <1>5

LEMMA RepliesSame ==
  ASSUME NEW n \in Nat, \A i \in 1 .. n : Answers(i)' = Answers(i)
  PROVE  Replies(n)' = Replies(n)
<1> DEFINE F == [i \in 1 .. n |-> Answers(i)]
<1>1. Replies(n) = FlattenSeq(F)
  BY DEF Replies, Answers, Kept, Note
<1>2. Replies(n)' = FlattenSeq(F')
  BY DEF Replies, Answers, Kept, Note
<1>3. F' = F
  OBVIOUS
<1> QED
  BY <1>1, <1>2, <1>3

LEMMA NoteType ==
  ASSUME NEW c \in Cmds, NEW kind \in {"accept", "result"}, NEW code \in Codes
  PROVE  Note(c, kind, code) \in Notes /\ <<Note(c, kind, code)>> \in Seq(Notes)
BY DEF Notes

LEMMA RunCode == ASSUME RTypes, NEW i \in 1 .. Len(ran) PROVE ran[i].code \in Codes
<1>1. ran[i] \in Runs
  BY DEF RTypes
<1> QED
  BY <1>1 DEF Runs

LEMMA AnswersType ==
  ASSUME RTypes, NEW i \in 1 .. Len(taken)
  PROVE  Answers(i) \in Seq(Notes)
<1>1. Kept(i) \in Cmds /\ 0 \in Codes
  BY DecodedIs DEF RTypes, Kept, Codes
<1>2. <<Note(Kept(i), "accept", 0)>> \in Seq(Notes)
  BY <1>1, NoteType
<1>3. i <= Len(ran) => <<Note(Kept(i), "result", ran[i].code)>> \in Seq(Notes)
  <2>1. SUFFICES ASSUME i <= Len(ran) PROVE <<Note(Kept(i), "result", ran[i].code)>> \in Seq(Notes)
    OBVIOUS
  <2>2. i \in 1 .. Len(ran)
    BY <2>1 DEF RTypes
  <2> QED
    BY <1>1, <2>2, RunCode, NoteType
<1>4. <<>> \in Seq(Notes)
  OBVIOUS
<1> QED
  BY <1>2, <1>3, <1>4, ConcatProperties DEF Answers

LEMMA RepliesType == ASSUME RTypes, NEW n \in 0 .. Len(taken) PROVE Replies(n) \in Seq(Notes)
<1> DEFINE T == {k \in Nat : k <= Len(taken) => Replies(k) \in Seq(Notes)}
<1>1. 0 \in T
  <2>1. Replies(0) = <<>> /\ <<>> \in Seq(Notes)
    BY RepliesNext
  <2> QED
    BY <2>1
<1>2. ASSUME NEW k \in Nat, k \in T PROVE k + 1 \in T
  <2>1. SUFFICES ASSUME k + 1 <= Len(taken) PROVE Replies(k + 1) \in Seq(Notes)
    OBVIOUS
  <2>2. Len(taken) \in Nat
    BY DEF RTypes
  <2>3. k <= Len(taken) /\ k + 1 \in 1 .. Len(taken)
    BY <2>1, <2>2
  <2> QED
    BY <1>2, <2>3, RepliesNext, AnswersType, ConcatProperties
<1> HIDE DEF T
<1>3. n \in Nat
  BY DEF RTypes
<1>4. n \in T
  BY <1>1, <1>2, <1>3, NatSet
<1> QED
  BY <1>4 DEF T, RTypes

\* A step of the network or of the main thread that has no part in the answers.
LEMMA RInvSame ==
  ASSUME RInv, UNCHANGED <<upgrading, upginfo, asked, taken, sys, result, ran, tq, sent>>,
         main' = "publish" => main = "publish", main = "done" => main' = "done", Ending'
  PROVE  RInv'
<1>1. RTypes' /\ Handover' /\ Held' /\ AsKept' /\ LastRun'
  BY DEF RInv, RTypes, Handover, Busy, Held, Kept, AsKept, LastRun
<1>2. Waiting' = Waiting /\ Counted'
  BY DEF RInv, Waiting, Counted
<1>3. ASSUME NEW n PROVE Replies(n)' = Replies(n)
  BY DEF Replies
<1>4. Wire'
  <2>1. SUFFICES ASSUME main # "done" PROVE Wire'
    BY DEF Wire
  <2>2. Note(upginfo, "accept", 0)' = Note(upginfo, "accept", 0)
    BY DEF Note
  <2>3. (sent \o tq)' = sent \o tq /\ (Len(ran) - 1)' = Len(ran) - 1
    OBVIOUS
  <2>4. /\ Replies(Len(ran))' = Replies(Len(ran)) /\ Replies(Len(ran) - 1)' = Replies(Len(ran) - 1)
        /\ Replies(Len(taken))' = Replies(Len(taken))
    BY <1>3
  <2> QED
    BY <1>2, <2>1, <2>2, <2>3, <2>4 DEF RInv, Wire
<1> QED
  BY <1>1, <1>2, <1>4 DEF RInv

LEMMA EndingStep == ASSUME RInv, [Next]_vars PROVE Ending'
<1>1. ASSUME UNCHANGED <<main, sys, flag>> PROVE Ending'
  BY <1>1 DEF RInv, Ending
<1>2. ASSUME NEW d, TimerRun(d) PROVE Ending'
  BY <1>2 DEF TimerRun, sysVars, RInv, Ending
<1>3. CASE Read \/ Publish \/ Fire \/ Fired \/ Leave \/ Close \/ Join
  BY <1>3 DEF Read, Publish, Fire, Fired, Leave, Close, Join, sysVars, RInv, Ending
<1>4. CASE SysStep
  BY <1>4 DEF SysStep, SysIdle, Accept, Execute, Result, Clear, mainVars, RInv, Ending
<1>5. CASE (\E c \in Command : Receive(c)) \/ Send \/ Quit
  BY <1>5, <1>1 DEF Receive, Send, Quit, mainVars, sysVars
<1>6. CASE TimePasses \/ TimeStands \/ TimeIsSet
  BY <1>6, <1>2 DEF TimePasses, TimeStands, TimeIsSet
<1>7. CASE UNCHANGED vars
  BY <1>7, <1>1 DEF vars, mainVars, sysVars
<1> QED
  BY <1>3, <1>4, <1>5, <1>6, <1>7 DEF Next, MainStep

\* upgcli_process: what it copies is a command, and none is being run.
LEMMA ReadStep == ASSUME RInv, TypeOK, Read, Ending' PROVE RInv'
<1>1. UNCHANGED <<upgrading, taken, sys, result, ran, tq, sent>> /\ main = "read"
  BY DEF Read, sysVars
<1>2. CASE main' # "publish"
  <2>1. upginfo' = upginfo /\ asked' = asked /\ main' = "timer"
    BY <1>2 DEF Read
  <2> QED
    BY <1>1, <2>1, RInvSame
<1>3. CASE main' = "publish"
  <2>1. rq # <<>> /\ Takes(Head(rq)) /\ upginfo' = Decoded(Head(rq)) /\ asked' = Head(rq)
    BY <1>3 DEF Read
  <2>2. Head(rq) \in Command
    BY <2>1 DEF TypeOK
  <2>3. asked' \in Command /\ upginfo' = Decoded(asked') /\ ~upgrading
    <3>1. asked' \in Command /\ upginfo' = Decoded(asked')
      BY <2>1, <2>2
    <3>2. ~upgrading
      BY <2>1, Zenon DEF Takes
    <3> QED
      BY <3>1, <3>2
  <2>4. ~Busy /\ ~Waiting
    BY <2>3 DEF RInv, Handover, Waiting
  <2>5. RTypes' /\ Handover' /\ Held' /\ AsKept' /\ LastRun'
    BY <1>1, <2>3, <2>4 DEF RInv, RTypes, Handover, Busy, Held, Kept, AsKept, LastRun
  <2>6. Waiting' = Waiting /\ Counted'
    BY <1>1 DEF RInv, Waiting, Counted
  <2>7. Replies(Len(taken))' = Replies(Len(taken))
    BY <1>1 DEF Replies
  <2>8. sent \o tq = Replies(Len(taken))
    BY <1>1, <2>4 DEF RInv, Wire, Busy
  <2>9. Wire'
    BY <1>1, <2>4, <2>6, <2>7, <2>8 DEF Wire, Busy
  <2> QED
    BY <2>5, <2>6, <2>9 DEF RInv
<1> QED
  BY <1>2, <1>3

LEMMA PublishStep == ASSUME RInv, TypeOK, Publish, Ending' PROVE RInv'
<1>1. /\ UNCHANGED <<upginfo, asked, sys, result, ran, tq, sent>> /\ main = "publish" /\ main' = "timer"
      /\ upgrading' = TRUE /\ taken' = Append(taken, asked)
  BY DEF Publish, sysVars
<1>2. /\ ~upgrading /\ ~Busy /\ sys # "stopped" /\ asked \in Command /\ taken \in Seq(Command)
      /\ upginfo = Decoded(asked)
  BY <1>1 DEF RInv, Handover, Ending, RTypes
<1>3. /\ taken' \in Seq(Command) /\ Len(taken') = Len(taken) + 1 /\ Len(taken) \in Nat
      /\ \A i \in 1 .. Len(taken) : taken'[i] = taken[i]
      /\ taken'[Len(taken) + 1] = asked /\ taken' # <<>>
  BY <1>1, <1>2, AppendProperties
<1>4. Len(ran) = Len(taken) /\ sent \o tq = Replies(Len(taken))
  BY <1>1, <1>2 DEF RInv, Counted, Wire, Waiting, Busy
<1>5. Replies(Len(ran))' = Replies(Len(taken))
  <2>1. \A i \in 1 .. Len(taken) : Answers(i)' = Answers(i)
    BY <1>1, <1>3 DEF Answers, Kept, Note
  <2>2. ASSUME NEW n \in Nat, n = Len(taken) PROVE Replies(n)' = Replies(n)
    BY <2>1, <2>2, RepliesSame
  <2>3. ASSUME NEW n \in Nat, n = Len(taken) PROVE Replies(Len(ran))' = Replies(n)'
    BY <1>1, <1>4, <2>3 DEF Replies
  <2> QED
    BY <1>3, <2>2, <2>3
<1>6. sys = "idle" /\ Waiting'
  <2>1. sys = "idle"
    BY <1>2 DEF TypeOK, Busy
  <2> QED
    BY <1>1, <2>1 DEF Waiting
<1>7. Len(ran) \in Nat /\ DOMAIN ran = 1 .. Len(ran)
  BY DEF RInv, RTypes
<1>8. AsKept'
  BY <1>1, <1>3, <1>4, <1>7 DEF RInv, AsKept, Kept
<1>9. RTypes' /\ Handover' /\ Held' /\ Counted' /\ LastRun'
  <2>1. RTypes'
    BY <1>1, <1>3 DEF RInv, RTypes
  <2>2. Handover' /\ LastRun'
    BY <1>1, <1>6 DEF Handover, Busy, LastRun
  <2>3. Held'
    BY <1>1, <1>2, <1>3 DEF Held, Kept
  <2>4. Counted'
    BY <1>1, <1>3, <1>4, <1>6 DEF Counted
  <2> QED
    BY <2>1, <2>2, <2>3, <2>4
<1>10. Wire'
  BY <1>1, <1>4, <1>5, <1>6 DEF Wire
<1> QED
  BY <1>8, <1>9, <1>10 DEF RInv

\* The end: the queues go with the program.
LEMMA JoinStep == ASSUME RInv, Join, Ending' PROVE RInv'
<1>1. UNCHANGED <<upgrading, upginfo, asked, taken, sys, result, ran, sent>> /\ tq' = <<>> /\ main' = "done"
  BY DEF Join, cmdVars
<1>2. <<>> \in Seq(Notes)
  OBVIOUS
<1>3. RTypes' /\ Handover' /\ Held' /\ AsKept' /\ LastRun'
  BY <1>1, <1>2 DEF RInv, RTypes, Handover, Busy, Held, Kept, AsKept, LastRun
<1>4. Counted' /\ Wire'
  BY <1>1 DEF RInv, Counted, Waiting, Wire
<1> QED
  BY <1>3, <1>4 DEF RInv

\* adapter_udp_dosnd: what is sent leaves the queue.
LEMMA SendStep == ASSUME RInv, Send, Ending' PROVE RInv'
<1>1. /\ UNCHANGED <<upgrading, upginfo, asked, taken, sys, result, ran, main>>
      /\ tq # <<>> /\ tq' = Tail(tq) /\ sent' = Append(sent, Head(tq))
  BY DEF Send, cmdVars, mainVars
<1>2. tq \in Seq(Notes) /\ sent \in Seq(Notes)
  BY DEF RInv, RTypes
<1>3. Head(tq) \in Notes /\ Tail(tq) \in Seq(Notes) /\ tq = <<Head(tq)>> \o Tail(tq)
  BY <1>1, <1>2
<1>4. sent' = sent \o <<Head(tq)>> /\ sent' \in Seq(Notes) /\ <<Head(tq)>> \in Seq(Notes)
  BY <1>1, <1>2, <1>3, AppendIsConcat
<1>5. (sent \o tq)' = sent \o tq
  <2>1. (sent \o <<Head(tq)>>) \o Tail(tq) = sent \o (<<Head(tq)>> \o Tail(tq))
    BY <1>2, <1>3, <1>4, ConcatAssociative
  <2> QED
    BY <1>1, <1>3, <1>4, <2>1
<1>6. RTypes' /\ Handover' /\ Held' /\ AsKept' /\ LastRun'
  BY <1>1, <1>3, <1>4 DEF RInv, RTypes, Handover, Busy, Held, Kept, AsKept, LastRun
<1>7. Waiting' = Waiting /\ Counted'
  BY <1>1 DEF RInv, Waiting, Counted
<1>8. Wire'
  <2>1. \A n : Replies(n)' = Replies(n)
    BY <1>1 DEF Replies
  <2>2. /\ Replies(Len(ran))' = Replies(Len(ran)) /\ Replies(Len(ran) - 1)' = Replies(Len(ran) - 1)
        /\ Replies(Len(taken))' = Replies(Len(taken))
    BY <1>1 DEF Replies
  <2>3. Note(upginfo, "accept", 0)' = Note(upginfo, "accept", 0)
    BY <1>1 DEF Note
  <2> QED
    BY <1>1, <1>5, <1>7, <2>2, <2>3 DEF RInv, Wire
<1> QED
  BY <1>6, <1>7, <1>8 DEF RInv

-----------------------------------------------------------------------------
(* The sys thread. *)

LEMMA SysIdleStep == ASSUME RInv, SysIdle, Ending' PROVE RInv'
<1>1. /\ UNCHANGED <<upgrading, upginfo, asked, taken, main, result, ran, tq, sent>>
      /\ sys = "idle" /\ ((sys' = "accept" /\ upgrading) \/ sys' = "stopped")
  BY DEF SysIdle, cmdVars, mainVars
<1>2. Waiting' = Waiting /\ ~Busy /\ (Busy' => upgrading)
  BY <1>1 DEF Waiting, Busy
<1>3. RTypes' /\ Handover' /\ Held' /\ AsKept' /\ LastRun' /\ Counted'
  BY <1>1, <1>2 DEF RInv, RTypes, Handover, Held, Kept, AsKept, LastRun, Counted
<1>4. /\ Replies(Len(ran))' = Replies(Len(ran))
      /\ Replies(Len(taken))' = Replies(Len(taken))
  BY <1>1 DEF Replies
<1>5. Wire'
  BY <1>1, <1>2, <1>4 DEF RInv, Wire
<1> QED
  BY <1>3, <1>5 DEF RInv

\* Where the sys thread is at work, upginfo is the last command accepted.
LEMMA AtWork ==
  ASSUME RInv, upgrading \/ Busy
  PROVE  /\ upgrading /\ (Busy => main # "done") /\ upginfo \in Cmds /\ upginfo = Kept(Len(taken))
         /\ Len(taken) \in Nat \ {0} /\ Len(taken) \in 1 .. Len(taken) /\ Len(ran) \in Nat
         /\ Len(taken) - 1 \in 0 .. Len(taken)
         /\ Replies(Len(taken)) = Replies(Len(taken) - 1) \o Answers(Len(taken))
         /\ Replies(Len(taken) - 1) \in Seq(Notes) /\ Replies(Len(taken)) \in Seq(Notes)
         /\ sent \in Seq(Notes) /\ tq \in Seq(Notes)
<1>1. upgrading /\ taken # <<>> /\ taken \in Seq(Command) /\ upginfo = Kept(Len(taken))
  BY DEF RInv, Handover, Held, RTypes
<1>2. Len(taken) \in Nat \ {0} /\ upginfo \in Cmds
  <2>1. Len(taken) \in Nat \ {0} /\ taken[Len(taken)] \in Command
    BY <1>1, EmptySeq, LenProperties, ElementOfSeq
  <2> QED
    BY <1>1, <2>1, DecodedIs DEF Kept
<1>3. Busy => main # "done"
  BY DEF RInv, Ending, Busy
<1>4. /\ Len(taken) \in 1 .. Len(taken) /\ Len(taken) - 1 \in 0 .. Len(taken) /\ Len(taken) \in 0 .. Len(taken)
      /\ Len(taken) - 1 \in Nat /\ (Len(taken) - 1) + 1 = Len(taken)
  BY <1>2
<1>5. Replies(Len(taken)) = Replies(Len(taken) - 1) \o Answers(Len(taken))
  BY <1>4, RepliesNext
<1>6. Replies(Len(taken) - 1) \in Seq(Notes) /\ Replies(Len(taken)) \in Seq(Notes)
  BY <1>4, RepliesType DEF RInv
<1> QED
  BY <1>1, <1>2, <1>3, <1>4, <1>5, <1>6 DEF RInv, RTypes

LEMMA Queued ==
  ASSUME NEW s \in Seq(Notes), NEW t \in Seq(Notes), NEW x \in Notes
  PROVE  Append(t, x) \in Seq(Notes) /\ s \o Append(t, x) = (s \o t) \o <<x>>
<1>1. Append(t, x) = t \o <<x>> /\ Append(t, x) \in Seq(Notes) /\ <<x>> \in Seq(Notes)
  BY AppendIsConcat
<1> QED
  BY <1>1, ConcatAssociative

LEMMA AcceptStep == ASSUME RInv, Accept, Ending' PROVE RInv'
<1>1. /\ UNCHANGED <<upgrading, upginfo, asked, taken, main, result, ran, sent>>
      /\ sys = "accept" /\ sys' = "exec" /\ tq' = Append(tq, Note(upginfo, "accept", 0))
  BY DEF Accept, cmdVars, mainVars, Reply, Note
<1>2. Busy
  BY <1>1 DEF Busy
<1>3. Note(upginfo, "accept", 0) \in Notes
  BY <1>2, AtWork, NoteType DEF Codes
<1>4. tq' \in Seq(Notes) /\ (sent \o tq)' = (sent \o tq) \o <<Note(upginfo, "accept", 0)>>
  BY <1>1, <1>2, <1>3, AtWork, Queued
<1>5. Waiting /\ ~Waiting' /\ Len(taken) = Len(ran) + 1
  BY <1>1, <1>2, AtWork DEF RInv, Waiting, Counted
<1>6. Answers(Len(taken)) = <<Note(upginfo, "accept", 0)>>
  <2>1. ~(Len(taken) <= Len(ran))
    BY <1>2, <1>5, AtWork
  <2>2. <<Note(upginfo, "accept", 0)>> \o <<>> = <<Note(upginfo, "accept", 0)>>
    BY <1>2, <1>3, ConcatEmptySeq
  <2> QED
    BY <1>2, <2>1, <2>2, AtWork DEF Answers
<1>7. (sent \o tq)' = Replies(Len(taken))
  <2>1. sent \o tq = Replies(Len(ran)) /\ Len(ran) = Len(taken) - 1
    BY <1>2, <1>5, AtWork DEF RInv, Wire
  <2> QED
    BY <1>2, <1>4, <1>6, <2>1, AtWork
<1>8. Wire'
  <2>1. Replies(Len(taken))' = Replies(Len(taken))
    BY <1>1 DEF Replies
  <2> QED
    BY <1>1, <1>5, <1>7, <2>1 DEF Wire
<1>9. RTypes' /\ Handover' /\ Held' /\ AsKept' /\ LastRun' /\ Counted'
  BY <1>1, <1>4, <1>5 DEF RInv, RTypes, Handover, Busy, Held, Kept, AsKept, LastRun, Counted
<1> QED
  BY <1>8, <1>9 DEF RInv

\* The script runs with the command that is in upginfo.
LEMMA ExecuteStep == ASSUME RInv, Execute, Ending' PROVE RInv'
<1> DEFINE x == [cmd |-> upginfo.cmd, ver |-> upginfo.ver, code |-> result']
<1>1. /\ UNCHANGED <<upgrading, upginfo, asked, taken, main, tq, sent>>
      /\ sys = "exec" /\ sys' = "result" /\ ran' = Append(ran, x)
      /\ result' \in ScriptResults(upginfo.cmd)
  BY DEF Execute, cmdVars, mainVars
<1>2. Busy
  BY <1>1 DEF Busy
<1>3. result' \in Codes
  BY <1>1 DEF ScriptResults, Codes
<1>4. x \in Runs
  BY <1>2, <1>3, AtWork DEF Runs
<1>5. x.cmd = upginfo.cmd /\ x.ver = upginfo.ver /\ x.code = result'
  OBVIOUS
<1> HIDE DEF x
<1>6. /\ ran' \in Seq(Runs) /\ ran' # <<>> /\ Len(ran') = Len(ran) + 1
      /\ \A i \in 1 .. Len(ran) : ran'[i] = ran[i]
      /\ ran'[Len(ran) + 1] = x
      /\ DOMAIN ran' = 1 .. Len(ran') /\ DOMAIN ran = 1 .. Len(ran)
  <2>1. ran \in Seq(Runs) /\ ran' = Append(ran, x)
    BY <1>1 DEF RInv, RTypes
  <2>2. /\ Append(ran, x) \in Seq(Runs) /\ Append(ran, x) # <<>>
        /\ Len(Append(ran, x)) = Len(ran) + 1
        /\ \A i \in 1 .. Len(ran) : Append(ran, x)[i] = ran[i]
        /\ Append(ran, x)[Len(ran) + 1] = x
    BY <1>4, <2>1, AppendProperties
  <2>3. DOMAIN ran' = 1 .. Len(ran') /\ DOMAIN ran = 1 .. Len(ran)
    BY <2>1, <2>2, LenProperties
  <2> QED
    BY <2>1, <2>2, <2>3
<1>7. ~Waiting /\ ~Waiting' /\ Len(taken) = Len(ran) + 1 /\ Len(ran) \in Nat /\ Len(ran) = Len(taken) - 1
  BY <1>1, <1>2, AtWork DEF RInv, Waiting, Counted
<1>8. AsKept'
  <2>1. SUFFICES ASSUME NEW i \in 1 .. Len(ran) + 1
                 PROVE  ran'[i].cmd = Kept(i).cmd /\ ran'[i].ver = Kept(i).ver
    BY <1>1, <1>6 DEF AsKept, Kept
  <2>2. CASE i = Len(ran) + 1
    BY <1>2, <1>5, <1>6, <1>7, <2>2, AtWork
  <2>3. CASE i # Len(ran) + 1
    <3>1. i \in 1 .. Len(ran)
      BY <1>7, <2>3
    <3> QED
      BY <1>6, <3>1 DEF RInv, AsKept
  <2> QED
    BY <2>2, <2>3
<1>9. RTypes' /\ Handover' /\ Held' /\ LastRun' /\ Counted'
  BY <1>1, <1>3, <1>5, <1>6, <1>7 DEF RInv, RTypes, Handover, Busy, Held, Kept, LastRun, Counted
<1>10. sent \o tq = Replies(Len(ran)) \o <<Note(upginfo, "accept", 0)>>
  <2>1. sent \o tq = Replies(Len(taken))
    BY <1>1, <1>2, <1>7, AtWork DEF RInv, Wire
  <2>2. Answers(Len(taken)) = <<Note(upginfo, "accept", 0)>>
    <3>1. ~(Len(taken) <= Len(ran))
      BY <1>7
    <3>2. Note(upginfo, "accept", 0) \in Notes
      BY <1>2, AtWork, NoteType DEF Codes
    <3>3. <<Note(upginfo, "accept", 0)>> \o <<>> = <<Note(upginfo, "accept", 0)>>
      BY <3>2, ConcatEmptySeq
    <3> QED
      BY <1>2, <3>1, <3>3, AtWork DEF Answers
  <2> QED
    BY <1>2, <1>7, <2>1, <2>2, AtWork
<1>11. Replies(Len(ran) - 1)' = Replies(Len(ran))
  <2>1. \A i \in 1 .. Len(ran) : Answers(i)' = Answers(i)
    BY <1>1, <1>6, <1>7 DEF Answers, Kept, Note
  <2>2. ASSUME NEW n \in Nat, n = Len(ran) PROVE Replies(n)' = Replies(n)
    BY <2>1, <2>2, RepliesSame
  <2>3. ASSUME NEW n \in Nat, n = Len(ran) PROVE Replies(Len(ran) - 1)' = Replies(n)'
    BY <1>1, <1>6, <1>7, <2>3 DEF Replies
  <2> QED
    BY <1>7, <2>2, <2>3
<1>12. Wire'
  <2>1. Note(upginfo, "accept", 0)' = Note(upginfo, "accept", 0)
    BY <1>1 DEF Note
  <2> QED
    BY <1>1, <1>7, <1>10, <1>11, <2>1 DEF Wire
<1> QED
  BY <1>8, <1>9, <1>12 DEF RInv

LEMMA ResultStep == ASSUME RInv, Result, Ending' PROVE RInv'
<1>1. /\ UNCHANGED <<upgrading, upginfo, asked, taken, main, result, ran, sent>>
      /\ sys = "result" /\ sys' = "clear"
      /\ tq' = IF upginfo.cmd = "reboot" THEN tq ELSE Append(tq, Note(upginfo, "result", result))
  BY DEF Result, cmdVars, mainVars, Reply, Note
<1>2. Busy /\ ~Waiting /\ ~Waiting'
  BY <1>1 DEF Busy, Waiting
<1>3. Len(taken) = Len(ran) /\ ran[Len(ran)].code = result
  BY <1>1, <1>2, AtWork DEF RInv, Counted, LastRun
<1>4. /\ Note(upginfo, "accept", 0) \in Notes /\ Note(upginfo, "result", result) \in Notes
      /\ <<Note(upginfo, "accept", 0)>> \in Seq(Notes) /\ <<Note(upginfo, "result", result)>> \in Seq(Notes)
  BY <1>2, AtWork, NoteType DEF Codes, RInv, RTypes
<1>5. tq' \in Seq(Notes)
  BY <1>1, <1>2, <1>4, AtWork, Queued
<1>6. sent \o tq = Replies(Len(taken) - 1) \o <<Note(upginfo, "accept", 0)>>
  BY <1>1, <1>2, <1>3, AtWork DEF RInv, Wire
<1>7. (sent \o tq)' = Replies(Len(taken))
  <2>1. CASE upginfo.cmd = "reboot"
    <3>1. Answers(Len(taken)) = <<Note(upginfo, "accept", 0)>>
      BY <1>2, <1>4, <2>1, AtWork, ConcatEmptySeq DEF Answers
    <3> QED
      BY <1>1, <1>2, <1>6, <2>1, <3>1, AtWork
  <2>2. CASE upginfo.cmd # "reboot"
    <3>1. Answers(Len(taken)) = <<Note(upginfo, "accept", 0)>> \o <<Note(upginfo, "result", result)>>
      BY <1>2, <1>3, <2>2, AtWork DEF Answers
    <3>2. (sent \o tq)' = (sent \o tq) \o <<Note(upginfo, "result", result)>>
      BY <1>1, <1>2, <1>4, <2>2, AtWork, Queued
    <3> DEFINE before == Replies(Len(taken) - 1)
               x == <<Note(upginfo, "accept", 0)>>
               y == <<Note(upginfo, "result", result)>>
    <3>3. before \in Seq(Notes) /\ Replies(Len(taken)) = before \o (x \o y)
      BY <1>2, <3>1, AtWork
    <3>4. x \in Seq(Notes) /\ y \in Seq(Notes)
      BY <1>4
    <3>5. (sent \o tq)' = (before \o x) \o y
      BY <1>6, <3>2
    <3> HIDE DEF before, x, y
    <3> QED
      <4>1. (before \o x) \o y = before \o (x \o y)
        BY <3>3, <3>4, NotesAssociative
      <4> QED
        BY <3>3, <3>5, <4>1
  <2> QED
    BY <2>1, <2>2
<1>8. Wire'
  <2>1. Replies(Len(taken))' = Replies(Len(taken))
    BY <1>1 DEF Replies
  <2> QED
    BY <1>1, <1>2, <1>7, <2>1 DEF Wire
<1>9. RTypes' /\ Handover' /\ Held' /\ AsKept' /\ LastRun' /\ Counted'
  BY <1>1, <1>2, <1>5 DEF RInv, RTypes, Handover, Busy, Held, Kept, AsKept, LastRun, Counted
<1> QED
  BY <1>8, <1>9 DEF RInv

LEMMA ClearStep == ASSUME RInv, Clear, Ending' PROVE RInv'
<1>1. /\ UNCHANGED <<upginfo, asked, taken, main, result, ran, tq, sent>>
      /\ sys = "clear" /\ sys' = "idle" /\ upgrading' = FALSE
  BY DEF Clear, mainVars
<1>2. ~Waiting /\ ~Waiting'
  BY <1>1 DEF Waiting
<1>3. Replies(Len(taken))' = Replies(Len(taken))
  BY <1>1 DEF Replies
<1>4. Wire'
  BY <1>1, <1>2, <1>3 DEF RInv, Wire
<1>5. RTypes' /\ Handover' /\ Held' /\ AsKept' /\ LastRun' /\ Counted'
  BY <1>1, <1>2 DEF RInv, RTypes, Handover, Busy, Held, Kept, AsKept, LastRun, Counted
<1> QED
  BY <1>4, <1>5 DEF RInv
-----------------------------------------------------------------------------
LEMMA RInvInit == Init => RInv
<1> SUFFICES ASSUME Init PROVE RInv
  OBVIOUS
<1>1. Replies(0) = <<>>
  BY RepliesNext
<1>2. Len(<<>>) = 0 /\ <<>> \o <<>> = <<>>
  OBVIOUS
<1>3. Wire
  BY <1>1, <1>2 DEF Init, Wire, Waiting
<1>4. RTypes
  <2>1. taken = <<>> /\ ran = <<>> /\ tq = <<>> /\ sent = <<>> /\ result = 0 /\ main = "read"
    BY DEF Init
  <2>2. <<>> \in Seq(Cmds) /\ <<>> \in Seq(Runs) /\ <<>> \in Seq(Notes)
    OBVIOUS
  <2> QED
    BY <2>1, <2>2 DEF RTypes, Codes
<1>5. Ending /\ Handover /\ Held /\ Counted /\ AsKept /\ LastRun
  BY DEF Init, Ending, Handover, Busy, Held, Counted, Waiting, AsKept, LastRun
<1> QED
  BY <1>3, <1>4, <1>5 DEF RInv

LEMMA RInvStep == RInv /\ TypeOK /\ [Next]_vars => RInv'
<1> SUFFICES ASSUME RInv, TypeOK, [Next]_vars PROVE RInv'
  OBVIOUS
<1>0. Ending'
  BY EndingStep
<1>1. ASSUME NEW d, TimerRun(d) PROVE RInv'
  <2>1. /\ UNCHANGED <<upgrading, upginfo, asked, taken, sys, result, ran, tq, sent>>
        /\ main = "timer" /\ main' \in {"read", "fire"}
    BY <1>1 DEF TimerRun, sysVars, cmdVars
  <2> QED
    BY <1>0, <2>1, RInvSame
<1>2. CASE Fire \/ Fired \/ Leave \/ Close
  <2>1. /\ UNCHANGED <<upgrading, upginfo, asked, taken, sys, result, ran, tq, sent>>
        /\ main # "done" /\ main' # "publish"
    BY <1>2 DEF Fire, Fired, Leave, Close, sysVars, cmdVars
  <2> QED
    BY <1>0, <2>1, RInvSame
<1>3. CASE (\E c \in Command : Receive(c)) \/ Quit \/ UNCHANGED vars
  <2>1. UNCHANGED <<upgrading, upginfo, asked, taken, sys, result, ran, tq, sent, main>>
    BY <1>3 DEF Receive, Quit, vars, mainVars, sysVars, cmdVars
  <2> QED
    BY <1>0, <2>1, RInvSame
<1>4. CASE Read \/ Publish \/ Join \/ Send
  BY <1>0, <1>4, ReadStep, PublishStep, JoinStep, SendStep
<1>5. CASE SysStep
  BY <1>0, <1>5, SysIdleStep, AcceptStep, ExecuteStep, ResultStep, ClearStep DEF SysStep
<1>6. CASE TimePasses \/ TimeStands \/ TimeIsSet
  BY <1>1, <1>6 DEF TimePasses, TimeStands, TimeIsSet
<1> QED
  BY <1>2, <1>3, <1>4, <1>5, <1>6 DEF Next, MainStep

LEMMA PrefixConcat ==
  ASSUME NEW s \in Seq(Notes), NEW t \in Seq(Notes)
  PROVE  IsPrefix(s, s \o t)
<1>1. /\ s \o t \in Seq(Notes) /\ Len(s \o t) = Len(s) + Len(t) /\ Len(s) \in Nat /\ Len(t) \in Nat
      /\ \A i \in 1 .. Len(s) + Len(t) : (s \o t)[i] = IF i <= Len(s) THEN s[i] ELSE t[i - Len(s)]
  BY ConcatProperties
<1> DEFINE u == s \o t
<1>2. u \in Seq(Notes) /\ Len(s) <= Len(u) /\ \A i \in 1 .. Len(s) : i \in DOMAIN u /\ u[i] = s[i]
  BY <1>1
<1> HIDE DEF u
<1>3. SubSeq(s, 1, Len(s)) = [i \in 1 .. Len(s) |-> s[i]]
  BY <1>1
<1>4. SubSeq(u, 1, Len(s)) = [i \in 1 .. Len(s) |-> u[i]]
  BY <1>1, <1>2
<1>5. SubSeq(s, 1, Len(s)) = SubSeq(u, 1, Len(s))
  BY <1>2, <1>3, <1>4
<1>6. IsPrefix(s, u)
  BY <1>2, <1>5 DEF IsPrefix
<1> QED
  BY <1>6 DEF u

LEMMA RInvImplies == ASSUME RInv, TypeOK PROVE RepliesInStep
<1>1. /\ taken \in Seq(Command) /\ ran \in Seq(Runs) /\ Len(taken) \in Nat /\ Len(ran) \in Nat
      /\ sent \in Seq(Notes) /\ tq \in Seq(Notes) /\ sent \o tq \in Seq(Notes)
  BY ConcatProperties, LenProperties DEF RInv, RTypes
<1>2. Len(ran) <= Len(taken)
  BY <1>1 DEF RInv, Counted
<1>3. ~upgrading => Len(ran) = Len(taken) /\ (main # "done" => sent \o tq = Replies(Len(taken)))
  BY DEF RInv, Handover, Busy, Counted, Waiting, Wire
<1>4. ASSUME main # "done" PROVE IsPrefix(sent \o tq, Replies(Len(taken)))
  <2>1. CASE Waiting
    <3>1. upgrading
      BY <2>1 DEF Waiting
    <3>2. sent \o tq = Replies(Len(taken) - 1)
      <4>1. Len(ran) = Len(taken) - 1
        BY <1>1, <2>1 DEF RInv, Counted
      <4> QED
        BY <1>4, <2>1, <4>1 DEF RInv, Wire
    <3>3. /\ Replies(Len(taken)) = (sent \o tq) \o Answers(Len(taken))
          /\ Answers(Len(taken)) \in Seq(Notes)
      BY <3>1, <3>2, AtWork, AnswersType DEF RInv
    <3> QED
      BY <1>1, <3>3, PrefixConcat
  <2>2. CASE sys = "result"
    <3>1. ~Waiting /\ Busy
      BY <2>2 DEF Waiting, Busy
    <3>2. Len(ran) = Len(taken)
      BY <1>1, <2>2, <3>1 DEF RInv, Counted
    <3>3. Note(upginfo, "accept", 0) \in Notes /\ Note(upginfo, "result", result) \in Notes
      BY <3>1, AtWork, NoteType DEF Codes, RInv, RTypes
    <3> DEFINE before == Replies(Len(taken) - 1)
               x == <<Note(upginfo, "accept", 0)>>
               y == IF upginfo.cmd # "reboot" THEN <<Note(upginfo, "result", result)>> ELSE <<>>
    <3>4. sent \o tq = before \o x
      BY <1>4, <2>2, <3>1, <3>2 DEF RInv, Wire
    <3>5. x \in Seq(Notes) /\ y \in Seq(Notes)
      BY <3>3
    <3>6. Answers(Len(taken)) = x \o y
      <4>1. ran[Len(taken)].code = result /\ Len(taken) <= Len(ran) /\ upginfo = Kept(Len(taken))
        BY <1>1, <2>2, <3>1, <3>2, AtWork DEF RInv, LastRun
      <4> QED
        BY <4>1 DEF Answers
    <3>7. before \in Seq(Notes) /\ Replies(Len(taken)) = before \o Answers(Len(taken))
      BY <3>1, AtWork
    <3> HIDE DEF before, x, y
    <3>8. Replies(Len(taken)) = (before \o x) \o y /\ before \o x \in Seq(Notes)
      <4>1. (before \o x) \o y = before \o (x \o y)
        BY <3>5, <3>7, NotesAssociative
      <4>2. before \o x \in Seq(Notes)
        BY <3>5, <3>7, ConcatProperties
      <4> QED
        BY <3>6, <3>7, <4>1, <4>2
    <3> QED
      BY <3>4, <3>5, <3>8, PrefixConcat
  <2>3. CASE ~Waiting /\ sys # "result"
    <3>1. sent \o tq = Replies(Len(taken))
      BY <1>4, <2>3 DEF RInv, Wire
    <3>2. <<>> \in Seq(Notes) /\ (sent \o tq) \o <<>> = sent \o tq
      BY <1>1, ConcatEmptySeq
    <3>3. IsPrefix(sent \o tq, (sent \o tq) \o <<>>)
      BY <1>1, <3>2, PrefixConcat
    <3> QED
      BY <3>1, <3>2, <3>3
  <2> QED
    BY <2>1, <2>2, <2>3
<1>5. ASSUME NEW i \in DOMAIN ran PROVE ran[i].cmd = taken[i].cmd /\ ran[i].ver = taken[i].ver % 256
  <2>1. i \in 1 .. Len(taken) /\ taken[i] \in Command
    <3>1. i \in 1 .. Len(ran)
      BY <1>1, <1>5
    <3>2. i \in 1 .. Len(taken)
      BY <1>1, <1>2, <3>1
    <3> QED
      BY <1>1, <3>2
  <2>2. ran[i].cmd = Kept(i).cmd /\ ran[i].ver = Kept(i).ver
    BY DEF RInv, AsKept
  <2> QED
    BY <2>1, <2>2, DecodedIs DEF Kept
<1> QED
  BY <1>2, <1>3, <1>4, <1>5 DEF RepliesInStep

\* Each datagram that was accepted is run once, with the low 8 bits of its version, and its
\* accept and its result go to the server that asked, in this order and once each, for all
\* servers, versions and numbers of datagrams (upgcli_process, upgcli_dosys,
\* adapter_udp_dosnd).  That the version is the one asked for does not hold: UpgradeKept.
THEOREM RepliesAreInStep == Spec => []RepliesInStep
<1>1. RInv /\ TypeOK => RepliesInStep
  BY RInvImplies
<1> QED
  BY <1>1, TypeCorrect, RInvInit, RInvStep, PTL DEF Spec
=============================================================================
