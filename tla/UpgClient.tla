------------------------------ MODULE UpgClient ------------------------------
(***************************************************************************)
(* The upgrade client of a board (app/ugclient/upgcli.c) with its UDP       *)
(* adapters (lch/adapter/adapter_udp.c), its timer (UTimer) and the script  *)
(* it runs (app/ugclient/upg.sh).                                           *)
(*                                                                          *)
(* The main thread takes commands from the control port and puts one at a   *)
(* time into upginfo, svrip and svrport; the flag upgrading gives these to  *)
(* the sys thread, which answers "accept", runs the command and answers     *)
(* with its result.  A command that comes meanwhile is dropped without an   *)
(* answer.  Every Period the timer callback sends a notification of the     *)
(* board to a multicast group, and is added again.  Datagrams may be lost,  *)
(* repeated or reordered: any command may come at any time.                 *)
(***************************************************************************)
EXTENDS UTimer

CONSTANTS
  Servers, Versions, \* who asks, and for which versions (16 bits)
  Period,   \* ticks between notifications (200 ms)
  MaxCmds,  \* bound: datagrams that reach the control port
  MaxSteps, \* bound: times the clock is set, by Step ticks
  Step,
  MaxFails, \* bound: allocations of a timer that fail
  Nil

ASSUME UpgAssumption ==
  /\ \A v \in Versions : v \in Nat /\ v <= 65535
  /\ Servers # {} /\ Nil \notin {0, 1}
  /\ Period \in Nat \ {0}
  /\ {MaxCmds, MaxSteps, Step, MaxFails} \subseteq Nat

VARIABLES
  running,            \* ap_is_running
  rq,                 \* control port: commands received
  main,               \* main thread: "read", "publish", "timer", "fire", "exit", "join", "done"
  ut, timer,          \* utimer, and the entry the client has in it
  upgrading, upginfo, \* upginfo holds svrip and svrport too
  asked,              \* history: the datagram that upginfo was decoded from
  flag, sys,          \* sys thread: "idle", "accept", "exec", "result", "clear", "stopped"
  result,
  tq,                 \* replies not sent yet
  came, steps, fails, \* counters for the bounds
  taken, ran, sent    \* history: datagrams accepted, commands run, replies on the wire

mainVars == <<main, ut, timer, fails>>
sysVars  == <<sys, result, ran, tq>>
cmdVars  == <<upgrading, upginfo, asked, taken>>
envVars  == <<running, came, steps>>
vars == <<mainVars, sysVars, cmdVars, envVars, rq, flag, sent>>

\* The datagrams a server sends; "other" stands for what is too short or unknown.
Command == [from : Servers, cmd : {"upgrade", "downgrade"}, ver : Versions]
             \cup [from : Servers, cmd : {"reboot", "other"}, ver : {0}]

\* upgcli_decode_msg: basever and appver of upg_info have 8 bits, those of the datagram 16.
Decoded(c) == [c EXCEPT !.ver = @ % 256]

\* system(upg.sh): it exits with 253 unless it has two arguments, and an upgrade has eight.
\* 254 is for a script that was killed; 255, when system fails, goes the same way.
Arguments(cmd) == IF cmd = "upgrade" THEN 8 ELSE 2
ScriptResults(cmd) ==
  {254, IF cmd # "reboot" /\ Arguments(cmd) # 2 THEN 253 ELSE 0}

TypeOK ==
  /\ main \in {"read", "publish", "timer", "fire", "exit", "join", "done"}
  /\ sys \in {"idle", "accept", "exec", "result", "clear", "stopped"}
  /\ timer \in {Nil, 0, 1}
  /\ rq \in Seq(Command)
  /\ upgrading \in BOOLEAN /\ flag \in BOOLEAN /\ running \in BOOLEAN
  /\ upginfo \in {Nil} \cup {Decoded(c) : c \in Command}
  /\ asked \in {Nil} \cup Command

Init ==
  /\ running = TRUE /\ rq = <<>> /\ main = "read"
  /\ ut = AddByOffset(Open, Period, 0) /\ timer = 0
  /\ upgrading = FALSE /\ upginfo = Nil /\ asked = Nil
  /\ flag = TRUE /\ sys = "idle" /\ result = 0
  /\ tq = <<>>
  /\ came = 0 /\ steps = 0 /\ fails = 0
  /\ taken = <<>> /\ ran = <<>> /\ sent = <<>>
-----------------------------------------------------------------------------
\* Mutant: a command is taken whether one is being run or not.
Takes_Busy(c) == c.cmd # "other"

\* upgcli_process: a command that can be decoded, when none is being run.
Takes(c) == ~upgrading /\ c.cmd # "other"

\* upgcli_run, one message: upginfo is copied, then upgrading is set.
Read ==
  /\ main = "read" /\ running
  /\ IF rq = <<>> THEN main' = "timer" /\ UNCHANGED <<rq, upginfo, asked>>
     ELSE LET c == Head(rq) IN
          /\ rq' = Tail(rq)
          /\ IF Takes(c)
             THEN main' = "publish" /\ upginfo' = Decoded(c) /\ asked' = c
             ELSE main' = "timer" /\ UNCHANGED <<upginfo, asked>>
  /\ UNCHANGED <<ut, timer, fails, sysVars, upgrading, taken, envVars, flag, sent>>

Publish ==
  /\ main = "publish"
  /\ main' = "timer"
  /\ upgrading' = TRUE
  /\ taken' = Append(taken, asked)
  /\ UNCHANGED <<ut, timer, fails, sysVars, upginfo, asked, envVars, rq, flag, sent>>

\* utimer_run: nothing happens when the clock shows the time of the last run.
TimerRun(d) ==
  /\ main = "timer"
  /\ main' = IF d = 0 THEN "read" ELSE "fire"
  /\ ut' = Run(ut, d)
  /\ UNCHANGED <<timer, fails, sysVars, cmdVars, running, came, rq, flag, sent>>

TimePasses == TimerRun(1) /\ UNCHANGED steps
TimeStands == TimerRun(0) /\ UNCHANGED steps

\* ntpd has set the clock.
TimeIsSet ==
  /\ steps < MaxSteps /\ steps' = steps + 1
  /\ \E d \in {Step, -Step} : TimerRun(d)

\* Mutant: the new entry is not kept in timer.
Rearm_Lost(id) == ut' = AddByOffset(Pop(ut), Period, id) /\ UNCHANGED <<timer, fails>>

\* Mutant: the callback does not add it again.
Rearm_Not(id) == ut' = Pop(ut) /\ timer' = Nil /\ UNCHANGED fails

\* upgcli_timer_cb, its end, with the old entry out of the tree; the allocation may fail.
Rearm(id) ==
  \/ /\ ut' = AddByOffset(Pop(ut), Period, id)
     /\ timer' = id
     /\ UNCHANGED fails
  \/ /\ fails < MaxFails /\ fails' = fails + 1
     /\ ut' = Pop(ut)
     /\ timer' = Nil

\* The loop of utimer_run: the callback writes a notification and adds an entry anew.
Fire ==
  /\ main = "fire" /\ Due(ut)
  /\ Rearm(1 - Head(ut).id)
  /\ UNCHANGED <<main, sysVars, cmdVars, envVars, rq, flag, sent>>

Fired ==
  /\ main = "fire" /\ ~Due(ut)
  /\ main' = "read"
  /\ UNCHANGED <<ut, timer, fails, sysVars, cmdVars, envVars, rq, flag, sent>>

\* upgcli_exit_env: utimer_delete and utimer_close; then thread_close waits for the sys thread.
Leave ==
  /\ main = "read" /\ ~running
  /\ main' = "exit"
  /\ ut' = IF timer = Nil THEN ut ELSE Delete(ut, timer)
  /\ UNCHANGED <<timer, fails, sysVars, cmdVars, envVars, rq, flag, sent>>

Close ==
  /\ main = "exit"
  /\ main' = "join"
  /\ ut' = Open
  /\ flag' = FALSE
  /\ UNCHANGED <<timer, fails, sysVars, cmdVars, envVars, rq, sent>>

Join ==
  /\ main = "join" /\ sys = "stopped"
  /\ main' = "done"
  /\ tq' = <<>> /\ rq' = <<>>
  /\ UNCHANGED <<ut, timer, fails, sys, result, ran, cmdVars, envVars, flag, sent>>
-----------------------------------------------------------------------------
\* upgcli_dosys
Reply(kind, code) ==
  Append(tq, [to |-> upginfo.from, cmd |-> upginfo.cmd, ver |-> upginfo.ver,
              kind |-> kind, code |-> code])

SysIdle ==
  /\ sys = "idle" /\ (~flag \/ upgrading)
  /\ sys' = IF flag THEN "accept" ELSE "stopped"
  /\ UNCHANGED <<mainVars, result, ran, tq, cmdVars, envVars, rq, flag, sent>>

Accept ==
  /\ sys = "accept"
  /\ sys' = "exec"
  /\ tq' = Reply("accept", 0)
  /\ UNCHANGED <<mainVars, result, ran, cmdVars, envVars, rq, flag, sent>>

Execute ==
  /\ sys = "exec"
  /\ sys' = "result"
  /\ result' \in ScriptResults(upginfo.cmd)
  /\ ran' = Append(ran, [cmd |-> upginfo.cmd, ver |-> upginfo.ver, code |-> result'])
  /\ UNCHANGED <<mainVars, tq, cmdVars, envVars, rq, flag, sent>>

Result ==
  /\ sys = "result"
  /\ sys' = "clear"
  /\ tq' = IF upginfo.cmd = "reboot" THEN tq ELSE Reply("result", result)
  /\ UNCHANGED <<mainVars, result, ran, cmdVars, envVars, rq, flag, sent>>

Clear ==
  /\ sys = "clear"
  /\ sys' = "idle"
  /\ upgrading' = FALSE
  /\ UNCHANGED <<mainVars, result, ran, tq, upginfo, asked, taken, envVars, rq, flag, sent>>
-----------------------------------------------------------------------------
\* adapter_udp_dorcv and adapter_udp_dosnd, which stop when ap_is_running is FALSE.
Receive(c) ==
  /\ running /\ came < MaxCmds
  /\ came' = came + 1
  /\ rq' = Append(rq, c)
  /\ UNCHANGED <<mainVars, sysVars, cmdVars, running, steps, flag, sent>>

Send ==
  /\ running /\ tq # <<>>
  /\ tq' = Tail(tq)
  /\ sent' = Append(sent, Head(tq))
  /\ UNCHANGED <<mainVars, sys, result, ran, cmdVars, envVars, rq, flag>>

\* A signal ends the program.
Quit ==
  /\ running
  /\ running' = FALSE
  /\ UNCHANGED <<mainVars, sysVars, cmdVars, came, steps, rq, flag, sent>>

MainStep == Read \/ Publish \/ TimePasses \/ TimeStands \/ TimeIsSet \/ Fire \/ Fired \/ Leave \/ Close \/ Join
SysStep  == SysIdle \/ Accept \/ Execute \/ Result \/ Clear
Next == MainStep \/ SysStep \/ (\E c \in Command : Receive(c)) \/ Send \/ Quit

Spec == Init /\ [][Next]_vars

\* Threads run on, the network takes what is sent, and time passes between the turns of
\* the main loop: SF, since the loop is elsewhere most of the time.
FairSpec == Spec /\ WF_vars(MainStep) /\ WF_vars(SysStep) /\ WF_vars(Send) /\ SF_vars(TimePasses)
-----------------------------------------------------------------------------
\* What the servers are told of the first n commands accepted, as far as they ran.
Replies(n) ==
  FlattenSeq([i \in 1 .. n |->
    LET c == Decoded(taken[i])
        r(kind, code) == [to |-> c.from, cmd |-> c.cmd, ver |-> c.ver, kind |-> kind, code |-> code]
    IN <<r("accept", 0)>> \o IF c.cmd # "reboot" /\ i <= Len(ran)
                             THEN <<r("result", ran[i].code)>> ELSE <<>>])

\* Each datagram that was accepted is run once, in the order of arrival: its command, with
\* what upg_info keeps of its version, the low 8 of 16 bits -- a version of 256 or more is
\* run and answered as another one (UpgradeKept).  Its accept and its result go to the
\* server that asked, although datagrams of others arrive while upginfo and svrip are in use
\* by another thread and no lock protects them (upgcli_process, upgcli_dosys).
RepliesInStep ==
  /\ Len(ran) <= Len(taken)
  /\ \A i \in DOMAIN ran : ran[i].cmd = taken[i].cmd /\ ran[i].ver = taken[i].ver % 256
  /\ main # "done" => IsPrefix(sent \o tq, Replies(Len(taken)))
  /\ ~upgrading => Len(ran) = Len(taken) /\ (main # "done" => sent \o tq = Replies(Len(taken)))

\* timer names the one entry that is in the tree, or is NULL: the entry of the callback
\* is freed after it, and upgcli_exit_env deletes what timer names (upgcli_timer_cb).
TimerKept ==
  main \notin {"exit", "join", "done"} =>
    /\ Len(ut) <= 1
    /\ Ids(ut) = IF timer = Nil THEN {} ELSE {timer}

\* Notifications go on, whatever the clock is set to, until the program ends or an
\* entry cannot be allocated (upgcli_timer_cb, utimer_run).
Notified == \A id \in 0 .. 1 : timer = id /\ running ~> timer = 1 - id \/ fails > 0 \/ ~running

\* An upgrade does what its server asked for, unless the script is killed: upg.sh is called
\* the way its usage says (upg.sh:10) and does not refuse its arguments, and it is given the
\* version of the datagram, which has 16 bits (upgdef.h:48-50) and is printed as two bytes
\* (upgcli.c:150).
UpgradeKept ==
  \A i \in DOMAIN ran : ran[i].cmd = "upgrade" /\ ran[i].code # 254 =>
    ran[i].code = 0 /\ ran[i].ver = taken[i].ver

\* Commands do not wait for ever, and what is accepted is run and answered: the timers
\* and the script do not keep the two threads from their work (upgcli_run, upgcli_dosys).
Answered ==
  /\ rq # <<>> ~> rq = <<>> \/ ~running
  /\ \A n \in 1 .. MaxCmds :
       Len(taken) >= n ~> ~running \/ (Len(ran) >= n /\ IsPrefix(Replies(n), sent))
=============================================================================
