----------------------------- MODULE RegProgram -----------------------------
(***************************************************************************)
(* Register programs: how the text of an ioctl handler is written down for  *)
(* OicIoctl.                                                                *)
(*                                                                          *)
(* A program is a sequence of sections [locked, exit, onFail, steps].  exit *)
(* is "held" where the handler returns without unlocking.  onFail tells what*)
(* follows when BDREGCHK gives up: "return" ends the call; "next" goes on   *)
(* with the next section and "resume" with the rest of this one, since the  *)
(* caller ignores the result.                                               *)
(* A step is [op, reg, val, win, addr, data, part, fn]: the access, the     *)
(* register and the value, and for a window the place and the data the code *)
(* means (data is empty when they depend on what was read).                 *)
(***************************************************************************)
EXTENDS Integers, SequencesExt

CONSTANTS
  Proc,  \* processes that have the device open
  Own    \* what the caller of a handler asks for

NoReg == "-"

Access(op, r, v, w, a, d, x, fn) ==
  [op |-> op, reg |-> r, val |-> v, win |-> w, addr |-> a, data |-> d, part |-> x, fn |-> fn]
Step(op, r, v, w, a, d) == Access(op, r, v, w, a, d, NoReg, <<>>)

Put1(r, v)         == <<Step("put", r, v, NoReg, <<>>, <<>>)>>
Load1(r)           == <<Step("load", r, 0, NoReg, <<>>, <<>>)>>
Set1(op, r, x, fn) == <<Access(op, r, 0, NoReg, <<>>, <<>>, x, fn)>>
StoreAt(r, v, w, a, d) == <<Step("store", r, v, w, a, d)>>
FetchAt(r, v, w, a)    == <<Step("fetch", r, v, w, a, <<>>)>>
Read1(w, a)        == <<Step("get", NoReg, 0, w, a, <<>>)>>
Plain(r)           == Read1(r, <<>>)

\* The steps, or sections, that F gives for each element of s, one after the other.
Each(s, F(_)) == FlattenSeq([i \in 1 .. Len(s) |-> F(s[i])])

Section1(locked, exit, onFail, steps) ==
  [locked |-> locked, exit |-> exit, onFail |-> onFail, steps |-> steps]
\* Mutant: BDREGCHK unlocks without returning.
Locked_GoesOn(steps) == <<Section1(TRUE, "unlock", "resume", steps)>>
Locked(steps)    == <<Section1(TRUE, "unlock", "return", steps)>>
Abandoned(steps) == <<Section1(TRUE, "held", "return", steps)>>
Heedless(steps)  == <<Section1(TRUE, "unlock", "resume", steps)>>
Bare(steps)      == <<Section1(FALSE, "unlock", "return", steps)>>
Ignored(secs)    == [i \in DOMAIN secs |->
                       Section1(secs[i].locked, secs[i].exit, "next", secs[i].steps)]
=============================================================================
