----------------------------- MODULE OicIoctlMC -----------------------------
(***************************************************************************)
(* OicIoctl with the calls and the windows of the interface cards.          *)
(***************************************************************************)
EXTENDS OicRules, OicCalls

\* The hypotheses of the proofs about the driver hold of every handler that processes
\* are about to run: each section unlocks where it ends, a register that can refuse a value
\* is written under the lock by a handler that stops there (mutex_unlock, BDREGCHK;
\* the groups of rate C11 are the exception), and every access of a locked section comes
\* after the writes it needs, which no code without the lock can undo.
CallsDisciplined ==
  (\A p \in Proc : phase[p] = "idle") =>
    \A p \in Proc :
      /\ DisciplinedCall(call[p])
      /\ \A i \in DOMAIN Handler(p) :
           KeepsAim(Handler(p)[i]) /\ KeepsHold(Handler(p)[i]) /\ KeepsPart(Handler(p)[i])

\* What a group call has done when it comes to its end: it has committed the
\* groups, whatever documented channel rate they have (set_info_rule).
GroupsCommitted ==
  \A p \in Proc : Holding(p) /\ at[p] > Len(Steps(p)) /\ call[p] \in DOMAIN GroupCalls =>
    "mix" \in DOMAIN reg /\ reg["mix"] = 1
=============================================================================
