-------------------------------- MODULE UTimer --------------------------------
(***************************************************************************)
(* The timers of lch/util/utimer.c.  A handle keeps its entries in a tree   *)
(* ordered by the time they expire, and a pointer to the first; here it is  *)
(* a sequence in that order, and an entry is [id, expire] with id for its   *)
(* address.  Nothing runs by itself: the owner calls utimer_run in its      *)
(* loop, the callback runs in it and may add and delete.                    *)
(*                                                                          *)
(* Times are counted from the last run (last_s, last_ns), so that           *)
(* behaviours of any length have few states.                                *)
(***************************************************************************)
EXTENDS Integers, FiniteSets, SequencesExt

Open == <<>>

\* utimer_add: after the entries that expire at the same time (time_diff < 0 is left).
Add(ut, expire, id) ==
  LET before == {i \in DOMAIN ut : ut[i].expire <= expire}
  IN InsertAt(ut, Cardinality(before) + 1, [id |-> id, expire |-> expire])

\* Mutant: only the seconds of the offset are added.
AddByOffset_Seconds(ut, offset, id) == Add(ut, 0, id)

\* utimer_add_by_offset: from the time of the last run.
AddByOffset(ut, offset, id) == Add(ut, offset, id)

\* utimer_delete
Delete(ut, id) == SelectSeq(ut, LAMBDA e : e.id # id)

\* utimer_run: the clock shows d more than at the last run, or less when it was set.
Run(ut, d) == [i \in DOMAIN ut |-> [ut[i] EXCEPT !.expire = @ - d]]
Due(ut) == ut # <<>> /\ Head(ut).expire <= 0
Pop(ut) == Tail(ut)

Ids(ut) == {ut[i].id : i \in DOMAIN ut}
===============================================================================
