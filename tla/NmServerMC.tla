----------------------------- MODULE NmServerMC -----------------------------
(* Small instances of NmServer for TLC. *)
EXTENDS NmServerDirectory, TLC

CONSTANTS a1, a2, r1, b1, b2, m1

\* Two boards at different addresses.
TwoBoards   == {b1, b2}
TwoAddrs    == {a1, a2}
TwoAddrOf   == b1 :> a1 @@ b2 :> a2
TwoSvcOf    == [c \in TwoBoards |-> "L"]

\* Two connections that use the same address one after the other.
ReuseAddrOf == [c \in TwoBoards |-> a1]

\* A board and a management client.
Mixed       == {b1, m1}
MixedAddrs  == {a1, r1}
MixedAddrOf == b1 :> a1 @@ m1 :> r1
MixedSvcOf  == b1 :> "L" @@ m1 :> "R"

\* The hypothesis of the theorem about timed behaviours holds here.
ASSUME TimedInstance == TimedSetting
=============================================================================
