--------------------------- MODULE BoardDirectory ---------------------------
(***************************************************************************)
(* What the management server promises about the table of boards it shows  *)
(* to the web, cli and snmp clients, by address: a board is shown only     *)
(* while it is connected or its disconnection is being processed, shown    *)
(* information does not regress, and a board whose connection is being     *)
(* dropped is eventually forgotten.  A board that stays silent may be      *)
(* dropped from the table at any time.  Threads, locks, clients, queues    *)
(* and clocks are left to NmServer, which implements this.                 *)
(***************************************************************************)
CONSTANT Addr

VARIABLES
  conn,   \* of each address: "none", "up", or "leaving"
  shown   \* of each address: "no", "silent" (no information yet), "reported"

vars == <<conn, shown>>

TypeOK ==
  /\ conn \in [Addr -> {"none", "up", "leaving"}]
  /\ shown \in [Addr -> {"no", "silent", "reported"}]

Init ==
  /\ conn = [a \in Addr |-> "none"]
  /\ shown = [a \in Addr |-> "no"]

Connect(a) ==
  /\ conn[a] = "none"
  /\ conn' = [conn EXCEPT ![a] = "up"]
  /\ UNCHANGED shown

Show(a) ==
  /\ conn[a] # "none" /\ shown[a] = "no"
  /\ shown' = [shown EXCEPT ![a] = "silent"]
  /\ UNCHANGED conn

Report(a) ==
  /\ conn[a] # "none"
  /\ shown' = [shown EXCEPT ![a] = "reported"]
  /\ UNCHANGED conn

Expire(a) ==
  /\ shown' = [shown EXCEPT ![a] = "no"]
  /\ UNCHANGED conn

Lose(a) ==
  /\ conn[a] = "up"
  /\ conn' = [conn EXCEPT ![a] = "leaving"]
  /\ UNCHANGED shown

\* The address may be connected anew while its old connection is dropped.
Forget(a) ==
  /\ conn[a] = "leaving"
  /\ \E x \in {"none", "up"} : conn' = [conn EXCEPT ![a] = x]
  /\ shown' = [shown EXCEPT ![a] = "no"]

Next ==
  \E a \in Addr :
    \/ Connect(a) \/ Show(a) \/ Report(a)
    \/ Expire(a) \/ Lose(a) \/ Forget(a)

Spec == Init /\ [][Next]_vars

FairSpec == Spec /\ \A a \in Addr : WF_vars(Forget(a))

\* Nothing is shown of an address without a connection.
ShownIsConnected == \A a \in Addr : shown[a] # "no" => conn[a] # "none"
=============================================================================
