------------------------- MODULE NmServerDirectory --------------------------
(* NmServer implements BoardDirectory. *)
EXTENDS NmServer

(* An address is leaving from the moment ssock_check unlinks its peer until*)
(* disccb has deleted its board entry, and up while it has a peer.         *)
ConnOf(a) ==
  IF Leaving("L", {"del", "gdel"}, a) THEN "leaving"
  ELSE IF HasPeer("L", a) THEN "up" ELSE "none"

(* The entry of the address in a table, as nms_glb_get_all_bdinfo shows it. *)
ShownIn(g, a) ==
  IF At(g, a) = {} THEN "no"
  ELSE IF g[FirstAt(g, a)].bdi = "set" THEN "reported" ELSE "silent"

Dir == INSTANCE BoardDirectory WITH
         conn  <- [a \in Addr |-> ConnOf(a)],
         shown <- [a \in Addr |-> ShownIn(glb, a)]

(* Every behaviour of the server is one the directory allows.              *)
ImplementsDirectory == Dir!Spec

(* With fair threads a dropped board is eventually forgotten.              *)
ImplementsFairDirectory == Dir!FairSpec
=============================================================================
