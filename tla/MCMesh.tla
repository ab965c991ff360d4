------------------------------- MODULE MCMesh -------------------------------
(***************************************************************************)
(* Small meshes for TLC.  With MATRIX_SIZE = 2 and BROADCAST_RADIUS = 1    *)
(* the four nodes form the ring 0 - 1 - 3 - 2 - 0: two ways between any    *)
(* two nodes, and opposite nodes that are not in reach of each other.      *)
(* Address 9 is outside that mesh.                                         *)
(***************************************************************************)
EXTENDS Mesh

SendFrom(s, r) ==
  [cmd |-> "SEND", sender |-> s, receiver |-> r, to |-> 0, msg |-> "plain"]

Cast(c, s) ==
  [cmd |-> c, sender |-> s, receiver |-> 0, to |-> 0, msg |-> "plain"]

\* Across the ring both ways, and from a third node to one of the ends.
Crossing == {SendFrom(0, 3), SendFrom(3, 0), SendFrom(1, 3)}

\* To and from nowhere, an empty text to itself, near to an app that is missing,
\* and far with a text of up to 150 symbols that deflate makes longer than that.
Assorted ==
  {SendFrom(1, 9), SendFrom(9, 1), [SendFrom(2, 2) EXCEPT !.msg = "empty"],
   [SendFrom(3, 1) EXCEPT !.to = 7], [SendFrom(0, 3) EXCEPT !.msg = "bulky"]}

\* Sends that flood, among them one whose receiver does not exist.
Floods == {SendFrom(0, 3), SendFrom(1, 3), SendFrom(1, 9)}

Casts == {Cast("BROADCAST", 4), Cast("UNICAST", 4), Cast("UNICAST", 0)}

(***************************************************************************)
(* With MATRIX_SIZE = 3 and nodes 7 and 8 dead, from node 0 to node 6: the *)
(* short way goes by node 3, a detour by nodes 1, 2, 5, 4 and 3.           *)
(***************************************************************************)
Corner == {SendFrom(0, 6)}

SendAndUnicast == {SendFrom(0, 3), Cast("UNICAST", 0)}
=============================================================================
