------------------------------- MODULE Routing ------------------------------
(***************************************************************************)
(* The routing table of a node (common/src/routing.c): for every           *)
(* destination the neighbour to send to and the length of the way.  An     *)
(* address outside the mesh has no entry; looking it up finds nothing and  *)
(* writing to it does nothing.                                             *)
(***************************************************************************)
EXTENDS Grid

Int8 == -128 .. 127
Addr == 0 .. UINT8_MAX

\* What is left of an int when it is stored in an int8_t.
ToInt8(x) == ((x + 128) % 256) - 128

NoRoute == [addr |-> UINT8_MAX, metric |-> 0]

RoutingTable == [Node -> [addr : Addr, metric : Int8]]

routing_table_fill_default == [d \in Node |-> NoRoute]

routing_get(table, dest) == IF dest \in Node THEN table[dest] ELSE NoRoute

routing_next_addr(table, dest) == routing_get(table, dest).addr

routing_set_addr(table, dest, next, metric) ==
  IF dest \in Node
  THEN [table EXCEPT ![dest] = [addr |-> next, metric |-> metric]]
  ELSE table

routing_del(table, dest) ==
  routing_set_addr(table, dest, UINT8_MAX, 0)
=============================================================================
