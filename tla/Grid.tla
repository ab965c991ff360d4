-------------------------------- MODULE Grid --------------------------------
(***************************************************************************)
(* The mesh: NODE_COUNT nodes on a square of MATRIX_SIZE rows and columns, *)
(* each of which talks only to the nodes within BROADCAST_RADIUS           *)
(* (common/include/settings.h, node/src/node_essentials.c).                *)
(*                                                                         *)
(* The neighbourhood is given here by what it contains; NeighbourFill      *)
(* models the loops that compute it and shows that they compute this.      *)
(***************************************************************************)
EXTENDS Integers, FiniteSets

CONSTANTS MATRIX_SIZE,        \* rows and columns of the mesh
          BROADCAST_RADIUS,   \* how far the radio of a node reaches
          CONNECTIONS         \* entries of a node's connection table

\* Addresses are uint8_t and UINT8_MAX means "no address".
UINT8_MAX == 255

ASSUME GridAssumption ==
  /\ MATRIX_SIZE \in Nat \ {0}
  /\ MATRIX_SIZE * MATRIX_SIZE <= UINT8_MAX
  /\ BROADCAST_RADIUS \in Nat \ {0}
  /\ CONNECTIONS \in Nat \ {0}

NODE_COUNT == MATRIX_SIZE * MATRIX_SIZE

Node == 0 .. NODE_COUNT - 1

row(addr) == addr \div MATRIX_SIZE
col(addr) == addr % MATRIX_SIZE
from_pos(i, j) == i * MATRIX_SIZE + j

(***************************************************************************)
(* A node reaches BROADCAST_RADIUS steps straight up, down, left and       *)
(* right, and one step less in the corners between those arms.             *)
(***************************************************************************)
InReach(di, dj) ==
  \/ dj = 0 /\ di # 0 /\ -BROADCAST_RADIUS <= di /\ di <= BROADCAST_RADIUS
  \/ di = 0 /\ dj # 0 /\ -BROADCAST_RADIUS <= dj /\ dj <= BROADCAST_RADIUS
  \/ /\ di # 0 /\ -BROADCAST_RADIUS < di /\ di < BROADCAST_RADIUS
     /\ dj # 0 /\ -BROADCAST_RADIUS < dj /\ dj < BROADCAST_RADIUS

\* The contents of broadcast_neighbors[0 .. neighbor_num - 1] of node addr.
Neighbours(addr) ==
  {b \in Node : InReach(row(b) - row(addr), col(b) - col(addr))}

(***************************************************************************)
(* The position of neighbour b in broadcast_neighbors of addr, up to an    *)
(* order-preserving renumbering: rows above from near to far, rows below   *)
(* from near to far, then the node's own row; within a row the column of   *)
(* addr first, then to the left and to the right from near to far.  Every  *)
(* loop over broadcast_neighbors sends in this order.                      *)
(***************************************************************************)
FillOrder(addr, b) ==
  LET di   == row(b) - row(addr)
      dj   == col(b) - col(addr)
      r    == BROADCAST_RADIUS
      line == IF di < 0 THEN -di - 1 ELSE IF di > 0 THEN r + di - 1 ELSE 2 * r
      spot == IF dj <= 0 THEN -dj ELSE r + dj
  IN  line * (2 * r + 1) + spot
=============================================================================
