--------------------------- MODULE NeighbourFill ----------------------------
(***************************************************************************)
(* fill_broadcast_neighbors (node/src/node_essentials.c), the loops a node *)
(* runs once at start-up to fill its array broadcast_neighbors.  One step  *)
(* is one loop iteration; the array bound is CONNECTIONS, the size of      *)
(* broadcast_neighbors.                                                    *)
(***************************************************************************)
EXTENDS Grid, Sequences, SequencesExt

VARIABLES
  addr,                 \* the node that starts up
  broadcast_neighbors,  \* the array, up to neighbor_num
  loop,                 \* the loop being executed
  i, j                  \* its row and column counters

vars == <<addr, broadcast_neighbors, loop, i, j>>

Loops == {"up", "down", "left", "right", "done"}

TypeOK ==
  /\ addr \in Node
  /\ broadcast_neighbors \in Seq(Node)
  /\ loop \in Loops
  /\ i \in Int /\ j \in Int

Init ==
  /\ addr \in Node
  /\ broadcast_neighbors = << >>
  /\ loop = "up"
  /\ i = row(addr) - 1
  /\ j = col(addr)

\* A faulty variant: the corner columns run as far as the arms.
left_right_neighbours_wide ==
  LET r == BROADCAST_RADIUS
      c == col(addr)
      nLeft  == IF c < r THEN c ELSE r
      room   == MATRIX_SIZE - 1 - c
      nRight == IF room < r THEN room ELSE r
  IN  IF i \in {row(addr) - r, row(addr) + r}
      THEN << >>
      ELSE [k \in 1 .. nLeft |-> from_pos(i, c - k)]
           \o [k \in 1 .. nRight |-> from_pos(i, c + k)]

\* The columns of row i that left_right_neighbours adds, in its order.
left_right_neighbours ==
  LET r == BROADCAST_RADIUS
      c == col(addr)
      nLeft  == IF c < r - 1 THEN c ELSE r - 1
      room   == MATRIX_SIZE - 1 - c
      nRight == IF room < r - 1 THEN room ELSE r - 1
  IN  IF i \in {row(addr) - r, row(addr) + r}
      THEN << >>
      ELSE [k \in 1 .. nLeft |-> from_pos(i, c - k)]
           \o [k \in 1 .. nRight |-> from_pos(i, c + k)]

\* One iteration of the loops over the rows above and below.
FillRow ==
  broadcast_neighbors' =
    broadcast_neighbors \o <<from_pos(i, col(addr))>> \o left_right_neighbours

\* A faulty variant: no check against the upper edge of the matrix.
UpUnchecked ==
  /\ loop = "up"
  /\ IF i >= row(addr) - BROADCAST_RADIUS
     THEN FillRow /\ i' = i - 1 /\ UNCHANGED loop
     ELSE loop' = "down" /\ i' = row(addr) + 1 /\ UNCHANGED broadcast_neighbors
  /\ UNCHANGED <<addr, j>>

Up ==
  /\ loop = "up"
  /\ IF i >= row(addr) - BROADCAST_RADIUS /\ i >= 0
     THEN FillRow /\ i' = i - 1 /\ UNCHANGED loop
     ELSE loop' = "down" /\ i' = row(addr) + 1 /\ UNCHANGED broadcast_neighbors
  /\ UNCHANGED <<addr, j>>

Down ==
  /\ loop = "down"
  /\ IF i <= row(addr) + BROADCAST_RADIUS /\ i < MATRIX_SIZE
     THEN FillRow /\ i' = i + 1 /\ UNCHANGED <<loop, j>>
     ELSE /\ loop' = "left" /\ i' = row(addr) /\ j' = col(addr) - 1
          /\ UNCHANGED broadcast_neighbors
  /\ UNCHANGED addr

Left ==
  /\ loop = "left"
  /\ IF j >= 0 /\ j >= col(addr) - BROADCAST_RADIUS
     THEN /\ broadcast_neighbors' = Append(broadcast_neighbors, from_pos(i, j))
          /\ j' = j - 1 /\ UNCHANGED loop
     ELSE /\ loop' = "right" /\ j' = col(addr) + 1
          /\ UNCHANGED broadcast_neighbors
  /\ UNCHANGED <<addr, i>>

Right ==
  /\ loop = "right"
  /\ IF j < MATRIX_SIZE /\ j <= col(addr) + BROADCAST_RADIUS
     THEN /\ broadcast_neighbors' = Append(broadcast_neighbors, from_pos(i, j))
          /\ j' = j + 1 /\ UNCHANGED loop
     ELSE loop' = "done" /\ UNCHANGED <<broadcast_neighbors, j>>
  /\ UNCHANGED <<addr, i>>

Next == Up \/ Down \/ Left \/ Right

Spec == Init /\ [][Next]_vars

-----------------------------------------------------------------------------
(***************************************************************************)
(* When the loops end, the array holds every node in reach once, and in    *)
(* the order FillOrder gives: the loops of fill_broadcast_neighbors and    *)
(* left_right_neighbours neither miss a cell at the border of the matrix,  *)
(* nor visit one twice, nor wrap into the next row.                        *)
(***************************************************************************)
FillsNeighbourhood ==
  loop = "done" =>
    /\ ToSet(broadcast_neighbors) = Neighbours(addr)
    /\ \A k \in 2 .. Len(broadcast_neighbors) :
         FillOrder(addr, broadcast_neighbors[k - 1])
           < FillOrder(addr, broadcast_neighbors[k])

(***************************************************************************)
(* broadcast_neighbors[neighbor_num++] never writes behind the array, and  *)
(* leaves one of the CONNECTIONS entries of the connection table, which    *)
(* has the same size, to the connection with the server ("server also      *)
(* counted", node_essentials.c).                                           *)
(***************************************************************************)
ServerAlsoCounted == Len(broadcast_neighbors) <= CONNECTIONS - 1
=============================================================================
