------------------------- MODULE NeighbourFillProofs ------------------------
(***************************************************************************)
(* Theorems about NeighbourFill for every size of the matrix and every     *)
(* radius: the loops fill the array with the neighbourhood that Grid       *)
(* describes, in its order, and CONNECTIONS entries are enough for a       *)
(* radius r when they are more than 4r + 4(r - 1)^2.                       *)
(*                                                                         *)
(* The order of the array is that of two numbers: the line a neighbour is  *)
(* in and its spot in the line.  The loops come to the neighbours in this  *)
(* order, so the inductive invariant says that the array holds exactly the *)
(* neighbours before the line and the spot that are next.                  *)
(***************************************************************************)
EXTENDS NeighbourFill, NumberSets, SequenceTheorems

-----------------------------------------------------------------------------
(***************************************************************************)
(* Arithmetic.                                                             *)
(***************************************************************************)
LEMMA Sizes ==
  /\ MATRIX_SIZE \in Nat /\ MATRIX_SIZE > 0
  /\ BROADCAST_RADIUS \in Nat /\ BROADCAST_RADIUS > 0
  /\ CONNECTIONS \in Nat
BY GridAssumption

\* Addresses and positions in the matrix are the same thing.
LEMMA Cell ==
  ASSUME NEW q \in 0 .. MATRIX_SIZE - 1, NEW c \in 0 .. MATRIX_SIZE - 1
  PROVE  from_pos(q, c) \in Node /\ row(from_pos(q, c)) = q /\ col(from_pos(q, c)) = c
<1>1. PICK m \in Nat : m = MATRIX_SIZE /\ m > 0
  BY Sizes
<1>2. (q * m + c) \div m = q /\ (q * m + c) % m = c
  BY <1>1, Division
<1>3. q * m + c \in 0 .. m * m - 1
  <2>1. (q + 1) * m <= m * m
    BY <1>1, Monotone
  <2>2. (q + 1) * m = q * m + m
    BY <1>1
  <2>3. q * m \in Nat /\ m * m \in Nat
    BY <1>1
  <2>4. QED
    BY <1>1, <2>1, <2>2, <2>3
<1>4. QED
  BY <1>1, <1>2, <1>3 DEF from_pos, row, col, Node, NODE_COUNT

LEMMA Position ==
  ASSUME NEW b \in Node
  PROVE  /\ row(b) \in 0 .. MATRIX_SIZE - 1 /\ col(b) \in 0 .. MATRIX_SIZE - 1
         /\ b = from_pos(row(b), col(b))
<1>1. PICK m \in Nat : m = MATRIX_SIZE /\ m > 0
  BY Sizes
<1>2. b \in 0 .. m * m - 1 /\ m * m \in Int
  BY <1>1 DEF Node, NODE_COUNT
<1>3. PICK p \in Int, d \in 0 .. m - 1 : b = p * m + d /\ p = b \div m /\ d = b % m
  BY <1>1, <1>2
<1>4. p * m \in Int /\ m * m \in Int
  OBVIOUS
<1>5. p >= 0
  <2>1. SUFFICES ASSUME p <= -1 PROVE FALSE
    OBVIOUS
  <2>2. p * m <= (-1) * m
    BY <2>1, Monotone
  <2>3. (-1) * m = -m
    OBVIOUS
  <2>4. QED
    BY <1>2, <1>3, <1>4, <2>2, <2>3
<1>6. p <= m - 1
  <2>1. SUFFICES ASSUME m <= p PROVE FALSE
    OBVIOUS
  <2>2. m * m <= p * m
    BY <2>1, Monotone
  <2>3. QED
    BY <1>2, <1>3, <1>4, <2>2
<1>7. QED
  BY <1>1, <1>3, <1>5, <1>6 DEF row, col, from_pos

-----------------------------------------------------------------------------
(***************************************************************************)
(* Lines and spots.                                                        *)
(***************************************************************************)
Line(a, b) ==
  LET di == row(b) - row(a)
  IN  IF di < 0 THEN -di - 1
      ELSE IF di > 0 THEN BROADCAST_RADIUS + di - 1 ELSE 2 * BROADCAST_RADIUS

Spot(a, b) ==
  LET dj == col(b) - col(a)
  IN  IF dj <= 0 THEN -dj ELSE BROADCAST_RADIUS + dj

\* Neighbour b of a comes before spot s of line l.
Before(a, b, l, s) == Line(a, b) < l \/ (Line(a, b) = l /\ Spot(a, b) < s)

LEMMA PlaceTypes ==
  ASSUME NEW a \in Node, NEW b \in Node
  PROVE  /\ row(a) \in Int /\ col(a) \in Int /\ row(b) \in Int /\ col(b) \in Int
         /\ Line(a, b) \in Int /\ Spot(a, b) \in Nat
<1>1. row(a) \in Int /\ col(a) \in Int /\ row(b) \in Int /\ col(b) \in Int
  BY Position, Sizes
<1>2. QED
  BY <1>1, Sizes DEF Line, Spot

LEMMA NeighbourPlace ==
  ASSUME NEW a \in Node, NEW b \in Neighbours(a)
  PROVE  /\ b \in Node /\ InReach(row(b) - row(a), col(b) - col(a))
         /\ Line(a, b) \in 0 .. 2 * BROADCAST_RADIUS
         /\ Spot(a, b) \in 0 .. 2 * BROADCAST_RADIUS
<1>1. b \in Node /\ InReach(row(b) - row(a), col(b) - col(a))
  BY DEF Neighbours
<1>2. PICK x \in Int, y \in Int : x = row(b) - row(a) /\ y = col(b) - col(a)
  BY <1>1, PlaceTypes
<1>3. PICK r \in Nat : r = BROADCAST_RADIUS /\ r > 0
  BY Sizes
<1>4. -r <= x /\ x <= r /\ -r <= y /\ y <= r
  BY <1>1, <1>2, <1>3 DEF InReach
<1>5. /\ Line(a, b) = IF x < 0 THEN -x - 1 ELSE IF x > 0 THEN r + x - 1 ELSE 2 * r
      /\ Spot(a, b) = IF y <= 0 THEN -y ELSE r + y
  BY <1>2, <1>3 DEF Line, Spot
<1>6. QED
  BY <1>1, <1>3, <1>4, <1>5

\* FillOrder orders neighbours by line, and in a line by spot.
LEMMA OrderOfPlaces ==
  ASSUME NEW a \in Node, NEW b \in Neighbours(a), NEW c \in Neighbours(a),
         Before(a, b, Line(a, c), Spot(a, c))
  PROVE  FillOrder(a, b) < FillOrder(a, c)
<1>1. PICK m \in Nat : m = 2 * BROADCAST_RADIUS + 1
  BY Sizes
<1>2. PICK l1 \in Nat, l2 \in Nat, s1 \in 0 .. m - 1, s2 \in 0 .. m - 1 :
        l1 = Line(a, b) /\ l2 = Line(a, c) /\ s1 = Spot(a, b) /\ s2 = Spot(a, c)
  BY <1>1, NeighbourPlace, Sizes
<1>3. FillOrder(a, b) = l1 * m + s1 /\ FillOrder(a, c) = l2 * m + s2
  BY <1>1, <1>2 DEF FillOrder, Line, Spot
<1>4. l1 < l2 \/ (l1 = l2 /\ s1 < s2)
  BY <1>2 DEF Before
<1>5. l1 * m \in Int /\ l2 * m \in Int
  OBVIOUS
<1>6. CASE l1 < l2
  <2>1. (l1 + 1) * m <= l2 * m
    BY <1>6, Monotone
  <2>2. (l1 + 1) * m = l1 * m + m
    OBVIOUS
  <2>3. QED
    BY <1>3, <1>5, <2>1, <2>2
<1>7. CASE l1 = l2 /\ s1 < s2
  BY <1>3, <1>5, <1>7
<1>8. QED
  BY <1>4, <1>6, <1>7

-----------------------------------------------------------------------------
(***************************************************************************)
(* The array.                                                              *)
(***************************************************************************)
\* The sequence t has the neighbours of a from one place to another, in order.
Sorted(a, t) ==
  \A k \in 2 .. Len(t) : Before(a, t[k - 1], Line(a, t[k]), Spot(a, t[k]))

Covers(a, t, l1, s1, l2, s2) ==
  /\ t \in Seq(Node)
  /\ \A b \in Node : (\E k \in 1 .. Len(t) : t[k] = b)
       <=> (b \in Neighbours(a) /\ ~Before(a, b, l1, s1) /\ Before(a, b, l2, s2))
  /\ Sorted(a, t)

\* Two such sequences, one after the other.
LEMMA Joined ==
  ASSUME NEW a \in Node, NEW t, NEW u,
         NEW l0 \in Int, NEW s0 \in Int, NEW l1 \in Int, NEW s1 \in Int,
         NEW l2 \in Int, NEW s2 \in Int,
         l0 < l1 \/ (l0 = l1 /\ s0 <= s1), l1 < l2 \/ (l1 = l2 /\ s1 <= s2),
         Covers(a, t, l0, s0, l1, s1), Covers(a, u, l1, s1, l2, s2)
  PROVE  Covers(a, t \o u, l0, s0, l2, s2)
<1>1. t \in Seq(Node) /\ u \in Seq(Node)
  BY DEF Covers
<1>2. PICK n \in Nat, m \in Nat : n = Len(t) /\ m = Len(u)
  BY <1>1
<1>3. PICK v : v = t \o u
  OBVIOUS
<1>4. /\ v \in Seq(Node) /\ Len(v) = n + m
      /\ \A k \in 1 .. n + m : v[k] = IF k <= n THEN t[k] ELSE u[k - n]
  BY <1>1, <1>2, <1>3, ConcatProperties
<1>5. ASSUME NEW b \in Node
      PROVE  (\E k \in 1 .. n + m : v[k] = b)
               <=> (b \in Neighbours(a) /\ ~Before(a, b, l0, s0) /\ Before(a, b, l2, s2))
  <2>1. (\E k \in 1 .. n + m : v[k] = b) <=> (\E k \in 1 .. n : t[k] = b) \/ (\E k \in 1 .. m : u[k] = b)
    <3>1. ASSUME NEW k \in 1 .. n + m, v[k] = b
          PROVE  (\E x \in 1 .. n : t[x] = b) \/ (\E x \in 1 .. m : u[x] = b)
      <4>1. CASE k <= n
        <5>1. k \in 1 .. n /\ t[k] = b
          BY <1>4, <3>1, <4>1
        <5>2. QED
          BY <5>1
      <4>2. CASE ~(k <= n)
        <5>1. k - n \in 1 .. m /\ u[k - n] = b
          BY <1>4, <3>1, <4>2
        <5>2. QED
          BY <5>1
      <4>3. QED
        BY <4>1, <4>2
    <3>2. ASSUME NEW k \in 1 .. n, t[k] = b PROVE \E x \in 1 .. n + m : v[x] = b
      <4>1. k \in 1 .. n + m /\ k <= n
        OBVIOUS
      <4>2. QED
        BY <1>4, <3>2, <4>1
    <3>3. ASSUME NEW k \in 1 .. m, u[k] = b PROVE \E x \in 1 .. n + m : v[x] = b
      <4>1. n + k \in 1 .. n + m /\ ~(n + k <= n) /\ (n + k) - n = k
        OBVIOUS
      <4>2. QED
        BY <1>4, <3>3, <4>1
    <3>4. QED
      BY <3>1, <3>2, <3>3
  <2>2. Line(a, b) \in Int /\ Spot(a, b) \in Int
    BY PlaceTypes
  <2>3. /\ Before(a, b, l0, s0) => Before(a, b, l1, s1)
        /\ Before(a, b, l1, s1) => Before(a, b, l2, s2)
    BY <2>2 DEF Before
  <2>4. /\ (\E k \in 1 .. n : t[k] = b)
             <=> (b \in Neighbours(a) /\ ~Before(a, b, l0, s0) /\ Before(a, b, l1, s1))
        /\ (\E k \in 1 .. m : u[k] = b)
             <=> (b \in Neighbours(a) /\ ~Before(a, b, l1, s1) /\ Before(a, b, l2, s2))
    BY <1>2 DEF Covers
  <2>5. QED
    BY <2>1, <2>3, <2>4, Zenon
<1>6. ASSUME NEW k \in 2 .. n + m
      PROVE  Before(a, v[k - 1], Line(a, v[k]), Spot(a, v[k]))
  <2>1. CASE k <= n
    <3>1. k \in 1 .. n + m /\ k - 1 \in 1 .. n + m /\ k - 1 <= n /\ k \in 2 .. n
      BY <2>1
    <3>2. v[k] = t[k] /\ v[k - 1] = t[k - 1]
      BY <1>4, <2>1, <3>1
    <3>3. Before(a, t[k - 1], Line(a, t[k]), Spot(a, t[k]))
      BY <1>2, <3>1 DEF Covers, Sorted
    <3>4. QED
      BY <3>2, <3>3
  <2>2. CASE k = n + 1
    <3>1. k \in 1 .. n + m /\ k - 1 \in 1 .. n + m /\ k - 1 = n /\ n \in 1 .. n /\ k - n = 1 /\ 1 \in 1 .. m
      BY <2>2
    <3>2. v[k] = u[1] /\ v[k - 1] = t[n]
      BY <1>4, <2>2, <3>1
    <3>3. u[1] \in Node /\ t[n] \in Node
      BY <1>1, <1>2, <3>1
    <3>4. ~Before(a, u[1], l1, s1) /\ Before(a, t[n], l1, s1)
      BY <1>2, <3>1, <3>3 DEF Covers
    <3>5. Line(a, u[1]) \in Int /\ Spot(a, u[1]) \in Int /\ Line(a, t[n]) \in Int /\ Spot(a, t[n]) \in Int
      BY <3>3, PlaceTypes
    <3>6. Before(a, t[n], Line(a, u[1]), Spot(a, u[1]))
      BY <3>4, <3>5 DEF Before
    <3>7. QED
      BY <3>2, <3>6
  <2>3. CASE k > n + 1
    <3>1. /\ k \in 1 .. n + m /\ k - 1 \in 1 .. n + m /\ ~(k <= n) /\ ~(k - 1 <= n)
          /\ k - n \in 2 .. m /\ (k - 1) - n = (k - n) - 1
      BY <2>3
    <3>2. v[k] = u[k - n] /\ v[k - 1] = u[(k - n) - 1]
      BY <1>4, <3>1
    <3>3. Before(a, u[(k - n) - 1], Line(a, u[k - n]), Spot(a, u[k - n]))
      BY <1>2, <3>1 DEF Covers, Sorted
    <3>4. QED
      BY <3>2, <3>3
  <2>4. QED
    BY <2>1, <2>2, <2>3
<1>7. QED
  BY <1>3, <1>4, <1>5, <1>6 DEF Covers, Sorted

\* The line of row q, and how many neighbours it has at most.
LineOfRow(q) ==
  IF q < row(addr) THEN row(addr) - q - 1 ELSE BROADCAST_RADIUS + q - row(addr) - 1

RowRoom(q) ==
  IF q \in {row(addr) - BROADCAST_RADIUS, row(addr) + BROADCAST_RADIUS} THEN 1
  ELSE 2 * BROADCAST_RADIUS - 1

\* The columns to both sides of the middle one.
LEMMA SidesOfRow ==
  ASSUME addr \in Node, i \in 0 .. MATRIX_SIZE - 1
  PROVE  \E nl \in Nat, nr \in Nat :
           /\ IF i \in {row(addr) - BROADCAST_RADIUS, row(addr) + BROADCAST_RADIUS}
              THEN nl = 0 /\ nr = 0
              ELSE /\ nl = IF col(addr) < BROADCAST_RADIUS - 1 THEN col(addr)
                           ELSE BROADCAST_RADIUS - 1
                   /\ nr = IF MATRIX_SIZE - 1 - col(addr) < BROADCAST_RADIUS - 1
                           THEN MATRIX_SIZE - 1 - col(addr) ELSE BROADCAST_RADIUS - 1
           /\ left_right_neighbours \in Seq(Node)
           /\ Len(left_right_neighbours) = nl + nr
           /\ \A k \in 1 .. nl : left_right_neighbours[k] = from_pos(i, col(addr) - k)
           /\ \A k \in 1 .. nr : left_right_neighbours[nl + k] = from_pos(i, col(addr) + k)
<1>1. CASE i \in {row(addr) - BROADCAST_RADIUS, row(addr) + BROADCAST_RADIUS}
  <2>1. left_right_neighbours = << >>
    BY <1>1 DEF left_right_neighbours
  <2>2. PICK z \in Nat : z = 0
    OBVIOUS
  <2>3. /\ left_right_neighbours \in Seq(Node) /\ Len(left_right_neighbours) = z + z
        /\ \A k \in 1 .. z : FALSE
    BY <2>1, <2>2
  <2>4. QED
    BY <1>1, <2>2, <2>3
<1>2. CASE i \notin {row(addr) - BROADCAST_RADIUS, row(addr) + BROADCAST_RADIUS}
  <2>1. PICK c \in Nat, m \in Nat, r \in Nat :
          c = col(addr) /\ m = MATRIX_SIZE /\ r = BROADCAST_RADIUS /\ r > 0 /\ c <= m - 1
    BY Position, Sizes
  <2>2. PICK nl \in Nat, nr \in Nat :
          /\ nl = IF c < r - 1 THEN c ELSE r - 1
          /\ nr = IF m - 1 - c < r - 1 THEN m - 1 - c ELSE r - 1
    BY <2>1
  <2>3. PICK x, y : /\ x = [k \in 1 .. nl |-> from_pos(i, c - k)]
                    /\ y = [k \in 1 .. nr |-> from_pos(i, c + k)]
    OBVIOUS
  <2>4. left_right_neighbours = x \o y
    BY <1>2, <2>1, <2>2, <2>3 DEF left_right_neighbours
  <2>5. \A k \in 1 .. nl : c - k \in 0 .. m - 1
    BY <2>1, <2>2
  <2>6. \A k \in 1 .. nr : c + k \in 0 .. m - 1
    BY <2>1, <2>2
  <2>7. /\ \A k \in 1 .. nl : from_pos(i, c - k) \in Node
        /\ \A k \in 1 .. nr : from_pos(i, c + k) \in Node
    BY <2>1, <2>5, <2>6, Cell
  <2>8. x \in [1 .. nl -> Node] /\ y \in [1 .. nr -> Node]
    BY <2>3, <2>7
  <2>9. x \in Seq(Node) /\ y \in Seq(Node) /\ Len(x) = nl /\ Len(y) = nr
    BY <2>8
  <2>10. /\ x \o y \in Seq(Node) /\ Len(x \o y) = nl + nr
         /\ \A k \in 1 .. nl + nr : (x \o y)[k] = IF k <= nl THEN x[k] ELSE y[k - nl]
    BY <2>9, ConcatProperties
  <2>11. \A k \in 1 .. nl : (x \o y)[k] = from_pos(i, c - k)
    BY <2>3, <2>10
  <2>12. \A k \in 1 .. nr : (x \o y)[nl + k] = from_pos(i, c + k)
    <3>1. \A k \in 1 .. nr : nl + k \in 1 .. nl + nr /\ ~(nl + k <= nl) /\ (nl + k) - nl = k
      OBVIOUS
    <3>2. QED
      BY <2>3, <2>10, <3>1
  <2>13. /\ nl = IF col(addr) < BROADCAST_RADIUS - 1 THEN col(addr)
                  ELSE BROADCAST_RADIUS - 1
         /\ nr = IF MATRIX_SIZE - 1 - col(addr) < BROADCAST_RADIUS - 1
                  THEN MATRIX_SIZE - 1 - col(addr) ELSE BROADCAST_RADIUS - 1
    BY <2>1, <2>2
  <2>14. /\ left_right_neighbours \in Seq(Node) /\ Len(left_right_neighbours) = nl + nr
         /\ \A k \in 1 .. nl : left_right_neighbours[k] = from_pos(i, col(addr) - k)
         /\ \A k \in 1 .. nr : left_right_neighbours[nl + k] = from_pos(i, col(addr) + k)
    BY <2>1, <2>4, <2>10, <2>11, <2>12
  <2>15. QED
    BY <1>2, <2>13, <2>14, Zenon
<1>3. QED
  BY <1>1, <1>2

\* A neighbour is in the line of row q exactly if it is in row q.
LEMMA LinesAreRows ==
  ASSUME addr \in Node, NEW b \in Neighbours(addr), NEW q \in Int, q # row(addr),
         row(addr) - BROADCAST_RADIUS <= q, q <= row(addr) + BROADCAST_RADIUS
  PROVE  Line(addr, b) = LineOfRow(q) <=> row(b) = q
<1>1. b \in Node /\ InReach(row(b) - row(addr), col(b) - col(addr))
  BY NeighbourPlace
<1>2. PICK x \in Int, p \in Int, y \in Int, r \in Nat :
        x = row(addr) /\ p = row(b) /\ y = col(b) - col(addr) /\ r = BROADCAST_RADIUS /\ r > 0
  BY <1>1, PlaceTypes, Sizes
<1>3. -r <= p - x /\ p - x <= r
  BY <1>1, <1>2 DEF InReach
<1>4. /\ Line(addr, b) = IF p - x < 0 THEN -(p - x) - 1 ELSE IF p - x > 0 THEN r + (p - x) - 1 ELSE 2 * r
      /\ LineOfRow(q) = IF q < x THEN x - q - 1 ELSE r + q - x - 1
  BY <1>2 DEF Line, LineOfRow
<1>5. q # x /\ x - r <= q /\ q <= x + r
  BY <1>2
<1>6. QED
  BY <1>2, <1>3, <1>4, <1>5

\* One iteration over a row above or below appends its neighbours.
LEMMA RowCovers ==
  ASSUME addr \in Node, i \in 0 .. MATRIX_SIZE - 1, i # row(addr),
         row(addr) - BROADCAST_RADIUS <= i, i <= row(addr) + BROADCAST_RADIUS
  PROVE  \E t : /\ t = <<from_pos(i, col(addr))>> \o left_right_neighbours
                /\ Covers(addr, t, LineOfRow(i), 0, LineOfRow(i) + 1, 0)
                /\ Len(t) <= RowRoom(i)
<1>1. PICK c \in Nat, m \in Nat, r \in Nat, x \in Nat, q \in 0 .. MATRIX_SIZE - 1 :
        /\ c = col(addr) /\ m = MATRIX_SIZE /\ r = BROADCAST_RADIUS /\ x = row(addr) /\ q = i
        /\ r > 0 /\ c <= m - 1
  <2>1. /\ row(addr) \in Nat /\ col(addr) \in Nat /\ col(addr) <= MATRIX_SIZE - 1
        /\ MATRIX_SIZE \in Nat /\ BROADCAST_RADIUS \in Nat /\ BROADCAST_RADIUS > 0
    BY Position, Sizes
  <2>2. QED
    BY <2>1
<1>2. q \in Int /\ q # x /\ x - r <= q /\ q <= x + r /\ q \in 0 .. m - 1
  BY <1>1
<1> DEFINE u == left_right_neighbours
<1>3. PICK nl \in Nat, nr \in Nat :
        /\ IF q \in {x - r, x + r} THEN nl = 0 /\ nr = 0
           ELSE /\ nl = IF c < r - 1 THEN c ELSE r - 1
                /\ nr = IF m - 1 - c < r - 1 THEN m - 1 - c ELSE r - 1
        /\ u \in Seq(Node) /\ Len(u) = nl + nr
        /\ \A k \in 1 .. nl : u[k] = from_pos(q, c - k)
        /\ \A k \in 1 .. nr : u[nl + k] = from_pos(q, c + k)
  BY <1>1, SidesOfRow
<1> HIDE DEF u
<1>4. IF q \in {x - r, x + r} THEN nl = 0 /\ nr = 0
       ELSE /\ nl = IF c < r - 1 THEN c ELSE r - 1
            /\ nr = IF m - 1 - c < r - 1 THEN m - 1 - c ELSE r - 1
  BY <1>3, Zenon
<1>5. r > 0 /\ c <= m - 1
  BY <1>1
<1>6. nl <= c /\ c + nr <= m - 1 /\ nl <= r - 1 /\ nr <= r - 1
  BY <1>4, <1>5
<1> DEFINE C(k) == IF k = 1 THEN c ELSE IF k <= nl + 1 THEN c - (k - 1) ELSE c + (k - 1 - nl)
<1>7. PICK t : t = <<from_pos(q, c)>> \o u
  OBVIOUS
<1>8. /\ t \in Seq(Node) /\ Len(t) = 1 + (nl + nr)
      /\ \A k \in 1 .. 1 + (nl + nr) : t[k] = IF k <= 1 THEN from_pos(q, c) ELSE u[k - 1]
  <2>1. from_pos(q, c) \in Node
    BY <1>1, Cell
  <2>2. /\ <<from_pos(q, c)>> \in Seq(Node) /\ Len(<<from_pos(q, c)>>) = 1
        /\ <<from_pos(q, c)>>[1] = from_pos(q, c)
    BY <2>1
  <2>3. PICK h \in Seq(Node) : h = <<from_pos(q, c)>> /\ Len(h) = 1 /\ h[1] = from_pos(q, c)
    BY <2>2
  <2>4. /\ h \o u \in Seq(Node) /\ Len(h \o u) = Len(h) + Len(u)
        /\ \A k \in 1 .. Len(h) + Len(u) : (h \o u)[k] = IF k <= Len(h) THEN h[k] ELSE u[k - Len(h)]
    BY <1>3, ConcatProperties
  <2>5. \A k \in 1 .. 1 + (nl + nr) : k <= 1 => k = 1
    OBVIOUS
  <2>6. QED
    BY <1>3, <1>7, <2>3, <2>4, <2>5
<1>9. ASSUME NEW k \in 1 .. 1 + (nl + nr)
      PROVE  t[k] = from_pos(q, C(k)) /\ C(k) \in 0 .. m - 1
  <2>1. CASE k = 1
    BY <1>1, <1>8, <2>1, SMTT(30)
  <2>2. CASE k # 1 /\ k <= nl + 1
    <3>1. k - 1 \in 1 .. nl /\ ~(k <= 1)
      BY <2>2
    <3>2. t[k] = from_pos(q, c - (k - 1))
      BY <1>3, <1>8, <3>1
    <3>3. QED
      BY <1>1, <1>6, <2>2, <3>1, <3>2
  <2>3. CASE ~(k <= nl + 1)
    <3>1. k - 1 - nl \in 1 .. nr /\ ~(k <= 1) /\ nl + (k - 1 - nl) = k - 1 /\ k # 1
      BY <2>3
    <3>2. u[k - 1] = from_pos(q, c + (k - 1 - nl))
      BY <1>3, <3>1
    <3>3. t[k] = from_pos(q, c + (k - 1 - nl))
      BY <1>8, <3>1, <3>2
    <3>4. QED
      BY <1>1, <1>6, <2>3, <3>1, <3>3
  <2>4. QED
    BY <2>1, <2>2, <2>3
<1>10. \A k \in 1 .. 1 + (nl + nr) :
        /\ C(k) \in Int /\ t[k] \in Node /\ row(t[k]) = q /\ col(t[k]) = C(k)
        /\ Spot(addr, t[k]) = IF C(k) - c <= 0 THEN -(C(k) - c) ELSE r + (C(k) - c)
  BY <1>1, <1>9, Cell DEF Spot
<1>11. ASSUME NEW k \in 1 .. 1 + (nl + nr) PROVE t[k] \in Neighbours(addr)
  <2>1. InReach(q - x, C(k) - c)
    <3>1. PICK di \in Int, dj \in Int : di = q - x /\ dj = C(k) - c
      BY <1>1, <1>2
    <3>2. di # 0 /\ -r <= di /\ di <= r /\ -r < dj /\ dj < r
      BY <1>2, <1>6, <3>1
    <3>3. dj # 0 => -r < di /\ di < r
      BY <1>2, <1>4, <3>1
    <3>4. InReach(di, dj)
      BY <1>1, <3>2, <3>3 DEF InReach
    <3>5. QED
      BY <3>1, <3>4
  <2>2. QED
    BY <1>1, <1>10, <2>1 DEF Neighbours
<1>12. ASSUME NEW b \in Neighbours(addr), row(b) = q
       PROVE  \E k \in 1 .. 1 + (nl + nr) : t[k] = b
  <2>1. PICK d \in 0 .. m - 1 : d = col(b)
    BY <1>1, NeighbourPlace, Position
  <2>2. InReach(q - x, d - c) /\ b = from_pos(q, d)
    BY <1>1, <1>12, <2>1, NeighbourPlace, Position
  <2>3. PICK k \in Int : k = IF d <= c THEN 1 + (c - d) ELSE 1 + nl + (d - c)
    BY <1>1
  <2>4. k \in 1 .. 1 + (nl + nr) /\ C(k) = d
    <3>1. PICK di \in Int, dj \in Int : di = q - x /\ dj = d - c
      BY <1>1, <1>2
    <3>2. di # 0 /\ (dj # 0 => -r < di /\ di < r /\ -r < dj /\ dj < r)
      BY <1>1, <1>2, <2>2, <3>1 DEF InReach
    <3>3. CASE dj = 0
      BY <2>3, <3>1, <3>3
    <3>4. CASE dj < 0
      <4>1. -dj <= nl
        BY <1>2, <1>4, <2>1, <3>1, <3>2, <3>4
      <4>2. QED
        BY <2>3, <3>1, <3>4, <4>1
    <3>5. CASE dj > 0
      <4>1. dj <= nr
        BY <1>2, <1>4, <2>1, <3>1, <3>2, <3>5
      <4>2. QED
        BY <2>3, <3>1, <3>5, <4>1
    <3>6. QED
      BY <3>3, <3>4, <3>5
  <2>5. QED
    BY <1>9, <2>2, <2>4
<1>13. ASSUME NEW k \in 2 .. 1 + (nl + nr)
       PROVE  Before(addr, t[k - 1], Line(addr, t[k]), Spot(addr, t[k]))
  <2>1. k \in 1 .. 1 + (nl + nr) /\ k - 1 \in 1 .. 1 + (nl + nr)
    OBVIOUS
  <2>2. Line(addr, t[k - 1]) = LineOfRow(q) /\ Line(addr, t[k]) = LineOfRow(q)
    BY <1>1, <1>2, <1>10, <1>11, <2>1, LinesAreRows
  <2>3. Spot(addr, t[k - 1]) < Spot(addr, t[k])
    BY <1>1, <1>6, <1>10, <2>1
  <2>4. QED
    BY <2>2, <2>3 DEF Before
<1>14. ASSUME NEW b \in Node
       PROVE  (\E k \in 1 .. 1 + (nl + nr) : t[k] = b)
                <=> /\ b \in Neighbours(addr) /\ ~Before(addr, b, LineOfRow(q), 0)
                    /\ Before(addr, b, LineOfRow(q) + 1, 0)
  <2>1. Line(addr, b) \in Int /\ Spot(addr, b) \in Nat /\ LineOfRow(q) \in Int
    BY <1>1, PlaceTypes DEF LineOfRow
  <2>2. ~Before(addr, b, LineOfRow(q), 0) /\ Before(addr, b, LineOfRow(q) + 1, 0)
          <=> Line(addr, b) = LineOfRow(q)
    BY <2>1 DEF Before
  <2>3. b \in Neighbours(addr) => (Line(addr, b) = LineOfRow(q) <=> row(b) = q)
    BY <1>1, <1>2, LinesAreRows
  <2>4. QED
    BY <1>10, <1>11, <1>12, <2>2, <2>3
<1>15. Covers(addr, t, LineOfRow(q), 0, LineOfRow(q) + 1, 0)
  BY <1>8, <1>13, <1>14 DEF Covers, Sorted
<1>16. Len(t) <= RowRoom(i)
  BY <1>1, <1>3, <1>6, <1>8, SMTT(30) DEF RowRoom
<1>17. QED
  BY <1>1, <1>7, <1>15, <1>16 DEF u

\* One iteration over the node's own row appends one neighbour.
LEMMA CellCovers ==
  ASSUME addr \in Node, NEW d \in 0 .. MATRIX_SIZE - 1, d # col(addr),
         col(addr) - BROADCAST_RADIUS <= d, d <= col(addr) + BROADCAST_RADIUS,
         NEW s \in Int,
         s = IF d < col(addr) THEN col(addr) - d ELSE BROADCAST_RADIUS + d - col(addr)
  PROVE  \E t : /\ t = <<from_pos(row(addr), d)>> /\ Len(t) = 1
                /\ Covers(addr, t, 2 * BROADCAST_RADIUS, s, 2 * BROADCAST_RADIUS, s + 1)
<1>1. PICK c \in Int, r \in Nat, x \in 0 .. MATRIX_SIZE - 1 :
        c = col(addr) /\ r = BROADCAST_RADIUS /\ x = row(addr) /\ r > 0
  <2>1. /\ row(addr) \in 0 .. MATRIX_SIZE - 1 /\ col(addr) \in Int
        /\ BROADCAST_RADIUS \in Nat /\ BROADCAST_RADIUS > 0
    BY Position, Sizes
  <2>2. QED
    BY <2>1
<1>2. d \in Int /\ d # c /\ c - r <= d /\ d <= c + r /\ s = IF d < c THEN c - d ELSE r + d - c
  BY <1>1, Sizes
<1>3. PICK e \in Node : e = from_pos(x, d) /\ row(e) = x /\ col(e) = d
  BY Cell
<1>4. PICK t : t = <<e>>
  OBVIOUS
<1>5. t \in Seq(Node) /\ Len(t) = 1 /\ t[1] = e
  BY <1>4
<1>6. e \in Neighbours(addr)
  <2>1. InReach(x - x, d - c)
    BY <1>1, <1>2 DEF InReach
  <2>2. QED
    BY <1>1, <1>3, <2>1 DEF Neighbours
<1>7. ASSUME NEW b \in Neighbours(addr)
      PROVE  b = e <=> Line(addr, b) = 2 * r /\ Spot(addr, b) = s
  <2>1. b \in Node /\ InReach(row(b) - row(addr), col(b) - col(addr)) /\ b = from_pos(row(b), col(b))
    BY NeighbourPlace, Position
  <2>2. PICK p \in Int, y \in Int : p = row(b) /\ y = col(b)
    BY <2>1, PlaceTypes
  <2>3. -r <= p - x /\ p - x <= r /\ -r <= y - c /\ y - c <= r
    BY <1>1, <2>1, <2>2 DEF InReach
  <2>4. /\ Line(addr, b) = IF p - x < 0 THEN -(p - x) - 1 ELSE IF p - x > 0 THEN r + (p - x) - 1 ELSE 2 * r
        /\ Spot(addr, b) = IF y - c <= 0 THEN -(y - c) ELSE r + (y - c)
    BY <1>1, <2>2 DEF Line, Spot
  <2>5. Line(addr, b) = 2 * r <=> p = x
    BY <1>1, <2>3, <2>4
  <2>6. Spot(addr, b) = s <=> y = d
    BY <1>2, <2>3, <2>4
  <2>7. b = e <=> p = x /\ y = d
    BY <1>3, <2>1, <2>2
  <2>8. QED
    BY <2>5, <2>6, <2>7
<1>8. ASSUME NEW b \in Node
      PROVE  (\E k \in 1 .. 1 : t[k] = b)
               <=> /\ b \in Neighbours(addr) /\ ~Before(addr, b, 2 * r, s)
                   /\ Before(addr, b, 2 * r, s + 1)
  <2>1. Line(addr, b) \in Int /\ Spot(addr, b) \in Int
    BY PlaceTypes
  <2>2. ~Before(addr, b, 2 * r, s) /\ Before(addr, b, 2 * r, s + 1)
          <=> Line(addr, b) = 2 * r /\ Spot(addr, b) = s
    BY <2>1 DEF Before
  <2>3. (\E k \in 1 .. 1 : t[k] = b) <=> b = e
    BY <1>5
  <2>4. QED
    BY <1>6, <1>7, <2>2, <2>3
<1>9. Covers(addr, t, 2 * r, s, 2 * r, s + 1)
  BY <1>5, <1>8 DEF Covers, Sorted
<1>10. QED
  BY <1>1, <1>3, <1>4, <1>5, <1>9

\* Where no neighbours are between two places, they can be exchanged.
LEMMA Exchanged ==
  ASSUME NEW a \in Node, NEW t, NEW l0, NEW s0, NEW l1, NEW s1, NEW l2, NEW s2,
         Covers(a, t, l0, s0, l1, s1),
         \A b \in Neighbours(a) : Before(a, b, l1, s1) <=> Before(a, b, l2, s2)
  PROVE  Covers(a, t, l0, s0, l2, s2)
BY DEF Covers

-----------------------------------------------------------------------------
(***************************************************************************)
(* The inductive invariant.                                                *)
(***************************************************************************)
\* The place the loops come to next.
NextLine ==
  IF loop = "up" THEN row(addr) - 1 - i
  ELSE IF loop = "down" THEN BROADCAST_RADIUS + i - row(addr) - 1
  ELSE IF loop = "done" THEN 2 * BROADCAST_RADIUS + 1 ELSE 2 * BROADCAST_RADIUS

NextSpot ==
  IF loop = "left" THEN col(addr) - j
  ELSE IF loop = "right" THEN BROADCAST_RADIUS + j - col(addr) ELSE 0

Counters ==
  LET r == BROADCAST_RADIUS
  IN  /\ loop = "up" => row(addr) - 1 - r <= i /\ i <= row(addr) - 1 /\ -1 <= i
      /\ loop = "down" => row(addr) + 1 <= i /\ i <= row(addr) + r + 1 /\ i <= MATRIX_SIZE
      /\ loop = "left" => i = row(addr) /\ col(addr) - 1 - r <= j /\ j <= col(addr) - 1 /\ -1 <= j
      /\ loop = "right" => /\ i = row(addr) /\ col(addr) + 1 <= j /\ j <= col(addr) + r + 1
                           /\ j <= MATRIX_SIZE

Filled == Covers(addr, broadcast_neighbors, 0, 0, NextLine, NextSpot)

Inv == TypeOK /\ Counters /\ Filled

LEMMA InitInv == Init => Inv
<1> SUFFICES ASSUME Init PROVE Inv
  OBVIOUS
<1>1. addr \in Node /\ broadcast_neighbors = << >> /\ loop = "up" /\ i = row(addr) - 1 /\ j = col(addr)
  BY DEF Init
<1>2. row(addr) \in Nat /\ col(addr) \in Nat
  BY <1>1, Position, Sizes
<1>3. TypeOK
  BY <1>1, <1>2 DEF TypeOK, Loops
<1>4. Counters
  BY <1>1, <1>2, Sizes DEF Counters
<1>5. NextLine = 0 /\ NextSpot = 0
  BY <1>1, <1>2 DEF NextLine, NextSpot
<1>6. broadcast_neighbors \in Seq(Node) /\ Len(broadcast_neighbors) = 0
  BY <1>1
<1>7. Covers(addr, broadcast_neighbors, 0, 0, 0, 0)
  BY <1>6 DEF Covers, Sorted
<1>8. QED
  BY <1>3, <1>4, <1>5, <1>7 DEF Inv, Filled

\* How sequences are grouped does not matter.
LEMMA Regrouped ==
  ASSUME NEW s \in Seq(Node), NEW t \in Seq(Node), NEW u \in Seq(Node)
  PROVE  (s \o t) \o u = s \o (t \o u)
<1>1. PICK n1 \in Nat, n2 \in Nat, n3 \in Nat : n1 = Len(s) /\ n2 = Len(t) /\ n3 = Len(u)
  OBVIOUS
<1>2. PICK st : st = s \o t
  OBVIOUS
<1>3. PICK tu : tu = t \o u
  OBVIOUS
<1>4. /\ st \in Seq(Node) /\ Len(st) = n1 + n2
      /\ \A k \in 1 .. n1 + n2 : st[k] = IF k <= n1 THEN s[k] ELSE t[k - n1]
  BY <1>1, <1>2, ConcatProperties
<1>5. /\ tu \in Seq(Node) /\ Len(tu) = n2 + n3
      /\ \A k \in 1 .. n2 + n3 : tu[k] = IF k <= n2 THEN t[k] ELSE u[k - n2]
  BY <1>1, <1>3, ConcatProperties
<1>6. PICK x, y : x = st \o u /\ y = s \o tu
  OBVIOUS
<1>7. PICK n \in Nat : n = (n1 + n2) + n3 /\ n = n1 + (n2 + n3)
  OBVIOUS
<1>8. /\ x \in Seq(Node) /\ Len(x) = n
      /\ \A k \in 1 .. n : x[k] = IF k <= n1 + n2 THEN st[k] ELSE u[k - (n1 + n2)]
  BY <1>1, <1>4, <1>6, <1>7, ConcatProperties
<1>9. /\ y \in Seq(Node) /\ Len(y) = n
      /\ \A k \in 1 .. n : y[k] = IF k <= n1 THEN s[k] ELSE tu[k - n1]
  <2>1. /\ s \o tu \in Seq(Node) /\ Len(s \o tu) = Len(s) + Len(tu)
        /\ \A k \in 1 .. Len(s) + Len(tu) : (s \o tu)[k] = IF k <= Len(s) THEN s[k] ELSE tu[k - Len(s)]
    BY <1>5, ConcatProperties
  <2>2. QED
    BY <1>1, <1>5, <1>6, <1>7, <2>1
<1>10. ASSUME NEW k \in 1 .. n PROVE x[k] = y[k]
  <2>1. CASE k <= n1
    BY <1>4, <1>7, <1>8, <1>9, <2>1
  <2>2. CASE ~(k <= n1) /\ k <= n1 + n2
    <3>1. k - n1 \in 1 .. n2 + n3 /\ k - n1 <= n2 /\ k \in 1 .. n1 + n2
      BY <1>7, <2>2
    <3>2. QED
      BY <1>4, <1>5, <1>8, <1>9, <2>2, <3>1
  <2>3. CASE ~(k <= n1 + n2)
    <3>1. k - n1 \in 1 .. n2 + n3 /\ ~(k - n1 <= n2) /\ ~(k <= n1) /\ (k - n1) - n2 = k - (n1 + n2)
      BY <1>7, <2>3
    <3>2. y[k] = u[(k - n1) - n2]
      BY <1>5, <1>9, <3>1
    <3>3. QED
      BY <1>8, <2>3, <3>1, <3>2
  <2>4. QED
    BY <2>1, <2>2, <2>3
<1>11. x = y
  <2>1. x \in [1 .. n -> Node] /\ y \in [1 .. n -> Node]
    BY <1>8, <1>9, LenProperties
  <2>2. QED
    BY <1>10, <2>1
<1>12. QED
  BY <1>2, <1>3, <1>6, <1>11, Zenon

\* A row is appended.
LEMMA GrowsByRow ==
  ASSUME Inv, FillRow, i \in 0 .. MATRIX_SIZE - 1, i # row(addr),
         row(addr) - BROADCAST_RADIUS <= i, i <= row(addr) + BROADCAST_RADIUS,
         NextLine = LineOfRow(i), NextSpot = 0
  PROVE  /\ Covers(addr, broadcast_neighbors', 0, 0, LineOfRow(i) + 1, 0)
         /\ Len(broadcast_neighbors') <= Len(broadcast_neighbors) + RowRoom(i)
<1>1. addr \in Node /\ broadcast_neighbors \in Seq(Node)
  BY DEF Inv, TypeOK
<1>2. PICK t : /\ t = <<from_pos(i, col(addr))>> \o left_right_neighbours
               /\ Covers(addr, t, LineOfRow(i), 0, LineOfRow(i) + 1, 0)
               /\ Len(t) <= RowRoom(i)
  BY <1>1, RowCovers
<1>3. broadcast_neighbors' = broadcast_neighbors \o t
  <2>1. PICK h, u : h = <<from_pos(i, col(addr))>> /\ u = left_right_neighbours
    OBVIOUS
  <2>2. h \in Seq(Node) /\ u \in Seq(Node)
    <3>1. col(addr) \in 0 .. MATRIX_SIZE - 1
      BY <1>1, Position
    <3>2. from_pos(i, col(addr)) \in Node
      BY <3>1, Cell
    <3>3. left_right_neighbours \in Seq(Node)
      BY <1>1, SidesOfRow
    <3>4. QED
      BY <2>1, <3>2, <3>3
  <2>3. (broadcast_neighbors \o h) \o u = broadcast_neighbors \o (h \o u)
    BY <1>1, <2>2, Regrouped
  <2>4. QED
    BY <1>2, <2>1, <2>3 DEF FillRow
<1>4. PICK l \in Nat, q \in Int, x \in Nat, r \in Nat :
        l = LineOfRow(i) /\ q = i /\ x = row(addr) /\ r = BROADCAST_RADIUS
  <2>1. row(addr) \in Nat /\ BROADCAST_RADIUS \in Nat /\ i \in Int
    BY <1>1, Position, Sizes
  <2>2. LineOfRow(i) \in Nat
    BY <2>1 DEF LineOfRow
  <2>3. QED
    BY <2>1, <2>2
<1>5. Covers(addr, broadcast_neighbors, 0, 0, l, 0) /\ Covers(addr, t, l, 0, l + 1, 0)
  BY <1>2, <1>4 DEF Inv, Filled
<1>6. 0 \in Int /\ l \in Int /\ l + 1 \in Int /\ (0 < l \/ (0 = l /\ 0 <= 0)) /\ l < l + 1
  OBVIOUS
<1>7. Covers(addr, broadcast_neighbors \o t, 0, 0, l + 1, 0)
  BY <1>1, <1>5, <1>6, Joined
<1>8. t \in Seq(Node)
  BY <1>2 DEF Covers
<1>9. Len(broadcast_neighbors \o t) = Len(broadcast_neighbors) + Len(t)
  BY <1>1, <1>8, ConcatProperties
<1>10. Len(broadcast_neighbors) \in Nat /\ Len(t) \in Nat /\ RowRoom(i) \in Int
  BY <1>1, <1>8, Sizes DEF RowRoom
<1>11. Len(broadcast_neighbors \o t) <= Len(broadcast_neighbors) + RowRoom(i)
  BY <1>2, <1>9, <1>10
<1>12. QED
  BY <1>3, <1>4, <1>7, <1>11, Zenon

\* A single neighbour is appended.
LEMMA GrowsByCell ==
  ASSUME Inv, NextLine = 2 * BROADCAST_RADIUS, i = row(addr), j \in 0 .. MATRIX_SIZE - 1,
         j # col(addr), col(addr) - BROADCAST_RADIUS <= j, j <= col(addr) + BROADCAST_RADIUS,
         NextSpot = IF j < col(addr) THEN col(addr) - j ELSE BROADCAST_RADIUS + j - col(addr),
         broadcast_neighbors' = Append(broadcast_neighbors, from_pos(i, j))
  PROVE  /\ Covers(addr, broadcast_neighbors', 0, 0, 2 * BROADCAST_RADIUS, NextSpot + 1)
         /\ Len(broadcast_neighbors') = Len(broadcast_neighbors) + 1
<1>1. addr \in Node /\ broadcast_neighbors \in Seq(Node)
  BY DEF Inv, TypeOK
<1>2. PICK r \in Nat, c \in Int, d \in 0 .. MATRIX_SIZE - 1 :
        r = BROADCAST_RADIUS /\ c = col(addr) /\ d = j /\ r > 0
  <2>1. BROADCAST_RADIUS \in Nat /\ BROADCAST_RADIUS > 0 /\ col(addr) \in Int
    BY <1>1, Position, Sizes
  <2>2. QED
    BY <2>1
<1>3. d \in Int /\ c - r <= d /\ d <= c + r /\ d # c
  BY <1>2, Sizes
<1>4. PICK s \in Nat : s = NextSpot /\ s = IF d < c THEN c - d ELSE r + d - c
  <2>1. NextSpot = IF d < c THEN c - d ELSE r + d - c
    BY <1>2
  <2>2. (IF d < c THEN c - d ELSE r + d - c) \in Nat
    BY <1>2, <1>3
  <2>3. QED
    BY <2>1, <2>2
<1>5. PICK t : /\ t = <<from_pos(row(addr), d)>> /\ Len(t) = 1
               /\ Covers(addr, t, 2 * r, s, 2 * r, s + 1)
  BY <1>1, <1>2, <1>3, <1>4, CellCovers, SMTT(30)
<1>6. broadcast_neighbors' = broadcast_neighbors \o t
  <2>1. t \in Seq(Node) /\ from_pos(row(addr), d) = from_pos(i, j)
    BY <1>2, <1>5 DEF Covers
  <2>2. from_pos(i, j) \in Node
    <3>1. t[1] \in Node /\ t[1] = from_pos(row(addr), d)
      BY <1>5, <2>1
    <3>2. QED
      BY <2>1, <3>1
  <2>3. Append(broadcast_neighbors, from_pos(i, j)) = broadcast_neighbors \o <<from_pos(i, j)>>
    BY <1>1, <2>2, AppendIsConcat
  <2>4. QED
    BY <1>5, <2>1, <2>3
<1>7. Covers(addr, broadcast_neighbors, 0, 0, 2 * r, s)
  BY <1>2, <1>4 DEF Inv, Filled
<1>8. 0 \in Int /\ 2 * r \in Int /\ s + 1 \in Int /\ 0 < 2 * r /\ s <= s + 1
  BY <1>2
<1>9. Covers(addr, broadcast_neighbors \o t, 0, 0, 2 * r, s + 1)
  BY <1>1, <1>5, <1>7, <1>8, Joined
<1>10. Len(broadcast_neighbors \o t) = Len(broadcast_neighbors) + Len(t)
  <2>1. t \in Seq(Node)
    BY <1>5 DEF Covers
  <2>2. QED
    BY <1>1, <2>1, ConcatProperties
<1>11. QED
  BY <1>2, <1>4, <1>5, <1>6, <1>9, <1>10

\* Positions and differences of a neighbour, as numbers.
LEMMA NeighbourNumbers ==
  ASSUME NEW a \in Node, NEW b \in Neighbours(a)
  PROVE  \E x \in Int, y \in Int, r \in Nat :
           /\ x = row(b) - row(a) /\ y = col(b) - col(a) /\ r = BROADCAST_RADIUS /\ r > 0
           /\ -r <= x /\ x <= r /\ -r <= y /\ y <= r
           /\ x # 0 \/ y # 0
           /\ Line(a, b) = IF x < 0 THEN -x - 1 ELSE IF x > 0 THEN r + x - 1 ELSE 2 * r
           /\ Spot(a, b) = IF y <= 0 THEN -y ELSE r + y
           /\ row(a) + x \in 0 .. MATRIX_SIZE - 1 /\ col(a) + y \in 0 .. MATRIX_SIZE - 1
<1>1. b \in Node /\ InReach(row(b) - row(a), col(b) - col(a))
  BY NeighbourPlace
<1>2. /\ row(b) \in 0 .. MATRIX_SIZE - 1 /\ col(b) \in 0 .. MATRIX_SIZE - 1
      /\ row(a) \in Int /\ col(a) \in Int /\ row(b) \in Int /\ col(b) \in Int
  BY <1>1, Position, PlaceTypes
<1>3. PICK x \in Int, y \in Int, r \in Nat :
        x = row(b) - row(a) /\ y = col(b) - col(a) /\ r = BROADCAST_RADIUS /\ r > 0
  BY <1>2, Sizes
<1>4. -r <= x /\ x <= r /\ -r <= y /\ y <= r /\ (x # 0 \/ y # 0)
  BY <1>1, <1>3 DEF InReach
<1>5. /\ Line(a, b) = IF x < 0 THEN -x - 1 ELSE IF x > 0 THEN r + x - 1 ELSE 2 * r
      /\ Spot(a, b) = IF y <= 0 THEN -y ELSE r + y
  BY <1>3 DEF Line, Spot
<1>6. row(a) + x = row(b) /\ col(a) + y = col(b)
  BY <1>2, <1>3
<1>7. row(a) + x \in 0 .. MATRIX_SIZE - 1 /\ col(a) + y \in 0 .. MATRIX_SIZE - 1
  BY <1>2, <1>6
<1>8. QED
  BY <1>3, <1>4, <1>5, <1>7

-----------------------------------------------------------------------------
(***************************************************************************)
(* The steps.  Each also says how much the array grows.                    *)
(***************************************************************************)
\* The state as numbers.
LEMMA Numbers ==
  ASSUME Inv
  PROVE  /\ addr \in Node /\ row(addr) \in 0 .. MATRIX_SIZE - 1 /\ col(addr) \in 0 .. MATRIX_SIZE - 1
         /\ i \in Int /\ j \in Int /\ row(addr) \in Nat /\ col(addr) \in Nat
         /\ broadcast_neighbors \in Seq(Node) /\ Len(broadcast_neighbors) \in Nat
<1>1. addr \in Node /\ i \in Int /\ j \in Int /\ broadcast_neighbors \in Seq(Node)
  BY DEF Inv, TypeOK
<1>2. Len(broadcast_neighbors) \in Nat
  BY <1>1
<1>3. QED
  BY <1>1, <1>2, Position, Sizes

\* A step that leaves the array in order.
LEMMA StepInv ==
  ASSUME Inv, addr' = addr, loop' \in Loops, i' \in Int, j' \in Int, Counters',
         Covers(addr, broadcast_neighbors', 0, 0, NextLine', NextSpot')
  PROVE  Inv'
<1>1. broadcast_neighbors' \in Seq(Node)
  BY DEF Covers
<1>2. TypeOK'
  BY <1>1 DEF Inv, TypeOK
<1>3. Filled'
  BY DEF Filled
<1>4. QED
  BY <1>2, <1>3 DEF Inv

LEMMA UpInv ==
  ASSUME Inv, Up
  PROVE  /\ Inv'
         /\ loop' = "up" =>
              /\ i' = i - 1 /\ i # row(addr) + BROADCAST_RADIUS
              /\ Len(broadcast_neighbors') <= Len(broadcast_neighbors) + RowRoom(i)
         /\ loop' # "up" =>
              loop' = "down" /\ i' = row(addr) + 1 /\ UNCHANGED broadcast_neighbors
<1>1. loop = "up" /\ UNCHANGED <<addr, j>>
  BY DEF Up
<1>2. PICK x \in Nat, r \in Nat, q \in Int, m \in Nat :
        x = row(addr) /\ r = BROADCAST_RADIUS /\ q = i /\ m = MATRIX_SIZE /\ r > 0 /\ x <= m - 1
  BY Numbers, Sizes
<1>3. x - 1 - r <= q /\ q <= x - 1 /\ -1 <= q
  BY <1>1, <1>2 DEF Inv, Counters
<1>4. NextLine = x - 1 - q /\ NextSpot = 0
  BY <1>1, <1>2 DEF NextLine, NextSpot
<1>5. addr \in Node /\ j \in Int
  BY Numbers
<1>6. CASE q >= x - r /\ q >= 0
  <2>1. FillRow /\ i' = q - 1 /\ UNCHANGED loop
    BY <1>2, <1>6 DEF Up
  <2>2. LineOfRow(i) = x - 1 - q
    BY <1>2, <1>3 DEF LineOfRow
  <2>3. /\ i \in 0 .. MATRIX_SIZE - 1 /\ i # row(addr)
        /\ row(addr) - BROADCAST_RADIUS <= i /\ i <= row(addr) + BROADCAST_RADIUS
        /\ i # row(addr) + BROADCAST_RADIUS
    BY <1>2, <1>3, <1>6
  <2>4. /\ Covers(addr, broadcast_neighbors', 0, 0, LineOfRow(i) + 1, 0)
        /\ Len(broadcast_neighbors') <= Len(broadcast_neighbors) + RowRoom(i)
    BY <1>4, <2>1, <2>2, <2>3, GrowsByRow
  <2>5. NextLine' = LineOfRow(i) + 1 /\ NextSpot' = 0
    BY <1>1, <1>2, <2>1, <2>2 DEF NextLine, NextSpot
  <2>6. Counters'
    BY <1>1, <1>2, <1>3, <1>6, <2>1 DEF Counters
  <2>7. loop' \in Loops /\ i' \in Int /\ j' \in Int
    BY <1>1, <1>5, <2>1 DEF Loops
  <2>8. Covers(addr, broadcast_neighbors', 0, 0, NextLine', NextSpot')
    BY <2>4, <2>5
  <2>9. Inv'
    BY <1>1, <2>6, <2>7, <2>8, StepInv
  <2>10. QED
    BY <1>1, <1>2, <2>1, <2>3, <2>4, <2>9
<1>7. CASE ~(q >= x - r /\ q >= 0)
  <2>1. loop' = "down" /\ i' = x + 1 /\ UNCHANGED broadcast_neighbors
    BY <1>2, <1>7 DEF Up
  <2>2. NextLine' = r /\ NextSpot' = 0
    BY <1>1, <1>2, <2>1 DEF NextLine, NextSpot
  <2>3. ASSUME NEW b \in Neighbours(addr)
        PROVE  Before(addr, b, x - 1 - q, 0) <=> Before(addr, b, r, 0)
    <3>1. PICK di \in Int : /\ -r <= di /\ di <= r /\ x + di \in 0 .. m - 1
                            /\ Line(addr, b) = IF di < 0 THEN -di - 1 ELSE IF di > 0 THEN r + di - 1 ELSE 2 * r
      BY <1>2, <1>5, NeighbourNumbers
    <3>2. Line(addr, b) < x - 1 - q <=> Line(addr, b) < r
      BY <1>2, <1>3, <1>7, <3>1
    <3>3. ~(Spot(addr, b) < 0)
      BY <1>5, NeighbourPlace, Sizes
    <3>4. QED
      BY <3>2, <3>3 DEF Before
  <2>4. Covers(addr, broadcast_neighbors, 0, 0, x - 1 - q, 0)
    BY <1>4 DEF Inv, Filled
  <2>5. Covers(addr, broadcast_neighbors, 0, 0, r, 0)
    BY <1>5, <2>3, <2>4, Exchanged
  <2>6. Covers(addr, broadcast_neighbors', 0, 0, NextLine', NextSpot')
    BY <2>1, <2>2, <2>5
  <2>7. Counters'
    BY <1>1, <1>2, <2>1 DEF Counters
  <2>8. loop' \in Loops /\ i' \in Int /\ j' \in Int
    BY <1>1, <1>2, <1>5, <2>1 DEF Loops
  <2>9. Inv'
    BY <1>1, <2>6, <2>7, <2>8, StepInv
  <2>10. QED
    BY <1>2, <2>1, <2>9
<1>8. QED
  BY <1>6, <1>7

LEMMA DownInv ==
  ASSUME Inv, Down
  PROVE  /\ Inv'
         /\ loop' = "down" =>
              /\ i' = i + 1 /\ i # row(addr) - BROADCAST_RADIUS
              /\ Len(broadcast_neighbors') <= Len(broadcast_neighbors) + RowRoom(i)
         /\ loop' # "down" =>
              loop' = "left" /\ j' = col(addr) - 1 /\ UNCHANGED broadcast_neighbors
<1>1. loop = "down" /\ UNCHANGED addr
  BY DEF Down
<1>2. PICK x \in Nat, r \in Nat, q \in Int, m \in Nat, c \in Nat :
        /\ x = row(addr) /\ r = BROADCAST_RADIUS /\ q = i /\ m = MATRIX_SIZE /\ c = col(addr)
        /\ r > 0 /\ x <= m - 1
  <2>1. /\ row(addr) \in Nat /\ col(addr) \in Nat /\ i \in Int /\ row(addr) <= MATRIX_SIZE - 1
        /\ MATRIX_SIZE \in Nat /\ BROADCAST_RADIUS \in Nat /\ BROADCAST_RADIUS > 0
    BY Numbers, Sizes
  <2>2. QED
    BY <2>1
<1>3. x + 1 <= q /\ q <= x + r + 1 /\ q <= m
  BY <1>1, <1>2 DEF Inv, Counters
<1>4. NextLine = r + q - x - 1 /\ NextSpot = 0
  BY <1>1, <1>2 DEF NextLine, NextSpot
<1>5. addr \in Node /\ j \in Int
  BY Numbers
<1>6. CASE q <= x + r /\ q < m
  <2>1. FillRow /\ i' = q + 1 /\ UNCHANGED <<loop, j>>
    BY <1>2, <1>6 DEF Down
  <2>2. LineOfRow(i) = r + q - x - 1
    BY <1>2, <1>3 DEF LineOfRow
  <2>3. /\ i \in 0 .. MATRIX_SIZE - 1 /\ i # row(addr)
        /\ row(addr) - BROADCAST_RADIUS <= i /\ i <= row(addr) + BROADCAST_RADIUS
        /\ i # row(addr) - BROADCAST_RADIUS
    BY <1>2, <1>3, <1>6
  <2>4. /\ Covers(addr, broadcast_neighbors', 0, 0, LineOfRow(i) + 1, 0)
        /\ Len(broadcast_neighbors') <= Len(broadcast_neighbors) + RowRoom(i)
    BY <1>4, <2>1, <2>2, <2>3, GrowsByRow
  <2>5. NextLine' = LineOfRow(i) + 1 /\ NextSpot' = 0
    BY <1>1, <1>2, <2>1, <2>2 DEF NextLine, NextSpot
  <2>6. Counters'
    BY <1>1, <1>2, <1>3, <1>6, <2>1 DEF Counters
  <2>7. loop' \in Loops /\ i' \in Int /\ j' \in Int
    BY <1>1, <1>5, <2>1 DEF Loops
  <2>8. Covers(addr, broadcast_neighbors', 0, 0, NextLine', NextSpot')
    BY <2>4, <2>5
  <2>9. Inv'
    BY <1>1, <2>6, <2>7, <2>8, StepInv
  <2>10. QED
    BY <1>1, <1>2, <2>1, <2>3, <2>4, <2>9
<1>7. CASE ~(q <= x + r /\ q < m)
  <2>1. loop' = "left" /\ i' = x /\ j' = c - 1 /\ UNCHANGED broadcast_neighbors
    BY <1>2, <1>7 DEF Down
  <2>2. NextLine' = 2 * r /\ NextSpot' = 1
    BY <1>1, <1>2, <2>1 DEF NextLine, NextSpot
  <2>3. ASSUME NEW b \in Neighbours(addr)
        PROVE  Before(addr, b, r + q - x - 1, 0) <=> Before(addr, b, 2 * r, 1)
    <3>1. PICK di \in Int, dj \in Int :
            /\ -r <= di /\ di <= r /\ x + di \in 0 .. m - 1 /\ (di # 0 \/ dj # 0)
            /\ Line(addr, b) = IF di < 0 THEN -di - 1 ELSE IF di > 0 THEN r + di - 1 ELSE 2 * r
            /\ Spot(addr, b) = IF dj <= 0 THEN -dj ELSE r + dj
      BY <1>2, <1>5, NeighbourNumbers
    <3>2. Line(addr, b) < r + q - x - 1 <=> Line(addr, b) < 2 * r
      BY <1>2, <1>3, <1>7, <3>1
    <3>3. ~(Spot(addr, b) < 0) /\ (Line(addr, b) = 2 * r => ~(Spot(addr, b) < 1))
      BY <1>2, <3>1
    <3>4. QED
      BY <3>2, <3>3 DEF Before
  <2>4. Covers(addr, broadcast_neighbors, 0, 0, r + q - x - 1, 0)
    BY <1>4 DEF Inv, Filled
  <2>5. Covers(addr, broadcast_neighbors, 0, 0, 2 * r, 1)
    BY <1>5, <2>3, <2>4, Exchanged
  <2>6. Covers(addr, broadcast_neighbors', 0, 0, NextLine', NextSpot')
    BY <2>1, <2>2, <2>5
  <2>7. Counters'
    BY <1>1, <1>2, <2>1 DEF Counters
  <2>8. loop' \in Loops /\ i' \in Int /\ j' \in Int
    BY <1>1, <1>2, <2>1 DEF Loops
  <2>9. Inv'
    BY <1>1, <2>6, <2>7, <2>8, StepInv
  <2>10. QED
    BY <1>2, <2>1, <2>9
<1>8. QED
  BY <1>6, <1>7

LEMMA LeftInv ==
  ASSUME Inv, Left
  PROVE  /\ Inv'
         /\ loop' = "left" =>
              j' = j - 1 /\ Len(broadcast_neighbors') = Len(broadcast_neighbors) + 1
         /\ loop' # "left" =>
              loop' = "right" /\ j' = col(addr) + 1 /\ UNCHANGED broadcast_neighbors
<1>1. loop = "left" /\ UNCHANGED <<addr, i>>
  BY DEF Left
<1>2. PICK r \in Nat, d \in Int, m \in Nat, c \in Nat :
        /\ r = BROADCAST_RADIUS /\ d = j /\ m = MATRIX_SIZE /\ c = col(addr)
        /\ r > 0 /\ c <= m - 1
  <2>1. /\ col(addr) \in Nat /\ j \in Int /\ col(addr) <= MATRIX_SIZE - 1
        /\ MATRIX_SIZE \in Nat /\ BROADCAST_RADIUS \in Nat /\ BROADCAST_RADIUS > 0
    BY Numbers, Sizes
  <2>2. QED
    BY <2>1
<1>3. c - 1 - r <= d /\ d <= c - 1 /\ -1 <= d /\ i = row(addr)
  BY <1>1, <1>2 DEF Inv, Counters
<1>4. NextLine = 2 * r /\ NextSpot = c - d
  BY <1>1, <1>2 DEF NextLine, NextSpot
<1>5. addr \in Node /\ i \in Int
  BY Numbers
<1>6. CASE d >= 0 /\ d >= c - r
  <2>1. broadcast_neighbors' = Append(broadcast_neighbors, from_pos(i, j)) /\ j' = d - 1 /\ UNCHANGED loop
    BY <1>2, <1>6 DEF Left
  <2>2. /\ j \in 0 .. MATRIX_SIZE - 1 /\ j # col(addr)
        /\ col(addr) - BROADCAST_RADIUS <= j /\ j <= col(addr) + BROADCAST_RADIUS
    BY <1>2, <1>3, <1>6
  <2>3. NextSpot = IF j < col(addr) THEN col(addr) - j ELSE BROADCAST_RADIUS + j - col(addr)
    BY <1>2, <1>3, <1>4
  <2>4. NextLine = 2 * BROADCAST_RADIUS
    BY <1>2, <1>4
  <2>5. /\ Covers(addr, broadcast_neighbors', 0, 0, 2 * BROADCAST_RADIUS, NextSpot + 1)
        /\ Len(broadcast_neighbors') = Len(broadcast_neighbors) + 1
    BY <1>3, <2>1, <2>2, <2>3, <2>4, GrowsByCell
  <2>6. NextLine' = 2 * BROADCAST_RADIUS /\ NextSpot' = NextSpot + 1
    BY <1>1, <1>2, <1>4, <2>1 DEF NextLine, NextSpot
  <2>7. Counters'
    BY <1>1, <1>2, <1>3, <1>6, <2>1 DEF Counters
  <2>8. loop' \in Loops /\ i' \in Int /\ j' \in Int
    BY <1>1, <1>5, <2>1 DEF Loops
  <2>9. Covers(addr, broadcast_neighbors', 0, 0, NextLine', NextSpot')
    BY <2>5, <2>6
  <2>10. Inv'
    BY <1>1, <2>7, <2>8, <2>9, StepInv
  <2>11. QED
    BY <1>1, <1>2, <2>1, <2>5, <2>10
<1>7. CASE ~(d >= 0 /\ d >= c - r)
  <2>1. loop' = "right" /\ j' = c + 1 /\ UNCHANGED broadcast_neighbors
    BY <1>2, <1>7 DEF Left
  <2>2. NextLine' = 2 * r /\ NextSpot' = r + 1
    BY <1>1, <1>2, <2>1 DEF NextLine, NextSpot
  <2>3. ASSUME NEW b \in Neighbours(addr)
        PROVE  Before(addr, b, 2 * r, c - d) <=> Before(addr, b, 2 * r, r + 1)
    <3>1. PICK dj \in Int :
            /\ -r <= dj /\ dj <= r /\ c + dj \in 0 .. m - 1
            /\ Spot(addr, b) = IF dj <= 0 THEN -dj ELSE r + dj
      BY <1>2, <1>5, NeighbourNumbers
    <3>2. Spot(addr, b) < c - d <=> Spot(addr, b) < r + 1
      BY <1>2, <1>3, <1>7, <3>1
    <3>3. QED
      BY <3>2 DEF Before
  <2>4. Covers(addr, broadcast_neighbors, 0, 0, 2 * r, c - d)
    BY <1>4 DEF Inv, Filled
  <2>5. Covers(addr, broadcast_neighbors, 0, 0, 2 * r, r + 1)
    BY <1>5, <2>3, <2>4, Exchanged
  <2>6. Covers(addr, broadcast_neighbors', 0, 0, NextLine', NextSpot')
    BY <2>1, <2>2, <2>5
  <2>7. Counters'
    BY <1>1, <1>2, <1>3, <2>1 DEF Counters
  <2>8. loop' \in Loops /\ i' \in Int /\ j' \in Int
    BY <1>1, <1>2, <1>5, <2>1 DEF Loops
  <2>9. Inv'
    BY <1>1, <2>6, <2>7, <2>8, StepInv
  <2>10. QED
    BY <1>2, <2>1, <2>9
<1>8. QED
  BY <1>6, <1>7

LEMMA RightInv ==
  ASSUME Inv, Right
  PROVE  /\ Inv'
         /\ loop' = "right" =>
              j' = j + 1 /\ Len(broadcast_neighbors') = Len(broadcast_neighbors) + 1
         /\ loop' # "right" => loop' = "done" /\ UNCHANGED broadcast_neighbors
<1>1. loop = "right" /\ UNCHANGED <<addr, i>>
  BY DEF Right
<1>2. PICK r \in Nat, d \in Int, m \in Nat, c \in Nat :
        /\ r = BROADCAST_RADIUS /\ d = j /\ m = MATRIX_SIZE /\ c = col(addr)
        /\ r > 0 /\ c <= m - 1
  <2>1. /\ col(addr) \in Nat /\ j \in Int /\ col(addr) <= MATRIX_SIZE - 1
        /\ MATRIX_SIZE \in Nat /\ BROADCAST_RADIUS \in Nat /\ BROADCAST_RADIUS > 0
    BY Numbers, Sizes
  <2>2. QED
    BY <2>1
<1>3. c + 1 <= d /\ d <= c + r + 1 /\ d <= m /\ i = row(addr)
  BY <1>1, <1>2 DEF Inv, Counters
<1>4. NextLine = 2 * r /\ NextSpot = r + d - c
  BY <1>1, <1>2 DEF NextLine, NextSpot
<1>5. addr \in Node /\ i \in Int
  BY Numbers
<1>6. CASE d < m /\ d <= c + r
  <2>1. broadcast_neighbors' = Append(broadcast_neighbors, from_pos(i, j)) /\ j' = d + 1 /\ UNCHANGED loop
    BY <1>2, <1>6 DEF Right
  <2>2. /\ j \in 0 .. MATRIX_SIZE - 1 /\ j # col(addr)
        /\ col(addr) - BROADCAST_RADIUS <= j /\ j <= col(addr) + BROADCAST_RADIUS
    BY <1>2, <1>3, <1>6
  <2>3. NextSpot = IF j < col(addr) THEN col(addr) - j ELSE BROADCAST_RADIUS + j - col(addr)
    BY <1>2, <1>3, <1>4
  <2>4. NextLine = 2 * BROADCAST_RADIUS
    BY <1>2, <1>4
  <2>5. /\ Covers(addr, broadcast_neighbors', 0, 0, 2 * BROADCAST_RADIUS, NextSpot + 1)
        /\ Len(broadcast_neighbors') = Len(broadcast_neighbors) + 1
    BY <1>3, <2>1, <2>2, <2>3, <2>4, GrowsByCell
  <2>6. NextLine' = 2 * BROADCAST_RADIUS /\ NextSpot' = NextSpot + 1
    BY <1>1, <1>2, <1>4, <2>1 DEF NextLine, NextSpot
  <2>7. Counters'
    BY <1>1, <1>2, <1>3, <1>6, <2>1 DEF Counters
  <2>8. loop' \in Loops /\ i' \in Int /\ j' \in Int
    BY <1>1, <1>5, <2>1 DEF Loops
  <2>9. Covers(addr, broadcast_neighbors', 0, 0, NextLine', NextSpot')
    BY <2>5, <2>6
  <2>10. Inv'
    BY <1>1, <2>7, <2>8, <2>9, StepInv
  <2>11. QED
    BY <1>1, <1>2, <2>1, <2>5, <2>10
<1>7. CASE ~(d < m /\ d <= c + r)
  <2>1. loop' = "done" /\ UNCHANGED <<broadcast_neighbors, j>>
    BY <1>2, <1>7 DEF Right
  <2>2. NextLine' = 2 * r + 1 /\ NextSpot' = 0
    BY <1>1, <1>2, <2>1 DEF NextLine, NextSpot
  <2>3. ASSUME NEW b \in Neighbours(addr)
        PROVE  Before(addr, b, 2 * r, r + d - c) <=> Before(addr, b, 2 * r + 1, 0)
    <3>1. PICK dj \in Int :
            /\ -r <= dj /\ dj <= r /\ c + dj \in 0 .. m - 1
            /\ Spot(addr, b) = IF dj <= 0 THEN -dj ELSE r + dj
      BY <1>2, <1>5, NeighbourNumbers
    <3>2. Spot(addr, b) < r + d - c
      BY <1>2, <1>3, <1>7, <3>1
    <3>3. PICK l \in 0 .. 2 * r : l = Line(addr, b)
      BY <1>2, <1>5, NeighbourPlace
    <3>4. l < 2 * r \/ l = 2 * r
      BY <3>3
    <3>5. l < 2 * r + 1
      BY <3>3
    <3>6. QED
      BY <3>2, <3>3, <3>4, <3>5 DEF Before
  <2>4. Covers(addr, broadcast_neighbors, 0, 0, 2 * r, r + d - c)
    BY <1>4 DEF Inv, Filled
  <2>5. Covers(addr, broadcast_neighbors, 0, 0, 2 * r + 1, 0)
    BY <1>5, <2>3, <2>4, Exchanged
  <2>6. Covers(addr, broadcast_neighbors', 0, 0, NextLine', NextSpot')
    BY <2>1, <2>2, <2>5
  <2>7. Counters'
    BY <1>1, <1>2, <1>3, <2>1 DEF Counters
  <2>8. loop' \in Loops /\ i' \in Int /\ j' \in Int
    BY <1>1, <1>2, <1>5, <2>1 DEF Loops
  <2>9. Inv'
    BY <1>1, <2>6, <2>7, <2>8, StepInv
  <2>10. QED
    BY <2>1, <2>9
<1>8. QED
  BY <1>6, <1>7

LEMMA NextInv ==
  ASSUME Inv, [Next]_vars
  PROVE  Inv'
<1>1. CASE Next
  BY <1>1, UpInv, DownInv, LeftInv, RightInv DEF Next
<1>2. CASE UNCHANGED vars
  BY <1>2 DEF vars, Inv, TypeOK, Counters, Filled, NextLine, NextSpot
<1>3. QED
  BY <1>1, <1>2

LEMMA SpecInv == Spec => []Inv
<1>1. QED
  BY InitInv, NextInv, PTL DEF Spec

-----------------------------------------------------------------------------
(***************************************************************************)
(* What is written to the array are addresses of nodes.                    *)
(***************************************************************************)
THEOREM TypeCorrect == Spec => []TypeOK
<1>1. Inv => TypeOK
  BY DEF Inv
<1>2. QED
  BY <1>1, SpecInv, PTL

(***************************************************************************)
(* fill_broadcast_neighbors computes the neighbourhood of Grid, in the     *)
(* order of FillOrder, in a matrix of any size and with any radius, also   *)
(* one that reaches over the border.                                       *)
(***************************************************************************)
THEOREM LoopsFillNeighbourhood == Spec => []FillsNeighbourhood
<1>1. Inv => FillsNeighbourhood
  <2> SUFFICES ASSUME Inv, loop = "done"
               PROVE  /\ ToSet(broadcast_neighbors) = Neighbours(addr)
                      /\ \A k \in 2 .. Len(broadcast_neighbors) :
                           FillOrder(addr, broadcast_neighbors[k - 1])
                             < FillOrder(addr, broadcast_neighbors[k])
    BY DEF FillsNeighbourhood
  <2>1. addr \in Node
    BY Numbers
  <2>2. PICK s \in Seq(Node) : s = broadcast_neighbors
    BY Numbers
  <2>3. PICK n \in Nat, r \in Nat : n = Len(s) /\ r = BROADCAST_RADIUS
    BY Sizes
  <2>4. Covers(addr, s, 0, 0, 2 * r + 1, 0)
    BY <2>2, <2>3 DEF Inv, Filled, NextLine, NextSpot
  <2>5. ASSUME NEW b \in Neighbours(addr)
        PROVE  ~Before(addr, b, 0, 0) /\ Before(addr, b, 2 * r + 1, 0)
    <3>1. PICK l \in 0 .. 2 * r, p \in Nat : l = Line(addr, b) /\ p = Spot(addr, b)
      BY <2>1, <2>3, NeighbourPlace, PlaceTypes
    <3>2. QED
      BY <3>1 DEF Before
  <2>6. \A b \in Node : (\E k \in 1 .. n : s[k] = b) <=> b \in Neighbours(addr)
    BY <2>3, <2>4, <2>5 DEF Covers
  <2>7. \A k \in 1 .. n : s[k] \in Node /\ s[k] \in Neighbours(addr)
    BY <2>3, <2>6
  <2>8. DOMAIN s = 1 .. n
    BY <2>3
  <2>9. ToSet(s) = Neighbours(addr)
    BY <2>6, <2>7, <2>8, NeighbourPlace, <2>1 DEF ToSet
  <2>10. ASSUME NEW k \in 2 .. n PROVE FillOrder(addr, s[k - 1]) < FillOrder(addr, s[k])
    <3>1. k \in 1 .. n /\ k - 1 \in 1 .. n
      OBVIOUS
    <3>2. Before(addr, s[k - 1], Line(addr, s[k]), Spot(addr, s[k]))
      BY <2>3, <2>4 DEF Covers, Sorted
    <3>3. QED
      BY <2>1, <2>7, <3>1, <3>2, OrderOfPlaces
  <2>11. QED
    BY <2>2, <2>3, <2>9, <2>10
<1>2. QED
  BY <1>1, SpecInv, PTL

-----------------------------------------------------------------------------
(***************************************************************************)
(* How long the array gets.                                                *)
(***************************************************************************)
\* A radius the array is long enough for.
RoomForAll ==
  CONNECTIONS > 4 * BROADCAST_RADIUS + 4 * ((BROADCAST_RADIUS - 1) * (BROADCAST_RADIUS - 1))

\* At most so many neighbours are in the first k rows above, and below.
RowsRoom(k) ==
  (IF k < BROADCAST_RADIUS THEN k ELSE BROADCAST_RADIUS - 1) * (2 * BROADCAST_RADIUS - 1)
    + (IF k < BROADCAST_RADIUS THEN 0 ELSE 1)

RoomSoFar ==
  IF loop = "up" THEN RowsRoom(row(addr) - 1 - i)
  ELSE RowsRoom(BROADCAST_RADIUS) +
       (IF loop = "down" THEN RowsRoom(i - row(addr) - 1)
        ELSE RowsRoom(BROADCAST_RADIUS) +
             (IF loop = "left" THEN col(addr) - 1 - j
              ELSE IF loop = "right" THEN BROADCAST_RADIUS + j - col(addr) - 1
              ELSE 2 * BROADCAST_RADIUS))

Room == Len(broadcast_neighbors) <= RoomSoFar

LEMMA RowsRoomFacts ==
  ASSUME NEW k \in 0 .. BROADCAST_RADIUS
  PROVE  /\ RowsRoom(k) \in Nat /\ RowsRoom(0) = 0
         /\ RowsRoom(k) <= RowsRoom(BROADCAST_RADIUS)
         /\ k + 1 < BROADCAST_RADIUS => RowsRoom(k + 1) = RowsRoom(k) + (2 * BROADCAST_RADIUS - 1)
         /\ k + 1 = BROADCAST_RADIUS => RowsRoom(k + 1) = RowsRoom(k) + 1
<1>1. PICK r \in Nat : r = BROADCAST_RADIUS /\ r > 0
  BY Sizes
<1>2. PICK w \in Nat : w = 2 * r - 1
  BY <1>1
<1>3. \A x \in Int : RowsRoom(x) = (IF x < r THEN x ELSE r - 1) * w + (IF x < r THEN 0 ELSE 1)
  BY <1>1, <1>2 DEF RowsRoom
<1>4. k \in 0 .. r /\ k \in Nat
  BY <1>1
<1>5. RowsRoom(0) = 0
  <2>1. 0 * w = 0
    OBVIOUS
  <2>2. QED
    BY <1>1, <1>3, <2>1
<1>6. RowsRoom(r) = (r - 1) * w + 1 /\ (r - 1) * w \in Nat
  <2>1. r - 1 \in Nat
    BY <1>1
  <2>2. (r - 1) * w \in Nat
    BY <2>1
  <2>3. QED
    BY <1>1, <1>3, <2>2
<1>7. CASE k = r
  BY <1>1, <1>5, <1>6, <1>7
<1>8. CASE k < r
  <2>1. RowsRoom(k) = k * w /\ k * w \in Nat
    BY <1>1, <1>3, <1>4, <1>8
  <2>2. k * w <= (r - 1) * w
    BY <1>1, <1>4, <1>8, Monotone
  <2>3. k + 1 < r => RowsRoom(k + 1) = k * w + w
    <3>1. (k + 1) * w = k * w + w
      BY <1>4
    <3>2. k + 1 < r => RowsRoom(k + 1) = (k + 1) * w + 0
      BY <1>3, <1>4
    <3>3. QED
      BY <2>1, <3>1, <3>2
  <2>4. k + 1 = r => k * w = (r - 1) * w
    BY <1>4
  <2>5. QED
    BY <1>1, <1>2, <1>5, <1>6, <2>1, <2>2, <2>3, <2>4
<1>9. QED
  BY <1>4, <1>7, <1>8

LEMMA RoomInit == Init => Room
<1> SUFFICES ASSUME Init PROVE Room
  OBVIOUS
<1>1. Inv /\ loop = "up" /\ i = row(addr) - 1 /\ Len(broadcast_neighbors) = 0
  BY InitInv DEF Init
<1>2. row(addr) - 1 - i = 0
  BY <1>1, Numbers
<1>3. RowsRoom(0) = 0
  BY RowsRoomFacts, Sizes
<1>4. QED
  BY <1>1, <1>2, <1>3 DEF Room, RoomSoFar

LEMMA RoomNext ==
  ASSUME Inv, Room, Next
  PROVE  Room'
<1>1. PICK r \in Nat, x \in Nat, c \in Nat, q \in Int, d \in Int, n \in Nat :
        /\ r = BROADCAST_RADIUS /\ r > 0 /\ x = row(addr) /\ c = col(addr) /\ q = i /\ d = j
        /\ n = Len(broadcast_neighbors)
  <2>1. /\ row(addr) \in Nat /\ col(addr) \in Nat /\ i \in Int /\ j \in Int
        /\ Len(broadcast_neighbors) \in Nat /\ BROADCAST_RADIUS \in Nat /\ BROADCAST_RADIUS > 0
    BY Numbers, Sizes
  <2>2. QED
    BY <2>1
<1>2. PICK h \in Nat : h = RowsRoom(r)
  <2>1. r \in 0 .. BROADCAST_RADIUS
    BY <1>1
  <2>2. QED
    BY <2>1, RowsRoomFacts
<1>3. RowsRoom(0) = 0
  BY RowsRoomFacts, Sizes
<1>4. addr' = addr
  BY DEF Next, Up, Down, Left, Right
<1>5. PICK n1 \in Nat : n1 = Len(broadcast_neighbors')
  <2>1. Inv'
    BY UpInv, DownInv, LeftInv, RightInv DEF Next
  <2>2. broadcast_neighbors' \in Seq(Node)
    BY <2>1 DEF Inv, TypeOK
  <2>3. QED
    BY <2>2
<1>6. CASE Up
  <2>1. loop = "up" /\ x - 1 - r <= q /\ q <= x - 1
    BY <1>1, <1>6 DEF Up, Inv, Counters
  <2>2. PICK k \in 0 .. r : k = x - 1 - q
    BY <2>1
  <2>3. PICK l \in Nat : /\ l = RowsRoom(k) /\ l <= h
                         /\ k + 1 < r => RowsRoom(k + 1) = l + (2 * r - 1)
                         /\ k + 1 = r => RowsRoom(k + 1) = l + 1
    BY <1>1, <1>2, RowsRoomFacts
  <2>4. n <= l
    BY <1>1, <2>1, <2>2, <2>3 DEF Room, RoomSoFar
  <2>5. CASE loop' = "up"
    <3>1. i' = q - 1 /\ n1 <= n + RowRoom(i) /\ i # x + r
      BY <1>1, <1>5, <1>6, <2>5, UpInv
    <3>2. RowRoom(i) = IF q = x - r THEN 1 ELSE 2 * r - 1
      BY <1>1, <3>1 DEF RowRoom
    <3>3. x - r <= q /\ x - 1 - (q - 1) = k + 1
      <4>1. i >= row(addr) - BROADCAST_RADIUS
        BY <1>6, <2>1, <2>5 DEF Up
      <4>2. QED
        BY <1>1, <2>2, <4>1
    <3>4. n1 <= RowsRoom(k + 1)
      BY <2>2, <2>3, <2>4, <3>1, <3>2, <3>3
    <3>5. RoomSoFar' = RowsRoom(k + 1)
      BY <1>1, <1>4, <2>5, <3>1, <3>3 DEF RoomSoFar, RowsRoom
    <3>6. QED
      BY <1>5, <3>4, <3>5 DEF Room
  <2>6. CASE loop' # "up"
    <3>1. loop' = "down" /\ i' = x + 1 /\ UNCHANGED broadcast_neighbors
      BY <1>1, <1>6, <2>6, UpInv
    <3>2. (x + 1) - x - 1 = 0
      OBVIOUS
    <3>3. RoomSoFar' = h + 0
      BY <1>1, <1>2, <1>3, <1>4, <3>1, <3>2 DEF RoomSoFar, RowsRoom
    <3>4. Len(broadcast_neighbors') <= h
      BY <1>1, <2>3, <2>4, <3>1
    <3>5. QED
      BY <3>3, <3>4 DEF Room
  <2>7. QED
    BY <2>5, <2>6
<1>7. CASE Down
  <2>1. loop = "down" /\ x + 1 <= q /\ q <= x + r + 1
    BY <1>1, <1>7 DEF Down, Inv, Counters
  <2>2. PICK k \in 0 .. r : k = q - x - 1
    BY <2>1
  <2>3. PICK l \in Nat : /\ l = RowsRoom(k) /\ l <= h
                         /\ k + 1 < r => RowsRoom(k + 1) = l + (2 * r - 1)
                         /\ k + 1 = r => RowsRoom(k + 1) = l + 1
    BY <1>1, <1>2, RowsRoomFacts
  <2>4. n <= h + l
    BY <1>1, <1>2, <2>1, <2>2, <2>3 DEF Room, RoomSoFar
  <2>5. CASE loop' = "down"
    <3>1. i' = q + 1 /\ n1 <= n + RowRoom(i) /\ i # x - r
      BY <1>1, <1>5, <1>7, <2>5, DownInv
    <3>2. RowRoom(i) = IF q = x + r THEN 1 ELSE 2 * r - 1
      BY <1>1, <3>1 DEF RowRoom
    <3>3. q <= x + r /\ (q + 1) - x - 1 = k + 1
      <4>1. i <= row(addr) + BROADCAST_RADIUS
        BY <1>7, <2>1, <2>5 DEF Down
      <4>2. QED
        BY <1>1, <2>2, <4>1, SMTT(30)
    <3>4. PICK p \in Nat : p = RowsRoom(k + 1) /\ n1 <= h + p
      BY <2>2, <2>3, <2>4, <3>1, <3>2, <3>3
    <3>5. RoomSoFar' = h + p
      BY <1>1, <1>2, <1>4, <2>5, <3>1, <3>3, <3>4 DEF RoomSoFar, RowsRoom
    <3>6. QED
      BY <1>5, <3>4, <3>5 DEF Room
  <2>6. CASE loop' # "down"
    <3>1. loop' = "left" /\ j' = c - 1 /\ UNCHANGED broadcast_neighbors
      BY <1>1, <1>7, <2>6, DownInv
    <3>2. RoomSoFar' = h + (h + 0)
      BY <1>1, <1>2, <1>4, <3>1 DEF RoomSoFar, RowsRoom
    <3>3. Len(broadcast_neighbors') <= h + (h + 0)
      BY <1>1, <2>3, <2>4, <3>1
    <3>4. QED
      BY <3>2, <3>3 DEF Room
  <2>7. QED
    BY <2>5, <2>6
<1>8. CASE Left
  <2>1. loop = "left" /\ c - 1 - r <= d /\ d <= c - 1
    BY <1>1, <1>8 DEF Left, Inv, Counters
  <2>2. n <= h + (h + (c - 1 - d))
    BY <1>1, <1>2, <2>1 DEF Room, RoomSoFar
  <2>3. CASE loop' = "left"
    <3>1. j' = d - 1 /\ n1 = n + 1
      BY <1>1, <1>5, <1>8, <2>3, LeftInv
    <3>2. RoomSoFar' = h + (h + (c - 1 - (d - 1)))
      BY <1>1, <1>2, <1>4, <2>3, <3>1 DEF RoomSoFar, RowsRoom
    <3>3. QED
      BY <1>5, <2>2, <3>1, <3>2 DEF Room
  <2>4. CASE loop' # "left"
    <3>1. loop' = "right" /\ j' = c + 1 /\ UNCHANGED broadcast_neighbors
      BY <1>1, <1>8, <2>4, LeftInv
    <3>2. RoomSoFar' = h + (h + (r + (c + 1) - c - 1))
      BY <1>1, <1>2, <1>4, <3>1 DEF RoomSoFar, RowsRoom
    <3>3. Len(broadcast_neighbors') = n
      BY <1>1, <3>1
    <3>4. QED
      BY <2>1, <2>2, <3>2, <3>3 DEF Room
  <2>5. QED
    BY <2>3, <2>4
<1>9. CASE Right
  <2>1. loop = "right" /\ c + 1 <= d /\ d <= c + r + 1
    BY <1>1, <1>9 DEF Right, Inv, Counters
  <2>2. n <= h + (h + (r + d - c - 1))
    BY <1>1, <1>2, <2>1 DEF Room, RoomSoFar
  <2>3. CASE loop' = "right"
    <3>1. j' = d + 1 /\ n1 = n + 1
      BY <1>1, <1>5, <1>9, <2>3, RightInv
    <3>2. RoomSoFar' = h + (h + (r + (d + 1) - c - 1))
      BY <1>1, <1>2, <1>4, <2>3, <3>1 DEF RoomSoFar, RowsRoom
    <3>3. QED
      BY <1>5, <2>2, <3>1, <3>2 DEF Room
  <2>4. CASE loop' # "right"
    <3>1. loop' = "done" /\ UNCHANGED broadcast_neighbors
      BY <1>9, <2>4, RightInv
    <3>2. RoomSoFar' = h + (h + 2 * r)
      BY <1>1, <1>2, <1>4, <3>1 DEF RoomSoFar, RowsRoom
    <3>3. Len(broadcast_neighbors') = n
      BY <1>1, <3>1
    <3>4. QED
      BY <2>1, <2>2, <3>2, <3>3 DEF Room
  <2>5. QED
    BY <2>3, <2>4
<1>10. QED
  BY <1>6, <1>7, <1>8, <1>9 DEF Next

\* The two halves above and below and the two arms beside the node.
LEMMA AllRooms ==
  ASSUME Inv, Room, RoomForAll
  PROVE  ServerAlsoCounted
<1>1. PICK r \in Nat, x \in Nat, c \in Nat, q \in Int, d \in Int, n \in Nat :
        /\ r = BROADCAST_RADIUS /\ r > 0 /\ x = row(addr) /\ c = col(addr) /\ q = i /\ d = j
        /\ n = Len(broadcast_neighbors)
  <2>1. /\ row(addr) \in Nat /\ col(addr) \in Nat /\ i \in Int /\ j \in Int
        /\ Len(broadcast_neighbors) \in Nat /\ BROADCAST_RADIUS \in Nat /\ BROADCAST_RADIUS > 0
    BY Numbers, Sizes
  <2>2. QED
    BY <2>1
<1>2. PICK h \in Nat : h = RowsRoom(r) /\ \A k \in 0 .. r : RowsRoom(k) \in Nat /\ RowsRoom(k) <= h
  <2>1. r \in 0 .. BROADCAST_RADIUS
    BY <1>1
  <2>2. QED
    BY <1>1, <2>1, RowsRoomFacts
<1>3. n <= h + (h + 2 * r)
  <2>1. CASE loop = "up"
    <3>1. PICK k \in 0 .. r : k = x - 1 - q
      BY <1>1, <2>1 DEF Inv, Counters
    <3>2. n <= RowsRoom(k)
      BY <1>1, <2>1, <3>1 DEF Room, RoomSoFar
    <3>3. QED
      BY <1>2, <3>2
  <2>2. CASE loop = "down"
    <3>1. PICK k \in 0 .. r : k = q - x - 1
      BY <1>1, <2>2 DEF Inv, Counters
    <3>2. n <= h + RowsRoom(k)
      BY <1>1, <1>2, <2>2, <3>1 DEF Room, RoomSoFar
    <3>3. QED
      BY <1>2, <3>2
  <2>3. CASE loop = "left"
    <3>1. c - 1 - d <= r
      BY <1>1, <2>3 DEF Inv, Counters
    <3>2. n <= h + (h + (c - 1 - d))
      BY <1>1, <1>2, <2>3 DEF Room, RoomSoFar
    <3>3. QED
      BY <3>1, <3>2
  <2>4. CASE loop = "right"
    <3>1. d - c - 1 <= r
      BY <1>1, <2>4 DEF Inv, Counters
    <3>2. n <= h + (h + (r + d - c - 1))
      BY <1>1, <1>2, <2>4 DEF Room, RoomSoFar
    <3>3. QED
      BY <3>1, <3>2
  <2>5. CASE loop = "done"
    BY <1>1, <1>2, <2>5 DEF Room, RoomSoFar
  <2>6. QED
    BY <2>1, <2>2, <2>3, <2>4, <2>5 DEF Inv, TypeOK, Loops
<1>4. h + (h + 2 * r) = 4 * r + 4 * ((r - 1) * (r - 1))
  <2>1. h = (r - 1) * (2 * r - 1) + 1
    BY <1>1, <1>2 DEF RowsRoom
  <2>2. (r - 1) * (2 * r - 1) = 2 * ((r - 1) * (r - 1)) + (r - 1)
    OBVIOUS
  <2>3. PICK s \in Int : s = (r - 1) * (r - 1)
    OBVIOUS
  <2>4. QED
    BY <2>1, <2>2, <2>3
<1>5. QED
  BY <1>1, <1>3, <1>4, Sizes DEF RoomForAll, ServerAlsoCounted

(***************************************************************************)
(* broadcast_neighbors[neighbor_num++] never leaves the array, and one     *)
(* entry is left for the server, whenever CONNECTIONS is more than         *)
(* 4r + 4(r - 1)^2 for a radius r.  With the radius 3 of settings.h that   *)
(* is 29 entries, the value of node_essentials.c: not one too many.        *)
(***************************************************************************)
THEOREM ServerHasAnEntry ==
  ASSUME RoomForAll
  PROVE  Spec => []ServerAlsoCounted
<1>1. Inv /\ Room /\ [Next]_vars => Room'
  <2>1. CASE UNCHANGED vars
    BY <2>1 DEF vars, Room, RoomSoFar, RowsRoom
  <2>2. QED
    BY <2>1, RoomNext
<1>2. Inv /\ Room => ServerAlsoCounted
  BY AllRooms
<1>3. QED
  BY <1>1, <1>2, SpecInv, RoomInit, PTL DEF Spec
=============================================================================
