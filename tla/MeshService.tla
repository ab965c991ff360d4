---------------------------- MODULE MeshService -----------------------------
(***************************************************************************)
(* What the mesh promises its clients, without routes, floods, contests or *)
(* processes: a message is dealt with only by nodes it is for, the server  *)
(* is told what those nodes made of it, and, unless nodes forget, each     *)
(* deals with it once, and one node alone with a unicast.                  *)
(***************************************************************************)
EXTENDS Naturals, Sequences

CONSTANTS
  Node,
  Reach,        \* Reach[n]: the nodes in reach of node n
  Requests,
  Good,         \* the requests that the applications accept
  MaxRequests,
  Once          \* nodes are neither reset nor started afresh

VARIABLES
  issued,       \* the requests of clients, in the order of the server
  handled,      \* how often a node accepted a message: 0, 1, more
  notes         \* what the server was told of a message

vars == <<issued, handled, notes>>

Uid == 1 .. MaxRequests

Init ==
  /\ issued = << >>
  /\ handled = [u \in Uid |-> [n \in Node |-> 0]]
  /\ notes = [u \in Uid |-> {}]

Ask(r) ==
  /\ Len(issued) < MaxRequests
  /\ issued' = Append(issued, r)
  /\ UNCHANGED <<handled, notes>>

Addressees(r) ==
  IF r.cmd = "SEND" THEN {r.receiver} \cap Node
  ELSE IF r.sender \in Node THEN Reach[r.sender] ELSE {}

\* The nodes of which none may have accepted message u before n does.
Rivals(r, n) == IF r.cmd = "UNICAST" THEN Addressees(r) ELSE {n}

Deal(u, n) ==
  LET r == issued[u]
      verdict == (IF r \in Good THEN {"GOT"} ELSE {"FAIL"}) \cup
                 (IF r.cmd = "UNICAST" THEN {"GOT"} ELSE {})
  IN
  /\ n \in Addressees(r)
  /\ Once /\ r \in Good => \A m \in Rivals(r, n) : handled[u][m] = 0
  /\ handled' = IF r \in Good /\ handled[u][n] < 2
                THEN [handled EXCEPT ![u][n] = @ + 1] ELSE handled
  /\ notes' \in {notes, [notes EXCEPT ![u] = @ \cup verdict]}
  /\ UNCHANGED issued

Next ==
  \/ \E r \in Requests : Ask(r)
  \/ \E u \in 1 .. Len(issued), n \in Node : Deal(u, n)

Spec == Init /\ [][Next]_vars
=============================================================================
