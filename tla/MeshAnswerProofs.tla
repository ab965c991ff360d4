-------------------------- MODULE MeshAnswerProofs --------------------------
(***************************************************************************)
(* What can be lost in a mesh in which nobody dies: when nothing is under  *)
(* way any more, every broadcast has been handled by all nodes in reach,   *)
(* every unicast by one, and every send has been notified unless its flood *)
(* has spread as far as its ttl goes.                                      *)
(*                                                                         *)
(* The argument is that of flooding.  While a send is not answered, it is  *)
(* under way itself, or it has become a flood: then there is a node where  *)
(* the flood began, and every live neighbour of that node and of the nodes *)
(* that have seen the flood has seen it too or is about to.  In a quiet    *)
(* mesh that is connected nobody is left out, the receiver neither.  Only  *)
(* a node that drops the last copy for want of ttl makes a hole, and that  *)
(* copy has TTL - 1 nodes behind it.                                       *)
(***************************************************************************)
EXTENDS MeshServiceProofs

(***************************************************************************)
(* The mesh: nobody is reset, killed or started, and the message tables    *)
(* and the connection tables are large enough.                             *)
(***************************************************************************)
Steady ==
  /\ Few /\ MaxRevives = 0
  /\ \A n \in Node : Cardinality(Neighbours(n)) < CONNECTIONS

-----------------------------------------------------------------------------
(***************************************************************************)
(* Writing reaches every peer that lives.                                  *)
(***************************************************************************)
\* Who was killed before the start is down and nobody else, and the server
\* is connected to all others.
Awake ==
  /\ \A p \in Peer : proc[p] = IF p \in Killed THEN "down" ELSE "up"
  /\ \A q \in Node : conn[Server][q] = IF q \in Killed THEN "none" ELSE "open"

LEMMA NeighboursFinite ==
  ASSUME NEW n \in Node
  PROVE  /\ IsFiniteSet(Neighbours(n)) /\ Cardinality(Neighbours(n)) \in Nat
         /\ Neighbours(n) \subseteq Node /\ n \notin Neighbours(n)
<1>1. IsFiniteSet(Node)
  BY NodeFacts, FS_Interval DEF Node
<1>2. Neighbours(n) \subseteq Node
  BY DEF Neighbours
<1>3. IsFiniteSet(Neighbours(n)) /\ Cardinality(Neighbours(n)) \in Nat
  BY <1>1, <1>2, FS_Subset, FS_CardinalityType
<1>4. n \notin Neighbours(n)
  <2>1. row(n) - row(n) = 0 /\ col(n) - col(n) = 0
    BY RowColInt
  <2>2. ~InReach(0, 0)
    BY DEF InReach
  <2>3. QED
    BY <2>1, <2>2 DEF Neighbours
<1>5. QED
  BY <1>2, <1>3, <1>4

\* The order in which a node writes is strict.
LEMMA BeforeStrict ==
  ASSUME NEW n \in Node, NEW q \in Peer
  PROVE  ~Before(n, q, q)
<1>1. n # Server
  BY NodeFacts
<1>2. CASE q = Server
  BY <1>1, <1>2 DEF Before
<1>3. CASE q # Server
  <2>1. q \in Node
    BY <1>3 DEF Peer
  <2>2. /\ row(n) \in Int /\ col(n) \in Int /\ row(q) \in Int /\ col(q) \in Int
        /\ BROADCAST_RADIUS \in Int
    BY <2>1, RowColInt, GridAssumption
  <2>3. FillOrder(n, q) \in Int
    <3> DEFINE di == row(q) - row(n)
               dj == col(q) - col(n)
               r  == BROADCAST_RADIUS
               line == IF di < 0 THEN -di - 1 ELSE IF di > 0 THEN r + di - 1 ELSE 2 * r
               spot == IF dj <= 0 THEN -dj ELSE r + dj
    <3>1. di \in Int /\ dj \in Int /\ r \in Int
      BY <2>2
    <3>2. line \in Int /\ spot \in Int /\ 2 * r + 1 \in Int
      <4> HIDE DEF di, dj
      <4>1. QED
        BY <3>1
    <3>3. FillOrder(n, q) = line * (2 * r + 1) + spot
      BY DEF FillOrder
    <3> HIDE DEF line, spot, r
    <3>4. QED
      BY <3>2, <3>3
  <2>4. QED
    BY <1>1, <1>3, <2>3 DEF Before
<1>4. QED
  BY <1>2, <1>3

\* get_conn_and_send succeeds for every peer that lives.
LEMMA ReachedAlive ==
  ASSUME Steady, IInv, Calm, Awake, NEW n \in Node,
         NEW to \in SUBSET (Neighbours(n) \cup {Server}), NEW q \in to, q \notin Killed
  PROVE  q \in Reached(n, to)
<1>1. q \in Peer /\ n \in Peer /\ n # Server
  BY NeighboursFinite, NodeFacts DEF Peer
<1>2. conn[n][q] \in {"none", "open"} /\ \A b \in to : conn[n][b] # "broken"
  BY <1>1, NeighboursFinite, NodeFacts DEF Calm, Peer
<1>3. q \in Attempted(n, to)
  BY <1>2 DEF Attempted
<1>4. CASE conn[n][q] = "open"
  BY <1>3, <1>4 DEF Reached
<1>5. CASE conn[n][q] = "none"
  <2>1. proc[q] # "down"
    BY <1>1 DEF Awake
  <2>2. PICK used, opened :
          /\ used = {r \in Peer : conn[n][r] # "none"}
          /\ opened = {r \in Attempted(n, to) : /\ conn[n][r] = "none" /\ proc[r] # "down"
                                                /\ Before(n, r, q)}
    OBVIOUS
  <2>3. PICK S : S = Neighbours(n) \cup {Server}
    OBVIOUS
  <2>4. used \subseteq S \ {q}
    BY <1>5, <2>2, <2>3 DEF IInv, NetInv, ConnectsToNeighbours
  <2>5. opened \subseteq S \ {q}
    <3>1. ~Before(n, q, q)
      BY <1>1, BeforeStrict
    <3>2. QED
      BY <2>2, <2>3, <3>1, ReachedFacts
  <2>6. IsFiniteSet(S) /\ Cardinality(S) = Cardinality(Neighbours(n)) + 1
    <3>1. Server \notin Neighbours(n)
      BY NeighboursFinite, NodeFacts
    <3>2. QED
      BY <2>3, <3>1, NeighboursFinite, FS_AddElement
  <2>7. IsFiniteSet(S \ {q}) /\ Cardinality(S \ {q}) = Cardinality(Neighbours(n))
    <3>1. q \in S
      BY <2>3
    <3>2. IsFiniteSet(S \ {q}) /\ Cardinality(S \ {q}) = Cardinality(S) - 1
      BY <2>6, <3>1, FS_RemoveElement
    <3>3. QED
      BY <2>6, <3>2, NeighboursFinite
  <2>8. Cardinality(used \cup opened) <= Cardinality(Neighbours(n))
        /\ Cardinality(used \cup opened) \in Nat
    BY <2>4, <2>5, <2>7, FS_Subset, FS_CardinalityType
  <2>9. Cardinality(used \cup opened) < CONNECTIONS
    BY <2>8, NeighboursFinite, GridAssumption DEF Steady
  <2>10. get_conn(n, to, q)
    BY <1>1, <2>1, <2>2, <2>9 DEF get_conn
  <2>11. QED
    BY <1>3, <1>5, <2>10 DEF Reached
<1>6. QED
  BY <1>2, <1>4, <1>5

\* Every process has started once.
LEMMA GenZero ==
  ASSUME Steady, IInv
  PROVE  /\ \A p \in Peer : gen[p] = 0
         /\ Gen = {0}
<1>1. Gen = {0}
  BY MeshAssumption DEF Steady, Few, Unbroken, Gen
<1>2. QED
  BY <1>1 DEF IInv, NetInv
-----------------------------------------------------------------------------
(***************************************************************************)
(* What is under way, in the network N: a message of this kind that serves *)
(* request u waits on link k, or on some link.                             *)
(***************************************************************************)
HasIn(N, k, req, u) ==
  \E i \in 1 .. Len(N[k]) : N[k][i].req = req /\ N[k][i].app.uid = u

SomeIn(N, req, u) == \E k \in Link : HasIn(N, k, req, u)

\* What is not taken stays, and what reaches a peer waits there.
LEMMA ExchangeHas ==
  ASSUME IInv, Calm, NEW p \in Peer, NEW from \in SUBSET Link, NEW to \in SUBSET Peer, NEW msg,
         \A k \in from : net[k] # << >>,
         Exchange(p, from, to, msg)
  PROVE  /\ \A k \in Link : \A req, u : HasIn(net, k, req, u) =>
              \/ HasIn(net', k, req, u)
              \/ k \in from /\ Head(net[k]).req = req /\ Head(net[k]).app.uid = u
         /\ \A k \in Link : k[1] = p /\ k[2] \in Reached(p, to) /\ k[3] = gen[p] =>
              HasIn(net', k, msg[k[2]].req, msg[k[2]].app.uid)
<1> DEFINE left == [k \in Link |-> IF k \in from THEN Tail(net[k]) ELSE net[k]]
           sent == [k \in Link |->
                      IF k[1] = p /\ k[2] \in Reached(p, to) /\ k[3] = gen[p]
                      THEN Append(left[k], msg[k[2]]) ELSE left[k]]
<1>1. ~Dies(p, to)
  BY DEF Dies, Calm
<1>2. net' = sent
  BY <1>1 DEF Exchange
<1>3. \A k \in Link : net[k] \in Seq(Message)
  BY DEF IInv, NetInv
<1>4. ASSUME NEW k \in Link
      PROVE  left[k] \in Seq(Message)
  BY <1>3
<1>5. ASSUME NEW k \in Link, NEW req, NEW u, HasIn(net, k, req, u)
      PROVE  \/ HasIn(net', k, req, u)
             \/ k \in from /\ Head(net[k]).req = req /\ Head(net[k]).app.uid = u
  <2>1. PICK i \in 1 .. Len(net[k]) : net[k][i].req = req /\ net[k][i].app.uid = u
    BY <1>5 DEF HasIn
  <2>2. PICK s : s = left[k] /\ s \in Seq(Message)
    BY <1>4
  <2>3. \A j \in 1 .. Len(s) : j \in 1 .. Len(net'[k]) /\ net'[k][j] = s[j]
    <3>1. net'[k] = s \/ \E y : net'[k] = Append(s, y)
      BY <1>2, <2>2
    <3>2. CASE net'[k] = s
      BY <3>2
    <3>3. ASSUME NEW y, net'[k] = Append(s, y)
          PROVE  \A j \in 1 .. Len(s) : j \in 1 .. Len(net'[k]) /\ net'[k][j] = s[j]
      BY <2>2, <3>3
    <3>4. QED
      BY <3>1, <3>2, <3>3
  <2>4. CASE k \notin from
    <3>1. s = net[k]
      BY <2>2, <2>4
    <3>2. QED
      BY <2>1, <2>3, <3>1 DEF HasIn
  <2>5. CASE k \in from /\ i = 1
    <3>1. Head(net[k]) = net[k][1]
      BY <1>3, <2>5
    <3>2. QED
      BY <2>1, <2>5, <3>1
  <2>6. CASE k \in from /\ i # 1
    <3>1. s = Tail(net[k])
      BY <2>2, <2>6
    <3>2. i - 1 \in 1 .. Len(s) /\ s[i - 1] = net[k][i]
      BY <1>3, <2>1, <2>6, <3>1
    <3>3. QED
      BY <2>1, <2>3, <3>2 DEF HasIn
  <2>7. QED
    BY <2>4, <2>5, <2>6
<1>6. ASSUME NEW k \in Link, k[1] = p, k[2] \in Reached(p, to), k[3] = gen[p]
      PROVE  HasIn(net', k, msg[k[2]].req, msg[k[2]].app.uid)
  <2>1. PICK s : s = left[k] /\ s \in Seq(Message)
    BY <1>4
  <2>2. net'[k] = Append(s, msg[k[2]])
    BY <1>2, <1>6, <2>1
  <2>3. Len(s) + 1 \in 1 .. Len(net'[k]) /\ net'[k][Len(s) + 1] = msg[k[2]]
    BY <2>1, <2>2
  <2>4. QED
    BY <2>3 DEF HasIn
<1>7. QED
  BY <1>5, <1>6

-----------------------------------------------------------------------------
(***************************************************************************)
(* What a setter does to the entries of a message table.                   *)
(***************************************************************************)
\* Entry i gets the id and the flag, and nothing else changes.
Enters(t, s, id, flag, i) ==
  /\ i \in Entry /\ s.messages[i].id = id
  /\ s.messages[i].flags = t.messages[i].flags \cup {flag}
  /\ \A j \in Entry : j # i => s.messages[j] = t.messages[j]
  /\ \/ i \in Matches(t, id) /\ s.message_num = t.message_num
     \/ /\ ~is_id_set(t, id) /\ i = t.message_num /\ s.message_num = i + 1

LEMMA SetEnters ==
  ASSUME NEW t \in MessageTable, NEW m \in Nat, m <= MAX_MESSAGE_DATA, Distinct(t, m),
         NEW id \in MessageId, id < m, NEW flag \in Flags
  PROVE  \E i \in Entry : Enters(t, SetFlag(Looked(t, id), id, flag), id, flag, i)
<1>1. PICK v : v = Looked(t, id) /\ v \in MessageTable /\ Distinct(v, m) /\ is_id_set(v, id)
  BY LookedType, LookedKeeps, KnownAfterLook
<1>2. PICK i : i \in Matches(v, id)
  BY <1>1 DEF is_id_set
<1>3. i \in Entry /\ \A j \in Matches(v, id) : j = i
  BY <1>1, <1>2 DEF Matches, Distinct
<1>4. PICK s : s = SetFlag(v, id, flag)
  OBVIOUS
<1>5. /\ s.message_num = v.message_num
      /\ s.messages[i] = [id |-> id, flags |-> v.messages[i].flags \cup {flag}]
      /\ \A j \in Entry : j # i => s.messages[j] = v.messages[j]
  BY <1>2, <1>3, <1>4 DEF SetFlag
<1>6. s.messages[i].id = id /\ s.messages[i].flags = v.messages[i].flags \cup {flag}
  BY <1>5
<1>7. CASE is_id_set(t, id)
  <2>1. v = t
    BY <1>1, <1>7 DEF Looked
  <2>2. Enters(t, s, id, flag, i)
    BY <1>2, <1>3, <1>5, <1>6, <2>1 DEF Enters
  <2>3. QED
    BY <1>1, <1>3, <1>4, <2>2
<1>8. CASE ~is_id_set(t, id)
  <2>1. PICK n : n = t.message_num /\ n \in Nat /\ n < MAX_MESSAGE_DATA /\ n \in Entry
    <3>1. id \in 0 .. m - 1
      BY DEF MessageId
    <3>2. QED
      BY <1>8, <3>1, RoomLeft, TableFacts, EntryFacts
  <2>2. PICK e : e = [id |-> id, flags |-> t.messages[n].flags]
    OBVIOUS
  <2>3. v = Put(t, n, e)
    BY <1>1, <1>8, <2>1, <2>2, EntryFacts DEF Looked, set_new_id
  <2>4. v.message_num = n + 1 /\ v.messages = [t.messages EXCEPT ![n] = e]
    BY <2>3 DEF Put
  <2>5. v.messages[n] = e /\ \A j \in Entry : j # n => v.messages[j] = t.messages[j]
    BY <2>1, <2>4, TableFacts
  <2>6. n \in Matches(v, id)
    BY <2>1, <2>2, <2>4, <2>5 DEF Matches
  <2>7. i = n
    BY <1>3, <2>6
  <2>8. Enters(t, s, id, flag, i)
    BY <1>3, <1>5, <1>6, <1>8, <2>1, <2>2, <2>4, <2>5, <2>7 DEF Enters
  <2>9. QED
    BY <1>1, <1>3, <1>4, <2>8
<1>9. QED
  BY <1>7, <1>8

\* Another id is known as before.
LEMMA EntersOther ==
  ASSUME NEW t \in MessageTable, NEW s \in MessageTable, NEW id, NEW flag, NEW i \in Entry,
         Enters(t, s, id, flag, i), NEW e, e # id, NEW g
  PROVE  /\ is_id_set(s, e) => is_id_set(t, e)
         /\ Flagged(s, e, g) => Flagged(t, e, g)
<1>1. t.message_num \in Nat /\ i \in Nat /\ Entry \subseteq Nat
  BY TableFacts, EntryFacts
<1>2. \A j \in Entry : (j \in Matches(s, e)) <=> (j \in Matches(t, e))
  <2> SUFFICES ASSUME NEW j \in Entry PROVE (j \in Matches(s, e)) <=> (j \in Matches(t, e))
    OBVIOUS
  <2>1. CASE i \in Matches(t, id) /\ s.message_num = t.message_num
    <3>1. CASE j = i
      BY <2>1, <3>1 DEF Enters, Matches
    <3>2. CASE j # i
      BY <2>1, <3>2 DEF Enters, Matches
    <3>3. QED
      BY <3>1, <3>2
  <2>2. CASE i = t.message_num /\ s.message_num = i + 1
    <3>1. j < i + 1 <=> j < i \/ j = i
      BY <1>1
    <3>2. ~(i < i)
      BY <1>1
    <3>3. CASE j = i
      BY <2>2, <3>2, <3>3 DEF Enters, Matches
    <3>4. CASE j # i
      BY <2>2, <3>1, <3>4 DEF Enters, Matches
    <3>5. QED
      BY <3>3, <3>4
  <2>3. QED
    BY <2>1, <2>2 DEF Enters
<1>3. Matches(s, e) = Matches(t, e)
  BY <1>2 DEF Matches
<1>4. is_id_set(s, e) = is_id_set(t, e) /\ FirstMatch(s, e) = FirstMatch(t, e)
  BY <1>3 DEF is_id_set, FirstMatch
<1>5. i \notin Matches(s, e)
  BY DEF Enters, Matches
<1>6. ASSUME Flagged(s, e, g)
      PROVE  Flagged(t, e, g)
  <2>1. PICK j : j \in Matches(s, e)
    BY <1>6 DEF Flagged, is_id_set
  <2>2. PICK k \in Matches(s, e) : \A h \in Matches(s, e) : k <= h
    <3>1. Matches(s, e) \in SUBSET Nat /\ Matches(s, e) # {}
      BY <1>1, <2>1 DEF Matches
    <3>2. QED
      BY <3>1, HasLeast
  <2>3. FirstMatch(s, e) \in Matches(s, e)
    BY <2>2 DEF FirstMatch
  <2>4. PICK f : f = FirstMatch(s, e) /\ f \in Matches(s, e) /\ f \in Entry
    BY <2>3 DEF Matches
  <2>5. f # i /\ s.messages[f] = t.messages[f]
    BY <1>5, <2>4 DEF Enters
  <2>6. g \in s.messages[f].flags /\ is_id_set(s, e)
    BY <1>6, <2>4 DEF Flagged
  <2>7. QED
    BY <1>4, <2>4, <2>5, <2>6 DEF Flagged
<1>7. QED
  BY <1>4, <1>6

(***************************************************************************)
(* Tables in which an answer was given only to a message that was seen.    *)
(***************************************************************************)
Neat(t) ==
  \A i \in Entry : "stop_inverse" \in t.messages[i].flags =>
                     i < t.message_num /\ "was_message" \in t.messages[i].flags

LEMMA EntersNeat ==
  ASSUME NEW t \in MessageTable, NEW s \in MessageTable, NEW id, NEW flag, NEW i \in Entry,
         Enters(t, s, id, flag, i), Neat(t),
         flag = "stop_inverse" => "was_message" \in t.messages[i].flags
  PROVE  Neat(s)
<1>1. /\ t.message_num \in Nat /\ i \in Nat /\ Entry \subseteq Nat
  BY TableFacts, EntryFacts
<1>2. i < s.message_num /\ t.message_num <= s.message_num
  BY <1>1 DEF Enters, Matches
<1>3. ASSUME NEW j \in Entry, "stop_inverse" \in s.messages[j].flags
      PROVE  j < s.message_num /\ "was_message" \in s.messages[j].flags
  <2>1. CASE j = i
    BY <1>2, <1>3, <2>1 DEF Enters, Neat
  <2>2. CASE j # i
    <3>1. s.messages[j] = t.messages[j]
      BY <2>2 DEF Enters
    <3>2. j < t.message_num /\ "was_message" \in s.messages[j].flags
      BY <1>3, <3>1 DEF Neat
    <3>3. QED
      BY <1>1, <1>2, <3>2, TableFacts
  <2>3. QED
    BY <2>1, <2>2
<1>4. QED
  BY <1>3 DEF Neat

\* The setters that the handlers call keep tables neat.
LEMMA SettersNeat ==
  ASSUME NEW t \in MessageTable, NEW m \in Nat, m <= MAX_MESSAGE_DATA, Distinct(t, m), Neat(t),
         NEW id \in MessageId, id < m
  PROVE  LET w == set_was_message_by_id(t, id)
         IN  /\ w \in MessageTable /\ Distinct(w, m) /\ Neat(w)
             /\ get_was_message_by_id(w, id)
             /\ ~get_was_message_by_id(t, id) => ~get_inverse_by_id(w, id)
             /\ Neat(set_inverse_by_id(w, id))
             /\ get_was_message_by_id(set_inverse_by_id(w, id), id)
             /\ Neat(set_unicast_status_by_id(t, id))
<1>1. PICK w : w = SetFlag(Looked(t, id), id, "was_message")
  OBVIOUS
<1>2. w \in MessageTable /\ Distinct(w, m) /\ is_id_set(w, id) /\ Flagged(w, id, "was_message")
  BY <1>1, SetKeeps DEF Flags
<1>3. PICK i \in Entry : Enters(t, w, id, "was_message", i)
  BY <1>1, SetEnters DEF Flags
<1>4. Neat(w)
  BY <1>2, <1>3, EntersNeat
<1>5. i \in Matches(w, id)
  <2>1. i < w.message_num
    BY <1>3, TableFacts, EntryFacts DEF Enters, Matches
  <2>2. QED
    BY <1>3, <2>1 DEF Enters, Matches
<1>6. FirstMatch(w, id) = i
  BY <1>2, <1>5, FirstMatchFacts
<1>7. ASSUME ~get_was_message_by_id(t, id), get_inverse_by_id(w, id)
      PROVE  FALSE
  <2>1. "stop_inverse" \in w.messages[i].flags
    BY <1>6, <1>7 DEF get_inverse_by_id, Flagged
  <2>2. "stop_inverse" \in t.messages[i].flags
    BY <1>3, <2>1 DEF Enters
  <2>3. i < t.message_num /\ "was_message" \in t.messages[i].flags
    BY <2>2 DEF Neat
  <2>4. i \in Matches(t, id)
    BY <1>3, <2>3, TableFacts, EntryFacts DEF Enters
  <2>5. FirstMatch(t, id) = i
    BY <2>4, FirstMatchFacts
  <2>6. QED
    BY <1>7, <2>3, <2>4, <2>5 DEF get_was_message_by_id, Flagged, is_id_set
<1>8. PICK v : v = SetFlag(Looked(w, id), id, "stop_inverse") /\ v \in MessageTable
  BY <1>2, SetKeeps DEF Flags
<1>9. PICK j \in Entry : Enters(w, v, id, "stop_inverse", j)
  BY <1>2, <1>8, SetEnters DEF Flags
<1>10. j = i
  BY <1>2, <1>5, <1>9 DEF Enters, is_id_set, Matches, Distinct
<1>11. "was_message" \in w.messages[i].flags
  BY <1>3 DEF Enters
<1>12. Neat(v)
  BY <1>2, <1>4, <1>8, <1>9, <1>10, <1>11, EntersNeat
<1>13. PICK y : y = SetFlag(Looked(t, id), id, "unicast_first") /\ y \in MessageTable
  BY SetKeeps DEF Flags
<1>14. PICK k \in Entry : Enters(t, y, id, "unicast_first", k)
  BY <1>13, SetEnters DEF Flags
<1>15. Neat(y)
  BY <1>13, <1>14, EntersNeat
<1>16. Flagged(v, id, "was_message")
  <2>1. Keeps(w, v) /\ Distinct(v, m)
    BY <1>2, <1>8, SetKeeps DEF Flags
  <2>2. QED
    BY <1>2, <1>8, <2>1, KeepsKnown
<1>17. QED
  BY <1>1, <1>2, <1>4, <1>7, <1>8, <1>12, <1>13, <1>15, <1>16
     DEF set_was_message_by_id, set_inverse_by_id, set_unicast_status_by_id, get_was_message_by_id

-----------------------------------------------------------------------------
(***************************************************************************)
(* Messages, routes and tables in a mesh in which nobody dies.             *)
(***************************************************************************)
\* A packet comes from a node of the mesh, and a flood has at least one hop
\* behind it.
Proper(x) ==
  /\ x.req \in PacketReq => x.sender \in Node
  /\ x.req = "ROUTE_DIRECT" => x.ttl \in 0 .. TTL - 1

NetProper ==
  \A l \in Link : /\ net[l] # << >> => l[1] \notin Killed
                  /\ \A i \in 1 .. Len(net[l]) : Proper(net[l][i])

\* No route leads to a node that is down.
AliveTable(rt) == \A d \in Node : rt[d].addr \notin Killed

RoutesAlive == \A n \in Node : AliveTable(routing[n])

TablesNeat == \A n \in Node : Neat(messages[n])

Orderly == Awake /\ NetProper /\ RoutesAlive /\ TablesNeat

Ready == IInv /\ SInv /\ OInv /\ Orderly

-----------------------------------------------------------------------------
LEMMA KilledFacts ==
  Killed \subseteq Node /\ UINT8_MAX \notin Killed /\ Server \notin Killed
BY MeshAssumption, NodeFacts

\* An int8_t that fits.
LEMMA ToInt8Fits ==
  ASSUME NEW x \in -128 .. 127
  PROVE  ToInt8(x) = x
BY DEF ToInt8

\* What broadcast_route takes over from the packet, and what it takes off.
LEMMA FloodFields ==
  ASSUME NEW p \in node_packet, p.ttl \in 1 .. 127
  PROVE  LET y == broadcast_route(p)
         IN  /\ y.req = "ROUTE_DIRECT" /\ y.app = p.app /\ y.sender = p.sender
             /\ y.ttl = p.ttl - 1
<1>1. p.ttl - 1 \in -128 .. 127
  OBVIOUS
<1>2. PICK q : q = [p EXCEPT !.req = "ROUTE_DIRECT", !.ttl = p.ttl - 1]
  OBVIOUS
<1>3. q.req = "ROUTE_DIRECT" /\ q.app = p.app /\ q.sender = p.sender /\ q.ttl = p.ttl - 1
      /\ q \in node_packet
  <2>1. p.ttl - 1 \in Int8
    BY <1>1 DEF Int8
  <2>2. QED
    BY <1>2, <2>1 DEF node_packet, PacketReq
<1>4. broadcast_route(p) = WithCrc(q)
  BY <1>1, <1>2, ToInt8Fits DEF broadcast_route
<1>5. /\ WithCrc(q).req = q.req /\ WithCrc(q).app = q.app
      /\ WithCrc(q).sender = q.sender /\ WithCrc(q).ttl = q.ttl
  BY <1>3 DEF WithCrc, node_packet
<1>6. QED
  BY <1>3, <1>4, <1>5

LEMMA CrcSender ==
  ASSUME NEW p \in node_packet
  PROVE  WithCrc(p).sender = p.sender
BY DEF WithCrc, node_packet

\* What floods and answers teach leads to nodes that live.
LEMMA LearnAlive ==
  ASSUME NEW rt \in RoutingTable, AliveTable(rt), NEW p, p.local \notin Killed
  PROVE  AliveTable(LearnDirect(rt, p)) /\ AliveTable(LearnInverse(rt, p))
<1>1. \A d, m : AliveTable(routing_set_addr(rt, d, p.local, m))
  BY DEF AliveTable, routing_set_addr, RoutingTable
<1>2. QED
  BY <1>1 DEF LearnDirect, LearnInverse

LEMMA DelAlive ==
  ASSUME NEW rt \in RoutingTable, AliveTable(rt), NEW d
  PROVE  AliveTable(routing_del(rt, d))
BY KilledFacts DEF AliveTable, routing_del, routing_set_addr, RoutingTable

\* A route that is found leads to a node that lives.
LEMMA NextAlive ==
  ASSUME NEW n \in Node, NEW rt \in Routes(n), AliveTable(rt), NEW d,
         routing_next_addr(rt, d) # UINT8_MAX
  PROVE  routing_next_addr(rt, d) \in Neighbours(n) \ Killed
<1>1. routing_next_addr(rt, d) \in Neighbours(n)
  BY NextAddrGood
<1>2. routing_next_addr(rt, d) \notin Killed
  BY KilledFacts DEF routing_next_addr, routing_get, AliveTable, NoRoute
<1>3. QED
  BY <1>1, <1>2

\* A flood that has hops left teaches a way to its sender.
LEMMA LearnRoute ==
  ASSUME NEW rt \in RoutingTable, NEW p \in node_packet, p.sender \in Node, p.local \in Node,
         p.ttl \in 1 .. TTL - 1
  PROVE  routing_next_addr(LearnDirect(rt, p), p.sender) # UINT8_MAX
<1>1. TTL - p.ttl + 1 \in 1 .. 127 /\ TTL - p.ttl + 1 \in -128 .. 127
  <2>1. TTL \in 1 .. 127
    BY MeshAssumption
  <2>2. PICK t \in Nat : t = p.ttl /\ 1 <= t /\ t <= TTL - 1
    BY <2>1
  <2>3. QED
    BY <2>1, <2>2
<1>2. new_metric(p) > 0
  BY <1>1, ToInt8Fits DEF new_metric
<1>3. CASE routing_next_addr(rt, p.sender) = UINT8_MAX \/ routing_get(rt, p.sender).metric > new_metric(p)
  <2>1. LearnDirect(rt, p) = routing_set_addr(rt, p.sender, p.local, new_metric(p))
    BY <1>2, <1>3 DEF LearnDirect
  <2>2. routing_next_addr(LearnDirect(rt, p), p.sender) = p.local
    BY <2>1 DEF routing_set_addr, routing_next_addr, routing_get, RoutingTable
  <2>3. QED
    BY <2>2, NodeFacts
<1>4. CASE ~(routing_next_addr(rt, p.sender) = UINT8_MAX \/ routing_get(rt, p.sender).metric > new_metric(p))
  <2>1. LearnDirect(rt, p) = rt
    BY <1>4 DEF LearnDirect
  <2>2. QED
    BY <1>4, <2>1
<1>5. QED
  BY <1>3, <1>4

\* A notification that reaches the server, and a message that is accepted.
LEMMA AccountTells ==
  ASSUME HistoryInv, NEW n \in Node, NEW to, NEW a \in AppPayload, NEW ok, NEW kinds,
         Account(n, to, a, ok, kinds), Server \in Reached(n, to), kinds # {}
  PROVE  notes'[a.uid] # {} /\ (ok => handled'[a.uid][n] > 0)
<1>1. a.uid \in Uid
  BY DEF AppPayload
<1>2. notes' = [notes EXCEPT ![a.uid] = @ \cup kinds]
  BY DEF Account
<1>3. notes'[a.uid] = notes[a.uid] \cup kinds
  BY <1>1, <1>2 DEF HistoryInv
<1>4. ASSUME ok
      PROVE  handled'[a.uid][n] > 0
  <2>1. handled[a.uid][n] \in 0 .. 2 /\ handled \in [Uid -> [Node -> 0 .. 2]]
    BY <1>1 DEF HistoryInv
  <2>2. CASE handled[a.uid][n] < 2
    <3>1. handled' = [handled EXCEPT ![a.uid][n] = @ + 1]
      BY <1>4, <2>2 DEF Account
    <3>2. handled'[a.uid][n] = handled[a.uid][n] + 1
      BY <1>1, <2>1, <3>1
    <3>3. QED
      BY <2>1, <3>2
  <2>3. CASE ~(handled[a.uid][n] < 2)
    <3>1. handled' = handled
      BY <1>4, <2>3 DEF Account
    <3>2. QED
      BY <2>1, <2>3, <3>1
  <2>4. QED
    BY <2>2, <2>3
<1>5. QED
  BY <1>3, <1>4

\* The message at the head of a link that a handler finds.
LEMMA HeadReady ==
  ASSUME Ready, NEW l \in Link, NEW req, Receives(l, req)
  PROVE  LET x == Head(net[l])
         IN  /\ net[l] # << >> /\ x.req = req /\ Proper(x) /\ l[1] \notin Killed
             /\ l[2] \in Node \ Killed /\ l[2] # Server /\ l[2] \in Peer
             /\ routing[l[2]] \in Routes(l[2]) /\ routing[l[2]] \in RoutingTable
             /\ AliveTable(routing[l[2]])
<1>1. PICK x : x = Head(net[l])
  OBVIOUS
<1>2. net[l] # << >> /\ x.req = req /\ proc[l[2]] # "down"
  BY <1>1 DEF Receives
<1>3. x = net[l][1] /\ 1 \in 1 .. Len(net[l])
  BY <1>1, <1>2 DEF Ready, IInv, NetInv
<1>4. Proper(x) /\ l[1] \notin Killed
  BY <1>2, <1>3 DEF Ready, Orderly, NetProper
<1>5. l[2] \in Node /\ l[2] \in Peer /\ l[2] # Server
  BY LinkFacts, NodeFacts DEF Peer
<1>6. l[2] \notin Killed
  BY <1>2, <1>5 DEF Ready, Orderly, Awake
<1>7. routing[l[2]] \in Routes(l[2]) /\ routing[l[2]] \in RoutingTable
  BY <1>5, RoutesOfNode DEF Ready, IInv, TableInv
<1>8. AliveTable(routing[l[2]])
  BY <1>5 DEF Ready, Orderly, RoutesAlive
<1>9. QED
  BY <1>1, <1>2, <1>4, <1>5, <1>6, <1>7, <1>8

-----------------------------------------------------------------------------
(***************************************************************************)
(* What a handler does with the message x at the head of link l: it writes *)
(* msg to the peers in to, keeps routes and tables in order, and either    *)
(* tells the server or passes the message on.                              *)
(***************************************************************************)
\* The ttl of a flood starts anew, or goes down by one where it is new.
Hop(l, x, y) ==
  y.req = "ROUTE_DIRECT" =>
    \/ y.ttl = TTL - 1
    \/ /\ x.req = "ROUTE_DIRECT" /\ y.ttl = x.ttl - 1
       /\ ~get_was_message_by_id(messages[l[2]], x.app.id)
       /\ get_was_message_by_id(messages'[l[2]], x.app.id)

Puts(l, x, to, msg) ==
  /\ net[l] # << >> /\ x = Head(net[l]) /\ l[2] \notin Killed
  /\ Exchange(l[2], {l}, to, msg) /\ to \subseteq Neighbours(l[2]) \cup {Server}
  /\ \A q \in to \cap Node :
       Proper(msg[q]) /\ msg[q].app.uid = x.app.uid /\ Hop(l, x, msg[q])

Learned == RoutesAlive' /\ TablesNeat'

\* The server hears of the message, and the apps have it if they accept it.
Told(l, x) ==
  /\ notes'[x.app.uid] # {}
  /\ node_app_handle_request(PayloadOf(l, x)) => handled'[x.app.uid][l[2]] > 0

\* The message goes on to one node that lives.
Hands(l, to, msg) == \E q \in Neighbours(l[2]) \ Killed : q \in to /\ msg[q].req = "SEND"

\* The message goes on to all neighbours as a message of this kind.
Spreads(l, to, msg, req) == to = Neighbours(l[2]) /\ \A q \in to : msg[q].req = req

Advances(l, x, to, msg) ==
  LET n == l[2]
  IN  /\ x.req = "SEND" =>
           \/ x.receiver = n /\ Told(l, x)
           \/ x.receiver # n /\ Hands(l, to, msg)
           \/ x.receiver # n /\ Spreads(l, to, msg, "ROUTE_DIRECT")
      /\ x.req = "BROADCAST" => Spreads(l, to, msg, "SEND")
      /\ x.req = "UNICAST" => Spreads(l, to, msg, "UNICAST_CONTEST")
      /\ x.req = "UNICAST_CONTEST" => l[1] \in to /\ msg[l[1]].req = "UNICAST_FIRST"
      /\ x.req = "UNICAST_FIRST" => is_id_set(messages[n], x.app.id) \/ Hands(l, to, msg)
      /\ x.req = "ROUTE_DIRECT" =>
           \/ UNCHANGED messages /\ (x.ttl <= 0 \/ get_was_message_by_id(messages[n], x.app.id))
           \/ /\ get_was_message_by_id(messages'[n], x.app.id)
              /\ \/ x.receiver = n /\ Told(l, x)
                 \/ x.receiver # n /\ Spreads(l, to, msg, "ROUTE_DIRECT")

Does(l) ==
  \E x, to, msg : Puts(l, x, to, msg) /\ Learned /\ Advances(l, x, to, msg)

\* A flood that starts.
LEMMA StartProper ==
  ASSUME NEW y, y.req = "ROUTE_DIRECT", y.sender \in Node, y.ttl = TTL - 1, NEW l, NEW x
  PROVE  Proper(y) /\ Hop(l, x, y)
<1>1. TTL - 1 \in 0 .. TTL - 1
  BY MeshAssumption
<1>2. QED
  BY <1>1 DEF Proper, Hop

\* The same message is written to every peer in to.
LEMMA PutsSame ==
  ASSUME NEW l \in Link, net[l] # << >>, l[2] \notin Killed,
         NEW to, NEW y, Send(l[2], l, to, y), to \subseteq Neighbours(l[2]) \cup {Server},
         \/ to = {Server}
         \/ Proper(y) /\ y.app.uid = Head(net[l]).app.uid /\ Hop(l, Head(net[l]), y)
  PROVE  Puts(l, Head(net[l]), to, [q \in Node |-> y])
<1>1. PICK msg, x : msg = [q \in Node |-> y] /\ x = Head(net[l])
  OBVIOUS
<1>2. \A q \in Node : msg[q] = y
  BY <1>1
<1>3. Exchange(l[2], {l}, to, msg)
  BY <1>1 DEF Send
<1>4. \A q \in to \cap Node :
        Proper(msg[q]) /\ msg[q].app.uid = x.app.uid /\ Hop(l, x, msg[q])
  BY <1>1, <1>2, NodeFacts
<1>5. Puts(l, x, to, msg)
  BY <1>1, <1>3, <1>4 DEF Puts
<1>6. QED
  BY <1>1, <1>5

LEMMA PutsNothing ==
  ASSUME NEW l \in Link, NEW x, x = Head(net[l]), net[l] # << >>, l[2] \notin Killed,
         Discard(l[2], l)
  PROVE  \E msg : Puts(l, x, {}, msg)
BY DEF Puts, Discard

LEMMA LearnedNothing ==
  ASSUME Ready, UNCHANGED nodeVars
  PROVE  Learned
BY DEF Ready, Orderly, Learned, RoutesAlive, TablesNeat, nodeVars

\* The payload of a message to the apps, and its uid.
LEMMA TellsServer ==
  ASSUME Steady, Ready, NEW l \in Link, NEW x, x.app \in AppPayload,
         NEW to \in SUBSET (Neighbours(l[2]) \cup {Server}), Server \in to, NEW kinds, kinds # {},
         NEW a, a = PayloadOf(l, x), Account(l[2], to, a, node_app_handle_request(a), kinds)
  PROVE  Told(l, x)
<1>1. l[2] \in Node /\ Server \notin Killed
  BY LinkFacts, KilledFacts
<1>2. Server \in Reached(l[2], to)
  BY <1>1, ReachedAlive DEF Ready, OInv, Orderly
<1>3. a \in AppPayload /\ a.uid = x.app.uid
  BY PayloadFacts
<1>4. notes'[a.uid] # {} /\ (node_app_handle_request(a) => handled'[a.uid][l[2]] > 0)
  BY <1>1, <1>2, <1>3, AccountTells DEF Ready, IInv
<1>5. QED
  BY <1>3, <1>4 DEF Told

\* handle_server_send.
LEMMA ServerSendDoes ==
  ASSUME Steady, Ready, NEW l \in Link, HandleServerSend(l)
  PROVE  Does(l)
<1>1. PICK n, p, a : n = l[2] /\ p = Head(net[l]) /\ a = node_app_setup_delivery(p.app)
  OBVIOUS
<1>2. PICK next : next = routing_next_addr(routing[n], p.receiver)
  OBVIOUS
<1>3. Receives(l, "SEND") /\ l[1] = Server
  BY DEF HandleServerSend
<1>4. /\ net[l] # << >> /\ p.req = "SEND" /\ Proper(p) /\ n \in Node \ Killed
      /\ routing[n] \in Routes(n) /\ AliveTable(routing[n])
  BY <1>1, <1>3, HeadReady
<1>5. p \in node_packet /\ p.app \in AppPayload /\ is_valid_crc(p)
  BY <1>1, <1>4, PacketFacts DEF PacketReq, Ready
<1>6. a \in AppPayload /\ a.uid = p.app.uid /\ a = PayloadOf(l, p)
  BY <1>1, <1>3, <1>5, SetupType, SetupFields DEF PayloadOf
<1>7. Learned
  BY LearnedNothing DEF HandleServerSend
<1>8. CASE p.receiver = n
  <2>1. /\ Send(n, l, {Server}, p)
        /\ Account(n, {Server}, a, node_app_handle_request(a), {Verdict(a)})
    BY <1>1, <1>5, <1>8 DEF HandleServerSend
  <2>2. PICK msg : Puts(l, p, {Server}, msg)
    BY <1>1, <1>4, <2>1, PutsSame
  <2>3. Told(l, p)
    BY <1>1, <1>5, <1>6, <2>1, TellsServer
  <2>4. Advances(l, p, {Server}, msg)
    BY <1>1, <1>4, <1>8, <2>3 DEF Advances
  <2>5. QED
    BY <1>7, <2>2, <2>4 DEF Does
<1>9. CASE p.receiver # n /\ next = UINT8_MAX
  <2>1. PICK f : f = [p EXCEPT !.app = a, !.local = n, !.ttl = TTL]
    OBVIOUS
  <2>2. f \in node_packet /\ f.app = a /\ f.sender = p.sender /\ f.ttl = TTL
    BY <1>4, <1>5, <1>6, <2>1, NodeFacts, Int8Facts DEF node_packet
  <2>3. Flood(n, l, f)
    BY <1>1, <1>2, <1>5, <1>9, <2>1 DEF HandleServerSend
  <2>4. PICK y : /\ y = broadcast_route(f) /\ y.req = "ROUTE_DIRECT" /\ y.app = a
                 /\ y.sender = p.sender /\ y.ttl = TTL - 1
    BY <2>2, FloodFields, MeshAssumption
  <2>5. Send(n, l, Neighbours(n), y)
    BY <2>3, <2>4 DEF Flood, Send
  <2>6. Proper(y) /\ y.app.uid = p.app.uid /\ Hop(l, p, y)
    <3>1. p.sender \in Node
      BY <1>4 DEF Proper, PacketReq
    <3>2. QED
      BY <1>6, <2>4, <3>1, StartProper
  <2>7. PICK msg : Puts(l, p, Neighbours(n), msg) /\ \A q \in Node : msg[q] = y
    <3>1. PICK to : to = Neighbours(n) /\ to \subseteq Neighbours(l[2]) \cup {Server}
      BY <1>1
    <3>2. Send(l[2], l, to, y) /\ net[l] # << >> /\ l[2] \notin Killed
      BY <1>1, <1>4, <2>5, <3>1
    <3>3. Puts(l, Head(net[l]), to, [q \in Node |-> y])
      BY <1>1, <2>6, <3>1, <3>2, PutsSame
    <3>4. QED
      BY <1>1, <3>1, <3>3
  <2>8. Advances(l, p, Neighbours(n), msg)
    BY <1>1, <1>4, <1>9, <2>4, <2>7, NeighboursFinite DEF Advances, Spreads
  <2>9. QED
    BY <1>7, <2>7, <2>8 DEF Does
<1>10. CASE p.receiver # n /\ next # UINT8_MAX
  <2>1. PICK f : f = [p EXCEPT !.app = a]
    OBVIOUS
  <2>2. f \in node_packet /\ f.app = a /\ f.sender = p.sender /\ f.req = "SEND"
    BY <1>4, <1>5, <1>6, <2>1 DEF node_packet
  <2>3. Send(n, l, {next}, WithCrc(f))
    BY <1>1, <1>2, <1>5, <1>10, <2>1 DEF HandleServerSend
  <2>4. PICK y : y = WithCrc(f) /\ y.req = "SEND" /\ y.app = a /\ y.sender = p.sender
    BY <2>2, WithCrcFields, CrcSender
  <2>5. next \in Neighbours(n) \ Killed
    BY <1>2, <1>4, <1>10, NextAlive
  <2>6. Proper(y) /\ y.app.uid = p.app.uid /\ Hop(l, p, y)
    BY <1>4, <1>6, <2>4 DEF Proper, Hop, PacketReq
  <2>7. PICK msg : Puts(l, p, {next}, msg) /\ \A q \in Node : msg[q] = y
    <3>1. PICK to : to = {next} /\ to \subseteq Neighbours(l[2]) \cup {Server}
      BY <1>1, <2>5
    <3>2. Send(l[2], l, to, y) /\ net[l] # << >> /\ l[2] \notin Killed
      BY <1>1, <1>4, <2>3, <2>4, <3>1
    <3>3. Puts(l, Head(net[l]), to, [q \in Node |-> y])
      BY <1>1, <2>6, <3>1, <3>2, PutsSame
    <3>4. QED
      BY <1>1, <3>1, <3>3
  <2>8. Hands(l, {next}, msg)
    BY <1>1, <1>4, <2>4, <2>5, <2>7, NeighboursFinite DEF Hands
  <2>9. Advances(l, p, {next}, msg)
    BY <1>1, <1>4, <1>10, <2>8 DEF Advances
  <2>10. QED
    BY <1>7, <2>7, <2>9 DEF Does
<1>11. QED
  BY <1>8, <1>9, <1>10

\* handle_node_send.
LEMMA NodeSendDoes ==
  ASSUME Steady, Ready, NEW l \in Link, HandleNodeSend(l)
  PROVE  Does(l)
<1>1. PICK n, p, a : n = l[2] /\ p = Head(net[l]) /\ a = p.app
  OBVIOUS
<1>2. PICK next : next = routing_next_addr(routing[n], p.receiver)
  OBVIOUS
<1>3. Receives(l, "SEND") /\ l[1] # Server
  BY DEF HandleNodeSend
<1>4. /\ net[l] # << >> /\ p.req = "SEND" /\ Proper(p) /\ n \in Node \ Killed
      /\ routing[n] \in Routes(n) /\ AliveTable(routing[n])
  BY <1>1, <1>3, HeadReady
<1>5. p \in node_packet /\ p.app \in AppPayload /\ is_valid_crc(p) /\ a = PayloadOf(l, p)
  BY <1>1, <1>3, <1>4, PacketFacts DEF PacketReq, Ready, PayloadOf
<1>6. Learned
  BY LearnedNothing DEF HandleNodeSend
<1>7. CASE p.receiver = n
  <2>1. PICK kinds : /\ Send(n, l, {Server}, p) /\ kinds # {}
                     /\ Account(n, {Server}, a, node_app_handle_request(a), kinds)
    BY <1>1, <1>5, <1>7 DEF HandleNodeSend
  <2>2. PICK msg : Puts(l, p, {Server}, msg)
    BY <1>1, <1>4, <2>1, PutsSame
  <2>3. Told(l, p)
    BY <1>1, <1>5, <2>1, TellsServer
  <2>4. Advances(l, p, {Server}, msg)
    BY <1>1, <1>4, <1>7, <2>3 DEF Advances
  <2>5. QED
    BY <1>6, <2>2, <2>4 DEF Does
<1>8. CASE p.receiver # n /\ next = UINT8_MAX
  <2>1. PICK f : f = [p EXCEPT !.local = n, !.ttl = TTL]
    OBVIOUS
  <2>2. f \in node_packet /\ f.app = a /\ f.sender = p.sender /\ f.ttl = TTL
    BY <1>1, <1>4, <1>5, <2>1, NodeFacts, Int8Facts DEF node_packet
  <2>3. Flood(n, l, f)
    BY <1>1, <1>2, <1>5, <1>8, <2>1 DEF HandleNodeSend
  <2>4. PICK y : /\ y = broadcast_route(f) /\ y.req = "ROUTE_DIRECT" /\ y.app = a
                 /\ y.sender = p.sender /\ y.ttl = TTL - 1
    BY <2>2, FloodFields, MeshAssumption
  <2>5. Send(n, l, Neighbours(n), y)
    BY <2>3, <2>4 DEF Flood, Send
  <2>6. Proper(y) /\ y.app.uid = p.app.uid /\ Hop(l, p, y)
    <3>1. p.sender \in Node
      BY <1>4 DEF Proper, PacketReq
    <3>2. QED
      BY <1>1, <2>4, <3>1, StartProper
  <2>7. PICK msg : Puts(l, p, Neighbours(n), msg) /\ \A q \in Node : msg[q] = y
    <3>1. PICK to : to = Neighbours(n) /\ to \subseteq Neighbours(l[2]) \cup {Server}
      BY <1>1
    <3>2. Send(l[2], l, to, y) /\ net[l] # << >> /\ l[2] \notin Killed
      BY <1>1, <1>4, <2>5, <3>1
    <3>3. Puts(l, Head(net[l]), to, [q \in Node |-> y])
      BY <1>1, <2>6, <3>1, <3>2, PutsSame
    <3>4. QED
      BY <1>1, <3>1, <3>3
  <2>8. Advances(l, p, Neighbours(n), msg)
    BY <1>1, <1>4, <1>8, <2>4, <2>7, NeighboursFinite DEF Advances, Spreads
  <2>9. QED
    BY <1>6, <2>7, <2>8 DEF Does
<1>9. CASE p.receiver # n /\ next # UINT8_MAX
  <2>1. Send(n, l, {next}, p)
    BY <1>1, <1>2, <1>5, <1>9 DEF HandleNodeSend
  <2>2. next \in Neighbours(n) \ Killed
    BY <1>2, <1>4, <1>9, NextAlive
  <2>3. Hop(l, p, p)
    BY <1>4 DEF Hop
  <2>4. PICK msg : Puts(l, p, {next}, msg) /\ \A q \in Node : msg[q] = p
    <3>1. PICK to : to = {next} /\ to \subseteq Neighbours(l[2]) \cup {Server}
      BY <1>1, <2>2
    <3>2. Send(l[2], l, to, p) /\ net[l] # << >> /\ l[2] \notin Killed
      BY <1>1, <1>4, <2>1, <3>1
    <3>3. Puts(l, Head(net[l]), to, [q \in Node |-> p])
      BY <1>1, <1>4, <2>3, <3>1, <3>2, PutsSame
    <3>4. QED
      BY <1>1, <3>1, <3>3
  <2>5. Hands(l, {next}, msg)
    BY <1>1, <1>4, <2>2, <2>4, NeighboursFinite DEF Hands
  <2>6. Advances(l, p, {next}, msg)
    BY <1>1, <1>4, <1>9, <2>5 DEF Advances
  <2>7. QED
    BY <1>6, <2>4, <2>6 DEF Does
<1>10. QED
  BY <1>7, <1>8, <1>9

\* handle_broadcast.
LEMMA BroadcastDoes ==
  ASSUME Steady, Ready, NEW l \in Link, HandleBroadcast(l)
  PROVE  Does(l)
<1>1. PICK n, x : n = l[2] /\ x = Head(net[l])
  OBVIOUS
<1>2. PICK p : p = [x EXCEPT !.req = "SEND", !.app = node_app_setup_delivery(x.app)]
  OBVIOUS
<1>3. PICK msg : msg = [q \in Node |-> WithCrc([p EXCEPT !.receiver = q])]
  OBVIOUS
<1>4. Receives(l, "BROADCAST")
  BY DEF HandleBroadcast
<1>5. net[l] # << >> /\ x.req = "BROADCAST" /\ Proper(x) /\ n \in Node \ Killed
  BY <1>1, <1>4, HeadReady
<1>6. x \in node_packet /\ x.app \in AppPayload
  BY <1>1, <1>5, PacketFacts DEF PacketReq, Ready
<1>7. /\ p \in node_packet /\ p.req = "SEND" /\ p.app = node_app_setup_delivery(x.app)
      /\ p.sender = x.sender
  BY <1>2, <1>6, SetupType DEF node_packet, PacketReq
<1>8. p.app.uid = x.app.uid /\ p.sender \in Node
  BY <1>5, <1>6, <1>7, SetupFields DEF Proper, PacketReq
<1>9. Exchange(n, {l}, Neighbours(n), msg) /\ UNCHANGED nodeVars
  BY <1>1, <1>2, <1>3 DEF HandleBroadcast
<1>10. ASSUME NEW q \in Node
       PROVE  msg[q].req = "SEND" /\ msg[q].app = p.app /\ msg[q].sender = p.sender
  <2>1. PICK s : s = [p EXCEPT !.receiver = q]
    OBVIOUS
  <2>2. s \in node_packet /\ s.req = "SEND" /\ s.app = p.app /\ s.sender = p.sender
    BY <1>7, <2>1, NodeFacts DEF node_packet
  <2>3. msg[q] = WithCrc(s)
    BY <1>3, <2>1
  <2>4. QED
    BY <2>2, <2>3, WithCrcFields, CrcSender
<1>11. \A q \in Neighbours(n) \cap Node :
         Proper(msg[q]) /\ msg[q].app.uid = x.app.uid /\ Hop(l, x, msg[q])
  BY <1>8, <1>10 DEF Proper, Hop
<1>12. Puts(l, x, Neighbours(n), msg)
  BY <1>1, <1>5, <1>9, <1>11 DEF Puts
<1>13. Advances(l, x, Neighbours(n), msg)
  BY <1>1, <1>5, <1>10, NeighboursFinite DEF Advances, Spreads
<1>14. QED
  BY <1>9, <1>12, <1>13, LearnedNothing DEF Does

\* handle_server_unicast.
LEMMA ServerUnicastDoes ==
  ASSUME Steady, Ready, NEW l \in Link, HandleServerUnicast(l)
  PROVE  Does(l)
<1>1. PICK n, x : n = l[2] /\ x = Head(net[l])
  OBVIOUS
<1>2. PICK y : y = [req |-> "UNICAST_CONTEST", node_addr |-> n,
                    app |-> node_app_setup_delivery(x.app)]
  OBVIOUS
<1>3. Receives(l, "UNICAST") /\ Send(n, l, Neighbours(n), y) /\ UNCHANGED nodeVars
  BY <1>1, <1>2 DEF HandleServerUnicast
<1>4. net[l] # << >> /\ x.req = "UNICAST" /\ n \in Node \ Killed
  BY <1>1, <1>3, HeadReady
<1>5. x.app \in AppPayload
  BY <1>1, <1>4, PacketFacts DEF PacketReq, Ready
<1>6. y.req = "UNICAST_CONTEST" /\ y.app.uid = x.app.uid
  BY <1>2, <1>5, SetupFields
<1>7. Proper(y) /\ Hop(l, x, y)
  BY <1>6 DEF Proper, Hop, PacketReq
<1>8. PICK to : to = Neighbours(n) /\ to \subseteq Neighbours(l[2]) \cup {Server}
  BY <1>1
<1>9. Send(l[2], l, to, y) /\ net[l] # << >> /\ l[2] \notin Killed
  BY <1>1, <1>3, <1>4, <1>8
<1>10. Puts(l, Head(net[l]), to, [q \in Node |-> y])
  BY <1>1, <1>6, <1>7, <1>8, <1>9, PutsSame
<1>11. PICK msg : Puts(l, x, to, msg) /\ \A q \in Node : msg[q] = y
  BY <1>1, <1>10
<1>12. Advances(l, x, to, msg)
  BY <1>1, <1>4, <1>6, <1>8, <1>11, NeighboursFinite DEF Advances, Spreads
<1>13. QED
  BY <1>3, <1>11, <1>12, LearnedNothing DEF Does

\* handle_unicast_contest.
LEMMA ContestDoes ==
  ASSUME Steady, Ready, NEW l \in Link, HandleUnicastContest(l)
  PROVE  Does(l)
<1>1. PICK n, x : n = l[2] /\ x = Head(net[l])
  OBVIOUS
<1>2. PICK y : y = [x EXCEPT !.req = "UNICAST_FIRST", !.node_addr = n]
  OBVIOUS
<1>3. Receives(l, "UNICAST_CONTEST") /\ Send(n, l, {x.node_addr}, y) /\ UNCHANGED nodeVars
  BY <1>1, <1>2 DEF HandleUnicastContest
<1>4. net[l] # << >> /\ x.req = "UNICAST_CONTEST" /\ n \in Node \ Killed
  BY <1>1, <1>3, HeadReady
<1>5. /\ x \in unicast_contest /\ x.node_addr = l[1] /\ l[1] \in Neighbours(n)
      /\ l[1] \in Node
  BY <1>1, <1>4, ContestFacts DEF Ready
<1>6. y.req = "UNICAST_FIRST" /\ y.app = x.app
  BY <1>2, <1>5 DEF unicast_contest
<1>7. Proper(y) /\ Hop(l, x, y)
  BY <1>6 DEF Proper, Hop, PacketReq
<1>8. PICK to : to = {l[1]} /\ to \subseteq Neighbours(l[2]) \cup {Server}
  BY <1>1, <1>5
<1>9. Send(l[2], l, to, y) /\ net[l] # << >> /\ l[2] \notin Killed
  BY <1>1, <1>3, <1>4, <1>5, <1>8
<1>10. Puts(l, Head(net[l]), to, [q \in Node |-> y])
  BY <1>1, <1>6, <1>7, <1>8, <1>9, PutsSame
<1>11. PICK msg : Puts(l, x, to, msg) /\ \A q \in Node : msg[q] = y
  BY <1>1, <1>10
<1>12. Advances(l, x, to, msg)
  BY <1>4, <1>5, <1>6, <1>8, <1>11 DEF Advances
<1>13. QED
  BY <1>3, <1>11, <1>12, LearnedNothing DEF Does

\* The tables of one node change.
LEMMA LearnedOne ==
  ASSUME Ready, NEW n \in Node, NEW rt, NEW tbl, AliveTable(rt), Neat(tbl),
         routing' = [routing EXCEPT ![n] = rt], messages' = [messages EXCEPT ![n] = tbl]
  PROVE  Learned /\ messages'[n] = tbl
<1>1. routing \in [Node -> RoutingTable] /\ messages \in [Node -> MessageTable]
  BY DEF Ready, IInv, TableInv
<1>2. \A m \in Node : /\ routing'[m] = IF m = n THEN rt ELSE routing[m]
                      /\ messages'[m] = IF m = n THEN tbl ELSE messages[m]
  BY <1>1
<1>3. \A m \in Node : AliveTable(routing[m]) /\ Neat(messages[m])
  BY DEF Ready, Orderly, RoutesAlive, TablesNeat
<1>4. \A m \in Node : AliveTable(routing'[m]) /\ Neat(messages'[m])
  BY <1>2, <1>3
<1>5. QED
  BY <1>2, <1>4 DEF Learned, RoutesAlive, TablesNeat

LEMMA SameTable ==
  ASSUME Ready, NEW n \in Node
  PROVE  /\ routing = [routing EXCEPT ![n] = routing[n]]
         /\ messages = [messages EXCEPT ![n] = messages[n]]
         /\ messages[n] \in MessageTable /\ Neat(messages[n])
         /\ Distinct(messages[n], Len(issued))
BY DEF Ready, IInv, TableInv, Orderly, TablesNeat, OInv, Numbered

\* handle_unicast_first.
LEMMA FirstDoes ==
  ASSUME Steady, Ready, NEW l \in Link, HandleUnicastFirst(l)
  PROVE  Does(l)
<1>1. PICK n, x : n = l[2] /\ x = Head(net[l])
  OBVIOUS
<1>2. PICK y : y = send_to_winner(n, x)
  OBVIOUS
<1>3. /\ Receives(l, "UNICAST_FIRST") /\ UNCHANGED routing
      /\ messages' = [messages EXCEPT ![n] = set_unicast_status_by_id(messages[n], x.app.id)]
      /\ IF is_id_set(messages[n], x.app.id) THEN Discard(n, l) ELSE Send(n, l, {x.node_addr}, y)
  BY <1>1, <1>2 DEF HandleUnicastFirst
<1>4. net[l] # << >> /\ x.req = "UNICAST_FIRST" /\ n \in Node \ Killed /\ l[1] \notin Killed
  BY <1>1, <1>3, HeadReady
<1>5. /\ x \in unicast_contest /\ x.node_addr = l[1] /\ l[1] \in Neighbours(n)
      /\ l[1] \in Node /\ x.app \in AppPayload
  BY <1>1, <1>4, ContestFacts DEF Ready
<1>6. Learned
  <2>1. /\ Len(issued) \in Nat /\ Len(issued) <= MAX_MESSAGE_DATA
        /\ x.app.id \in MessageId /\ x.app.id < Len(issued)
    BY <1>1, <1>4, HeadSound DEF Ready, Steady
  <2>2. Neat(set_unicast_status_by_id(messages[n], x.app.id))
    BY <1>4, <2>1, SameTable, SettersNeat
  <2>3. AliveTable(routing[n])
    BY <1>4 DEF Ready, Orderly, RoutesAlive
  <2>4. routing' = [routing EXCEPT ![n] = routing[n]]
    BY <1>3, <1>4, SameTable
  <2>5. QED
    BY <1>3, <1>4, <2>2, <2>3, <2>4, LearnedOne
<1>7. CASE is_id_set(messages[n], x.app.id)
  <2>1. PICK msg : Puts(l, x, {}, msg)
    BY <1>1, <1>3, <1>4, <1>7, PutsNothing
  <2>2. Advances(l, x, {}, msg)
    BY <1>1, <1>4, <1>7 DEF Advances
  <2>3. QED
    BY <1>6, <2>1, <2>2 DEF Does
<1>8. CASE ~is_id_set(messages[n], x.app.id)
  <2>1. PICK s : s = [req |-> "SEND", sender |-> n, receiver |-> x.node_addr,
                      local |-> 0, ttl |-> 0, app |-> x.app, crc |-> << >>]
    OBVIOUS
  <2>2. s \in node_packet /\ s.req = "SEND" /\ s.app = x.app /\ s.sender = n
    <3>1. 0 \in Addr
      BY DEF Addr, UINT8_MAX
    <3>2. QED
      BY <1>4, <1>5, <2>1, <3>1, NodeFacts, Int8Facts DEF node_packet, PacketReq
  <2>3. y = WithCrc(s)
    BY <1>2, <2>1 DEF send_to_winner
  <2>4. y.req = "SEND" /\ y.app = x.app /\ y.sender = n
    BY <2>2, <2>3, WithCrcFields, CrcSender
  <2>5. Proper(y) /\ Hop(l, x, y)
    BY <1>4, <2>4 DEF Proper, Hop
  <2>6. PICK to : to = {l[1]} /\ to \subseteq Neighbours(l[2]) \cup {Server}
    BY <1>1, <1>5
  <2>7. Send(l[2], l, to, y) /\ net[l] # << >> /\ l[2] \notin Killed
    BY <1>1, <1>3, <1>4, <1>5, <1>8, <2>6
  <2>8. Puts(l, Head(net[l]), to, [q \in Node |-> y])
    BY <1>1, <2>4, <2>5, <2>6, <2>7, PutsSame
  <2>9. PICK msg : Puts(l, x, to, msg) /\ \A q \in Node : msg[q] = y
    BY <1>1, <2>8
  <2>10. Hands(l, to, msg)
    BY <1>1, <1>4, <1>5, <2>4, <2>6, <2>9 DEF Hands
  <2>11. Advances(l, x, to, msg)
    BY <1>4, <2>10 DEF Advances
  <2>12. QED
    BY <1>6, <2>9, <2>11 DEF Does
<1>9. QED
  BY <1>7, <1>8

\* handle_node_route_inverse.
LEMMA RouteInverseDoes ==
  ASSUME Steady, Ready, NEW l \in Link, HandleRouteInverse(l)
  PROVE  Does(l)
<1>1. PICK n, p : n = l[2] /\ p = Head(net[l])
  OBVIOUS
<1>2. PICK rt : rt = LearnInverse(routing[n], p)
  OBVIOUS
<1>3. PICK next : next = routing_next_addr(rt, p.sender)
  OBVIOUS
<1>4. PICK y : y = WithCrc([p EXCEPT !.local = n, !.ttl = ToInt8(p.ttl - 1)])
  OBVIOUS
<1>5. Receives(l, "ROUTE_INVERSE") /\ UNCHANGED messages
  BY DEF HandleRouteInverse
<1>6. /\ net[l] # << >> /\ p.req = "ROUTE_INVERSE" /\ Proper(p) /\ n \in Node \ Killed
      /\ l[1] \notin Killed /\ routing[n] \in Routes(n) /\ routing[n] \in RoutingTable
      /\ AliveTable(routing[n])
  BY <1>1, <1>5, HeadReady
<1>7. /\ p \in node_packet /\ p.app \in AppPayload /\ is_valid_crc(p)
      /\ p.local \in Neighbours(n) /\ p.local = l[1]
  <2>1. p \in Carried(l)
    BY <1>1, <1>6, HeadFacts DEF Ready, IInv
  <2>2. QED
    BY <1>1, <1>6, <2>1, PacketFacts DEF PacketReq, Ready, Carried
<1>8. rt \in Routes(n) /\ rt \in RoutingTable /\ AliveTable(rt)
  <2>1. rt \in Routes(n)
    BY <1>2, <1>6, <1>7, LearnGood
  <2>2. AliveTable(rt)
    BY <1>2, <1>6, <1>7, LearnAlive
  <2>3. QED
    BY <2>1, <2>2 DEF Routes
<1>9. ASSUME NEW r, AliveTable(r), routing' = [routing EXCEPT ![n] = r]
      PROVE  Learned
  <2>1. messages' = [messages EXCEPT ![n] = messages[n]] /\ Neat(messages[n])
    BY <1>5, <1>6, SameTable
  <2>2. QED
    BY <1>6, <1>9, <2>1, LearnedOne
<1>10. \A to, msg : Advances(l, p, to, msg)
  BY <1>6 DEF Advances
<1>11. CASE p.sender = n \/ next = UINT8_MAX
  <2>1. Discard(n, l) /\ routing' = [routing EXCEPT ![n] = rt]
    BY <1>1, <1>2, <1>3, <1>7, <1>11 DEF HandleRouteInverse
  <2>2. PICK msg : Puts(l, p, {}, msg)
    BY <1>1, <1>6, <2>1, PutsNothing
  <2>3. Learned
    BY <1>8, <1>9, <2>1
  <2>4. QED
    BY <1>10, <2>2, <2>3 DEF Does
<1>12. CASE ~(p.sender = n \/ next = UINT8_MAX)
  <2>1. Send(n, l, {next}, y)
    BY <1>1, <1>2, <1>3, <1>4, <1>7, <1>12 DEF HandleRouteInverse
  <2>2. \E r \in {rt, routing_del(rt, p.sender)} : routing' = [routing EXCEPT ![n] = r]
    BY <1>1, <1>2, <1>3, <1>7, <1>12 DEF HandleRouteInverse
  <2>3. next \in Neighbours(n) \ Killed
    BY <1>3, <1>6, <1>8, <1>12, NextAlive
  <2>4. Learned
    BY <1>8, <1>9, <2>2, DelAlive
  <2>5. y.req = "ROUTE_INVERSE" /\ y.app = p.app /\ y.sender = p.sender
    <3>1. PICK s : s = [p EXCEPT !.local = n, !.ttl = ToInt8(p.ttl - 1)]
      OBVIOUS
    <3>2. ToInt8(p.ttl - 1) \in Int8
      <4>1. p.ttl \in Int
        BY <1>7, Int8Facts DEF node_packet
      <4>2. QED
        BY <4>1, ToInt8Type
    <3>3. s \in node_packet /\ s.req = "ROUTE_INVERSE" /\ s.app = p.app /\ s.sender = p.sender
      BY <1>6, <1>7, <3>1, <3>2, NodeFacts DEF node_packet
    <3>4. y = WithCrc(s)
      BY <1>4, <3>1
    <3>5. QED
      BY <3>3, <3>4, WithCrcFields, CrcSender
  <2>6. Proper(y) /\ Hop(l, p, y)
    BY <1>6, <2>5 DEF Proper, Hop, PacketReq
  <2>7. PICK to : to = {next} /\ to \subseteq Neighbours(l[2]) \cup {Server}
    BY <1>1, <2>3
  <2>8. Send(l[2], l, to, y) /\ net[l] # << >> /\ l[2] \notin Killed
    BY <1>1, <1>6, <2>1, <2>7
  <2>9. Puts(l, Head(net[l]), to, [q \in Node |-> y])
    BY <1>1, <2>5, <2>6, <2>7, <2>8, PutsSame
  <2>10. PICK msg : Puts(l, p, to, msg)
    BY <1>1, <2>9
  <2>11. QED
    BY <1>10, <2>4, <2>10 DEF Does
<1>13. QED
  BY <1>11, <1>12

\* handle_node_route_direct with route_direct_handle_delivered.
LEMMA RouteDirectDoes ==
  ASSUME Steady, Ready, NEW l \in Link, HandleRouteDirect(l)
  PROVE  Does(l)
<1>1. PICK n, p : n = l[2] /\ p = Head(net[l])
  OBVIOUS
<1>2. PICK id, rt, t : id = p.app.id /\ rt = LearnDirect(routing[n], p) /\ t = messages[n]
  OBVIOUS
<1>3. PICK was, done : was = set_was_message_by_id(t, id) /\ done = set_inverse_by_id(was, id)
  OBVIOUS
<1>4. Receives(l, "ROUTE_DIRECT")
  BY DEF HandleRouteDirect
<1>5. /\ net[l] # << >> /\ p.req = "ROUTE_DIRECT" /\ Proper(p) /\ n \in Node \ Killed
      /\ l[1] \notin Killed /\ routing[n] \in Routes(n) /\ routing[n] \in RoutingTable
      /\ AliveTable(routing[n])
  BY <1>1, <1>4, HeadReady
<1>6. /\ p \in node_packet /\ p.app \in AppPayload /\ is_valid_crc(p)
      /\ p.local \in Neighbours(n) /\ p.local = l[1] /\ l[1] # Server
  <2>1. p \in Carried(l)
    BY <1>1, <1>5, HeadFacts DEF Ready, IInv
  <2>2. QED
    BY <1>1, <1>5, <2>1, PacketFacts DEF PacketReq, Ready, Carried
<1>7. p.sender \in Node /\ p.local \in Node /\ p.ttl \in 0 .. TTL - 1
  BY <1>5, <1>6, NeighboursFinite DEF Proper, PacketReq
<1>8. rt \in Routes(n) /\ rt \in RoutingTable /\ AliveTable(rt)
  <2>1. rt \in Routes(n)
    BY <1>2, <1>5, <1>6, LearnGood
  <2>2. AliveTable(rt)
    BY <1>2, <1>5, <1>6, LearnAlive
  <2>3. QED
    BY <2>1, <2>2 DEF Routes
<1>9. /\ Neat(was) /\ Neat(done)
      /\ get_was_message_by_id(was, id) /\ get_was_message_by_id(done, id)
      /\ ~get_was_message_by_id(t, id) => ~get_inverse_by_id(was, id)
  <2>1. PICK c \in Nat : c = Len(issued) /\ c <= MAX_MESSAGE_DATA /\ id \in MessageId /\ id < c
    BY <1>1, <1>2, <1>5, HeadSound DEF Ready, Steady
  <2>2. t \in MessageTable /\ Distinct(t, c) /\ Neat(t)
    BY <1>2, <1>5, <2>1, SameTable
  <2>3. QED
    BY <1>3, <2>1, <2>2, SettersNeat
<1>10. CASE p.ttl <= 0 \/ get_was_message_by_id(t, id)
  <2>1. Discard(n, l) /\ UNCHANGED nodeVars
    BY <1>1, <1>2, <1>10 DEF HandleRouteDirect
  <2>2. PICK msg : Puts(l, p, {}, msg)
    BY <1>1, <1>5, <2>1, PutsNothing
  <2>3. Advances(l, p, {}, msg)
    BY <1>1, <1>2, <1>5, <1>10, <2>1 DEF Advances, nodeVars
  <2>4. QED
    BY <2>1, <2>2, <2>3, LearnedNothing DEF Does
<1>11. CASE ~(p.ttl <= 0 \/ get_was_message_by_id(t, id)) /\ p.receiver = n
  <2>1. route_direct_handle_delivered(n, l, p, rt, was)
    BY <1>1, <1>2, <1>3, <1>6, <1>11 DEF HandleRouteDirect
  <2>2. PICK next : next = routing_next_addr(rt, p.sender)
    OBVIOUS
  <2>3. next \in Neighbours(n) \ Killed
    <3>1. p.ttl \in 1 .. TTL - 1
      BY <1>7, <1>11, MeshAssumption
    <3>2. next # UINT8_MAX
      BY <1>2, <1>5, <1>6, <1>7, <2>2, <3>1, LearnRoute
    <3>3. QED
      BY <1>5, <1>8, <2>2, <3>2, NextAlive
  <2>4. get_conn_and_send(n, next)
    <3>1. PICK to : to = {next} /\ to \in SUBSET (Neighbours(n) \cup {Server}) /\ next \in to
      BY <2>3
    <3>2. next \in Reached(n, to)
      BY <1>5, <2>3, <3>1, ReachedAlive DEF Ready, OInv, Orderly
    <3>3. QED
      BY <3>1, <3>2 DEF get_conn_and_send
  <2>5. PICK y : y = WithCrc([p EXCEPT !.req = "ROUTE_INVERSE", !.ttl = TTL, !.local = n])
    OBVIOUS
  <2>6. PICK a : a = p.app /\ a = PayloadOf(l, p)
    BY <1>6 DEF PayloadOf
  <2>7. /\ Send(n, l, {next, Server}, y) /\ Update(n, rt, done)
        /\ Account(n, {next, Server}, a, node_app_handle_request(a), {Verdict(a)})
    <3>1. ~get_inverse_by_id(was, id) /\ next # UINT8_MAX
      BY <1>9, <1>11, <2>3, NeighboursFinite, NodeFacts, <1>5
    <3>2. QED
      BY <1>2, <1>3, <2>1, <2>2, <2>4, <2>5, <2>6, <3>1 DEF route_direct_handle_delivered
  <2>8. y.req = "ROUTE_INVERSE" /\ y.app = p.app /\ y.sender = p.sender
    <3>1. PICK s : s = [p EXCEPT !.req = "ROUTE_INVERSE", !.ttl = TTL, !.local = n]
      OBVIOUS
    <3>2. s \in node_packet /\ s.req = "ROUTE_INVERSE" /\ s.app = p.app /\ s.sender = p.sender
      BY <1>5, <1>6, <3>1, NodeFacts, Int8Facts DEF node_packet, PacketReq
    <3>3. y = WithCrc(s)
      BY <2>5, <3>1
    <3>4. QED
      BY <3>2, <3>3, WithCrcFields, CrcSender
  <2>9. Proper(y) /\ Hop(l, p, y)
    BY <1>7, <2>8 DEF Proper, Hop, PacketReq
  <2>10. PICK to : to = {next, Server} /\ to \subseteq Neighbours(l[2]) \cup {Server}
    BY <1>1, <2>3
  <2>11. Send(l[2], l, to, y) /\ net[l] # << >> /\ l[2] \notin Killed
    BY <1>1, <1>5, <2>7, <2>10
  <2>12. Puts(l, Head(net[l]), to, [q \in Node |-> y])
    BY <1>1, <2>8, <2>9, <2>10, <2>11, PutsSame
  <2>13. PICK msg : Puts(l, p, to, msg)
    BY <1>1, <2>12
  <2>14. Told(l, p)
    <3>1. Account(l[2], to, a, node_app_handle_request(a), {Verdict(a)})
      BY <1>1, <2>7, <2>10
    <3>2. to \in SUBSET (Neighbours(l[2]) \cup {Server}) /\ Server \in to /\ {Verdict(a)} # {}
      BY <2>10
    <3>3. QED
      BY <1>6, <2>6, <3>1, <3>2, TellsServer
  <2>15. Learned /\ messages'[n] = done
    BY <1>5, <1>8, <1>9, <2>7, LearnedOne DEF Update
  <2>16. Advances(l, p, to, msg)
    BY <1>1, <1>2, <1>5, <1>9, <1>11, <2>14, <2>15 DEF Advances
  <2>17. QED
    BY <2>13, <2>15, <2>16 DEF Does
<1>12. CASE ~(p.ttl <= 0 \/ get_was_message_by_id(t, id)) /\ p.receiver # n
  <2>1. PICK f : f = [p EXCEPT !.local = n]
    OBVIOUS
  <2>2. f \in node_packet /\ f.app = p.app /\ f.sender = p.sender /\ f.ttl = p.ttl
    BY <1>5, <1>6, <2>1, NodeFacts DEF node_packet
  <2>3. Flood(n, l, f) /\ Update(n, rt, was)
    BY <1>1, <1>2, <1>3, <1>6, <1>12, <2>1 DEF HandleRouteDirect
  <2>4. f.ttl \in 1 .. 127 /\ p.ttl - 1 \in 0 .. TTL - 1
    BY <1>7, <1>12, <2>2, MeshAssumption
  <2>5. PICK y : /\ y = broadcast_route(f) /\ y.req = "ROUTE_DIRECT" /\ y.app = p.app
                 /\ y.sender = p.sender /\ y.ttl = p.ttl - 1
    BY <2>2, <2>4, FloodFields
  <2>6. Learned /\ messages'[n] = was
    BY <1>5, <1>8, <1>9, <2>3, LearnedOne DEF Update
  <2>7. Hop(l, p, y)
    BY <1>1, <1>2, <1>5, <1>9, <1>12, <2>5, <2>6 DEF Hop
  <2>8. Proper(y)
    BY <1>7, <2>4, <2>5 DEF Proper
  <2>9. PICK to : to = Neighbours(n) /\ to \subseteq Neighbours(l[2]) \cup {Server}
    BY <1>1
  <2>10. Send(l[2], l, to, y) /\ net[l] # << >> /\ l[2] \notin Killed
    BY <1>1, <1>5, <2>3, <2>5, <2>9 DEF Flood, Send
  <2>11. Puts(l, Head(net[l]), to, [q \in Node |-> y])
    BY <1>1, <2>5, <2>7, <2>8, <2>9, <2>10, PutsSame
  <2>12. PICK msg : Puts(l, p, to, msg) /\ \A q \in Node : msg[q] = y
    BY <1>1, <2>11
  <2>13. Advances(l, p, to, msg)
    BY <1>1, <1>2, <1>5, <1>9, <1>12, <2>5, <2>6, <2>9, <2>12, NeighboursFinite
       DEF Advances, Spreads
  <2>14. QED
    BY <2>6, <2>12, <2>13 DEF Does
<1>13. QED
  BY <1>10, <1>11, <1>12

\* All handlers but handle_reset.
LEMMA HandlersDo ==
  ASSUME Steady, Ready, NEW l \in Link, Handle(l)
  PROVE  Does(l)
<1>1. ~HandleReset(l)
  BY NeverHappens DEF Steady, Ready
<1>2. CASE HandleServer(l)
  BY <1>1, <1>2, ServerSendDoes, BroadcastDoes, ServerUnicastDoes DEF HandleServer
<1>3. CASE HandleNode(l)
  BY <1>3, NodeSendDoes, RouteDirectDoes, RouteInverseDoes, ContestDoes, FirstDoes DEF HandleNode
<1>4. QED
  BY <1>2, <1>3 DEF Handle


-----------------------------------------------------------------------------
(***************************************************************************)
(* A mesh in which nobody dies stays in order.                             *)
(***************************************************************************)
LEMMA ExchangeAwake ==
  ASSUME IInv, Calm, Awake, NEW p \in Peer, NEW from, NEW to \in SUBSET Peer, NEW msg,
         Exchange(p, from, to, msg), p # Server \/ \A q \in to : conn[p][q] = "open"
  PROVE  Awake'
<1>1. ~Dies(p, to)
  BY DEF Dies, Calm
<1>2. proc' = proc /\ conn' = [conn EXCEPT ![p] = ConnAfter(p, to)]
  BY <1>1 DEF Exchange
<1>3. ASSUME NEW q \in Node
      PROVE  conn'[Server][q] = conn[Server][q]
  <2>1. CASE p # Server
    BY <1>2, <2>1, NodeFacts DEF IInv, NetInv, Peer
  <2>2. CASE p = Server
    <3>1. conn'[Server][q] = ConnAfter(p, to)[q] /\ q \in Peer
      BY <1>2, <2>2 DEF IInv, NetInv, Peer
    <3>2. q \in Attempted(p, to) => q \in Reached(p, to) /\ conn[p][q] = "open"
      BY <2>2 DEF Attempted, Reached
    <3>3. QED
      BY <2>2, <3>1, <3>2 DEF ConnAfter
  <2>3. QED
    BY <2>1, <2>2
<1>4. QED
  BY <1>2, <1>3 DEF Awake

LEMMA DoesOrderly ==
  ASSUME Steady, Ready, IInv', NEW l \in Link, Does(l)
  PROVE  Orderly'
<1>1. PICK x, to, msg : Puts(l, x, to, msg) /\ Learned
  BY DEF Does
<1>2. PICK n : n = l[2] /\ n \in Node \ Killed /\ n \in Peer /\ n # Server
  BY <1>1, LinkFacts, NodeFacts DEF Puts, Peer
<1>3. Exchange(n, {l}, to, msg) /\ to \in SUBSET Peer /\ net[l] # << >>
  BY <1>1, <1>2, NeighboursFinite DEF Puts, Peer
<1>4. Awake'
  BY <1>2, <1>3, ExchangeAwake DEF Ready, OInv, Orderly
<1>5. ASSUME NEW k \in Link, NEW i \in 1 .. Len(net'[k])
      PROVE  k[1] \notin Killed /\ Proper(net'[k][i])
  <2>1. {l} \in SUBSET Link /\ \A h \in {l} : net[h] # << >>
    BY <1>3
  <2>2. Stayed({l}, k, i) \/ Added(n, to, msg, k, i)
    BY <1>3, <2>1, Arrives DEF Ready
  <2>3. CASE Stayed({l}, k, i)
    <3>1. PICK j \in 1 .. Len(net[k]) : net'[k][i] = net[k][j]
      BY <2>3 DEF Stayed
    <3>2. net[k] # << >>
      BY <3>1 DEF Ready, IInv, NetInv
    <3>3. QED
      BY <3>1, <3>2 DEF Ready, Orderly, NetProper
  <2>4. CASE Added(n, to, msg, k, i)
    <3>1. k[1] = n /\ k[2] \in to /\ k[2] \in Node /\ net'[k][i] = msg[k[2]]
      BY <2>4, ReachedFacts, LinkFacts DEF Added
    <3>2. QED
      BY <1>1, <1>2, <3>1 DEF Puts
  <2>5. QED
    BY <2>2, <2>3, <2>4
<1>6. ASSUME NEW k \in Link, net'[k] # << >>
      PROVE  1 \in 1 .. Len(net'[k])
  BY <1>6 DEF IInv, NetInv
<1>7. NetProper'
  BY <1>5, <1>6 DEF NetProper
<1>8. QED
  BY <1>1, <1>4, <1>7 DEF Orderly, Learned

\* What the server writes for a request, and to whom.
LEMMA RequestSends ==
  ASSUME NEW r \in Requests, NEW g \in Uninitialised, ClientRequest(r, g)
  PROVE  \E msg : /\ Exchange(Server, {}, {r.sender} \cap Node, msg)
                  /\ \A q \in Node : /\ msg[q].req = r.cmd /\ msg[q].sender = r.sender
                                     /\ msg[q].app.uid = Len(issued) + 1
<1> DEFINE a == AppOf(r, app_msg_id, Len(issued) + 1)
           p == [req |-> r.cmd, sender |-> r.sender,
                 receiver |-> IF r.cmd = "SEND" THEN r.receiver ELSE g,
                 local |-> g,
                 ttl |-> IF r.cmd = "SEND" THEN g ELSE BROADCAST_RADIUS,
                 app |-> a, crc |-> << >>]
           msg == [q \in Node |-> IF r.cmd = "SEND" THEN WithCrc(p) ELSE p]
<1>1. Exchange(Server, {}, {r.sender} \cap Node, msg)
  BY DEF ClientRequest, AppOf
<1>2. a.uid = Len(issued) + 1
  BY DEF AppOf
<1> HIDE DEF a
<1>3. p.req = r.cmd /\ p.app = a /\ p.sender = r.sender
  OBVIOUS
<1>4. WithCrc(p).req = r.cmd /\ WithCrc(p).app = a /\ WithCrc(p).sender = r.sender
  BY DEF WithCrc
<1> HIDE DEF p
<1>5. \A q \in Node : msg[q].req = r.cmd /\ msg[q].sender = r.sender /\ msg[q].app = a
  BY <1>3, <1>4
<1>6. QED
  BY <1>1, <1>2, <1>5

\* A request waits at its sender if that lives.
LEMMA RequestOrderly ==
  ASSUME Steady, Ready, IInv', NEW r \in Requests, NEW g \in Uninitialised, ClientRequest(r, g)
  PROVE  /\ Orderly'
         /\ r.sender \in Live =>
              HasIn(net', <<Server, r.sender, 0>>, r.cmd, Len(issued) + 1)
         /\ \A k \in Link : \A req, u : HasIn(net, k, req, u) => HasIn(net', k, req, u)
<1>1. PICK msg : /\ Exchange(Server, {}, {r.sender} \cap Node, msg)
                 /\ \A q \in Node : /\ msg[q].req = r.cmd /\ msg[q].sender = r.sender
                                    /\ msg[q].app.uid = Len(issued) + 1
  BY RequestSends
<1>2. PICK to \in SUBSET Peer : to = {r.sender} \cap Node /\ Exchange(Server, {}, to, msg)
  BY <1>1 DEF Peer
<1>3. Server \in Peer /\ Server \notin Killed
  BY KilledFacts DEF Peer
<1>4. conn[Server] \in [Peer -> ConnState] /\ IInv /\ Calm /\ Awake
  BY <1>3 DEF Ready, OInv, Orderly, IInv, NetInv
<1>5. CASE r.sender \in Killed \/ r.sender \notin Node
  <2>1. Reached(Server, to) = {}
    <3>1. \A q \in to : conn[Server][q] = "none"
      BY <1>2, <1>4, <1>5 DEF Awake
    <3>2. QED
      BY <3>1 DEF Reached, Attempted, get_conn
  <2>2. ~Dies(Server, to)
    BY <1>2, <1>3, <1>4 DEF Dies, Calm
  <2>3. net' = net
    BY <1>2, <1>4, <2>1, <2>2 DEF Exchange, IInv, NetInv
  <2>4. Awake'
    <3>1. /\ proc' = proc /\ conn' = [conn EXCEPT ![Server] = ConnAfter(Server, to)]
      BY <1>2, <2>2 DEF Exchange
    <3>2. \A q \in Node : conn'[Server][q] = ConnAfter(Server, to)[q]
      BY <1>3, <1>4, <3>1 DEF IInv, NetInv
    <3>3. \A q \in Attempted(Server, to) : conn[Server][q] = "none"
      BY <1>2, <1>4, <1>5, ReachedFacts DEF Awake
    <3>4. \A q \in Node : ConnAfter(Server, to)[q] = conn[Server][q]
      BY <2>1, <3>3 DEF ConnAfter, Peer
    <3>5. QED
      BY <1>4, <3>1, <3>2, <3>4 DEF Awake
  <2>5. Orderly'
    BY <2>3, <2>4 DEF Ready, Orderly, NetProper, RoutesAlive, TablesNeat, ClientRequest, nodeVars
  <2>6. QED
    BY <1>5, <2>3, <2>5 DEF Live
<1>6. CASE r.sender \in Node \ Killed
  <2>1. to = {r.sender} /\ conn[Server][r.sender] = "open"
    BY <1>2, <1>4, <1>6 DEF Awake
  <2>2. Awake'
    BY <1>2, <1>3, <1>4, <2>1, ExchangeAwake
  <2>3. ASSUME NEW k \in Link, NEW i \in 1 .. Len(net'[k])
        PROVE  k[1] \notin Killed /\ Proper(net'[k][i])
    <3>1. Stayed({}, k, i) \/ Added(Server, to, msg, k, i)
      BY <1>2, <1>4, Arrives
    <3>2. CASE Stayed({}, k, i)
      <4>1. PICK j \in 1 .. Len(net[k]) : net'[k][i] = net[k][j]
        BY <3>2 DEF Stayed
      <4>2. net[k] # << >>
        BY <4>1 DEF Ready, IInv, NetInv
      <4>3. QED
        BY <4>1, <4>2 DEF Ready, Orderly, NetProper
    <3>3. CASE Added(Server, to, msg, k, i)
      <4>1. k[1] = Server /\ k[2] = r.sender /\ net'[k][i] = msg[k[2]]
        BY <2>1, <3>3, ReachedFacts DEF Added
      <4>2. PICK y : y = net'[k][i] /\ y.req = r.cmd /\ y.sender = r.sender
        BY <1>1, <1>6, <4>1
      <4>3. y.req # "ROUTE_DIRECT"
        BY <4>2, RequestFields DEF ServerCmd
      <4>4. Proper(y)
        BY <1>6, <4>2, <4>3 DEF Proper
      <4>5. QED
        BY <1>3, <4>1, <4>2, <4>4
    <3>4. QED
      BY <3>1, <3>2, <3>3
  <2>4. ASSUME NEW k \in Link, net'[k] # << >>
        PROVE  1 \in 1 .. Len(net'[k])
    BY <2>4 DEF IInv, NetInv
  <2>5. NetProper'
    BY <2>3, <2>4 DEF NetProper
  <2>6. Orderly'
    BY <2>2, <2>5 DEF Ready, Orderly, RoutesAlive, TablesNeat, ClientRequest, nodeVars
  <2>7. r.sender \in Reached(Server, to)
    <3>1. \A q \in to : conn[Server][q] # "broken"
      BY <2>1
    <3>2. QED
      BY <2>1, <3>1 DEF Reached, Attempted
  <2>8. PICK k \in Link : k = <<Server, r.sender, 0>>
    BY <1>3, <1>6, GenZero DEF Link, Ready
  <2>9. k[1] = Server /\ k[2] = r.sender /\ k[3] = gen[Server]
    BY <1>3, <2>8, GenZero DEF Ready
  <2>10. PICK from \in SUBSET Link : /\ from = {} /\ Exchange(Server, from, to, msg)
                                     /\ \A h \in from : net[h] # << >>
    BY <1>2
  <2>11. /\ \A h \in Link : \A req, u : HasIn(net, h, req, u) => HasIn(net', h, req, u)
         /\ HasIn(net', k, msg[k[2]].req, msg[k[2]].app.uid)
    <3>1. /\ \A h \in Link : \A req, u : HasIn(net, h, req, u) =>
               \/ HasIn(net', h, req, u)
               \/ h \in from /\ Head(net[h]).req = req /\ Head(net[h]).app.uid = u
          /\ \A h \in Link : h[1] = Server /\ h[2] \in Reached(Server, to) /\ h[3] = gen[Server] =>
               HasIn(net', h, msg[h[2]].req, msg[h[2]].app.uid)
      <4>1. /\ IInv /\ Calm /\ Exchange(Server, from, to, msg)
            /\ \A h \in from : net[h] # << >>
        BY <1>4, <2>10
      <4>2. QED
        BY <1>3, <4>1, ExchangeHas, ZenonT(60)
    <3>2. \A h \in Link : \A req, u : HasIn(net, h, req, u) => HasIn(net', h, req, u)
      <4>1. \A h : h \notin from
        BY <2>10
      <4>2. QED
        BY <3>1, <4>1, Zenon
    <3>3. k[1] = Server /\ k[2] \in Reached(Server, to) /\ k[3] = gen[Server]
      BY <2>7, <2>9
    <3>4. HasIn(net', k, msg[k[2]].req, msg[k[2]].app.uid)
      BY <3>1, <3>3, Zenon
    <3>5. QED
      BY <3>2, <3>4
  <2>12. HasIn(net', k, r.cmd, Len(issued) + 1)
    BY <1>1, <1>6, <2>9, <2>11
  <2>13. QED
    BY <2>6, <2>8, <2>11, <2>12
<1>7. QED
  BY <1>5, <1>6


-----------------------------------------------------------------------------
(***************************************************************************)
(* What a handler does to the requests, to what is under way and to what   *)
(* the nodes know: nothing is lost but the message x at the head of link   *)
(* l, and nothing new is known but its id.                                 *)
(***************************************************************************)
\* A setter leaves other ids alone.
LEMMA SetOther ==
  ASSUME NEW t \in MessageTable, NEW m \in Nat, m <= MAX_MESSAGE_DATA, Distinct(t, m),
         NEW id \in MessageId, id < m, NEW flag \in Flags, NEW e, e # id
  PROVE  LET s == SetFlag(Looked(t, id), id, flag)
         IN  /\ is_id_set(s, e) => is_id_set(t, e)
             /\ get_was_message_by_id(s, e) => get_was_message_by_id(t, e)
<1>1. PICK s : s = SetFlag(Looked(t, id), id, flag) /\ s \in MessageTable
  BY SetKeeps
<1>2. PICK i \in Entry : Enters(t, s, id, flag, i)
  BY <1>1, SetEnters
<1>3. is_id_set(s, e) => is_id_set(t, e)
  BY <1>1, <1>2, EntersOther
<1>4. Flagged(s, e, "was_message") => Flagged(t, e, "was_message")
  BY <1>1, <1>2, EntersOther
<1>5. QED
  BY <1>1, <1>3, <1>4 DEF get_was_message_by_id

\* Nodes know what they knew, and besides at most the id of x.
Remembered(l, x) ==
  \A m \in Node : \A id :
    /\ is_id_set(messages[m], id) => is_id_set(messages'[m], id)
    /\ get_was_message_by_id(messages[m], id) => get_was_message_by_id(messages'[m], id)
    /\ m # l[2] \/ id # x.app.id \/ x.req \notin {"ROUTE_DIRECT", "UNICAST_FIRST"} =>
         /\ is_id_set(messages'[m], id) => is_id_set(messages[m], id)
         /\ get_was_message_by_id(messages'[m], id) => get_was_message_by_id(messages[m], id)

LEMMA RemembersRemembered ==
  ASSUME Steady, Ready, NEW l \in Link, net[l] # << >>, NEW x, x = Head(net[l]),
         NEW to, Remembers(l, to)
  PROVE  Remembered(l, x)
<1>1. PICK n \in Node : n = l[2]
  BY LinkFacts
<1>2. PICK id \in MessageId, c \in Nat :
        id = x.app.id /\ c = Len(issued) /\ id < c /\ c <= MAX_MESSAGE_DATA
  BY HeadSound DEF Steady, Ready
<1>3. PICK t \in MessageTable : t = messages[n] /\ Distinct(t, c)
  BY <1>1, <1>2, SameTable
<1>4. Learns(n)
  BY <1>1, RemembersLearns DEF Steady, Ready
<1>5. ASSUME NEW m \in Node, NEW e
      PROVE  /\ is_id_set(messages[m], e) => is_id_set(messages'[m], e)
             /\ get_was_message_by_id(messages[m], e) => get_was_message_by_id(messages'[m], e)
  <2>1. PICK v, w : v = messages[m] /\ w = messages'[m]
    OBVIOUS
  <2>2. /\ v \in MessageTable /\ w \in MessageTable /\ Distinct(v, c) /\ Distinct(w, c)
        /\ Keeps(v, w)
    BY <1>2, <1>4, <2>1, SameTable DEF Learns
  <2>3. /\ is_id_set(v, e) => is_id_set(w, e)
        /\ Flagged(v, e, "was_message") => Flagged(w, e, "was_message")
    BY <2>2, KeepsKnown
  <2>4. QED
    BY <2>1, <2>3 DEF get_was_message_by_id
<1>6. ASSUME NEW m \in Node, NEW e, m # n
      PROVE  messages'[m] = messages[m]
  BY <1>4, <1>6 DEF Learns
<1>7. CASE x.req \notin {"ROUTE_DIRECT", "UNICAST_FIRST"}
  <2>1. messages' = messages
    BY <1>7 DEF Remembers
  <2>2. QED
    BY <2>1 DEF Remembered
<1>8. ASSUME NEW e, e # id
      PROVE  /\ is_id_set(messages'[n], e) => is_id_set(t, e)
             /\ get_was_message_by_id(messages'[n], e) => get_was_message_by_id(t, e)
  <2>1. CASE x.req = "UNICAST_FIRST"
    <3>1. PICK s : s = SetFlag(Looked(t, id), id, "unicast_first")
      OBVIOUS
    <3>2. messages' = [messages EXCEPT ![n] = s]
      BY <1>1, <1>2, <1>3, <2>1, <3>1 DEF Remembers, set_unicast_status_by_id
    <3>3. messages'[n] = s
      BY <3>2 DEF Ready, IInv, TableInv
    <3>4. QED
      BY <1>2, <1>3, <1>8, <3>1, <3>3, SetOther DEF Flags
  <2>2. CASE x.req = "ROUTE_DIRECT"
    <3>1. PICK s : s = SetFlag(Looked(t, id), id, "was_message")
      OBVIOUS
    <3>2. s \in MessageTable /\ Distinct(s, c)
      BY <1>2, <1>3, <3>1, SetKeeps DEF Flags
    <3>3. PICK v : v = SetFlag(Looked(s, id), id, "stop_inverse")
      OBVIOUS
    <3>4. \/ messages' = messages
          \/ messages' = [messages EXCEPT ![n] = s]
          \/ messages' = [messages EXCEPT ![n] = v]
      BY <1>1, <1>2, <1>3, <2>2, <3>1, <3>3
         DEF Remembers, set_was_message_by_id, set_inverse_by_id
    <3>5. messages'[n] \in {t, s, v}
      BY <1>3, <3>4 DEF Ready, IInv, TableInv
    <3>6. /\ is_id_set(s, e) => is_id_set(t, e)
          /\ get_was_message_by_id(s, e) => get_was_message_by_id(t, e)
      BY <1>2, <1>3, <1>8, <3>1, SetOther DEF Flags
    <3>7. /\ is_id_set(v, e) => is_id_set(s, e)
          /\ get_was_message_by_id(v, e) => get_was_message_by_id(s, e)
      BY <1>2, <1>8, <3>2, <3>3, SetOther DEF Flags
    <3>8. QED
      BY <3>5, <3>6, <3>7
  <2>3. CASE x.req \notin {"ROUTE_DIRECT", "UNICAST_FIRST"}
    BY <1>3, <2>3 DEF Remembers
  <2>4. QED
    BY <2>1, <2>2, <2>3
<1>9. CASE x.req \in {"ROUTE_DIRECT", "UNICAST_FIRST"}
  <2> SUFFICES ASSUME NEW m \in Node, NEW e, m # n \/ e # id
               PROVE  /\ is_id_set(messages'[m], e) => is_id_set(messages[m], e)
                      /\ get_was_message_by_id(messages'[m], e) =>
                           get_was_message_by_id(messages[m], e)
    BY <1>1, <1>2, <1>5, <1>9 DEF Remembered
  <2>1. CASE m # n
    BY <1>6, <2>1
  <2>2. CASE m = n /\ e # id
    BY <1>3, <1>8, <2>2
  <2>3. QED
    BY <2>1, <2>2
<1>10. QED
  BY <1>7, <1>9

\* What was notified and accepted stays so.
LEMMA HistoryGrows ==
  ASSUME Ready, NEW l \in Link, NEW a \in AppPayload, NEW to, NEW ok, NEW kinds,
         Account(l[2], to, a, ok, kinds)
  PROVE  /\ \A u \in Uid : notes[u] # {} => notes'[u] # {}
         /\ \A u \in Uid, m \in Node : handled[u][m] > 0 => handled'[u][m] > 0
<1>1. a.uid \in Uid /\ l[2] \in Node
  BY LinkFacts DEF AppPayload
<1>2. notes \in [Uid -> SUBSET {"GOT", "FAIL"}] /\ handled \in [Uid -> [Node -> 0 .. 2]]
  BY DEF Ready, IInv, HistoryInv
<1>3. \A u \in Uid : notes[u] \subseteq notes'[u]
  <2>1. notes' = notes \/ notes' = [notes EXCEPT ![a.uid] = @ \cup kinds]
    BY DEF Account
  <2>2. CASE notes' = notes
    BY <2>2
  <2>3. CASE notes' = [notes EXCEPT ![a.uid] = @ \cup kinds]
    BY <1>1, <1>2, <2>3
  <2>4. QED
    BY <2>1, <2>2, <2>3
<1>4. ASSUME NEW u \in Uid, NEW m \in Node, handled[u][m] > 0
      PROVE  handled'[u][m] > 0
  <2>1. handled[u][m] \in 0 .. 2
    BY <1>2
  <2>2. handled' = handled \/ handled' = [handled EXCEPT ![a.uid][l[2]] = @ + 1]
    BY DEF Account
  <2>3. CASE handled' = handled
    BY <1>4, <2>3
  <2>4. CASE handled' = [handled EXCEPT ![a.uid][l[2]] = @ + 1]
    <3>1. handled'[u][m] \in {handled[u][m], handled[u][m] + 1}
      BY <1>1, <1>2, <2>4
    <3>2. QED
      BY <1>4, <2>1, <3>1
  <2>5. QED
    BY <2>2, <2>3, <2>4
<1>5. QED
  BY <1>3, <1>4


Grows(l, x) ==
  /\ net[l] # << >> /\ x = Head(net[l]) /\ Takable(l, x)
  /\ issued' = issued /\ Remembered(l, x)
  /\ \A k \in Link : \A req, u : HasIn(net, k, req, u) =>
       HasIn(net', k, req, u) \/ (k = l /\ x.req = req /\ x.app.uid = u)
  /\ \A k \in Link : \A req, u : HasIn(net', k, req, u) =>
       HasIn(net, k, req, u) \/ (u = x.app.uid /\ \E y : y.req = req /\ Follows(l, x, k, y))
  /\ \A u \in Uid : notes[u] # {} => notes'[u] # {}
  /\ \A u \in Uid, m \in Node : handled[u][m] > 0 => handled'[u][m] > 0

LEMMA HandlesGrows ==
  ASSUME Steady, Ready, NEW l \in Link, Handles(l)
  PROVE  Grows(l, Head(net[l]))
<1>1. PICK x : x = Head(net[l])
  OBVIOUS
<1>2. PICK to, msg : /\ Writes(l, to, msg) /\ Remembers(l, to)
                     /\ Offers(l, to) \/ UNCHANGED <<handled, notes>>
  BY DEF Handles
<1>3. net[l] # << >> /\ Takable(l, x)
  BY <1>1 DEF Handles
<1>4. x.app \in AppPayload
  BY <1>1, <1>3, HeadSound DEF Steady, Ready
<1>5. Remembered(l, x)
  BY <1>1, <1>2, <1>3, RemembersRemembered
<1>6. /\ \A u \in Uid : notes[u] # {} => notes'[u] # {}
      /\ \A u \in Uid, m \in Node : handled[u][m] > 0 => handled'[u][m] > 0
  <2>1. CASE UNCHANGED <<handled, notes>>
    BY <2>1
  <2>2. CASE Offers(l, to)
    <3>1. PICK a \in AppPayload : a = PayloadOf(l, x)
      BY <1>4, PayloadFacts
    <3>2. \E ok, kinds : Account(l[2], to, a, ok, kinds)
      BY <1>1, <2>2, <3>1 DEF Offers
    <3>3. QED
      BY <3>2, HistoryGrows
  <2>3. QED
    BY <1>2, <2>1, <2>2
<1>7. PICK n \in Node : n = l[2] /\ n \in Peer
  BY LinkFacts DEF Peer
<1>8. /\ Exchange(n, {l}, to, msg) /\ to \in SUBSET Peer /\ {l} \in SUBSET Link
      /\ \A k \in {l} : net[k] # << >>
  BY <1>2, <1>3, <1>7, NeighboursFinite DEF Writes, Peer
<1>9. \A k \in Link : \A req, u : HasIn(net, k, req, u) =>
        HasIn(net', k, req, u) \/ (k = l /\ x.req = req /\ x.app.uid = u)
  <2>1. IInv /\ Calm
    BY DEF Ready, OInv
  <2>2. \A k \in Link : \A req, u : HasIn(net, k, req, u) =>
          \/ HasIn(net', k, req, u)
          \/ k \in {l} /\ Head(net[k]).req = req /\ Head(net[k]).app.uid = u
    BY <1>7, <1>8, <2>1, ExchangeHas, Zenon
  <2>3. QED
    BY <1>1, <2>2
<1>10. ASSUME NEW k \in Link, NEW req, NEW u, HasIn(net', k, req, u)
       PROVE  HasIn(net, k, req, u) \/ (u = x.app.uid /\ \E y : y.req = req /\ Follows(l, x, k, y))
  <2>1. PICK i \in 1 .. Len(net'[k]) : net'[k][i].req = req /\ net'[k][i].app.uid = u
    BY <1>10 DEF HasIn
  <2>2. Stayed({l}, k, i) \/ Added(n, to, msg, k, i)
    BY <1>8, Arrives DEF Ready
  <2>3. CASE Stayed({l}, k, i)
    <3>1. PICK j \in 1 .. Len(net[k]) : net'[k][i] = net[k][j]
      BY <2>3 DEF Stayed
    <3>2. QED
      BY <2>1, <3>1 DEF HasIn
  <2>4. CASE Added(n, to, msg, k, i)
    <3>1. PICK y : y = msg[k[2]] /\ y = net'[k][i] /\ k[1] = n /\ k[2] \in to
      BY <2>4, ReachedFacts DEF Added
    <3>2. Follows(l, x, k, y)
      BY <1>1, <1>2, <1>7, <3>1 DEF Writes
    <3>3. y.app.uid = x.app.uid
      <4>1. y.app = PayloadOf(l, x)
        BY <3>2 DEF Follows, PayloadOf
      <4>2. QED
        BY <1>4, <4>1, PayloadFacts
    <3>4. QED
      BY <2>1, <3>1, <3>2, <3>3
  <2>5. QED
    BY <2>2, <2>3, <2>4
<1>11. issued' = issued
  BY <1>2 DEF Writes, Frame
<1>12. Grows(l, x)
  BY <1>1, <1>3, <1>5, <1>6, <1>9, <1>10, <1>11 DEF Grows
<1>13. QED
  BY <1>1, <1>12

\* What a handler writes to a node that lives waits there.
LEMMA WrittenWaits ==
  ASSUME Steady, Ready, NEW l \in Link, NEW x, NEW to, NEW msg, Puts(l, x, to, msg),
         NEW q \in to, q \in Live
  PROVE  <<l[2], q, 0>> \in Link /\ HasIn(net', <<l[2], q, 0>>, msg[q].req, x.app.uid)
<1>1. PICK n \in Node : n = l[2] /\ n \in Peer
  BY LinkFacts DEF Peer
<1>2. /\ Exchange(n, {l}, to, msg) /\ to \in SUBSET (Neighbours(n) \cup {Server})
      /\ to \in SUBSET Peer /\ {l} \in SUBSET Link /\ \A k \in {l} : net[k] # << >>
  BY <1>1, NeighboursFinite DEF Puts, Peer
<1>3. IInv /\ Calm /\ Awake /\ q \in Node /\ q \notin Killed
  BY DEF Ready, OInv, Orderly, Live
<1>4. q \in Reached(n, to)
  BY <1>2, <1>3, ReachedAlive
<1>5. PICK k \in Link : k = <<n, q, 0>>
  BY <1>1, <1>3, GenZero DEF Link
<1>6. k[1] = n /\ k[2] = q /\ k[3] = gen[n]
  BY <1>1, <1>3, <1>5, GenZero
<1>7. HasIn(net', k, msg[k[2]].req, msg[k[2]].app.uid)
  <2>1. PICK from \in SUBSET Link : from = {l}
    OBVIOUS
  <2>2. Exchange(n, from, to, msg) /\ \A h \in from : net[h] # << >>
    BY <1>2, <2>1
  <2>3. \A h \in Link : h[1] = n /\ h[2] \in Reached(n, to) /\ h[3] = gen[n] =>
          HasIn(net', h, msg[h[2]].req, msg[h[2]].app.uid)
    <3>1. IInv /\ Calm /\ n \in Peer /\ to \in SUBSET Peer
      BY <1>1, <1>2, <1>3
    <3>2. QED
      BY <2>2, <3>1, ExchangeHas, ZenonT(60)
  <2>4. QED
    BY <1>4, <1>6, <2>3
<1>8. msg[q].app.uid = x.app.uid
  BY <1>3 DEF Puts
<1>9. QED
  BY <1>1, <1>5, <1>6, <1>7, <1>8


-----------------------------------------------------------------------------
(***************************************************************************)
(* What the mesh still owes request u, given the network N, the message    *)
(* tables tab, the notifications told and the nodes that accepted it, h.   *)
(***************************************************************************)
\* The flood that looks for d has a front: behind it all have seen it.
Spread(N, tab, u, d) ==
  \E o \in Live \ {d} : \A y \in ({o} \cup Marked(tab, u)) \ {d} :
    \A z \in Neighbours(y) \cap Live :
      z \in Marked(tab, u) \/ HasIn(N, <<y, z, 0>>, "ROUTE_DIRECT", u)

\* A send: it is notified, or under way from node to node, or flooded.
SendKept(N, tab, told, u, d) ==
  /\ told # {} \/ SomeIn(N, "SEND", u) \/ Spread(N, tab, u, d)
  /\ d \in Marked(tab, u) => told # {}
  /\ SomeIn(N, "SEND", u) => Marked(tab, u) = {}

\* A broadcast of s: for every node in reach.
BroadcastKept(N, h, u, s) ==
  \A z \in Neighbours(s) \cap Live :
    \/ HasIn(N, <<Server, s, 0>>, "BROADCAST", u)
    \/ HasIn(N, <<s, z, 0>>, "SEND", u)
    \/ h[z] > 0

\* A unicast of s: it has a winner, or the contest is open.
UnicastKept(N, tab, h, u, s) ==
  \/ /\ ~is_id_set(tab[s], u - 1)
     /\ \/ HasIn(N, <<Server, s, 0>>, "UNICAST", u)
        \/ SomeIn(N, "UNICAST_CONTEST", u)
        \/ SomeIn(N, "UNICAST_FIRST", u)
  \/ SomeIn(N, "SEND", u)
  \/ \E z \in Node : h[z] > 0

Kept(asked, N, tab, told, h, u) ==
  LET r == asked[u]
  IN  r.sender \in Live =>
        /\ r.cmd = "SEND" => SendKept(N, tab, told[u], u, r.receiver)
        /\ r.cmd = "BROADCAST" => BroadcastKept(N, h[u], u, r.sender)
        /\ r.cmd = "UNICAST" => UnicastKept(N, tab, h[u], u, r.sender)

\* No promise is forgotten.
Keeping == \A u \in 1 .. Len(issued) : Kept(issued, net, messages, notes, handled, u)

\* The copy of a flood at the head of link l is not the last one with too
\* little ttl.
Lasts(l) ==
  Head(net[l]).ttl <= 0 =>
    get_was_message_by_id(messages[l[2]], Head(net[l]).app.id)

(***************************************************************************)
(* No flood runs out of ttl at a node that has not seen it.  The copy that *)
(* comes first counts, by whatever way it came: handle_route_direct marks  *)
(* the id and passes on what is left of the ttl of that copy, so a detour  *)
(* that is faster than the short way shortens the reach of all.            *)
(***************************************************************************)
FloodsReach ==
  \A l \in Link : \A i \in 1 .. Len(net[l]) :
    net[l][i].req = "ROUTE_DIRECT" /\ net[l][i].ttl <= 0
      => get_was_message_by_id(messages[l[2]], net[l][i].app.id)

\* Links between nodes that live.
LEMMA LinkOf ==
  ASSUME Steady, Ready, NEW y \in Peer, NEW z \in Node
  PROVE  <<y, z, 0>> \in Link
BY GenZero DEF Link, Ready

LEMMA NumberOf ==
  ASSUME Ready, NEW u \in 1 .. Len(issued)
  PROVE  u \in Uid /\ u \in Nat /\ issued[u] \in Requests
<1>1. Len(issued) \in Nat /\ MaxRequests \in Nat /\ Len(issued) <= MaxRequests
      /\ issued \in Seq(Requests)
  BY MeshAssumption DEF Ready, IInv, HistoryInv
<1>2. QED
  BY <1>1 DEF Uid

\* Who has seen the flood after a handler.
LEMMA MarkedGrows ==
  ASSUME Steady, Ready, NEW l \in Link, NEW x, Grows(l, x), NEW u \in 1 .. Len(issued)
  PROVE  /\ Marked(messages, u) \subseteq Marked(messages', u)
         /\ Marked(messages', u) \subseteq Marked(messages, u) \cup {l[2]}
         /\ u # x.app.uid \/ x.req \notin {"ROUTE_DIRECT", "UNICAST_FIRST"} =>
              /\ Marked(messages', u) = Marked(messages, u)
              /\ \A n \in Node : is_id_set(messages'[n], u - 1) => is_id_set(messages[n], u - 1)
<1>1. Remembered(l, x)
  BY DEF Grows
<1>2. u # x.app.uid => u - 1 # x.app.id
  <2>1. x.app.id = x.app.uid - 1 /\ x.app.uid \in 1 .. Len(issued) /\ Len(issued) \in Nat
    BY HeadSound DEF Grows, Steady, Ready
  <2>2. QED
    BY <2>1
<1>3. Marked(messages, u) \subseteq Marked(messages', u)
  BY <1>1 DEF Remembered, Marked
<1>4. Marked(messages', u) \subseteq Marked(messages, u) \cup {l[2]}
  BY <1>1 DEF Remembered, Marked
<1>5. ASSUME u # x.app.uid \/ x.req \notin {"ROUTE_DIRECT", "UNICAST_FIRST"}
      PROVE  /\ Marked(messages', u) \subseteq Marked(messages, u)
             /\ \A n \in Node : is_id_set(messages'[n], u - 1) => is_id_set(messages[n], u - 1)
  BY <1>1, <1>2, <1>5 DEF Remembered, Marked
<1>6. QED
  BY <1>3, <1>4, <1>5

LEMMA SomeGrows ==
  ASSUME NEW l \in Link, NEW x, Grows(l, x), NEW req, NEW u
  PROVE  /\ SomeIn(net, req, u) => SomeIn(net', req, u) \/ (x.req = req /\ x.app.uid = u)
         /\ SomeIn(net', req, u) =>
              \/ SomeIn(net, req, u)
              \/ u = x.app.uid /\ \E k \in Link : \E y : y.req = req /\ Follows(l, x, k, y)
<1>1. ASSUME SomeIn(net, req, u)
      PROVE  SomeIn(net', req, u) \/ (x.req = req /\ x.app.uid = u)
  BY <1>1 DEF SomeIn, Grows
<1>2. ASSUME SomeIn(net', req, u)
      PROVE  \/ SomeIn(net, req, u)
             \/ u = x.app.uid /\ \E k \in Link : \E y : y.req = req /\ Follows(l, x, k, y)
  BY <1>2 DEF SomeIn, Grows
<1>3. QED
  BY <1>1, <1>2

\* The front moves, or the flood meets a node that has seen it.
LEMMA SpreadKeeps ==
  ASSUME Steady, Ready, NEW l \in Link, NEW x, Grows(l, x), NEW u \in 1 .. Len(issued), NEW d,
         Spread(net, messages, u, d),
         x.req = "ROUTE_DIRECT" /\ u = x.app.uid => l[2] \in Marked(messages', u),
         \/ Marked(messages', u) \subseteq Marked(messages, u)
         \/ l[2] = d
         \/ \A z \in Neighbours(l[2]) \cap Live : HasIn(net', <<l[2], z, 0>>, "ROUTE_DIRECT", u)
  PROVE  Spread(net', messages', u, d)
<1>1. PICK M, W : M = Marked(messages, u) /\ W = Marked(messages', u)
  OBVIOUS
<1>2. M \subseteq W /\ W \subseteq M \cup {l[2]} /\ W \subseteq Node
  BY <1>1, MarkedGrows DEF Marked
<1>3. PICK o \in Live \ {d} : \A y \in ({o} \cup M) \ {d} : \A z \in Neighbours(y) \cap Live :
        z \in M \/ HasIn(net, <<y, z, 0>>, "ROUTE_DIRECT", u)
  BY <1>1 DEF Spread
<1>4. ASSUME NEW y \in ({o} \cup W) \ {d}, NEW z \in Neighbours(y) \cap Live
      PROVE  z \in W \/ HasIn(net', <<y, z, 0>>, "ROUTE_DIRECT", u)
  <2>1. y \in Peer /\ z \in Node
    BY <1>2 DEF Live, Peer
  <2>2. CASE y \in {o} \cup M
    <3>1. z \in M \/ HasIn(net, <<y, z, 0>>, "ROUTE_DIRECT", u)
      BY <1>3, <2>2
    <3>2. PICK k \in Link : k = <<y, z, 0>> /\ k[2] = z
      BY <2>1, LinkOf
    <3>3. HasIn(net, k, "ROUTE_DIRECT", u) =>
            HasIn(net', k, "ROUTE_DIRECT", u) \/ (k = l /\ x.req = "ROUTE_DIRECT" /\ x.app.uid = u)
      BY DEF Grows
    <3>4. k = l /\ x.req = "ROUTE_DIRECT" /\ x.app.uid = u => z \in W
      BY <1>1, <3>2
    <3>5. QED
      BY <1>2, <3>1, <3>2, <3>3, <3>4
  <2>3. CASE y \notin {o} \cup M
    <3>1. y = l[2] /\ y \in W /\ y \notin M /\ y # d
      BY <1>2, <2>3
    <3>2. QED
      BY <1>1, <3>1
  <2>4. QED
    BY <2>2, <2>3
<1>5. QED
  BY <1>1, <1>3, <1>4 DEF Spread


\* A handler that has to do with another request, or with an answer.
LEMMA KeptSendBeside ==
  ASSUME Steady, Ready, NEW l \in Link, NEW x, Grows(l, x), NEW u \in 1 .. Len(issued), NEW d,
         SendKept(net, messages, notes[u], u, d), u # x.app.uid \/ x.req = "ROUTE_INVERSE"
  PROVE  SendKept(net', messages', notes'[u], u, d)
<1>1. Marked(messages', u) = Marked(messages, u)
  BY MarkedGrows
<1>2. notes[u] # {} => notes'[u] # {}
  BY NumberOf DEF Grows
<1>3. SomeIn(net, "SEND", u) => SomeIn(net', "SEND", u)
  BY SomeGrows
<1>4. SomeIn(net', "SEND", u) => SomeIn(net, "SEND", u)
  <2>1. ASSUME NEW k, NEW y, Follows(l, x, k, y), x.req = "ROUTE_INVERSE"
        PROVE  y.req # "SEND"
    BY <2>1 DEF Follows
  <2>2. QED
    BY <2>1, SomeGrows
<1>5. Spread(net, messages, u, d) => Spread(net', messages', u, d)
  BY <1>1, SpreadKeeps
<1>6. QED
  BY <1>1, <1>2, <1>3, <1>4, <1>5 DEF SendKept

\* A message that is taken was under way.
LEMMA HeadIn ==
  ASSUME Ready, NEW l \in Link, NEW x, net[l] # << >>, x = Head(net[l])
  PROVE  HasIn(net, l, x.req, x.app.uid) /\ SomeIn(net, x.req, x.app.uid)
<1>1. x = net[l][1] /\ 1 \in 1 .. Len(net[l])
  BY DEF Ready, IInv, NetInv
<1>2. QED
  BY <1>1 DEF HasIn, SomeIn

\* While a send is flooded it is not under way as itself.
LEMMA FloodAlone ==
  ASSUME Ready, NEW l \in Link, NEW x, net[l] # << >>, x = Head(net[l]), x.req = "ROUTE_DIRECT"
  PROVE  ~SomeIn(net, "SEND", x.app.uid)
<1> SUFFICES ASSUME NEW k \in Link, NEW j \in 1 .. Len(net[k]),
                    net[k][j].req = "SEND", net[k][j].app.uid = x.app.uid
             PROVE  FALSE
  BY DEF SomeIn, HasIn
<1>1. x = net[l][1] /\ 1 \in 1 .. Len(net[l])
  BY DEF Ready, IInv, NetInv
<1>2. l # k \/ 1 # j
  BY <1>1
<1>3. Apart(l, net[l][1], k, net[k][j])
  BY <1>1, <1>2 DEF Ready, OInv, NetApart
<1>4. QED
  BY <1>1, <1>3 DEF Apart

\* Where a flood starts.
LEMMA SpreadStarts ==
  ASSUME NEW N, NEW tab, NEW u, NEW d, NEW n \in Live, n # d, Marked(tab, u) = {},
         \A z \in Neighbours(n) \cap Live : HasIn(N, <<n, z, 0>>, "ROUTE_DIRECT", u)
  PROVE  Spread(N, tab, u, d)
BY DEF Spread

\* The send itself is taken.
LEMMA KeptSendTaken ==
  ASSUME Steady, Ready, NEW l \in Link, NEW x, NEW to, NEW msg, Grows(l, x), Puts(l, x, to, msg),
         Advances(l, x, to, msg), NEW d, d = x.receiver, x.req = "SEND",
         x.app.uid \in 1 .. Len(issued),
         SendKept(net, messages, notes[x.app.uid], x.app.uid, d)
  PROVE  SendKept(net', messages', notes'[x.app.uid], x.app.uid, d)
<1>1. PICK u \in 1 .. Len(issued), n \in Node : u = x.app.uid /\ n = l[2]
  BY LinkFacts
<1>2. n \in Live /\ net[l] # << >> /\ x = Head(net[l])
  BY <1>1 DEF Puts, Live
<1>3. Marked(messages', u) = {}
  <2>1. SomeIn(net, "SEND", u)
    BY <1>1, <1>2, HeadIn
  <2>2. Marked(messages, u) = {}
    BY <1>1, <2>1 DEF SendKept
  <2>3. QED
    BY <2>2, MarkedGrows
<1>4. \/ x.receiver = n /\ Told(l, x)
      \/ x.receiver # n /\ Hands(l, to, msg)
      \/ x.receiver # n /\ Spreads(l, to, msg, "ROUTE_DIRECT")
  BY <1>1 DEF Advances
<1>5. CASE Told(l, x)
  BY <1>1, <1>3, <1>5 DEF Told, SendKept
<1>6. CASE Hands(l, to, msg)
  <2>1. PICK q \in to : q \in Live /\ msg[q].req = "SEND"
    BY <1>1, <1>6, NeighboursFinite DEF Hands, Live
  <2>2. <<l[2], q, 0>> \in Link /\ HasIn(net', <<l[2], q, 0>>, "SEND", u)
    BY <1>1, <2>1, WrittenWaits
  <2>3. SomeIn(net', "SEND", u)
    BY <2>2 DEF SomeIn
  <2>4. QED
    BY <1>1, <1>3, <2>3 DEF SendKept
<1>7. CASE x.receiver # n /\ Spreads(l, to, msg, "ROUTE_DIRECT")
  <2>1. ASSUME NEW z \in Neighbours(n) \cap Live
        PROVE  HasIn(net', <<n, z, 0>>, "ROUTE_DIRECT", u)
    <3>1. z \in to /\ z \in Live /\ msg[z].req = "ROUTE_DIRECT"
      BY <1>1, <1>7 DEF Spreads
    <3>2. QED
      BY <1>1, <3>1, WrittenWaits
  <2>2. Spread(net', messages', u, d)
    BY <1>2, <1>3, <1>7, <2>1, SpreadStarts
  <2>3. QED
    BY <1>1, <1>3, <2>2 DEF SendKept
<1>8. QED
  BY <1>4, <1>5, <1>6, <1>7

\* A copy of the flood is taken.
LEMMA KeptSendFlood ==
  ASSUME Steady, Ready,
         NEW l \in Link, NEW x, NEW to, NEW msg, Lasts(l), Grows(l, x), Puts(l, x, to, msg),
         Advances(l, x, to, msg), NEW d, d = x.receiver, x.req = "ROUTE_DIRECT",
         x.app.uid \in 1 .. Len(issued),
         SendKept(net, messages, notes[x.app.uid], x.app.uid, d)
  PROVE  SendKept(net', messages', notes'[x.app.uid], x.app.uid, d)
<1>1. PICK u \in 1 .. Len(issued), n \in Node : u = x.app.uid /\ n = l[2]
  BY LinkFacts
<1>2. n \in Live /\ net[l] # << >> /\ x = Head(net[l]) /\ x.app.id = u - 1
  BY <1>1, HeadSound DEF Puts, Live, Ready, Steady
<1>3. ~SomeIn(net', "SEND", u)
  <2>1. ASSUME NEW k, NEW y, Follows(l, x, k, y)
        PROVE  y.req # "SEND"
    BY <2>1 DEF Follows
  <2>2. QED
    BY <1>1, <1>2, <2>1, FloodAlone, SomeGrows
<1>4. notes[u] # {} => notes'[u] # {}
  BY NumberOf DEF Grows
<1>5. notes[u] # {} \/ Spread(net, messages, u, d)
  BY <1>1, <1>2, FloodAlone DEF SendKept
<1>6. Marked(messages', u) \subseteq Marked(messages, u) \cup {n}
  BY <1>1, MarkedGrows
<1>7. CASE UNCHANGED messages /\ (x.ttl <= 0 \/ get_was_message_by_id(messages[n], x.app.id))
  <2>1. n \in Marked(messages, u)
    <3>1. get_was_message_by_id(messages[n], x.app.id)
      BY <1>1, <1>2, <1>7 DEF Lasts
    <3>2. QED
      BY <1>2, <3>1 DEF Marked
  <2>2. Marked(messages', u) = Marked(messages, u)
    BY <1>7
  <2>3. Spread(net, messages, u, d) => Spread(net', messages', u, d)
    BY <1>1, <2>1, <2>2, SpreadKeeps
  <2>4. QED
    BY <1>1, <1>3, <1>4, <1>5, <2>2, <2>3 DEF SendKept
<1>8. CASE get_was_message_by_id(messages'[n], x.app.id) /\ x.receiver = n /\ Told(l, x)
  BY <1>1, <1>3, <1>8 DEF Told, SendKept
<1>9. CASE /\ get_was_message_by_id(messages'[n], x.app.id) /\ x.receiver # n
           /\ Spreads(l, to, msg, "ROUTE_DIRECT")
  <2>1. n \in Marked(messages', u)
    BY <1>2, <1>9 DEF Marked
  <2>2. ASSUME NEW z \in Neighbours(n) \cap Live
        PROVE  HasIn(net', <<n, z, 0>>, "ROUTE_DIRECT", u)
    <3>1. z \in to /\ z \in Live /\ msg[z].req = "ROUTE_DIRECT"
      BY <1>1, <1>9 DEF Spreads
    <3>2. QED
      BY <1>1, <3>1, WrittenWaits
  <2>3. Spread(net, messages, u, d) => Spread(net', messages', u, d)
    BY <1>1, <2>1, <2>2, SpreadKeeps
  <2>4. d \in Marked(messages', u) => d \in Marked(messages, u)
    BY <1>6, <1>9
  <2>5. QED
    BY <1>1, <1>3, <1>4, <1>5, <2>3, <2>4 DEF SendKept
<1>10. QED
  BY <1>1, <1>7, <1>8, <1>9 DEF Advances


(***************************************************************************)
(* The requests that the nodes in reach accept: texts that survive deflate *)
(* and, for the contest of a unicast, somebody in reach.                   *)
(***************************************************************************)
Servable ==
  \A r \in Requests : r.sender \in Live /\ r.cmd # "SEND" =>
    /\ r.msg # "bulky"
    /\ r.cmd = "UNICAST" => Neighbours(r.sender) \cap Live # {}

LEMMA AppsAccept ==
  ASSUME Servable, NEW r \in Requests, r.sender \in Live, r.cmd # "SEND",
         NEW l, NEW x, Serves(l, x, r), l[1] # Server
  PROVE  node_app_handle_request(PayloadOf(l, x))
<1>1. r.msg \in {"empty", "plain"}
  <2>1. r.msg \in {"empty", "plain", "bulky"}
    BY MeshAssumption
  <2>2. QED
    BY <2>1 DEF Servable
<1>2. x.app.req_type # "SEND" /\ x.app.msg = Packed(r.msg)
  BY DEF Serves, FromNode
<1>3. x.app.msg \in {"empty", "packed"}
  BY <1>1, <1>2 DEF Packed
<1>4. QED
  BY <1>2, <1>3 DEF node_app_handle_request, PayloadOf

\* A broadcast or a unicast reaches the apps where it arrives.
LEMMA CastArrives ==
  ASSUME Steady, Ready, Servable, NEW l \in Link, NEW x, NEW to, NEW msg, Grows(l, x),
         Advances(l, x, to, msg), x.req = "SEND", NEW u \in 1 .. Len(issued), u = x.app.uid,
         issued[u].sender \in Live, issued[u].cmd # "SEND"
  PROVE  handled'[u][l[2]] > 0
<1>1. PICK r \in Requests : r = issued[u]
  BY NumberOf
<1>2. Serves(l, x, r)
  BY <1>1, HeadSound DEF Grows, Steady, Ready
<1>3. l[1] # Server
  BY <1>1, <1>2 DEF Serves, FromServer
<1>4. x.receiver = l[2]
  BY <1>1, <1>2, <1>3 DEF Serves, FromNode
<1>5. Told(l, x)
  BY <1>4 DEF Advances
<1>6. node_app_handle_request(PayloadOf(l, x))
  BY <1>1, <1>2, <1>3, AppsAccept
<1>7. QED
  BY <1>5, <1>6 DEF Told

LEMMA KeptBroadcast ==
  ASSUME Steady, Ready, Servable,
         NEW l \in Link, NEW x, NEW to, NEW msg, Grows(l, x), Puts(l, x, to, msg),
         Advances(l, x, to, msg), NEW u \in 1 .. Len(issued), NEW s, s = issued[u].sender,
         s \in Live, issued[u].cmd = "BROADCAST", BroadcastKept(net, handled[u], u, s)
  PROVE  BroadcastKept(net', handled'[u], u, s)
<1> SUFFICES ASSUME NEW z \in Neighbours(s) \cap Live
             PROVE  \/ HasIn(net', <<Server, s, 0>>, "BROADCAST", u)
                    \/ HasIn(net', <<s, z, 0>>, "SEND", u)
                    \/ handled'[u][z] > 0
  BY DEF BroadcastKept
<1>1. s \in Node /\ z \in Node /\ s \in Peer /\ Server \in Peer /\ u \in Uid /\ s # Server
  BY NumberOf, NodeFacts DEF Live, Peer
<1>2. PICK k \in Link : k = <<Server, s, 0>> /\ k[1] = Server /\ k[2] = s
  BY <1>1, LinkOf
<1>3. PICK h \in Link : h = <<s, z, 0>> /\ h[1] = s /\ h[2] = z
  BY <1>1, LinkOf
<1>4. CASE HasIn(net, k, "BROADCAST", u)
  <2>1. HasIn(net', k, "BROADCAST", u) \/ (k = l /\ x.req = "BROADCAST" /\ x.app.uid = u)
    BY <1>4 DEF Grows
  <2>2. CASE k = l /\ x.req = "BROADCAST" /\ x.app.uid = u
    <3>1. z \in to /\ z \in Live /\ msg[z].req = "SEND"
      BY <1>2, <2>2 DEF Advances, Spreads
    <3>2. HasIn(net', <<l[2], z, 0>>, msg[z].req, x.app.uid)
      BY <3>1, WrittenWaits
    <3>3. QED
      BY <1>2, <2>2, <3>1, <3>2
  <2>3. QED
    BY <1>2, <2>1, <2>2
<1>5. CASE HasIn(net, h, "SEND", u)
  <2>1. HasIn(net', h, "SEND", u) \/ (h = l /\ x.req = "SEND" /\ x.app.uid = u)
    BY <1>5 DEF Grows
  <2>2. CASE h = l /\ x.req = "SEND" /\ x.app.uid = u
    <3>1. handled'[u][l[2]] > 0
      BY <2>2, CastArrives
    <3>2. QED
      BY <1>3, <2>2, <3>1
  <2>3. QED
    BY <1>3, <2>1, <2>2
<1>6. CASE handled[u][z] > 0
  BY <1>1, <1>6 DEF Grows
<1>7. QED
  BY <1>2, <1>3, <1>4, <1>5, <1>6 DEF BroadcastKept

LEMMA KeptUnicast ==
  ASSUME Steady, Ready, Servable,
         NEW l \in Link, NEW x, NEW to, NEW msg, Grows(l, x), Puts(l, x, to, msg),
         Advances(l, x, to, msg), NEW u \in 1 .. Len(issued), NEW s, s = issued[u].sender,
         s \in Live, issued[u].cmd = "UNICAST", UnicastKept(net, messages, handled[u], u, s)
  PROVE  UnicastKept(net', messages', handled'[u], u, s)
<1>1. s \in Node /\ s \in Peer /\ Server \in Peer /\ u \in Uid /\ s # Server /\ l[2] \in Node
  BY NumberOf, NodeFacts, LinkFacts DEF Live, Peer
<1>2. PICK k \in Link : k = <<Server, s, 0>> /\ k[1] = Server /\ k[2] = s
  BY <1>1, LinkOf
<1>3. PICK r \in Requests : r = issued[u]
  BY NumberOf
<1>4. u = x.app.uid => Serves(l, x, r) /\ x.app.id = u - 1
  BY <1>3, HeadSound DEF Grows, Steady, Ready
<1>5. CASE \E z \in Node : handled[u][z] > 0
  BY <1>1, <1>5 DEF UnicastKept, Grows
<1>6. CASE SomeIn(net, "SEND", u)
  <2>1. SomeIn(net', "SEND", u) \/ (x.req = "SEND" /\ x.app.uid = u)
    BY <1>6, SomeGrows
  <2>2. CASE x.req = "SEND" /\ x.app.uid = u
    BY <1>1, <2>2, CastArrives DEF UnicastKept
  <2>3. QED
    BY <2>1, <2>2 DEF UnicastKept
<1>7. CASE /\ ~is_id_set(messages[s], u - 1)
           /\ \/ HasIn(net, k, "UNICAST", u)
              \/ SomeIn(net, "UNICAST_CONTEST", u)
              \/ SomeIn(net, "UNICAST_FIRST", u)
  <2>1. CASE u = x.app.uid /\ x.req = "UNICAST_FIRST"
    <3>1. l[1] # Server
      BY <1>3, <1>4, <2>1 DEF Serves, FromServer
    <3>2. l[2] = s
      BY <1>3, <1>4, <2>1, <3>1 DEF Serves, FromNode
    <3>3. Hands(l, to, msg)
      BY <1>4, <1>7, <2>1, <3>2 DEF Advances
    <3>4. PICK q \in to : q \in Live /\ msg[q].req = "SEND"
      BY <1>1, <3>3, NeighboursFinite DEF Hands, Live
    <3>5. <<l[2], q, 0>> \in Link /\ HasIn(net', <<l[2], q, 0>>, "SEND", u)
      BY <2>1, <3>4, WrittenWaits
    <3>6. QED
      BY <3>5 DEF SomeIn, UnicastKept
  <2>2. CASE ~(u = x.app.uid /\ x.req = "UNICAST_FIRST")
    <3>1. ~is_id_set(messages'[s], u - 1)
      <4>1. ~(u = x.app.uid /\ x.req = "ROUTE_DIRECT")
        BY <1>3, <1>4 DEF Serves, FromServer, FromNode
      <4>2. QED
        BY <1>1, <1>7, <2>2, <4>1, MarkedGrows
    <3>2. CASE SomeIn(net, "UNICAST_FIRST", u)
      BY <2>2, <3>1, <3>2, SomeGrows DEF UnicastKept
    <3>3. CASE SomeIn(net, "UNICAST_CONTEST", u)
      <4>1. SomeIn(net', "UNICAST_CONTEST", u) \/ (x.req = "UNICAST_CONTEST" /\ x.app.uid = u)
        BY <3>3, SomeGrows
      <4>2. CASE x.req = "UNICAST_CONTEST" /\ x.app.uid = u
        <5>1. l[1] # Server /\ l[1] \in Node
          BY <1>3, <1>4, <4>2, LinkFacts DEF Serves, FromServer
        <5>2. l[1] \in to /\ l[1] \in Live /\ msg[l[1]].req = "UNICAST_FIRST"
          <6>1. l[1] \notin Killed
            BY DEF Puts, Ready, Orderly, NetProper
          <6>2. QED
            BY <4>2, <5>1, <6>1 DEF Advances, Live
        <5>3. <<l[2], l[1], 0>> \in Link /\ HasIn(net', <<l[2], l[1], 0>>, "UNICAST_FIRST", u)
          BY <4>2, <5>2, WrittenWaits
        <5>4. QED
          BY <3>1, <5>3 DEF SomeIn, UnicastKept
      <4>3. QED
        BY <3>1, <4>1, <4>2 DEF UnicastKept
    <3>4. CASE HasIn(net, k, "UNICAST", u)
      <4>1. HasIn(net', k, "UNICAST", u) \/ (k = l /\ x.req = "UNICAST" /\ x.app.uid = u)
        BY <3>4 DEF Grows
      <4>2. CASE k = l /\ x.req = "UNICAST" /\ x.app.uid = u
        <5>1. PICK z : z \in Neighbours(s) /\ z \in Live
          BY <1>3 DEF Servable
        <5>2. z \in to /\ msg[z].req = "UNICAST_CONTEST"
          BY <1>2, <4>2, <5>1 DEF Advances, Spreads
        <5>3. <<l[2], z, 0>> \in Link /\ HasIn(net', <<l[2], z, 0>>, "UNICAST_CONTEST", u)
          BY <4>2, <5>1, <5>2, WrittenWaits
        <5>4. QED
          BY <3>1, <5>3 DEF SomeIn, UnicastKept
      <4>3. QED
        BY <1>2, <3>1, <4>1, <4>2 DEF UnicastKept
    <3>5. QED
      BY <1>7, <3>2, <3>3, <3>4
  <2>3. QED
    BY <2>1, <2>2
<1>8. QED
  BY <1>2, <1>5, <1>6, <1>7 DEF UnicastKept


\* A handler keeps every promise.
\* A handler keeps the promise made for request u.
LEMMA HandlersKeep ==
  ASSUME Steady, Ready, Servable, NEW l \in Link, Handle(l), NEW u \in 1 .. Len(issued),
         Kept(issued, net, messages, notes, handled, u),
         Head(net[l]).req = "ROUTE_DIRECT" /\ Head(net[l]).app.uid = u => Lasts(l)
  PROVE  Kept(issued', net', messages', notes', handled', u)
<1>1. PICK x, to, msg : Puts(l, x, to, msg) /\ Advances(l, x, to, msg)
  BY HandlersDo DEF Does
<1>2. Handles(l)
  BY HandlersHandle, NeverHappens DEF Ready, SInv, Steady
<1>3. Grows(l, x)
  <2>1. x = Head(net[l])
    BY <1>1 DEF Puts
  <2>2. QED
    BY <1>2, <2>1, HandlesGrows
<1>4. issued' = issued
  BY <1>3 DEF Grows
<1>5. Kept(issued, net, messages, notes, handled, u)
  OBVIOUS
<1>6. PICK r \in Requests : r = issued[u]
  BY NumberOf
<1>7. ASSUME r.sender \in Live, r.cmd = "SEND"
      PROVE  SendKept(net', messages', notes'[u], u, r.receiver)
  <2>1. SendKept(net, messages, notes[u], u, r.receiver)
    BY <1>5, <1>6, <1>7 DEF Kept
  <2>2. CASE u # x.app.uid \/ x.req = "ROUTE_INVERSE"
    BY <1>3, <2>1, <2>2, KeptSendBeside
  <2>3. CASE u = x.app.uid /\ x.req # "ROUTE_INVERSE"
    <3>1. Serves(l, x, r)
      BY <1>3, <1>6, <2>3, HeadSound DEF Grows, Steady, Ready
    <3>2. x.req \in {"SEND", "ROUTE_DIRECT"} /\ x.receiver = r.receiver
      BY <1>7, <2>3, <3>1 DEF Serves, FromServer, FromNode
    <3>3. PICK d : d = r.receiver /\ d = x.receiver
      BY <3>2
    <3>4. SendKept(net, messages, notes[x.app.uid], x.app.uid, d) /\ x.app.uid \in 1 .. Len(issued)
      BY <2>1, <2>3, <3>3
    <3>5. x.req = "ROUTE_DIRECT" => Lasts(l)
      BY <1>1, <2>3 DEF Puts
    <3>6. SendKept(net', messages', notes'[x.app.uid], x.app.uid, d)
      BY <1>1, <1>3, <3>2, <3>3, <3>4, <3>5, KeptSendTaken, KeptSendFlood
    <3>7. QED
      BY <2>3, <3>3, <3>6
  <2>4. QED
    BY <2>2, <2>3
<1>8. ASSUME r.sender \in Live, r.cmd = "BROADCAST"
      PROVE  BroadcastKept(net', handled'[u], u, r.sender)
  <2>1. PICK s : s = r.sender
    OBVIOUS
  <2>2. BroadcastKept(net, handled[u], u, s) /\ s = issued[u].sender /\ s \in Live
        /\ issued[u].cmd = "BROADCAST"
    BY <1>5, <1>6, <1>8, <2>1 DEF Kept
  <2>3. QED
    BY <1>1, <1>3, <2>1, <2>2, KeptBroadcast
<1>9. ASSUME r.sender \in Live, r.cmd = "UNICAST"
      PROVE  UnicastKept(net', messages', handled'[u], u, r.sender)
  <2>1. PICK s : s = r.sender
    OBVIOUS
  <2>2. UnicastKept(net, messages, handled[u], u, s) /\ s = issued[u].sender /\ s \in Live
        /\ issued[u].cmd = "UNICAST"
    BY <1>5, <1>6, <1>9, <2>1 DEF Kept
  <2>3. QED
    BY <1>1, <1>3, <2>1, <2>2, KeptUnicast
<1>10. QED
  BY <1>4, <1>6, <1>7, <1>8, <1>9 DEF Kept

\* Nobody knows the id of the next message.
LEMMA NextUnknown ==
  ASSUME Ready, NEW n \in Node
  PROVE  ~is_id_set(messages[n], Len(issued)) /\ ~get_was_message_by_id(messages[n], Len(issued))
<1>1. PICK t \in MessageTable, c \in Nat : t = messages[n] /\ c = Len(issued) /\ Distinct(t, c)
  BY SameTable DEF Ready, IInv, HistoryInv
<1>2. ~is_id_set(t, c)
  <2>1. \A i \in Entry : i < t.message_num => t.messages[i].id # c
    BY <1>1, TableFacts DEF Distinct
  <2>2. QED
    BY <2>1 DEF is_id_set, Matches
<1>3. QED
  BY <1>1, <1>2 DEF get_was_message_by_id, Flagged

\* A request of a client breaks no promise and makes one.
LEMMA RequestKeeps ==
  ASSUME Steady, Ready, IInv',
         NEW r \in Requests, NEW g \in Uninitialised, ClientRequest(r, g),
         NEW v \in 1 .. Len(issued'),
         v \in 1 .. Len(issued) => Kept(issued, net, messages, notes, handled, v)
  PROVE  Kept(issued', net', messages', notes', handled', v)
<1>1. PICK c \in Nat : c = Len(issued)
  BY DEF Ready, IInv, HistoryInv
<1>2. issued' = Append(issued, r) /\ UNCHANGED <<messages, notes, handled>>
  BY DEF ClientRequest, nodeVars
<1>3. /\ Len(issued') = c + 1 /\ issued'[c + 1] = r
      /\ \A u \in 1 .. c : issued'[u] = issued[u]
  BY <1>1, <1>2 DEF Ready, IInv, HistoryInv
<1>4. \A k \in Link : \A req, u : HasIn(net, k, req, u) => HasIn(net', k, req, u)
  BY RequestOrderly
<1>5. \A req, u : SomeIn(net, req, u) => SomeIn(net', req, u)
  BY <1>4 DEF SomeIn
<1>6. ASSUME NEW u \in 1 .. c, SomeIn(net', "SEND", u)
      PROVE  SomeIn(net, "SEND", u)
  <2>1. PICK k \in Link : HasIn(net', k, "SEND", u)
    BY <1>6 DEF SomeIn
  <2>2. PICK i \in 1 .. Len(net'[k]) : net'[k][i].req = "SEND" /\ net'[k][i].app.uid = u
    BY <2>1 DEF HasIn
  <2>3. ~Asked(r, k, i)
    BY <1>1, <2>2 DEF Asked
  <2>4. Still(k, i)
    BY <2>3, RequestPlaces DEF Ready
  <2>5. QED
    BY <2>2, <2>4 DEF Still, SomeIn, HasIn
<1>7. ASSUME NEW u \in 1 .. c, u = v
      PROVE  Kept(issued', net', messages', notes', handled', u)
  <2>1. PICK q : q = issued[u] /\ q = issued'[u]
    BY <1>3
  <2>2. Kept(issued, net, messages, notes, handled, u)
    BY <1>1, <1>7
  <2>3. ASSUME q.sender \in Live
        PROVE  /\ q.sender \in Peer /\ Server \in Peer
               /\ \A z \in Neighbours(q.sender) \cap Live : <<q.sender, z, 0>> \in Link
               /\ <<Server, q.sender, 0>> \in Link
    BY <2>3, LinkOf DEF Live, Peer
  <2>4. ASSUME q.sender \in Live, q.cmd = "SEND"
        PROVE  SendKept(net', messages, notes[u], u, q.receiver)
    <3>1. SendKept(net, messages, notes[u], u, q.receiver)
      BY <2>1, <2>2, <2>4 DEF Kept
    <3>2. Spread(net, messages, u, q.receiver) => Spread(net', messages, u, q.receiver)
      <4>1. ASSUME NEW y \in Node, NEW z \in Live, HasIn(net, <<y, z, 0>>, "ROUTE_DIRECT", u)
            PROVE  HasIn(net', <<y, z, 0>>, "ROUTE_DIRECT", u)
        <5>1. <<y, z, 0>> \in Link
          BY LinkOf DEF Live, Peer
        <5>2. QED
          BY <1>4, <4>1, <5>1
      <4>2. \A o \in Live : {o} \cup Marked(messages, u) \subseteq Node
        BY DEF Live, Marked
      <4>3. QED
        BY <4>1, <4>2 DEF Spread
    <3>3. QED
      BY <1>5, <1>6, <3>1, <3>2 DEF SendKept
  <2>5. ASSUME q.sender \in Live, q.cmd = "BROADCAST"
        PROVE  BroadcastKept(net', handled[u], u, q.sender)
    <3>1. BroadcastKept(net, handled[u], u, q.sender)
      BY <2>1, <2>2, <2>5 DEF Kept
    <3>2. QED
      BY <1>4, <2>3, <2>5, <3>1 DEF BroadcastKept
  <2>6. ASSUME q.sender \in Live, q.cmd = "UNICAST"
        PROVE  UnicastKept(net', messages, handled[u], u, q.sender)
    <3>1. UnicastKept(net, messages, handled[u], u, q.sender)
      BY <2>1, <2>2, <2>6 DEF Kept
    <3>2. QED
      BY <1>4, <1>5, <2>3, <2>6, <3>1 DEF UnicastKept
  <2>7. QED
    BY <1>2, <2>1, <2>4, <2>5, <2>6 DEF Kept
<1>8. Kept(issued', net', messages', notes', handled', c + 1)
  <2> SUFFICES ASSUME r.sender \in Live
               PROVE  /\ r.cmd = "SEND" => SendKept(net', messages, notes[c + 1], c + 1, r.receiver)
                      /\ r.cmd = "BROADCAST" => BroadcastKept(net', handled[c + 1], c + 1, r.sender)
                      /\ r.cmd = "UNICAST" =>
                           UnicastKept(net', messages, handled[c + 1], c + 1, r.sender)
    BY <1>2, <1>3 DEF Kept
  <2>1. HasIn(net', <<Server, r.sender, 0>>, r.cmd, c + 1)
    BY <1>1, RequestOrderly
  <2>2. <<Server, r.sender, 0>> \in Link /\ r.sender \in Node
    BY LinkOf DEF Live, Peer
  <2>3. SomeIn(net', r.cmd, c + 1)
    BY <2>1, <2>2 DEF SomeIn
  <2>4. (c + 1) - 1 = Len(issued)
    BY <1>1
  <2>5. Marked(messages, c + 1) = {}
    BY <2>4, NextUnknown DEF Marked
  <2>6. ~is_id_set(messages[r.sender], (c + 1) - 1)
    BY <2>2, <2>4, NextUnknown
  <2>7. ASSUME r.cmd = "SEND"
        PROVE  SendKept(net', messages, notes[c + 1], c + 1, r.receiver)
    BY <2>3, <2>5, <2>7 DEF SendKept
  <2>8. ASSUME r.cmd = "BROADCAST"
        PROVE  BroadcastKept(net', handled[c + 1], c + 1, r.sender)
    BY <2>1, <2>8 DEF BroadcastKept
  <2>9. ASSUME r.cmd = "UNICAST"
        PROVE  UnicastKept(net', messages, handled[c + 1], c + 1, r.sender)
    BY <2>1, <2>6, <2>9 DEF UnicastKept
  <2>10. QED
    BY <2>7, <2>8, <2>9
<1>9. v \in 1 .. c \/ v = c + 1
  BY <1>1, <1>3
<1>10. QED
  BY <1>7, <1>8, <1>9


-----------------------------------------------------------------------------
(***************************************************************************)
(* All steps, in a mesh in which nobody dies.                              *)
(***************************************************************************)
LEMMA SteadySteps ==
  ASSUME Steady, Ready, [Next]_vars
  PROVE  \/ \E l \in Link : Handle(l)
         \/ \E r \in Requests, g \in Uninitialised : ClientRequest(r, g)
         \/ UNCHANGED vars
<1>1. ASSUME NEW n \in Node, ClientRevive(n)
      PROVE  FALSE
  <2>1. revives < 0 /\ revives \in Nat
    BY <1>1 DEF ClientRevive, Steady, Ready, IInv, HistoryInv
  <2>2. QED
    BY <2>1
<1>2. ASSUME NEW n \in Node, NodeUpdate(n)
      PROVE  FALSE
  <2>1. proc[n] = "up" /\ conn[Server][n] = "none" /\ n \in Peer
    BY <1>2 DEF NodeUpdate, Peer
  <2>2. QED
    BY <2>1 DEF Ready, Orderly, Awake
<1>3. ~ClientReset /\ \A n \in Node : ~ClientKill(n) /\ ~NodeExit(n)
  BY NeverHappens DEF Steady, Ready
<1>4. QED
  BY <1>1, <1>2, <1>3 DEF Next, Client

LEMMA InitOrderly == Init => Orderly
<1> SUFFICES ASSUME Init PROVE Orderly
  OBVIOUS
<1>1. Awake
  <2>1. Server \in Peer /\ Node \subseteq Peer
    BY DEF Peer
  <2>2. QED
    BY <2>1 DEF Init, Awake
<1>2. NetProper
  <2>1. \A l \in Link : net[l] = << >> /\ Len(net[l]) = 0
    BY DEF Init
  <2>2. QED
    BY <2>1 DEF NetProper
<1>3. RoutesAlive
  BY KilledFacts DEF Init, RoutesAlive, AliveTable, routing_table_fill_default, NoRoute
<1>4. TablesNeat
  <2>1. \A n \in Node : messages[n] = NewTable
    BY DEF Init
  <2>2. \A i \in Entry : NewTable.messages[i].flags = {}
    BY DEF NewTable, Entered
  <2>3. QED
    BY <2>1, <2>2 DEF TablesNeat, Neat
<1>5. QED
  BY <1>1, <1>2, <1>3, <1>4 DEF Orderly

LEMMA NextOrderly ==
  ASSUME Steady, Ready, IInv', [Next]_vars
  PROVE  Orderly'
<1>1. ASSUME NEW l \in Link, Handle(l)
      PROVE  Orderly'
  BY <1>1, HandlersDo, DoesOrderly
<1>2. ASSUME NEW r \in Requests, NEW g \in Uninitialised, ClientRequest(r, g)
      PROVE  Orderly'
  BY <1>2, RequestOrderly
<1>3. CASE UNCHANGED vars
  BY <1>3 DEF vars, nodeVars, Ready, Orderly, Awake, NetProper, RoutesAlive, TablesNeat
<1>4. QED
  BY <1>1, <1>2, <1>3, SteadySteps

LEMMA OrderlyInvariance ==
  ASSUME Steady
  PROVE  Spec => []Ready
<1>1. Few
  BY DEF Steady
<1>2. Spec => [](IInv /\ SInv /\ OInv)
  BY <1>1, OnceInvariance
<1>3. IInv /\ SInv /\ OInv /\ Orderly /\ IInv' /\ [Next]_vars => Orderly'
  BY NextOrderly DEF Ready
<1>4. IInv /\ SInv /\ OInv /\ Orderly => Ready
  BY DEF Ready
<1>5. QED
  BY <1>2, <1>3, <1>4, InitOrderly, PTL DEF Spec

\* A handler takes a message that waits.
LEMMA HeadWaits ==
  ASSUME Steady, Ready, NEW l \in Link, Handle(l)
  PROVE  /\ net[l] # << >> /\ Head(net[l]) = net[l][1] /\ 1 \in 1 .. Len(net[l])
         /\ issued' = issued /\ Grows(l, Head(net[l]))
<1>1. PICK x, to, msg : Puts(l, x, to, msg)
  BY HandlersDo DEF Does
<1>2. net[l] # << >> /\ x = Head(net[l])
  BY <1>1 DEF Puts
<1>3. Handles(l)
  BY HandlersHandle, NeverHappens DEF Ready, SInv, Steady
<1>4. Grows(l, x)
  BY <1>2, <1>3, HandlesGrows
<1>5. issued' = issued
  BY <1>4 DEF Grows
<1>6. Head(net[l]) = net[l][1] /\ 1 \in 1 .. Len(net[l])
  BY <1>2 DEF Ready, IInv, NetInv
<1>7. QED
  BY <1>2, <1>4, <1>5, <1>6

LEMMA NextKeeping ==
  ASSUME Steady, Servable, Ready, IInv', FloodsReach, Keeping, [Next]_vars
  PROVE  Keeping'
<1>1. ASSUME NEW l \in Link, Handle(l)
      PROVE  Keeping'
  <2>1. Head(net[l]).req = "ROUTE_DIRECT" => Lasts(l)
    <3>1. Head(net[l]) = net[l][1] /\ 1 \in 1 .. Len(net[l])
      BY <1>1, HeadWaits
    <3>2. QED
      BY <3>1 DEF FloodsReach, Lasts
  <2>2. issued' = issued
    BY <1>1, HeadWaits
  <2>3. ASSUME NEW u \in 1 .. Len(issued)
        PROVE  Kept(issued', net', messages', notes', handled', u)
    BY <1>1, <2>1, HandlersKeep DEF Keeping
  <2>4. QED
    BY <2>2, <2>3 DEF Keeping
<1>2. ASSUME NEW r \in Requests, NEW g \in Uninitialised, ClientRequest(r, g)
      PROVE  Keeping'
  BY <1>2, RequestKeeps DEF Keeping
<1>3. CASE UNCHANGED vars
  BY <1>3 DEF vars, nodeVars, historyVars, Keeping
<1>4. QED
  BY <1>1, <1>2, <1>3, SteadySteps

-----------------------------------------------------------------------------
(***************************************************************************)
(* The nodes that live hang together: from every part of them somebody     *)
(* reaches a node outside.                                                 *)
(***************************************************************************)
Connected ==
  \A S \in SUBSET Live : S # {} /\ S # Live =>
    \E y \in S, z \in Live \ S : z \in Neighbours(y)

\* In a quiet mesh a promise that was kept has been redeemed.
LEMMA KeptAnswers ==
  ASSUME Ready, Connected, OneWinner, Quiet, NEW u \in 1 .. Len(issued),
         Kept(issued, net, messages, notes, handled, u)
  PROVE  Answered(u)
<1> SUFFICES ASSUME issued[u].sender \in Live
             PROVE  Answered(u)
  BY DEF Answered
<1>1. PICK r \in Requests : r = issued[u]
  BY NumberOf
<1>2. \A k \in Link : \A req : ~HasIn(net, k, req, u)
  <2>1. \A k \in Link : Len(net[k]) = 0
    BY DEF Quiet
  <2>2. QED
    BY <2>1 DEF HasIn
<1>3. \A req : ~SomeIn(net, req, u)
  BY <1>2 DEF SomeIn
<1>4. PICK s \in Node : s = r.sender
  BY <1>1 DEF Live
<1>5. /\ r.cmd = "SEND" => SendKept(net, messages, notes[u], u, r.receiver)
      /\ r.cmd = "BROADCAST" => BroadcastKept(net, handled[u], u, s)
      /\ r.cmd = "UNICAST" => UnicastKept(net, messages, handled[u], u, s)
  BY <1>1, <1>4 DEF Kept
<1>6. \A y \in Peer, z \in Node : <<y, z, 0>> \in Link
  <2>1. 0 \in Gen
    BY MeshAssumption DEF Gen
  <2>2. QED
    BY <2>1 DEF Link
<1>7. ASSUME r.cmd = "SEND", r.receiver \in Live, notes[u] = {}
      PROVE  FALSE
  <2>1. PICK M, d : M = Marked(messages, u) /\ d = r.receiver /\ d \notin M /\ M \subseteq Node
    BY <1>5, <1>7 DEF SendKept, Marked
  <2>2. PICK o \in Live \ {d} : \A y \in ({o} \cup M) \ {d} : \A z \in Neighbours(y) \cap Live :
          z \in M \/ HasIn(net, <<y, z, 0>>, "ROUTE_DIRECT", u)
    BY <1>3, <1>5, <1>7, <2>1 DEF SendKept, Spread
  <2>3. PICK S : S = {o} \cup (M \cap Live)
    OBVIOUS
  <2>4. S \in SUBSET Live /\ S # {} /\ d \notin S /\ d \in Live
    BY <1>7, <2>1, <2>2, <2>3
  <2>5. PICK y \in S, z \in Live \ S : z \in Neighbours(y)
    BY <2>4 DEF Connected
  <2>6. y \in Peer /\ z \in Node /\ y \in ({o} \cup M) \ {d}
    BY <2>1, <2>3, <2>4, <2>5 DEF Live, Peer
  <2>7. z \in M
    BY <1>2, <1>6, <2>2, <2>5, <2>6
  <2>8. QED
    BY <2>3, <2>5, <2>7
<1>8. ASSUME r.cmd = "BROADCAST", NEW z \in Neighbours(s) \cap Live
      PROVE  z \in {n \in Node : handled[u][n] > 0}
  <2>1. z \in Node /\ s \in Peer /\ Server \in Peer
    BY DEF Live, Peer
  <2>2. <<Server, s, 0>> \in Link /\ <<s, z, 0>> \in Link
    BY <1>6, <2>1
  <2>3. handled[u][z] > 0
    BY <1>2, <1>5, <1>8, <2>2 DEF BroadcastKept
  <2>4. QED
    BY <2>1, <2>3
<1>9. ASSUME r.cmd = "UNICAST"
      PROVE  Cardinality({n \in Node : handled[u][n] > 0}) = 1
  <2>1. PICK W : W = {n \in Node : handled[u][n] > 0}
    OBVIOUS
  <2>2. <<Server, s, 0>> \in Link
    BY <1>6 DEF Peer
  <2>3. W # {}
    BY <1>2, <1>3, <1>5, <1>9, <2>1, <2>2 DEF UnicastKept
  <2>4. IsFiniteSet(W)
    <3>1. IsFiniteSet(Node)
      BY NodeFacts, FS_Interval DEF Node
    <3>2. QED
      BY <2>1, <3>1, FS_Subset
  <2>5. Cardinality(W) \in Nat /\ Cardinality(W) # 0
    BY <2>3, <2>4, FS_CardinalityType, FS_EmptySet
  <2>6. Cardinality(W) <= 1
    BY <1>1, <1>9, <2>1 DEF OneWinner
  <2>7. Cardinality(W) = 1
    BY <2>5, <2>6
  <2>8. QED
    BY <2>1, <2>7
<1>10. QED
  BY <1>1, <1>4, <1>7, <1>8, <1>9 DEF Answered

(***************************************************************************)
(* No order in which floods, answers, routed messages and contests meet in *)
(* the handlers loses a request, in a mesh of any size in which nobody     *)
(* dies, that hangs together, and as long as no flood runs out of ttl      *)
(* before a node that has not seen it: when nothing is under way any more, *)
(* every send has been notified, every broadcast handled by all nodes in   *)
(* reach and every unicast by one.                                         *)
(***************************************************************************)
THEOREM QuietMeansAnswered ==
  ASSUME Steady, Servable, Connected
  PROVE  Spec /\ []FloodsReach => []AnsweredWhenQuiet
<1>1. Spec => []Ready
  BY OrderlyInvariance
<1>2. Init => Keeping
  <2>1. Init => Len(issued) = 0
    BY DEF Init
  <2>2. QED
    BY <2>1 DEF Keeping
<1>3. Ready => IInv
  BY DEF Ready
<1>4. Ready /\ IInv' /\ FloodsReach /\ Keeping /\ [Next]_vars => Keeping'
  BY NextKeeping
<1>5. Spec => []OneWinner
  <2>1. MaxResets + MaxKills = 0 /\ MaxRequests <= MAX_MESSAGE_DATA
    BY DEF Steady, Few, Unbroken
  <2>2. QED
    BY <2>1, ContestsHaveOneWinner
<1>6. Ready /\ Keeping /\ OneWinner => AnsweredWhenQuiet
  BY KeptAnswers DEF AnsweredWhenQuiet, Keeping
<1>7. QED
  BY <1>1, <1>2, <1>3, <1>4, <1>5, <1>6, PTL DEF Spec

-----------------------------------------------------------------------------
(***************************************************************************)
(* How far a flood goes: a copy with ttl t has been passed on by           *)
(* TTL - t - 1 nodes, each of which marked its id, so the number of nodes  *)
(* that have seen the flood makes up for the hops that are spent.          *)
(***************************************************************************)
\* The nodes that have seen a flood can be counted.
LEMMA MarkedFinite ==
  ASSUME NEW tab, NEW u
  PROVE  IsFiniteSet(Marked(tab, u)) /\ Cardinality(Marked(tab, u)) \in Nat
<1>1. IsFiniteSet(Node)
  BY NodeFacts, FS_Interval DEF Node
<1>2. Marked(tab, u) \subseteq Node
  BY DEF Marked
<1>3. QED
  BY <1>1, <1>2, FS_Subset, FS_CardinalityType

\* They become more.
LEMMA MarkedCount ==
  ASSUME NEW l, NEW x, Remembered(l, x), NEW u
  PROVE  /\ Marked(messages, u) \subseteq Marked(messages', u)
         /\ IsFiniteSet(Marked(messages', u))
         /\ Cardinality(Marked(messages, u)) \in Nat /\ Cardinality(Marked(messages', u)) \in Nat
         /\ Cardinality(Marked(messages, u)) <= Cardinality(Marked(messages', u))
<1>1. Marked(messages, u) \subseteq Marked(messages', u)
  BY DEF Remembered, Marked
<1>2. QED
  BY <1>1, MarkedFinite, FS_Subset

\* A handler counts on.
LEMMA DoesSpread ==
  ASSUME Steady, Ready, Ready', FloodsSpread, NEW l \in Link, Handle(l)
  PROVE  FloodsSpread'
<1>1. PICK x, to, msg : Puts(l, x, to, msg)
  BY HandlersDo DEF Does
<1>2. PICK n : n = l[2] /\ n \in Node /\ n \in Peer
  BY LinkFacts DEF Peer
<1>3. /\ Exchange(n, {l}, to, msg) /\ to \in SUBSET Peer /\ {l} \in SUBSET Link
      /\ net[l] # << >> /\ x = Head(net[l]) /\ \A k \in {l} : net[k] # << >>
  BY <1>1, <1>2, NeighboursFinite DEF Puts, Peer
<1>4. Remembered(l, x)
  BY <1>3, HeadWaits DEF Grows
<1>5. ASSUME NEW u
      PROVE  /\ Marked(messages, u) \subseteq Marked(messages', u)
             /\ IsFiniteSet(Marked(messages', u))
             /\ Cardinality(Marked(messages, u)) \in Nat /\ Cardinality(Marked(messages', u)) \in Nat
             /\ Cardinality(Marked(messages, u)) <= Cardinality(Marked(messages', u))
  BY <1>4, MarkedCount
<1>6. /\ x.app.id = x.app.uid - 1 /\ (x.req = "ROUTE_DIRECT" => x.ttl \in Int)
      /\ x.req = "ROUTE_DIRECT" =>
           Cardinality(Marked(messages, x.app.uid)) + x.ttl + 1 >= TTL
  <2>1. x = net[l][1] /\ 1 \in 1 .. Len(net[l])
    BY <1>3 DEF Ready, IInv, NetInv
  <2>2. Proper(x)
    BY <1>3, <2>1 DEF Ready, Orderly, NetProper
  <2>3. x.app.id = x.app.uid - 1
    BY <1>3, HeadSound DEF Steady, Ready
  <2>4. QED
    BY <2>1, <2>2, <2>3 DEF FloodsSpread, Proper
<1>7. ASSUME NEW k \in Link, NEW i \in 1 .. Len(net'[k]), NEW y, y = net'[k][i],
             y.req = "ROUTE_DIRECT"
      PROVE  Cardinality(Marked(messages', y.app.uid)) + y.ttl + 1 >= TTL
  <2>1. PICK M, W : M = Marked(messages, y.app.uid) /\ W = Marked(messages', y.app.uid)
    OBVIOUS
  <2>2. /\ M \subseteq W /\ IsFiniteSet(W) /\ Cardinality(M) \in Nat /\ Cardinality(W) \in Nat
        /\ Cardinality(M) <= Cardinality(W)
    BY <1>5, <2>1
  <2>3. y.ttl \in Int /\ TTL \in Nat
    BY <1>7, MeshAssumption DEF Ready, Orderly, NetProper, Proper
  <2>4. Stayed({l}, k, i) \/ Added(n, to, msg, k, i)
    BY <1>3, Arrives DEF Ready
  <2>5. CASE Stayed({l}, k, i)
    <3>1. PICK j \in 1 .. Len(net[k]) : net'[k][i] = net[k][j]
      BY <2>5 DEF Stayed
    <3>2. Cardinality(M) + y.ttl + 1 >= TTL
      BY <1>7, <2>1, <3>1 DEF FloodsSpread
    <3>3. QED
      BY <2>1, <2>2, <2>3, <3>2
  <2>6. CASE Added(n, to, msg, k, i)
    <3>1. y.app.uid = x.app.uid /\ Hop(l, x, y)
      <4>1. k[2] \in to /\ k[2] \in Node /\ y = msg[k[2]]
        BY <1>7, <2>6, ReachedFacts, LinkFacts DEF Added
      <4>2. QED
        BY <1>1, <4>1 DEF Puts
    <3>2. CASE y.ttl = TTL - 1
      BY <2>1, <2>2, <2>3, <3>2
    <3>3. CASE /\ x.req = "ROUTE_DIRECT" /\ y.ttl = x.ttl - 1
               /\ ~get_was_message_by_id(messages[l[2]], x.app.id)
               /\ get_was_message_by_id(messages'[l[2]], x.app.id)
      <4>1. n \notin M /\ n \in W
        BY <1>2, <1>6, <2>1, <3>1, <3>3 DEF Marked
      <4>2. Cardinality(M) + 1 <= Cardinality(W)
        <5>1. M # W
          BY <4>1
        <5>2. Cardinality(M) # Cardinality(W)
          BY <2>2, <5>1, FS_Subset
        <5>3. QED
          BY <2>2, <5>2
      <4>3. Cardinality(M) + x.ttl + 1 >= TTL /\ x.ttl \in Int
        BY <1>6, <2>1, <3>1, <3>3
      <4>4. QED
        BY <2>1, <2>2, <2>3, <3>3, <4>2, <4>3
    <3>4. QED
      BY <1>7, <3>1, <3>2, <3>3 DEF Hop
  <2>7. QED
    BY <2>4, <2>5, <2>6
<1>8. QED
  BY <1>7 DEF FloodsSpread

\* A request is no flood.
LEMMA RequestSpread ==
  ASSUME Ready, IInv', FloodsSpread, NEW r \in Requests, NEW g \in Uninitialised,
         ClientRequest(r, g)
  PROVE  FloodsSpread'
<1>1. ASSUME NEW k \in Link, NEW i \in 1 .. Len(net'[k]), net'[k][i].req = "ROUTE_DIRECT"
      PROVE  Still(k, i)
  <2>1. r.cmd # "ROUTE_DIRECT"
    BY RequestFields DEF ServerCmd
  <2>2. ~Asked(r, k, i)
    BY <1>1, <2>1 DEF Asked
  <2>3. QED
    BY <2>2, RequestPlaces DEF Ready
<1>2. messages' = messages
  BY DEF ClientRequest, nodeVars
<1>3. QED
  BY <1>1, <1>2 DEF FloodsSpread, Still

LEMMA InitSpread == Init => FloodsSpread
<1> SUFFICES ASSUME Init PROVE FloodsSpread
  OBVIOUS
<1>1. \A l \in Link : net[l] = << >> /\ Len(net[l]) = 0
  BY DEF Init
<1>2. QED
  BY <1>1 DEF FloodsSpread

LEMMA NextSpread ==
  ASSUME Steady, Ready, Ready', FloodsSpread, [Next]_vars
  PROVE  FloodsSpread'
<1>1. ASSUME NEW l \in Link, Handle(l)
      PROVE  FloodsSpread'
  BY <1>1, DoesSpread
<1>2. ASSUME NEW r \in Requests, NEW g \in Uninitialised, ClientRequest(r, g)
      PROVE  FloodsSpread'
  BY <1>2, RequestSpread DEF Ready
<1>3. CASE UNCHANGED vars
  BY <1>3 DEF vars, nodeVars, FloodsSpread
<1>4. QED
  BY <1>1, <1>2, <1>3, SteadySteps

(***************************************************************************)
(* The hops a copy of a flood has spent are no more than the nodes that    *)
(* have seen the flood, in every mesh in which nobody dies and for every   *)
(* TTL: handle_route_direct lowers the ttl only at a node that marks the   *)
(* id at the same time.  So a flood that runs out of ttl has been seen by  *)
(* at least TTL - 1 nodes, by whatever detours it went.                    *)
(***************************************************************************)
THEOREM FloodsSpreadWide ==
  ASSUME Steady
  PROVE  Spec => []FloodsSpread
<1>1. Spec => []Ready
  BY OrderlyInvariance
<1>2. Ready /\ Ready' /\ FloodsSpread /\ [Next]_vars => FloodsSpread'
  BY NextSpread
<1>3. QED
  BY <1>1, <1>2, InitSpread, PTL DEF Spec

-----------------------------------------------------------------------------
(***************************************************************************)
(* What is lost: a promise is kept, or its flood has spread as far as its  *)
(* ttl goes.                                                               *)
(***************************************************************************)
Wide(asked, tab, u) == asked[u].cmd = "SEND" /\ Cardinality(Marked(tab, u)) + 1 >= TTL

KeepingFar ==
  \A u \in 1 .. Len(issued) :
    \/ Kept(issued, net, messages, notes, handled, u)
    \/ Wide(issued, messages, u)

\* A handler forgets a promise only when it drops the last copy of a flood.
LEMMA HandlersKeepFar ==
  ASSUME Steady, Ready, Servable, FloodsSpread, KeepingFar, NEW l \in Link, Handle(l)
  PROVE  KeepingFar'
<1>1. PICK x : /\ x = Head(net[l]) /\ Grows(l, x) /\ net[l] # << >>
               /\ x = net[l][1] /\ 1 \in 1 .. Len(net[l])
  BY HeadWaits
<1>2. issued' = issued
  BY HeadWaits
<1> SUFFICES ASSUME NEW u \in 1 .. Len(issued)
             PROVE  \/ Kept(issued', net', messages', notes', handled', u)
                    \/ Wide(issued', messages', u)
  BY <1>2 DEF KeepingFar
<1>3. ASSUME Wide(issued, messages, u)
      PROVE  Wide(issued', messages', u)
  <2>1. PICK a, b \in Nat : /\ a = Cardinality(Marked(messages, u))
                            /\ b = Cardinality(Marked(messages', u)) /\ a <= b
    BY <1>1, MarkedCount DEF Grows
  <2>2. a + 1 >= TTL /\ TTL \in Nat /\ issued[u].cmd = "SEND"
    BY <1>3, <2>1, MeshAssumption DEF Wide
  <2>3. b + 1 >= TTL
    BY <2>1, <2>2
  <2>4. QED
    BY <1>2, <2>1, <2>2, <2>3 DEF Wide
<1>4. ASSUME x.req = "ROUTE_DIRECT", x.app.uid = u, ~Lasts(l)
      PROVE  Wide(issued, messages, u)
  <2>1. PICK r \in Requests : r = issued[u]
    BY NumberOf
  <2>2. Serves(l, x, r)
    BY <1>1, <1>4, <2>1, HeadSound DEF Steady, Ready
  <2>3. r.cmd = "SEND"
    <3>1. r.cmd \in {"SEND", "BROADCAST", "UNICAST"}
      BY <2>1, RequestFields DEF ServerCmd
    <3>2. QED
      BY <1>4, <2>2, <3>1 DEF Serves, FromServer, FromNode
  <2>4. Proper(x)
    BY <1>1 DEF Ready, Orderly, NetProper
  <2>5. x.ttl \in Int /\ x.ttl <= 0
    BY <1>1, <1>4, <2>4 DEF Proper, Lasts
  <2>6. PICK a \in Nat, t \in Int : a = Cardinality(Marked(messages, u)) /\ t = x.ttl
    BY <2>5, MarkedFinite
  <2>7. a + t + 1 >= TTL /\ TTL \in Nat /\ t <= 0
    BY <1>1, <1>4, <2>5, <2>6, MeshAssumption DEF FloodsSpread
  <2>8. a + 1 >= TTL
    BY <2>6, <2>7
  <2>9. QED
    BY <2>1, <2>3, <2>6, <2>8 DEF Wide
<1>5. CASE Wide(issued, messages, u)
  BY <1>3, <1>5
<1>6. CASE ~Wide(issued, messages, u)
  <2>1. Kept(issued, net, messages, notes, handled, u)
    BY <1>6 DEF KeepingFar
  <2>2. Head(net[l]).req = "ROUTE_DIRECT" /\ Head(net[l]).app.uid = u => Lasts(l)
    BY <1>1, <1>4, <1>6
  <2>3. QED
    BY <2>1, <2>2, HandlersKeep
<1>7. QED
  BY <1>5, <1>6

LEMMA NextKeepingFar ==
  ASSUME Steady, Servable, Ready, IInv', FloodsSpread, KeepingFar, [Next]_vars
  PROVE  KeepingFar'
<1>1. ASSUME NEW l \in Link, Handle(l)
      PROVE  KeepingFar'
  BY <1>1, HandlersKeepFar
<1>2. ASSUME NEW r \in Requests, NEW g \in Uninitialised, ClientRequest(r, g)
      PROVE  KeepingFar'
  <2>1. issued' = Append(issued, r) /\ messages' = messages
    BY <1>2 DEF ClientRequest, nodeVars
  <2>2. \A u \in 1 .. Len(issued) : issued'[u] = issued[u]
    BY <2>1 DEF Ready, IInv, HistoryInv
  <2>3. ASSUME NEW v \in 1 .. Len(issued'), ~Wide(issued', messages', v)
        PROVE  Kept(issued', net', messages', notes', handled', v)
    <3>1. v \in 1 .. Len(issued) => ~Wide(issued, messages, v)
      BY <2>1, <2>2, <2>3 DEF Wide
    <3>2. v \in 1 .. Len(issued) => Kept(issued, net, messages, notes, handled, v)
      BY <3>1 DEF KeepingFar
    <3>3. QED
      BY <1>2, <3>2, RequestKeeps
  <2>4. QED
    BY <2>3 DEF KeepingFar
<1>3. CASE UNCHANGED vars
  BY <1>3 DEF vars, nodeVars, historyVars, KeepingFar
<1>4. QED
  BY <1>1, <1>2, <1>3, SteadySteps

(***************************************************************************)
(* A send is lost only if its flood spread wide: the first copy counts at  *)
(* a node, and one that took a detour may leave too little ttl for those   *)
(* behind (handle_route_direct).  But then TTL - 1 nodes have seen it.     *)
(***************************************************************************)
LostOnlyFar ==
  Quiet => \A u \in 1 .. Len(issued) :
    \/ Answered(u)
    \/ issued[u].cmd = "SEND" /\ Cardinality(Marked(messages, u)) + 1 >= TTL

(***************************************************************************)
(* What can be lost at all: in a mesh in which nobody dies and that hangs  *)
(* together, of any size and with any TTL, every request has been answered *)
(* when nothing is under way any more, but for sends whose flood TTL - 1   *)
(* nodes have seen, or more.  No other order in which floods, answers,     *)
(* routed messages and contests meet in the handlers loses a request.      *)
(***************************************************************************)
THEOREM OnlyFarSendsAreLost ==
  ASSUME Steady, Servable, Connected
  PROVE  Spec => []LostOnlyFar
<1>1. Spec => []Ready
  BY OrderlyInvariance
<1>2. Spec => []FloodsSpread
  BY FloodsSpreadWide
<1>3. Init => KeepingFar
  <2>1. Init => Len(issued) = 0
    BY DEF Init
  <2>2. QED
    BY <2>1 DEF KeepingFar
<1>4. Ready => IInv
  BY DEF Ready
<1>5. Ready /\ IInv' /\ FloodsSpread /\ KeepingFar /\ [Next]_vars => KeepingFar'
  BY NextKeepingFar
<1>6. Spec => []OneWinner
  <2>1. MaxResets + MaxKills = 0 /\ MaxRequests <= MAX_MESSAGE_DATA
    BY DEF Steady, Few, Unbroken
  <2>2. QED
    BY <2>1, ContestsHaveOneWinner
<1>7. Ready /\ KeepingFar /\ OneWinner => LostOnlyFar
  BY KeptAnswers DEF LostOnlyFar, KeepingFar, Wide
<1>8. QED
  BY <1>1, <1>2, <1>3, <1>4, <1>5, <1>6, <1>7, PTL DEF Spec

-----------------------------------------------------------------------------
(***************************************************************************)
(* A mesh from which no node was killed hangs together.                    *)
(***************************************************************************)
\* Every node but the first reaches one with a smaller address: the one
\* before it in its row, or the one above it.
LEMMA StepBack ==
  ASSUME NEW n \in Node, n > 0
  PROVE  \E b \in Neighbours(n) : b < n
<1>1. PICK m \in Nat : m = MATRIX_SIZE /\ m > 0
  BY GridAssumption
<1>2. n \in 0 .. m * m - 1 /\ m * m \in Nat
  BY <1>1 DEF Node, NODE_COUNT
<1>3. PICK q \in Int, c \in 0 .. m - 1 : n = q * m + c /\ q = n \div m /\ c = n % m
  BY <1>1, <1>2
<1>4. row(n) = q /\ col(n) = c /\ n = q * m + c
  BY <1>1, <1>3 DEF row, col
<1>5. BROADCAST_RADIUS \in Nat /\ BROADCAST_RADIUS > 0
  BY GridAssumption
<1>6. CASE c > 0
  <2>1. PICK b : b = n - 1
    OBVIOUS
  <2>2. c - 1 \in 0 .. m - 1 /\ b = q * m + (c - 1)
    <3>1. PICK k \in Int : k = q * m
      BY <1>1
    <3>2. c \in Int /\ 0 < c /\ c <= m - 1 /\ n = k + c
      BY <1>1, <1>4, <1>6, <3>1
    <3>3. c - 1 \in 0 .. m - 1 /\ b = k + (c - 1)
      BY <1>1, <2>1, <3>2
    <3>4. QED
      BY <3>1, <3>3
  <2>3. row(b) = q /\ col(b) = c - 1
    BY <1>1, <2>2, Division DEF row, col
  <2>4. row(b) - row(n) = 0 /\ col(b) - col(n) = -1
    <3>1. q - q = 0 /\ (c - 1) - c = -1
      BY <1>1, <1>3
    <3>2. QED
      BY <1>4, <2>3, <3>1
  <2>5. InReach(0, -1)
    BY <1>5 DEF InReach
  <2>6. b \in Node /\ b < n
    BY <1>1, <1>2, <2>1 DEF Node, NODE_COUNT
  <2>7. QED
    BY <2>4, <2>5, <2>6 DEF Neighbours
<1>7. CASE c = 0
  <2>1. q >= 1
    <3>1. SUFFICES ASSUME q <= 0 PROVE FALSE
      BY <1>3
    <3>2. q * m <= 0 * m
      BY <1>1, <3>1, Monotone
    <3>3. q * m \in Int /\ 0 * m = 0
      BY <1>1
    <3>4. QED
      BY <1>2, <1>3, <1>7, <3>2, <3>3
  <2>2. m <= n
    <3>1. 1 * m <= q * m
      BY <1>1, <2>1, Monotone
    <3>2. q * m \in Int /\ 1 * m = m
      BY <1>1
    <3>3. QED
      BY <1>3, <1>7, <3>1, <3>2
  <2>3. PICK b : b = n - m /\ b \in Int
    BY <1>1, <1>2
  <2>4. b = (q - 1) * m + 0
    <3>1. (q - 1) * m = q * m - m
      BY <1>1
    <3>2. QED
      BY <1>1, <1>3, <1>7, <2>3, <3>1
  <2>5. row(b) = q - 1 /\ col(b) = 0
    <3>1. q - 1 \in Int /\ 0 \in 0 .. m - 1
      BY <1>1
    <3>2. QED
      BY <1>1, <2>4, <3>1, Division DEF row, col
  <2>6. row(b) - row(n) = -1 /\ col(b) - col(n) = 0
    BY <1>4, <1>7, <2>5
  <2>7. InReach(-1, 0)
    BY <1>5 DEF InReach
  <2>8. b \in Node /\ b < n
    BY <1>1, <1>2, <2>2, <2>3 DEF Node, NODE_COUNT
  <2>9. QED
    BY <2>6, <2>7, <2>8 DEF Neighbours
<1>8. QED
  BY <1>3, <1>6, <1>7

\* Who passes on to everybody in reach passes on to the first node.
LEMMA FirstReached ==
  ASSUME NEW S \in SUBSET Node, S # {}, \A y \in S : Neighbours(y) \subseteq S
  PROVE  0 \in S
<1>1. Node \subseteq Nat
  BY NodeFacts DEF Node
<1>2. PICK x \in S : \A y \in S : x <= y
  BY <1>1, HasLeast
<1>3. x \in Node /\ x \in Nat
  BY <1>1
<1>4. CASE x = 0
  BY <1>4
<1>5. CASE x > 0
  <2>1. PICK b \in Neighbours(x) : b < x
    BY <1>3, <1>5, StepBack
  <2>2. b \in S /\ b \in Nat
    BY <1>1
  <2>3. QED
    BY <1>2, <1>3, <2>1, <2>2
<1>6. QED
  BY <1>3, <1>4, <1>5

LEMMA WholeMeshConnected ==
  ASSUME Killed = {}
  PROVE  Connected
<1>1. Live = Node
  BY DEF Live
<1> SUFFICES ASSUME NEW S \in SUBSET Node, S # {}, S # Node,
                    \A y \in S, z \in Node \ S : z \notin Neighbours(y)
             PROVE  FALSE
  BY <1>1 DEF Connected
<1>2. PICK T \in SUBSET Node : T = Node \ S
  OBVIOUS
<1>3. \A y \in Node : Neighbours(y) \subseteq Node
  BY DEF Neighbours
<1>4. \A y \in S : Neighbours(y) \subseteq S
  BY <1>3
<1>5. \A y \in T : Neighbours(y) \subseteq T
  BY <1>2, <1>3, NeighbourSymmetry
<1>6. 0 \in S /\ 0 \in T
  BY <1>2, <1>4, <1>5, FirstReached
<1>7. QED
  BY <1>2, <1>6

-----------------------------------------------------------------------------
(***************************************************************************)
(* Where routes lead.  Nobody forgets a route in a mesh in which nobody    *)
(* dies, and who enters one enters the node that the flood or the answer   *)
(* came from.  That node knows the way on: it has learnt it from the same  *)
(* flood or answer before it passed that on.                               *)
(***************************************************************************)
(***************************************************************************)
(* The way that an answer has come fits into an int8_t, so every node it   *)
(* passes learns from it: the metric that handle_node_route_inverse        *)
(* computes does not wrap round to one that is not positive, although      *)
(* nothing but the routes stops an answer and its ttl may fall below zero. *)
(* It takes more than 127 hops to break this.                              *)
(***************************************************************************)
ShortAnswers ==
  \A l \in Link : \A i \in 1 .. Len(net[l]) :
    net[l][i].req = "ROUTE_INVERSE" => new_metric(net[l][i]) > 0

\* In the routing tables R, node n is d or knows a way to it.
Knows(R, n, d) == n = d \/ routing_next_addr(R[n], d) # UINT8_MAX

LeadsOn(R) ==
  \A n, d \in Node : R[n][d].addr # UINT8_MAX => Knows(R, R[n][d].addr, d)

(***************************************************************************)
(* Message x on its way from p to n.  Who passes on a flood or an answer   *)
(* knows the way to where that came from, and a send only goes to nodes    *)
(* that know the way to its receiver, so it is not flooded again.          *)
(***************************************************************************)
Guided(R, p, n, x) ==
  /\ p = Server /\ x.req = "SEND" => x.sender = n
  /\ p # Server =>
       /\ x.req = "ROUTE_DIRECT" => Knows(R, p, x.sender)
       /\ x.req = "ROUTE_INVERSE" => x.receiver \in Node /\ Knows(R, p, x.receiver)
       /\ x.req = "SEND" => Knows(R, n, x.receiver)

NetGuided ==
  \A l \in Link : \A i \in 1 .. Len(net[l]) : Guided(routing, l[1], l[2], net[l][i])

Guiding == LeadsOn(routing) /\ NetGuided

\* What node n may enter into its table.
Taught(n, rt) ==
  \A d \in Node : \/ rt[d].addr = routing[n][d].addr
                  \/ rt[d].addr \in Node /\ Knows(routing, rt[d].addr, d)

\* What node n with the new table rt may write to q.
Leads(rt, n, q, y) ==
  /\ y.req = "ROUTE_DIRECT" => n = y.sender \/ routing_next_addr(rt, y.sender) # UINT8_MAX
  /\ y.req = "ROUTE_INVERSE" =>
       y.receiver \in Node /\ (n = y.receiver \/ routing_next_addr(rt, y.receiver) # UINT8_MAX)
  /\ y.req = "SEND" => Knows(routing, q, y.receiver)

Guides(l) ==
  \E to, msg, rt :
    /\ Exchange(l[2], {l}, to, msg) /\ to \subseteq Neighbours(l[2]) \cup {Server}
    /\ routing' = [routing EXCEPT ![l[2]] = rt] /\ Taught(l[2], rt)
    /\ \A q \in to \cap Node : Leads(rt, l[2], q, msg[q])

LEMMA GuidesSame ==
  ASSUME NEW l \in Link, NEW to, NEW y, Send(l[2], l, to, y),
         to \subseteq Neighbours(l[2]) \cup {Server},
         NEW rt, routing' = [routing EXCEPT ![l[2]] = rt], Taught(l[2], rt),
         \A q \in to \cap Node : Leads(rt, l[2], q, y)
  PROVE  Guides(l)
<1>1. PICK msg : msg = [q \in Node |-> y]
  OBVIOUS
<1>2. Exchange(l[2], {l}, to, msg)
  BY <1>1 DEF Send
<1>3. \A q \in to \cap Node : Leads(rt, l[2], q, msg[q])
  BY <1>1
<1>4. QED
  BY <1>2, <1>3 DEF Guides

LEMMA GuidesNothing ==
  ASSUME NEW l \in Link, Discard(l[2], l),
         NEW rt, routing' = [routing EXCEPT ![l[2]] = rt], Taught(l[2], rt)
  PROVE  Guides(l)
<1>1. PICK msg, to : msg = << >> /\ to = {}
  OBVIOUS
<1>2. Exchange(l[2], {l}, to, msg) /\ to \subseteq Neighbours(l[2]) \cup {Server}
  BY <1>1 DEF Discard
<1>3. \A q \in to \cap Node : Leads(rt, l[2], q, msg[q])
  BY <1>1
<1>4. QED
  BY <1>2, <1>3 DEF Guides

\* The table stays as it is.
LEMMA SameRoutes ==
  ASSUME Ready, NEW n \in Node
  PROVE  routing = [routing EXCEPT ![n] = routing[n]] /\ Taught(n, routing[n])
BY SameTable DEF Taught

\* Nobody forgets a way.
LEMMA KnowsGrows ==
  ASSUME IInv, NEW n \in Node, NEW rt, routing' = [routing EXCEPT ![n] = rt], Taught(n, rt),
         NEW m \in Node, NEW d, Knows(routing, m, d)
  PROVE  Knows(routing', m, d)
<1>1. routing'[m] = IF m = n THEN rt ELSE routing[m]
  BY DEF IInv, TableInv
<1>2. CASE m = d \/ m # n
  BY <1>1, <1>2 DEF Knows
<1>3. CASE m # d /\ m = n
  <2>1. d \in Node /\ routing[n][d].addr # UINT8_MAX
    BY <1>3 DEF Knows, routing_next_addr, routing_get, NoRoute
  <2>2. rt[d].addr # UINT8_MAX
    BY <2>1, NodeFacts DEF Taught
  <2>3. QED
    BY <1>1, <1>3, <2>1, <2>2 DEF Knows, routing_next_addr, routing_get
<1>4. QED
  BY <1>2, <1>3

LEMMA GuidesKeep ==
  ASSUME IInv, Guiding, NEW l \in Link, net[l] # << >>, Guides(l)
  PROVE  Guiding'
<1>1. PICK n : n = l[2] /\ n \in Node /\ n \in Peer /\ n # Server
  BY LinkFacts, NodeFacts DEF Peer
<1>2. PICK to, msg, rt :
        /\ Exchange(n, {l}, to, msg) /\ to \subseteq Neighbours(n) \cup {Server}
        /\ routing' = [routing EXCEPT ![n] = rt] /\ Taught(n, rt)
        /\ \A q \in to \cap Node : Leads(rt, n, q, msg[q])
  BY <1>1 DEF Guides
<1>3. \A m \in Node : \A d : Knows(routing, m, d) => Knows(routing', m, d)
  BY <1>1, <1>2, KnowsGrows
<1>4. routing'[n] = rt /\ \A m \in Node : m # n => routing'[m] = routing[m]
  BY <1>1, <1>2 DEF IInv, TableInv
<1>5. ASSUME NEW m \in Node, NEW d \in Node, routing'[m][d].addr # UINT8_MAX
      PROVE  Knows(routing', routing'[m][d].addr, d)
  <2>1. CASE routing'[m][d].addr = routing[m][d].addr
    <3>1. PICK a : a = routing[m][d].addr /\ a # UINT8_MAX
      BY <1>5, <2>1
    <3>2. a \in Node
      BY <3>1, NeighboursFinite DEF IInv, TableInv, NextHopIsNeighbour
    <3>3. Knows(routing, a, d)
      BY <3>1 DEF Guiding, LeadsOn
    <3>4. QED
      BY <1>3, <2>1, <3>1, <3>2, <3>3
  <2>2. CASE routing'[m][d].addr # routing[m][d].addr
    <3>1. m = n /\ rt[d].addr \in Node /\ Knows(routing, rt[d].addr, d)
      BY <1>2, <1>4, <2>2 DEF Taught
    <3>2. QED
      BY <1>3, <1>4, <3>1
  <2>3. QED
    BY <2>1, <2>2
<1>6. ASSUME NEW k \in Link, NEW i \in 1 .. Len(net'[k])
      PROVE  Guided(routing', k[1], k[2], net'[k][i])
  <2>1. Stayed({l}, k, i) \/ Added(n, to, msg, k, i)
    <3>1. {l} \in SUBSET Link /\ \A h \in {l} : net[h] # << >>
      OBVIOUS
    <3>2. QED
      BY <1>2, <3>1, Arrives
  <2>2. CASE Stayed({l}, k, i)
    <3>1. PICK x : x = net'[k][i] /\ Guided(routing, k[1], k[2], x)
      BY <2>2 DEF Stayed, Guiding, NetGuided
    <3>2. k[2] \in Node /\ (k[1] # Server => k[1] \in Node)
      BY LinkFacts DEF Link, Peer
    <3>3. Guided(routing', k[1], k[2], x)
      BY <1>3, <3>1, <3>2 DEF Guided
    <3>4. QED
      BY <3>1, <3>3
  <2>3. CASE Added(n, to, msg, k, i)
    <3>1. PICK y : y = net'[k][i] /\ y = msg[k[2]] /\ k[1] = n /\ k[2] \in to /\ k[2] \in Node
      BY <2>3, ReachedFacts, LinkFacts DEF Added
    <3>2. Leads(rt, n, k[2], y)
      BY <1>2, <3>1
    <3>3. y.req = "SEND" => Knows(routing', k[2], y.receiver)
      BY <1>3, <3>1, <3>2 DEF Leads
    <3>4. Guided(routing', n, k[2], y)
      BY <1>1, <1>4, <3>2, <3>3 DEF Leads, Guided, Knows
    <3>5. QED
      BY <3>1, <3>4
  <2>4. QED
    BY <2>1, <2>2, <2>3
<1>7. QED
  BY <1>5, <1>6 DEF Guiding, LeadsOn, NetGuided

(***************************************************************************)
(* Every handler guides.                                                   *)
(***************************************************************************)
\* The message at the head of a link comes from a node that knows the way.
LEMMA HeadGuided ==
  ASSUME Ready, Guiding, NEW l \in Link, net[l] # << >>
  PROVE  Guided(routing, l[1], l[2], Head(net[l]))
<1>1. Head(net[l]) = net[l][1] /\ 1 \in 1 .. Len(net[l])
  BY DEF Ready, IInv, NetInv
<1>2. QED
  BY <1>1 DEF Guiding, NetGuided

\* A route that is found leads to a node that knows the way on.
LEMMA NextKnows ==
  ASSUME Guiding, NEW n \in Node, NEW d, routing_next_addr(routing[n], d) # UINT8_MAX
  PROVE  Knows(routing, routing_next_addr(routing[n], d), d)
<1>1. d \in Node /\ routing_next_addr(routing[n], d) = routing[n][d].addr
  BY DEF routing_next_addr, routing_get, NoRoute
<1>2. QED
  BY <1>1 DEF Guiding, LeadsOn

\* handle_server_send.
LEMMA ServerSendGuides ==
  ASSUME Ready, Guiding, NEW l \in Link, HandleServerSend(l)
  PROVE  Guides(l)
<1>1. PICK n, p, a : n = l[2] /\ p = Head(net[l]) /\ a = node_app_setup_delivery(p.app)
  OBVIOUS
<1>2. PICK next : next = routing_next_addr(routing[n], p.receiver)
  OBVIOUS
<1>3. Receives(l, "SEND") /\ l[1] = Server
  BY DEF HandleServerSend
<1>4. net[l] # << >> /\ p.req = "SEND" /\ n \in Node /\ routing[n] \in Routes(n)
  BY <1>1, <1>3, HeadReady
<1>5. p \in node_packet /\ p.app \in AppPayload /\ is_valid_crc(p) /\ a \in AppPayload
  BY <1>1, <1>4, PacketFacts, SetupType DEF PacketReq, Ready
<1>6. p.sender = n
  BY <1>1, <1>3, <1>4, HeadGuided DEF Guided
<1>7. routing' = [routing EXCEPT ![n] = routing[n]] /\ Taught(n, routing[n])
  <2>1. routing' = routing
    BY DEF HandleServerSend, nodeVars
  <2>2. QED
    BY <1>4, <2>1, SameRoutes
<1>8. CASE p.receiver = n
  <2>1. Send(n, l, {Server}, p)
    BY <1>1, <1>5, <1>8 DEF HandleServerSend
  <2>2. PICK to : to = {Server}
    OBVIOUS
  <2>3. to \cap Node = {} /\ to \subseteq Neighbours(n) \cup {Server}
    BY <2>2, NodeFacts
  <2>4. QED
    BY <1>1, <1>7, <2>1, <2>2, <2>3, GuidesSame
<1>9. CASE p.receiver # n /\ next = UINT8_MAX
  <2>1. PICK f : f = [p EXCEPT !.app = a, !.local = n, !.ttl = TTL]
    OBVIOUS
  <2>2. f \in node_packet /\ f.app = a /\ f.sender = p.sender /\ f.ttl = TTL
    BY <1>4, <1>5, <2>1, NodeFacts, Int8Facts DEF node_packet
  <2>3. Flood(n, l, f)
    BY <1>1, <1>2, <1>5, <1>9, <2>1 DEF HandleServerSend
  <2>4. PICK y : y = broadcast_route(f) /\ y.req = "ROUTE_DIRECT" /\ y.sender = n
    BY <1>6, <2>2, FloodFields, MeshAssumption
  <2>5. PICK to : to = Neighbours(n) /\ to \subseteq Neighbours(n) \cup {Server}
    OBVIOUS
  <2>6. Send(n, l, to, y)
    BY <2>3, <2>4, <2>5 DEF Flood, Send
  <2>7. \A q \in to \cap Node : Leads(routing[n], n, q, y)
    BY <2>4 DEF Leads
  <2>8. QED
    BY <1>1, <1>7, <2>5, <2>6, <2>7, GuidesSame
<1>10. CASE p.receiver # n /\ next # UINT8_MAX
  <2>1. PICK f : f = [p EXCEPT !.app = a]
    OBVIOUS
  <2>2. f \in node_packet /\ f.receiver = p.receiver /\ f.req = "SEND"
    BY <1>4, <1>5, <2>1 DEF node_packet
  <2>3. PICK y : y = WithCrc(f) /\ y.req = "SEND" /\ y.receiver = p.receiver
    BY <2>2, WithCrcFields
  <2>4. PICK to : to = {next} /\ to \subseteq Neighbours(n) \cup {Server}
    BY <1>2, <1>4, <1>10, NextAddrGood
  <2>5. Send(n, l, to, y)
    BY <1>1, <1>2, <1>5, <1>10, <2>1, <2>3, <2>4 DEF HandleServerSend
  <2>6. \A q \in to \cap Node : Leads(routing[n], n, q, y)
    <3>1. Knows(routing, next, p.receiver)
      BY <1>2, <1>4, <1>10, NextKnows
    <3>2. QED
      BY <2>3, <2>4, <3>1 DEF Leads
  <2>7. QED
    BY <1>1, <1>7, <2>4, <2>5, <2>6, GuidesSame
<1>11. QED
  BY <1>8, <1>9, <1>10

\* handle_node_send: there is a way on, so nothing is flooded again.
LEMMA NodeSendGuides ==
  ASSUME Ready, Guiding, NEW l \in Link, HandleNodeSend(l)
  PROVE  Guides(l)
<1>1. PICK n, p : n = l[2] /\ p = Head(net[l])
  OBVIOUS
<1>2. PICK next : next = routing_next_addr(routing[n], p.receiver)
  OBVIOUS
<1>3. Receives(l, "SEND") /\ l[1] # Server
  BY DEF HandleNodeSend
<1>4. net[l] # << >> /\ p.req = "SEND" /\ n \in Node /\ routing[n] \in Routes(n)
  BY <1>1, <1>3, HeadReady
<1>5. is_valid_crc(p)
  BY <1>1, <1>4, PacketFacts DEF PacketReq, Ready
<1>6. p.receiver = n \/ next # UINT8_MAX
  BY <1>1, <1>2, <1>3, <1>4, HeadGuided DEF Guided, Knows
<1>7. routing' = [routing EXCEPT ![n] = routing[n]] /\ Taught(n, routing[n])
  <2>1. routing' = routing
    BY DEF HandleNodeSend, nodeVars
  <2>2. QED
    BY <1>4, <2>1, SameRoutes
<1>8. CASE p.receiver = n
  <2>1. Send(n, l, {Server}, p)
    BY <1>1, <1>5, <1>8 DEF HandleNodeSend
  <2>2. PICK to : to = {Server}
    OBVIOUS
  <2>3. to \cap Node = {} /\ to \subseteq Neighbours(n) \cup {Server}
    BY <2>2, NodeFacts
  <2>4. QED
    BY <1>1, <1>7, <2>1, <2>2, <2>3, GuidesSame
<1>9. CASE p.receiver # n
  <2>1. PICK to : to = {next} /\ to \subseteq Neighbours(n) \cup {Server}
    BY <1>2, <1>4, <1>6, <1>9, NextAddrGood
  <2>2. Send(n, l, to, p)
    BY <1>1, <1>2, <1>5, <1>6, <1>9, <2>1 DEF HandleNodeSend
  <2>3. \A q \in to \cap Node : Leads(routing[n], n, q, p)
    <3>1. Knows(routing, next, p.receiver)
      BY <1>2, <1>4, <1>6, <1>9, NextKnows
    <3>2. QED
      BY <1>4, <2>1, <3>1 DEF Leads
  <2>4. QED
    BY <1>1, <1>7, <2>1, <2>2, <2>3, GuidesSame
<1>10. QED
  BY <1>8, <1>9

\* handle_broadcast, which sends to every neighbour what is for it.
LEMMA BroadcastGuides ==
  ASSUME Ready, NEW l \in Link, HandleBroadcast(l)
  PROVE  Guides(l)
<1>1. PICK n, x : n = l[2] /\ x = Head(net[l])
  OBVIOUS
<1>2. PICK p : p = [x EXCEPT !.req = "SEND", !.app = node_app_setup_delivery(x.app)]
  OBVIOUS
<1>3. PICK msg : msg = [q \in Node |-> WithCrc([p EXCEPT !.receiver = q])]
  OBVIOUS
<1>4. Receives(l, "BROADCAST") /\ routing' = routing
  BY DEF HandleBroadcast, nodeVars
<1>5. net[l] # << >> /\ x.req = "BROADCAST" /\ n \in Node
  BY <1>1, <1>4, HeadReady
<1>6. x \in node_packet /\ x.app \in AppPayload
  BY <1>1, <1>5, PacketFacts DEF PacketReq, Ready
<1>7. p \in node_packet /\ p.req = "SEND"
  BY <1>2, <1>6, SetupType DEF node_packet, PacketReq
<1>8. ASSUME NEW q \in Node
      PROVE  Leads(routing[n], n, q, msg[q])
  <2>1. PICK s : s = [p EXCEPT !.receiver = q]
    OBVIOUS
  <2>2. s \in node_packet /\ s.req = "SEND" /\ s.receiver = q
    BY <1>7, <2>1, NodeFacts DEF node_packet
  <2>3. PICK y : y = WithCrc(s)
    OBVIOUS
  <2>4. y.req = "SEND" /\ y.receiver = q
    BY <2>2, <2>3, WithCrcFields
  <2>5. msg[q] = y
    BY <1>3, <2>1, <2>3
  <2>6. QED
    BY <2>4, <2>5 DEF Leads, Knows
<1>9. PICK to : to = Neighbours(n) /\ to \subseteq Neighbours(n) \cup {Server}
  OBVIOUS
<1>10. Exchange(n, {l}, to, msg)
  BY <1>1, <1>2, <1>3, <1>9 DEF HandleBroadcast
<1>11. routing' = [routing EXCEPT ![n] = routing[n]] /\ Taught(n, routing[n])
  BY <1>4, <1>5, SameRoutes
<1>12. QED
  BY <1>1, <1>8, <1>9, <1>10, <1>11 DEF Guides

\* The three handlers of a contest.
LEMMA ContestGuides ==
  ASSUME Ready, NEW l \in Link,
         HandleServerUnicast(l) \/ HandleUnicastContest(l) \/ HandleUnicastFirst(l)
  PROVE  Guides(l)
<1>1. PICK n, x : n = l[2] /\ x = Head(net[l])
  OBVIOUS
<1>2. n \in Node
  BY <1>1, LinkFacts
<1>3. routing' = [routing EXCEPT ![n] = routing[n]] /\ Taught(n, routing[n])
  <2>1. routing' = routing
    BY DEF HandleServerUnicast, HandleUnicastContest, HandleUnicastFirst, nodeVars
  <2>2. QED
    BY <1>2, <2>1, SameRoutes
<1>4. ASSUME HandleServerUnicast(l)
      PROVE  Guides(l)
  <2>1. PICK y : y = [req |-> "UNICAST_CONTEST", node_addr |-> n,
                      app |-> node_app_setup_delivery(x.app)]
    OBVIOUS
  <2>2. PICK to : to = Neighbours(n) /\ to \subseteq Neighbours(n) \cup {Server}
    OBVIOUS
  <2>3. Send(n, l, to, y)
    BY <1>1, <1>4, <2>1, <2>2 DEF HandleServerUnicast
  <2>4. y.req = "UNICAST_CONTEST"
    BY <2>1
  <2>5. \A q \in to \cap Node : Leads(routing[n], n, q, y)
    BY <2>4 DEF Leads
  <2>6. QED
    BY <1>1, <1>3, <2>2, <2>3, <2>5, GuidesSame
<1>5. ASSUME HandleUnicastContest(l)
      PROVE  Guides(l)
  <2>1. PICK y : y = [x EXCEPT !.req = "UNICAST_FIRST", !.node_addr = n]
    OBVIOUS
  <2>2. Receives(l, "UNICAST_CONTEST") /\ Send(n, l, {x.node_addr}, y)
    BY <1>1, <1>5, <2>1 DEF HandleUnicastContest
  <2>3. net[l] # << >> /\ x.req = "UNICAST_CONTEST"
    BY <1>1, <2>2, HeadReady
  <2>4. x \in unicast_contest /\ x.node_addr \in Neighbours(n)
    BY <1>1, <2>3, ContestFacts DEF Ready
  <2>5. y.req = "UNICAST_FIRST"
    BY <2>1, <2>4 DEF unicast_contest
  <2>6. PICK to : to = {x.node_addr} /\ to \subseteq Neighbours(n) \cup {Server}
    BY <2>4
  <2>7. \A q \in to \cap Node : Leads(routing[n], n, q, y)
    BY <2>5 DEF Leads
  <2>8. QED
    BY <1>1, <1>3, <2>2, <2>6, <2>7, GuidesSame
<1>6. ASSUME HandleUnicastFirst(l)
      PROVE  Guides(l)
  <2>1. PICK y : y = send_to_winner(n, x)
    OBVIOUS
  <2>2. /\ Receives(l, "UNICAST_FIRST")
        /\ IF is_id_set(messages[n], x.app.id) THEN Discard(n, l)
           ELSE Send(n, l, {x.node_addr}, y)
    BY <1>1, <1>6, <2>1 DEF HandleUnicastFirst
  <2>3. net[l] # << >> /\ x.req = "UNICAST_FIRST"
    BY <1>1, <2>2, HeadReady
  <2>4. /\ x \in unicast_contest /\ x.node_addr \in Neighbours(n) /\ x.node_addr \in Node
        /\ x.app \in AppPayload
    BY <1>1, <2>3, ContestFacts DEF Ready
  <2>5. CASE is_id_set(messages[n], x.app.id)
    BY <1>1, <1>3, <2>2, <2>5, GuidesNothing
  <2>6. CASE ~is_id_set(messages[n], x.app.id)
    <3>1. PICK s : s = [req |-> "SEND", sender |-> n, receiver |-> x.node_addr,
                        local |-> 0, ttl |-> 0, app |-> x.app, crc |-> << >>]
      OBVIOUS
    <3>2. s \in node_packet /\ s.req = "SEND" /\ s.receiver = x.node_addr
      <4>1. 0 \in Addr
        BY DEF Addr, UINT8_MAX
      <4>2. QED
        BY <1>2, <2>4, <3>1, <4>1, NodeFacts, Int8Facts DEF node_packet, PacketReq
    <3>3. y = WithCrc(s)
      BY <2>1, <3>1 DEF send_to_winner
    <3>4. y.req = "SEND" /\ y.receiver = x.node_addr
      BY <3>2, <3>3, WithCrcFields
    <3>5. PICK to : to = {x.node_addr} /\ to \subseteq Neighbours(n) \cup {Server}
      BY <2>4
    <3>6. \A q \in to \cap Node : Leads(routing[n], n, q, y)
      BY <3>4, <3>5 DEF Leads, Knows
    <3>7. QED
      BY <1>1, <1>3, <2>2, <2>6, <3>5, <3>6, GuidesSame
  <2>7. QED
    BY <2>5, <2>6
<1>7. QED
  BY <1>4, <1>5, <1>6

\* A way over a neighbour that knows the way on.
LEMMA SetTaught ==
  ASSUME NEW n \in Node, routing[n] \in RoutingTable, NEW a \in Node, NEW d,
         Knows(routing, a, d), NEW m
  PROVE  Taught(n, routing_set_addr(routing[n], d, a, m))
<1>1. PICK rt : rt = routing_set_addr(routing[n], d, a, m)
  OBVIOUS
<1>2. CASE d \notin Node
  BY <1>1, <1>2 DEF routing_set_addr, Taught
<1>3. CASE d \in Node
  <2>1. rt = [routing[n] EXCEPT ![d] = [addr |-> a, metric |-> m]]
    BY <1>1, <1>3 DEF routing_set_addr
  <2>2. ASSUME NEW e \in Node
        PROVE  \/ rt[e].addr = routing[n][e].addr
               \/ rt[e].addr \in Node /\ Knows(routing, rt[e].addr, e)
    <3>1. CASE e = d
      <4>1. rt[e].addr = a
        BY <1>3, <2>1, <3>1 DEF RoutingTable
      <4>2. QED
        BY <3>1, <4>1
    <3>2. CASE e # d
      BY <2>1, <3>2 DEF RoutingTable
    <3>3. QED
      BY <3>1, <3>2
  <2>3. QED
    BY <1>1, <2>2 DEF Taught
<1>4. QED
  BY <1>2, <1>3

LEMMA LearnTaught ==
  ASSUME Ready, NEW n \in Node, NEW p, p.local \in Node
  PROVE  /\ Knows(routing, p.local, p.sender) => Taught(n, LearnDirect(routing[n], p))
         /\ Knows(routing, p.local, p.receiver) => Taught(n, LearnInverse(routing[n], p))
<1>1. routing[n] \in RoutingTable
  BY DEF Ready, IInv, TableInv
<1>2. Taught(n, routing[n])
  BY SameRoutes
<1>3. ASSUME Knows(routing, p.local, p.sender)
      PROVE  Taught(n, LearnDirect(routing[n], p))
  <2>1. Taught(n, routing_set_addr(routing[n], p.sender, p.local, new_metric(p)))
    BY <1>1, <1>3, SetTaught
  <2>2. QED
    BY <1>2, <2>1 DEF LearnDirect
<1>4. ASSUME Knows(routing, p.local, p.receiver)
      PROVE  Taught(n, LearnInverse(routing[n], p))
  <2>1. Taught(n, routing_set_addr(routing[n], p.receiver, p.local, new_metric(p)))
    BY <1>1, <1>4, SetTaught
  <2>2. QED
    BY <1>2, <2>1 DEF LearnInverse
<1>5. QED
  BY <1>3, <1>4

\* An answer whose way is not too long teaches a way to its receiver.
LEMMA InverseRoute ==
  ASSUME NEW rt \in RoutingTable, NEW p \in node_packet, p.receiver \in Node, p.local \in Node,
         new_metric(p) > 0
  PROVE  routing_next_addr(LearnInverse(rt, p), p.receiver) # UINT8_MAX
<1>1. CASE routing_next_addr(rt, p.receiver) = UINT8_MAX
  <2>1. LearnInverse(rt, p) = routing_set_addr(rt, p.receiver, p.local, new_metric(p))
    BY <1>1 DEF LearnInverse
  <2>2. routing_next_addr(LearnInverse(rt, p), p.receiver) = p.local
    BY <2>1 DEF routing_set_addr, routing_next_addr, routing_get, RoutingTable
  <2>3. QED
    BY <2>2, NodeFacts
<1>2. CASE routing_next_addr(rt, p.receiver) # UINT8_MAX
  BY <1>2 DEF LearnInverse
<1>3. QED
  BY <1>1, <1>2

\* handle_node_route_inverse.
LEMMA RouteInverseGuides ==
  ASSUME Steady, Ready, Guiding, ShortAnswers, NEW l \in Link, HandleRouteInverse(l)
  PROVE  Guides(l)
<1>1. PICK n, p : n = l[2] /\ p = Head(net[l])
  OBVIOUS
<1>2. PICK rt : rt = LearnInverse(routing[n], p)
  OBVIOUS
<1>3. PICK next : next = routing_next_addr(rt, p.sender)
  OBVIOUS
<1>4. PICK y : y = WithCrc([p EXCEPT !.local = n, !.ttl = ToInt8(p.ttl - 1)])
  OBVIOUS
<1>5. Receives(l, "ROUTE_INVERSE")
  BY DEF HandleRouteInverse
<1>6. /\ net[l] # << >> /\ p.req = "ROUTE_INVERSE" /\ n \in Node \ Killed /\ l[1] \notin Killed
      /\ routing[n] \in Routes(n) /\ routing[n] \in RoutingTable /\ AliveTable(routing[n])
  BY <1>1, <1>5, HeadReady
<1>7. /\ p \in node_packet /\ is_valid_crc(p) /\ l[1] # Server
      /\ p.local \in Neighbours(n) /\ p.local \in Node /\ p.local = l[1]
  <2>1. p \in Carried(l)
    BY <1>1, <1>6, HeadFacts DEF Ready, IInv
  <2>2. QED
    BY <1>1, <1>6, <2>1, PacketFacts, NeighboursFinite DEF PacketReq, Ready, Carried
<1>8. p.receiver \in Node /\ Knows(routing, p.local, p.receiver)
  BY <1>1, <1>6, <1>7, HeadGuided DEF Guided
<1>9. new_metric(p) > 0
  <2>1. p = net[l][1] /\ 1 \in 1 .. Len(net[l])
    BY <1>1, <1>6 DEF Ready, IInv, NetInv
  <2>2. QED
    BY <1>6, <2>1 DEF ShortAnswers
<1>10. Taught(n, rt) /\ routing_next_addr(rt, p.receiver) # UINT8_MAX
  BY <1>2, <1>6, <1>7, <1>8, <1>9, LearnTaught, InverseRoute
<1>11. rt \in Routes(n) /\ AliveTable(rt)
  <2>1. rt \in Routes(n)
    BY <1>2, <1>6, <1>7, LearnGood
  <2>2. AliveTable(rt)
    BY <1>2, <1>6, <1>7, LearnAlive
  <2>3. QED
    BY <2>1, <2>2
<1>12. CASE p.sender = n \/ next = UINT8_MAX
  <2>1. Discard(n, l) /\ routing' = [routing EXCEPT ![n] = rt]
    BY <1>1, <1>2, <1>3, <1>7, <1>12 DEF HandleRouteInverse
  <2>2. QED
    BY <1>1, <1>10, <2>1, GuidesNothing
<1>13. CASE ~(p.sender = n \/ next = UINT8_MAX)
  <2>1. next \in Neighbours(n) \ Killed
    BY <1>3, <1>6, <1>11, <1>13, NextAlive
  <2>2. PICK to : to = {next} /\ to \in SUBSET (Neighbours(n) \cup {Server}) /\ next \in to
    BY <2>1
  <2>3. get_conn_and_send(n, next)
    <3>1. next \in Reached(n, to)
      BY <1>6, <2>1, <2>2, ReachedAlive DEF Ready, OInv, Orderly
    <3>2. QED
      BY <2>2, <3>1 DEF get_conn_and_send
  <2>4. Send(n, l, to, y) /\ routing' = [routing EXCEPT ![n] = rt]
    BY <1>1, <1>2, <1>3, <1>4, <1>7, <1>13, <2>2, <2>3 DEF HandleRouteInverse
  <2>5. y.req = "ROUTE_INVERSE" /\ y.receiver = p.receiver
    <3>1. PICK s : s = [p EXCEPT !.local = n, !.ttl = ToInt8(p.ttl - 1)]
      OBVIOUS
    <3>2. ToInt8(p.ttl - 1) \in Int8
      <4>1. p.ttl \in Int
        BY <1>7, Int8Facts DEF node_packet
      <4>2. QED
        BY <4>1, ToInt8Type
    <3>3. s \in node_packet /\ s.req = "ROUTE_INVERSE" /\ s.receiver = p.receiver
      BY <1>6, <1>7, <3>1, <3>2, NodeFacts DEF node_packet
    <3>4. y = WithCrc(s)
      BY <1>4, <3>1
    <3>5. QED
      BY <3>3, <3>4, WithCrcFields
  <2>6. \A q \in to \cap Node : Leads(rt, n, q, y)
    BY <1>8, <1>10, <2>5 DEF Leads
  <2>7. QED
    BY <1>1, <1>10, <2>2, <2>4, <2>6, GuidesSame
<1>14. QED
  BY <1>12, <1>13

\* handle_node_route_direct with route_direct_handle_delivered.
LEMMA RouteDirectGuides ==
  ASSUME Steady, Ready, Guiding, NEW l \in Link, HandleRouteDirect(l)
  PROVE  Guides(l)
<1>1. PICK n, p : n = l[2] /\ p = Head(net[l])
  OBVIOUS
<1>2. PICK id, rt, t : id = p.app.id /\ rt = LearnDirect(routing[n], p) /\ t = messages[n]
  OBVIOUS
<1>3. PICK was, done : was = set_was_message_by_id(t, id) /\ done = set_inverse_by_id(was, id)
  OBVIOUS
<1>4. Receives(l, "ROUTE_DIRECT")
  BY DEF HandleRouteDirect
<1>5. /\ net[l] # << >> /\ p.req = "ROUTE_DIRECT" /\ Proper(p) /\ n \in Node \ Killed
      /\ l[1] \notin Killed /\ routing[n] \in Routes(n) /\ routing[n] \in RoutingTable
      /\ AliveTable(routing[n])
  BY <1>1, <1>4, HeadReady
<1>6. /\ p \in node_packet /\ is_valid_crc(p) /\ p.local \in Neighbours(n) /\ p.local = l[1]
      /\ l[1] # Server
  <2>1. p \in Carried(l)
    BY <1>1, <1>5, HeadFacts DEF Ready, IInv
  <2>2. QED
    BY <1>1, <1>5, <2>1, PacketFacts DEF PacketReq, Ready, Carried
<1>7. p.sender \in Node /\ p.local \in Node /\ p.ttl \in 0 .. TTL - 1
  BY <1>5, <1>6, NeighboursFinite DEF Proper, PacketReq
<1>8. Taught(n, rt)
  <2>1. Knows(routing, p.local, p.sender)
    BY <1>1, <1>5, <1>6, HeadGuided DEF Guided
  <2>2. QED
    BY <1>2, <1>5, <1>7, <2>1, LearnTaught
<1>9. rt \in Routes(n) /\ AliveTable(rt)
  <2>1. rt \in Routes(n)
    BY <1>2, <1>5, <1>6, LearnGood
  <2>2. AliveTable(rt)
    BY <1>2, <1>5, <1>6, LearnAlive
  <2>3. QED
    BY <2>1, <2>2
<1>10. CASE p.ttl <= 0 \/ get_was_message_by_id(t, id)
  <2>1. Discard(n, l) /\ routing' = routing
    BY <1>1, <1>2, <1>10 DEF HandleRouteDirect, nodeVars
  <2>2. routing' = [routing EXCEPT ![n] = routing[n]] /\ Taught(n, routing[n])
    BY <1>5, <2>1, SameRoutes
  <2>3. QED
    BY <1>1, <2>1, <2>2, GuidesNothing
<1>11. ASSUME ~(p.ttl <= 0 \/ get_was_message_by_id(t, id))
       PROVE  routing_next_addr(rt, p.sender) # UINT8_MAX /\ p.ttl \in 1 .. TTL - 1
  <2>1. p.ttl \in 1 .. TTL - 1
    BY <1>7, <1>11, MeshAssumption
  <2>2. QED
    BY <1>2, <1>5, <1>6, <1>7, <2>1, LearnRoute
<1>12. CASE ~(p.ttl <= 0 \/ get_was_message_by_id(t, id)) /\ p.receiver = n
  <2>1. route_direct_handle_delivered(n, l, p, rt, was)
    BY <1>1, <1>2, <1>3, <1>6, <1>12 DEF HandleRouteDirect
  <2>2. CASE get_inverse_by_id(was, id)
    <3>1. Discard(n, l) /\ routing' = [routing EXCEPT ![n] = rt]
      BY <1>2, <2>1, <2>2 DEF route_direct_handle_delivered, Update
    <3>2. QED
      BY <1>1, <1>8, <3>1, GuidesNothing
  <2>3. CASE ~get_inverse_by_id(was, id)
    <3>1. PICK next : next = routing_next_addr(rt, p.sender)
      OBVIOUS
    <3>2. next \in Neighbours(n) \ Killed /\ next # UINT8_MAX
      BY <1>5, <1>9, <1>11, <1>12, <3>1, NextAlive
    <3>3. get_conn_and_send(n, next)
      <4>1. PICK s : s = {next} /\ s \in SUBSET (Neighbours(n) \cup {Server}) /\ next \in s
        BY <3>2
      <4>2. next \in Reached(n, s)
        BY <1>5, <3>2, <4>1, ReachedAlive DEF Ready, OInv, Orderly
      <4>3. QED
        BY <4>1, <4>2 DEF get_conn_and_send
    <3>4. PICK y : y = WithCrc([p EXCEPT !.req = "ROUTE_INVERSE", !.ttl = TTL, !.local = n])
      OBVIOUS
    <3>5. PICK to : to = {next, Server} /\ to \subseteq Neighbours(n) \cup {Server}
      BY <3>2
    <3>6. Send(n, l, to, y) /\ routing' = [routing EXCEPT ![n] = rt]
      BY <1>2, <2>1, <2>3, <3>1, <3>2, <3>3, <3>4, <3>5 DEF route_direct_handle_delivered, Update
    <3>7. y.req = "ROUTE_INVERSE" /\ y.receiver = n
      <4>1. PICK s : s = [p EXCEPT !.req = "ROUTE_INVERSE", !.ttl = TTL, !.local = n]
        OBVIOUS
      <4>2. s \in node_packet /\ s.req = "ROUTE_INVERSE" /\ s.receiver = n
        BY <1>5, <1>6, <1>12, <4>1, NodeFacts, Int8Facts DEF node_packet, PacketReq
      <4>3. y = WithCrc(s)
        BY <3>4, <4>1
      <4>4. QED
        BY <4>2, <4>3, WithCrcFields
    <3>8. \A q \in to \cap Node : Leads(rt, n, q, y)
      BY <1>5, <3>7 DEF Leads
    <3>9. QED
      BY <1>1, <1>8, <3>5, <3>6, <3>8, GuidesSame
  <2>4. QED
    BY <2>2, <2>3
<1>13. CASE ~(p.ttl <= 0 \/ get_was_message_by_id(t, id)) /\ p.receiver # n
  <2>1. PICK f : f = [p EXCEPT !.local = n]
    OBVIOUS
  <2>2. f \in node_packet /\ f.sender = p.sender /\ f.ttl = p.ttl
    BY <1>5, <1>6, <2>1, NodeFacts DEF node_packet
  <2>3. Flood(n, l, f) /\ routing' = [routing EXCEPT ![n] = rt]
    BY <1>1, <1>2, <1>3, <1>6, <1>13, <2>1 DEF HandleRouteDirect, Update
  <2>4. f.ttl \in 1 .. 127
    BY <1>11, <1>13, <2>2, MeshAssumption
  <2>5. PICK y : y = broadcast_route(f) /\ y.req = "ROUTE_DIRECT" /\ y.sender = p.sender
    BY <2>2, <2>4, FloodFields
  <2>6. PICK to : to = Neighbours(n) /\ to \subseteq Neighbours(n) \cup {Server}
    OBVIOUS
  <2>7. Send(n, l, to, y)
    BY <2>3, <2>5, <2>6 DEF Flood, Send
  <2>8. \A q \in to \cap Node : Leads(rt, n, q, y)
    BY <1>11, <1>13, <2>5 DEF Leads
  <2>9. QED
    BY <1>1, <1>8, <2>3, <2>6, <2>7, <2>8, GuidesSame
<1>14. QED
  BY <1>10, <1>12, <1>13

-----------------------------------------------------------------------------
(***************************************************************************)
(* All steps guide.                                                        *)
(***************************************************************************)
LEMMA HandlersGuide ==
  ASSUME Steady, Ready, Guiding, ShortAnswers, NEW l \in Link, Handle(l)
  PROVE  Guides(l)
<1>1. ~HandleReset(l)
  BY NeverHappens DEF Steady, Ready
<1>2. CASE HandleServer(l)
  BY <1>1, <1>2, ServerSendGuides, BroadcastGuides, ContestGuides DEF HandleServer
<1>3. CASE HandleNode(l)
  BY <1>3, NodeSendGuides, RouteDirectGuides, RouteInverseGuides, ContestGuides DEF HandleNode
<1>4. QED
  BY <1>2, <1>3 DEF Handle

\* At the start nobody knows a way and nothing is under way.
LEMMA InitGuiding == Init => Guiding
<1> SUFFICES ASSUME Init PROVE Guiding
  OBVIOUS
<1>1. LeadsOn(routing)
  BY DEF Init, LeadsOn, routing_table_fill_default, NoRoute
<1>2. NetGuided
  <2>1. \A l \in Link : Len(net[l]) = 0
    BY DEF Init
  <2>2. QED
    BY <2>1 DEF NetGuided
<1>3. QED
  BY <1>1, <1>2 DEF Guiding

\* The server hands a request to its sender.
LEMMA RequestGuiding ==
  ASSUME Ready, Guiding, NEW r \in Requests, NEW g \in Uninitialised, ClientRequest(r, g)
  PROVE  Guiding'
<1>1. PICK msg : /\ Exchange(Server, {}, {r.sender} \cap Node, msg)
                 /\ \A q \in Node : /\ msg[q].req = r.cmd /\ msg[q].sender = r.sender
                                    /\ msg[q].app.uid = Len(issued) + 1
  BY RequestSends
<1>2. routing' = routing
  BY DEF ClientRequest, nodeVars
<1>3. PICK to : to = {r.sender} \cap Node
  OBVIOUS
<1>4. PICK from \in SUBSET Link : from = {}
  OBVIOUS
<1>5. Exchange(Server, from, to, msg)
  BY <1>1, <1>3, <1>4
<1>6. ASSUME NEW k \in Link, NEW i \in 1 .. Len(net'[k])
      PROVE  Guided(routing', k[1], k[2], net'[k][i])
  <2>1. Stayed(from, k, i) \/ Added(Server, to, msg, k, i)
    BY <1>4, <1>5, Arrives DEF Ready
  <2>2. CASE Stayed(from, k, i)
    BY <1>2, <1>4, <2>2 DEF Stayed, Guiding, NetGuided
  <2>3. CASE Added(Server, to, msg, k, i)
    <3>1. PICK y : y = net'[k][i] /\ y = msg[k[2]] /\ k[1] = Server /\ k[2] \in to
      BY <2>3, ReachedFacts DEF Added
    <3>2. y.sender = k[2]
      BY <1>1, <1>3, <3>1
    <3>3. QED
      BY <3>1, <3>2 DEF Guided
  <2>4. QED
    BY <2>1, <2>2, <2>3
<1>7. QED
  BY <1>2, <1>6 DEF Guiding, NetGuided

LEMMA NextGuiding ==
  ASSUME Steady, Ready, Guiding, ShortAnswers, [Next]_vars
  PROVE  Guiding'
<1>1. ASSUME NEW l \in Link, Handle(l)
      PROVE  Guiding'
  <2>1. net[l] # << >>
    BY <1>1, HandlersDo DEF Does, Puts
  <2>2. Guides(l)
    BY <1>1, HandlersGuide
  <2>3. IInv
    BY DEF Ready
  <2>4. QED
    BY <2>1, <2>2, <2>3, GuidesKeep
<1>2. ASSUME NEW r \in Requests, NEW g \in Uninitialised, ClientRequest(r, g)
      PROVE  Guiding'
  BY <1>2, RequestGuiding
<1>3. CASE UNCHANGED vars
  <2>1. routing' = routing /\ net' = net
    BY <1>3 DEF vars, nodeVars
  <2>2. QED
    BY <2>1 DEF Guiding, NetGuided
<1>4. QED
  BY <1>1, <1>2, <1>3, SteadySteps

\* Who knows the way to another node has it in the table.
LEMMA GuidingLeads ==
  ASSUME IInv, Guiding
  PROVE  NoBlackHole
<1> SUFFICES ASSUME NEW n \in Node, NEW d \in Node, NEW a, a = routing[n][d].addr,
                    a # UINT8_MAX, a # d
             PROVE  routing[a][d].addr # UINT8_MAX
  BY DEF NoBlackHole
<1>1. Knows(routing, a, d)
  BY DEF Guiding, LeadsOn
<1>2. QED
  BY <1>1 DEF Knows, routing_next_addr, routing_get

(***************************************************************************)
(* In a mesh of any size in which nobody dies, a route never leads to a    *)
(* node that knows no way on, as long as no answer comes such a long way   *)
(* that its metric wraps: send_next always finds an entry, so the flood of *)
(* handle_node_send is never begun.                                        *)
(***************************************************************************)
THEOREM RoutesLeadOn ==
  ASSUME Steady
  PROVE  Spec /\ []ShortAnswers => []NoBlackHole
<1>1. Spec => []Ready
  BY OrderlyInvariance
<1>2. Ready /\ Guiding /\ ShortAnswers /\ [Next]_vars => Guiding'
  BY NextGuiding
<1>3. Ready /\ Guiding => NoBlackHole
  BY GuidingLeads DEF Ready
<1>4. QED
  BY <1>1, <1>2, <1>3, InitGuiding, PTL DEF Spec
=============================================================================
