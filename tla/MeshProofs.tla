----------------------------- MODULE MeshProofs -----------------------------
(***************************************************************************)
(* What holds of Mesh for every size of the mesh, every radius, every set  *)
(* of requests and any number of resets, kills and restarts.               *)
(*                                                                         *)
(* The routing tables are in order because every flood and every answer    *)
(* names the neighbour it comes from; that is a property of the messages   *)
(* under way, and what a node writes is in order only because its table    *)
(* is.  So the inductive invariant IInv relates them: LinksCarry for the   *)
(* messages, NextHopIsNeighbour for the tables, ConnectsToNeighbours for   *)
(* the connections, and the types.                                         *)
(***************************************************************************)
EXTENDS Mesh, TLAPS

-----------------------------------------------------------------------------
\* Addresses of nodes fit into a uint8_t, and neither UINT8_MAX nor the
\* server is one of them.
LEMMA NodeFacts ==
  /\ NODE_COUNT \in Nat /\ NODE_COUNT <= 255
  /\ Node \subseteq Addr
  /\ Node \subseteq Int
  /\ UINT8_MAX \notin Node
  /\ Server \notin Node
  /\ Server \in Peer
BY GridAssumption DEF NODE_COUNT, Node, Addr, UINT8_MAX, Server, Peer

\* Rows and columns are integers.
LEMMA RowColInt ==
  \A a \in Node : row(a) \in Int /\ col(a) \in Int
BY NodeFacts, GridAssumption DEF row, col

\* Who is in reach of a node has the node in reach
\* (fill_broadcast_neighbors is symmetric).
LEMMA NeighbourSymmetry ==
  ASSUME NEW a \in Node, NEW b \in Node
  PROVE  b \in Neighbours(a) <=> a \in Neighbours(b)
<1> DEFINE di == row(b) - row(a)
           dj == col(b) - col(a)
<1>1. /\ row(a) \in Int /\ row(b) \in Int /\ col(a) \in Int /\ col(b) \in Int
      /\ BROADCAST_RADIUS \in Int
  BY RowColInt, GridAssumption
<1>2. di \in Int /\ dj \in Int /\ row(a) - row(b) = -di /\ col(a) - col(b) = -dj
  BY <1>1
<1> HIDE DEF di, dj
<1>3. InReach(di, dj) <=> InReach(-di, -dj)
  BY <1>1, <1>2 DEF InReach
<1>4. QED
  BY <1>2, <1>3 DEF Neighbours, di, dj

\* TTL and 0 fit into an int8_t.
LEMMA Int8Facts == 0 \in Int8 /\ TTL \in Int8 /\ Int8 \subseteq Int
BY MeshAssumption DEF Int8

\* Storing an int in an int8_t gives an int8_t.
LEMMA ToInt8Type == \A x \in Int : ToInt8(x) \in Int8
BY DEF ToInt8, Int8

-----------------------------------------------------------------------------
\* A process starts with a proper message table.
LEMMA NewTableType == NewTable \in MessageTable
BY MessageDataAssumption
   DEF NewTable, MessageTable, Entered, message_data, MessageId, UINT16_MAX

\* fill_messages_default leaves a proper message table.
LEMMA FillDefaultType ==
  ASSUME NEW t \in MessageTable
  PROVE  fill_messages_default(t) \in MessageTable
BY NewTableType DEF fill_messages_default, MessageTable

\* Writing an entry leaves a proper message table.
LEMMA PutType ==
  ASSUME NEW t \in MessageTable, NEW i \in Entry, NEW e \in message_data
  PROVE  Put(t, i, e) \in MessageTable
BY MessageDataAssumption DEF Put, MessageTable, Entry

\* set_new_id never writes outside messages[MAX_MESSAGE_DATA].
LEMMA SetNewIdType ==
  ASSUME NEW t \in MessageTable, NEW id \in MessageId
  PROVE  set_new_id(t, id) \in MessageTable
<1>1. CASE t.message_num = MAX_MESSAGE_DATA
  <2>1. 0 \in Entry /\ Entered(id) \in message_data
    BY MessageDataAssumption DEF Entry, Entered, message_data
  <2>2. QED
    BY <1>1, <2>1, PutType DEF set_new_id
<1>2. CASE t.message_num # MAX_MESSAGE_DATA
  <2>1. t.message_num \in Entry
    BY <1>2, MessageDataAssumption DEF MessageTable, Entry
  <2>2. t.messages[t.message_num] \in message_data
    BY <2>1 DEF MessageTable
  <2>3. [id |-> id, flags |-> t.messages[t.message_num].flags] \in message_data
    BY <2>2 DEF message_data
  <2>4. QED
    BY <1>2, <2>1, <2>3, PutType DEF set_new_id
<1>3. QED
  BY <1>1, <1>2

\* The getters leave a proper message table.
LEMMA LookedType ==
  ASSUME NEW t \in MessageTable, NEW id \in MessageId
  PROVE  Looked(t, id) \in MessageTable
BY SetNewIdType DEF Looked

\* Setting a flag leaves a proper message table.
LEMMA SetFlagType ==
  ASSUME NEW t \in MessageTable, NEW id \in MessageId, NEW flag \in Flags
  PROVE  SetFlag(t, id, flag) \in MessageTable
<1>1. \A i \in Entry : t.messages[i] \in message_data
  BY DEF MessageTable
<1>2. \A i \in Entry :
        [id |-> id, flags |-> t.messages[i].flags \cup {flag}] \in message_data
  BY <1>1 DEF message_data
<1>3. QED
  BY <1>1, <1>2 DEF SetFlag, MessageTable

\* The setters leave a proper message table.
LEMMA SettersType ==
  ASSUME NEW t \in MessageTable, NEW id \in MessageId
  PROVE  /\ set_inverse_by_id(t, id) \in MessageTable
         /\ set_was_message_by_id(t, id) \in MessageTable
         /\ set_unicast_status_by_id(t, id) \in MessageTable
BY LookedType, SetFlagType
   DEF set_inverse_by_id, set_was_message_by_id, set_unicast_status_by_id, Flags

\* After a getter the id is in the table, so the branches of the setters for
\* an id that is not there are never taken.
LEMMA KnownAfterLook ==
  ASSUME NEW t \in MessageTable, NEW id \in MessageId
  PROVE  is_id_set(Looked(t, id), id)
<1>1. CASE is_id_set(t, id)
  BY <1>1 DEF Looked
<1>2. ASSUME NEW i \in Entry, NEW e \in message_data, e.id = id
      PROVE  is_id_set(Put(t, i, e), id)
  <2>1. i < i + 1
    BY MessageDataAssumption DEF Entry
  <2>2. Put(t, i, e).message_num = i + 1 /\ Put(t, i, e).messages[i] = e
    BY DEF Put, MessageTable
  <2>3. QED
    BY <1>2, <2>1, <2>2 DEF is_id_set, Matches
<1>3. CASE ~is_id_set(t, id) /\ t.message_num = MAX_MESSAGE_DATA
  <2>1. 0 \in Entry /\ Entered(id) \in message_data /\ Entered(id).id = id
    BY MessageDataAssumption DEF Entry, Entered, message_data
  <2>2. QED
    BY <1>2, <1>3, <2>1 DEF Looked, set_new_id
<1>4. CASE ~is_id_set(t, id) /\ t.message_num # MAX_MESSAGE_DATA
  <2> DEFINE e == [id |-> id, flags |-> t.messages[t.message_num].flags]
  <2>1. t.message_num \in Entry
    BY <1>4, MessageDataAssumption DEF MessageTable, Entry
  <2>2. t.messages[t.message_num] \in message_data
    BY <2>1 DEF MessageTable
  <2>3. e \in message_data /\ e.id = id
    BY <2>2 DEF message_data
  <2>4. QED
    BY <1>2, <1>4, <2>1, <2>3 DEF Looked, set_new_id
<1>5. QED
  BY <1>1, <1>3, <1>4

-----------------------------------------------------------------------------
\* routing_table_fill_default makes a proper routing table.
LEMMA NoRouteType ==
  routing_table_fill_default \in RoutingTable
BY DEF routing_table_fill_default, RoutingTable, NoRoute, Addr, UINT8_MAX, Int8

\* routing_set_addr leaves a proper routing table.
LEMMA RoutingSetType ==
  ASSUME NEW rt \in RoutingTable, NEW d, NEW a \in Addr, NEW m \in Int8
  PROVE  routing_set_addr(rt, d, a, m) \in RoutingTable
<1>1. [addr |-> a, metric |-> m] \in [addr : Addr, metric : Int8]
  OBVIOUS
<1>2. QED
  BY <1>1 DEF routing_set_addr, RoutingTable

\* routing_del leaves a proper routing table.
LEMMA RoutingDelType ==
  ASSUME NEW rt \in RoutingTable, NEW d
  PROVE  routing_del(rt, d) \in RoutingTable
<1>1. UINT8_MAX \in Addr
  BY DEF UINT8_MAX, Addr
<1>2. QED
  BY <1>1, RoutingSetType, Int8Facts DEF routing_del

\* routing_next_addr returns a uint8_t, for any destination.
LEMMA NextAddrType ==
  ASSUME NEW rt \in RoutingTable, NEW d
  PROVE  routing_next_addr(rt, d) \in Addr
BY DEF routing_next_addr, routing_get, RoutingTable, NoRoute, Addr, UINT8_MAX

\* The routes of node n, all of them to nodes in reach.
Routes(n) ==
  {rt \in RoutingTable :
     \A d \in Node : rt[d].addr \in Neighbours(n) \cup {UINT8_MAX}}

\* An empty routing table has no route out of reach.
LEMMA NoRoutesGood ==
  ASSUME NEW n \in Node
  PROVE  routing_table_fill_default \in Routes(n)
BY NoRouteType DEF Routes, routing_table_fill_default, NoRoute

\* Entering a node in reach keeps all routes within reach.
LEMMA RoutingSetGood ==
  ASSUME NEW n \in Node, NEW rt \in Routes(n), NEW d,
         NEW a \in Neighbours(n) \cup {UINT8_MAX}, NEW m \in Int8
  PROVE  routing_set_addr(rt, d, a, m) \in Routes(n)
<1>1. a \in Addr
  BY NodeFacts DEF Neighbours, Addr, UINT8_MAX
<1>2. rt \in RoutingTable
  BY DEF Routes
<1>3. routing_set_addr(rt, d, a, m) \in RoutingTable
  BY <1>1, <1>2, RoutingSetType
<1>4. ASSUME NEW e \in Node
      PROVE  routing_set_addr(rt, d, a, m)[e].addr
               \in Neighbours(n) \cup {UINT8_MAX}
  BY <1>2 DEF routing_set_addr, Routes, RoutingTable
<1>5. QED
  BY <1>3, <1>4 DEF Routes

\* routing_del keeps all routes within reach.
LEMMA RoutingDelGood ==
  ASSUME NEW n \in Node, NEW rt \in Routes(n), NEW d
  PROVE  routing_del(rt, d) \in Routes(n)
BY RoutingSetGood, Int8Facts DEF routing_del

\* What routing_next_addr finds is in reach.
LEMMA NextAddrGood ==
  ASSUME NEW n \in Node, NEW rt \in Routes(n), NEW d,
         routing_next_addr(rt, d) # UINT8_MAX
  PROVE  routing_next_addr(rt, d) \in Neighbours(n)
BY DEF routing_next_addr, routing_get, Routes, NoRoute

\* The metric fits into an int8_t, overflow included.
LEMMA MetricType ==
  ASSUME NEW p \in node_packet
  PROVE  new_metric(p) \in Int8
<1>1. p.ttl \in Int /\ TTL \in Int
  BY Int8Facts DEF node_packet
<1>2. QED
  BY <1>1, ToInt8Type DEF new_metric

\* What a flood or an answer teaches keeps all routes within reach, if its
\* local_sender_addr is in reach.
LEMMA LearnGood ==
  ASSUME NEW n \in Node, NEW rt \in Routes(n), NEW p \in node_packet,
         p.local \in Neighbours(n)
  PROVE  /\ LearnDirect(rt, p) \in Routes(n)
         /\ LearnInverse(rt, p) \in Routes(n)
BY MetricType, RoutingSetGood DEF LearnDirect, LearnInverse

-----------------------------------------------------------------------------
\* A packet whose checksum was just computed is valid.
LEMMA WithCrcType ==
  ASSUME NEW p \in node_packet
  PROVE  /\ WithCrc(p) \in node_packet
         /\ is_valid_crc(WithCrc(p))
         /\ WithCrc(p).req = p.req
         /\ WithCrc(p).local = p.local
<1>1. packet_crc(p) \in Checksum
  BY DEF packet_crc, Checksum, node_packet
<1>2. WithCrc(p) \in node_packet
  BY <1>1 DEF WithCrc, node_packet
<1>3. QED
  BY <1>2 DEF WithCrc, is_valid_crc, packet_crc, node_packet

\* node_app_setup_delivery makes a proper payload.
LEMMA SetupType ==
  ASSUME NEW a \in AppPayload
  PROVE  node_app_setup_delivery(a) \in AppPayload
BY DEF node_app_setup_delivery, AppPayload, MsgForm

\* broadcast_route sends a valid ROUTE_DIRECT that keeps local_sender_addr.
LEMMA BroadcastRouteType ==
  ASSUME NEW p \in node_packet
  PROVE  /\ broadcast_route(p) \in node_packet
         /\ is_valid_crc(broadcast_route(p))
         /\ broadcast_route(p).req = "ROUTE_DIRECT"
         /\ broadcast_route(p).local = p.local
<1> DEFINE q == [p EXCEPT !.req = "ROUTE_DIRECT", !.ttl = ToInt8(p.ttl - 1)]
<1>1. ToInt8(p.ttl - 1) \in Int8
  <2>1. p.ttl \in Int
    BY Int8Facts DEF node_packet
  <2>2. QED
    BY <2>1, ToInt8Type
<1>2. q \in node_packet /\ q.req = "ROUTE_DIRECT" /\ q.local = p.local
  BY <1>1 DEF node_packet, PacketReq
<1> HIDE DEF q
<1>3. QED
  BY <1>2, WithCrcType DEF broadcast_route, q

\* The request of a message tells its structure.
LEMMA PacketOf ==
  ASSUME NEW x \in Message
  PROVE  /\ x.req \in PacketReq => x \in node_packet
         /\ x.req \in {"UNICAST_CONTEST", "UNICAST_FIRST"}
              => x \in unicast_contest
BY DEF Message, node_packet, unicast_contest, PacketReq

-----------------------------------------------------------------------------
\* The ends of a link.
LEMMA LinkFacts ==
  ASSUME NEW l \in Link
  PROVE  /\ l[1] \in Peer /\ l[2] \in Node /\ l[3] \in Gen
         /\ l[1] # Server => l[1] \in Node
BY DEF Link, Peer

\* What the network, the connections and the processes satisfy.
NetInv ==
  /\ proc \in [Peer -> {"up", "term", "down"}]
  /\ conn \in [Peer -> [Peer -> ConnState]]
  /\ gen \in [Peer -> Gen]
  /\ net \in [Link -> Seq(Message)]
  /\ LinksCarry
  /\ ConnectsToNeighbours

\* The peers process p ever writes to.
Partners(p) == IF p = Server THEN Node ELSE Neighbours(p) \cup {Server}

\* Data reaches only peers that were written to.
LEMMA ReachedFacts ==
  ASSUME NEW p, NEW to
  PROVE  Reached(p, to) \subseteq to /\ Attempted(p, to) \subseteq to
BY DEF Reached, Attempted

\* The death of a process opens no connection.
LEMMA HungUpType ==
  ASSUME NEW c \in [Peer -> [Peer -> ConnState]], NEW n \in Peer, NEW u
  PROVE  /\ HungUp(c, n, u) \in [Peer -> [Peer -> ConnState]]
         /\ \A p \in Peer, q \in Peer :
              HungUp(c, n, u)[p][q] # "none" => c[p][q] # "none"
BY DEF HungUp, ConnState

\* Writing opens connections only to peers that are written to.
LEMMA ConnAfterType ==
  ASSUME NetInv, NEW p \in Peer, NEW to \in SUBSET Partners(p)
  PROVE  /\ ConnAfter(p, to) \in [Peer -> ConnState]
         /\ \A q \in Peer : ConnAfter(p, to)[q] # "none"
                              => conn[p][q] # "none" \/ q \in to
<1>1. conn[p] \in [Peer -> ConnState]
  BY DEF NetInv
<1>2. QED
  BY <1>1, ReachedFacts DEF ConnAfter, ConnState

\* Taking from and adding to a queue.
LEMMA SeqFacts ==
  ASSUME NEW S, NEW s \in Seq(S)
  PROVE  /\ s # << >> => Head(s) \in S /\ Tail(s) \in Seq(S)
         /\ \A x \in S : Append(s, x) \in Seq(S)
         /\ << >> \in Seq(S)
OBVIOUS

\* Exchange keeps the network in order if all that is written may be carried.
LEMMA ExchangeGood ==
  ASSUME NetInv,
         NEW p \in Peer, NEW from \in SUBSET Link, NEW to \in SUBSET Partners(p),
         NEW msg,
         \A l \in from : net[l] # << >>,
         \A l \in Link : l[1] = p /\ l[2] \in to => msg[l[2]] \in Carried(l),
         Exchange(p, from, to, msg), UNCHANGED gen
  PROVE  NetInv'
<1> DEFINE left == [l \in Link |-> IF l \in from THEN Tail(net[l]) ELSE net[l]]
           sent == [l \in Link |->
                      IF l[1] = p /\ l[2] \in Reached(p, to) /\ l[3] = gen[p]
                      THEN Append(left[l], msg[l[2]]) ELSE left[l]]
           wrote == [conn EXCEPT ![p] = ConnAfter(p, to)]
<1>1. \A l \in Link : left[l] \in Seq(Carried(l))
  BY SeqFacts DEF NetInv, LinksCarry
<1>2. \A l \in Link : sent[l] \in Seq(Carried(l))
  BY <1>1, SeqFacts, ReachedFacts
<1>3. /\ wrote \in [Peer -> [Peer -> ConnState]]
      /\ \A n \in Node : {q \in Peer : wrote[n][q] # "none"}
                           \subseteq Neighbours(n) \cup {Server}
  <2>1. wrote \in [Peer -> [Peer -> ConnState]]
    BY ConnAfterType DEF NetInv
  <2>2. ASSUME NEW n \in Node, NEW q \in Peer, wrote[n][q] # "none"
        PROVE  q \in Neighbours(n) \cup {Server}
    <3>1. CASE n = p
      <4>1. ConnAfter(p, to)[q] # "none"
        BY <2>2, <3>1 DEF NetInv
      <4>2. conn[p][q] # "none" \/ q \in to
        BY <4>1, ConnAfterType
      <4>3. QED
        BY <3>1, <4>2, NodeFacts DEF NetInv, ConnectsToNeighbours, Partners
    <3>2. CASE n # p
      BY <2>2, <3>2 DEF NetInv, ConnectsToNeighbours, Peer
    <3>3. QED
      BY <3>1, <3>2
  <2>3. QED
    BY <2>1, <2>2
<1> HIDE DEF left, sent, wrote
<1>4. /\ net' \in [Link -> Seq(Message)]
      /\ \A l \in Link : net'[l] \in Seq(Carried(l))
  <2>1. \/ net' = sent
        \/ net' = [l \in Link |-> IF l[2] = p THEN << >> ELSE sent[l]]
    BY DEF Exchange, left, sent
  <2>2. sent = [l \in Link |-> sent[l]]
    BY DEF sent
  <2>3. \A l \in Link : net'[l] \in Seq(Carried(l))
    BY <1>2, <2>1, <2>2, SeqFacts
  <2>4. \A l \in Link : Seq(Carried(l)) \subseteq Seq(Message)
    BY DEF Carried
  <2>5. net' = [l \in Link |-> net'[l]]
    BY <2>1, <2>2
  <2>6. QED
    BY <2>3, <2>4, <2>5
<1>5. /\ conn' \in [Peer -> [Peer -> ConnState]]
      /\ \A n \in Node : {q \in Peer : conn'[n][q] # "none"}
                           \subseteq Neighbours(n) \cup {Server}
  <2>1. conn' = wrote \/ conn' = HungUp(wrote, p, sent)
    BY DEF Exchange, left, sent, wrote
  <2>2. Node \subseteq Peer
    BY DEF Peer
  <2>3. QED
    BY <1>3, <2>1, <2>2, HungUpType
<1>6. proc' \in [Peer -> {"up", "term", "down"}]
  BY DEF Exchange, NetInv
<1>7. gen' \in [Peer -> Gen]
  BY DEF NetInv
<1>8. QED
  BY <1>4, <1>5, <1>6, <1>7 DEF NetInv, LinksCarry, ConnectsToNeighbours

-----------------------------------------------------------------------------
\* What the tables of the nodes satisfy.
TableInv ==
  /\ routing \in [Node -> RoutingTable]
  /\ NextHopIsNeighbour
  /\ messages \in [Node -> MessageTable]

\* What the server's counter, the history and the bounds satisfy.
HistoryInv ==
  /\ app_msg_id \in MessageId
  /\ issued \in Seq(Requests) /\ Len(issued) <= MaxRequests
  /\ handled \in [Uid -> [Node -> 0 .. 2]]
  /\ notes \in [Uid -> SUBSET {"GOT", "FAIL"}]
  /\ resets \in Nat /\ kills \in Nat /\ revives \in Nat

IInv == NetInv /\ TableInv /\ HistoryInv

\* In the invariant the table of every node holds routes of that node.
LEMMA RoutesOfNode ==
  ASSUME TableInv, NEW n \in Node
  PROVE  routing[n] \in Routes(n) /\ messages[n] \in MessageTable
BY DEF TableInv, NextHopIsNeighbour, Routes

\* Replacing the tables of one node by good ones keeps TableInv.
LEMMA UpdateGood ==
  ASSUME TableInv, NEW n \in Node, NEW rt \in Routes(n),
         NEW tbl \in MessageTable, Update(n, rt, tbl)
  PROVE  TableInv'
<1>1. /\ routing' \in [Node -> RoutingTable]
      /\ messages' \in [Node -> MessageTable]
  BY DEF Update, TableInv, Routes
<1>2. ASSUME NEW m \in Node, NEW d \in Node
      PROVE  routing'[m][d].addr \in Neighbours(m) \cup {UINT8_MAX}
  <2>1. CASE m = n
    BY <2>1 DEF Update, TableInv, Routes
  <2>2. CASE m # n
    BY <2>2 DEF Update, TableInv, NextHopIsNeighbour
  <2>3. QED
    BY <2>1, <2>2
<1>3. QED
  BY <1>1, <1>2 DEF TableInv, NextHopIsNeighbour

\* The history keeps its type when the apps of a node get a payload.
LEMMA AccountType ==
  ASSUME HistoryInv, NEW n \in Node, NEW to, NEW a \in AppPayload, NEW accepted,
         NEW kinds \in SUBSET {"GOT", "FAIL"},
         Account(n, to, a, accepted, kinds)
  PROVE  /\ handled' \in [Uid -> [Node -> 0 .. 2]]
         /\ notes' \in [Uid -> SUBSET {"GOT", "FAIL"}]
<1>1. a.uid \in Uid
  BY DEF AppPayload
<1>2. handled' \in [Uid -> [Node -> 0 .. 2]]
  <2>1. CASE accepted /\ handled[a.uid][n] < 2
    <3>1. handled[a.uid][n] + 1 \in 0 .. 2
      BY <1>1, <2>1 DEF HistoryInv
    <3>2. QED
      BY <1>1, <2>1, <3>1 DEF Account, HistoryInv
  <2>2. CASE ~(accepted /\ handled[a.uid][n] < 2)
    BY <2>2 DEF Account, HistoryInv
  <2>3. QED
    BY <2>1, <2>2
<1>3. notes' \in [Uid -> SUBSET {"GOT", "FAIL"}]
  BY <1>1 DEF Account, HistoryInv
<1>4. QED
  BY <1>2, <1>3

\* A handler that leaves the history alone keeps HistoryInv.
LEMMA HistoryKept ==
  ASSUME HistoryInv, UNCHANGED <<handled, notes>>, Frame
  PROVE  HistoryInv'
BY DEF HistoryInv, Frame, boundVars

\* A handler that offers a payload to the apps keeps HistoryInv.
LEMMA HistoryAccounted ==
  ASSUME HistoryInv, NEW n \in Node, NEW to, NEW a \in AppPayload, NEW accepted,
         NEW kinds \in SUBSET {"GOT", "FAIL"},
         Account(n, to, a, accepted, kinds), Frame
  PROVE  HistoryInv'
BY AccountType DEF HistoryInv, Frame, boundVars

\* What a handler finds at the head of a link.
LEMMA HeadFacts ==
  ASSUME NetInv, NEW l \in Link, net[l] # << >>
  PROVE  /\ Head(net[l]) \in Carried(l)
         /\ Head(net[l]) \in Message
         /\ l[2] \in Node /\ l[2] \in Peer
BY SeqFacts, LinkFacts DEF NetInv, LinksCarry, Carried, Peer

\* What node n may write to a node in reach.
LEMMA NodeMayWrite ==
  ASSUME NEW n \in Node, NEW k \in Link, k[1] = n, k[2] \in Neighbours(n),
         NEW x \in Message,
         x.req \in {"ROUTE_DIRECT", "ROUTE_INVERSE"} => x.local = n,
         x.req \in {"UNICAST_CONTEST", "UNICAST_FIRST"} => x.node_addr = n,
         x.req \in {"SEND", "ROUTE_DIRECT", "ROUTE_INVERSE"} => is_valid_crc(x)
  PROVE  x \in Carried(k)
BY NeighbourSymmetry, NodeFacts, LinkFacts DEF Carried

\* Taking a message without writing keeps NetInv.
LEMMA DiscardGood ==
  ASSUME NetInv, NEW l \in Link, net[l] # << >>, Discard(l[2], l), Frame
  PROVE  NetInv'
<1>1. l[2] \in Peer
  BY HeadFacts
<1>2. QED
  BY <1>1, ExchangeGood DEF Discard, Frame

\* Node l[2] sends x to nodes in reach, and perhaps notifies the server.
LEMMA SendGood ==
  ASSUME NetInv, NEW l \in Link, net[l] # << >>,
         NEW to \in SUBSET (Neighbours(l[2]) \cup {Server}), NEW x,
         \A k \in Link : k[1] = l[2] /\ k[2] \in to => x \in Carried(k),
         Send(l[2], l, to, x), Frame
  PROVE  NetInv'
<1>1. l[2] \in Peer /\ l[2] # Server
  BY HeadFacts, NodeFacts
<1>2. to \in SUBSET Partners(l[2])
  BY <1>1 DEF Partners
<1>3. \A k \in Link : k[1] = l[2] /\ k[2] \in to
                        => [q \in Node |-> x][k[2]] \in Carried(k)
  BY LinkFacts
<1>4. QED
  BY <1>1, <1>2, <1>3, ExchangeGood DEF Send, Frame

\* The same for a packet with a good checksum.
LEMMA SendPacketGood ==
  ASSUME NetInv, NEW l \in Link, net[l] # << >>,
         NEW to \in SUBSET (Neighbours(l[2]) \cup {Server}),
         NEW x \in node_packet, is_valid_crc(x),
         x.req \in {"ROUTE_DIRECT", "ROUTE_INVERSE"} => x.local = l[2],
         Send(l[2], l, to, x), Frame
  PROVE  NetInv'
<1>1. l[2] \in Node
  BY HeadFacts
<1>2. x \in Message /\ x.req \in PacketReq
  BY DEF Message, node_packet
<1>3. x.req \notin {"UNICAST_CONTEST", "UNICAST_FIRST"}
  BY <1>2 DEF PacketReq
<1>4. ASSUME NEW k \in Link, k[1] = l[2], k[2] \in to
      PROVE  x \in Carried(k)
  <2>1. k[2] \in Neighbours(l[2])
    BY <1>4, LinkFacts, NodeFacts
  <2>2. QED
    BY <1>1, <1>2, <1>3, <1>4, <2>1, NodeMayWrite
<1>5. QED
  BY <1>4, SendGood

\* Flooding a packet that names the node as local sender keeps NetInv.
LEMMA FloodGood ==
  ASSUME NetInv, NEW l \in Link, net[l] # << >>,
         NEW p \in node_packet, p.local = l[2], Flood(l[2], l, p), Frame
  PROVE  NetInv'
<1>1. Send(l[2], l, Neighbours(l[2]), broadcast_route(p))
  BY DEF Flood, Send
<1>2. QED
  BY <1>1, BroadcastRouteType, SendPacketGood

-----------------------------------------------------------------------------
\* handle_server_send keeps the invariant.
LEMMA ServerSendKeeps ==
  ASSUME IInv, NEW l \in Link, HandleServerSend(l)
  PROVE  IInv'
<1> DEFINE n == l[2]
           p == Head(net[l])
           a == node_app_setup_delivery(p.app)
           next == routing_next_addr(routing[n], p.receiver)
<1>1. /\ net[l] # << >> /\ p.req = "SEND" /\ n \in Node
      /\ p \in node_packet /\ p.app \in AppPayload /\ a \in AppPayload
  <2>1. net[l] # << >> /\ p.req = "SEND"
    BY DEF HandleServerSend, Receives
  <2>2. p \in node_packet /\ n \in Node
    BY <2>1, HeadFacts, PacketOf DEF IInv, PacketReq
  <2>3. QED
    BY <2>1, <2>2, SetupType DEF node_packet
<1>2. TableInv'
  BY DEF HandleServerSend, nodeVars, IInv, TableInv, NextHopIsNeighbour
<1>3. Frame
  BY DEF HandleServerSend
<1>4. CASE ~is_valid_crc(p)
  BY <1>1, <1>2, <1>3, <1>4, DiscardGood, HistoryKept DEF HandleServerSend, IInv
<1>5. CASE is_valid_crc(p) /\ p.receiver = n
  <2>1. NetInv'
    BY <1>1, <1>3, <1>5, SendPacketGood DEF HandleServerSend, IInv
  <2>2. HistoryInv'
    BY <1>1, <1>3, <1>5, HistoryAccounted DEF HandleServerSend, IInv, Verdict
  <2>3. QED
    BY <1>2, <2>1, <2>2 DEF IInv
<1>6. CASE is_valid_crc(p) /\ p.receiver # n /\ next = UINT8_MAX
  <2> DEFINE f == [p EXCEPT !.app = a, !.local = n, !.ttl = TTL]
  <2>1. f \in node_packet /\ f.local = n
    BY <1>1, NodeFacts, Int8Facts DEF node_packet
  <2>2. Flood(n, l, f) /\ UNCHANGED <<handled, notes>>
    BY <1>6 DEF HandleServerSend
  <2>3. QED
    BY <1>1, <1>2, <1>3, <2>1, <2>2, FloodGood, HistoryKept DEF IInv
<1>7. CASE is_valid_crc(p) /\ p.receiver # n /\ next # UINT8_MAX
  <2> DEFINE f == [p EXCEPT !.app = a]
  <2>1. f \in node_packet /\ f.req = "SEND"
    BY <1>1 DEF node_packet
  <2>2. Send(n, l, {next}, WithCrc(f)) /\ UNCHANGED <<handled, notes>>
    BY <1>7 DEF HandleServerSend
  <2>3. next \in Neighbours(n)
    BY <1>1, <1>7, RoutesOfNode, NextAddrGood DEF IInv
  <2> HIDE DEF f, next
  <2>4. WithCrc(f) \in node_packet /\ is_valid_crc(WithCrc(f))
        /\ WithCrc(f).req = "SEND"
    BY <2>1, WithCrcType
  <2>5. NetInv'
    BY <1>1, <1>3, <2>2, <2>3, <2>4, SendPacketGood DEF IInv
  <2>6. QED
    BY <1>2, <1>3, <2>2, <2>5, HistoryKept DEF IInv
<1>8. QED
  BY <1>4, <1>5, <1>6, <1>7

\* handle_broadcast keeps the invariant.
LEMMA BroadcastKeeps ==
  ASSUME IInv, NEW l \in Link, HandleBroadcast(l)
  PROVE  IInv'
<1> DEFINE n == l[2]
           p == [Head(net[l]) EXCEPT !.req = "SEND",
                                     !.app = node_app_setup_delivery(@)]
           msg == [q \in Node |-> WithCrc([p EXCEPT !.receiver = q])]
<1>1. net[l] # << >> /\ Head(net[l]).req = "BROADCAST"
  BY DEF HandleBroadcast, Receives
<1>2. Head(net[l]) \in node_packet /\ n \in Node /\ n \in Peer
  BY <1>1, HeadFacts, PacketOf DEF IInv, PacketReq
<1>3. p \in node_packet /\ p.req = "SEND"
  BY <1>2, SetupType DEF node_packet, PacketReq
<1>4. Exchange(n, {l}, Neighbours(n), msg) /\ Frame
      /\ UNCHANGED <<nodeVars, handled, notes>>
  BY DEF HandleBroadcast
<1> HIDE DEF p
<1>5. ASSUME NEW q \in Node
      PROVE  msg[q] \in node_packet /\ is_valid_crc(msg[q]) /\ msg[q].req = "SEND"
  <2>1. [p EXCEPT !.receiver = q] \in node_packet
        /\ [p EXCEPT !.receiver = q].req = "SEND"
    BY <1>3, NodeFacts DEF node_packet
  <2>2. QED
    BY <2>1, WithCrcType
<1> HIDE DEF msg
<1>6. ASSUME NEW k \in Link, k[1] = n, k[2] \in Neighbours(n)
      PROVE  msg[k[2]] \in Carried(k)
  <2>1. k[2] \in Node
    BY LinkFacts
  <2>2. msg[k[2]] \in Message
    BY <1>5, <2>1 DEF Message
  <2>3. QED
    BY <1>2, <1>5, <1>6, <2>1, <2>2, NodeMayWrite
<1>7. NetInv'
  <2>1. Neighbours(n) \in SUBSET Partners(n)
    BY <1>2, NodeFacts DEF Partners
  <2>2. UNCHANGED gen
    BY <1>4 DEF Frame
  <2>3. QED
    BY <1>1, <1>2, <1>4, <1>6, <2>1, <2>2, ExchangeGood DEF IInv
<1>8. QED
  BY <1>4, <1>7, HistoryKept DEF IInv, TableInv, NextHopIsNeighbour, nodeVars

\* handle_server_unicast keeps the invariant.
LEMMA ServerUnicastKeeps ==
  ASSUME IInv, NEW l \in Link, HandleServerUnicast(l)
  PROVE  IInv'
<1> DEFINE n == l[2]
           x == [req |-> "UNICAST_CONTEST", node_addr |-> n,
                 app |-> node_app_setup_delivery(Head(net[l]).app)]
<1>1. net[l] # << >> /\ Head(net[l]).req = "UNICAST"
  BY DEF HandleServerUnicast, Receives
<1>2. Head(net[l]) \in node_packet /\ n \in Node
  BY <1>1, HeadFacts, PacketOf DEF IInv, PacketReq
<1>3. x \in Message /\ x.req = "UNICAST_CONTEST" /\ x.node_addr = n
  BY <1>2, SetupType, NodeFacts DEF node_packet, Message, unicast_contest
<1>4. Send(n, l, Neighbours(n), x) /\ Frame
      /\ UNCHANGED <<nodeVars, handled, notes>>
  BY DEF HandleServerUnicast
<1> HIDE DEF x
<1>5. NetInv'
  BY <1>1, <1>2, <1>3, <1>4, NodeMayWrite, SendGood DEF IInv
<1>6. QED
  BY <1>4, <1>5, HistoryKept DEF IInv, TableInv, NextHopIsNeighbour, nodeVars

\* handle_reset keeps the invariant.
LEMMA ResetKeeps ==
  ASSUME IInv, NEW l \in Link, HandleReset(l)
  PROVE  IInv'
<1> DEFINE n == l[2]
<1>1. net[l] # << >> /\ n \in Node /\ n \in Peer
  BY HeadFacts DEF HandleReset, Receives, IInv
<1>2. TableInv'
  BY <1>1, RoutesOfNode, NoRoutesGood, FillDefaultType, UpdateGood
     DEF HandleReset, IInv
<1>3. HistoryInv'
  BY DEF HandleReset, IInv, HistoryInv, historyVars, boundVars
<1>4. net' \in [Link -> Seq(Message)] /\ LinksCarry'
  <2>1. Tail(net[l]) \in Seq(Carried(l)) /\ Tail(net[l]) \in Seq(Message)
    BY <1>1, SeqFacts DEF IInv, NetInv, LinksCarry
  <2>2. QED
    BY <2>1 DEF HandleReset, IInv, NetInv, LinksCarry
<1>5. conn' \in [Peer -> [Peer -> ConnState]] /\ ConnectsToNeighbours'
  <2>1. conn' \in [Peer -> [Peer -> ConnState]]
    BY <1>1 DEF HandleReset, IInv, NetInv, ConnState
  <2>2. \A m \in Peer, q \in Peer : conn'[m][q] # "none" => conn[m][q] # "none"
    BY <1>1 DEF HandleReset, IInv, NetInv
  <2>3. QED
    BY <2>1, <2>2 DEF IInv, NetInv, ConnectsToNeighbours, Peer
<1>6. gen' \in [Peer -> Gen] /\ UNCHANGED proc
  BY <1>1 DEF HandleReset, IInv, NetInv
<1>7. QED
  BY <1>2, <1>3, <1>4, <1>5, <1>6 DEF IInv, NetInv

-----------------------------------------------------------------------------
\* handle_node_send with send_next keeps the invariant.
LEMMA NodeSendKeeps ==
  ASSUME IInv, NEW l \in Link, HandleNodeSend(l)
  PROVE  IInv'
<1> DEFINE n == l[2]
           p == Head(net[l])
           early == IF p.app.req_type = "UNICAST" THEN {"GOT"} ELSE {}
           next == routing_next_addr(routing[n], p.receiver)
<1>1. /\ net[l] # << >> /\ p.req = "SEND" /\ n \in Node
      /\ p \in node_packet /\ p.app \in AppPayload
  <2>1. net[l] # << >> /\ p.req = "SEND"
    BY DEF HandleNodeSend, Receives
  <2>2. p \in node_packet /\ n \in Node
    BY <2>1, HeadFacts, PacketOf DEF IInv, PacketReq
  <2>3. QED
    BY <2>1, <2>2 DEF node_packet
<1>2. TableInv'
  BY DEF HandleNodeSend, nodeVars, IInv, TableInv, NextHopIsNeighbour
<1>3. Frame
  BY DEF HandleNodeSend
<1>4. CASE ~is_valid_crc(p)
  BY <1>1, <1>2, <1>3, <1>4, DiscardGood, HistoryKept DEF HandleNodeSend, IInv
<1>5. CASE is_valid_crc(p) /\ p.receiver = n
  <2>1. NetInv'
    BY <1>1, <1>3, <1>5, SendPacketGood DEF HandleNodeSend, IInv
  <2>2. Account(n, {Server}, p.app, node_app_handle_request(p.app),
                early \cup {Verdict(p.app)})
    BY <1>5 DEF HandleNodeSend
  <2>3. early \cup {Verdict(p.app)} \in SUBSET {"GOT", "FAIL"}
    BY DEF Verdict
  <2>4. HistoryInv'
    BY <1>1, <1>3, <2>2, <2>3, HistoryAccounted DEF IInv
  <2>5. QED
    BY <1>2, <2>1, <2>4 DEF IInv
<1>6. CASE is_valid_crc(p) /\ p.receiver # n /\ next = UINT8_MAX
  <2> DEFINE f == [p EXCEPT !.local = n, !.ttl = TTL]
  <2>1. f \in node_packet /\ f.local = n
    BY <1>1, NodeFacts, Int8Facts DEF node_packet
  <2>2. Flood(n, l, f) /\ UNCHANGED <<handled, notes>>
    BY <1>6 DEF HandleNodeSend
  <2>3. QED
    BY <1>1, <1>2, <1>3, <2>1, <2>2, FloodGood, HistoryKept DEF IInv
<1>7. CASE is_valid_crc(p) /\ p.receiver # n /\ next # UINT8_MAX
  <2>1. Send(n, l, {next}, p) /\ UNCHANGED <<handled, notes>>
    BY <1>7 DEF HandleNodeSend
  <2>2. next \in Neighbours(n)
    BY <1>1, <1>7, RoutesOfNode, NextAddrGood DEF IInv
  <2> HIDE DEF next
  <2>3. NetInv'
    BY <1>1, <1>3, <1>7, <2>1, <2>2, SendPacketGood DEF IInv
  <2>4. QED
    BY <1>2, <1>3, <2>1, <2>3, HistoryKept DEF IInv
<1>8. QED
  BY <1>4, <1>5, <1>6, <1>7

\* route_direct_handle_delivered keeps the invariant.
LEMMA DeliveredKeeps ==
  ASSUME IInv, NEW l \in Link, net[l] # << >>, NEW p \in node_packet,
         NEW rt \in Routes(l[2]), NEW tbl \in MessageTable,
         route_direct_handle_delivered(l[2], l, p, rt, tbl), Frame
  PROVE  IInv'
<1> DEFINE n    == l[2]
           next == routing_next_addr(rt, p.sender)
           back == WithCrc([p EXCEPT !.req = "ROUTE_INVERSE", !.ttl = TTL,
                                     !.local = n])
           done == set_inverse_by_id(tbl, p.app.id)
           again == get_inverse_by_id(tbl, p.app.id)
<1>1. n \in Node /\ p.app \in AppPayload /\ p.app.id \in MessageId
  BY HeadFacts DEF node_packet, AppPayload, IInv
<1>2. done \in MessageTable
  BY <1>1, SettersType
<1>3. /\ back \in node_packet /\ is_valid_crc(back)
      /\ back.local = n
  <2> DEFINE b == [p EXCEPT !.req = "ROUTE_INVERSE", !.ttl = TTL, !.local = n]
  <2>1. b \in node_packet /\ b.local = n
    BY <1>1, NodeFacts, Int8Facts DEF node_packet, PacketReq
  <2> HIDE DEF b
  <2>2. back = WithCrc(b)
    BY DEF b
  <2>3. QED
    BY <2>1, <2>2, WithCrcType
<1>4. next # UINT8_MAX => next \in Neighbours(n)
  BY <1>1, NextAddrGood
<1>5. \/ Discard(n, l) /\ Update(n, rt, tbl) /\ UNCHANGED <<handled, notes>>
      \/ Discard(n, l) /\ Update(n, rt, done) /\ UNCHANGED <<handled, notes>>
      \/ /\ next # UINT8_MAX
         /\ Send(n, l, {next, Server}, back)
         /\ Update(n, rt, done)
         /\ Account(n, {next, Server}, p.app, node_app_handle_request(p.app),
                    {Verdict(p.app)})
      \/ /\ next # UINT8_MAX
         /\ Send(n, l, {next}, back)
         /\ Update(n, routing_del(rt, p.sender), done)
         /\ UNCHANGED <<handled, notes>>
  BY DEF route_direct_handle_delivered
<1> HIDE DEF next, back, done
<1>6. TableInv'
  BY <1>1, <1>2, <1>5, RoutingDelGood, UpdateGood DEF IInv
<1>7. {Verdict(p.app)} \in SUBSET {"GOT", "FAIL"}
  BY DEF Verdict
<1>8. HistoryInv'
  BY <1>1, <1>5, <1>7, HistoryKept, HistoryAccounted DEF IInv
<1>9. NetInv'
  BY <1>3, <1>4, <1>5, DiscardGood, SendPacketGood DEF IInv
<1>10. QED
  BY <1>6, <1>8, <1>9 DEF IInv

\* handle_node_route_direct keeps the invariant.
LEMMA RouteDirectKeeps ==
  ASSUME IInv, NEW l \in Link, HandleRouteDirect(l)
  PROVE  IInv'
<1> DEFINE n == l[2]
           p == Head(net[l])
           tbl == set_was_message_by_id(messages[n], p.app.id)
           rt == LearnDirect(routing[n], p)
<1>1. net[l] # << >> /\ p.req = "ROUTE_DIRECT"
  BY DEF HandleRouteDirect, Receives
<1>2. /\ p \in node_packet /\ p.app.id \in MessageId /\ n \in Node
      /\ p.local \in Neighbours(n)
  <2>1. p \in Carried(l) /\ p \in Message /\ n \in Node
    BY <1>1, HeadFacts DEF IInv
  <2>2. p \in node_packet
    BY <1>1, <2>1, PacketOf DEF PacketReq
  <2>3. p.local \in Neighbours(n)
    BY <1>1, <2>1 DEF Carried
  <2>4. QED
    BY <2>1, <2>2, <2>3 DEF node_packet, AppPayload
<1>3. rt \in Routes(n) /\ tbl \in MessageTable
  BY <1>2, RoutesOfNode, LearnGood, SettersType DEF IInv
<1>4. Frame
  BY DEF HandleRouteDirect
<1>5. \/ Discard(n, l) /\ UNCHANGED <<nodeVars, handled, notes>>
      \/ route_direct_handle_delivered(n, l, p, rt, tbl)
      \/ /\ Flood(n, l, [p EXCEPT !.local = n])
         /\ Update(n, rt, tbl) /\ UNCHANGED <<handled, notes>>
  BY DEF HandleRouteDirect
<1>6. [p EXCEPT !.local = n] \in node_packet /\ [p EXCEPT !.local = n].local = n
  BY <1>2, NodeFacts DEF node_packet
<1> HIDE DEF p, rt, tbl
<1>7. CASE Discard(n, l) /\ UNCHANGED <<nodeVars, handled, notes>>
  BY <1>1, <1>4, <1>7, DiscardGood, HistoryKept
     DEF IInv, TableInv, NextHopIsNeighbour, nodeVars
<1>8. CASE route_direct_handle_delivered(n, l, p, rt, tbl)
  BY <1>1, <1>2, <1>3, <1>4, <1>8, DeliveredKeeps
<1>9. CASE /\ Flood(n, l, [p EXCEPT !.local = n])
           /\ Update(n, rt, tbl) /\ UNCHANGED <<handled, notes>>
  BY <1>1, <1>2, <1>3, <1>4, <1>6, <1>9, FloodGood, UpdateGood, HistoryKept
     DEF IInv
<1>10. QED
  BY <1>5, <1>7, <1>8, <1>9

\* handle_node_route_inverse keeps the invariant.
LEMMA RouteInverseKeeps ==
  ASSUME IInv, NEW l \in Link, HandleRouteInverse(l)
  PROVE  IInv'
<1> DEFINE n == l[2]
           p == Head(net[l])
           rt == LearnInverse(routing[n], p)
           next == routing_next_addr(rt, p.sender)
           on == WithCrc([p EXCEPT !.local = n, !.ttl = ToInt8(p.ttl - 1)])
<1>1. net[l] # << >> /\ p.req = "ROUTE_INVERSE"
  BY DEF HandleRouteInverse, Receives
<1>2. p \in node_packet /\ n \in Node /\ p.local \in Neighbours(n)
  <2>1. p \in Carried(l) /\ p \in Message /\ n \in Node
    BY <1>1, HeadFacts DEF IInv
  <2>2. p \in node_packet
    BY <1>1, <2>1, PacketOf DEF PacketReq
  <2>3. QED
    BY <1>1, <2>1, <2>2 DEF Carried
<1>3. rt \in Routes(n) /\ messages[n] \in MessageTable
  BY <1>2, RoutesOfNode, LearnGood DEF IInv
<1>4. on \in node_packet /\ is_valid_crc(on) /\ on.local = n
  <2> DEFINE o == [p EXCEPT !.local = n, !.ttl = ToInt8(p.ttl - 1)]
  <2>1. p.ttl \in Int
    BY <1>2, Int8Facts DEF node_packet
  <2>2. ToInt8(p.ttl - 1) \in Int8
    BY <2>1, ToInt8Type
  <2>3. o \in node_packet /\ o.local = n
    BY <1>2, <2>2, NodeFacts DEF node_packet
  <2> HIDE DEF o
  <2>4. on = WithCrc(o)
    BY DEF o
  <2>5. QED
    BY <2>3, <2>4, WithCrcType
<1>5. next # UINT8_MAX => next \in Neighbours(n)
  BY <1>2, <1>3, NextAddrGood
<1>6. /\ Frame /\ UNCHANGED <<messages, handled, notes>>
      /\ \/ Discard(n, l) /\ UNCHANGED routing
         \/ Discard(n, l) /\ routing' = [routing EXCEPT ![n] = rt]
         \/ /\ next # UINT8_MAX /\ Send(n, l, {next}, on)
            /\ \/ routing' = [routing EXCEPT ![n] = rt]
               \/ routing' = [routing EXCEPT ![n] = routing_del(rt, p.sender)]
  BY DEF HandleRouteInverse
<1> HIDE DEF next, on, rt
<1>7. NetInv'
  BY <1>1, <1>4, <1>5, <1>6, DiscardGood, SendPacketGood DEF IInv
<1>8. HistoryInv'
  BY <1>6, HistoryKept DEF IInv
<1>9. TableInv'
  <2>1. CASE UNCHANGED routing
    BY <1>6, <2>1 DEF IInv, TableInv, NextHopIsNeighbour
  <2>2. ASSUME NEW r \in Routes(n), routing' = [routing EXCEPT ![n] = r]
        PROVE  TableInv'
    <3>1. messages' = [messages EXCEPT ![n] = messages[n]]
      BY <1>2, <1>6 DEF IInv, TableInv
    <3>2. QED
      BY <1>2, <1>3, <2>2, <3>1, UpdateGood DEF IInv, Update
  <2>3. QED
    BY <1>2, <1>3, <1>6, <2>1, <2>2, RoutingDelGood
<1>10. QED
  BY <1>7, <1>8, <1>9 DEF IInv

\* handle_unicast_contest keeps the invariant.
LEMMA ContestKeeps ==
  ASSUME IInv, NEW l \in Link, HandleUnicastContest(l)
  PROVE  IInv'
<1> DEFINE n == l[2]
           u == Head(net[l])
           x == [u EXCEPT !.req = "UNICAST_FIRST", !.node_addr = n]
<1>1. net[l] # << >> /\ u.req = "UNICAST_CONTEST"
  BY DEF HandleUnicastContest, Receives
<1>2. u \in unicast_contest /\ n \in Node /\ u.node_addr \in Neighbours(n)
  <2>1. u \in Carried(l) /\ u \in Message /\ n \in Node
    BY <1>1, HeadFacts DEF IInv
  <2>2. QED
    BY <1>1, <2>1, PacketOf DEF Carried
<1>3. x \in Message /\ x.req = "UNICAST_FIRST" /\ x.node_addr = n
  BY <1>2, NodeFacts DEF Message, unicast_contest
<1>4. Send(n, l, {u.node_addr}, x) /\ Frame
      /\ UNCHANGED <<nodeVars, handled, notes>>
  BY DEF HandleUnicastContest
<1> HIDE DEF x, u
<1>5. NetInv'
  <2>1. ASSUME NEW k \in Link, k[1] = n, k[2] \in {u.node_addr}
        PROVE  x \in Carried(k)
    BY <1>2, <1>3, <2>1, NodeMayWrite
  <2>2. {u.node_addr} \in SUBSET (Neighbours(n) \cup {Server})
    BY <1>2
  <2>3. QED
    BY <1>1, <1>4, <2>1, <2>2, SendGood DEF IInv
<1>6. QED
  BY <1>4, <1>5, HistoryKept DEF IInv, TableInv, NextHopIsNeighbour, nodeVars

\* handle_unicast_first keeps the invariant.
LEMMA FirstKeeps ==
  ASSUME IInv, NEW l \in Link, HandleUnicastFirst(l)
  PROVE  IInv'
<1> DEFINE n == l[2]
           u == Head(net[l])
           s == [req |-> "SEND", sender |-> n, receiver |-> u.node_addr,
                 local |-> 0, ttl |-> 0, app |-> u.app, crc |-> << >>]
           tbl == set_unicast_status_by_id(messages[n], u.app.id)
<1>1. net[l] # << >> /\ u.req = "UNICAST_FIRST"
  BY DEF HandleUnicastFirst, Receives
<1>2. u \in unicast_contest /\ n \in Node /\ u.node_addr \in Neighbours(n)
  <2>1. u \in Carried(l) /\ u \in Message /\ n \in Node
    BY <1>1, HeadFacts DEF IInv
  <2>2. QED
    BY <1>1, <2>1, PacketOf DEF Carried
<1>3. s \in node_packet /\ s.req = "SEND"
  <2>1. 0 \in Addr
    BY DEF Addr, UINT8_MAX
  <2>2. QED
    BY <1>2, <2>1, NodeFacts, Int8Facts
       DEF node_packet, unicast_contest, PacketReq
<1>4. tbl \in MessageTable
  BY <1>2, RoutesOfNode, SettersType DEF IInv, unicast_contest, AppPayload
<1>5. /\ Discard(n, l) \/ Send(n, l, {u.node_addr}, WithCrc(s))
      /\ messages' = [messages EXCEPT ![n] = tbl]
      /\ UNCHANGED <<routing, handled, notes>> /\ Frame
  BY DEF HandleUnicastFirst, send_to_winner
<1> HIDE DEF u, s, tbl
<1>6. NetInv'
  <2>1. WithCrc(s) \in node_packet /\ is_valid_crc(WithCrc(s))
        /\ WithCrc(s).req = "SEND"
    BY <1>3, WithCrcType
  <2>2. QED
    BY <1>1, <1>2, <1>5, <2>1, DiscardGood, SendPacketGood DEF IInv
<1>7. TableInv'
  <2>1. routing' = [routing EXCEPT ![n] = routing[n]]
    BY <1>5 DEF IInv, TableInv
  <2>2. QED
    BY <1>2, <1>4, <1>5, <2>1, RoutesOfNode, UpdateGood DEF IInv, Update
<1>8. QED
  BY <1>5, <1>6, <1>7, HistoryKept DEF IInv

-----------------------------------------------------------------------------
\* The id after the last one is 0: app_msg_id is a uint16_t.
LEMMA NextIdType ==
  /\ 0 \in MessageId
  /\ \A i \in MessageId : (i + 1) % (UINT16_MAX + 1) \in MessageId
<1>1. UINT16_MAX \in Nat
  BY SMT DEF UINT16_MAX
<1>2. ASSUME NEW m \in Nat, NEW i \in 0 .. m
      PROVE  (i + 1) % (m + 1) \in 0 .. m
  BY SMT
<1>3. QED
  BY <1>1, <1>2, SMT DEF MessageId

\* A request of a client keeps the invariant.
LEMMA ClientRequestKeeps ==
  ASSUME IInv, NEW r \in Requests, NEW g \in Uninitialised, ClientRequest(r, g)
  PROVE  IInv'
<1> DEFINE a == [req_type |-> r.cmd, to |-> r.to, id |-> app_msg_id,
                 msg |-> r.msg, uid |-> Len(issued) + 1]
           p == [req |-> r.cmd, sender |-> r.sender,
                 receiver |-> IF r.cmd = "SEND" THEN r.receiver ELSE g,
                 local |-> g,
                 ttl |-> IF r.cmd = "SEND" THEN g ELSE BROADCAST_RADIUS,
                 app |-> a, crc |-> << >>]
           to == {r.sender} \cap Node
           msg == [q \in Node |-> IF r.cmd = "SEND" THEN WithCrc(p) ELSE p]
<1>1. r \in [cmd : ServerCmd, sender : Addr, receiver : Addr, to : Addr,
             msg : {"empty", "plain", "bulky"}]
  BY MeshAssumption
<1>2. Len(issued) \in Nat /\ Len(issued) + 1 \in Uid
  BY MeshAssumption DEF ClientRequest, IInv, HistoryInv, Uid
<1>3. g \in Addr /\ g \in Int8 /\ BROADCAST_RADIUS \in Int8
  BY MeshAssumption, GridAssumption DEF Addr, Int8, UINT8_MAX
<1>4. a \in AppPayload
  BY <1>1, <1>2 DEF AppPayload, MsgForm, IInv, HistoryInv
<1>5. p \in node_packet /\ p.req \in ServerCmd
  <2> HIDE DEF a
  <2>1. QED
    BY <1>1, <1>3, <1>4 DEF node_packet, PacketReq, ServerCmd
<1>6. /\ Exchange(Server, {}, to, msg) /\ UNCHANGED <<gen, nodeVars>>
      /\ issued' = Append(issued, r) /\ Len(issued) < MaxRequests
      /\ app_msg_id' = (app_msg_id + 1) % (UINT16_MAX + 1)
      /\ UNCHANGED <<handled, notes, boundVars>>
  BY DEF ClientRequest
<1>7. p.req = r.cmd
  OBVIOUS
<1> HIDE DEF p
<1>8. ASSUME NEW k \in Link, k[1] = Server
      PROVE  msg[k[2]] \in Carried(k)
  <2>1. CASE r.cmd = "SEND"
    <3>1. msg[k[2]] = WithCrc(p) /\ WithCrc(p).req = "SEND"
      BY <1>5, <1>7, <2>1, LinkFacts, WithCrcType
    <3>2. WithCrc(p) \in Message /\ is_valid_crc(WithCrc(p))
      BY <1>5, WithCrcType DEF Message
    <3>3. QED
      BY <1>8, <3>1, <3>2 DEF Carried
  <2>2. CASE r.cmd # "SEND"
    <3>1. msg[k[2]] = p /\ p.req \in {"BROADCAST", "UNICAST"}
      BY <1>5, <1>7, <2>2, LinkFacts DEF ServerCmd
    <3>2. QED
      BY <1>5, <1>8, <3>1 DEF Carried, Message
  <2>3. QED
    BY <2>1, <2>2
<1> HIDE DEF msg
<1>9. NetInv'
  <2>1. Server \in Peer /\ to \in SUBSET Partners(Server)
    BY NodeFacts DEF Partners
  <2> HIDE DEF to
  <2>2. QED
    BY <1>6, <1>8, <2>1, ExchangeGood DEF IInv
<1>10. HistoryInv'
  <2>1. app_msg_id' \in MessageId
    BY <1>6, NextIdType DEF IInv, HistoryInv
  <2>2. issued' \in Seq(Requests) /\ Len(issued') <= MaxRequests
    BY <1>6, MeshAssumption DEF IInv, HistoryInv
  <2>3. QED
    BY <1>6, <2>1, <2>2 DEF IInv, HistoryInv, boundVars
<1>11. QED
  BY <1>6, <1>9, <1>10 DEF IInv, TableInv, NextHopIsNeighbour, nodeVars

\* New processes start with tables in order and without connections.
LEMMA StartGood ==
  ASSUME IInv, NEW S \in SUBSET Node, NEW c \in [Peer -> [Peer -> ConnState]],
         \A n \in Node : {q \in Peer : c[n][q] # "none"}
                           \subseteq Neighbours(n) \cup {Server},
         \A n \in S : gen[n] + 1 \in Gen,
         Start(S, c)
  PROVE  /\ TableInv'
         /\ conn' \in [Peer -> [Peer -> ConnState]]
         /\ ConnectsToNeighbours'
         /\ gen' \in [Peer -> Gen]
<1>1. TableInv'
  <2>1. /\ routing' \in [Node -> RoutingTable]
        /\ messages' \in [Node -> MessageTable]
    BY NoRouteType, NewTableType DEF Start, IInv, TableInv
  <2>2. NextHopIsNeighbour'
    <3>1. \A n \in Node : routing'[n] \in Routes(n)
      BY NoRoutesGood, RoutesOfNode DEF Start, IInv
    <3>2. QED
      BY <3>1 DEF NextHopIsNeighbour, Routes
  <2>3. QED
    BY <2>1, <2>2 DEF TableInv
<1>2. conn' \in [Peer -> [Peer -> ConnState]]
  BY DEF Start, ConnState
<1>3. ConnectsToNeighbours'
  BY DEF Start, ConnectsToNeighbours, Peer
<1>4. gen' \in [Peer -> Gen]
  BY DEF Start, IInv, NetInv
<1>5. QED
  BY <1>1, <1>2, <1>3, <1>4

\* The server's handle_reset keeps the invariant.
LEMMA ClientResetKeeps ==
  ASSUME IInv, ClientReset
  PROVE  IInv'
<1> DEFINE others == {n \in Node : conn[Server][n] = "none"}
           told == Node \ others
           reach == Reached(Server, told)
           c == [conn EXCEPT ![Server] = ConnAfter(Server, told)]
<1>1. /\ Startable(others) /\ Start(others, c)
      /\ net' = [l \in Link |-> IF l[1] = Server /\ l[2] \in reach /\ l[3] = 0
                                THEN Append(net[l], [req |-> "RESET"])
                                ELSE net[l]]
      /\ proc' = [p \in Peer |->
                    IF p \in others THEN "up"
                    ELSE IF p = Server /\ Dies(Server, told) THEN "down"
                    ELSE proc[p]]
      /\ app_msg_id' = 0 /\ resets' = resets + 1
      /\ UNCHANGED <<historyVars, kills, revives>>
  BY DEF ClientReset
<1>2. /\ others \in SUBSET Node /\ told \in SUBSET Partners(Server)
      /\ Server \in Peer
  BY NodeFacts DEF Partners
<1> HIDE DEF others, told, reach
<1>3. /\ c \in [Peer -> [Peer -> ConnState]]
      /\ \A n \in Node : {q \in Peer : c[n][q] # "none"}
                           \subseteq Neighbours(n) \cup {Server}
  <2>1. ConnAfter(Server, told) \in [Peer -> ConnState]
    BY <1>2, ConnAfterType DEF IInv
  <2>2. c \in [Peer -> [Peer -> ConnState]]
    BY <2>1 DEF IInv, NetInv
  <2>3. \A n \in Node : c[n] = conn[n]
    BY NodeFacts DEF IInv, NetInv, Peer
  <2>4. QED
    BY <2>2, <2>3 DEF IInv, NetInv, ConnectsToNeighbours
<1> HIDE DEF c
<1>4. /\ TableInv' /\ conn' \in [Peer -> [Peer -> ConnState]]
      /\ ConnectsToNeighbours' /\ gen' \in [Peer -> Gen]
  <2>1. \A n \in others : gen[n] + 1 \in Gen
    BY <1>1 DEF Startable
  <2>2. QED
    BY <1>1, <1>2, <1>3, <2>1, StartGood
<1>5. net' \in [Link -> Seq(Message)] /\ LinksCarry'
  <2>1. \A l \in Link : l[1] = Server => [req |-> "RESET"] \in Carried(l)
    BY DEF Carried, Message
  <2>2. [req |-> "RESET"] \in Message
    BY DEF Message
  <2>3. \A l \in Link : net'[l] \in Seq(Carried(l)) /\ net'[l] \in Seq(Message)
    BY <1>1, <2>1, <2>2, SeqFacts DEF IInv, NetInv, LinksCarry
  <2>4. net' = [l \in Link |-> net'[l]]
    BY <1>1
  <2>5. QED
    BY <2>3, <2>4 DEF LinksCarry
<1>6. proc' \in [Peer -> {"up", "term", "down"}]
  BY <1>1 DEF IInv, NetInv
<1>7. HistoryInv'
  BY <1>1, NextIdType DEF IInv, HistoryInv, historyVars
<1>8. QED
  BY <1>4, <1>5, <1>6, <1>7 DEF IInv, NetInv

\* kill_node keeps the invariant.
LEMMA ClientKillKeeps ==
  ASSUME IInv, NEW n \in Node, ClientKill(n)
  PROVE  IInv'
<1>1. /\ conn' = [conn EXCEPT ![Server][n] = "none"]
      /\ proc' = [proc EXCEPT ![n] = IF @ = "up" THEN "term" ELSE @]
      /\ kills' = kills + 1
      /\ UNCHANGED <<app_msg_id, gen, net, nodeVars, historyVars,
                     resets, revives>>
  BY DEF ClientKill
<1>2. conn' \in [Peer -> [Peer -> ConnState]] /\ ConnectsToNeighbours'
  BY <1>1, NodeFacts DEF IInv, NetInv, ConnectsToNeighbours, Peer, ConnState
<1>3. proc' \in [Peer -> {"up", "term", "down"}]
  BY <1>1 DEF IInv, NetInv, Peer
<1>4. HistoryInv'
  BY <1>1 DEF IInv, HistoryInv, historyVars
<1>5. QED
  BY <1>1, <1>2, <1>3, <1>4
     DEF IInv, NetInv, LinksCarry, TableInv, NextHopIsNeighbour, nodeVars

\* revivie_node keeps the invariant.
LEMMA ClientReviveKeeps ==
  ASSUME IInv, NEW n \in Node, ClientRevive(n)
  PROVE  IInv'
<1>1. /\ Startable({n}) /\ Start({n}, conn)
      /\ proc' = [proc EXCEPT ![n] = "up"]
      /\ revives' = revives + 1
      /\ UNCHANGED <<app_msg_id, net, historyVars, resets, kills>>
  BY DEF ClientRevive
<1>2. /\ TableInv' /\ conn' \in [Peer -> [Peer -> ConnState]]
      /\ ConnectsToNeighbours' /\ gen' \in [Peer -> Gen]
  <2>1. \A m \in {n} : gen[m] + 1 \in Gen
    BY <1>1 DEF Startable
  <2>2. QED
    BY <1>1, <2>1, StartGood DEF IInv, NetInv, ConnectsToNeighbours
<1>3. proc' \in [Peer -> {"up", "term", "down"}]
  BY <1>1 DEF IInv, NetInv
<1>4. HistoryInv'
  BY <1>1 DEF IInv, HistoryInv, historyVars
<1>5. QED
  BY <1>1, <1>2, <1>3, <1>4 DEF IInv, NetInv, LinksCarry

\* update_node_state with handle_update_child keeps the invariant.
LEMMA NodeUpdateKeeps ==
  ASSUME IInv, NEW n \in Node, NodeUpdate(n)
  PROVE  IInv'
<1>1. /\ conn' = [conn EXCEPT ![Server][n] = "open"]
      /\ UNCHANGED <<app_msg_id, proc, gen, net, nodeVars, historyVars,
                     boundVars>>
  BY DEF NodeUpdate
<1>2. conn' \in [Peer -> [Peer -> ConnState]] /\ ConnectsToNeighbours'
  BY <1>1, NodeFacts DEF IInv, NetInv, ConnectsToNeighbours, Peer, ConnState
<1>3. QED
  BY <1>1, <1>2 DEF IInv, NetInv, LinksCarry, TableInv, NextHopIsNeighbour,
                    HistoryInv, nodeVars, historyVars, boundVars

\* The end of a node's poll loop keeps the invariant.
LEMMA NodeExitKeeps ==
  ASSUME IInv, NEW n \in Node, NodeExit(n)
  PROVE  IInv'
<1>1. /\ proc' = [proc EXCEPT ![n] = "down"]
      /\ net' = [l \in Link |-> IF l[2] = n THEN << >> ELSE net[l]]
      /\ conn' = HungUp(conn, n, net)
      /\ UNCHANGED <<app_msg_id, gen, nodeVars, historyVars, boundVars>>
  BY DEF NodeExit
<1>2. n \in Peer /\ Node \subseteq Peer
  BY DEF Peer
<1>3. conn' \in [Peer -> [Peer -> ConnState]] /\ ConnectsToNeighbours'
  BY <1>1, <1>2, HungUpType DEF IInv, NetInv, ConnectsToNeighbours
<1>4. net' \in [Link -> Seq(Message)] /\ LinksCarry'
  BY <1>1, SeqFacts DEF IInv, NetInv, LinksCarry
<1>5. proc' \in [Peer -> {"up", "term", "down"}]
  BY <1>1 DEF IInv, NetInv
<1>6. QED
  BY <1>1, <1>3, <1>4, <1>5
     DEF IInv, NetInv, TableInv, NextHopIsNeighbour, HistoryInv,
         nodeVars, historyVars, boundVars

-----------------------------------------------------------------------------
\* IInv holds when the mesh has started.
LEMMA InitInv == Init => IInv
<1> SUFFICES ASSUME Init PROVE IInv
  OBVIOUS
<1>1. Node \subseteq Peer /\ Server \notin Node
  BY NodeFacts DEF Peer
<1>2. NetInv
  <2>1. 0 \in Gen
    BY MeshAssumption DEF Gen
  <2>2. /\ proc \in [Peer -> {"up", "term", "down"}]
        /\ conn \in [Peer -> [Peer -> ConnState]]
        /\ gen \in [Peer -> Gen]
    BY <2>1 DEF Init, ConnState
  <2>3. ConnectsToNeighbours
    BY <1>1 DEF Init, ConnectsToNeighbours
  <2>4. net \in [Link -> Seq(Message)] /\ LinksCarry
    BY DEF Init, LinksCarry
  <2>5. QED
    BY <2>2, <2>3, <2>4 DEF NetInv
<1>3. TableInv
  <2>1. \A n \in Node : routing[n] \in Routes(n)
    BY NoRoutesGood DEF Init
  <2>2. NextHopIsNeighbour
    BY <2>1 DEF NextHopIsNeighbour, Routes
  <2>3. QED
    BY <2>2, NoRouteType, NewTableType DEF Init, TableInv
<1>4. HistoryInv
  BY NextIdType, MeshAssumption DEF Init, HistoryInv
<1>5. QED
  BY <1>2, <1>3, <1>4 DEF IInv

\* Every step of every process keeps IInv.
LEMMA NextInv == IInv /\ [Next]_vars => IInv'
<1> SUFFICES ASSUME IInv, [Next]_vars PROVE IInv'
  OBVIOUS
<1>1. ASSUME NEW l \in Link, HandleServer(l)
      PROVE  IInv'
  BY <1>1, ServerSendKeeps, BroadcastKeeps, ServerUnicastKeeps, ResetKeeps
     DEF HandleServer
<1>2. ASSUME NEW l \in Link, HandleNode(l)
      PROVE  IInv'
  BY <1>2, NodeSendKeeps, RouteDirectKeeps, RouteInverseKeeps, ContestKeeps,
     FirstKeeps DEF HandleNode
<1>3. CASE Client
  BY <1>3, ClientRequestKeeps, ClientResetKeeps, ClientKillKeeps,
     ClientReviveKeeps DEF Client
<1>4. ASSUME NEW n \in Node, NodeUpdate(n) \/ NodeExit(n)
      PROVE  IInv'
  BY <1>4, NodeUpdateKeeps, NodeExitKeeps
<1>5. CASE UNCHANGED vars
  BY <1>5 DEF vars, nodeVars, historyVars, boundVars, IInv, NetInv, LinksCarry,
              ConnectsToNeighbours, TableInv, NextHopIsNeighbour, HistoryInv
<1>6. QED
  BY <1>1, <1>2, <1>3, <1>4, <1>5 DEF Next, Handle

\* What IInv is made of.
LEMMA InvImplies ==
  IInv => TypeOK /\ NextHopIsNeighbour /\ ConnectsToNeighbours /\ LinksCarry
BY DEF IInv, NetInv, TableInv, HistoryInv, TypeOK

-----------------------------------------------------------------------------
(***************************************************************************)
(* IInv is an invariant of the mesh, whatever its size, the requests, and  *)
(* the resets, deaths and restarts of nodes.                               *)
(***************************************************************************)
THEOREM Invariance == Spec => []IInv
<1>1. Init => IInv
  BY InitInv
<1>2. IInv /\ [Next]_vars => IInv'
  BY NextInv
<1>3. QED
  BY <1>1, <1>2, PTL DEF Spec

(***************************************************************************)
(* Tables, queues and counters keep their types: no handler writes outside *)
(* messages[MAX_MESSAGE_DATA] or stores a value that does not fit.         *)
(***************************************************************************)
THEOREM TypeCorrect == Spec => []TypeOK
<1>1. IInv => TypeOK
  BY InvImplies
<1>2. QED
  BY <1>1, Invariance, PTL

(***************************************************************************)
(* handle_node_route_direct and handle_node_route_inverse only ever enter  *)
(* the neighbour a packet came from into the routing table.                *)
(***************************************************************************)
THEOREM RoutesLeadToNeighbours == Spec => []NextHopIsNeighbour
<1>1. IInv => NextHopIsNeighbour
  BY InvImplies
<1>2. QED
  BY <1>1, Invariance, PTL

(***************************************************************************)
(* get_conn only ever connects a node to the server and to nodes in reach. *)
(***************************************************************************)
THEOREM ConnectionsAreLocal == Spec => []ConnectsToNeighbours
<1>1. IInv => ConnectsToNeighbours
  BY InvImplies
<1>2. QED
  BY <1>1, Invariance, PTL

(***************************************************************************)
(* What a connection carries was written by the node at its other end, and *)
(* says so, and broadcast_route, send_next and the others compute its      *)
(* packet_crc after their last change.                                     *)
(***************************************************************************)
THEOREM LinksCarryTheirOwn == Spec => []LinksCarry
<1>1. IInv => LinksCarry
  BY InvImplies
<1>2. QED
  BY <1>1, Invariance, PTL
=============================================================================
