-------------------------- MODULE MeshServiceProofs -------------------------
(***************************************************************************)
(* Mesh keeps the promises of MeshService, for every size of the mesh and  *)
(* every set of requests.                                                  *)
(*                                                                         *)
(* The argument follows a message from hand to hand.  Meant says what a    *)
(* message under way has to do with the request it serves, Follows what a  *)
(* handler writes after the message it took: every handler writes what     *)
(* follows, and what follows a message that is meant is meant itself.      *)
(*                                                                         *)
(* The second part is about a mesh in which no node forgets: no node       *)
(* accepts a message twice there and one node alone accepts a unicast,     *)
(* which depends on the message tables of the nodes.                       *)
(***************************************************************************)
EXTENDS MeshProofs, NumberSets

-----------------------------------------------------------------------------
(***************************************************************************)
(* What a message has to do with request r of the client.                  *)
(***************************************************************************)
\* The form of a text after node_app_setup_delivery.
Packed(m) == IF m = "plain" THEN "packed" ELSE IF m = "bulky" THEN "cut" ELSE m

\* From the server comes the request itself, to its sender.
FromServer(l, x, r) ==
  /\ x.req = r.cmd /\ l[2] = r.sender /\ x.app.msg = r.msg
  /\ r.cmd = "SEND" => x.receiver = r.receiver

(***************************************************************************)
(* Between nodes a send is on its way to its receiver, as itself or as a   *)
(* flood or its answer; a broadcast and the message for the winner of a    *)
(* unicast have one hop to go, to a node in reach of the sender; a contest *)
(* goes from the sender to nodes in reach and back.                        *)
(***************************************************************************)
FromNode(l, x, r) ==
  /\ x.app.msg = Packed(r.msg)
  /\ r.cmd = "SEND" => /\ x.req \in {"SEND", "ROUTE_DIRECT", "ROUTE_INVERSE"}
                       /\ x.receiver = r.receiver
  /\ r.cmd = "BROADCAST" => x.req = "SEND"
  /\ r.cmd = "UNICAST" => x.req \in {"SEND", "UNICAST_CONTEST", "UNICAST_FIRST"}
  /\ r.cmd # "SEND" /\ x.req = "SEND" => /\ x.receiver = l[2]
                                         /\ r.sender \in Node
                                         /\ l[2] \in Neighbours(r.sender)
  /\ x.req = "UNICAST_CONTEST" => l[1] = r.sender
  /\ x.req = "UNICAST_FIRST" => l[2] = r.sender

Serves(l, x, r) ==
  /\ x.app.req_type = r.cmd /\ x.app.to = r.to
  /\ l[1] = Server => FromServer(l, x, r)
  /\ l[1] # Server => FromNode(l, x, r)

Meant(asked, l, x) ==
  x.req # "RESET" => /\ x.app.uid \in 1 .. Len(asked)
                     /\ Serves(l, x, asked[x.app.uid])

NetMeant ==
  \A l \in Link : \A i \in 1 .. Len(net[l]) : Meant(issued, l, net[l][i])

(***************************************************************************)
(* What a node writes on link k after it took x from link l.               *)
(***************************************************************************)
Follows(l, x, k, y) ==
  /\ k[1] = l[2] /\ k[2] \in Neighbours(l[2])
  /\ y.app = IF l[1] = Server THEN node_app_setup_delivery(x.app) ELSE x.app
  /\ x.req = "SEND" =>
       y.req \in {"SEND", "ROUTE_DIRECT"} /\ y.receiver = x.receiver /\ x.receiver # l[2]
  /\ x.req = "BROADCAST" => y.req = "SEND" /\ y.receiver = k[2]
  /\ x.req = "UNICAST" => y.req = "UNICAST_CONTEST"
  /\ x.req = "ROUTE_DIRECT" =>
       y.req \in {"ROUTE_DIRECT", "ROUTE_INVERSE"} /\ y.receiver = x.receiver
  /\ x.req = "ROUTE_INVERSE" => y.req = "ROUTE_INVERSE" /\ y.receiver = x.receiver
  /\ x.req = "UNICAST_CONTEST" => y.req = "UNICAST_FIRST" /\ k[2] = l[1]
  /\ x.req = "UNICAST_FIRST" => y.req = "SEND" /\ y.receiver = k[2]

\* A message that the handlers for link l can take.
Takable(l, x) ==
  IF l[1] = Server THEN x.req \in ServerCmd
  ELSE x.req \in {"SEND", "ROUTE_DIRECT", "ROUTE_INVERSE", "UNICAST_CONTEST", "UNICAST_FIRST"}

-----------------------------------------------------------------------------
\* What requests are.
LEMMA RequestFields ==
  ASSUME NEW r \in Requests
  PROVE  /\ r.cmd \in ServerCmd /\ r.sender \in Addr /\ r.receiver \in Addr
         /\ r.to \in Addr /\ r.msg \in {"empty", "plain", "bulky"}
BY MeshAssumption

\* node_app_setup_delivery compresses the text and nothing else.
LEMMA SetupFields ==
  ASSUME NEW a \in AppPayload
  PROVE  LET s == node_app_setup_delivery(a)
         IN  /\ s.req_type = a.req_type /\ s.to = a.to /\ s.id = a.id /\ s.uid = a.uid
             /\ s.msg = Packed(a.msg)
BY DEF node_app_setup_delivery, AppPayload, Packed

\* packet_crc is all that WithCrc changes.
LEMMA WithCrcFields ==
  ASSUME NEW p \in node_packet
  PROVE  /\ WithCrc(p).req = p.req /\ WithCrc(p).app = p.app
         /\ WithCrc(p).receiver = p.receiver
BY DEF WithCrc, node_packet

\* What broadcast_route sends differs from p in the request and the ttl.
LEMMA BroadcastRouteFields ==
  ASSUME NEW p \in node_packet
  PROVE  /\ broadcast_route(p).req = "ROUTE_DIRECT" /\ broadcast_route(p).app = p.app
         /\ broadcast_route(p).receiver = p.receiver
<1> DEFINE q == [p EXCEPT !.req = "ROUTE_DIRECT", !.ttl = ToInt8(p.ttl - 1)]
<1>1. ToInt8(p.ttl - 1) \in Int8
  <2>1. p.ttl \in Int
    BY Int8Facts DEF node_packet
  <2>2. QED
    BY <2>1, ToInt8Type
<1>2. q \in node_packet /\ q.req = "ROUTE_DIRECT" /\ q.app = p.app /\ q.receiver = p.receiver
  BY <1>1 DEF node_packet, PacketReq
<1> HIDE DEF q
<1>3. QED
  BY <1>2, WithCrcFields DEF broadcast_route, q

\* The message at the head of a link and the request it serves.
LEMMA HeadMeant ==
  ASSUME IInv, NetMeant, NEW l \in Link, net[l] # << >>, Head(net[l]).req # "RESET"
  PROVE  LET x == Head(net[l])
         IN  /\ x.app \in AppPayload /\ x.app.uid \in 1 .. Len(issued)
             /\ issued[x.app.uid] \in Requests /\ Serves(l, x, issued[x.app.uid])
<1> DEFINE x == Head(net[l])
<1>1. x \in Message /\ x.req # "RESET"
  BY HeadFacts DEF IInv
<1>2. x.app \in AppPayload
  BY <1>1 DEF Message, node_packet, unicast_contest
<1>3. x = net[l][1] /\ 1 \in 1 .. Len(net[l])
  BY DEF IInv, NetInv
<1>4. Meant(issued, l, x)
  BY <1>3 DEF NetMeant
<1>5. x.app.uid \in 1 .. Len(issued) /\ Serves(l, x, issued[x.app.uid])
  BY <1>1, <1>4 DEF Meant
<1>6. issued[x.app.uid] \in Requests
  BY <1>5 DEF IInv, HistoryInv
<1>7. QED
  BY <1>2, <1>5, <1>6

\* What follows a message that serves r serves r.
LEMMA FollowsServes ==
  ASSUME NEW l \in Link, NEW k \in Link, NEW x, NEW y, NEW r \in Requests,
         x.app \in AppPayload, Serves(l, x, r), Takable(l, x), Follows(l, x, k, y)
  PROVE  Serves(k, y, r) /\ y.app.uid = x.app.uid /\ y.app.id = x.app.id /\ y.req # "RESET"
<1>1. l[2] \in Node /\ k[1] # Server /\ k[1] = l[2]
  BY LinkFacts, NodeFacts DEF Follows
<1>2. /\ y.app.req_type = r.cmd /\ y.app.to = r.to /\ y.app.msg = Packed(r.msg)
      /\ y.app.uid = x.app.uid /\ y.app.id = x.app.id
  <2>1. CASE l[1] = Server
    BY <2>1, SetupFields DEF Follows, Serves, FromServer
  <2>2. CASE l[1] # Server
    BY <2>2 DEF Follows, Serves, FromNode
  <2>3. QED
    BY <2>1, <2>2
<1>3. r.cmd \in ServerCmd
  BY RequestFields
<1>4. FromNode(k, y, r) /\ y.req # "RESET"
  <2>1. CASE l[1] = Server
    <3>1. x.req = r.cmd /\ l[2] = r.sender /\ (r.cmd = "SEND" => x.receiver = r.receiver)
      BY <2>1 DEF Serves, FromServer
    <3>2. QED
      BY <1>1, <1>2, <1>3, <3>1 DEF FromNode, Follows, ServerCmd
  <2>2. CASE l[1] # Server
    <3>1. FromNode(l, x, r)
      BY <2>2 DEF Serves
    <3>2. CASE x.req = "SEND"
      BY <1>1, <1>2, <1>3, <3>1, <3>2 DEF FromNode, Follows, ServerCmd
    <3>3. CASE x.req \in {"ROUTE_DIRECT", "ROUTE_INVERSE"}
      BY <1>1, <1>2, <1>3, <3>1, <3>3 DEF FromNode, Follows, ServerCmd
    <3>4. CASE x.req = "UNICAST_CONTEST"
      BY <1>1, <1>2, <1>3, <3>1, <3>4 DEF FromNode, Follows, ServerCmd
    <3>5. CASE x.req = "UNICAST_FIRST"
      BY <1>1, <1>2, <1>3, <3>1, <3>5 DEF FromNode, Follows, ServerCmd
    <3>6. QED
      BY <2>2, <3>2, <3>3, <3>4, <3>5 DEF Takable
  <2>3. QED
    BY <2>1, <2>2
<1>5. QED
  BY <1>1, <1>2, <1>4 DEF Serves

\* Later requests do not change what a message is meant for.
LEMMA MeantStays ==
  ASSUME IInv, NEW l, NEW x, Meant(issued, l, x),
         \/ UNCHANGED issued
         \/ \E r \in Requests : issued' = Append(issued, r)
  PROVE  Meant(issued', l, x)
<1>1. issued \in Seq(Requests)
  BY DEF IInv, HistoryInv
<1>2. \A u \in 1 .. Len(issued) : u \in 1 .. Len(issued') /\ issued'[u] = issued[u]
  BY <1>1
<1>3. QED
  BY <1>2 DEF Meant

-----------------------------------------------------------------------------
(***************************************************************************)
(* Where the messages under way after an exchange come from: they were     *)
(* there before, perhaps one place further back, or process p wrote them.  *)
(***************************************************************************)
Stayed(from, l, i) ==
  \/ l \in from /\ i + 1 \in 1 .. Len(net[l]) /\ net'[l][i] = net[l][i + 1]
  \/ l \notin from /\ i \in 1 .. Len(net[l]) /\ net'[l][i] = net[l][i]

Added(p, to, msg, l, i) ==
  /\ l[1] = p /\ l[2] \in Reached(p, to) /\ l[3] = gen[p]
  /\ i = Len(net'[l]) /\ net'[l][i] = msg[l[2]]

LEMMA Arrives ==
  ASSUME IInv, NEW p, NEW from \in SUBSET Link, NEW to, NEW msg,
         \A k \in from : net[k] # << >>,
         Exchange(p, from, to, msg)
  PROVE  \A l \in Link : \A i \in 1 .. Len(net'[l]) :
           Stayed(from, l, i) \/ Added(p, to, msg, l, i)
<1> SUFFICES ASSUME NEW l \in Link, NEW i \in 1 .. Len(net'[l])
             PROVE  Stayed(from, l, i) \/ Added(p, to, msg, l, i)
  OBVIOUS
<1> DEFINE left == [k \in Link |-> IF k \in from THEN Tail(net[k]) ELSE net[k]]
           sent == [k \in Link |->
                      IF k[1] = p /\ k[2] \in Reached(p, to) /\ k[3] = gen[p]
                      THEN Append(left[k], msg[k[2]]) ELSE left[k]]
<1>1. net[l] \in Seq(Message)
  BY DEF IInv, NetInv
<1>2. net'[l] = sent[l] \/ net'[l] = << >>
  BY DEF Exchange
<1>3. net'[l] = sent[l]
  <2>1. CASE net'[l] = << >>
    BY <2>1
  <2>2. QED
    BY <1>2, <2>1
<1>4. PICK s : s = left[l]
  OBVIOUS
<1>5. /\ s \in Seq(Message) /\ Len(s) \in Nat
      /\ l \in from => \A m \in 1 .. Len(s) : m + 1 \in 1 .. Len(net[l]) /\ s[m] = net[l][m + 1]
      /\ l \notin from => \A m \in 1 .. Len(s) : m \in 1 .. Len(net[l]) /\ s[m] = net[l][m]
  <2>1. CASE l \in from
    <3>1. net[l] # << >> /\ s = Tail(net[l])
      BY <1>4, <2>1
    <3>2. s \in Seq(Message) /\ Len(s) = Len(net[l]) - 1
      BY <1>1, <3>1
    <3>3. \A m \in 1 .. Len(s) : m + 1 \in 1 .. Len(net[l]) /\ s[m] = net[l][m + 1]
      BY <1>1, <3>1, <3>2
    <3>4. QED
      BY <2>1, <3>2, <3>3
  <2>2. CASE l \notin from
    <3>1. s = net[l]
      BY <1>4, <2>2
    <3>2. QED
      BY <1>1, <2>2, <3>1
  <2>3. QED
    BY <2>1, <2>2
<1>6. CASE l[1] = p /\ l[2] \in Reached(p, to) /\ l[3] = gen[p]
  <2>1. net'[l] = Append(s, msg[l[2]])
    BY <1>3, <1>4, <1>6
  <2>2. Len(net'[l]) = Len(s) + 1
    BY <1>5, <2>1
  <2>3. CASE i = Len(s) + 1
    BY <1>5, <1>6, <2>1, <2>2, <2>3 DEF Added
  <2>4. CASE i \in 1 .. Len(s)
    <3>1. net'[l][i] = s[i]
      BY <1>5, <2>1, <2>4
    <3>2. QED
      BY <1>5, <2>4, <3>1 DEF Stayed
  <2>5. QED
    BY <1>5, <2>2, <2>3, <2>4
<1>7. CASE ~(l[1] = p /\ l[2] \in Reached(p, to) /\ l[3] = gen[p])
  <2>1. net'[l] = s
    BY <1>3, <1>4, <1>7
  <2>2. QED
    BY <1>5, <2>1 DEF Stayed
<1>8. QED
  BY <1>6, <1>7

\* Every message under way is meant for a request, if all that is written is.
LEMMA ExchangeMeant ==
  ASSUME IInv, NetMeant, NEW p, NEW from \in SUBSET Link, NEW to, NEW msg,
         \A k \in from : net[k] # << >>,
         Exchange(p, from, to, msg),
         \/ UNCHANGED issued
         \/ \E r \in Requests : issued' = Append(issued, r),
         \A k \in Link : k[1] = p /\ k[2] \in to => Meant(issued', k, msg[k[2]])
  PROVE  NetMeant'
<1> SUFFICES ASSUME NEW l \in Link, NEW i \in 1 .. Len(net'[l])
             PROVE  Meant(issued', l, net'[l][i])
  BY DEF NetMeant
<1>1. Stayed(from, l, i) \/ Added(p, to, msg, l, i)
  BY Arrives
<1>2. CASE Stayed(from, l, i)
  <2>1. PICK j \in 1 .. Len(net[l]) : net'[l][i] = net[l][j]
    BY <1>2 DEF Stayed
  <2>2. QED
    BY <2>1, MeantStays DEF NetMeant
<1>3. CASE Added(p, to, msg, l, i)
  BY <1>3, ReachedFacts DEF Added
<1>4. QED
  BY <1>1, <1>2, <1>3

-----------------------------------------------------------------------------
(***************************************************************************)
(* What every handler of a node does, apart from handle_reset: it takes    *)
(* the message at the head of link l and writes what follows it.  A send   *)
(* and the answer to a contest become one message again, or a flood.       *)
(***************************************************************************)
Writes(l, to, msg) ==
  LET x == Head(net[l])
  IN  /\ Exchange(l[2], {l}, to, msg) /\ Frame
      /\ to \subseteq Neighbours(l[2]) \cup {Server}
      /\ \A k \in Link : k[1] = l[2] /\ k[2] \in to => Follows(l, x, k, msg[k[2]])
      /\ x.req \in {"SEND", "UNICAST_FIRST"} =>
           \/ \E q : to = {q}
           \/ to = {}
           \/ \A k \in Link : k[1] = l[2] /\ k[2] \in to => msg[k[2]].req = "ROUTE_DIRECT"

\* The payload of x as the handlers for link l use it.
PayloadOf(l, x) == IF l[1] = Server THEN node_app_setup_delivery(x.app) ELSE x.app

\* The apps get the message, which is for this node.
Offers(l, to) ==
  LET x == Head(net[l])
      a == PayloadOf(l, x)
  IN  /\ x.req \in {"SEND", "ROUTE_DIRECT"} /\ x.receiver = l[2]
      /\ x.req = "SEND" => to = {Server}
      /\ Account(l[2], to, a, node_app_handle_request(a),
                 {Verdict(a)} \cup IF a.req_type = "UNICAST" THEN {"GOT"} ELSE {})

\* What becomes of the message table.
Remembers(l, to) ==
  LET x == Head(net[l])
      t == messages[l[2]]
      was == set_was_message_by_id(t, x.app.id)
  IN  /\ x.req \notin {"ROUTE_DIRECT", "UNICAST_FIRST"} => UNCHANGED messages
      /\ x.req = "ROUTE_DIRECT" =>
           \/ to = {} /\ UNCHANGED <<messages, handled, notes>>
           \/ /\ ~get_was_message_by_id(t, x.app.id)
              /\ \E s \in {was, set_inverse_by_id(was, x.app.id)} :
                   messages' = [messages EXCEPT ![l[2]] = s]
      /\ x.req = "UNICAST_FIRST" =>
           /\ is_id_set(t, x.app.id) => to = {}
           /\ messages' = [messages EXCEPT ![l[2]] = set_unicast_status_by_id(t, x.app.id)]

Handles(l) ==
  /\ net[l] # << >> /\ Takable(l, Head(net[l])) /\ proc[l[2]] # "down"
  /\ \E to, msg : /\ Writes(l, to, msg) /\ Remembers(l, to)
                  /\ Offers(l, to) \/ UNCHANGED <<handled, notes>>

\* A packet at the head of a link, which its checksum does not refuse.
LEMMA PacketFacts ==
  ASSUME IInv, NEW l \in Link, net[l] # << >>, Head(net[l]).req \in PacketReq
  PROVE  LET p == Head(net[l])
         IN  /\ p \in node_packet /\ p.app \in AppPayload /\ p.app.id \in MessageId
             /\ p.req \in {"SEND", "ROUTE_DIRECT", "ROUTE_INVERSE"} => is_valid_crc(p)
             /\ p.req \in {"ROUTE_DIRECT", "ROUTE_INVERSE"} => p.local \in Neighbours(l[2]) /\ l[1] # Server
             /\ l[2] \in Node /\ l[2] # Server
<1> DEFINE p == Head(net[l])
<1>1. p \in Carried(l) /\ p \in Message /\ l[2] \in Node /\ l[2] # Server
  BY HeadFacts, NodeFacts DEF IInv
<1>2. p \in node_packet
  BY <1>1, PacketOf
<1>3. p.app \in AppPayload /\ p.app.id \in MessageId
  BY <1>2 DEF node_packet, AppPayload
<1>4. QED
  BY <1>1, <1>2, <1>3 DEF Carried

\* The same packet is written to every peer in to.
LEMMA SendWrites ==
  ASSUME NEW l \in Link, NEW to, NEW y,
         Send(l[2], l, to, y), Frame, to \subseteq Neighbours(l[2]) \cup {Server},
         \A k \in Link : k[1] = l[2] /\ k[2] \in to => Follows(l, Head(net[l]), k, y),
         Head(net[l]).req \in {"SEND", "UNICAST_FIRST"} =>
           (\E q : to = {q}) \/ to = {} \/ y.req = "ROUTE_DIRECT"
  PROVE  Writes(l, to, [q \in Node |-> y])
<1>1. \A k \in Link : [q \in Node |-> y][k[2]] = y
  BY LinkFacts
<1>2. Exchange(l[2], {l}, to, [q \in Node |-> y])
  BY DEF Send
<1>3. PICK msg : msg = [q \in Node |-> y]
  OBVIOUS
<1>4. \A k \in Link : msg[k[2]] = y
  BY <1>1, <1>3
<1>5. QED
  BY <1>2, <1>3, <1>4 DEF Writes

\* handle_server_send.
LEMMA ServerSendHandles ==
  ASSUME IInv, NetMeant, NEW l \in Link, HandleServerSend(l)
  PROVE  Handles(l)
<1> DEFINE n == l[2]
           p == Head(net[l])
           a == node_app_setup_delivery(p.app)
           next == routing_next_addr(routing[n], p.receiver)
<1>1. /\ net[l] # << >> /\ p.req = "SEND" /\ l[1] = Server /\ proc[n] # "down"
      /\ Frame /\ UNCHANGED messages
  BY DEF HandleServerSend, Receives, nodeVars
<1>2. /\ p \in node_packet /\ p.app \in AppPayload /\ is_valid_crc(p)
      /\ n \in Node /\ n # Server
  BY <1>1, PacketFacts DEF PacketReq
<1>3. a.req_type = "SEND" /\ a \in AppPayload /\ PayloadOf(l, p) = a
  BY <1>1, <1>2, HeadMeant, SetupFields, SetupType DEF Serves, FromServer, PayloadOf
<1>4. Takable(l, p)
  BY <1>1 DEF Takable, ServerCmd
<1>5. \A to : Remembers(l, to)
  BY <1>1 DEF Remembers
<1> HIDE DEF a
<1>6. CASE p.receiver = n
  <2>1. Send(n, l, {Server}, p) /\ Account(n, {Server}, a, node_app_handle_request(a), {Verdict(a)})
    BY <1>2, <1>6 DEF HandleServerSend, a
  <2>2. Writes(l, {Server}, [q \in Node |-> p])
    BY <1>1, <2>1, SendWrites, LinkFacts, NodeFacts
  <2>3. {Verdict(a)} \cup (IF a.req_type = "UNICAST" THEN {"GOT"} ELSE {}) = {Verdict(a)}
    BY <1>3
  <2>4. Offers(l, {Server})
    BY <1>1, <1>3, <1>6, <2>1, <2>3 DEF Offers
  <2>5. QED
    BY <1>1, <1>4, <1>5, <2>2, <2>4, Zenon DEF Handles
<1>7. CASE p.receiver # n /\ next = UINT8_MAX
  <2> DEFINE f == [p EXCEPT !.app = a, !.local = n, !.ttl = TTL]
  <2>1. f \in node_packet /\ f.app = a /\ f.receiver = p.receiver
    BY <1>2, <1>3, NodeFacts, Int8Facts DEF node_packet
  <2>2. Flood(n, l, f) /\ UNCHANGED <<handled, notes>>
    BY <1>2, <1>7 DEF HandleServerSend, a
  <2> HIDE DEF f
  <2>3. PICK y : y = broadcast_route(f) /\ y.req = "ROUTE_DIRECT" /\ y.app = a /\ y.receiver = p.receiver
    BY <2>1, BroadcastRouteFields
  <2>4. Send(n, l, Neighbours(n), y)
    BY <2>2, <2>3 DEF Flood, Send
  <2>5. \A k \in Link : k[1] = n /\ k[2] \in Neighbours(n) => Follows(l, p, k, y)
    BY <1>1, <1>3, <1>7, <2>3 DEF Follows, PayloadOf
  <2>6. Writes(l, Neighbours(n), [q \in Node |-> y])
    BY <1>1, <2>3, <2>4, <2>5, SendWrites
  <2>7. QED
    BY <1>1, <1>4, <1>5, <2>2, <2>6, Zenon DEF Handles
<1>8. CASE p.receiver # n /\ next # UINT8_MAX
  <2> DEFINE f == [p EXCEPT !.app = a]
  <2>1. f \in node_packet /\ f.req = "SEND" /\ f.app = a /\ f.receiver = p.receiver
    BY <1>1, <1>2, <1>3 DEF node_packet
  <2>2. Send(n, l, {next}, WithCrc(f)) /\ UNCHANGED <<handled, notes>>
    BY <1>2, <1>8 DEF HandleServerSend, a
  <2>3. next \in Neighbours(n)
    BY <1>2, <1>8, RoutesOfNode, NextAddrGood DEF IInv
  <2> HIDE DEF f, next
  <2>4. PICK y : y = WithCrc(f) /\ y.req = "SEND" /\ y.app = a /\ y.receiver = p.receiver
    BY <2>1, WithCrcFields
  <2>5. \A k \in Link : k[1] = n /\ k[2] \in {next} => Follows(l, p, k, y)
    BY <1>1, <1>3, <1>8, <2>3, <2>4 DEF Follows, PayloadOf
  <2>6. Writes(l, {next}, [q \in Node |-> y])
    BY <2>2, <2>3, <2>4, <2>5, <1>1, SendWrites
  <2>7. QED
    BY <1>1, <1>4, <1>5, <2>2, <2>6, Zenon DEF Handles
<1>9. QED
  BY <1>6, <1>7, <1>8

\* handle_broadcast.
LEMMA BroadcastHandles ==
  ASSUME IInv, NetMeant, NEW l \in Link, HandleBroadcast(l)
  PROVE  Handles(l)
<1> DEFINE n == l[2]
           x == Head(net[l])
           p == [x EXCEPT !.req = "SEND", !.app = node_app_setup_delivery(@)]
           msg == [q \in Node |-> WithCrc([p EXCEPT !.receiver = q])]
<1>1. /\ net[l] # << >> /\ x.req = "BROADCAST" /\ l[1] = Server /\ proc[n] # "down"
      /\ Frame /\ UNCHANGED <<messages, handled, notes>>
      /\ Exchange(n, {l}, Neighbours(n), msg)
  BY DEF HandleBroadcast, Receives, nodeVars
<1>2. x \in node_packet /\ x.app \in AppPayload /\ n \in Node
  BY <1>1, PacketFacts DEF PacketReq
<1>3. p \in node_packet /\ p.req = "SEND" /\ p.app = node_app_setup_delivery(x.app)
  BY <1>2, SetupType DEF node_packet, PacketReq
<1> HIDE DEF p
<1>4. ASSUME NEW q \in Node
      PROVE  msg[q].req = "SEND" /\ msg[q].app = p.app /\ msg[q].receiver = q
  <2> DEFINE s == [p EXCEPT !.receiver = q]
  <2>1. s \in node_packet /\ s.req = "SEND" /\ s.app = p.app /\ s.receiver = q
    BY <1>3, NodeFacts DEF node_packet
  <2> HIDE DEF s
  <2>2. msg[q] = WithCrc(s)
    BY DEF s
  <2>3. QED
    BY <2>1, <2>2, WithCrcFields
<1> HIDE DEF msg
<1>5. \A k \in Link : k[1] = n /\ k[2] \in Neighbours(n) => Follows(l, x, k, msg[k[2]])
  <2>1. \A k \in Link : /\ msg[k[2]].req = "SEND" /\ msg[k[2]].receiver = k[2]
                        /\ msg[k[2]].app = node_app_setup_delivery(x.app)
    BY <1>3, <1>4, LinkFacts
  <2>2. QED
    BY <1>1, <2>1 DEF Follows
<1>6. Writes(l, Neighbours(n), msg)
  BY <1>1, <1>5 DEF Writes
<1>7. Remembers(l, Neighbours(n)) /\ Takable(l, x)
  BY <1>1 DEF Remembers, Takable, ServerCmd
<1>8. QED
  BY <1>1, <1>6, <1>7, Zenon DEF Handles

\* handle_server_unicast.
LEMMA ServerUnicastHandles ==
  ASSUME IInv, NetMeant, NEW l \in Link, HandleServerUnicast(l)
  PROVE  Handles(l)
<1> DEFINE n == l[2]
           x == Head(net[l])
<1>1. PICK y : y = [req |-> "UNICAST_CONTEST", node_addr |-> n,
                    app |-> node_app_setup_delivery(x.app)]
  OBVIOUS
<1>2. /\ net[l] # << >> /\ x.req = "UNICAST" /\ l[1] = Server /\ proc[n] # "down"
      /\ Frame /\ UNCHANGED <<messages, handled, notes>>
      /\ Send(n, l, Neighbours(n), y)
  BY <1>1 DEF HandleServerUnicast, Receives, nodeVars
<1>3. \A k \in Link : k[1] = n /\ k[2] \in Neighbours(n) => Follows(l, x, k, y)
  BY <1>1, <1>2 DEF Follows
<1>4. Writes(l, Neighbours(n), [q \in Node |-> y])
  BY <1>2, <1>3, SendWrites
<1>5. Remembers(l, Neighbours(n)) /\ Takable(l, x)
  BY <1>2 DEF Remembers, Takable, ServerCmd
<1>6. QED
  BY <1>2, <1>4, <1>5, Zenon DEF Handles

\* handle_node_send with send_next.
LEMMA NodeSendHandles ==
  ASSUME IInv, NetMeant, NEW l \in Link, HandleNodeSend(l)
  PROVE  Handles(l)
<1> DEFINE n == l[2]
           p == Head(net[l])
           early == IF p.app.req_type = "UNICAST" THEN {"GOT"} ELSE {}
           next == routing_next_addr(routing[n], p.receiver)
<1>1. /\ net[l] # << >> /\ p.req = "SEND" /\ l[1] # Server /\ proc[n] # "down"
      /\ Frame /\ UNCHANGED messages
  BY DEF HandleNodeSend, Receives, nodeVars
<1>2. /\ p \in node_packet /\ p.app \in AppPayload /\ is_valid_crc(p)
      /\ n \in Node /\ n # Server
  BY <1>1, PacketFacts DEF PacketReq
<1>3. PayloadOf(l, p) = p.app
  BY <1>1 DEF PayloadOf
<1>4. Takable(l, p)
  BY <1>1 DEF Takable
<1>5. \A to : Remembers(l, to)
  BY <1>1 DEF Remembers
<1>6. CASE p.receiver = n
  <2>1. /\ Send(n, l, {Server}, p)
        /\ Account(n, {Server}, p.app, node_app_handle_request(p.app), early \cup {Verdict(p.app)})
    BY <1>1, <1>2, <1>6 DEF HandleNodeSend
  <2>2. Writes(l, {Server}, [q \in Node |-> p])
    BY <1>1, <2>1, SendWrites, LinkFacts, NodeFacts
  <2>3. early \cup {Verdict(p.app)} = {Verdict(p.app)} \cup early
    OBVIOUS
  <2>4. Offers(l, {Server})
    BY <1>1, <1>3, <1>6, <2>1, <2>3 DEF Offers
  <2>5. QED
    BY <1>1, <1>4, <1>5, <2>2, <2>4, Zenon DEF Handles
<1>7. CASE p.receiver # n /\ next = UINT8_MAX
  <2> DEFINE f == [p EXCEPT !.local = n, !.ttl = TTL]
  <2>1. f \in node_packet /\ f.app = p.app /\ f.receiver = p.receiver
    BY <1>2, NodeFacts, Int8Facts DEF node_packet
  <2>2. Flood(n, l, f) /\ UNCHANGED <<handled, notes>>
    BY <1>2, <1>7 DEF HandleNodeSend
  <2> HIDE DEF f
  <2>3. PICK y : y = broadcast_route(f) /\ y.req = "ROUTE_DIRECT" /\ y.app = p.app /\ y.receiver = p.receiver
    BY <2>1, BroadcastRouteFields
  <2>4. Send(n, l, Neighbours(n), y)
    BY <2>2, <2>3 DEF Flood, Send
  <2>5. \A k \in Link : k[1] = n /\ k[2] \in Neighbours(n) => Follows(l, p, k, y)
    BY <1>1, <1>7, <2>3 DEF Follows
  <2>6. Writes(l, Neighbours(n), [q \in Node |-> y])
    BY <1>1, <2>3, <2>4, <2>5, SendWrites
  <2>7. QED
    BY <1>1, <1>4, <1>5, <2>2, <2>6, Zenon DEF Handles
<1>8. CASE p.receiver # n /\ next # UINT8_MAX
  <2>1. PICK y : y = p
    OBVIOUS
  <2>2. Send(n, l, {next}, y) /\ UNCHANGED <<handled, notes>>
    BY <1>2, <1>8, <2>1 DEF HandleNodeSend
  <2>3. next \in Neighbours(n)
    BY <1>2, <1>8, RoutesOfNode, NextAddrGood DEF IInv
  <2> HIDE DEF next
  <2>4. \A k \in Link : k[1] = n /\ k[2] \in {next} => Follows(l, p, k, y)
    BY <1>1, <1>8, <2>1, <2>3 DEF Follows
  <2>5. Writes(l, {next}, [q \in Node |-> y])
    BY <1>1, <2>2, <2>3, <2>4, SendWrites
  <2>6. QED
    BY <1>1, <1>4, <1>5, <2>2, <2>5, Zenon DEF Handles
<1>9. QED
  BY <1>6, <1>7, <1>8

\* A message that is taken and nothing comes of it.
LEMMA DiscardWrites ==
  ASSUME NEW l \in Link, Discard(l[2], l), Frame
  PROVE  Writes(l, {}, << >>)
BY DEF Discard, Writes

\* handle_node_route_direct with route_direct_handle_delivered.
LEMMA RouteDirectHandles ==
  ASSUME IInv, NetMeant, NEW l \in Link, HandleRouteDirect(l)
  PROVE  Handles(l)
<1> DEFINE n == l[2]
           p == Head(net[l])
           id == p.app.id
           was == set_was_message_by_id(messages[n], id)
           done == set_inverse_by_id(was, id)
           rt == LearnDirect(routing[n], p)
           next == routing_next_addr(rt, p.sender)
           back == WithCrc([p EXCEPT !.req = "ROUTE_INVERSE", !.ttl = TTL, !.local = n])
<1>1. net[l] # << >> /\ p.req = "ROUTE_DIRECT" /\ proc[n] # "down" /\ Frame
  BY DEF HandleRouteDirect, Receives
<1>2. /\ p \in node_packet /\ p.app \in AppPayload /\ is_valid_crc(p)
      /\ n \in Node /\ n # Server /\ l[1] # Server /\ p.local \in Neighbours(n)
  BY <1>1, PacketFacts DEF PacketReq
<1>3. rt \in Routes(n)
  BY <1>2, RoutesOfNode, LearnGood DEF IInv
<1>4. Takable(l, p)
  BY <1>1, <1>2 DEF Takable
<1>5. PayloadOf(l, p) = p.app /\ p.app.req_type = "SEND"
  <2>1. PICK r \in Requests : Serves(l, p, r)
    BY <1>1, HeadMeant
  <2>2. r.cmd = "SEND"
    BY <1>1, <1>2, <2>1, RequestFields DEF Serves, FromNode, ServerCmd
  <2>3. QED
    BY <1>2, <2>1, <2>2 DEF Serves, PayloadOf
<1>6. PICK y : y = back /\ y.req = "ROUTE_INVERSE" /\ y.app = p.app /\ y.receiver = p.receiver
  <2> DEFINE b == [p EXCEPT !.req = "ROUTE_INVERSE", !.ttl = TTL, !.local = n]
  <2>1. b \in node_packet /\ b.req = "ROUTE_INVERSE" /\ b.app = p.app /\ b.receiver = p.receiver
    BY <1>2, NodeFacts, Int8Facts DEF node_packet, PacketReq
  <2> HIDE DEF b
  <2>2. back = WithCrc(b)
    BY DEF b
  <2>3. QED
    BY <2>1, <2>2, WithCrcFields
<1>7. next # UINT8_MAX => next \in Neighbours(n)
  BY <1>2, <1>3, NextAddrGood
<1>8. \/ Discard(n, l) /\ UNCHANGED <<messages, handled, notes>>
      \/ /\ ~get_was_message_by_id(messages[n], id)
         /\ \/ /\ Flood(n, l, [p EXCEPT !.local = n])
               /\ messages' = [messages EXCEPT ![n] = was]
               /\ UNCHANGED <<handled, notes>>
            \/ /\ Discard(n, l) /\ UNCHANGED <<handled, notes>>
               /\ \/ messages' = [messages EXCEPT ![n] = was]
                  \/ messages' = [messages EXCEPT ![n] = done]
            \/ /\ next # UINT8_MAX /\ p.receiver = n
               /\ messages' = [messages EXCEPT ![n] = done]
               /\ Send(n, l, {next, Server}, y)
               /\ Account(n, {next, Server}, p.app, node_app_handle_request(p.app), {Verdict(p.app)})
            \/ /\ next # UINT8_MAX /\ Send(n, l, {next}, y)
               /\ messages' = [messages EXCEPT ![n] = done]
               /\ UNCHANGED <<handled, notes>>
  <2>1. CASE p.ttl <= 0 \/ get_was_message_by_id(messages[n], id)
    BY <1>2, <2>1 DEF HandleRouteDirect, nodeVars
  <2>2. CASE ~(p.ttl <= 0 \/ get_was_message_by_id(messages[n], id)) /\ p.receiver # n
    BY <1>2, <2>2 DEF HandleRouteDirect, Update
  <2>3. CASE ~(p.ttl <= 0 \/ get_was_message_by_id(messages[n], id)) /\ p.receiver = n
    <3>1. route_direct_handle_delivered(n, l, p, rt, was)
      BY <1>2, <2>3 DEF HandleRouteDirect
    <3> HIDE DEF was, rt
    <3>2. QED
      BY <1>6, <2>3, <3>1 DEF route_direct_handle_delivered, Update
  <2>4. QED
    BY <2>1, <2>2, <2>3
<1> HIDE DEF next, rt, back
<1>9. \A to : (/\ ~get_was_message_by_id(messages[n], id)
               /\ \/ messages' = [messages EXCEPT ![n] = was]
                  \/ messages' = [messages EXCEPT ![n] = done]) => Remembers(l, to)
  BY <1>1 DEF Remembers
<1>10. CASE Discard(n, l) /\ UNCHANGED <<messages, handled, notes>>
  <2>1. Remembers(l, {})
    BY <1>1, <1>10 DEF Remembers
  <2>2. QED
    BY <1>1, <1>4, <1>10, <2>1, DiscardWrites, Zenon DEF Handles
<1>11. CASE /\ ~get_was_message_by_id(messages[n], id)
            /\ Flood(n, l, [p EXCEPT !.local = n])
            /\ messages' = [messages EXCEPT ![n] = was]
            /\ UNCHANGED <<handled, notes>>
  <2> DEFINE f == [p EXCEPT !.local = n]
  <2>1. f \in node_packet /\ f.app = p.app /\ f.receiver = p.receiver
    BY <1>2, NodeFacts DEF node_packet
  <2>2. Flood(n, l, f)
    BY <1>11
  <2> HIDE DEF f
  <2>3. PICK z : z = broadcast_route(f) /\ z.req = "ROUTE_DIRECT" /\ z.app = p.app /\ z.receiver = p.receiver
    BY <2>1, BroadcastRouteFields
  <2>4. Send(n, l, Neighbours(n), z)
    BY <2>2, <2>3 DEF Flood, Send
  <2>5. \A k \in Link : k[1] = n /\ k[2] \in Neighbours(n) => Follows(l, p, k, z)
    BY <1>1, <1>2, <2>3 DEF Follows
  <2>6. Writes(l, Neighbours(n), [q \in Node |-> z])
    BY <1>1, <2>3, <2>4, <2>5, SendWrites
  <2>7. QED
    BY <1>1, <1>4, <1>9, <1>11, <2>6, Zenon DEF Handles
<1>12. CASE /\ ~get_was_message_by_id(messages[n], id)
            /\ Discard(n, l) /\ UNCHANGED <<handled, notes>>
            /\ \/ messages' = [messages EXCEPT ![n] = was]
               \/ messages' = [messages EXCEPT ![n] = done]
  BY <1>1, <1>4, <1>9, <1>12, DiscardWrites, Zenon DEF Handles
<1>13. CASE /\ ~get_was_message_by_id(messages[n], id)
            /\ next # UINT8_MAX /\ p.receiver = n
            /\ messages' = [messages EXCEPT ![n] = done]
            /\ Send(n, l, {next, Server}, y)
            /\ Account(n, {next, Server}, p.app, node_app_handle_request(p.app), {Verdict(p.app)})
  <2>1. \A k \in Link : k[1] = n /\ k[2] \in {next, Server} => Follows(l, p, k, y)
    BY <1>1, <1>2, <1>6, <1>7, <1>13, LinkFacts, NodeFacts DEF Follows
  <2>2. Writes(l, {next, Server}, [q \in Node |-> y])
    BY <1>1, <1>7, <1>13, <2>1, SendWrites
  <2>3. {Verdict(p.app)} \cup (IF p.app.req_type = "UNICAST" THEN {"GOT"} ELSE {}) = {Verdict(p.app)}
    BY <1>5
  <2>4. Offers(l, {next, Server})
    BY <1>1, <1>5, <1>13, <2>3 DEF Offers
  <2>5. QED
    BY <1>1, <1>4, <1>9, <1>13, <2>2, <2>4, Zenon DEF Handles
<1>14. CASE /\ ~get_was_message_by_id(messages[n], id)
            /\ next # UINT8_MAX /\ Send(n, l, {next}, y)
            /\ messages' = [messages EXCEPT ![n] = done]
            /\ UNCHANGED <<handled, notes>>
  <2>1. \A k \in Link : k[1] = n /\ k[2] \in {next} => Follows(l, p, k, y)
    BY <1>1, <1>2, <1>6, <1>7, <1>14 DEF Follows
  <2>2. Writes(l, {next}, [q \in Node |-> y])
    BY <1>1, <1>7, <1>14, <2>1, SendWrites
  <2>3. QED
    BY <1>1, <1>4, <1>9, <1>14, <2>2, Zenon DEF Handles
<1>15. QED
  BY <1>8, <1>10, <1>11, <1>12, <1>13, <1>14

\* handle_node_route_inverse.
LEMMA RouteInverseHandles ==
  ASSUME IInv, NetMeant, NEW l \in Link, HandleRouteInverse(l)
  PROVE  Handles(l)
<1> DEFINE n == l[2]
           p == Head(net[l])
           rt == LearnInverse(routing[n], p)
           next == routing_next_addr(rt, p.sender)
           on == WithCrc([p EXCEPT !.local = n, !.ttl = ToInt8(p.ttl - 1)])
<1>1. /\ net[l] # << >> /\ p.req = "ROUTE_INVERSE" /\ proc[n] # "down"
      /\ Frame /\ UNCHANGED <<messages, handled, notes>>
  BY DEF HandleRouteInverse, Receives
<1>2. /\ p \in node_packet /\ is_valid_crc(p)
      /\ n \in Node /\ n # Server /\ l[1] # Server /\ p.local \in Neighbours(n)
  BY <1>1, PacketFacts DEF PacketReq
<1>3. rt \in Routes(n)
  BY <1>2, RoutesOfNode, LearnGood DEF IInv
<1>4. Takable(l, p) /\ \A to : Remembers(l, to)
  BY <1>1, <1>2 DEF Takable, Remembers
<1>5. PICK y : y = on /\ y.req = "ROUTE_INVERSE" /\ y.app = p.app /\ y.receiver = p.receiver
  <2> DEFINE o == [p EXCEPT !.local = n, !.ttl = ToInt8(p.ttl - 1)]
  <2>1. p.ttl \in Int
    BY <1>2, Int8Facts DEF node_packet
  <2>2. ToInt8(p.ttl - 1) \in Int8
    BY <2>1, ToInt8Type
  <2>3. o \in node_packet /\ o.req = "ROUTE_INVERSE" /\ o.app = p.app /\ o.receiver = p.receiver
    BY <1>1, <1>2, <2>2, NodeFacts DEF node_packet
  <2> HIDE DEF o
  <2>4. on = WithCrc(o)
    BY DEF o
  <2>5. QED
    BY <2>3, <2>4, WithCrcFields
<1>6. next # UINT8_MAX => next \in Neighbours(n)
  BY <1>2, <1>3, NextAddrGood
<1>7. Discard(n, l) \/ (next # UINT8_MAX /\ Send(n, l, {next}, y))
  BY <1>5 DEF HandleRouteInverse
<1> HIDE DEF next, rt, on
<1>8. CASE Discard(n, l)
  BY <1>1, <1>4, <1>8, DiscardWrites, Zenon DEF Handles
<1>9. CASE next # UINT8_MAX /\ Send(n, l, {next}, y)
  <2>1. \A k \in Link : k[1] = n /\ k[2] \in {next} => Follows(l, p, k, y)
    BY <1>1, <1>2, <1>5, <1>6, <1>9 DEF Follows
  <2>2. Writes(l, {next}, [q \in Node |-> y])
    BY <1>1, <1>6, <1>9, <2>1, SendWrites
  <2>3. QED
    BY <1>1, <1>4, <2>2, Zenon DEF Handles
<1>10. QED
  BY <1>7, <1>8, <1>9

\* A message of the contest at the head of a link.
LEMMA ContestFacts ==
  ASSUME IInv, NEW l \in Link, net[l] # << >>,
         Head(net[l]).req \in {"UNICAST_CONTEST", "UNICAST_FIRST"}
  PROVE  LET u == Head(net[l])
         IN  /\ u \in unicast_contest /\ u.app \in AppPayload /\ u.app.id \in MessageId
             /\ l[1] # Server /\ u.node_addr = l[1] /\ l[1] \in Neighbours(l[2])
             /\ l[1] \in Node /\ l[2] \in Node
<1> DEFINE u == Head(net[l])
<1>1. u \in Carried(l) /\ u \in Message /\ l[2] \in Node
  BY HeadFacts DEF IInv
<1>2. u \in unicast_contest
  BY <1>1, PacketOf
<1>3. QED
  BY <1>1, <1>2, LinkFacts DEF Carried, unicast_contest, AppPayload

\* handle_unicast_contest.
LEMMA ContestHandles ==
  ASSUME IInv, NetMeant, NEW l \in Link, HandleUnicastContest(l)
  PROVE  Handles(l)
<1> DEFINE n == l[2]
           u == Head(net[l])
<1>1. PICK y : y = [u EXCEPT !.req = "UNICAST_FIRST", !.node_addr = n]
  OBVIOUS
<1>2. /\ net[l] # << >> /\ u.req = "UNICAST_CONTEST" /\ proc[n] # "down"
      /\ Frame /\ UNCHANGED <<messages, handled, notes>> /\ Send(n, l, {u.node_addr}, y)
  BY <1>1 DEF HandleUnicastContest, Receives, nodeVars
<1>3. u \in unicast_contest /\ l[1] # Server /\ u.node_addr = l[1] /\ l[1] \in Neighbours(n)
  BY <1>2, ContestFacts
<1>4. y.req = "UNICAST_FIRST" /\ y.app = u.app
  BY <1>1, <1>3 DEF unicast_contest
<1>5. Takable(l, u) /\ \A to : Remembers(l, to)
  BY <1>2, <1>3 DEF Takable, Remembers
<1>6. \A k \in Link : k[1] = n /\ k[2] \in {u.node_addr} => Follows(l, u, k, y)
  BY <1>2, <1>3, <1>4 DEF Follows
<1>7. Writes(l, {u.node_addr}, [q \in Node |-> y])
  BY <1>2, <1>3, <1>6, SendWrites
<1>8. QED
  BY <1>2, <1>5, <1>7, Zenon DEF Handles

\* handle_unicast_first.
LEMMA FirstHandles ==
  ASSUME IInv, NetMeant, NEW l \in Link, HandleUnicastFirst(l)
  PROVE  Handles(l)
<1> DEFINE n == l[2]
           u == Head(net[l])
           s == [req |-> "SEND", sender |-> n, receiver |-> u.node_addr,
                 local |-> 0, ttl |-> 0, app |-> u.app, crc |-> << >>]
<1>1. /\ net[l] # << >> /\ u.req = "UNICAST_FIRST" /\ proc[n] # "down"
      /\ Frame /\ UNCHANGED <<handled, notes>>
      /\ messages' = [messages EXCEPT ![n] = set_unicast_status_by_id(messages[n], u.app.id)]
      /\ \/ Discard(n, l)
         \/ ~is_id_set(messages[n], u.app.id) /\ Send(n, l, {u.node_addr}, WithCrc(s))
  BY DEF HandleUnicastFirst, Receives, send_to_winner
<1>2. /\ u \in unicast_contest /\ l[1] # Server /\ u.node_addr = l[1]
      /\ l[1] \in Neighbours(n) /\ n \in Node
  BY <1>1, ContestFacts
<1>3. s \in node_packet /\ s.req = "SEND" /\ s.app = u.app /\ s.receiver = l[1]
  <2>1. 0 \in Addr
    BY DEF Addr, UINT8_MAX
  <2>2. QED
    BY <1>2, <2>1, NodeFacts, Int8Facts
       DEF node_packet, unicast_contest, PacketReq
<1> HIDE DEF s
<1>4. PICK y : y = WithCrc(s) /\ y.req = "SEND" /\ y.app = u.app /\ y.receiver = l[1]
  BY <1>3, WithCrcFields
<1>5. Takable(l, u)
  BY <1>1, <1>2 DEF Takable
<1>6. CASE Discard(n, l)
  <2>1. Remembers(l, {})
    BY <1>1 DEF Remembers
  <2>2. QED
    BY <1>1, <1>5, <1>6, <2>1, DiscardWrites, Zenon DEF Handles
<1>7. CASE ~is_id_set(messages[n], u.app.id) /\ Send(n, l, {u.node_addr}, y)
  <2>1. \A k \in Link : k[1] = n /\ k[2] \in {u.node_addr} => Follows(l, u, k, y)
    BY <1>1, <1>2, <1>4 DEF Follows
  <2>2. Writes(l, {u.node_addr}, [q \in Node |-> y])
    BY <1>1, <1>2, <1>7, <2>1, SendWrites
  <2>3. Remembers(l, {u.node_addr})
    BY <1>1, <1>7 DEF Remembers
  <2>4. QED
    BY <1>1, <1>5, <2>2, <2>3, Zenon DEF Handles
<1>8. QED
  BY <1>1, <1>4, <1>6, <1>7

\* All handlers but handle_reset.
LEMMA HandlersHandle ==
  ASSUME IInv, NetMeant, NEW l \in Link, Handle(l)
  PROVE  Handles(l) \/ HandleReset(l)
<1>1. CASE HandleServer(l)
  BY <1>1, ServerSendHandles, BroadcastHandles, ServerUnicastHandles DEF HandleServer
<1>2. CASE HandleNode(l)
  BY <1>2, NodeSendHandles, RouteDirectHandles, RouteInverseHandles, ContestHandles,
     FirstHandles DEF HandleNode
<1>3. QED
  BY <1>1, <1>2 DEF Handle

-----------------------------------------------------------------------------
(***************************************************************************)
(* The invariant: every message under way serves a request as it should,   *)
(* and the apps have accepted messages only where the requests were for.   *)
(***************************************************************************)
IsFor(r, n) ==
  IF r.cmd = "SEND" THEN n = r.receiver
  ELSE r.sender \in Node /\ n \in Neighbours(r.sender)

OnlyAddressees ==
  \A u \in Uid, n \in Node :
    handled[u][n] > 0 => u \in 1 .. Len(issued) /\ IsFor(issued[u], n)

SInv == NetMeant /\ OnlyAddressees

\* A message is offered only to the apps of a node it is for.
LEMMA OfferedIsFor ==
  ASSUME IInv, NetMeant, NEW l \in Link, net[l] # << >>, Takable(l, Head(net[l])),
         NEW to, Offers(l, to)
  PROVE  LET x == Head(net[l])
         IN  x.app.uid \in 1 .. Len(issued) /\ IsFor(issued[x.app.uid], l[2])
<1> DEFINE x == Head(net[l])
<1>1. x.req \in {"SEND", "ROUTE_DIRECT"} /\ x.receiver = l[2]
  BY DEF Offers
<1>2. PICK r \in Requests : r = issued[x.app.uid] /\ Serves(l, x, r) /\ x.app.uid \in 1 .. Len(issued)
  BY <1>1, HeadMeant
<1>3. r.cmd \in ServerCmd
  BY RequestFields
<1>4. IsFor(r, l[2])
  <2>1. CASE l[1] = Server
    BY <1>1, <1>2, <1>3, <2>1 DEF Serves, FromServer, ServerCmd, IsFor
  <2>2. CASE l[1] # Server
    BY <1>1, <1>2, <1>3, <2>2 DEF Serves, FromNode, ServerCmd, IsFor
  <2>3. QED
    BY <2>1, <2>2
<1>5. QED
  BY <1>2, <1>4

\* A handler keeps the messages under way in order.
LEMMA HandlesMeant ==
  ASSUME IInv, NetMeant, NEW l \in Link, Handles(l)
  PROVE  NetMeant'
<1> DEFINE x == Head(net[l])
<1>1. PICK to, msg : Writes(l, to, msg)
  BY DEF Handles
<1>2. net[l] # << >> /\ Takable(l, x) /\ x.req # "RESET"
  BY DEF Handles, Takable, ServerCmd
<1>3. PICK r \in Requests : /\ x.app \in AppPayload /\ x.app.uid \in 1 .. Len(issued)
                            /\ r = issued[x.app.uid] /\ Serves(l, x, r)
  BY <1>2, HeadMeant
<1>4. Exchange(l[2], {l}, to, msg) /\ UNCHANGED issued
  BY <1>1 DEF Writes, Frame
<1>5. ASSUME NEW k \in Link, k[1] = l[2], k[2] \in to
      PROVE  Meant(issued', k, msg[k[2]])
  <2>1. PICK y : y = msg[k[2]] /\ Follows(l, x, k, y)
    BY <1>1, <1>5 DEF Writes
  <2> HIDE DEF x
  <2>2. Serves(k, y, r) /\ y.app.uid = x.app.uid
    <3>1. PICK z : z = x
      OBVIOUS
    <3>2. z.app \in AppPayload /\ Serves(l, z, r) /\ Takable(l, z) /\ Follows(l, z, k, y)
      BY <1>2, <1>3, <2>1, <3>1
    <3>3. Serves(k, y, r) /\ y.app.uid = z.app.uid
      BY <3>2, FollowsServes
    <3>4. QED
      BY <3>1, <3>3
  <2>3. issued' = issued /\ r = issued'[x.app.uid] /\ x.app.uid \in 1 .. Len(issued')
    BY <1>3, <1>4
  <2>4. QED
    BY <2>1, <2>2, <2>3 DEF Meant
<1>6. {l} \in SUBSET Link /\ \A k \in {l} : net[k] # << >>
  BY <1>2
<1>7. \A k \in Link : k[1] = l[2] /\ k[2] \in to => Meant(issued', k, msg[k[2]])
  BY <1>5
<1>8. QED
  BY <1>4, <1>6, <1>7, ExchangeMeant

\* A step that writes nothing, or no more than a RESET.
LEMMA NothingNew ==
  ASSUME IInv, NetMeant, UNCHANGED issued,
         \A l \in Link : \A i \in 1 .. Len(net'[l]) :
           \/ net'[l][i].req = "RESET"
           \/ \E j \in 1 .. Len(net[l]) : net'[l][i] = net[l][j]
  PROVE  NetMeant'
<1> SUFFICES ASSUME NEW l \in Link, NEW i \in 1 .. Len(net'[l])
             PROVE  Meant(issued', l, net'[l][i])
  BY DEF NetMeant
<1>1. CASE net'[l][i].req = "RESET"
  BY <1>1 DEF Meant
<1>2. CASE \E j \in 1 .. Len(net[l]) : net'[l][i] = net[l][j]
  BY <1>2, MeantStays DEF NetMeant
<1>3. QED
  BY <1>1, <1>2

\* What Account changes of the history.
LEMMA AccountFacts ==
  ASSUME HistoryInv, NEW n \in Node, NEW to, NEW a \in AppPayload, NEW ok, NEW kinds,
         Account(n, to, a, ok, kinds), NEW u \in Uid, NEW m \in Node,
         u # a.uid \/ m # n \/ ~ok
  PROVE  handled'[u][m] = handled[u][m]
<1>1. a.uid \in Uid /\ handled \in [Uid -> [Node -> 0 .. 2]]
  BY DEF AppPayload, HistoryInv
<1>2. CASE ok /\ handled[a.uid][n] < 2
  <2>1. handled' = [handled EXCEPT ![a.uid][n] = @ + 1]
    BY <1>2 DEF Account
  <2>2. QED
    BY <1>1, <1>2, <2>1
<1>3. CASE ~(ok /\ handled[a.uid][n] < 2)
  BY <1>3 DEF Account
<1>4. QED
  BY <1>2, <1>3

\* The payload as the apps get it has the uid of the message.
LEMMA PayloadFacts ==
  ASSUME NEW l, NEW x, x.app \in AppPayload
  PROVE  LET a == PayloadOf(l, x)
         IN  /\ a \in AppPayload /\ a.uid = x.app.uid /\ a.id = x.app.id
             /\ a.req_type = x.app.req_type /\ a.to = x.app.to
BY SetupType, SetupFields DEF PayloadOf

\* Only addressees accept a message in a handler.
LEMMA HandlesAddressees ==
  ASSUME IInv, SInv, NEW l \in Link, Handles(l)
  PROVE  OnlyAddressees'
<1>1. PICK x : x = Head(net[l])
  OBVIOUS
<1>2. PICK to, msg : Writes(l, to, msg) /\ (Offers(l, to) \/ UNCHANGED <<handled, notes>>)
  BY DEF Handles
<1>3. issued' = issued
  BY <1>2 DEF Writes, Frame
<1>4. net[l] # << >> /\ Takable(l, x) /\ x.req # "RESET"
  BY <1>1 DEF Handles, Takable, ServerCmd
<1>5. x.app \in AppPayload
  BY <1>1, <1>4, HeadMeant DEF SInv
<1>6. CASE Offers(l, to)
  <2>1. PICK a : a = PayloadOf(l, x) /\ a \in AppPayload /\ a.uid = x.app.uid
    BY <1>5, PayloadFacts
  <2>2. PICK ok, kinds : Account(l[2], to, a, ok, kinds)
    BY <1>1, <1>6, <2>1 DEF Offers
  <2>3. a.uid \in 1 .. Len(issued) /\ IsFor(issued[a.uid], l[2])
    BY <1>1, <1>4, <1>6, <2>1, OfferedIsFor DEF SInv
  <2>4. \A u \in Uid, m \in Node : u # a.uid \/ m # l[2] => handled'[u][m] = handled[u][m]
    BY <2>1, <2>2, AccountFacts, LinkFacts DEF IInv
  <2>5. QED
    BY <1>3, <2>3, <2>4 DEF SInv, OnlyAddressees
<1>7. CASE UNCHANGED <<handled, notes>>
  BY <1>3, <1>7 DEF SInv, OnlyAddressees
<1>8. QED
  BY <1>2, <1>6, <1>7

\* handle_reset.
LEMMA ResetMeant ==
  ASSUME IInv, SInv, NEW l \in Link, HandleReset(l)
  PROVE  SInv'
<1>1. /\ net' = [net EXCEPT ![l] = Tail(@)] /\ UNCHANGED <<issued, handled>>
      /\ net[l] # << >>
  BY DEF HandleReset, historyVars, Receives
<1>2. \A k \in Link : net[k] \in Seq(Message)
  BY DEF IInv, NetInv
<1>3. ASSUME NEW k \in Link, NEW i \in 1 .. Len(net'[k])
      PROVE  \E j \in 1 .. Len(net[k]) : net'[k][i] = net[k][j]
  <2>1. CASE k = l
    <3>1. net'[k] = Tail(net[k]) /\ net[k] # << >>
      BY <1>1, <2>1 DEF IInv, NetInv
    <3>2. i + 1 \in 1 .. Len(net[k]) /\ net'[k][i] = net[k][i + 1]
      BY <1>2, <1>3, <3>1
    <3>3. QED
      BY <3>2
  <2>2. CASE k # l
    <3>1. net'[k] = net[k]
      BY <1>1, <2>2 DEF IInv, NetInv
    <3>2. QED
      BY <1>3, <3>1
  <2>3. QED
    BY <2>1, <2>2
<1>4. NetMeant'
  BY <1>1, <1>3, NothingNew DEF SInv
<1>5. QED
  BY <1>1, <1>4 DEF SInv, OnlyAddressees

\* The payload of request r, number u, with the id that the server gives it.
AppOf(r, id, u) == [req_type |-> r.cmd, to |-> r.to, id |-> id, msg |-> r.msg, uid |-> u]

\* What the server writes for a request.
Passed(r, msg) ==
  \A q \in Node : /\ msg[q].req = r.cmd /\ msg[q].app = AppOf(r, app_msg_id, Len(issued) + 1)
                  /\ r.cmd = "SEND" => msg[q].receiver = r.receiver

LEMMA RequestWrites ==
  ASSUME NEW r \in Requests, NEW g \in Uninitialised, ClientRequest(r, g)
  PROVE  \E msg : Exchange(Server, {}, {r.sender} \cap Node, msg) /\ Passed(r, msg)
<1> DEFINE a == AppOf(r, app_msg_id, Len(issued) + 1)
           p == [req |-> r.cmd, sender |-> r.sender,
                 receiver |-> IF r.cmd = "SEND" THEN r.receiver ELSE g,
                 local |-> g,
                 ttl |-> IF r.cmd = "SEND" THEN g ELSE BROADCAST_RADIUS,
                 app |-> a, crc |-> << >>]
           msg == [q \in Node |-> IF r.cmd = "SEND" THEN WithCrc(p) ELSE p]
<1>1. Exchange(Server, {}, {r.sender} \cap Node, msg)
  BY DEF ClientRequest, AppOf
<1> HIDE DEF a
<1>2. p.req = r.cmd /\ p.app = a /\ (r.cmd = "SEND" => p.receiver = r.receiver)
  OBVIOUS
<1>3. WithCrc(p).req = r.cmd /\ WithCrc(p).app = a
      /\ (r.cmd = "SEND" => WithCrc(p).receiver = r.receiver)
  BY DEF WithCrc
<1> HIDE DEF p
<1>4. Passed(r, msg)
  BY <1>2, <1>3 DEF Passed, a
<1>5. QED
  BY <1>1, <1>4

\* A request of a client.
LEMMA ClientRequestMeant ==
  ASSUME IInv, SInv, NEW r \in Requests, NEW g \in Uninitialised, ClientRequest(r, g)
  PROVE  SInv'
<1> DEFINE to == {r.sender} \cap Node
<1>1. PICK msg : Exchange(Server, {}, to, msg) /\ Passed(r, msg)
  BY RequestWrites
<1>2. issued \in Seq(Requests) /\ Len(issued) \in Nat
  BY DEF IInv, HistoryInv
<1>3. issued' = Append(issued, r) /\ UNCHANGED handled
  BY DEF ClientRequest
<1>4. issued'[Len(issued) + 1] = r /\ Len(issued') = Len(issued) + 1
  BY <1>2, <1>3
<1>5. ASSUME NEW k \in Link, k[1] = Server, k[2] \in to
      PROVE  Meant(issued', k, msg[k[2]])
  <2>1. k[2] \in Node /\ k[2] = r.sender
    BY <1>5
  <2>2. PICK x : /\ x = msg[k[2]] /\ x.req = r.cmd
                 /\ x.app = AppOf(r, app_msg_id, Len(issued) + 1)
                 /\ r.cmd = "SEND" => x.receiver = r.receiver
    BY <1>1, <2>1 DEF Passed
  <2>3. /\ x.app.req_type = r.cmd /\ x.app.to = r.to /\ x.app.msg = r.msg
        /\ x.app.uid = Len(issued) + 1
    BY <2>2 DEF AppOf
  <2>4. Serves(k, x, r)
    BY <1>5, <2>1, <2>2, <2>3 DEF Serves, FromServer
  <2>5. x.app.uid \in 1 .. Len(issued') /\ issued'[x.app.uid] = r
    BY <1>2, <1>4, <2>3
  <2>6. QED
    BY <2>2, <2>4, <2>5 DEF Meant
<1>6. \A k \in Link : k[1] = Server /\ k[2] \in to => Meant(issued', k, msg[k[2]])
  BY <1>5
<1> HIDE DEF to
<1>7. NetMeant'
  BY <1>1, <1>3, <1>6, ExchangeMeant DEF SInv
<1>8. OnlyAddressees'
  BY <1>2, <1>3 DEF SInv, OnlyAddressees
<1>9. QED
  BY <1>7, <1>8 DEF SInv

\* A reset by a client, as far as the server handles it.
LEMMA ClientResetMeant ==
  ASSUME IInv, SInv, ClientReset
  PROVE  SInv'
<1>1. PICK reach : net' = [l \in Link |-> IF l[1] = Server /\ l[2] \in reach /\ l[3] = 0
                            THEN Append(net[l], [req |-> "RESET"]) ELSE net[l]]
  BY DEF ClientReset
<1>2. UNCHANGED <<issued, handled>>
  BY DEF ClientReset, historyVars
<1>3. ASSUME NEW k \in Link, NEW i \in 1 .. Len(net'[k])
      PROVE  \/ net'[k][i].req = "RESET"
             \/ \E j \in 1 .. Len(net[k]) : net'[k][i] = net[k][j]
  <2>1. net[k] \in Seq(Message)
    BY DEF IInv, NetInv
  <2>2. CASE net'[k] = net[k]
    BY <1>3, <2>2
  <2>3. CASE net'[k] = Append(net[k], [req |-> "RESET"])
    <3>1. CASE i = Len(net[k]) + 1
      BY <2>1, <2>3, <3>1
    <3>2. CASE i \in 1 .. Len(net[k])
      <4>1. net'[k][i] = net[k][i]
        BY <2>1, <2>3, <3>2
      <4>2. QED
        BY <3>2, <4>1
    <3>3. QED
      BY <1>3, <2>1, <2>3, <3>1, <3>2
  <2>4. QED
    BY <1>1, <2>2, <2>3
<1>4. NetMeant'
  BY <1>2, <1>3, NothingNew DEF SInv
<1>5. QED
  BY <1>2, <1>4 DEF SInv, OnlyAddressees

\* The end of a node's process, which takes unread messages with it.
LEMMA NodeExitMeant ==
  ASSUME IInv, SInv, NEW n \in Node, NodeExit(n)
  PROVE  SInv'
<1>1. /\ net' = [l \in Link |-> IF l[2] = n THEN << >> ELSE net[l]]
      /\ UNCHANGED <<issued, handled>>
  BY DEF NodeExit, historyVars
<1>2. ASSUME NEW k \in Link, NEW i \in 1 .. Len(net'[k])
      PROVE  \E j \in 1 .. Len(net[k]) : net'[k][i] = net[k][j]
  <2>1. CASE net'[k] = << >>
    BY <1>2, <2>1
  <2>2. CASE net'[k] = net[k]
    BY <1>2, <2>2
  <2>3. QED
    BY <1>1, <2>1, <2>2
<1>3. NetMeant'
  BY <1>1, <1>2, NothingNew DEF SInv
<1>4. QED
  BY <1>1, <1>3 DEF SInv, OnlyAddressees

\* Steps that leave messages and history alone.
LEMMA NoMessages ==
  ASSUME IInv, SInv, UNCHANGED <<net, issued, handled>>
  PROVE  SInv'
BY DEF SInv, NetMeant, OnlyAddressees

\* The invariant holds when the mesh has started.
LEMMA InitMeant == Init => SInv
<1> SUFFICES ASSUME Init PROVE SInv
  OBVIOUS
<1>1. \A l \in Link : Len(net[l]) = 0
  BY DEF Init
<1>2. \A u \in Uid, n \in Node : handled[u][n] = 0
  BY DEF Init
<1>3. QED
  BY <1>1, <1>2 DEF SInv, NetMeant, OnlyAddressees

\* Every step keeps the invariant.
LEMMA NextMeant == IInv /\ SInv /\ [Next]_vars => SInv'
<1> SUFFICES ASSUME IInv, SInv, [Next]_vars PROVE SInv'
  OBVIOUS
<1>1. ASSUME NEW l \in Link, Handle(l)
      PROVE  SInv'
  <2>1. CASE Handles(l)
    BY <2>1, HandlesMeant, HandlesAddressees DEF SInv
  <2>2. CASE HandleReset(l)
    BY <2>2, ResetMeant
  <2>3. QED
    BY <1>1, <2>1, <2>2, HandlersHandle DEF SInv
<1>2. ASSUME NEW n \in Node, ClientKill(n) \/ ClientRevive(n) \/ NodeUpdate(n)
      PROVE  SInv'
  BY <1>2, NoMessages DEF ClientKill, ClientRevive, NodeUpdate, historyVars
<1>3. CASE Client
  BY <1>2, <1>3, ClientRequestMeant, ClientResetMeant DEF Client
<1>4. ASSUME NEW n \in Node, NodeUpdate(n) \/ NodeExit(n)
      PROVE  SInv'
  BY <1>2, <1>4, NodeExitMeant
<1>5. CASE UNCHANGED vars
  BY <1>5, NoMessages DEF vars, historyVars
<1>6. QED
  BY <1>1, <1>3, <1>4, <1>5 DEF Next

LEMMA MeantInvariance == Spec => [](IInv /\ SInv)
<1>1. QED
  BY InitInv, NextInv, InitMeant, NextMeant, PTL DEF Spec

(***************************************************************************)
(* Only the receiver of a send and the nodes in reach of the sender of a   *)
(* broadcast or a unicast ever hand a message to their apps with success:  *)
(* no flood, answer or contest carries the wrong receiver, whatever is     *)
(* reset, dies and starts again.                                           *)
(***************************************************************************)
THEOREM AddresseesHandle == Spec => []HandledByAddressee
<1>1. IInv /\ SInv => HandledByAddressee
  <2> SUFFICES ASSUME IInv, SInv, NEW u \in 1 .. Len(issued), NEW n \in Node, handled[u][n] > 0
               PROVE  n \in IF issued[u].cmd = "SEND" THEN {issued[u].receiver}
                            ELSE Neighbours(issued[u].sender)
    BY DEF HandledByAddressee
  <2>1. u \in Uid
    BY MeshAssumption DEF IInv, HistoryInv, Uid
  <2>2. IsFor(issued[u], n)
    BY <2>1 DEF SInv, OnlyAddressees
  <2>3. QED
    BY <2>2 DEF IsFor
<1>2. QED
  BY <1>1, MeantInvariance, PTL

-----------------------------------------------------------------------------
(***************************************************************************)
(* The step simulation.                                                    *)
(***************************************************************************)
Unbroken == MaxResets + MaxKills = 0

\* No node has accepted the message yet that is about to be offered.
Fresh ==
  \A l \in Link :
    LET x == Head(net[l])
    IN  /\ net[l] # << >> /\ x.req \in {"SEND", "ROUTE_DIRECT"} /\ x.receiver = l[2]
        /\ x.req = "ROUTE_DIRECT" => ~get_was_message_by_id(messages[l[2]], x.app.id)
        => \A m \in Service!Rivals(issued[x.app.uid], l[2]) : handled[x.app.uid][m] = 0

\* The apps accept what MeshService calls good.
LEMMA GoodIsAccepted ==
  ASSUME NEW r \in Requests, NEW a \in AppPayload,
         a.req_type = r.cmd, a.to = r.to, a.msg = Packed(r.msg)
  PROVE  node_app_handle_request(a) <=> r \in Acceptable
<1>1. PICK s : s = node_app_setup_delivery([req_type |-> r.cmd, to |-> r.to, msg |-> r.msg])
  OBVIOUS
<1>2. s.req_type = r.cmd /\ s.to = r.to /\ s.msg = Packed(r.msg)
  BY <1>1 DEF node_app_setup_delivery, Packed
<1>3. node_app_handle_request(a) <=> node_app_handle_request(s)
  BY <1>2 DEF node_app_handle_request
<1>4. r \in Acceptable <=> node_app_handle_request(s)
  BY <1>1 DEF Acceptable
<1>5. QED
  BY <1>3, <1>4

\* The addressees of MeshService.
LEMMA AddresseesAreFor ==
  ASSUME NEW r \in Requests, NEW n \in Node, IsFor(r, n)
  PROVE  n \in Service!Addressees(r)
<1>1. CASE r.cmd = "SEND"
  BY <1>1 DEF IsFor, Service!Addressees
<1>2. CASE r.cmd # "SEND"
  BY <1>2 DEF IsFor, Service!Addressees, ReachOf
<1>3. QED
  BY <1>1, <1>2

\* To offer a message to the apps is to deal with it.
LEMMA OfferDeals ==
  ASSUME IInv, SInv, Unbroken => Fresh, NEW l \in Link, NEW to,
         net[l] # << >>, Takable(l, Head(net[l])), Offers(l, to), UNCHANGED issued,
         Head(net[l]).req = "ROUTE_DIRECT"
           => ~get_was_message_by_id(messages[l[2]], Head(net[l]).app.id)
  PROVE  Service!Deal(Head(net[l]).app.uid, l[2]) /\ Head(net[l]).app.uid \in 1 .. Len(issued)
<1>1. PICK x : x = Head(net[l])
  OBVIOUS
<1>2. x.req \in {"SEND", "ROUTE_DIRECT"} /\ x.receiver = l[2] /\ l[2] \in Node
  BY <1>1, LinkFacts DEF Offers
<1>3. PICK u \in 1 .. Len(issued), r \in Requests :
         u = x.app.uid /\ x.app \in AppPayload /\ r = issued[u] /\ Serves(l, x, r)
  BY <1>1, <1>2, HeadMeant DEF SInv
<1>4. PICK a \in AppPayload : /\ a = PayloadOf(l, x) /\ a.uid = u
                              /\ a.req_type = r.cmd /\ a.to = r.to
  <2>1. x.app.req_type = r.cmd /\ x.app.to = r.to
    BY <1>3 DEF Serves
  <2>2. QED
    BY <1>3, <2>1, PayloadFacts
<1>5. a.msg = Packed(r.msg)
  <2>1. CASE l[1] = Server
    <3>1. x.app.msg = r.msg
      BY <1>3, <2>1 DEF Serves, FromServer
    <3>2. QED
      BY <1>3, <1>4, <2>1, <3>1, SetupFields DEF PayloadOf
  <2>2. CASE l[1] # Server
    BY <1>3, <1>4, <2>2 DEF Serves, FromNode, PayloadOf
  <2>3. QED
    BY <2>1, <2>2
<1>6. PICK ok : ok = node_app_handle_request(a) /\ (ok <=> r \in Acceptable)
  BY <1>4, <1>5, GoodIsAccepted
<1>7. PICK early : early = IF r.cmd = "UNICAST" THEN {"GOT"} ELSE {}
  OBVIOUS
<1>8. Account(l[2], to, a, ok, {Verdict(a)} \cup early)
  BY <1>1, <1>4, <1>6, <1>7 DEF Offers
<1>9. {Verdict(a)} = IF r \in Acceptable THEN {"GOT"} ELSE {"FAIL"}
  BY <1>6 DEF Verdict
<1>10. handled' = IF r \in Acceptable /\ handled[u][l[2]] < 2
                  THEN [handled EXCEPT ![u][l[2]] = @ + 1] ELSE handled
  BY <1>4, <1>6, <1>8 DEF Account
<1>11. notes' \in {notes, [notes EXCEPT ![u] = @ \cup ({Verdict(a)} \cup early)]}
  BY <1>4, <1>8 DEF Account
<1>12. l[2] \in Service!Addressees(r)
  BY <1>1, <1>2, <1>3, OfferedIsFor, AddresseesAreFor DEF SInv
<1>13. Unbroken => \A m \in Service!Rivals(r, l[2]) : handled[u][m] = 0
  BY <1>1, <1>2, <1>3 DEF Fresh
<1>14. Service!Deal(u, l[2])
  BY <1>3, <1>7, <1>9, <1>10, <1>11, <1>12, <1>13 DEF Service!Deal, Unbroken
<1>15. QED
  BY <1>1, <1>3, <1>14

\* Every step of the mesh is a step of MeshService or changes nothing there.
LEMMA Simulation ==
  ASSUME IInv, SInv, Unbroken => Fresh, [Next]_vars
  PROVE  [Service!Next]_(Service!vars)
<1>1. ASSUME NEW l \in Link, Handle(l)
      PROVE  Service!Next \/ UNCHANGED Service!vars
  <2>1. CASE HandleReset(l)
    BY <2>1 DEF HandleReset, historyVars, Service!vars
  <2>2. CASE Handles(l)
    <3>1. PICK to, msg : /\ Writes(l, to, msg) /\ Remembers(l, to)
                         /\ Offers(l, to) \/ UNCHANGED <<handled, notes>>
      BY <2>2 DEF Handles
    <3>2. UNCHANGED issued /\ net[l] # << >> /\ Takable(l, Head(net[l])) /\ l[2] \in Node
      BY <2>2, <3>1, LinkFacts DEF Writes, Frame, Handles
    <3>3. CASE UNCHANGED <<handled, notes>>
      BY <3>2, <3>3 DEF Service!vars
    <3>4. CASE Offers(l, to) /\ (Head(net[l]).req = "ROUTE_DIRECT"
                 => ~get_was_message_by_id(messages[l[2]], Head(net[l]).app.id))
      <4>1. PICK u \in 1 .. Len(issued) : Service!Deal(u, l[2])
        BY <3>2, <3>4, OfferDeals
      <4>2. QED
        BY <3>2, <4>1 DEF Service!Next
    <3>5. QED
      BY <3>1, <3>3, <3>4 DEF Remembers
  <2>3. QED
    BY <1>1, <2>1, <2>2, HandlersHandle DEF SInv
<1>2. ASSUME NEW r \in Requests, NEW g \in Uninitialised, ClientRequest(r, g)
      PROVE  Service!Next
  <2>1. Len(issued) < MaxRequests /\ issued' = Append(issued, r) /\ UNCHANGED <<handled, notes>>
    BY <1>2 DEF ClientRequest
  <2>2. Service!Ask(r)
    BY <2>1 DEF Service!Ask
  <2>3. QED
    BY <2>2 DEF Service!Next
<1>3. CASE ClientReset
  BY <1>3 DEF ClientReset, historyVars, Service!vars
<1>4. ASSUME NEW n \in Node, ClientKill(n) \/ ClientRevive(n) \/ NodeUpdate(n) \/ NodeExit(n)
      PROVE  UNCHANGED Service!vars
  BY <1>4 DEF ClientKill, ClientRevive, NodeUpdate, NodeExit, historyVars, Service!vars
<1>5. CASE UNCHANGED vars
  BY <1>5 DEF vars, historyVars, Service!vars
<1>6. QED
  BY <1>1, <1>2, <1>3, <1>4, <1>5 DEF Next, Client

LEMMA InitialService == Init => Service!Init
BY DEF Init, Service!Init, Uid, Service!Uid

(***************************************************************************)
(* A mesh whose nodes may be reset or killed implements MeshService: all   *)
(* it does to a message that a client sent is to have an addressee deal    *)
(* with it and the server told of the addressee's verdict.                 *)
(***************************************************************************)
THEOREM ServesDespiteFaults ==
  ASSUME MaxResets + MaxKills > 0
  PROVE  Spec => ImplementsService
<1>1. ~Unbroken
  BY MeshAssumption DEF Unbroken
<1>2. IInv /\ SInv /\ [Next]_vars => [Service!Next]_(Service!vars)
  BY <1>1, Simulation
<1>3. QED
  BY <1>2, InitialService, MeantInvariance, PTL DEF Spec, ImplementsService, Service!Spec

-----------------------------------------------------------------------------
(***************************************************************************)
(* Nodes are neither reset nor killed, and the table of a node has room    *)
(* for the ids of all messages: beyond MAX_MESSAGE_DATA messages it starts *)
(* over and forgets.                                                       *)
(***************************************************************************)
Few == Unbroken /\ MaxRequests <= MAX_MESSAGE_DATA

-----------------------------------------------------------------------------
(***************************************************************************)
(* Message tables that have not started over: the entries in use have      *)
(* different ids, all below m.                                             *)
(***************************************************************************)
Distinct(t, m) ==
  /\ \A i \in Entry : i < t.message_num => t.messages[i].id < m
  /\ \A i, j \in Entry :
       i < t.message_num /\ j < t.message_num /\ t.messages[i].id = t.messages[j].id => i = j

\* Table s has every entry of t, and perhaps more.
Keeps(t, s) ==
  /\ t.message_num <= s.message_num
  /\ \A i \in Entry : i < t.message_num =>
       s.messages[i].id = t.messages[i].id /\ t.messages[i].flags \subseteq s.messages[i].flags

LEMMA EntryFacts ==
  /\ Entry \subseteq Nat /\ MAX_MESSAGE_DATA \in Nat
  /\ \A i \in Nat : i < MAX_MESSAGE_DATA => i \in Entry
  /\ \A i \in Entry : i < MAX_MESSAGE_DATA
BY MessageDataAssumption DEF Entry

LEMMA TableFacts ==
  ASSUME NEW t \in MessageTable
  PROVE  /\ t.message_num \in Nat /\ t.message_num <= MAX_MESSAGE_DATA
         /\ t.messages \in [Entry -> message_data]
         /\ \A i \in Entry : t.messages[i].id \in Nat
<1>1. t.message_num \in 0 .. MAX_MESSAGE_DATA /\ t.messages \in [Entry -> message_data]
  BY DEF MessageTable
<1>2. \A i \in Entry : t.messages[i].id \in MessageId
  BY <1>1 DEF message_data
<1>3. MessageId \subseteq Nat
  BY DEF MessageId
<1>4. t.message_num \in Nat /\ t.message_num <= MAX_MESSAGE_DATA
  BY <1>1, EntryFacts
<1>5. QED
  BY <1>1, <1>2, <1>3, <1>4

\* A table with different ids below m has room for one more of them.
LEMMA RoomLeft ==
  ASSUME NEW t \in MessageTable, NEW m \in Nat, m <= MAX_MESSAGE_DATA, Distinct(t, m),
         NEW id \in 0 .. m - 1, ~is_id_set(t, id)
  PROVE  t.message_num < MAX_MESSAGE_DATA
<1> SUFFICES ASSUME t.message_num = MAX_MESSAGE_DATA PROVE FALSE
  BY TableFacts, EntryFacts
<1> DEFINE n == MAX_MESSAGE_DATA
           f == [i \in 0 .. (n + 1) - 1 |-> IF i < n THEN t.messages[i].id ELSE id]
<1>1. n \in Nat /\ n + 1 \in Nat
  BY EntryFacts
<1>2. \A i \in Entry : t.messages[i].id \in 0 .. m - 1 /\ t.messages[i].id # id
  <2>1. \A i \in Entry : i < t.message_num /\ t.messages[i].id < m
    BY EntryFacts DEF Distinct
  <2>2. \A i \in Entry : t.messages[i].id # id
    BY <2>1 DEF is_id_set, Matches
  <2>3. QED
    BY <2>1, <2>2, TableFacts
<1>3. \A i \in 0 .. (n + 1) - 1 : (i \in Entry /\ i < n) \/ i = n
  BY <1>1, EntryFacts
<1>4. \A i \in 0 .. (n + 1) - 1 : f[i] = IF i < n THEN t.messages[i].id ELSE id
  OBVIOUS
<1>5. f \in [0 .. (n + 1) - 1 -> 0 .. m - 1]
  BY <1>1, <1>2, <1>3
<1>6. \A i, j \in 0 .. (n + 1) - 1 : f[i] = f[j] => i = j
  <2>1. \A i, j \in Entry : t.messages[i].id = t.messages[j].id => i = j
    BY EntryFacts DEF Distinct
  <2> HIDE DEF f
  <2>2. QED
    BY <1>1, <1>2, <1>3, <1>4, <2>1
<1> HIDE DEF f
<1>7. n + 1 <= m
  BY <1>1, <1>5, <1>6, Pigeonhole
<1>8. QED
  BY <1>1, <1>7

\* What stays of a table that keeps its entries.
LEMMA KeepsRefl ==
  ASSUME NEW t \in MessageTable
  PROVE  Keeps(t, t)
BY TableFacts DEF Keeps

LEMMA KeepsTrans ==
  ASSUME NEW t \in MessageTable, NEW s \in MessageTable, NEW v \in MessageTable,
         Keeps(t, s), Keeps(s, v)
  PROVE  Keeps(t, v)
<1>1. t.message_num <= s.message_num /\ s.message_num <= v.message_num
      /\ t.message_num \in Nat /\ s.message_num \in Nat /\ v.message_num \in Nat
  BY TableFacts DEF Keeps
<1>2. t.message_num <= v.message_num
  BY <1>1
<1>3. \A i \in Entry : i < t.message_num => i < s.message_num
  BY <1>1, EntryFacts
<1>4. \A i \in Entry : i < t.message_num =>
        v.messages[i].id = t.messages[i].id /\ t.messages[i].flags \subseteq v.messages[i].flags
  <2>1. \A i \in Entry : i < t.message_num =>
          s.messages[i].id = t.messages[i].id /\ t.messages[i].flags \subseteq s.messages[i].flags
    BY DEF Keeps
  <2>2. \A i \in Entry : i < s.message_num =>
          v.messages[i].id = s.messages[i].id /\ s.messages[i].flags \subseteq v.messages[i].flags
    BY DEF Keeps
  <2>3. QED
    BY <1>3, <2>1, <2>2
<1>5. QED
  BY <1>2, <1>4 DEF Keeps

\* The entry of a known id, of which there is one.
LEMMA FirstMatchFacts ==
  ASSUME NEW t \in MessageTable, NEW m, Distinct(t, m), NEW id, NEW i \in Matches(t, id)
  PROVE  FirstMatch(t, id) = i
<1>1. i \in Entry /\ Matches(t, id) \subseteq Entry
  BY DEF Matches
<1>2. \A k \in Matches(t, id) : k = i
  BY DEF Matches, Distinct
<1>3. \A k \in Matches(t, id) : i <= k
  BY <1>1, <1>2, EntryFacts
<1>4. FirstMatch(t, id) \in Matches(t, id)
  BY <1>3 DEF FirstMatch
<1>5. QED
  BY <1>2, <1>4

\* What was known and flagged stays known and flagged.
LEMMA KeepsKnown ==
  ASSUME NEW t \in MessageTable, NEW s \in MessageTable, NEW m, NEW id, NEW flag,
         Distinct(t, m), Distinct(s, m), Keeps(t, s)
  PROVE  /\ is_id_set(t, id) => is_id_set(s, id)
         /\ Flagged(t, id, flag) => Flagged(s, id, flag)
<1>1. ASSUME NEW i \in Matches(t, id) PROVE i \in Matches(s, id) /\ i \in Entry /\ i < t.message_num
  <2>1. i \in Entry /\ i < t.message_num /\ t.messages[i].id = id
    BY DEF Matches
  <2>2. i < s.message_num
    BY <2>1, EntryFacts, TableFacts DEF Keeps
  <2>3. s.messages[i].id = id
    BY <2>1 DEF Keeps
  <2>4. QED
    BY <2>1, <2>2, <2>3 DEF Matches
<1>2. is_id_set(t, id) => is_id_set(s, id)
  BY <1>1 DEF is_id_set
<1>3. ASSUME Flagged(t, id, flag) PROVE Flagged(s, id, flag)
  <2>1. PICK i : i \in Matches(t, id)
    BY <1>3 DEF Flagged, is_id_set
  <2>2. i \in Matches(s, id) /\ i \in Entry /\ i < t.message_num
    BY <1>1, <2>1
  <2>3. FirstMatch(t, id) = i /\ FirstMatch(s, id) = i
    BY <2>1, <2>2, FirstMatchFacts
  <2>4. flag \in s.messages[i].flags
    BY <1>3, <2>2, <2>3 DEF Flagged, Keeps
  <2>5. QED
    BY <1>2, <1>3, <2>3, <2>4 DEF Flagged
<1>4. QED
  BY <1>2, <1>3

\* A look at an id below m enters it if need be, and forgets nothing.
LEMMA LookedKeeps ==
  ASSUME NEW t \in MessageTable, NEW m \in Nat, m <= MAX_MESSAGE_DATA, Distinct(t, m),
         NEW id \in MessageId, id < m
  PROVE  Keeps(t, Looked(t, id)) /\ Distinct(Looked(t, id), m)
<1>1. CASE is_id_set(t, id)
  BY <1>1, KeepsRefl DEF Looked
<1>2. CASE ~is_id_set(t, id)
  <2>1. id \in Nat /\ id \in 0 .. m - 1
    BY DEF MessageId
  <2>2. PICK n : n = t.message_num /\ n \in Nat /\ n < MAX_MESSAGE_DATA /\ n \in Entry
    BY <1>2, <2>1, RoomLeft, TableFacts, EntryFacts
  <2>3. PICK e : e.id = id /\ Looked(t, id) = Put(t, n, e)
    BY <1>2, <2>2, EntryFacts DEF Looked, set_new_id
  <2>4. PICK s : s = Looked(t, id) /\ s.message_num = n + 1 /\ s.messages = [t.messages EXCEPT ![n] = e]
    BY <2>3 DEF Put
  <2>5. s.messages[n].id = id /\ \A i \in Entry : i # n => s.messages[i] = t.messages[i]
    BY <2>2, <2>3, <2>4, TableFacts
  <2>6. \A i \in Entry : /\ i < n => i # n
                         /\ i < n + 1 => i = n \/ i < n
    BY <2>2, EntryFacts
  <2>7. Keeps(t, s)
    <3>1. t.message_num <= s.message_num
      BY <2>2, <2>4
    <3>2. QED
      BY <2>2, <2>5, <2>6, <3>1 DEF Keeps
  <2>8. \A i \in Entry : i < n => t.messages[i].id # id /\ t.messages[i].id < m
    BY <1>2, <2>2 DEF is_id_set, Matches, Distinct
  <2>9. \A i, j \in Entry : i < n /\ j < n /\ t.messages[i].id = t.messages[j].id => i = j
    BY <2>2 DEF Distinct
  <2>10. Distinct(s, m)
    BY <2>2, <2>4, <2>5, <2>6, <2>8, <2>9 DEF Distinct
  <2>11. QED
    BY <2>4, <2>7, <2>10
<1>3. QED
  BY <1>1, <1>2

\* Setting a flag of a known id.
LEMMA SetFlagKeeps ==
  ASSUME NEW t \in MessageTable, NEW m, Distinct(t, m), NEW id \in MessageId,
         NEW flag \in Flags, is_id_set(t, id)
  PROVE  LET s == SetFlag(t, id, flag)
         IN  Keeps(t, s) /\ Distinct(s, m) /\ is_id_set(s, id) /\ Flagged(s, id, flag)
<1>1. PICK s : s = SetFlag(t, id, flag)
  OBVIOUS
<1>2. s \in MessageTable
  BY <1>1, SetFlagType
<1>3. s.message_num = t.message_num /\ t.message_num \in Nat
  BY <1>1, TableFacts DEF SetFlag
<1>4. \A i \in Entry : s.messages[i] = IF i \in Matches(t, id)
                         THEN [id |-> id, flags |-> t.messages[i].flags \cup {flag}]
                         ELSE t.messages[i]
  BY <1>1 DEF SetFlag
<1>5. \A i \in Entry : s.messages[i].id = t.messages[i].id
                       /\ t.messages[i].flags \subseteq s.messages[i].flags
                       /\ (i \in Matches(t, id) => flag \in s.messages[i].flags)
  <2> SUFFICES ASSUME NEW i \in Entry
               PROVE  /\ s.messages[i].id = t.messages[i].id
                      /\ t.messages[i].flags \subseteq s.messages[i].flags
                      /\ i \in Matches(t, id) => flag \in s.messages[i].flags
    OBVIOUS
  <2>1. CASE i \in Matches(t, id)
    <3>1. s.messages[i] = [id |-> id, flags |-> t.messages[i].flags \cup {flag}]
      BY <1>4, <2>1
    <3>2. t.messages[i].id = id
      BY <2>1 DEF Matches
    <3>3. QED
      BY <3>1, <3>2
  <2>2. CASE i \notin Matches(t, id)
    BY <1>4, <2>2
  <2>3. QED
    BY <2>1, <2>2
<1>6. Keeps(t, s)
  BY <1>3, <1>5 DEF Keeps
<1>7. Distinct(s, m)
  BY <1>3, <1>5 DEF Distinct
<1>8. PICK i : i \in Matches(t, id) /\ i \in Entry
  BY DEF is_id_set, Matches
<1>9. i \in Matches(s, id)
  BY <1>3, <1>5, <1>8 DEF Matches
<1>10. FirstMatch(s, id) = i
  BY <1>2, <1>7, <1>9, FirstMatchFacts
<1>11. is_id_set(s, id) /\ Flagged(s, id, flag)
  BY <1>5, <1>8, <1>9, <1>10 DEF is_id_set, Flagged
<1>12. QED
  BY <1>1, <1>6, <1>7, <1>11

\* The setters forget nothing.
LEMMA SetKeeps ==
  ASSUME NEW t \in MessageTable, NEW m \in Nat, m <= MAX_MESSAGE_DATA, Distinct(t, m),
         NEW id \in MessageId, id < m, NEW flag \in Flags
  PROVE  LET s == SetFlag(Looked(t, id), id, flag)
         IN  /\ s \in MessageTable /\ Keeps(t, s) /\ Distinct(s, m)
             /\ is_id_set(s, id) /\ Flagged(s, id, flag)
<1>1. PICK v : v = Looked(t, id) /\ v \in MessageTable /\ Keeps(t, v) /\ Distinct(v, m)
  BY LookedType, LookedKeeps
<1>2. is_id_set(v, id)
  BY <1>1, KnownAfterLook
<1>3. PICK s : s = SetFlag(v, id, flag) /\ s \in MessageTable
  BY <1>1, SetFlagType
<1>4. Keeps(v, s) /\ Distinct(s, m) /\ is_id_set(s, id) /\ Flagged(s, id, flag)
  BY <1>1, <1>2, <1>3, SetFlagKeeps
<1>5. Keeps(t, s)
  BY <1>1, <1>3, <1>4, KeepsTrans
<1>6. QED
  BY <1>1, <1>3, <1>4, <1>5

-----------------------------------------------------------------------------
(***************************************************************************)
(* The invariant.                                                          *)
(***************************************************************************)
\* Nobody dies, and who has not started has seen nothing.
Calm ==
  /\ \A p, q \in Peer : conn[p][q] \in {"none", "open"}
  /\ \A p \in Peer : proc[p] # "term"
  /\ \A n \in Node : proc[n] = "down" => messages[n] = NewTable

\* Ids are given out in order, and the tables have not started over.
Numbered ==
  /\ app_msg_id = Len(issued)
  /\ \A n \in Node : Distinct(messages[n], Len(issued))

(***************************************************************************)
(* Two messages under way that serve the same request.  While the request  *)
(* waits at its sender there is no other; a send that goes from node to    *)
(* node is alone, apart from the other sends of a broadcast, and nothing   *)
(* is flooded beside it.                                                   *)
(***************************************************************************)
Apart(l, x, k, y) ==
  x.app.uid = y.app.uid =>
    /\ l[1] # Server /\ k[1] # Server
    /\ x.req = "SEND" => y.req # "ROUTE_DIRECT"
    /\ y.req = "SEND" => x.req # "ROUTE_DIRECT"
    /\ x.req = "SEND" /\ y.req = "SEND" => /\ x.receiver # y.receiver
                                           /\ x.app.req_type # "UNICAST"
                                           /\ y.app.req_type # "UNICAST"

NetApart ==
  \A l, k \in Link : \A i \in 1 .. Len(net[l]), j \in 1 .. Len(net[k]) :
    l # k \/ i # j => Apart(l, net[l][i], k, net[k][j])

(***************************************************************************)
(* A message under way, with the requests asked, what the apps accepted    *)
(* (h) and the tables of the nodes (tab).  A message that waits at its     *)
(* sender has been accepted nowhere, a send not by its receiver, a flood   *)
(* by its receiver only if that remembers it, and the message for the      *)
(* winner of a unicast by nobody, while its sender knows that it is gone.  *)
(***************************************************************************)
Sound(asked, h, tab, l, x) ==
  /\ x.req # "RESET" /\ x.app.id = x.app.uid - 1
  /\ l[1] = Server => \A m \in Node : h[x.app.uid][m] = 0
  /\ l[1] # Server /\ x.req = "SEND" =>
       /\ \A m \in Node : x.receiver = m \/ x.app.req_type = "UNICAST" => h[x.app.uid][m] = 0
       /\ x.app.req_type = "UNICAST" =>
            is_id_set(tab[asked[x.app.uid].sender], x.app.uid - 1)
  /\ x.req = "ROUTE_DIRECT" => \A m \in Node : x.receiver = m /\ h[x.app.uid][m] > 0 =>
                                 get_was_message_by_id(tab[m], x.app.uid - 1)

NetSound ==
  \A l \in Link : \A i \in 1 .. Len(net[l]) : Sound(issued, handled, messages, l, net[l][i])

\* The sender of a unicast that was accepted knows that it had a winner.
Known(asked, h, tab) ==
  \A u \in 1 .. Len(asked), m \in Node :
    asked[u].cmd = "UNICAST" /\ h[u][m] > 0 => is_id_set(tab[asked[u].sender], u - 1)

OInv == Calm /\ Numbered /\ NetApart /\ NetSound /\ Known(issued, handled, messages)

\* No death by SIGPIPE, and connections are opened at most.
LEMMA ExchangeCalm ==
  ASSUME IInv, Calm, NEW p \in Peer, NEW from, NEW to \in SUBSET Peer, NEW msg,
         Exchange(p, from, to, msg)
  PROVE  /\ proc' = proc
         /\ \A a, q \in Peer : conn'[a][q] \in {"none", "open"}
<1>1. ~Dies(p, to)
  BY DEF Dies, Calm
<1>2. proc' = proc /\ conn' = [conn EXCEPT ![p] = ConnAfter(p, to)]
  BY <1>1 DEF Exchange
<1>3. \A q \in Attempted(p, to) : q \in Reached(p, to) \/ conn[p][q] = "none"
  BY ReachedFacts DEF Calm, Reached
<1>4. \A q \in Peer : ConnAfter(p, to)[q] \in {"none", "open"}
  <2> SUFFICES ASSUME NEW q \in Peer PROVE ConnAfter(p, to)[q] \in {"none", "open"}
    OBVIOUS
  <2>1. conn[p][q] \in {"none", "open"}
    BY DEF Calm
  <2>2. ConnAfter(p, to)[q] = IF q \notin Attempted(p, to) THEN conn[p][q]
                              ELSE IF q \in Reached(p, to) THEN "open"
                              ELSE IF conn[p][q] = "none" THEN "none" ELSE "broken"
    BY DEF ConnAfter
  <2>3. QED
    BY <1>3, <2>1, <2>2
<1>5. \A a \in Peer : conn'[a] = IF a = p THEN ConnAfter(p, to) ELSE conn[a]
  BY <1>2 DEF IInv, NetInv
<1>6. QED
  BY <1>2, <1>4, <1>5 DEF Calm

-----------------------------------------------------------------------------
(***************************************************************************)
(* What a handler does to the tables and to what was accepted.             *)
(***************************************************************************)
\* No table forgets, and none but that of n changes.
Learns(n) ==
  /\ \A m \in Node : /\ messages'[m] \in MessageTable
                     /\ Keeps(messages[m], messages'[m])
                     /\ Distinct(messages'[m], Len(issued))
  /\ \A m \in Node : m # n => messages'[m] = messages[m]

\* Only node n accepts anything, and what it accepts is message x.
Accepts(n, x, to) ==
  \A v \in Uid, m \in Node : handled'[v][m] # handled[v][m] =>
    /\ v = x.app.uid /\ m = n /\ x.receiver = n
    /\ \/ x.req = "SEND" /\ to = {Server}
       \/ x.req = "ROUTE_DIRECT" /\ get_was_message_by_id(messages'[n], x.app.id)

\* The answers of a contest after the first come to nothing.
Chooses(n, x, to) ==
  x.req = "UNICAST_FIRST" => /\ is_id_set(messages'[n], x.app.id)
                             /\ is_id_set(messages[n], x.app.id) => to = {}

\* The message at the head of a link.
LEMMA HeadSound ==
  ASSUME Few, IInv, SInv, OInv, NEW l \in Link, net[l] # << >>
  PROVE  LET x == Head(net[l])
         IN  /\ x.app \in AppPayload /\ x.app.uid \in 1 .. Len(issued) /\ x.app.uid \in Uid
             /\ issued[x.app.uid] \in Requests /\ Serves(l, x, issued[x.app.uid])
             /\ Sound(issued, handled, messages, l, x)
             /\ x.app.id \in MessageId /\ x.app.id < Len(issued)
             /\ x.app.id = x.app.uid - 1
             /\ Len(issued) \in Nat /\ Len(issued) <= MAX_MESSAGE_DATA
<1>1. PICK x : x = Head(net[l])
  OBVIOUS
<1>2. x = net[l][1] /\ 1 \in 1 .. Len(net[l])
  BY <1>1 DEF IInv, NetInv
<1>3. Sound(issued, handled, messages, l, x)
  BY <1>2 DEF OInv, NetSound
<1>4. x.req # "RESET" /\ x.app.id = x.app.uid - 1
  BY <1>3 DEF Sound
<1>5. /\ x.app \in AppPayload /\ x.app.uid \in 1 .. Len(issued)
      /\ issued[x.app.uid] \in Requests /\ Serves(l, x, issued[x.app.uid])
  BY <1>1, <1>4, HeadMeant DEF SInv
<1>6. x.app.uid \in Uid /\ x.app.id \in MessageId
  BY <1>5 DEF AppPayload
<1>7. Len(issued) \in Nat /\ Len(issued) <= MaxRequests /\ MaxRequests \in Nat
  BY MeshAssumption DEF IInv, HistoryInv
<1>8. MaxRequests <= MAX_MESSAGE_DATA
  BY DEF Few
<1>9. Len(issued) <= MAX_MESSAGE_DATA
  BY <1>7, <1>8, EntryFacts
<1>10. x.app.id < Len(issued)
  BY <1>4, <1>5, <1>7
<1>11. QED
  BY <1>1, <1>3, <1>4, <1>5, <1>6, <1>7, <1>9, <1>10

\* A table that is replaced by one that keeps its entries.
LEMMA LearnsOne ==
  ASSUME IInv, Numbered, NEW n \in Node, NEW s \in MessageTable,
         Keeps(messages[n], s), Distinct(s, Len(issued)),
         messages' = [messages EXCEPT ![n] = s]
  PROVE  Learns(n) /\ messages'[n] = s
<1>1. messages \in [Node -> MessageTable]
  BY DEF IInv, TableInv
<1>2. \A m \in Node : messages'[m] = IF m = n THEN s ELSE messages[m]
  BY <1>1
<1>3. \A m \in Node : /\ messages[m] \in MessageTable /\ Keeps(messages[m], messages[m])
                      /\ Distinct(messages[m], Len(issued))
  BY <1>1, KeepsRefl DEF Numbered
<1>4. QED
  BY <1>2, <1>3 DEF Learns

LEMMA LearnsNothing ==
  ASSUME IInv, Numbered, NEW n \in Node, UNCHANGED messages
  PROVE  Learns(n)
BY KeepsRefl DEF IInv, TableInv, Numbered, Learns

\* The tables in a handler.
LEMMA RemembersLearns ==
  ASSUME Few, IInv, SInv, OInv, NEW l \in Link, net[l] # << >>, NEW to, Remembers(l, to)
  PROVE  /\ Learns(l[2]) /\ Chooses(l[2], Head(net[l]), to)
         /\ Head(net[l]).req = "ROUTE_DIRECT" =>
              \/ UNCHANGED handled
              \/ get_was_message_by_id(messages'[l[2]], Head(net[l]).app.id)
<1>1. PICK x, n : x = Head(net[l]) /\ n = l[2] /\ n \in Node
  BY LinkFacts
<1>2. PICK id \in MessageId, c \in Nat :
        id = x.app.id /\ c = Len(issued) /\ id < c /\ c <= MAX_MESSAGE_DATA
  BY <1>1, HeadSound
<1>3. PICK t \in MessageTable : t = messages[n] /\ Distinct(t, c)
  BY <1>1, <1>2 DEF IInv, TableInv, OInv, Numbered
<1>4. Numbered
  BY DEF OInv
<1>5. CASE x.req \notin {"ROUTE_DIRECT", "UNICAST_FIRST"}
  BY <1>1, <1>4, <1>5, LearnsNothing DEF Remembers, Chooses
<1>6. CASE x.req = "UNICAST_FIRST"
  <2>1. PICK s : s = SetFlag(Looked(t, id), id, "unicast_first")
    OBVIOUS
  <2>2. s \in MessageTable /\ Keeps(t, s) /\ Distinct(s, c) /\ is_id_set(s, id)
    BY <1>2, <1>3, <2>1, SetKeeps DEF Flags
  <2>3. messages' = [messages EXCEPT ![n] = s] /\ (is_id_set(t, id) => to = {})
    BY <1>1, <1>2, <1>3, <1>6, <2>1 DEF Remembers, set_unicast_status_by_id
  <2>4. Learns(n) /\ messages'[n] = s
    BY <1>1, <1>2, <1>3, <1>4, <2>2, <2>3, LearnsOne
  <2>5. QED
    BY <1>1, <1>2, <1>3, <1>6, <2>2, <2>3, <2>4 DEF Chooses
<1>7. CASE x.req = "ROUTE_DIRECT"
  <2>1. PICK s : s = SetFlag(Looked(t, id), id, "was_message")
    OBVIOUS
  <2>2. s \in MessageTable /\ Keeps(t, s) /\ Distinct(s, c) /\ Flagged(s, id, "was_message")
    BY <1>2, <1>3, <2>1, SetKeeps DEF Flags
  <2>3. PICK v : v = SetFlag(Looked(s, id), id, "stop_inverse")
    OBVIOUS
  <2>4. v \in MessageTable /\ Keeps(s, v) /\ Distinct(v, c)
    BY <1>2, <2>2, <2>3, SetKeeps DEF Flags
  <2>5. Keeps(t, v) /\ Flagged(v, id, "was_message")
    BY <1>3, <2>2, <2>4, KeepsTrans, KeepsKnown
  <2>6. \/ UNCHANGED <<messages, handled>>
        \/ messages' = [messages EXCEPT ![n] = s]
        \/ messages' = [messages EXCEPT ![n] = v]
    BY <1>1, <1>2, <1>3, <1>7, <2>1, <2>3
       DEF Remembers, set_was_message_by_id, set_inverse_by_id
  <2>7. CASE UNCHANGED <<messages, handled>>
    BY <1>1, <1>4, <1>7, <2>7, LearnsNothing DEF Chooses
  <2>8. CASE messages' = [messages EXCEPT ![n] = s]
    <3>1. Learns(n) /\ messages'[n] = s
      BY <1>1, <1>2, <1>3, <1>4, <2>2, <2>8, LearnsOne
    <3>2. QED
      BY <1>1, <1>2, <1>7, <2>2, <3>1 DEF Chooses, get_was_message_by_id
  <2>9. CASE messages' = [messages EXCEPT ![n] = v]
    <3>1. Learns(n) /\ messages'[n] = v
      BY <1>1, <1>2, <1>3, <1>4, <2>4, <2>5, <2>9, LearnsOne
    <3>2. QED
      BY <1>1, <1>2, <1>7, <2>5, <3>1 DEF Chooses, get_was_message_by_id
  <2>10. QED
    BY <2>6, <2>7, <2>8, <2>9
<1>8. QED
  BY <1>5, <1>6, <1>7

\* Any message under way.
LEMMA SoundFacts ==
  ASSUME IInv, SInv, OInv, NEW k \in Link, NEW j \in 1 .. Len(net[k])
  PROVE  LET z == net[k][j]
         IN  /\ z.app.uid \in 1 .. Len(issued) /\ z.app.uid \in Uid
             /\ issued[z.app.uid] \in Requests /\ Serves(k, z, issued[z.app.uid])
             /\ Sound(issued, handled, messages, k, z)
<1>1. PICK z : z = net[k][j]
  OBVIOUS
<1>2. Sound(issued, handled, messages, k, z) /\ Meant(issued, k, z)
  BY <1>1 DEF OInv, NetSound, SInv, NetMeant
<1>3. z.app.uid \in 1 .. Len(issued) /\ Serves(k, z, issued[z.app.uid])
  BY <1>2 DEF Sound, Meant
<1>4. issued \in Seq(Requests) /\ Len(issued) <= MaxRequests /\ MaxRequests \in Nat
  BY MeshAssumption DEF IInv, HistoryInv
<1>5. z.app.uid \in Uid /\ issued[z.app.uid] \in Requests
  BY <1>3, <1>4 DEF Uid
<1>6. QED
  BY <1>1, <1>2, <1>3, <1>5

(***************************************************************************)
(* What a handler does, as far as this invariant goes: it takes x from the *)
(* head of link l and writes msg to the peers in to.                       *)
(***************************************************************************)
Moves(l, x, to, msg) ==
  /\ net[l] # << >> /\ x = Head(net[l]) /\ Takable(l, x)
  /\ proc[l[2]] # "down"
  /\ Writes(l, to, msg)
  /\ Learns(l[2]) /\ Accepts(l[2], x, to) /\ Chooses(l[2], x, to)

LEMMA HandlesMoves ==
  ASSUME Few, IInv, SInv, OInv, NEW l \in Link, Handles(l)
  PROVE  \E x, to, msg : Moves(l, x, to, msg)
<1>1. PICK x : x = Head(net[l])
  OBVIOUS
<1>2. PICK to, msg : /\ Writes(l, to, msg) /\ Remembers(l, to)
                     /\ Offers(l, to) \/ UNCHANGED <<handled, notes>>
  BY DEF Handles
<1>3. net[l] # << >> /\ Takable(l, x) /\ proc[l[2]] # "down"
  BY <1>1 DEF Handles
<1>4. /\ Learns(l[2]) /\ Chooses(l[2], x, to)
      /\ x.req = "ROUTE_DIRECT" =>
           UNCHANGED handled \/ get_was_message_by_id(messages'[l[2]], x.app.id)
  BY <1>1, <1>2, <1>3, RemembersLearns
<1>5. Accepts(l[2], x, to)
  <2>1. CASE UNCHANGED <<handled, notes>>
    BY <2>1 DEF Accepts
  <2>2. CASE Offers(l, to)
    <3>1. x.app \in AppPayload
      BY <1>1, <1>3, HeadSound
    <3>2. PICK a : a = PayloadOf(l, x) /\ a \in AppPayload /\ a.uid = x.app.uid
      BY <3>1, PayloadFacts
    <3>3. /\ x.req \in {"SEND", "ROUTE_DIRECT"} /\ x.receiver = l[2]
          /\ x.req = "SEND" => to = {Server}
          /\ \E ok, kinds : Account(l[2], to, a, ok, kinds)
      BY <1>1, <2>2, <3>2 DEF Offers
    <3>4. \A v \in Uid, m \in Node : v # a.uid \/ m # l[2] => handled'[v][m] = handled[v][m]
      BY <3>2, <3>3, AccountFacts, LinkFacts DEF IInv
    <3>5. QED
      BY <1>4, <3>2, <3>3, <3>4 DEF Accepts
  <2>3. QED
    BY <1>2, <2>1, <2>2
<1>6. Moves(l, x, to, msg)
  BY <1>1, <1>2, <1>3, <1>4, <1>5 DEF Moves
<1>7. QED
  BY <1>6

\* The messages under way after a handler: one that was there, not the one
\* that was taken, or the last of a link that was written.
Was(l, k, i, j) ==
  /\ j \in 1 .. Len(net[k]) /\ net'[k][i] = net[k][j]
  /\ j = IF k = l THEN i + 1 ELSE i

New(l, x, to, msg, k, i) ==
  /\ k[1] = l[2] /\ k[2] \in to /\ k[3] = gen[l[2]] /\ i = Len(net'[k])
  /\ net'[k][i] = msg[k[2]] /\ Follows(l, x, k, net'[k][i])

LEMMA Places ==
  ASSUME IInv, NEW l \in Link, NEW x, NEW to, NEW msg, Moves(l, x, to, msg),
         NEW k \in Link, NEW i \in 1 .. Len(net'[k])
  PROVE  (\E j : Was(l, k, i, j)) \/ New(l, x, to, msg, k, i)
<1>1. Stayed({l}, k, i) \/ Added(l[2], to, msg, k, i)
  <2>1. {l} \in SUBSET Link /\ \A h \in {l} : net[h] # << >>
    BY DEF Moves
  <2>2. Exchange(l[2], {l}, to, msg)
    BY DEF Moves, Writes
  <2>3. QED
    BY <2>1, <2>2, Arrives
<1>2. CASE Stayed({l}, k, i)
  BY <1>2 DEF Stayed, Was
<1>3. CASE Added(l[2], to, msg, k, i)
  <2>1. /\ k[1] = l[2] /\ k[2] \in to /\ k[3] = gen[l[2]]
        /\ i = Len(net'[k]) /\ net'[k][i] = msg[k[2]]
    BY <1>3, ReachedFacts DEF Added
  <2>2. Follows(l, x, k, msg[k[2]])
    BY <2>1 DEF Moves, Writes
  <2>3. QED
    BY <2>1, <2>2 DEF New
<1>4. QED
  BY <1>1, <1>2, <1>3

\* A message that was there and one that is written.
LEMMA ApartFromNew ==
  ASSUME NEW l \in Link, NEW k \in Link, NEW h \in Link, NEW x, NEW z, NEW y, NEW r \in Requests,
         x.app \in AppPayload, Takable(l, x), Serves(l, x, r), Serves(k, z, r),
         x.app.uid = z.app.uid, Apart(l, x, k, z), Follows(l, x, h, y),
         x.req = "UNICAST_FIRST" => z.req # "SEND"
  PROVE  Apart(k, z, h, y)
<1>1. l[1] # Server /\ k[1] # Server
  BY DEF Apart
<1>2. FromNode(l, x, r) /\ FromNode(k, z, r) /\ x.app.req_type = r.cmd /\ z.app.req_type = r.cmd
  BY <1>1 DEF Serves
<1>3. h[1] # Server
  BY LinkFacts, NodeFacts DEF Follows
<1>4. /\ x.req = "SEND" => z.req # "ROUTE_DIRECT"
      /\ z.req = "SEND" => x.req # "ROUTE_DIRECT"
      /\ x.req = "SEND" /\ z.req = "SEND" => x.receiver # z.receiver
  BY DEF Apart
<1>5. r.cmd \in {"SEND", "BROADCAST", "UNICAST"}
  BY RequestFields DEF ServerCmd
<1>6. CASE x.req = "SEND"
  <2>1. y.req \in {"SEND", "ROUTE_DIRECT"} /\ x.receiver # l[2]
    BY <1>6 DEF Follows
  <2>2. r.cmd = "SEND"
    BY <1>2, <1>6, <2>1 DEF FromNode
  <2>3. z.receiver = x.receiver
    BY <1>2, <2>2 DEF FromNode
  <2>4. z.req # "SEND" /\ z.req # "ROUTE_DIRECT"
    BY <1>4, <1>6, <2>3
  <2>5. QED
    BY <1>1, <1>3, <2>4 DEF Apart
<1>7. CASE x.req \in {"ROUTE_DIRECT", "ROUTE_INVERSE"}
  <2>1. y.req \in {"ROUTE_DIRECT", "ROUTE_INVERSE"} /\ (x.req = "ROUTE_INVERSE" => y.req = "ROUTE_INVERSE")
    BY <1>7 DEF Follows
  <2>2. QED
    BY <1>1, <1>3, <1>4, <1>7, <2>1 DEF Apart
<1>8. CASE x.req = "UNICAST_CONTEST"
  <2>1. y.req = "UNICAST_FIRST"
    BY <1>8 DEF Follows
  <2>2. QED
    BY <1>1, <1>3, <2>1 DEF Apart
<1>9. CASE x.req = "UNICAST_FIRST"
  <2>1. y.req = "SEND" /\ r.cmd = "UNICAST"
    BY <1>2, <1>5, <1>9 DEF Follows, FromNode
  <2>2. z.req \notin {"SEND", "ROUTE_DIRECT"}
    BY <1>2, <1>9, <2>1 DEF FromNode
  <2>3. QED
    BY <1>1, <1>3, <2>2 DEF Apart
<1>10. QED
  BY <1>1, <1>6, <1>7, <1>8, <1>9 DEF Takable

\* Two messages that are written at once.
LEMMA ApartNew ==
  ASSUME NEW l \in Link, NEW k \in Link, NEW h \in Link, NEW x, NEW y, NEW z, NEW r \in Requests,
         x.app \in AppPayload, Takable(l, x), Serves(l, x, r),
         Follows(l, x, k, y), Follows(l, x, h, z), k[2] # h[2],
         x.req \in {"SEND", "UNICAST_FIRST"} => y.req = "ROUTE_DIRECT" /\ z.req = "ROUTE_DIRECT"
  PROVE  Apart(k, y, h, z)
<1>1. k[1] # Server /\ h[1] # Server
  BY LinkFacts, NodeFacts DEF Follows
<1>2. CASE x.req \in {"SEND", "UNICAST_FIRST"}
  BY <1>1, <1>2 DEF Apart
<1>3. CASE x.req = "BROADCAST"
  <2>1. l[1] = Server
    BY <1>3 DEF Takable
  <2>2. r.cmd = "BROADCAST" /\ x.app.req_type = r.cmd
    BY <1>3, <2>1 DEF Serves, FromServer
  <2>3. /\ y.req = "SEND" /\ y.receiver = k[2] /\ z.req = "SEND" /\ z.receiver = h[2]
        /\ y.app = node_app_setup_delivery(x.app) /\ z.app = node_app_setup_delivery(x.app)
    BY <1>3, <2>1 DEF Follows
  <2>4. y.app.req_type = "BROADCAST" /\ z.app.req_type = "BROADCAST"
    BY <2>2, <2>3, SetupFields
  <2>5. QED
    BY <1>1, <2>3, <2>4 DEF Apart
<1>4. CASE x.req \in {"UNICAST", "ROUTE_DIRECT", "ROUTE_INVERSE", "UNICAST_CONTEST"}
  <2>1. y.req # "SEND" /\ z.req # "SEND"
    BY <1>4 DEF Follows
  <2>2. QED
    BY <1>1, <2>1 DEF Apart
<1>5. QED
  BY <1>2, <1>3, <1>4 DEF Takable, ServerCmd

LEMMA ApartSymmetry ==
  ASSUME NEW l, NEW k, NEW x, NEW y, Apart(l, x, k, y)
  PROVE  Apart(k, y, l, x)
BY DEF Apart

\* What Moves says of the message that is taken.
LEMMA MovedFacts ==
  ASSUME Few, IInv, SInv, OInv, NEW l \in Link, NEW x, NEW to, NEW msg, Moves(l, x, to, msg)
  PROVE  /\ x.app \in AppPayload /\ x.app.uid \in 1 .. Len(issued) /\ x.app.uid \in Uid
         /\ issued[x.app.uid] \in Requests /\ Serves(l, x, issued[x.app.uid])
         /\ Sound(issued, handled, messages, l, x)
         /\ x.app.id = x.app.uid - 1 /\ Takable(l, x)
         /\ x = net[l][1] /\ 1 \in 1 .. Len(net[l])
         /\ l[2] \in Node /\ l[2] # Server
<1>1. net[l] # << >> /\ x = Head(net[l]) /\ Takable(l, x)
  BY DEF Moves
<1>2. x = net[l][1] /\ 1 \in 1 .. Len(net[l])
  BY <1>1 DEF IInv, NetInv
<1>3. QED
  BY <1>1, <1>2, HeadSound, LinkFacts, NodeFacts

\* A message that was there, and the one that is taken.
LEMMA TakenApart ==
  ASSUME Few, IInv, SInv, OInv, NEW l \in Link, NEW x, NEW to, NEW msg, Moves(l, x, to, msg),
         NEW k \in Link, NEW i \in Nat \ {0}, NEW j, Was(l, k, i, j)
  PROVE  Apart(l, x, k, net[k][j])
<1>1. x = net[l][1] /\ 1 \in 1 .. Len(net[l])
  BY MovedFacts
<1>2. j \in 1 .. Len(net[k]) /\ (l # k \/ 1 # j)
  BY DEF Was
<1>3. QED
  BY <1>1, <1>2 DEF OInv, NetApart

\* A message that was there, and one that is written.
LEMMA OldNewApart ==
  ASSUME Few, IInv, SInv, OInv, NEW l \in Link, NEW x, NEW to, NEW msg, Moves(l, x, to, msg),
         NEW k \in Link, NEW i \in 1 .. Len(net'[k]), NEW j, Was(l, k, i, j),
         NEW h \in Link, NEW e \in 1 .. Len(net'[h]), New(l, x, to, msg, h, e)
  PROVE  Apart(k, net'[k][i], h, net'[h][e])
<1>1. PICK z, y : z = net[k][j] /\ z = net'[k][i] /\ y = net'[h][e]
  BY DEF Was
<1>2. j \in 1 .. Len(net[k]) /\ Follows(l, x, h, y) /\ h[2] \in to
  BY <1>1 DEF Was, New
<1>3. /\ x.app \in AppPayload /\ x.app.uid \in 1 .. Len(issued) /\ Takable(l, x)
      /\ issued[x.app.uid] \in Requests /\ Serves(l, x, issued[x.app.uid])
      /\ x.app.id = x.app.uid - 1
  BY MovedFacts
<1>4. PICK r \in Requests : r = issued[x.app.uid] /\ Serves(l, x, r)
  BY <1>3
<1>5. y.app.uid = x.app.uid
  <2>1. x.app \in AppPayload /\ Serves(l, x, r) /\ Takable(l, x) /\ Follows(l, x, h, y)
    BY <1>2, <1>3, <1>4
  <2>2. Serves(h, y, r) /\ y.app.uid = x.app.uid /\ y.app.id = x.app.id /\ y.req # "RESET"
    BY <2>1, FollowsServes, SMTT(30)
  <2>3. QED
    BY <2>2
<1>6. CASE z.app.uid # x.app.uid
  BY <1>1, <1>5, <1>6 DEF Apart
<1>7. CASE z.app.uid = x.app.uid
  <2>1. Serves(k, z, r) /\ Sound(issued, handled, messages, k, z)
    BY <1>1, <1>2, <1>4, <1>7, SoundFacts
  <2>2. Apart(l, x, k, z)
    <3>1. i \in Nat \ {0}
      OBVIOUS
    <3>2. QED
      BY <1>1, <3>1, TakenApart
  <2>3. x.req = "UNICAST_FIRST" => z.req # "SEND"
    <3> SUFFICES ASSUME x.req = "UNICAST_FIRST", z.req = "SEND" PROVE FALSE
      OBVIOUS
    <3>1. l[1] # Server /\ k[1] # Server
      BY <1>7, <2>2 DEF Apart
    <3>2. r.cmd = "UNICAST" /\ l[2] = r.sender
      BY <1>3, <1>4, <3>1, RequestFields DEF Serves, FromNode, ServerCmd
    <3>3. z.app.req_type = "UNICAST"
      BY <2>1, <3>2 DEF Serves
    <3>4. is_id_set(messages[r.sender], x.app.uid - 1)
      BY <1>4, <1>7, <2>1, <3>1, <3>3 DEF Sound
    <3>5. to = {}
      BY <1>3, <3>2, <3>4 DEF Moves, Chooses
    <3>6. QED
      BY <1>2, <3>5
  <2>4. Apart(k, z, h, y)
    BY <1>2, <1>3, <1>4, <1>7, <2>1, <2>2, <2>3, ApartFromNew
  <2>5. QED
    BY <1>1, <2>4
<1>8. QED
  BY <1>6, <1>7

\* Two messages that are written.
LEMMA NewNewApart ==
  ASSUME Few, IInv, SInv, OInv, NEW l \in Link, NEW x, NEW to, NEW msg, Moves(l, x, to, msg),
         NEW k \in Link, NEW i \in 1 .. Len(net'[k]), New(l, x, to, msg, k, i),
         NEW h \in Link, NEW e \in 1 .. Len(net'[h]), New(l, x, to, msg, h, e),
         k # h \/ i # e
  PROVE  Apart(k, net'[k][i], h, net'[h][e])
<1>1. PICK y, z : y = net'[k][i] /\ z = net'[h][e]
  OBVIOUS
<1>2. /\ Follows(l, x, k, y) /\ k[2] \in to /\ k[1] = l[2] /\ y = msg[k[2]]
      /\ Follows(l, x, h, z) /\ h[2] \in to /\ h[1] = l[2] /\ z = msg[h[2]]
      /\ k[3] = h[3]
  BY <1>1 DEF New
<1>3. k[2] # h[2]
  <2>1. k # h
    BY DEF New
  <2>2. QED
    BY <1>2, <2>1 DEF Link
<1>4. x.req \in {"SEND", "UNICAST_FIRST"} => y.req = "ROUTE_DIRECT" /\ z.req = "ROUTE_DIRECT"
  <2> SUFFICES ASSUME x.req \in {"SEND", "UNICAST_FIRST"}
               PROVE  y.req = "ROUTE_DIRECT" /\ z.req = "ROUTE_DIRECT"
    OBVIOUS
  <2>1. \/ \E q : to = {q}
        \/ to = {}
        \/ \A g \in Link : g[1] = l[2] /\ g[2] \in to => msg[g[2]].req = "ROUTE_DIRECT"
    BY DEF Moves, Writes
  <2>2. QED
    BY <1>2, <1>3, <2>1
<1>5. /\ x.app \in AppPayload /\ Takable(l, x)
      /\ issued[x.app.uid] \in Requests /\ Serves(l, x, issued[x.app.uid])
  BY MovedFacts
<1>6. PICK r \in Requests : Serves(l, x, r)
  BY <1>5
<1>7. Apart(k, y, h, z)
  BY <1>2, <1>3, <1>4, <1>5, <1>6, ApartNew
<1>8. QED
  BY <1>1, <1>7

LEMMA MovesApart ==
  ASSUME Few, IInv, SInv, OInv, NEW l \in Link, NEW x, NEW to, NEW msg, Moves(l, x, to, msg)
  PROVE  NetApart'
<1> SUFFICES ASSUME NEW k \in Link, NEW h \in Link,
                    NEW i \in 1 .. Len(net'[k]), NEW e \in 1 .. Len(net'[h]), k # h \/ i # e
             PROVE  Apart(k, net'[k][i], h, net'[h][e])
  BY DEF NetApart
<1>1. (\E j : Was(l, k, i, j)) \/ New(l, x, to, msg, k, i)
  BY Places
<1>2. (\E j : Was(l, h, e, j)) \/ New(l, x, to, msg, h, e)
  BY Places
<1>3. ASSUME NEW j, Was(l, k, i, j), NEW g, Was(l, h, e, g)
      PROVE  Apart(k, net'[k][i], h, net'[h][e])
  <2>1. /\ j \in 1 .. Len(net[k]) /\ net'[k][i] = net[k][j]
        /\ g \in 1 .. Len(net[h]) /\ net'[h][e] = net[h][g]
    BY <1>3 DEF Was
  <2>2. k # h \/ j # g
    BY <1>3 DEF Was
  <2>3. QED
    BY <2>1, <2>2 DEF OInv, NetApart
<1>4. ASSUME NEW j, Was(l, k, i, j), New(l, x, to, msg, h, e)
      PROVE  Apart(k, net'[k][i], h, net'[h][e])
  BY <1>4, OldNewApart
<1>5. ASSUME NEW j, Was(l, h, e, j), New(l, x, to, msg, k, i)
      PROVE  Apart(k, net'[k][i], h, net'[h][e])
  BY <1>5, OldNewApart, ApartSymmetry
<1>6. CASE New(l, x, to, msg, k, i) /\ New(l, x, to, msg, h, e)
  BY <1>6, NewNewApart
<1>7. QED
  BY <1>1, <1>2, <1>3, <1>4, <1>5, <1>6

-----------------------------------------------------------------------------
\* No node forgets.
LEMMA NoForgetting ==
  ASSUME IInv, Numbered, NEW n, Learns(n), NEW m \in Node, NEW id
  PROVE  /\ is_id_set(messages[m], id) => is_id_set(messages'[m], id)
         /\ get_was_message_by_id(messages[m], id) => get_was_message_by_id(messages'[m], id)
<1>1. PICK t \in MessageTable : t = messages[m] /\ Distinct(t, Len(issued))
  BY DEF IInv, TableInv, Numbered
<1>2. PICK s \in MessageTable : s = messages'[m] /\ Distinct(s, Len(issued)) /\ Keeps(t, s)
  BY <1>1 DEF Learns
<1>3. /\ is_id_set(t, id) => is_id_set(s, id)
      /\ Flagged(t, id, "was_message") => Flagged(s, id, "was_message")
  BY <1>1, <1>2, KeepsKnown
<1>4. QED
  BY <1>1, <1>2, <1>3 DEF get_was_message_by_id

\* A message that was there is as sound as before.
LEMMA OldSound ==
  ASSUME Few, IInv, SInv, OInv, NEW l \in Link, NEW x, NEW to, NEW msg, Moves(l, x, to, msg),
         NEW k \in Link, NEW i \in 1 .. Len(net'[k]), NEW j, Was(l, k, i, j)
  PROVE  Sound(issued, handled', messages', k, net'[k][i])
<1>1. PICK z : z = net[k][j] /\ z = net'[k][i]
  BY DEF Was
<1>2. PICK v \in Uid : v = z.app.uid
  BY <1>1, SoundFacts DEF Was
<1>3. /\ Sound(issued, handled, messages, k, z) /\ v \in 1 .. Len(issued)
      /\ issued[v] \in Requests /\ Serves(k, z, issued[v])
  BY <1>1, <1>2, SoundFacts DEF Was
<1>4. Apart(l, x, k, z)
  <2>1. i \in Nat \ {0}
    OBVIOUS
  <2>2. QED
    BY <1>1, <2>1, TakenApart
<1>5. \A m \in Node : handled'[v][m] # handled[v][m] =>
        /\ v = x.app.uid /\ m = l[2] /\ x.receiver = m
        /\ \/ x.req = "SEND"
           \/ x.req = "ROUTE_DIRECT" /\ get_was_message_by_id(messages'[m], v - 1)
  <2>1. Accepts(l[2], x, to)
    BY DEF Moves
  <2>2. x.app.id = x.app.uid - 1
    BY MovedFacts
  <2>3. QED
    BY <2>1, <2>2 DEF Accepts
<1>6. \A m \in Node : /\ is_id_set(messages[m], v - 1) => is_id_set(messages'[m], v - 1)
                      /\ get_was_message_by_id(messages[m], v - 1)
                           => get_was_message_by_id(messages'[m], v - 1)
  BY NoForgetting DEF Moves, OInv
<1>7. z.req # "RESET" /\ z.app.id = v - 1
  BY <1>2, <1>3 DEF Sound
<1>8. k[1] = Server => \A m \in Node : handled'[v][m] = 0
  BY <1>2, <1>3, <1>4, <1>5 DEF Sound, Apart
<1>9. ASSUME k[1] # Server, z.req = "SEND"
      PROVE  /\ \A m \in Node : z.receiver = m \/ z.app.req_type = "UNICAST" => handled'[v][m] = 0
             /\ z.app.req_type = "UNICAST" => is_id_set(messages'[issued[v].sender], v - 1)
  <2>1. \A m \in Node : z.receiver = m \/ z.app.req_type = "UNICAST" => handled[v][m] = 0
    BY <1>2, <1>3, <1>9 DEF Sound
  <2>2. \A m \in Node : z.receiver = m \/ z.app.req_type = "UNICAST"
                          => handled'[v][m] = handled[v][m]
    BY <1>2, <1>4, <1>5, <1>9 DEF Apart
  <2>3. ASSUME z.app.req_type = "UNICAST"
        PROVE  is_id_set(messages'[issued[v].sender], v - 1)
    <3>1. is_id_set(messages[issued[v].sender], v - 1)
      BY <1>2, <1>3, <1>9, <2>3 DEF Sound
    <3>2. issued[v].sender \in Node
      BY <1>3, <1>9, <2>3 DEF Serves, FromNode
    <3>3. QED
      BY <1>6, <3>1, <3>2
  <2>4. QED
    BY <2>1, <2>2, <2>3
<1>10. ASSUME z.req = "ROUTE_DIRECT", NEW m \in Node, z.receiver = m, handled'[v][m] > 0
       PROVE  get_was_message_by_id(messages'[m], v - 1)
  <2>1. CASE handled'[v][m] = handled[v][m]
    <3>1. get_was_message_by_id(messages[m], v - 1)
      BY <1>2, <1>3, <1>10, <2>1 DEF Sound
    <3>2. QED
      BY <1>6, <3>1
  <2>2. CASE handled'[v][m] # handled[v][m]
    <3>1. x.req # "SEND"
      BY <1>2, <1>4, <1>5, <1>10, <2>2 DEF Apart
    <3>2. QED
      BY <1>5, <2>2, <3>1
  <2>3. QED
    BY <2>1, <2>2
<1>11. Sound(issued, handled', messages', k, z)
  BY <1>2, <1>7, <1>8, <1>9, <1>10 DEF Sound
<1>12. QED
  BY <1>1, <1>11

\* A message that is written is sound.
LEMMA NewSound ==
  ASSUME Few, IInv, SInv, OInv, NEW l \in Link, NEW x, NEW to, NEW msg, Moves(l, x, to, msg),
         NEW k \in Link, NEW i \in 1 .. Len(net'[k]), New(l, x, to, msg, k, i)
  PROVE  Sound(issued, handled', messages', k, net'[k][i])
<1>1. PICK y : y = net'[k][i] /\ Follows(l, x, k, y)
  BY DEF New
<1>2. PICK u \in Uid : u = x.app.uid
  BY MovedFacts
<1>3. PICK r \in Requests : r = issued[u] /\ Serves(l, x, r)
  BY <1>2, MovedFacts
<1>4. /\ x.app \in AppPayload /\ u \in 1 .. Len(issued) /\ Takable(l, x)
      /\ x.app.id = u - 1 /\ Sound(issued, handled, messages, l, x)
      /\ l[2] \in Node /\ l[2] # Server
  BY <1>2, MovedFacts
<1>5. /\ Serves(k, y, r) /\ y.app.uid = u /\ y.app.id = u - 1 /\ y.req # "RESET"
      /\ y.app.req_type = r.cmd
  <2>1. x.app \in AppPayload /\ Serves(l, x, r) /\ Takable(l, x) /\ Follows(l, x, k, y)
    BY <1>1, <1>3, <1>4
  <2>2. Serves(k, y, r) /\ y.app.uid = x.app.uid /\ y.app.id = x.app.id /\ y.req # "RESET"
    BY <2>1, FollowsServes
  <2>3. QED
    BY <1>2, <1>4, <2>2 DEF Serves
<1>6. k[1] = l[2] /\ k[1] # Server /\ k[2] \in to /\ k[2] \in Node
  BY <1>4, LinkFacts DEF New
<1>7. to # {} /\ to # {Server}
  BY <1>6, NodeFacts
<1>8. \A m \in Node : handled'[u][m] # handled[u][m] =>
        /\ m = l[2] /\ x.receiver = m /\ x.req = "ROUTE_DIRECT"
        /\ get_was_message_by_id(messages'[m], u - 1)
  <2>1. Accepts(l[2], x, to)
    BY DEF Moves
  <2>2. QED
    BY <1>2, <1>4, <1>7, <2>1 DEF Accepts
<1>9. \A m \in Node : /\ is_id_set(messages[m], u - 1) => is_id_set(messages'[m], u - 1)
                      /\ get_was_message_by_id(messages[m], u - 1)
                           => get_was_message_by_id(messages'[m], u - 1)
  BY NoForgetting DEF Moves, OInv
<1>10. /\ l[1] = Server => \A m \in Node : handled[u][m] = 0
       /\ l[1] # Server /\ x.req = "SEND" => \A m \in Node : x.receiver = m => handled[u][m] = 0
  BY <1>2, <1>4 DEF Sound
<1>11. ASSUME y.req = "SEND"
       PROVE  /\ \A m \in Node : y.receiver = m \/ r.cmd = "UNICAST" => handled'[u][m] = 0
              /\ r.cmd = "UNICAST" => is_id_set(messages'[r.sender], u - 1)
  <2>1. x.req \in {"SEND", "BROADCAST", "UNICAST_FIRST"}
    BY <1>1, <1>4, <1>11 DEF Follows, Takable, ServerCmd
  <2>2. \A m \in Node : handled'[u][m] = handled[u][m]
    BY <1>8, <2>1
  <2>3. CASE l[1] = Server
    <3>1. r.cmd # "UNICAST"
      BY <1>3, <2>1, <2>3 DEF Serves, FromServer
    <3>2. QED
      BY <1>10, <2>2, <2>3, <3>1
  <2>4. CASE l[1] # Server /\ x.req = "SEND"
    <3>1. y.receiver = x.receiver /\ x.receiver # l[2]
      BY <1>1, <2>4 DEF Follows
    <3>2. r.cmd = "SEND"
      BY <1>3, <2>4, <3>1 DEF Serves, FromNode
    <3>3. QED
      BY <1>10, <2>2, <2>4, <3>1, <3>2
  <2>5. CASE l[1] # Server /\ x.req = "UNICAST_FIRST"
    <3>1. r.cmd = "UNICAST" /\ l[2] = r.sender
      BY <1>3, <2>5, RequestFields DEF Serves, FromNode, ServerCmd
    <3>2. is_id_set(messages'[l[2]], u - 1) /\ ~is_id_set(messages[l[2]], u - 1)
      BY <1>4, <1>7, <2>5 DEF Moves, Chooses
    <3>3. \A m \in Node : ~(handled[u][m] > 0)
      BY <1>3, <1>4, <3>1, <3>2 DEF OInv, Known
    <3>4. \A m \in Node : handled[u][m] = 0
      <4>1. \A m \in Node : handled[u][m] \in 0 .. 2
        BY DEF IInv, HistoryInv
      <4>2. QED
        BY <3>3, <4>1
    <3>5. QED
      BY <2>2, <3>1, <3>2, <3>4
  <2>6. CASE l[1] # Server /\ x.req = "BROADCAST"
    BY <1>4, <2>6 DEF Takable
  <2>7. QED
    BY <2>1, <2>3, <2>4, <2>5, <2>6
<1>12. ASSUME y.req = "ROUTE_DIRECT", NEW m \in Node, y.receiver = m, handled'[u][m] > 0
       PROVE  get_was_message_by_id(messages'[m], u - 1)
  <2>1. x.req \in {"SEND", "ROUTE_DIRECT"} /\ x.receiver = m
    BY <1>1, <1>4, <1>12 DEF Follows, Takable, ServerCmd
  <2>2. CASE handled'[u][m] # handled[u][m]
    BY <1>8, <2>2
  <2>3. CASE handled'[u][m] = handled[u][m]
    <3>1. x.req = "ROUTE_DIRECT"
      BY <1>10, <1>12, <2>1, <2>3
    <3>2. get_was_message_by_id(messages[m], u - 1)
      BY <1>2, <1>4, <1>12, <2>1, <2>3, <3>1 DEF Sound
    <3>3. QED
      BY <1>9, <3>2
  <2>4. QED
    BY <2>2, <2>3
<1>13. Sound(issued, handled', messages', k, y)
  BY <1>3, <1>5, <1>6, <1>11, <1>12 DEF Sound
<1>14. QED
  BY <1>1, <1>13

\* The sender of a unicast knows that it is accepted.
LEMMA MovesKnown ==
  ASSUME Few, IInv, SInv, OInv, NEW l \in Link, NEW x, NEW to, NEW msg, Moves(l, x, to, msg)
  PROVE  Known(issued, handled', messages')
<1> SUFFICES ASSUME NEW v \in 1 .. Len(issued), NEW m \in Node,
                    issued[v].cmd = "UNICAST", handled'[v][m] > 0
             PROVE  is_id_set(messages'[issued[v].sender], v - 1)
  BY DEF Known
<1>1. v \in Uid
  BY MeshAssumption DEF IInv, HistoryInv, Uid
<1>2. is_id_set(messages[issued[v].sender], v - 1) /\ issued[v].sender \in Node
  <2>1. CASE handled'[v][m] = handled[v][m]
    <3>1. is_id_set(messages[issued[v].sender], v - 1)
      BY <2>1 DEF OInv, Known
    <3>2. IsFor(issued[v], m)
      BY <1>1, <2>1 DEF SInv, OnlyAddressees
    <3>3. QED
      BY <3>1, <3>2 DEF IsFor
  <2>2. CASE handled'[v][m] # handled[v][m]
    <3>1. v = x.app.uid /\ x.receiver = l[2] /\ x.req \in {"SEND", "ROUTE_DIRECT"}
      BY <1>1, <2>2 DEF Moves, Accepts
    <3>2. Serves(l, x, issued[v]) /\ Sound(issued, handled, messages, l, x)
      BY <3>1, MovedFacts
    <3>3. l[1] # Server /\ x.req = "SEND" /\ x.app.req_type = "UNICAST"
      <4>1. l[1] # Server
        BY <3>1, <3>2 DEF Serves, FromServer
      <4>2. QED
        BY <3>1, <3>2, <4>1 DEF Serves, FromNode
    <3>4. is_id_set(messages[issued[v].sender], v - 1)
      BY <3>1, <3>2, <3>3 DEF Sound
    <3>5. QED
      BY <3>2, <3>3, <3>4 DEF Serves, FromNode
  <2>3. QED
    BY <2>1, <2>2
<1>3. Numbered /\ Learns(l[2])
  BY DEF OInv, Moves
<1>4. QED
  BY <1>2, <1>3, NoForgetting

\* A handler keeps the invariant.
LEMMA MovesOnce ==
  ASSUME Few, IInv, SInv, OInv, NEW l \in Link, NEW x, NEW to, NEW msg, Moves(l, x, to, msg)
  PROVE  OInv'
<1>1. /\ Exchange(l[2], {l}, to, msg) /\ issued' = issued /\ app_msg_id' = app_msg_id
      /\ to \subseteq Neighbours(l[2]) \cup {Server} /\ proc[l[2]] # "down" /\ Learns(l[2])
  BY DEF Moves, Writes, Frame
<1>2. l[2] \in Peer /\ to \in SUBSET Peer /\ l[2] \in Node
  BY <1>1, LinkFacts, NodeFacts DEF Neighbours, Peer
<1>3. Calm'
  <2>1. proc' = proc /\ \A a, q \in Peer : conn'[a][q] \in {"none", "open"}
    BY <1>1, <1>2, ExchangeCalm DEF OInv
  <2>2. \A n \in Node : proc[n] = "down" => messages'[n] = NewTable
    BY <1>1 DEF Learns, OInv, Calm
  <2>3. QED
    BY <2>1, <2>2 DEF OInv, Calm
<1>4. Numbered'
  BY <1>1 DEF OInv, Numbered, Learns
<1>5. NetSound'
  <2> SUFFICES ASSUME NEW k \in Link, NEW i \in 1 .. Len(net'[k])
               PROVE  Sound(issued', handled', messages', k, net'[k][i])
    BY DEF NetSound
  <2>1. (\E j : Was(l, k, i, j)) \/ New(l, x, to, msg, k, i)
    BY Places
  <2>2. Sound(issued, handled', messages', k, net'[k][i])
    BY <2>1, OldSound, NewSound
  <2>3. QED
    BY <1>1, <2>2
<1>6. Known(issued', handled', messages')
  BY <1>1, MovesKnown
<1>7. QED
  BY <1>3, <1>4, <1>5, <1>6, MovesApart DEF OInv

\* A step in which the messages under way stay the same.
LEMMA SameMessages ==
  ASSUME OInv, Calm', UNCHANGED <<app_msg_id, net, messages, issued, handled>>
  PROVE  OInv'
BY DEF OInv, Numbered, NetApart, NetSound

\* A node that starts had seen nothing.
LEMMA ReviveOnce ==
  ASSUME IInv, OInv, NEW n \in Node, ClientRevive(n)
  PROVE  OInv'
<1>1. /\ proc[n] = "down" /\ proc' = [proc EXCEPT ![n] = "up"]
      /\ conn' = [p \in Peer |-> IF p \in {n} THEN [q \in Peer |-> "none"] ELSE conn[p]]
      /\ messages' = [m \in Node |-> IF m \in {n} THEN NewTable ELSE messages[m]]
      /\ UNCHANGED <<app_msg_id, net, issued, handled>>
  BY DEF ClientRevive, Startable, Start, historyVars
<1>2. messages[n] = NewTable
  BY <1>1 DEF OInv, Calm
<1>3. messages' = messages
  BY <1>1, <1>2 DEF IInv, TableInv
<1>4. \A p \in Peer : proc'[p] = IF p = n THEN "up" ELSE proc[p]
  BY <1>1 DEF IInv, NetInv
<1>5. \A p, q \in Peer : conn'[p][q] \in {"none", "open"}
  BY <1>1 DEF OInv, Calm
<1>6. Node \subseteq Peer
  BY DEF Peer
<1>7. Calm'
  BY <1>3, <1>4, <1>5, <1>6 DEF OInv, Calm
<1>8. QED
  BY <1>1, <1>3, <1>7, SameMessages

LEMMA UpdateOnce ==
  ASSUME IInv, OInv, NEW n \in Node, NodeUpdate(n)
  PROVE  OInv'
<1>1. /\ conn' = [conn EXCEPT ![Server][n] = "open"]
      /\ UNCHANGED <<app_msg_id, proc, net, messages, issued, handled>>
  BY DEF NodeUpdate, nodeVars, historyVars
<1>2. n \in Peer /\ Server \in Peer /\ conn \in [Peer -> [Peer -> ConnState]]
  BY NodeFacts DEF Peer, IInv, NetInv
<1>3. \A p, q \in Peer : conn'[p][q] \in {conn[p][q], "open"}
  BY <1>1, <1>2
<1>4. Calm'
  <2>1. \A p, q \in Peer : conn'[p][q] \in {"none", "open"}
    BY <1>3 DEF OInv, Calm
  <2>2. QED
    BY <1>1, <2>1 DEF OInv, Calm
<1>5. QED
  BY <1>1, <1>4, SameMessages

\* The steps that do not happen in a mesh without resets and kills.
LEMMA NeverHappens ==
  ASSUME Few, IInv, OInv
  PROVE  /\ ~ClientReset
         /\ \A n \in Node : ~ClientKill(n) /\ ~NodeExit(n)
         /\ \A l \in Link : ~HandleReset(l)
<1>1. MaxResets = 0 /\ MaxKills = 0
  BY MeshAssumption DEF Few, Unbroken
<1>2. resets \in Nat /\ kills \in Nat
  BY DEF IInv, HistoryInv
<1>3. ~ClientReset /\ \A n \in Node : ~ClientKill(n)
  BY <1>1, <1>2 DEF ClientReset, ClientKill
<1>4. \A n \in Node : ~NodeExit(n)
  BY DEF NodeExit, OInv, Calm, Peer
<1>5. ASSUME NEW l \in Link, HandleReset(l) PROVE FALSE
  <2>1. net[l] # << >> /\ Head(net[l]).req = "RESET"
    BY <1>5 DEF HandleReset, Receives
  <2>2. PICK x : x = Head(net[l]) /\ x = net[l][1] /\ 1 \in 1 .. Len(net[l])
    BY <2>1 DEF IInv, NetInv
  <2>3. x.req # "RESET"
    BY <2>2 DEF OInv, NetSound, Sound
  <2>4. QED
    BY <2>1, <2>2, <2>3
<1>6. QED
  BY <1>3, <1>4, <1>5

\* The next id of the server, which has not come round yet.
LEMMA NextId ==
  ASSUME NEW c \in Nat, c < 255
  PROVE  (c + 1) % (UINT16_MAX + 1) = c + 1
BY DEF UINT16_MAX

\* The message of a request, or one that was there.
Asked(r, k, i) ==
  LET y == net'[k][i]
  IN  /\ k[1] = Server /\ k[2] = r.sender /\ k[3] = gen[Server] /\ i = Len(net'[k])
      /\ y.req = r.cmd /\ y.app.uid = Len(issued) + 1 /\ y.app.id = app_msg_id

Still(k, i) == i \in 1 .. Len(net[k]) /\ net'[k][i] = net[k][i]

LEMMA RequestPlaces ==
  ASSUME IInv, NEW r \in Requests, NEW g \in Uninitialised, ClientRequest(r, g),
         NEW k \in Link, NEW i \in 1 .. Len(net'[k])
  PROVE  Asked(r, k, i) \/ Still(k, i)
<1>1. PICK msg : Exchange(Server, {}, {r.sender} \cap Node, msg) /\ Passed(r, msg)
  BY RequestWrites
<1>2. PICK to : to = {r.sender} \cap Node /\ Exchange(Server, {}, to, msg)
  BY <1>1
<1>3. Stayed({}, k, i) \/ Added(Server, to, msg, k, i)
  BY <1>2, Arrives
<1>4. CASE Stayed({}, k, i)
  BY <1>4 DEF Stayed, Still
<1>5. CASE Added(Server, to, msg, k, i)
  <2>1. /\ k[1] = Server /\ k[2] \in to /\ k[3] = gen[Server]
        /\ i = Len(net'[k]) /\ net'[k][i] = msg[k[2]]
    BY <1>5, ReachedFacts DEF Added
  <2>2. k[2] = r.sender /\ k[2] \in Node
    BY <1>2, <2>1
  <2>3. PICK y : y = net'[k][i] /\ y.req = r.cmd /\ y.app = AppOf(r, app_msg_id, Len(issued) + 1)
    BY <1>1, <2>1, <2>2 DEF Passed
  <2>4. y.app.uid = Len(issued) + 1 /\ y.app.id = app_msg_id
    BY <2>3 DEF AppOf
  <2>5. QED
    BY <2>1, <2>2, <2>3, <2>4 DEF Asked
<1>6. QED
  BY <1>3, <1>4, <1>5

\* A request of a client keeps the invariant.
LEMMA RequestOnce ==
  ASSUME Few, IInv, SInv, OInv, NEW r \in Requests, NEW g \in Uninitialised, ClientRequest(r, g)
  PROVE  OInv'
<1>1. PICK c \in Nat : c = Len(issued) /\ c < MaxRequests
  BY DEF ClientRequest, IInv, HistoryInv
<1>2. /\ issued' = Append(issued, r) /\ app_msg_id' = (app_msg_id + 1) % (UINT16_MAX + 1)
      /\ UNCHANGED <<messages, handled>>
  BY DEF ClientRequest, nodeVars
<1>3. /\ Len(issued') = c + 1 /\ issued'[c + 1] = r
      /\ \A u \in 1 .. c : issued'[u] = issued[u]
  BY <1>1, <1>2 DEF IInv, HistoryInv
<1>4. c < 255 /\ c + 1 \in Uid
  <2>1. MAX_MESSAGE_DATA <= 255 /\ MAX_MESSAGE_DATA \in Nat /\ MaxRequests \in Nat
    BY MessageDataAssumption, MeshAssumption
  <2>2. MaxRequests <= MAX_MESSAGE_DATA
    BY DEF Few
  <2>3. QED
    BY <1>1, <2>1, <2>2 DEF Uid
<1>5. app_msg_id = c /\ app_msg_id' = c + 1
  BY <1>1, <1>2, <1>4, NextId DEF OInv, Numbered
<1>6. \A m \in Node : handled[c + 1][m] = 0
  <2>1. c + 1 \notin 1 .. Len(issued)
    BY <1>1
  <2>2. \A m \in Node : ~(handled[c + 1][m] > 0)
    BY <1>4, <2>1 DEF SInv, OnlyAddressees
  <2>3. \A m \in Node : handled[c + 1][m] \in 0 .. 2
    BY <1>4 DEF IInv, HistoryInv
  <2>4. QED
    BY <2>2, <2>3
<1>7. \A k \in Link : \A i \in 1 .. Len(net'[k]) : Asked(r, k, i) \/ Still(k, i)
  BY RequestPlaces
<1>8. Calm'
  <2>1. PICK to, msg : to = {r.sender} \cap Node /\ Exchange(Server, {}, to, msg)
    BY RequestWrites
  <2>2. to \in SUBSET Peer /\ Server \in Peer
    BY <2>1, NodeFacts DEF Peer
  <2>3. proc' = proc /\ \A a, q \in Peer : conn'[a][q] \in {"none", "open"}
    BY <2>1, <2>2, ExchangeCalm DEF OInv
  <2>4. QED
    BY <1>2, <2>3 DEF OInv, Calm
<1>9. Numbered'
  <2>1. ASSUME NEW n \in Node PROVE Distinct(messages[n], c + 1)
    <3>1. Distinct(messages[n], c) /\ messages[n] \in MessageTable
      BY <1>1 DEF OInv, Numbered, IInv, TableInv
    <3>2. \A i \in Entry : messages[n].messages[i].id \in Nat
      BY <3>1, TableFacts
    <3>3. QED
      BY <1>1, <3>1, <3>2 DEF Distinct
  <2>2. QED
    BY <1>2, <1>3, <1>5, <2>1 DEF Numbered
<1>10. NetApart'
  <2> SUFFICES ASSUME NEW k \in Link, NEW h \in Link,
                      NEW i \in 1 .. Len(net'[k]), NEW e \in 1 .. Len(net'[h]), k # h \/ i # e
               PROVE  Apart(k, net'[k][i], h, net'[h][e])
    BY DEF NetApart
  <2>1. /\ Asked(r, k, i) \/ Still(k, i)
        /\ Asked(r, h, e) \/ Still(h, e)
    BY <1>7
  <2>2. ASSUME NEW f \in Link, NEW j \in 1 .. Len(net'[f]), Still(f, j)
        PROVE  net'[f][j].app.uid \in 1 .. c
    BY <1>1, <2>2, SoundFacts DEF Still
  <2>3. ASSUME NEW f \in Link, NEW j \in 1 .. Len(net'[f]), Asked(r, f, j)
        PROVE  net'[f][j].app.uid = c + 1
    BY <1>1, <2>3 DEF Asked
  <2>4. CASE Still(k, i) /\ Still(h, e)
    BY <2>4 DEF Still, OInv, NetApart
  <2>5. CASE Asked(r, k, i) /\ Asked(r, h, e)
    <3>1. k = h
      BY <2>5 DEF Asked, Link
    <3>2. QED
      BY <2>5, <3>1 DEF Asked
  <2>6. CASE (Asked(r, k, i) /\ Still(h, e)) \/ (Still(k, i) /\ Asked(r, h, e))
    <3>1. net'[k][i].app.uid # net'[h][e].app.uid
      BY <2>2, <2>3, <2>6
    <3>2. QED
      BY <3>1 DEF Apart
  <2>7. QED
    BY <2>1, <2>4, <2>5, <2>6
<1>11. NetSound'
  <2> SUFFICES ASSUME NEW k \in Link, NEW i \in 1 .. Len(net'[k])
               PROVE  Sound(issued', handled', messages', k, net'[k][i])
    BY DEF NetSound
  <2>1. CASE Still(k, i)
    <3>1. PICK z : z = net'[k][i] /\ Sound(issued, handled, messages, k, z) /\ z.app.uid \in 1 .. c
      BY <1>1, <2>1, SoundFacts DEF Still
    <3>2. issued'[z.app.uid] = issued[z.app.uid]
      BY <1>3, <3>1
    <3>3. Sound(issued', handled, messages, k, z)
      BY <3>1, <3>2 DEF Sound
    <3>4. QED
      BY <1>2, <3>1, <3>3
  <2>2. CASE Asked(r, k, i)
    <3>1. PICK y : /\ y = net'[k][i] /\ y.req = r.cmd /\ y.app.uid = c + 1 /\ y.app.id = c
                   /\ k[1] = Server
      BY <1>1, <1>5, <2>2 DEF Asked
    <3>2. y.req # "RESET" /\ y.req # "ROUTE_DIRECT" /\ y.app.id = y.app.uid - 1
      <4>1. y.req \in ServerCmd
        BY <3>1, RequestFields
      <4>2. y.app.id = y.app.uid - 1
        BY <3>1
      <4>3. QED
        BY <4>1, <4>2 DEF ServerCmd
    <3>3. Sound(issued', handled, messages, k, y)
      BY <1>6, <3>1, <3>2 DEF Sound
    <3>4. QED
      BY <1>2, <3>1, <3>3
  <2>3. QED
    BY <1>7, <2>1, <2>2
<1>12. Known(issued', handled', messages')
  <2> SUFFICES ASSUME NEW u \in 1 .. c + 1, NEW m \in Node,
                      issued'[u].cmd = "UNICAST", handled[u][m] > 0
               PROVE  is_id_set(messages[issued'[u].sender], u - 1)
    BY <1>2, <1>3 DEF Known
  <2>1. u \in 1 .. c
    <3>1. u # c + 1
      BY <1>6
    <3>2. QED
      BY <3>1
  <2>2. QED
    BY <1>1, <1>3, <2>1 DEF OInv, Known
<1>13. QED
  BY <1>8, <1>9, <1>10, <1>11, <1>12 DEF OInv

\* The invariant holds when the mesh has started.
LEMMA InitOnce == Init => OInv
<1> SUFFICES ASSUME Init PROVE OInv
  OBVIOUS
<1>1. /\ \A l \in Link : Len(net[l]) = 0
      /\ app_msg_id = 0 /\ Len(issued) = 0
      /\ \A n \in Node : messages[n] = NewTable
  BY DEF Init
<1>2. Calm
  <2>1. \A p, q \in Peer : conn[p][q] \in {"none", "open"}
    BY DEF Init
  <2>2. \A p \in Peer : proc[p] # "term"
    BY DEF Init
  <2>3. QED
    BY <1>1, <2>1, <2>2 DEF Calm
<1>3. Distinct(NewTable, 0)
  <2>1. NewTable.message_num = 0 /\ \A i \in Entry : ~(i < 0)
    BY EntryFacts DEF NewTable
  <2>2. QED
    BY <2>1 DEF Distinct
<1>4. Numbered
  BY <1>1, <1>3 DEF Numbered
<1>5. NetApart /\ NetSound
  BY <1>1 DEF NetApart, NetSound
<1>6. Known(issued, handled, messages)
  BY <1>1 DEF Known
<1>7. QED
  BY <1>2, <1>4, <1>5, <1>6 DEF OInv

\* Every step keeps the invariant.
LEMMA NextOnce ==
  ASSUME Few, IInv, SInv, OInv, [Next]_vars
  PROVE  OInv'
<1>1. ASSUME NEW l \in Link, Handle(l)
      PROVE  OInv'
  <2>1. Handles(l)
    BY <1>1, HandlersHandle, NeverHappens DEF SInv
  <2>2. PICK x, to, msg : Moves(l, x, to, msg)
    BY <2>1, HandlesMoves
  <2>3. QED
    BY <2>2, MovesOnce
<1>2. CASE Client
  BY <1>2, RequestOnce, ReviveOnce, NeverHappens DEF Client
<1>3. ASSUME NEW n \in Node, NodeUpdate(n) \/ NodeExit(n)
      PROVE  OInv'
  BY <1>3, UpdateOnce, NeverHappens
<1>4. CASE UNCHANGED vars
  <2>1. UNCHANGED <<app_msg_id, proc, conn, net, messages, issued, handled>>
    BY <1>4 DEF vars, nodeVars, historyVars
  <2>2. Calm'
    BY <2>1 DEF OInv, Calm
  <2>3. QED
    BY <2>1, <2>2, SameMessages
<1>5. QED
  BY <1>1, <1>2, <1>3, <1>4 DEF Next

LEMMA OnceInvariance ==
  ASSUME Few
  PROVE  Spec => [](IInv /\ SInv /\ OInv)
<1>1. IInv /\ SInv /\ OInv /\ [Next]_vars => OInv'
  BY NextOnce
<1>2. QED
  BY <1>1, InitOnce, MeantInvariance, PTL DEF Spec

-----------------------------------------------------------------------------
\* What is about to be offered to the apps has not been accepted.
LEMMA OnceIsFresh ==
  ASSUME Few, IInv, SInv, OInv
  PROVE  Fresh
<1> SUFFICES ASSUME NEW l \in Link, net[l] # << >>, Head(net[l]).req \in {"SEND", "ROUTE_DIRECT"},
                    Head(net[l]).receiver = l[2],
                    Head(net[l]).req = "ROUTE_DIRECT"
                      => ~get_was_message_by_id(messages[l[2]], Head(net[l]).app.id),
                    NEW m \in Service!Rivals(issued[Head(net[l]).app.uid], l[2])
             PROVE  handled[Head(net[l]).app.uid][m] = 0
  BY DEF Fresh
<1>1. PICK x : x = Head(net[l])
  OBVIOUS
<1>2. PICK u \in Uid : u = x.app.uid
  BY <1>1, HeadSound
<1>3. PICK r \in Requests : r = issued[u] /\ Serves(l, x, r)
  BY <1>1, <1>2, HeadSound
<1>4. Sound(issued, handled, messages, l, x) /\ x.app.id = u - 1
  BY <1>1, <1>2, HeadSound
<1>5. l[2] \in Node /\ (r.cmd # "UNICAST" => m = l[2])
  BY <1>1, <1>2, <1>3, LinkFacts DEF Service!Rivals
<1>6. m \in Node
  <2>1. m \in Service!Addressees(r) \/ m = l[2]
    BY <1>1, <1>2, <1>3 DEF Service!Rivals
  <2>2. Service!Addressees(r) \subseteq Node
    BY DEF Service!Addressees, ReachOf, Neighbours
  <2>3. QED
    BY <1>5, <2>1, <2>2
<1>7. CASE l[1] = Server
  BY <1>1, <1>2, <1>4, <1>6, <1>7 DEF Sound
<1>8. CASE l[1] # Server /\ x.req = "SEND"
  <2>1. x.app.req_type = r.cmd
    BY <1>3 DEF Serves
  <2>2. x.receiver = m \/ x.app.req_type = "UNICAST"
    BY <1>1, <1>5, <2>1
  <2>3. QED
    BY <1>1, <1>2, <1>4, <1>6, <1>8, <2>2 DEF Sound
<1>9. CASE l[1] # Server /\ x.req = "ROUTE_DIRECT"
  <2>1. r.cmd # "UNICAST"
    BY <1>3, <1>9 DEF Serves, FromNode
  <2>2. m = l[2] /\ x.receiver = m
    BY <1>1, <1>5, <2>1
  <2>3. ~get_was_message_by_id(messages[m], u - 1)
    BY <1>1, <1>4, <1>9, <2>2
  <2>4. ~(handled[u][m] > 0)
    BY <1>2, <1>4, <1>6, <1>9, <2>2, <2>3 DEF Sound
  <2>5. handled[u][m] \in 0 .. 2
    BY <1>6 DEF IInv, HistoryInv
  <2>6. QED
    BY <1>1, <1>2, <2>4, <2>5
<1>10. QED
  BY <1>1, <1>7, <1>8, <1>9

(***************************************************************************)
(* Mesh implements MeshService.  Where nodes may forget, because they are  *)
(* reset or killed, a message is dealt with by addressees alone and the    *)
(* server told what they made of it.  Where they may not, no node accepts  *)
(* a message twice and one alone a unicast, in whatever order floods,      *)
(* answers and contests cross, as long as there are no more messages than  *)
(* the table of handle_node_route_direct and handle_unicast_first holds.   *)
(***************************************************************************)
THEOREM MeshServes ==
  ASSUME MaxResets + MaxKills = 0 => MaxRequests <= MAX_MESSAGE_DATA
  PROVE  Spec => ImplementsService
<1>1. CASE MaxResets + MaxKills > 0
  BY <1>1, ServesDespiteFaults
<1>2. CASE MaxResets + MaxKills = 0
  <2>1. Few
    BY <1>2 DEF Few, Unbroken
  <2>2. IInv /\ SInv /\ OInv /\ [Next]_vars => [Service!Next]_(Service!vars)
    BY <2>1, OnceIsFresh, Simulation
  <2>3. Spec => [](IInv /\ SInv /\ OInv)
    BY <2>1, OnceInvariance
  <2>4. QED
    BY <2>2, <2>3, InitialService, PTL DEF Spec, ImplementsService, Service!Spec
<1>3. QED
  BY <1>1, <1>2, MeshAssumption

-----------------------------------------------------------------------------
\* No two nodes have accepted the same unicast.
Single ==
  \A u \in 1 .. Len(issued) : issued[u].cmd = "UNICAST" =>
    \A m, n \in Node : handled[u][m] > 0 /\ handled[u][n] > 0 => m = n

LEMMA MovesSingle ==
  ASSUME Few, IInv, SInv, OInv, Single,
         NEW l \in Link, NEW x, NEW to, NEW msg, Moves(l, x, to, msg)
  PROVE  Single'
<1>1. issued' = issued
  BY DEF Moves, Writes, Frame
<1> SUFFICES ASSUME NEW u \in 1 .. Len(issued), issued[u].cmd = "UNICAST",
                    NEW m \in Node, NEW n \in Node, handled'[u][m] > 0, handled'[u][n] > 0
             PROVE  m = n
  BY <1>1 DEF Single
<1>2. u \in Uid
  BY MeshAssumption DEF IInv, HistoryInv, Uid
<1>3. \A q \in Node : handled'[u][q] # handled[u][q] =>
        q = l[2] /\ \A p \in Node : handled[u][p] = 0
  <2> SUFFICES ASSUME NEW q \in Node, handled'[u][q] # handled[u][q]
               PROVE  q = l[2] /\ \A p \in Node : handled[u][p] = 0
    OBVIOUS
  <2>1. u = x.app.uid /\ q = l[2] /\ x.receiver = l[2] /\ x.req \in {"SEND", "ROUTE_DIRECT"}
    BY <1>2 DEF Moves, Accepts
  <2>2. Serves(l, x, issued[u]) /\ Sound(issued, handled, messages, l, x)
    BY <2>1, MovedFacts
  <2>3. l[1] # Server
    BY <2>1, <2>2 DEF Serves, FromServer
  <2>4. x.req = "SEND" /\ x.app.req_type = "UNICAST"
    BY <2>1, <2>2, <2>3 DEF Serves, FromNode
  <2>5. QED
    BY <2>1, <2>2, <2>3, <2>4 DEF Sound
<1>4. CASE \A q \in Node : handled'[u][q] = handled[u][q]
  BY <1>4 DEF Single
<1>5. CASE \E q \in Node : handled'[u][q] # handled[u][q]
  <2>1. \A p \in Node : handled[u][p] = 0
    BY <1>3, <1>5
  <2>2. m = l[2] /\ n = l[2]
    BY <1>3, <2>1
  <2>3. QED
    BY <2>2
<1>6. QED
  BY <1>4, <1>5

LEMMA NextSingle ==
  ASSUME Few, IInv, SInv, OInv, Single, [Next]_vars
  PROVE  Single'
<1>1. CASE UNCHANGED <<issued, handled>>
  BY <1>1 DEF Single
<1>2. ASSUME NEW l \in Link, Handle(l)
      PROVE  Single'
  <2>1. Handles(l)
    BY <1>2, HandlersHandle, NeverHappens DEF SInv
  <2>2. PICK x, to, msg : Moves(l, x, to, msg)
    BY <2>1, HandlesMoves
  <2>3. QED
    BY <2>2, MovesSingle
<1>3. ASSUME NEW r \in Requests, NEW g \in Uninitialised, ClientRequest(r, g)
      PROVE  Single'
  <2>1. PICK c \in Nat : c = Len(issued) /\ c < MaxRequests
    BY <1>3 DEF ClientRequest, IInv, HistoryInv
  <2>2. issued' = Append(issued, r) /\ handled' = handled
    BY <1>3 DEF ClientRequest
  <2>3. Len(issued') = c + 1 /\ \A u \in 1 .. c : issued'[u] = issued[u]
    BY <2>1, <2>2 DEF IInv, HistoryInv
  <2>4. c + 1 \in Uid /\ c + 1 \notin 1 .. Len(issued)
    BY <2>1, MeshAssumption DEF Uid
  <2>5. \A m \in Node : ~(handled[c + 1][m] > 0)
    BY <2>4 DEF SInv, OnlyAddressees
  <2>6. \A u \in 1 .. c + 1 : u \in 1 .. c \/ u = c + 1
    BY <2>1
  <2>7. QED
    BY <2>1, <2>2, <2>3, <2>5, <2>6 DEF Single
<1>4. ASSUME NEW n \in Node, ClientRevive(n) \/ NodeUpdate(n)
      PROVE  UNCHANGED <<issued, handled>>
  BY <1>4 DEF ClientRevive, NodeUpdate, historyVars
<1>5. CASE UNCHANGED vars
  BY <1>1, <1>5 DEF vars, historyVars
<1>6. QED
  BY <1>1, <1>2, <1>3, <1>4, <1>5, NeverHappens DEF Next, Client

(***************************************************************************)
(* The contest of a unicast has one winner at most, in whatever order the  *)
(* answers to handle_unicast_contest come back and contests overlap, as    *)
(* long as no node forgets that it has sent the message.                   *)
(***************************************************************************)
THEOREM ContestsHaveOneWinner ==
  ASSUME MaxResets + MaxKills = 0, MaxRequests <= MAX_MESSAGE_DATA
  PROVE  Spec => []OneWinner
<1>1. Few
  BY DEF Few, Unbroken
<1>2. Init => Single
  BY DEF Init, Single
<1>3. IInv /\ SInv /\ OInv /\ Single /\ [Next]_vars => Single'
  BY <1>1, NextSingle
<1>4. Single => OneWinner
  <2> SUFFICES ASSUME Single, NEW u \in 1 .. Len(issued), issued[u].cmd = "UNICAST"
               PROVE  Cardinality({n \in Node : handled[u][n] > 0}) <= 1
    BY DEF OneWinner
  <2>1. PICK S : S = {n \in Node : handled[u][n] > 0}
    OBVIOUS
  <2>2. \A m, n \in S : m = n
    BY <2>1 DEF Single
  <2>3. CASE S = {}
    <3>1. Cardinality(S) = 0
      BY <2>3, FS_EmptySet
    <3>2. QED
      BY <2>1, <3>1
  <2>4. CASE S # {}
    <3>1. PICK m : m \in S
      BY <2>4
    <3>2. S = {m}
      BY <2>2, <3>1
    <3>3. Cardinality(S) = 1
      BY <3>2, FS_Singleton
    <3>4. QED
      BY <2>1, <3>3
  <2>5. QED
    BY <2>3, <2>4
<1>5. Spec => [](IInv /\ SInv /\ OInv)
  BY <1>1, OnceInvariance
<1>6. QED
  BY <1>2, <1>3, <1>4, <1>5, PTL DEF Spec
=============================================================================
