-------------------------------- MODULE Mesh --------------------------------
(***************************************************************************)
(* The mesh at work: the server hands client requests to nodes, and the    *)
(* nodes find routes by flooding, deliver messages, and run the unicast    *)
(* contest.  One action is one handler of node/src/node_handler.c or       *)
(* server/src/server_handler.c, run to its end: every process is a single  *)
(* thread that handles one message at a time.                              *)
(*                                                                         *)
(* Between processes there are TCP connections.  Each is a FIFO queue of   *)
(* its own, the poll loop of the receiver (common/src/serving.c) takes     *)
(* from any queue that is not empty, and a connection that is closed and   *)
(* opened again is a new queue beside what is left of the old one.         *)
(***************************************************************************)
EXTENDS Routing, MessageData, Sequences

CONSTANTS
  TTL,            \* hops a flood may travel
  APPS_COUNT,     \* applications on a node
  Requests,       \* the requests clients may send
  Uninitialised,  \* what the bytes the client does not set may hold
  Killed,         \* nodes that were killed and have exited before we start
  Pace,           \* what clients wait for before the next request
  MaxRequests, MaxResets, MaxKills, MaxRevives   \* bounds of the model

Server == -1
Peer   == Node \cup {Server}

ServerCmd  == {"SEND", "BROADCAST", "UNICAST"}
MsgForm    == {"empty", "plain", "bulky", "packed", "cut"}

ASSUME MeshAssumption ==
  /\ TTL \in 1 .. 127 /\ BROADCAST_RADIUS <= 127
  /\ APPS_COUNT \in 1 .. UINT8_MAX
  /\ Requests \subseteq [cmd : ServerCmd, sender : Addr, receiver : Addr,
                         to : Addr, msg : {"empty", "plain", "bulky"}]
  /\ Uninitialised \subseteq 0 .. 127
  /\ Killed \subseteq Node
  /\ Pace \in {"free", "quiet"}
  /\ MaxRequests \in Nat /\ MaxResets \in Nat
  /\ MaxKills \in Nat /\ MaxRevives \in Nat

Uid  == 1 .. MaxRequests
Gen  == 0 .. MaxResets + MaxRevives
Link == Peer \X Node \X Gen

(***************************************************************************)
(* An application payload.  Of the text only its form is kept: "plain" as  *)
(* the client gave it, "packed" after deflate; "bulky" text grows so far   *)
(* beyond APP_MESSAGE_LEN in deflate that what is "cut" off belongs to it. *)
(* A text that loses no more than the trailer of deflate, four bytes that  *)
(* decompress_message does not miss, counts as "plain".  uid tells apart   *)
(* messages that carry the same id; the program does not have it.          *)
(***************************************************************************)
AppPayload ==
  [req_type : ServerCmd, to : Addr, id : MessageId, msg : MsgForm, uid : Uid]

\* What crc16 is computed over stands for its value.
Checksum == Addr \X Addr \X Addr \X Int8 \X AppPayload

PacketReq == {"SEND", "BROADCAST", "UNICAST", "ROUTE_DIRECT", "ROUTE_INVERSE"}

node_packet ==
  [req : PacketReq, sender : Addr, receiver : Addr, local : Addr, ttl : Int8,
   app : AppPayload, crc : Checksum \cup {<< >>}]

unicast_contest ==
  [req : {"UNICAST_CONTEST", "UNICAST_FIRST"}, node_addr : Addr,
   app : AppPayload]

Message == node_packet \cup unicast_contest \cup [req : {"RESET"}]

VARIABLES
  app_msg_id,   \* the server's id for the next message
  proc,         \* "up", "term" (signalled, not yet gone) or "down"
  conn,         \* conn[p][q]: the connection on which p writes to q
  gen,          \* gen[p]: how often p has started afresh with connections
  net,          \* the unread messages of every connection
  routing,      \* the routing table of every node
  messages,     \* the message table of every node
  issued,       \* the client requests so far
  handled,      \* how often the apps of a node accepted a message: 0, 1, more
  notes,        \* the kinds of notify sent to the server about a message
  resets, kills, revives

nodeVars    == <<routing, messages>>
historyVars == <<issued, handled, notes>>
boundVars   == <<resets, kills, revives>>
vars == <<app_msg_id, proc, conn, gen, net, nodeVars, historyVars, boundVars>>

(***************************************************************************)
(* "none": not in the connection table.  "fin": the peer has closed its    *)
(* end; the next write is accepted and lost.  "err": the peer went away    *)
(* with unread data; the next write fails.  "broken": the write after that *)
(* one raises SIGPIPE, which no process handles.                           *)
(***************************************************************************)
ConnState == {"none", "open", "fin", "err", "broken"}

TypeOK ==
  /\ app_msg_id \in MessageId
  /\ proc \in [Peer -> {"up", "term", "down"}]
  /\ conn \in [Peer -> [Peer -> ConnState]]
  /\ gen \in [Peer -> Gen]
  /\ net \in [Link -> Seq(Message)]
  /\ routing \in [Node -> RoutingTable]
  /\ messages \in [Node -> MessageTable]
  /\ issued \in Seq(Requests) /\ Len(issued) <= MaxRequests
  /\ handled \in [Uid -> [Node -> 0 .. 2]]
  /\ notes \in [Uid -> SUBSET {"GOT", "FAIL"}]
  /\ resets \in Nat /\ kills \in Nat /\ revives \in Nat

Init ==
  /\ app_msg_id = 0
  /\ proc = [p \in Peer |-> IF p \in Killed THEN "down" ELSE "up"]
  /\ conn = [p \in Peer |-> [q \in Peer |->
               IF p = Server /\ q \in Node \ Killed THEN "open" ELSE "none"]]
  /\ gen = [p \in Peer |-> 0]
  /\ net = [l \in Link |-> << >>]
  /\ routing = [n \in Node |-> routing_table_fill_default]
  /\ messages = [n \in Node |-> NewTable]
  /\ issued = << >>
  /\ handled = [u \in Uid |-> [n \in Node |-> 0]]
  /\ notes = [u \in Uid |-> {}]
  /\ resets = 0 /\ kills = 0 /\ revives = 0

-----------------------------------------------------------------------------
(***************************************************************************)
(* Writing.  In one action process p writes once to each peer of a set to, *)
(* in the order of its neighbour array, and to the server last; the server *)
(* writes to its children in the order of their addresses.                 *)
(***************************************************************************)
Before(p, q, r) ==
  IF p = Server THEN q < r
  ELSE q # Server /\ (r = Server \/ FillOrder(p, q) < FillOrder(p, r))

\* SIGPIPE ends the process at the first broken connection it writes to.
Dies(p, to) == \E q \in to : conn[p][q] = "broken"

Attempted(p, to) ==
  {q \in to : \A b \in to : conn[p][b] = "broken" => Before(p, q, b)}

(***************************************************************************)
(* get_conn opens a connection that is not in the table if an entry is     *)
(* left and the peer listens.  The server has no such table: a child that  *)
(* was killed has the descriptor -1.                                       *)
(***************************************************************************)
get_conn(p, to, q) ==
  /\ p # Server
  /\ proc[q] # "down"
  /\ LET used   == {r \in Peer : conn[p][r] # "none"}
         opened == {r \in Attempted(p, to) : /\ conn[p][r] = "none"
                                             /\ proc[r] # "down"
                                             /\ Before(p, r, q)}
     IN  Cardinality(used \cup opened) < CONNECTIONS

\* The peers that data written to them reaches.
Reached(p, to) ==
  {q \in Attempted(p, to) : \/ conn[p][q] = "open"
                            \/ conn[p][q] = "none" /\ get_conn(p, to, q)}

\* The result of get_conn_and_send for a single write.
get_conn_and_send(p, q) ==
  conn[p][q] = "fin" \/ q \in Reached(p, {q})

ConnAfter(p, to) ==
  [q \in Peer |->
     IF q \notin Attempted(p, to) THEN conn[p][q]
     ELSE IF q \in Reached(p, to) THEN "open"
     ELSE IF conn[p][q] = "none" THEN "none" ELSE "broken"]

\* What the death of n leaves of the connections c, given the unread data u.
HungUp(c, n, u) ==
  [p \in Peer |->
     IF c[p][n] # "open" THEN c[p]
     ELSE [c[p] EXCEPT ![n] =
             IF n \in Node /\ u[<<p, n, gen[p]>>] # << >> THEN "err" ELSE "fin"]]

(***************************************************************************)
(* Process p takes the first message of every link in from and writes      *)
(* msg[q] to every q in to.                                                *)
(***************************************************************************)
Exchange(p, from, to, msg) ==
  LET left == [l \in Link |-> IF l \in from THEN Tail(net[l]) ELSE net[l]]
      sent == [l \in Link |->
                 IF l[1] = p /\ l[2] \in Reached(p, to) /\ l[3] = gen[p]
                 THEN Append(left[l], msg[l[2]]) ELSE left[l]]
      wrote == [conn EXCEPT ![p] = ConnAfter(p, to)]
  IN  IF Dies(p, to)
      THEN /\ net'  = [l \in Link |-> IF l[2] = p THEN << >> ELSE sent[l]]
           /\ conn' = HungUp(wrote, p, sent)
           /\ proc' = [proc EXCEPT ![p] = "down"]
      ELSE /\ net' = sent
           /\ conn' = wrote
           /\ UNCHANGED proc

\* Every handler leaves alone what belongs to the server and to the model.
Frame == UNCHANGED <<app_msg_id, gen, issued, boundVars>>

\* The history after the apps of n were offered a and n notified the server.
Account(n, to, a, accepted, kinds) ==
  /\ handled' = IF accepted /\ handled[a.uid][n] < 2
                THEN [handled EXCEPT ![a.uid][n] = @ + 1] ELSE handled
  /\ notes' = IF Server \in Reached(n, to)
              THEN [notes EXCEPT ![a.uid] = @ \cup kinds] ELSE notes

Update(n, rt, tbl) ==
  /\ routing'  = [routing EXCEPT ![n] = rt]
  /\ messages' = [messages EXCEPT ![n] = tbl]

-----------------------------------------------------------------------------
(***************************************************************************)
(* Pieces of the handlers.                                                 *)
(***************************************************************************)
packet_crc(p) == <<p.sender, p.receiver, p.local, p.ttl, p.app>>

WithCrc(p) == [p EXCEPT !.crc = packet_crc(p)]

is_valid_crc(p) == p.crc = packet_crc(p)

\* A faulty variant: the text is not compressed.
node_app_setup_delivery_plain(a) == a

\* Sending nodes compress a text that is not empty.
node_app_setup_delivery(a) ==
  [a EXCEPT !.msg = IF @ = "plain" THEN "packed"
                    ELSE IF @ = "bulky" THEN "cut" ELSE @]

\* An app accepts an empty text, and one that comes out of inflate unharmed.
node_app_handle_request(a) ==
  /\ a.req_type = "SEND" => a.to < APPS_COUNT
  /\ a.msg \in {"empty", "packed"}

Verdict(a) == IF node_app_handle_request(a) THEN "GOT" ELSE "FAIL"

\* A faulty variant: the first hop counts as zero.
new_metric_from_zero(p) == ToInt8(TTL - p.ttl - 1)

\* The length of the way a packet has come, as its handler computes it.
new_metric(p) == ToInt8(TTL - p.ttl + 1)

\* A faulty variant: the sender of the flood instead of the last hop.
LearnDirectSender(rt, p) ==
  routing_set_addr(rt, p.sender, p.sender, new_metric(p))

\* A faulty variant: the flood is taken for one that comes from its receiver.
LearnDirectReceiver(rt, p) ==
  routing_set_addr(rt, p.receiver, p.local, new_metric(p))

\* What a flood teaches about the way back to its sender.
LearnDirect(rt, p) ==
  IF /\ new_metric(p) > 0
     /\ \/ routing_next_addr(rt, p.sender) = UINT8_MAX
        \/ routing_get(rt, p.sender).metric > new_metric(p)
  THEN routing_set_addr(rt, p.sender, p.local, new_metric(p))
  ELSE rt

\* What an answer on its way back teaches about the way to its receiver.
LearnInverse(rt, p) ==
  IF new_metric(p) > 0 /\ routing_next_addr(rt, p.receiver) = UINT8_MAX
  THEN routing_set_addr(rt, p.receiver, p.local, new_metric(p))
  ELSE rt

\* A faulty variant: the checksum is not computed again.
broadcast_route_stale(p) ==
  [p EXCEPT !.req = "ROUTE_DIRECT", !.ttl = ToInt8(p.ttl - 1)]

\* The message that broadcast_route sends to every neighbour.
broadcast_route(p) ==
  WithCrc([p EXCEPT !.req = "ROUTE_DIRECT", !.ttl = ToInt8(p.ttl - 1)])

Flood(n, l, p) ==
  Exchange(n, {l}, Neighbours(n), [q \in Node |-> broadcast_route(p)])

Send(n, l, to, p) == Exchange(n, {l}, to, [q \in Node |-> p])

\* The message is taken and nothing comes of it.
Discard(n, l) == Exchange(n, {l}, {}, << >>)

\* Node l[2] finds a message of this kind at the head of link l.
Receives(l, req) ==
  /\ proc[Server] = "up"
  /\ proc[l[2]] # "down"
  /\ net[l] # << >>
  /\ Head(net[l]).req = req

-----------------------------------------------------------------------------
(***************************************************************************)
(* The handlers of messages from the server.                               *)
(***************************************************************************)
HandleServerSend(l) ==
  LET n    == l[2]
      p    == Head(net[l])
      a    == node_app_setup_delivery(p.app)
      next == routing_next_addr(routing[n], p.receiver)
  IN
  /\ l[1] = Server
  /\ Receives(l, "SEND")
  /\ IF ~is_valid_crc(p)
     THEN Discard(n, l) /\ UNCHANGED <<handled, notes>>
     ELSE IF p.receiver = n
     THEN /\ Send(n, l, {Server}, p)
          /\ Account(n, {Server}, a, node_app_handle_request(a), {Verdict(a)})
     ELSE IF next = UINT8_MAX
     THEN /\ Flood(n, l, [p EXCEPT !.app = a, !.local = n, !.ttl = TTL])
          /\ UNCHANGED <<handled, notes>>
     ELSE /\ Send(n, l, {next}, WithCrc([p EXCEPT !.app = a]))
          /\ UNCHANGED <<handled, notes>>
  /\ UNCHANGED nodeVars
  /\ Frame

HandleBroadcast(l) ==
  LET n == l[2]
      p == [Head(net[l]) EXCEPT !.req = "SEND",
                                !.app = node_app_setup_delivery(@)]
  IN
  /\ l[1] = Server
  /\ Receives(l, "BROADCAST")
  /\ Exchange(n, {l}, Neighbours(n),
              [q \in Node |-> WithCrc([p EXCEPT !.receiver = q])])
  /\ UNCHANGED <<nodeVars, handled, notes>>
  /\ Frame

HandleServerUnicast(l) ==
  LET n == l[2]
  IN
  /\ l[1] = Server
  /\ Receives(l, "UNICAST")
  /\ Send(n, l, Neighbours(n),
          [req |-> "UNICAST_CONTEST", node_addr |-> n,
           app |-> node_app_setup_delivery(Head(net[l]).app)])
  /\ UNCHANGED <<nodeVars, handled, notes>>
  /\ Frame

\* Everything goes but message_num and the connection to the server.
HandleReset(l) ==
  LET n == l[2]
  IN
  /\ l[1] = Server
  /\ Receives(l, "RESET")
  /\ gen[n] + 1 \in Gen
  /\ Update(n, routing_table_fill_default, fill_messages_default(messages[n]))
  /\ conn' = [conn EXCEPT ![n] =
                [q \in Peer |-> IF q = Server THEN conn[n][q] ELSE "none"]]
  /\ gen' = [gen EXCEPT ![n] = @ + 1]
  /\ net' = [net EXCEPT ![l] = Tail(@)]
  /\ UNCHANGED <<app_msg_id, proc, historyVars, boundVars>>

-----------------------------------------------------------------------------
(***************************************************************************)
(* The handlers of messages from other nodes.                              *)
(***************************************************************************)
\* A unicast is notified before the apps are asked, and again after.
HandleNodeSend(l) ==
  LET n     == l[2]
      p     == Head(net[l])
      early == IF p.app.req_type = "UNICAST" THEN {"GOT"} ELSE {}
      next  == routing_next_addr(routing[n], p.receiver)
  IN
  /\ l[1] # Server
  /\ Receives(l, "SEND")
  /\ IF ~is_valid_crc(p)
     THEN Discard(n, l) /\ UNCHANGED <<handled, notes>>
     ELSE IF p.receiver = n
     THEN /\ Send(n, l, {Server}, p)
          /\ Account(n, {Server}, p.app, node_app_handle_request(p.app),
                     early \cup {Verdict(p.app)})
     ELSE IF next = UINT8_MAX
     THEN /\ Flood(n, l, [p EXCEPT !.local = n, !.ttl = TTL])
          /\ UNCHANGED <<handled, notes>>
     ELSE Send(n, l, {next}, p) /\ UNCHANGED <<handled, notes>>
  /\ UNCHANGED nodeVars
  /\ Frame

(***************************************************************************)
(* The flood has found its receiver n: the answer is sent back and the     *)
(* message handed to the apps, unless the answer cannot be sent.           *)
(***************************************************************************)
route_direct_handle_delivered(n, l, p, rt, tbl) ==
  LET next == routing_next_addr(rt, p.sender)
      back == WithCrc([p EXCEPT !.req = "ROUTE_INVERSE", !.ttl = TTL,
                                !.local = n])
      done == set_inverse_by_id(tbl, p.app.id)
  IN
  IF get_inverse_by_id(tbl, p.app.id)
  THEN Discard(n, l) /\ Update(n, rt, tbl) /\ UNCHANGED <<handled, notes>>
  ELSE IF next = UINT8_MAX
  THEN Discard(n, l) /\ Update(n, rt, done) /\ UNCHANGED <<handled, notes>>
  ELSE IF get_conn_and_send(n, next)
  THEN /\ Send(n, l, {next, Server}, back)
       /\ Update(n, rt, done)
       /\ Account(n, {next, Server}, p.app, node_app_handle_request(p.app),
                  {Verdict(p.app)})
  ELSE /\ Send(n, l, {next}, back)
       /\ Update(n, routing_del(rt, p.sender), done)
       /\ UNCHANGED <<handled, notes>>

HandleRouteDirect(l) ==
  LET n   == l[2]
      p   == Head(net[l])
      tbl == set_was_message_by_id(messages[n], p.app.id)
      rt  == LearnDirect(routing[n], p)
  IN
  /\ Receives(l, "ROUTE_DIRECT")
  /\ IF \/ p.ttl <= 0
        \/ ~is_valid_crc(p)
        \/ get_was_message_by_id(messages[n], p.app.id)
     THEN Discard(n, l) /\ UNCHANGED <<nodeVars, handled, notes>>
     ELSE IF p.receiver = n
     THEN route_direct_handle_delivered(n, l, p, rt, tbl)
     ELSE /\ Flood(n, l, [p EXCEPT !.local = n])
          /\ Update(n, rt, tbl)
          /\ UNCHANGED <<handled, notes>>
  /\ Frame

HandleRouteInverse(l) ==
  LET n    == l[2]
      p    == Head(net[l])
      rt   == LearnInverse(routing[n], p)
      next == routing_next_addr(rt, p.sender)
      on   == WithCrc([p EXCEPT !.local = n, !.ttl = ToInt8(p.ttl - 1)])
  IN
  /\ Receives(l, "ROUTE_INVERSE")
  /\ IF ~is_valid_crc(p)
     THEN Discard(n, l) /\ UNCHANGED routing
     ELSE IF p.sender = n \/ next = UINT8_MAX
     THEN Discard(n, l) /\ routing' = [routing EXCEPT ![n] = rt]
     ELSE /\ Send(n, l, {next}, on)
          /\ routing' = [routing EXCEPT ![n] =
               IF get_conn_and_send(n, next) THEN rt
               ELSE routing_del(rt, p.sender)]
  /\ UNCHANGED <<messages, handled, notes>>
  /\ Frame

HandleUnicastContest(l) ==
  LET n == l[2]
      u == Head(net[l])
  IN
  /\ Receives(l, "UNICAST_CONTEST")
  /\ Send(n, l, {u.node_addr},
          [u EXCEPT !.req = "UNICAST_FIRST", !.node_addr = n])
  /\ UNCHANGED <<nodeVars, handled, notes>>
  /\ Frame

\* A faulty variant: the addresses are swapped.
send_to_winner_swapped(n, u) ==
  WithCrc([req |-> "SEND", sender |-> u.node_addr, receiver |-> n,
           local |-> 0, ttl |-> 0, app |-> u.app, crc |-> << >>])

\* The message of a unicast, as its origin n sends it to the winner.
send_to_winner(n, u) ==
  WithCrc([req |-> "SEND", sender |-> n, receiver |-> u.node_addr,
           local |-> 0, ttl |-> 0, app |-> u.app, crc |-> << >>])

\* The first node that answers gets the message.
HandleUnicastFirst(l) ==
  LET n == l[2]
      u == Head(net[l])
      t == messages[n]
  IN
  /\ Receives(l, "UNICAST_FIRST")
  /\ IF is_id_set(t, u.app.id)
     THEN Discard(n, l)
     ELSE Send(n, l, {u.node_addr}, send_to_winner(n, u))
  /\ messages' = [messages EXCEPT ![n] = set_unicast_status_by_id(t, u.app.id)]
  /\ UNCHANGED <<routing, handled, notes>>
  /\ Frame

-----------------------------------------------------------------------------
(***************************************************************************)
(* The server, on behalf of clients.                                       *)
(***************************************************************************)
Quiet == \A l \in Link : net[l] = << >>

(***************************************************************************)
(* When a client may come with a message or a reset: at any time ("free"), *)
(* or when nothing is under way any more ("quiet").  Nodes may be killed   *)
(* and revived at any time.                                                *)
(***************************************************************************)
Idle ==
  /\ proc[Server] = "up"
  /\ \/ Pace = "free"
     \/ Quiet

\* SEND, BROADCAST and UNICAST: number the message and pass it to its sender.
ClientRequest(r, g) ==
  LET a == [req_type |-> r.cmd, to |-> r.to, id |-> app_msg_id,
            msg |-> r.msg, uid |-> Len(issued) + 1]
      p == [req |-> r.cmd, sender |-> r.sender,
            receiver |-> IF r.cmd = "SEND" THEN r.receiver ELSE g,
            local |-> g, ttl |-> IF r.cmd = "SEND" THEN g ELSE BROADCAST_RADIUS,
            app |-> a, crc |-> << >>]
  IN
  /\ Idle
  /\ Len(issued) < MaxRequests
  /\ Exchange(Server, {}, {r.sender} \cap Node,
              [q \in Node |-> IF r.cmd = "SEND" THEN WithCrc(p) ELSE p])
  /\ issued' = Append(issued, r)
  /\ app_msg_id' = (app_msg_id + 1) % (UINT16_MAX + 1)
  /\ UNCHANGED <<gen, nodeVars, handled, notes, boundVars>>

\* New processes for the nodes in S, which listen and have fresh tables.
Start(S, c) ==
  /\ conn' = [p \in Peer |-> IF p \in S THEN [q \in Peer |-> "none"] ELSE c[p]]
  /\ gen' = [p \in Peer |-> IF p \in S THEN gen[p] + 1 ELSE gen[p]]
  /\ routing' = [n \in Node |->
                   IF n \in S THEN routing_table_fill_default ELSE routing[n]]
  /\ messages' = [n \in Node |-> IF n \in S THEN NewTable ELSE messages[n]]

\* Nodes whose connection the server has closed, and that have exited.
Startable(S) == \A n \in S : /\ conn[Server][n] = "none"
                             /\ proc[n] = "down"
                             /\ gen[n] + 1 \in Gen

\* RESET to every node the server is connected to, a new process for others.
ClientReset ==
  LET others == {n \in Node : conn[Server][n] = "none"}
      told   == Node \ others
      reach  == Reached(Server, told)
  IN
  /\ Idle
  /\ resets < MaxResets
  /\ Startable(others)
  /\ net' = [l \in Link |-> IF l[1] = Server /\ l[2] \in reach /\ l[3] = 0
                            THEN Append(net[l], [req |-> "RESET"]) ELSE net[l]]
  /\ Start(others, [conn EXCEPT ![Server] = ConnAfter(Server, told)])
  /\ proc' = [p \in Peer |->
                IF p \in others THEN "up"
                ELSE IF p = Server /\ Dies(Server, told) THEN "down"
                ELSE proc[p]]
  /\ app_msg_id' = 0
  /\ resets' = resets + 1
  /\ UNCHANGED <<historyVars, kills, revives>>

\* The server closes its connection and signals the process.
ClientKill(n) ==
  /\ proc[Server] = "up"
  /\ kills < MaxKills
  /\ conn[Server][n] # "none"
  /\ conn' = [conn EXCEPT ![Server][n] = "none"]
  /\ proc' = [proc EXCEPT ![n] = IF @ = "up" THEN "term" ELSE @]
  /\ kills' = kills + 1
  /\ UNCHANGED <<app_msg_id, gen, net, nodeVars, historyVars, resets, revives>>

ClientRevive(n) ==
  /\ proc[Server] = "up"
  /\ revives < MaxRevives
  /\ Startable({n})
  /\ Start({n}, conn)
  /\ proc' = [proc EXCEPT ![n] = "up"]
  /\ revives' = revives + 1
  /\ UNCHANGED <<app_msg_id, net, historyVars, resets, kills>>

\* A new process reports to the server, which connects to it.
NodeUpdate(n) ==
  /\ proc[Server] = "up"
  /\ proc[n] = "up"
  /\ conn[Server][n] = "none"
  /\ conn' = [conn EXCEPT ![Server][n] = "open"]
  /\ UNCHANGED <<app_msg_id, proc, gen, net, nodeVars, historyVars, boundVars>>

\* A signalled process leaves its poll loop and closes everything.
NodeExit(n) ==
  /\ proc[Server] = "up"
  /\ proc[n] = "term"
  /\ proc' = [proc EXCEPT ![n] = "down"]
  /\ net' = [l \in Link |-> IF l[2] = n THEN << >> ELSE net[l]]
  /\ conn' = HungUp(conn, n, net)
  /\ UNCHANGED <<app_msg_id, gen, nodeVars, historyVars, boundVars>>

-----------------------------------------------------------------------------
HandleServer(l) ==
  \/ HandleServerSend(l)
  \/ HandleBroadcast(l)
  \/ HandleServerUnicast(l)
  \/ HandleReset(l)

HandleNode(l) ==
  \/ HandleNodeSend(l)
  \/ HandleRouteDirect(l)
  \/ HandleRouteInverse(l)
  \/ HandleUnicastContest(l)
  \/ HandleUnicastFirst(l)

Handle(l) == HandleServer(l) \/ HandleNode(l)

Client ==
  \/ \E r \in Requests, g \in Uninitialised : ClientRequest(r, g)
  \/ ClientReset
  \/ \E n \in Node : ClientKill(n) \/ ClientRevive(n)

Next ==
  \/ Client
  \/ \E l \in Link : Handle(l)
  \/ \E n \in Node : NodeUpdate(n) \/ NodeExit(n)

Spec == Init /\ [][Next]_vars

(***************************************************************************)
(* As long as messages wait, some process handles one: poll returns at     *)
(* once when a descriptor is readable, and the loop goes round for ever.   *)
(* A new process reports to the server and a signalled one exits.  Nothing *)
(* makes clients send.  The poll loop serves every descriptor in turn, but *)
(* that much fairness is not needed here.                                  *)
(***************************************************************************)
Fairness ==
  /\ WF_vars(\E l \in Link : Handle(l))
  /\ WF_vars(\E n \in Node : NodeUpdate(n) \/ NodeExit(n))

FairSpec == Spec /\ Fairness

-----------------------------------------------------------------------------
(***************************************************************************)
(* Properties.                                                             *)
(***************************************************************************)
(***************************************************************************)
(* A route leads to a node in reach: what handle_node_route_direct and     *)
(* handle_node_route_inverse enter into the table is always the neighbour  *)
(* the packet came from, never an address from the uninitialised or the    *)
(* forwarded part of a packet.                                             *)
(***************************************************************************)
NextHopIsNeighbour ==
  \A n \in Node, d \in Node :
    routing[n][d].addr \in Neighbours(n) \cup {UINT8_MAX}

(***************************************************************************)
(* A node connects only to nodes in reach and to the server, so the        *)
(* CONNECTIONS entries of its table are enough for ever ("server also      *)
(* counted", node_essentials.c) and get_conn fails only on a dead peer.    *)
(***************************************************************************)
ConnectsToNeighbours ==
  \A n \in Node : {q \in Peer : conn[n][q] # "none"}
                    \subseteq Neighbours(n) \cup {Server}

(***************************************************************************)
(* What a connection may carry.  A packet that spreads or answers a flood  *)
(* names as local_sender_addr the node at the other end, a contest message *)
(* likewise as node_addr, that node is in reach, and what is checked with  *)
(* is_valid_crc is valid.  This is why the handlers may enter              *)
(* local_sender_addr into the routing table without looking at it.         *)
(***************************************************************************)
Carried(l) ==
  {x \in Message :
    /\ l[1] # Server => l[1] \in Neighbours(l[2])
    /\ x.req \in {"ROUTE_DIRECT", "ROUTE_INVERSE"}
         => l[1] # Server /\ x.local = l[1]
    /\ x.req \in {"UNICAST_CONTEST", "UNICAST_FIRST"}
         => l[1] # Server /\ x.node_addr = l[1]
    /\ x.req \in {"SEND", "ROUTE_DIRECT", "ROUTE_INVERSE"} => is_valid_crc(x)}

LinksCarry == \A l \in Link : net[l] \in Seq(Carried(l))

(***************************************************************************)
(* Who may handle a message, whatever nodes die and start again in the     *)
(* meantime: the receiver of a send, and nodes in reach of the sender of a *)
(* broadcast or a unicast.                                                 *)
(***************************************************************************)
HandledByAddressee ==
  \A u \in 1 .. Len(issued) :
    LET r   == issued[u]
        who == {n \in Node : handled[u][n] > 0}
    IN  who \subseteq IF r.cmd = "SEND" THEN {r.receiver}
                      ELSE Neighbours(r.sender)

(***************************************************************************)
(* The contest of a unicast has at most one winner (readme.md: "request is *)
(* handled by one node only"), in whatever order the answers of the nodes  *)
(* in reach come back and contests overlap.                                *)
(***************************************************************************)
OneWinner ==
  \A u \in 1 .. Len(issued) : issued[u].cmd = "UNICAST" =>
    Cardinality({n \in Node : handled[u][n] > 0}) <= 1

(***************************************************************************)
(* In a mesh in which no node restarts, a route never leads to a node that *)
(* knows no way on: send_next finds an entry, and its TODO branch ("this   *)
(* may happen if node died after path was found") needs a death indeed.    *)
(***************************************************************************)
NoBlackHole ==
  \A n \in Node, d \in Node :
    LET a == routing[n][d].addr
    IN  a # UINT8_MAX /\ a # d => routing[a][d].addr # UINT8_MAX

\* The nodes that have seen the flood of request u, by the message tables tab.
Marked(tab, u) == {n \in Node : get_was_message_by_id(tab[n], u - 1)}

(***************************************************************************)
(* The hops that a copy of a flood has spent are no more than the nodes    *)
(* that have seen the flood: handle_route_direct takes one off the ttl     *)
(* only where it marks the id, so wherever copies meet no hop is spent     *)
(* twice, and one whose ttl has run out leaves TTL - 1 nodes behind it     *)
(* that have seen it.                                                      *)
(***************************************************************************)
FloodsSpread ==
  \A l \in Link : \A i \in 1 .. Len(net[l]) :
    LET p == net[l][i]
    IN  p.req = "ROUTE_DIRECT" =>
          Cardinality(Marked(messages, p.app.uid)) + p.ttl + 1 >= TTL

Live == Node \ Killed

\* What a client may expect of request u.
Answered(u) ==
  LET r   == issued[u]
      who == {n \in Node : handled[u][n] > 0}
  IN  r.sender \in Live =>
        /\ r.cmd = "SEND" /\ r.receiver \in Live => notes[u] # {}
        /\ r.cmd = "BROADCAST" => Neighbours(r.sender) \cap Live \subseteq who
        /\ r.cmd = "UNICAST" => Cardinality(who) = 1

(***************************************************************************)
(* When nothing is under way any more, every send to a node that is up has *)
(* been notified, every broadcast has been handled by all nodes in reach   *)
(* and every unicast by one: no order in which floods, answers and routed  *)
(* messages meet in the handlers loses a request.                          *)
(***************************************************************************)
AnsweredWhenQuiet == Quiet => \A u \in 1 .. Len(issued) : Answered(u)

(***************************************************************************)
(* Floods, answers and routed messages come to an end: the mesh becomes    *)
(* quiet again and again.  This is for requests that wait until it is      *)
(* quiet, and for small meshes: on larger ones enough sends can leave      *)
(* routes in a circle, and nothing limits the hops of a routed SEND.       *)
(***************************************************************************)
EveryMessageEnds == []<>Quiet

(***************************************************************************)
(* Every request is answered in the end.                                   *)
(***************************************************************************)
EveryRequestAnswered ==
  \A u \in Uid : u <= Len(issued) ~> (u <= Len(issued) /\ Answered(u))

(***************************************************************************)
(* A process that is gone was killed by a client: the death of a node does *)
(* not take others with it (readme.md, Bugs: error 141 after killing nodes *)
(* is struck out as solved).                                               *)
(***************************************************************************)
OnlyKilledNodesDie ==
  \A p \in Peer : proc[p] = "down" => p \in Node /\ conn[Server][p] = "none"

-----------------------------------------------------------------------------
ReachOf == [n \in Node |-> Neighbours(n)]

\* The requests that the apps of a node accept.
Acceptable ==
  {r \in Requests : node_app_handle_request(node_app_setup_delivery(
                      [req_type |-> r.cmd, to |-> r.to, msg |-> r.msg]))}

Service == INSTANCE MeshService WITH
  Reach <- ReachOf, Good <- Acceptable, Once <- MaxResets + MaxKills = 0

(***************************************************************************)
(* The mesh keeps the promise of MeshService in every step: a message is   *)
(* accepted only where it is for, OK is notified of a send only with its   *)
(* acceptance, and in a mesh without resets and restarts nothing is        *)
(* accepted twice, in whatever order floods, answers and contests cross.   *)
(***************************************************************************)
ImplementsService == Service!Spec
=============================================================================
