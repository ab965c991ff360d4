------------------------------- MODULE Serving ------------------------------
(***************************************************************************)
(* The poll loop that the server and every node run (common/src/serving.c, *)
(* common/src/io.c, handle_request in server.c and node.c) and what comes  *)
(* in through it: processes that connect, write requests that arrive in    *)
(* pieces, and close or die in the middle of one.  The loop is one thread; *)
(* while it waits in recv for the rest of a request it serves nobody else. *)
(***************************************************************************)
EXTENDS ClientArgs, SequencesExt

CONSTANTS
  Principal,     \* connections of clients to the server, or of it to a node
  Peer,          \* connections of other nodes
  CommandLines,  \* command lines a client is called with
  Intent,        \* Intent[argv]: the request the readme says argv is
  Scripts,       \* Scripts[from][to]: what such a process writes to the other
  CAPACITY,      \* room in pfds at the start
  MaxCapacity    \* a bound of the model

Conn     == Principal \cup Peer
Listener == "listener"

ASSUME ServingAssumption ==
  /\ IsFiniteSet(Conn) /\ Principal \cap Peer = {}
  /\ Listener \notin Conn /\ "none" \notin Conn
  /\ CAPACITY \in Nat \ {0} /\ MaxCapacity \in Nat
  /\ MaxCapacity >= CAPACITY /\ MaxCapacity >= 2 * (Cardinality(Conn) + 1)

VARIABLES
  role,          \* "server" or "node": whose loop this is
  pfds,          \* the array given to poll, as far as memory was allotted
  pfd_count, pfd_capacity,
  at,            \* the entry the loop has come to; -1 outside of it
  new,           \* connections accepted since poll returned
  phase,         \* how far a connection is; "refused": a handler failed
  backlog,       \* connections that wait to be accepted
  wire,          \* all the bytes the other end is to write
  ends,          \* how many of them the first k requests are
  intended,      \* the requests that are meant by them
  arrived,       \* how many of them have arrived
  fin,           \* the other end has closed, or died
  taken,         \* how many have been read
  handled        \* the requests that were read and handled

vars == <<role, pfds, pfd_count, pfd_capacity, at, new, phase, backlog, wire,
          ends, intended, arrived, fin, taken, handled>>

arrayVars == <<pfds, pfd_count, pfd_capacity, at, new>>
peerVars  == <<role, wire, ends, intended, arrived, fin>>

(***************************************************************************)
(* An entry of pfds: the descriptor, and whether revents has POLLIN.       *)
(* malloc and realloc leave revents as it happens to be ("unset"); what    *)
(* del_from_pfds takes out of the array stays in memory behind it.         *)
(***************************************************************************)
Unused == [fd |-> "none", revents |-> "unset"]

Entry == [fd : Conn \cup {Listener, "none"}, revents : {"yes", "no", "unset"}]

Index == 0 .. MaxCapacity - 1

TypeOK ==
  /\ role \in {"server", "node"}
  /\ pfds \in [Index -> Entry]
  /\ pfd_capacity \in 1 .. MaxCapacity
  /\ pfd_count \in 1 .. pfd_capacity
  /\ at \in -1 .. pfd_count - 1
  /\ new \subseteq Conn
  /\ phase \in [Conn -> {"idle", "waiting", "open", "closed", "refused"}]
  /\ \A c \in Conn : arrived[c] \in 0 .. Len(wire[c])
  /\ fin \in [Conn -> BOOLEAN]
  /\ \A c \in Conn : taken[c] \in 0 .. arrived[c]

Encoded(msgs) ==
  [k \in 1 .. Len(msgs) |-> format_create(msgs[k], APP_MESSAGE_LEN)]

(***************************************************************************)
(* What a request asks for: its kind and its payload.  Of a message from a *)
(* client it is what the server passes on: it sets the identifier and the  *)
(* checksums itself, nodes put in their own address, and give a send its   *)
(* time to live; no application looks at the receiver or the application   *)
(* addresses of a broadcast.  Of a ping or reset from the server it is     *)
(* only the kind.                                                          *)
(***************************************************************************)
Meaning(m) ==
  LET p == m.payload
      a == p.app_payload
  IN  IF m.sender = "SERVER" /\ m.req \in AddrRequest THEN <<m.req>>
      ELSE IF m.sender # "CLIENT" \/ m.req \notin PacketRequest THEN <<m.req, p>>
      ELSE <<m.req, p.sender_addr,
             IF m.req = "SEND" THEN <<p.receiver_addr, a.addr_from, a.addr_to>>
             ELSE <<p.time_to_live>>,
             a.req_type, a.message>>

\* The bytes of some requests, where each ends, and what they mean.
Encoding(msgs, meant) ==
  LET out == Encoded(msgs)
  IN  <<FlattenSeq(out),
        [k \in DOMAIN out |-> Len(FlattenSeq(SubSeq(out, 1, k)))], meant>>

(***************************************************************************)
(* What the process at the other end of c says to one of kind r, and what  *)
(* it means.  A client says what it has made of its command line; nodes    *)
(* and the server make their requests themselves.                          *)
(***************************************************************************)
Says(r, c) ==
  IF r = "server" /\ c \in Principal
  THEN UNION {{<< <<m>>, <<Intent[argv]>> >> : m \in parse_args(argv)} :
                argv \in CommandLines}
  ELSE {<<s, [k \in DOMAIN s |-> Meaning(s[k])]>> :
          s \in Scripts[IF c \in Peer THEN "node" ELSE "server"][r]}

Openings(r, c) == {Encoding(x[1], x[2]) : x \in Says(r, c)}

\* Whoever connects writes at least a byte, and requests end within the bytes.
ASSUME OpeningsAssumption ==
  \A r \in {"server", "node"}, c \in Conn : \A o \in Openings(r, c) :
    o[1] \in Seq(Int) /\ o[1] # << >> /\ o[2] \in Seq(1 .. Len(o[1]))

Init ==
  /\ role \in {"server", "node"}
  /\ pfds = [j \in Index |-> IF j = 0 THEN [fd |-> Listener, revents |-> "unset"]
                             ELSE Unused]
  /\ pfd_count = 1 /\ pfd_capacity = CAPACITY
  /\ at = -1 /\ new = {}
  /\ phase = [c \in Conn |-> "idle"]
  /\ backlog = << >>
  /\ \E f \in [Conn -> UNION {Openings(role, c) : c \in Conn}] :
       /\ \A c \in Conn : f[c] \in Openings(role, c)
       /\ wire = [c \in Conn |-> f[c][1]]
       /\ ends = [c \in Conn |-> f[c][2]]
       /\ intended = [c \in Conn |-> f[c][3]]
  /\ arrived = [c \in Conn |-> 0]
  /\ fin = [c \in Conn |-> FALSE]
  /\ taken = [c \in Conn |-> 0]
  /\ handled = [c \in Conn |-> << >>]

-----------------------------------------------------------------------------
(***************************************************************************)
(* The other ends.                                                         *)
(***************************************************************************)
Connect(c) ==
  /\ phase[c] = "idle"
  /\ phase' = [phase EXCEPT ![c] = "waiting"]
  /\ backlog' = Append(backlog, c)
  /\ UNCHANGED <<arrayVars, peerVars, taken, handled>>

(***************************************************************************)
(* Bytes arrive in pieces, of one request or of several.  The model breaks *)
(* a request before its last byte, and the first one after its length.     *)
(***************************************************************************)
Breaks(c) == {1} \cup UNION {{e - 1, e} : e \in Range(ends[c])}

Connected(c) == phase[c] \in {"waiting", "open"} /\ ~fin[c]

Arrive(c) ==
  /\ Connected(c)
  /\ \E k \in Breaks(c) : k > arrived[c] /\ arrived' = [arrived EXCEPT ![c] = k]
  /\ UNCHANGED <<arrayVars, phase, backlog, role, wire, ends, intended, fin, taken, handled>>

\* A client or a node closes its end, or it dies.
Close(c) ==
  /\ Connected(c)
  /\ fin' = [fin EXCEPT ![c] = TRUE]
  /\ UNCHANGED <<arrayVars, phase, backlog, role, wire, ends, intended, arrived, taken, handled>>

-----------------------------------------------------------------------------
(***************************************************************************)
(* The array of descriptors.                                               *)
(***************************************************************************)
\* A faulty variant: the last entry is not looked at.
NextReady_short(a, n, j) ==
  LET R == {k \in j .. n - 2 : a[k].revents = "yes"}
  IN  IF R = {} THEN -1 ELSE CHOOSE k \in R : \A l \in R : k <= l

\* A faulty variant: revents is not looked at.
NextReady_any(a, n, j) == IF j < n THEN j ELSE -1

\* The next entry from j on that the loop does something about.
NextReady(a, n, j) ==
  LET R == {k \in j .. n - 1 : a[k].revents = "yes"}
  IN  IF R = {} THEN -1 ELSE CHOOSE k \in R : \A l \in R : k <= l

\* A faulty variant: the array does not grow.
Capacity_fixed(n, cap) == cap

\* The room for one more entry when there are n.
Capacity(n, cap) == IF n = cap THEN cap * 2 ELSE cap

\* Only fd and events are set; revents is what it was in this place.
add_to_pfds(c) ==
  {[pfds EXCEPT ![pfd_count] = [fd |-> c, revents |-> r]] :
     r \in IF pfds[pfd_count].revents = "unset" THEN {"yes", "no"}
           ELSE {pfds[pfd_count].revents}}

\* A faulty variant: the entry behind the last one.
del_from_pfds_past(i) == [pfds EXCEPT ![i] = pfds[pfd_count]]

\* The last entry takes the place of entry i.
del_from_pfds(i) == [pfds EXCEPT ![i] = pfds[pfd_count - 1]]

-----------------------------------------------------------------------------
(***************************************************************************)
(* The loop.                                                               *)
(***************************************************************************)
Readable(fd) ==
  IF fd = Listener THEN backlog # << >> ELSE arrived[fd] > taken[fd] \/ fin[fd]

\* poll returns when something is there; a timeout changes nothing.  It fails
\* when a signal comes, and the process exits: Supervisor has how it ends.
Poll ==
  LET a == [j \in Index |->
              IF j >= pfd_count THEN pfds[j]
              ELSE [pfds[j] EXCEPT !.revents = IF Readable(pfds[j].fd) THEN "yes"
                                               ELSE "no"]]
  IN
  /\ at = -1
  /\ \E j \in 0 .. pfd_count - 1 : Readable(pfds[j].fd)
  /\ pfds' = a
  /\ at' = NextReady(a, pfd_count, 0)
  /\ new' = {}
  /\ UNCHANGED <<pfd_count, pfd_capacity, phase, backlog, peerVars, taken, handled>>

\* The loop has come to the listening socket.
Accept ==
  /\ at # -1 /\ pfds[at].fd = Listener
  /\ backlog # << >>
  /\ \E a \in add_to_pfds(Head(backlog)) :
       pfds' = a /\ at' = NextReady(a, pfd_count + 1, at + 1)
  /\ pfd_capacity' = Capacity(pfd_count, pfd_capacity)
  /\ pfd_count' = pfd_count + 1
  /\ new' = new \cup {Head(backlog)}
  /\ phase' = [phase EXCEPT ![Head(backlog)] = "open"]
  /\ backlog' = Tail(backlog)
  /\ UNCHANGED <<peerVars, taken, handled>>

\* The bytes that were declared to follow the length, in an uint8_t.
Declared(c) == (wire[c][taken[c] + 1] - 1) % 256

\* io_read_all returns: everything is there, or nothing more will come.
Returns(c) ==
  \/ fin[c]
  \/ arrived[c] > taken[c] /\ arrived[c] > taken[c] + Declared(c)

Received(c) ==
  LET end == taken[c] + 1 + Declared(c)
  IN  SubSeq(wire[c], taken[c] + 2, IF end <= arrived[c] THEN end ELSE arrived[c])

\* The requests server_listener_handle and node_listener_handle_request know.
Requests(r, sender) ==
  CASE r = "server" /\ sender = "CLIENT" ->
         {"SEND", "PING", "KILL_NODE", "RESET", "REVIVE_NODE", "BROADCAST", "UNICAST"}
    [] r = "server" /\ sender = "NODE" -> {"UPDATE", "NOTIFY"}
    [] r = "node" /\ sender = "SERVER" ->
         {"PING", "SEND", "RESET", "UNICAST", "BROADCAST"}
    [] r = "node" /\ sender = "NODE" ->
         {"SEND", "ROUTE_DIRECT", "ROUTE_INVERSE", "UNICAST_CONTEST", "UNICAST_FIRST"}
    [] OTHER -> {}

\* A request is read, and it is complete.
Reads(c) ==
  /\ arrived[c] > taken[c]
  /\ format_is_message_correct(Len(Received(c)), Declared(c))

\* The loop has come to connection c, and handle_request gets to its end.
Serves(c) ==
  /\ at # -1 /\ pfds[at].fd = c
  /\ Returns(c)
  /\ UNCHANGED <<pfd_capacity, new, backlog, peerVars>>

Handles(c) ==
  /\ Reads(c)
  /\ taken' = [taken EXCEPT ![c] = @ + 1 + Len(Received(c))]
  /\ handled' = [handled EXCEPT ![c] = Append(@, format_parse(Received(c)))]

CloseConnection(c, how) ==
  /\ phase' = [phase EXCEPT ![c] = how]
  /\ pfds' = del_from_pfds(at)
  /\ pfd_count' = pfd_count - 1
  /\ at' = NextReady(del_from_pfds(at), pfd_count - 1, at + 1)

HandleRequest(c) ==
  /\ Serves(c)
  /\ Handles(c)
  /\ at' = NextReady(pfds, pfd_count, at + 1)
  /\ UNCHANGED <<pfds, pfd_count, phase>>

\* A handler of the server cannot write to a node or a client; what the
\* handlers of a node return is not looked at.
HandlerFails(c) ==
  /\ role = "server"
  /\ Serves(c)
  /\ Handles(c)
  /\ format_parse(Received(c)).req # "UPDATE"
  /\ CloseConnection(c, "refused")

\* The end of the connection, or a request that is cut off.
EndsConnection(c) ==
  /\ Serves(c)
  /\ ~Reads(c)
  /\ CloseConnection(c, "closed")
  /\ UNCHANGED <<taken, handled>>

Loop ==
  \/ Poll
  \/ Accept
  \/ \E c \in Conn : HandleRequest(c) \/ HandlerFails(c) \/ EndsConnection(c)

Next == Loop \/ \E c \in Conn : Connect(c) \/ Arrive(c) \/ Close(c)

(***************************************************************************)
(* The loop goes on as long as it is not blocked, and whoever connects     *)
(* writes its requests at once, as clients and nodes do, or closes; but    *)
(* the server connects to a node and has nothing to say to it until a      *)
(* client wants something.  Nothing makes anyone connect.                  *)
(***************************************************************************)
HasToSay(c) == role = "server" \/ c \in Peer \/ arrived[c] > 0

Fairness ==
  WF_vars(Loop) /\ \A c \in Conn : WF_vars(HasToSay(c) /\ (Arrive(c) \/ Close(c)))

Spec == Init /\ [][Next]_vars /\ Fairness

-----------------------------------------------------------------------------
(***************************************************************************)
(* Properties.                                                             *)
(***************************************************************************)
(***************************************************************************)
(* The array has the listening socket first and every open connection      *)
(* exactly once, however connections are accepted, closed, moved and the   *)
(* array grown while the loop goes over it.                                *)
(***************************************************************************)
WatchedOnce ==
  LET used == 0 .. pfd_count - 1
  IN  /\ pfds[0].fd = Listener
      /\ {pfds[j].fd : j \in used} = {Listener} \cup {c \in Conn : phase[c] = "open"}
      /\ \A j, k \in used : pfds[j].fd = pfds[k].fd => j = k

(***************************************************************************)
(* What is said is fit to be sent and known to the listener, and command   *)
(* lines are parsed to what the readme explains, as they are with a text   *)
(* that fits.  Every length fits its byte, and the bytes that FlattenSeq   *)
(* joins are those of each request.                                        *)
(***************************************************************************)
Joins(out) ==
  LET end(k) == IF k = 0 THEN 0 ELSE Len(FlattenSeq(SubSeq(out, 1, k)))
  IN  /\ end(Len(out)) = Len(FlattenSeq(out))
      /\ \A k \in 1 .. Len(out) :
           SubSeq(FlattenSeq(out), end(k - 1) + 1, end(k)) = out[k]

WellMeant ==
  /\ APP_MESSAGE_LEN + 17 <= UINT8_MAX
  /\ \A r \in {"server", "node"}, c \in Conn : \A x \in Says(r, c) :
       /\ x[1] \in Seq({m \in Sendable(APP_MESSAGE_LEN) : m.req \in Requests(r, m.sender)})
       /\ x[1] # << >>
       /\ x[2] = [k \in 1 .. Len(x[1]) |-> Meaning(x[1][k])]
       /\ Joins(Encoded(x[1]))

Complete(c) == Cardinality({k \in DOMAIN ends[c] : ends[c][k] <= arrived[c]})

(***************************************************************************)
(* What is handled is what was meant at the other end, in order and once:  *)
(* a command line reaches the server as the readme explains it, with the   *)
(* nodes, apps and text it names, requests that arrive in pieces or        *)
(* together are told apart, one that is cut off is not handled, and the    *)
(* listener has a case for each.                                           *)
(***************************************************************************)
HandledAsMeant ==
  \A c \in Conn :
    /\ Len(handled[c]) <= Complete(c)
    /\ \A m \in Range(handled[c]) : m.req \in Requests(role, m.sender)
    /\ IsPrefix([k \in 1 .. Len(handled[c]) |-> Meaning(handled[c][k])], intended[c])

Blocked(c) == at # -1 /\ pfds[at].fd = c /\ ~Returns(c)

(***************************************************************************)
(* The loop waits only for a connection that has begun a request, or one   *)
(* accepted a moment ago (whose revents nobody has set): a connection on   *)
(* which nothing happens does not hold up the others.                      *)
(***************************************************************************)
WaitsForTalkersOnly ==
  \A c \in Conn : Blocked(c) => c \in new \/ arrived[c] > taken[c]

(***************************************************************************)
(* Every request that arrives whole is handled in the end, unless a        *)
(* handler of the server before it on the same connection has failed,      *)
(* which closes the connection, or a node was made to wait by an unset     *)
(* revents for the server, which has just connected and is silent.         *)
(***************************************************************************)
EveryRequestHandled ==
  []<>(\/ \A c \in Conn : Len(handled[c]) = Complete(c) \/ phase[c] = "refused"
       \/ \E c \in Conn : Blocked(c) /\ ~HasToSay(c))
=============================================================================
