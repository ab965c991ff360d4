---------------------------- MODULE ServerClients ---------------------------
(***************************************************************************)
(* How the server brings the outcome of a request back to the client that  *)
(* asked (server/src/server_listener.c).  A client process connects, sends *)
(* one request and waits for one answer.  For a message the server has no  *)
(* answer yet: it notes the client's descriptor under the id of the        *)
(* message in clients[MAX_CLIENT], hands the message to the mesh and goes  *)
(* on.  Later nodes notify it about the id.  Of the mesh this module keeps *)
(* only the notifies that are still to come; what the nodes do is in Mesh. *)
(***************************************************************************)
EXTENDS Integers, FiniteSets

CONSTANTS
  Clients,      \* client processes, each with one request
  Notifiers,    \* nodes that notify the server
  MAX_CLIENT,   \* entries of the client table
  MaxFd,        \* descriptors the server can have open
  MaxNotifies,  \* notifies about one message (a unicast has two)
  MaxResets,
  Batch,        \* clients that may come before all of them are done
  ResetGap      \* messages between two resets, unless there are none

UINT16_MAX == 65535
Fd         == 1 .. MaxFd
Slot       == 0 .. MAX_CLIENT - 1
Nobody     == "nobody"

ASSUME ServerClientsAssumption ==
  /\ IsFiniteSet(Clients) /\ Nobody \notin Clients
  /\ MAX_CLIENT \in 1 .. 255 /\ MaxFd \in Nat \ {0}
  /\ MaxNotifies \in Nat /\ MaxResets \in Nat
  /\ Batch \in Nat \ {0} /\ ResetGap \in Nat

VARIABLES
  app_msg_id,   \* the id of the next message
  clients,      \* the client table
  client_num,   \* the entry after the last one that was written
  fds,          \* whose connection a descriptor of the server is
  written,      \* descriptors written to after their client had left
  server,       \* "up" or "down"
  notifier,     \* the connection of a node to the server
  client,       \* "idle", "waiting" for the answer, or "left"
  request,      \* how far the server has come with the request of a client
  mesh,         \* the message of a client: its id and the notifies to come
  answer,       \* the client whose request the answer a client gets is about
  told,         \* clients whose outcome a node has written to the server
  batch, resets

vars == <<app_msg_id, clients, client_num, fds, written, server, notifier,
          client, request, mesh, answer, told, batch, resets>>

ClientEntry == [fd : Fd \cup {-1}, app_id : 0 .. UINT16_MAX]

MeshMessage ==
  [id : 0 .. UINT16_MAX, by : Notifiers \cup {Nobody}, left : 0 .. MaxNotifies]

NoMessage == [id |-> 0, by |-> Nobody, left |-> 0]

TypeOK ==
  /\ app_msg_id \in 0 .. UINT16_MAX
  /\ clients \in [Slot -> ClientEntry]
  /\ client_num \in 0 .. MAX_CLIENT
  /\ fds \in [Fd -> Clients \cup {Nobody}]
  /\ written \subseteq Fd
  /\ server \in {"up", "down"}
  /\ notifier \in [Notifiers -> {"open", "fin", "broken"}]
  /\ client \in [Clients -> {"idle", "waiting", "left"}]
  /\ request \in [Clients -> {"none", "queued", "accepted", "read"}]
  /\ mesh \in [Clients -> MeshMessage]
  /\ answer \in [Clients -> Clients \cup {Nobody}]
  /\ told \subseteq Clients
  /\ batch \in 0 .. Batch /\ resets \in 0 .. MaxResets

\* clients[] is zero but for the descriptors, which init_clients sets.
init_clients == [s \in Slot |-> [fd |-> -1, app_id |-> 0]]

Init ==
  /\ app_msg_id = 0
  /\ clients = init_clients
  /\ client_num = 0
  /\ fds = [f \in Fd |-> Nobody]
  /\ written = {}
  /\ server = "up"
  /\ notifier = [n \in Notifiers |-> "open"]
  /\ client = [c \in Clients |-> "idle"]
  /\ request = [c \in Clients |-> "none"]
  /\ mesh = [c \in Clients |-> NoMessage]
  /\ answer = [c \in Clients |-> Nobody]
  /\ told = {}
  /\ batch = 0 /\ resets = 0

-----------------------------------------------------------------------------
(***************************************************************************)
(* The client table.                                                       *)
(***************************************************************************)
\* A faulty variant: the table is full one entry too late.
next_slot_late == IF client_num > MAX_CLIENT THEN 0 ELSE client_num

\* A faulty variant: client_num is not advanced.
next_slot_first == 0

\* The entry set_client writes.
next_slot == IF client_num = MAX_CLIENT THEN 0 ELSE client_num

set_client(id, fd) ==
  /\ clients' = [clients EXCEPT ![next_slot] = [fd |-> fd, app_id |-> id]]
  /\ client_num' = next_slot + 1

Entries(id) == {s \in Slot : clients[s].app_id = id}

\* The entry get_client_fd_by_id stops at.
FirstEntry(id) == CHOOSE s \in Entries(id) : \A t \in Entries(id) : s <= t

get_client_fd_by_id(id) ==
  IF Entries(id) = {} THEN -1 ELSE clients[FirstEntry(id)].fd

\* A faulty variant: the entry stays as it is.
TakeClientKeep(id) == clients' = clients

\* What get_client_fd_by_id leaves in the table: an entry answers only once.
TakeClient(id) ==
  clients' = IF Entries(id) = {} THEN clients
             ELSE [clients EXCEPT ![FirstEntry(id)].fd = -1]

-----------------------------------------------------------------------------
(***************************************************************************)
(* Clients.                                                                *)
(***************************************************************************)
\* Clients that wait, and those whose request the server has yet to read.
Busy == {c \in Clients : \/ client[c] = "waiting"
                         \/ request[c] \in {"queued", "accepted"}}

\* A client comes with others, or when those before it are done.
Connect(c) ==
  /\ client[c] = "idle"
  /\ batch < Batch \/ Busy = {}
  /\ batch' = IF Busy = {} THEN 1 ELSE batch + 1
  /\ client' = [client EXCEPT ![c] = "waiting"]
  /\ request' = [request EXCEPT ![c] = "queued"]
  /\ UNCHANGED <<app_msg_id, clients, client_num, fds, written, server,
                 notifier, mesh, answer, told, resets>>

Leave(c) ==
  /\ client[c] = "waiting"
  /\ client' = [client EXCEPT ![c] = "left"]
  /\ UNCHANGED <<app_msg_id, clients, client_num, fds, written, server,
                 notifier, request, mesh, answer, told, batch, resets>>

ClientReads(c) == answer[c] # Nobody /\ Leave(c)

\* After a second without an answer, which may be late or never come, or when
\* the server has hung up.
ClientGivesUp(c) == answer[c] = Nobody /\ Leave(c)

-----------------------------------------------------------------------------
(***************************************************************************)
(* The server's poll loop.                                                 *)
(***************************************************************************)
FreeFds == {f \in Fd : fds[f] = Nobody}

\* accept returns the lowest descriptor that is free.
Accept(c) ==
  /\ server = "up"
  /\ request[c] = "queued"
  /\ FreeFds # {}
  /\ LET f == CHOOSE g \in FreeFds : \A h \in FreeFds : g <= h
     IN  fds' = [fds EXCEPT ![f] = c] /\ written' = written \ {f}
  /\ request' = [request EXCEPT ![c] = "accepted"]
  /\ UNCHANGED <<app_msg_id, clients, client_num, server, notifier, client,
                 mesh, answer, told, batch, resets>>

\* The server finds the request of c on descriptor f.
Reads(f, c) ==
  /\ server = "up"
  /\ fds[f] = c
  /\ request[c] = "accepted"
  /\ request' = [request EXCEPT ![c] = "read"]

(***************************************************************************)
(* SEND, BROADCAST and UNICAST.  The node the message goes to may be dead: *)
(* then writing to it fails, and the server closes the connection of the   *)
(* client.  A message the mesh loses has no notifies.                      *)
(***************************************************************************)
HandleClientSend(f, c) ==
  /\ Reads(f, c)
  /\ app_msg_id' = (app_msg_id + 1) % (UINT16_MAX + 1)
  /\ set_client(app_msg_id, f)
  /\ \/ /\ \E n \in Notifiers, k \in 0 .. MaxNotifies :
             mesh' = [mesh EXCEPT ![c] =
                        [id |-> app_msg_id, by |-> n, left |-> k]]
        /\ UNCHANGED fds
     \/ fds' = [fds EXCEPT ![f] = Nobody] /\ UNCHANGED mesh
  /\ UNCHANGED <<written, server, notifier, client, answer, told, batch, resets>>

\* What comes of writing to descriptor f the outcome of request d.
Write(f, d) ==
  LET c == fds[f]
  IN  IF client[c] # "left"
      THEN /\ answer' = [answer EXCEPT ![c] = IF @ = Nobody THEN d ELSE @]
           /\ UNCHANGED <<written, server>>
      ELSE /\ written' = written \cup {f}
           /\ server' = IF f \in written THEN "down" ELSE server
           /\ UNCHANGED answer

\* RESET starts the ids again; the client has its answer at once.
\* The model has clients ask for one only when no notify is to come and at
\* least ResetGap messages (or none) were numbered; the server never waits.
HandleReset(f, c) ==
  /\ Reads(f, c)
  /\ resets < MaxResets
  /\ app_msg_id \notin 1 .. ResetGap - 1
  /\ \A d \in Clients : mesh[d].left = 0
  /\ app_msg_id' = 0
  /\ resets' = resets + 1
  /\ Write(f, c)
  /\ UNCHANGED <<clients, client_num, fds, notifier, client, mesh, told, batch>>

(***************************************************************************)
(* A node notifies.  If the descriptor in the table has been closed in the *)
(* meantime the write fails, and the server closes the connection of the   *)
(* node, whose next write is lost and whose write after that raises        *)
(* SIGPIPE.                                                                *)
(***************************************************************************)
Notify(c) ==
  LET m  == mesh[c]
      fd == get_client_fd_by_id(m.id)
  IN
  /\ server = "up"
  /\ m.left > 0
  /\ notifier[m.by] = "open"
  /\ mesh' = [mesh EXCEPT ![c].left = @ - 1]
  /\ told' = told \cup {c}
  /\ TakeClient(m.id)
  /\ \/ fd = -1 /\ UNCHANGED <<answer, written, server, notifier>>
     \/ /\ fd # -1 /\ fds[fd] # Nobody
        /\ Write(fd, c)
        /\ UNCHANGED notifier
     \/ /\ fd # -1 /\ fds[fd] = Nobody
        /\ notifier' = [notifier EXCEPT ![m.by] = "fin"]
        /\ UNCHANGED <<answer, written, server>>
  /\ UNCHANGED <<app_msg_id, client_num, fds, client, request, batch, resets>>

NotifyLost(c) ==
  /\ server = "up"
  /\ mesh[c].left > 0
  /\ notifier[mesh[c].by] # "open"
  /\ mesh' = [mesh EXCEPT ![c].left = @ - 1]
  /\ notifier' = [notifier EXCEPT ![mesh[c].by] = "broken"]
  /\ UNCHANGED <<app_msg_id, clients, client_num, fds, written, server, client,
                 request, answer, told, batch, resets>>

\* The server reads the end of a connection whose client has left.
ServerCloses(f) ==
  /\ server = "up"
  /\ fds[f] # Nobody
  /\ client[fds[f]] = "left"
  /\ request[fds[f]] = "read"
  /\ fds' = [fds EXCEPT ![f] = Nobody]
  /\ UNCHANGED <<app_msg_id, clients, client_num, written, server, notifier,
                 client, request, mesh, answer, told, batch, resets>>

Next ==
  \/ \E c \in Clients : \/ Connect(c) \/ ClientReads(c) \/ ClientGivesUp(c)
                        \/ Accept(c) \/ Notify(c) \/ NotifyLost(c)
  \/ \E f \in Fd, c \in Clients : HandleClientSend(f, c) \/ HandleReset(f, c)
  \/ \E f \in Fd : ServerCloses(f)

Spec == Init /\ [][Next]_vars

-----------------------------------------------------------------------------
(***************************************************************************)
(* A client is told the outcome of its own request, however requests,      *)
(* notifies, timeouts and new connections on descriptors used before       *)
(* follow on each other.  An outcome can go to another client only if the  *)
(* client it is for has left without it: then its notify is late, finds a  *)
(* descriptor that was closed, and perhaps given out again.                *)
(***************************************************************************)
RightAnswer ==
  \A c, d \in Clients :
    answer[c] = d /\ c # d => client[d] = "left" /\ answer[d] # d

(***************************************************************************)
(* When a node has notified the server about a message, the client has its *)
(* answer, unless it has given up before: the table still has the entry,   *)
(* and the search finds that entry and no other (readme.md, Bugs: "Server  *)
(* can fail to send request result to client but the network handled       *)
(* request successfully when running parallel clients", struck out).       *)
(***************************************************************************)
ResultDelivered ==
  \A c \in told : client[c] = "waiting" => answer[c] # Nobody
=============================================================================
