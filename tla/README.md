# A verification project for mesh-net-pet

mesh-net-pet simulates a wireless mesh: a server starts `NODE_COUNT` node
processes laid out on a square, each of which talks only to the nodes within
`BROADCAST_RADIUS`, and a client program asks the server to have nodes send
messages, to kill, revive or reset nodes, or to ping them. Nodes learn routes by
flooding. This directory holds TLA+ models of that system, the TLC runs that
check them on small instances, and TLAPS proofs of what holds for every size.

## The system

| Part | State | Operations | Talks to |
| --- | --- | --- | --- |
| node neighbourhood (`node_essentials.c`) | `broadcast_neighbors` | filled once at start-up | |
| routing table (`routing.c`) | per destination: next hop, metric | get, set, delete, clear | node handlers |
| message memory (`node_handler.c`, `messages`) | ids with three flags, `message_num` | look up (and enter), set a flag, clear | node handlers |
| node handlers (`node_handler.c`, `node_listener.c`) | the two tables above | one handler per request | other nodes, the server, apps |
| connections (`node_essentials.c`, `connection.c`, `io.c`) | `connections[29]`, TCP queues | open on demand, write, close on reset | everyone |
| apps (`node_app.c`) | none that matters | accept a payload or refuse it; compress, inflate | node handlers |
| server handlers (`server_handler.c`) | `children[]`: pid, address, descriptor | send, broadcast, unicast, reset, kill, revive, update, notify, ping | nodes, clients |
| server client table (`server_listener.c`) | `app_msg_id`, `clients[4]` | note a client, find it again | clients, notifies of nodes |
| process supervision (`server.c`, `node.c`, `server_essentials.c`) | processes, `children[]` | fork, load, bind, report, signal, exit | server handlers |
| poll loop (`serving.c`) | array of descriptors | accept, serve, close | every process |
| client program (`client.c`) | none | one request, one answer, one second | server |
| wire format (`format.c`, `format_app.c`, `crc.c`) | none | build and parse messages, checksums | everyone |

Every process is one thread that handles one message at a time, to its end. What
is hard is between the processes: a flood reaches a node over many connections
in any order and meets floods, answers and routed messages of other requests;
tables that remember ids are small, wrap around, and are cleared by a reset that
does not wait for anyone; ids start again at 0 on a reset; connections to a
process that has died stay in tables until a write on them fails or kills the
writer; a client gives up after a second, and its descriptor is used again; a
process takes a while from fork to its report, and commands do not wait for it;
requests arrive in pieces and end in the middle, in a loop that reads them
with blocking calls and changes the array it goes over.

What makes the parts correct:

* neighbourhood: every node in reach once, no other, within the array;
* routing: a next hop is a node in reach and leads on;
* message memory: a message is handed to the apps once, however often it comes,
  and a new message is never taken for an old one;
* handlers: every request is delivered to whom it is for and answered; floods
  end; a unicast has one winner; no handler passes on a stale checksum;
* connections: bounded by the neighbourhood; the death of one process does not
  end another;
* client table: an outcome reaches the client that asked, and no other;
* supervision: the table agrees with the processes once things have settled; a
  connection leads to the node it is for; a reset restores, a stop ends all;
* poll loop: every connection is watched once, every request is handled, and the
  loop waits only for those who have begun to speak;
* wire format and client: what is handled is what the command line meant.

## Modules

| Module | Models | |
| --- | --- | --- |
| `Grid` | `settings.h`, what `broadcast_neighbors` holds and in which order | constants, operators |
| `NeighbourFill` | the loops of `fill_broadcast_neighbors` | one action per loop |
| `Routing` | `routing.c` | operators, extends `Grid` |
| `MessageData` | `messages[MAX_MESSAGE_DATA]` of `node_handler.c` | operators |
| `Mesh` | nodes, connections, and the server's side of requests, kill, revive and reset | composes `Routing` and `MessageData` |
| `MCMesh` | requests for the runs of `Mesh` | |
| `ServerClients` | `server_listener.c`, the client program, the descriptors of the server | stands alone: of the mesh it keeps the notifies to come |
| `MCServerClients` | symmetry for the runs of `ServerClients` | |
| `Supervisor` | `server.c`, `node.c`, `run_node`, and kill, revive, reset, update and ping of `server_handler.c` | stands alone: of the mesh it keeps the requests a child has not read |
| `WireFormat` | `format.c`, `format_app.c`: requests as bytes and back | operators |
| `ClientArgs` | argument parsing of `client.c` | operators, extends `WireFormat` |
| `Serving` | `serving.c`, `io.c`, `handle_request` of `server.c` and `node.c` | composes `ClientArgs` and `WireFormat` with the loop |
| `MCServing` | command lines and requests for the run of `Serving` | |
| `MeshService` | what the mesh promises, without routes and processes | abstract specification, implemented by `Mesh` |
| `MeshProofs` | | theorems about `Mesh`: types, links with their checksums, routes |
| `MeshServiceProofs` | | `Mesh` implements `MeshService`, first with faults, then with its once-only part; extends `MeshProofs` |
| `MeshAnswerProofs` | | which requests may be lost, how floods spread, routes lead on; extends `MeshServiceProofs` |
| `NeighbourFillProofs`, `ServerClientsProofs`, `SupervisorProofs`, `ServingProofs` | | theorems about the module in the name |
| `NumberSets` | | lemmas about sets of natural numbers and about numbers |

### Mesh

The variables correspond to the code like this: `routing[n]` and `messages[n]`
are the tables of node n; `conn[p][q]` is the entry of p's connection table (or
of the server's `children[]`) for q, together with what TCP knows of the other
end; `net[<<p, q, g>>]` is what q has not read of what p wrote on the connection
p opened in its g-th life, a reset counting as a new life because it closes and
reopens connections, so that data on an old and on a new connection may be read in
either order; `proc` tells which processes run; `app_msg_id` is the server's
counter. `issued`, `handled` and `notes` are history: the requests, how often
apps accepted each message, and the notifies sent about it. A `uid` in the
payload tells apart messages that carry the same id; no guard looks at it.

An action is a handler with all it calls. `HandleServerSend`, `HandleBroadcast`,
`HandleServerUnicast`, `HandleReset` are what `handle_server` dispatches to,
`HandleNodeSend`, `HandleRouteDirect`, `HandleRouteInverse`,
`HandleUnicastContest`, `HandleUnicastFirst` what `handle_node` does.
`ClientRequest`, `ClientReset`, `ClientKill`, `ClientRevive` are the server's
handlers for clients; `NodeUpdate` is the report of a new process with
`handle_update_child`, `NodeExit` the end of a signalled one. `Exchange` is all
the reading and writing of a handler: it takes the message, opens connections
where `get_conn` does, appends to the queues of peers that are reached, turns a
connection whose other end is gone into a broken one, and ends the process at a
write on a broken connection (SIGPIPE).

Abstractions: a text is one of empty, plain, bulky (deflate makes so much more of it
than 150 bytes that it loses more than the trailer; one that loses only the trailer
is inflated and accepted like a plain one), packed, cut; a checksum is what it is
computed over; a client's uninitialised bytes are any value of `Uninitialised`;
queues are unbounded, so a blocking send never blocks. A killed node is started
again only when its process is gone and the server has no connection to it; the
window in which two processes run for one node is in `Supervisor`. When SIGPIPE ends
the server, the model stops there.

### MeshService

Three variables, `issued`, `handled` and `notes`, and two actions: `Ask` takes a
request, `Deal` has one node of its addressees deal with it, which counts the
acceptance and may tell the server of it. In `Mesh` these are the history
variables of the same names, so the refinement mapping is the identity on
variables; `Reach`, `Good` and `Once` are given by the neighbourhoods, by what the
apps accept and by whether the instance has resets or kills. Every other step
of `Mesh` (floods, answers, contests, deaths) is a stutter. Without resets and
kills `Deal` is allowed once per message and node, and once per unicast; with them
only the addressees and the verdicts are promised, because a node that forgot a
message handles it again. `MeshService` does not say that a request is dealt with
at all: that is `AnsweredWhenQuiet` and `EveryRequestAnswered`.

### ServerClients

Every client process makes one request. `clients`, `client_num`, `app_msg_id`
are the server's variables, `fds` says whose connection a descriptor is (the
lowest free one is given out), `mesh` which notifies are to come. Send, broadcast
and unicast are one action; ping, kill and revive answer at once, use no entry
of the table and are left out, `HandleReset` stands for them too. `notifier` is
the connection of a node to the server, which the server closes when handling
a notify fails.

### Supervisor

`children` is the server's table: pid, address (`UINT8_MAX` until the process has
reported) and the connection, of which is kept whose it is, what has not been
read on either side, and the state of its other end. `process` has every process
by pid with its stage: forked (still the server's code and signal handlers),
loading (mesh_node before `signal()`), starting, listening or homeless (`bind()`
failed; `die()` only sets a flag, and the process goes on to report), serving,
gone. `Exec`, `Bind`, `Report`, `Exit` and `Crash` are the life of a process,
`NodeReads` its answers, `HandleUpdateChild`, `HandleKill`, `HandleRevive`,
`HandleReset`, `HandlePing` with `PingReturns` the server's handlers,
`TermHandler` its end by SIGTERM. `hasty` is history: a command was given for a
child whose process had neither ended nor been heard of. `restoring`, `pinged` and
`verdict` serve `ResetRestores` and `PingTruthful`. Addresses are cut to two
digits as `run_node` does it.

### Serving

One poll loop, of the server or of a node (`role`), and the processes at the other
ends of its connections. `pfds` is the array as memory has it: entries behind
`pfd_count` keep what they held, and a place never written has `unset` revents.
`Poll` sets revents, and `at` is the entry the loop has come to; `Accept` adds an
entry, whose revents is what was there; `HandleRequest` and `HandlerFails` read one
request with blocking `io_read_all` and dispatch it, `EndsConnection` is the end of
a connection or a request that was cut off. The other ends write the bytes that
`format_create` makes, of requests a client parsed from its command line
(`parse_args`) or that nodes and the server send; the bytes arrive in pieces, and
an end may close or die at any point. `WireFormat` has every kind of
request with widths, signs and byte order; memory the program did not write is
`Garbage`, and the value of a checksum is a number like any other, as what it
covers is in `Mesh`. `ClientArgs` returns the set of requests that a command line
may become, several where the client reads memory it never wrote: `Stray` bounds how
far behind a text without an end the next zero byte is. `Meaning` is what of a
client's request the server passes on: kind, nodes, apps and text of a send, kind,
sender, ttl and text of a broadcast or unicast; the server sets the identifier and
the checksums itself. `poll` fails when a signal comes, and the process exits; that
a signalled process ends is in `Supervisor` and left out here.

## Runs

All runs check with deadlock checking off: the mesh may come to rest when the
bounded number of requests is used up, and a process may end.

| Run | Instance | Shows |
| --- | --- | --- |
| `neighbour_fill` | 10 x 10, radius 3, 29 connections, as deployed | `FillsNeighbourhood`, `ServerAlsoCounted` for all 100 nodes |
| `mesh_send` | ring of 4, two sends at any time | `ImplementsService`, `NoBlackHole`, `AnsweredWhenQuiet`, `FloodsSpread` |
| `mesh_live` | ring of 4, two of five kinds of sends and a reset, each when the mesh is quiet, fairness | `EveryMessageEnds`, `EveryRequestAnswered` |
| `mesh_cast` | 3 x 3, radius 1, one node dead, three broadcasts and unicasts at any time | `ImplementsService`, `OneWinner`, `AnsweredWhenQuiet` |
| `mesh_faults` | ring of 4, message table of one entry, a reset between requests, a kill and a revive at any time | `ImplementsService`, `TypeOK`, `LinksCarry`, `HandledByAddressee`, `NextHopIsNeighbour`, `ConnectsToNeighbours` |
| `server_clients` | 4 clients, 2 entries, 2 at a time, late and double notifies, a reset after at least 2 messages | `TypeOK`, `RightAnswer`, `ResultDelivered` |
| `supervisor` | nodes 7 and 25, 4 processes, 3 commands in any order, one crash or refused port | `TypeOK`, `TableAgrees`, `ConnectionFits`, `PingTruthful`, `ResetRestores`, `StopEndsNodes` |
| `serving` | one client (or the server) and one node connected, room for one descriptor at first, texts of 3 bytes | `TypeOK`, `WatchedOnce`, `HandledAsMeant`, `WaitsForTalkersOnly`, `EveryRequestHandled` |

The ring of four (2 x 2, radius 1) is the smallest mesh with two ways between
nodes and with nodes out of reach of each other; two messages are enough for two
floods, a flood and an answer, or a flood and a routed message to meet. `TTL` is
`2 * MATRIX_SIZE` as in `settings.h`: 4, the number of nodes, which no way in the
ring exhausts. It is not enough in general, because the copy of a flood that comes
first counts, by whatever way. `mesh_lost_send` has the smallest mesh in which this
matters at the `TTL` of `settings.h`: 3 x 3 with radius 1, nodes 7 and 8 dead to keep
the run small, and one send. A flood from 0 that runs 1, 2, 5, 4 comes to 3 with a
ttl of 1, and node 6 gets only a copy whose ttl is 0. What holds is that no copy has
spent more hops than nodes have seen the flood (`FloodsSpread`), so that a send that is
lost has been seen by `TTL - 1` nodes (`LostOnlyFar`, proved for every mesh).

Routes can have loops, so that they have none is not claimed. Random schedules of a
3 x 3 mesh with a `TTL` of 6 find one after four sends that overlap, (1,8), (4,7),
(6,4) and (4,3), and after five that follow one another, (6,4), (1,4), (2,4), (4,7)
and (3,0), because the metric of a flood counts one hop more than that of an answer.
None was found with three sends or on smaller meshes, and a run with four on nine
nodes is beyond an exhaustive check. `EveryMessageEnds` and `EveryRequestAnswered`
are therefore statements about small meshes and requests that wait for quiet.

Two children are enough in `supervisor` for a child to be killed while it has a copy
of the table with another in it; four processes let each node be started a second
time; 25 is the address that 255 is cut to. Three commands are enough for a kill, a
revive or a reset of what the one before has not finished. In `serving` an array
that starts with room for one grows twice, one connection moves into the place of
another, and a place is used a second time; a request breaks before its last byte,
and the first one also after its length byte. The run also evaluates `WellMeant`,
the hypothesis of the theorem about `HandledAsMeant`: every command line of the
readme, with a text that fits, is parsed to what the readme says of it, everything
that is said is one of the structures of `format.h`, and the bytes of several
requests, joined, are those of each.

Where the code and what is written about it disagree, a run expects a violation:

| Run | Property | What TLC shows |
| --- | --- | --- |
| `mesh_sigpipe` | `OnlyKilledNodesDie` | the second write on a cached connection to a killed node ends the writer |
| `mesh_stale_flag` | `AnsweredWhenQuiet` | a reused entry keeps `stop_inverse`, the message is dropped |
| `mesh_lost_send` | `AnsweredWhenQuiet` | a flood that comes by a detour has no ttl left for the receiver, the copy that came straight is dropped |
| `server_parallel` | `ResultDelivered` | a client that waits loses its entry to later requests |

Two smaller disagreements have no run. A reset, or a revive of 255, that comes before
a child has reported starts a process for the address the table has for it, 255,
which `run_node` cuts to 25 (`server_essentials.c:11` says "2 digits and null
terminator"); the model does so too, and counts the command as hasty. A text of more
than 149 bytes is not clipped to 150, as readme.md:66 and the warning at `client.c:176`
say: 149 are copied without an end, and the length is what `strlen` then finds on the
stack. `MCServing` states this as `ClippedAssumption`, which the run `serving`
evaluates.

`AnsweredWhenQuiet` is therefore checked with a table larger than the number of
messages, and resets only where the mesh has settled before them. Three limits
of the code show up outside these bounds. A send that follows a reset at once
can be lost, because `handle_reset` of the server answers its client when the
RESETs are written and not when the nodes have handled them. The first unicast
after a reset is handled by no node when its origin had seen a message before,
because `fill_messages_default` zeroes the ids and leaves `message_num`, so that
id 0 counts as known. A text that deflate makes longer than `APP_MESSAGE_LEN`
is cut and refused by the receiving app; the client is told of the failure
(`mesh_live` includes such a text).

`ResultDelivered` holds as long as no more clients come than the table has
entries before all of them are done, resets come after at least `MAX_CLIENT`
messages (or none) and no notify is under way then. The constants `Batch` and
`ResetGap` say so; they restrict when clients come, not what the server does. An
earlier reset breaks it: after send, reset, send the second message has id 0
again, and the search of the table stops at the used entry of the first. The
struck-out bug of the readme is about parallel clients beyond the first limit
(`server_parallel`). `RightAnswer` allows an outcome to reach another client only
when its own has left without it: notifies may be later than the client's second.

`TableAgrees` and `StopEndsNodes` are about commands that come when the one before
has taken effect; after a hasty one the table may have forgotten a process, or a
child that was just forked may have ignored a signal. `ConnectionFits` holds even
then. `ResetRestores` is about killed nodes: a node that crashed keeps its
descriptor in the table, so a reset writes to nobody and does not start it again.
`PingTruthful` has to allow for an earlier ping that timed out on the connection,
whose answer the next ping takes for its own.

`WaitsForTalkersOnly` has to allow for a connection accepted since `poll` returned:
`add_to_pfds` does not set its revents, and the loop may go on to read from it
and wait. Clients and nodes write at once; the server may not, and a node can be
kept waiting by it, which is the exception of `EveryRequestHandled`.

Every property of a passing run has a mutant: a variant of one definition, named
as faulty beside it, under which TLC finds the property violated.

### Fairness

`FairSpec` adds weak fairness of "some node handles some message" and of "some
new process reports or some signalled process exits". The first is what `poll`
gives: it returns as soon as a descriptor is readable, and each process handles
what is readable and goes round for ever. The second is program code that runs
without waiting for anyone. Nothing is assumed about clients, and no fairness
between connections.

`Supervisor` assumes one weak fairness: the processes together go on when one of
them can, that is, a node process takes its next step, the server reads an update
that waits, or a ping returns (its receive has a timeout). Not that a node answers
in time, that clients come or that nodes crash. `StopEndsNodes` needs none: it is
an invariant of the states in which no process is on its way up or down.
`Serving` assumes that the loop goes on when it is not blocked, and that whoever
has connected and has something to say writes on or closes, as the programs do
without waiting for anyone; the server is not assumed to have something to say to
a node.

## Proofs

Every theorem holds for every value of the constants that the named assumptions
of its module allow; TLC evaluates these assumptions on every run. A hypothesis
beyond them stands in the theorem itself; it is a limit of the code, or (resets or
kills) tells which promise of `MeshService` is meant.

| Theorem | Property | Hypothesis |
| --- | --- | --- |
| `MeshProofs!TypeCorrect` | `TypeOK` | |
| `MeshProofs!RoutesLeadToNeighbours` | `NextHopIsNeighbour` | |
| `MeshProofs!ConnectionsAreLocal` | `ConnectsToNeighbours` | |
| `MeshProofs!LinksCarryTheirOwn` | `LinksCarry` | |
| `MeshServiceProofs!AddresseesHandle` | `HandledByAddressee` | |
| `MeshServiceProofs!ServesDespiteFaults` | `ImplementsService` | there are resets or kills |
| `MeshServiceProofs!MeshServes` | `ImplementsService` | if there are neither, `MaxRequests <= MAX_MESSAGE_DATA` |
| `MeshServiceProofs!ContestsHaveOneWinner` | `OneWinner` | neither resets nor kills, `MaxRequests <= MAX_MESSAGE_DATA` |
| `MeshAnswerProofs!FloodsSpreadWide` | `FloodsSpread` | `Steady` |
| `MeshAnswerProofs!QuietMeansAnswered` | `AnsweredWhenQuiet` | `Steady`, `Servable`, `Connected`, and `[]FloodsReach` |
| `MeshAnswerProofs!OnlyFarSendsAreLost` | `LostOnlyFar`, of the same module | `Steady`, `Servable`, `Connected` |
| `MeshAnswerProofs!RoutesLeadOn` | `NoBlackHole` | `Steady`, and `[]ShortAnswers` |
| `NeighbourFillProofs!TypeCorrect` | `TypeOK` | |
| `NeighbourFillProofs!LoopsFillNeighbourhood` | `FillsNeighbourhood` | |
| `NeighbourFillProofs!ServerHasAnEntry` | `ServerAlsoCounted` | `RoomForAll`: `CONNECTIONS > 4r + 4(r-1)^2` |
| `ServerClientsProofs!TypeCorrect` | `TypeOK` | |
| `ServerClientsProofs!AnswersAreRight` | `RightAnswer` | `SpacedResets` |
| `ServerClientsProofs!ResultsAreDelivered` | `ResultDelivered` | `SpacedResets`, `SmallBatches` |
| `SupervisorProofs!TypeCorrect` | `TypeOK` | |
| `SupervisorProofs!ConnectionsFit` | `ConnectionFits` | |
| `SupervisorProofs!PingsAreTruthful` | `PingTruthful` | |
| `SupervisorProofs!StoppingEndsNodes` | `StopEndsNodes` | |
| `SupervisorProofs!TableIsRight` | `TableAgrees` | `TwoDigits`: addresses below 100 |
| `ServingProofs!TypeCorrect` | `TypeOK` | |
| `ServingProofs!EveryoneIsWatched` | `WatchedOnce` | |
| `ServingProofs!SilentDoNotBlock` | `WaitsForTalkersOnly` | |
| `ServingProofs!RequestsAreHandledAsMeant` | `HandledAsMeant` | `WellMeant` |

The hypotheses and the code: a message table goes round after `MAX_MESSAGE_DATA`
ids and forgets all of them at once, so that a flood still under way is let through
a second time. A reset after fewer than `MAX_CLIENT` messages leaves ids in the
client table that are soon given out again, ids come round after 65536, and more
than `MAX_CLIENT` requests at a time overwrite entries (`server_parallel`).
`run_node` has room for two digits. `RoomForAll` is the size of the largest
neighbourhood of a radius r, and one for the server: 29 for the deployed radius of
3, which is the value `node_essentials.c` has, so there is not one entry to spare.

`Steady` is a mesh without resets, kills and revives after its start (nodes may be
dead from the start), with room in the message tables for all requests and in the
connection tables for all neighbours: each of these loses messages in the code
(see the hazards at `node_handler.c:366`, `:417`, `:458` and `:470`). `Servable`
leaves out requests that the apps must refuse, a broadcast or unicast of a text that
deflate makes too long, and a unicast with nobody in reach. `Connected` says that
the live nodes hang together; for a mesh of which no node is dead this is proved
(`WholeMeshConnected`). Nothing is assumed of `TTL` beyond its type: what a ttl that
is too short does is the exception in `LostOnlyFar`. `[]FloodsReach` in
`QuietMeansAnswered` says instead that no copy ends before a live node that has not
seen the flood, which holds of some schedules and not of others. `[]ShortAnswers`
excludes an answer that goes round a loop of routes until its metric wraps in an
`int8_t`. `WellMeant` says that the processes send what the structures of `format.h`
allow and the listener knows, that a message of full length fits a length byte
(`APP_MESSAGE_LEN + 17 <= 255`; it is 150), that command lines are parsed to what
they mean and that joined requests keep their bytes; TLC evaluates all of it.

### Mesh: types, links, routes (`MeshProofs`)

None of the four properties is inductive, only their conjunction with the types,
`IInv`, is. That a routing table holds only nodes in reach depends on the packets
under way naming the neighbour they come from as `local_sender_addr` (`LinksCarry`),
since the handlers enter that field without looking at it; that packets do so
depends on nodes writing only to neighbours, which depends on the routing tables,
and on reach being symmetric (`NeighbourSymmetry`). The proof has one lemma per
action; `ExchangeGood` covers the writing that all handlers share, `LearnGood` and
`UpdateGood` the tables, `KnownAfterLook` shows that the branches of the setters
that `MessageData` leaves out are never taken. The assumptions are
`GridAssumption` (addresses fit into a `uint8_t` below `UINT8_MAX`),
`MessageDataAssumption` (the table has 1 to 255 entries), `MeshAssumption` (`TTL`
and the radius fit into an `int8_t`; types of the other constants).

### Mesh implements MeshService (`MeshServiceProofs`)

The first part follows a message from hand to hand. `Meant` says what a message
under way has to do with the request it serves: which request it may be, for whom,
and on which link. `Follows` says what a handler may write after the message it
took. Each handler writes what follows, and what follows a message that is meant is
meant (`FollowsServes`). Handing a message to the apps is then always the step
`Deal` of the abstract specification for an addressee, or a stutter, and every
other step but a request is a stutter.

The second part adds what `MeshService` promises when no node forgets: at most
once per node, one node alone for a unicast. `OInv` says that

* nobody dies, and connections are only opened (`Calm`);
* ids are the numbers of the requests, and each table holds different ids that were
  given out (`Numbered`), so by the pigeonhole principle it never goes round;
* of the messages that serve one request, one that still waits at its sender is
  alone, nothing is flooded beside a send that is routed, sends to several nodes
  have different receivers, and a unicast has one (`NetApart`);
* what is under way was not accepted by its receiver before, except copies of a
  flood, which the receiver then remembers (`NetSound`); and the sender of a unicast
  that was accepted, or is on its way to a winner, remembers its id (`Known`).

TLC checked these as invariants on a ring of four, with sends and with a mix of
sends, broadcasts and unicasts, before they were proved.

### Which requests may be lost (`MeshAnswerProofs`)

`Kept` gives for every request a promise that is kept in every state: either the
outcome is there, or something under way will bring it about. For a send these are
the request on its way to its sender, a copy of the SEND on a route, or a flood; for
a broadcast one message to every live neighbour; for a unicast the contest, the
answer to its first node or the message to the winner. A flood is a front: every
live neighbour of a node that has seen the id has seen it too or has a copy before
it that still has a ttl. When the connections are empty no promise can be
outstanding, so the front has no border, and in a connected mesh it has gone over
everyone, the receiver included. A promise is broken only by a copy that ends before
a node that has not seen the flood; `QuietMeansAnswered` assumes that there is none.

`FloodsSpreadWide` says what there is to such a copy. When a copy with ttl t is under
way at least `TTL - t - 1` nodes have marked the id: a node marks an id once, and
passes the flood on with one hop less. `OnlyFarSendsAreLost` puts the two together
request by request (`KeepingFar`): either the promise of a request is kept, or it
is a send and `TTL - 1` nodes have marked its id, which they do not forget.

`RoutesLeadOn` is about entries for the same address at both ends of a hop.
`Guiding` says that an entry leads to its address or to a node with an entry for it,
and the same of the packets under way: whoever passes on a flood has an entry for
its origin, or is it, and whoever passes on an answer has an entry for where it
comes from. Entries are replaced and never removed, so what was true of the next hop
stays true. It does not follow that routes are free of loops, and they are not.

### The loops of the neighbourhood (`NeighbourFillProofs`)

A neighbour is given a line and a spot in the line, two numbers that the order of
`FillOrder` compares. The loops come to the neighbours in this order, so the
invariant is that the array holds exactly the neighbours before the line and the
spot that come next; it holds in corners and for a radius larger than the matrix
because every loop stops at the border in its own way. The size of the array is
counted along the same order.

### The client table (`ServerClientsProofs`)

The table is a ring that ids go round in order. `Table` gives the id in an entry
from the entry's age, with two exceptions: entries never written, and those
from before a reset, which have larger ids if the reset came late enough. With it
the search by id finds one entry, that of the message (`Own`), and a used entry is
not found again. `Kept`, for `ResultDelivered`, counts: the age of an entry whose
client waits and the requests still to be read are together no more than the
clients that have come, so with small batches it is not overwritten.
`RightAnswer` does not need small batches.

### Processes and their table (`SupervisorProofs`)

Pids are given out in order (`Fresh`), so what the table says of a pid stays true of
it; this and `Listens` (an open connection leads to a process that has the port) give
`ConnectionFits` whatever overtakes what. `Asked` says of every connection that its
unread answers belong to the ping under way or that a ping on it has timed out.
`Tracked` and `Stopping` say that without hasty commands no process is missing in
the table and, after the stop, all were told. `Family` is the agreement of the table
with the processes at any moment: child i has the only process of node i, and its
entry lags behind only by updates that are still to be read.

### The poll loop (`ServingProofs`)

That the array does not overrun needs `WatchedOnce` (then it is no longer than there
are connections), which needs that a connection waits only once to be accepted.
That the loop waits for nobody silent has to be known of all entries it has yet to
come to (`Ahead`), as `del_from_pfds` moves the last one forward. `OpeningsAssumption`
says that what the other ends write has at least one byte and that requests end
within it; TLC evaluates it for all command lines and requests of the run.

`HandledAsMeant` has two halves. One is the wire format: for every request that
`Sendable` allows, what `format_create` makes begins with its own length, which
fits its byte, and `format_parse` of the rest gives the request back, through all
widths, signs, unset fields, texts of any length and the padding of a contest
(`FormatBack`, from one lemma per kind of payload: `UpdateBack`, `NotifyBack`,
`PacketBack`, `ContestBack`, `AddrBack`). A ping or reset from the server comes
without payload and is parsed to garbage, which `Meaning` does not look at. The
other half is the framing (`FramesOK`): whenever the loop is not reading, it has
taken exactly the bytes of the requests it has handled, so the next byte is a
length again (`ReadsPiece`); what is cut off is shorter than declared and refused.

`NumberSets` holds the facts about numbers and sets of them that several of these
need: a least element, consecutive numbers, the pigeonhole principle, division.

### Only model-checked

* `EveryMessageEnds`, `EveryRequestAnswered`, `ResetRestores`, `EveryRequestHandled`:
  liveness is out of the prover's reach.
* `FloodsReach` and `ShortAnswers` are hypotheses, of `QuietMeansAnswered` and of
  `RoutesLeadOn`, and not claims: the code need not meet them in every mesh.
* `WellMeant` for the command lines of the readme. That joined requests keep their
  bytes would be an induction over `FlattenSeq`, which the prover cannot unfold.

## Not modelled

Full socket buffers, on which all processes might wait for each other: what sizes
they have is not in the code. The sizes of the buffers that messages are built in
(`handle_node_route_inverse` has one of `sizeof(node_packet_t)` bytes, three less
than the longest message). The bytes deflate and crc16 produce. A second server
on the same host. What a text without an end overwrites in the client, whose packet
has room for 150 bytes. `poll` failing after a signal. Logging,
`format_sprint_result`, build files and scripts. Loops of routes are
possible in the model and in the code, and happen only beyond the bounds of the runs.
