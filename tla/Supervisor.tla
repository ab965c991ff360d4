----------------------------- MODULE Supervisor -----------------------------
(***************************************************************************)
(* The server as the supervisor of the node processes: how it starts them  *)
(* (server.c, server_essentials.c), how they start up and report           *)
(* (node.c), and what kill, revive, reset and ping do with the table of    *)
(* children (server_handler.c).  Mesh takes all this as one step; here a   *)
(* process is started, loaded, bound to its port and heard of in steps of  *)
(* its own, and clients do not wait for any of them.                       *)
(***************************************************************************)
EXTENDS Integers, Sequences, FiniteSets

CONSTANTS
  Node,         \* the indices of children[], which are the node addresses
  MaxProcesses, MaxCommands, MaxFaults   \* bounds of the model

UINT8_MAX == 255
Addr      == 0 .. UINT8_MAX
Pid       == 1 .. MaxProcesses

ASSUME SupervisorAssumption ==
  /\ Node \subseteq 0 .. UINT8_MAX - 1 /\ IsFiniteSet(Node)
  /\ MaxProcesses \in Nat /\ MaxProcesses >= Cardinality(Node)
  /\ MaxCommands \in Nat /\ MaxFaults \in Nat

VARIABLES
  children,   \* the server's table of its children
  process,    \* every process, by its pid; pids count up
  updates,    \* processes whose UPDATE the server has yet to read
  server,     \* "ready", "waiting" for the answer to a ping, "stopped" by
              \* SIGTERM, or "down" of a SIGPIPE
  pinged,     \* the ping in hand: its node and whether its process ran then
  bound,      \* addresses whose port was in use before
  verdict,    \* the last answer to a ping, and what was true of it
  restoring,  \* the last command was a reset, in good time and order
  hasty,      \* a command came before the one before it had taken effect
  commands,
  faults      \* crashes, and ports refused for no good reason

vars == <<children, process, updates, server, pinged, bound, verdict, hasty,
          restoring, commands, faults>>

(***************************************************************************)
(* A process goes through these stages.  "forked" still runs the server's  *)
(* code with the server's signal handlers, "loading" is mesh_node before   *)
(* signal(), "starting" before bind(); "listening" has its port and        *)
(* "homeless" does not get it; "serving" is in the poll loop.              *)
(***************************************************************************)
Stage == {"unborn", "forked", "loading", "starting", "listening", "homeless",
          "serving", "gone"}

Process == [addr : Addr, stage : Stage, stop : BOOLEAN, kin : SUBSET Pid]

(***************************************************************************)
(* write_fd: the process it is connected to, what that process has not     *)
(* read of it, the answers the server has not read, whether a ping on it   *)
(* has timed out, and the state of the connection, as in Mesh.             *)
(***************************************************************************)
NoFd == [state |-> "none", to |-> 0, unread |-> << >>, answers |-> 0,
         late |-> FALSE]

Fd == [state : {"none", "open", "fin", "err", "broken"}, to : Pid \cup {0},
       unread : Seq({"PING", "RESET"}), answers : Nat, late : BOOLEAN]

Child == [pid : Pid, addr : Addr, write_fd : Fd]
Ping == [node : Node \cup {UINT8_MAX}, ran : BOOLEAN]
Verdict == [answer : {"none", "OK", "ERR", "junk"}, ran : BOOLEAN, late : BOOLEAN]

NoPing    == [node |-> UINT8_MAX, ran |-> FALSE]
NoVerdict == [answer |-> "none", ran |-> FALSE, late |-> FALSE]

TypeOK ==
  /\ children \in [Node -> Child]
  /\ process \in [Pid -> Process]
  /\ updates \subseteq Pid
  /\ server \in {"ready", "waiting", "stopped", "down"}
  /\ pinged \in Ping
  /\ bound \subseteq Addr
  /\ verdict \in Verdict
  /\ hasty \in BOOLEAN /\ restoring \in BOOLEAN
  /\ commands \in 0 .. MaxCommands /\ faults \in 0 .. MaxFaults

Before(i) == {j \in Node : j < i}

(***************************************************************************)
(* main has forked a process for every node.  The table a child inherits   *)
(* has the pids of the children before it.                                 *)
(***************************************************************************)
FirstPid(i) == Cardinality(Before(i)) + 1

Unborn == [addr |-> UINT8_MAX, stage |-> "unborn", stop |-> FALSE, kin |-> {}]

Init ==
  /\ children = [i \in Node |-> [pid |-> FirstPid(i), addr |-> UINT8_MAX,
                                 write_fd |-> NoFd]]
  /\ process = [p \in Pid |->
       IF \E i \in Node : p = FirstPid(i)
       THEN [addr |-> CHOOSE i \in Node : p = FirstPid(i), stage |-> "forked",
             stop |-> FALSE, kin |-> 1 .. p - 1]
       ELSE Unborn]
  /\ updates = {}
  /\ server = "ready" /\ pinged = NoPing
  /\ bound = {}
  /\ verdict = NoVerdict
  /\ hasty = FALSE /\ restoring = FALSE
  /\ commands = 0 /\ faults = 0

-----------------------------------------------------------------------------
(***************************************************************************)
(* Signals.                                                                *)
(***************************************************************************)
Ended(r) == [r EXCEPT !.stage = "gone", !.stop = FALSE]

\* SIGINT or SIGTERM to a process: signal() turns death into a flag.
Signalled(r) ==
  IF r.stage = "loading" THEN Ended(r)
  ELSE [r EXCEPT !.stop = @ \/ r.stage \in {"starting", "listening",
                                            "homeless", "serving"}]

\* A faulty variant: the process is not told.
kill_pid_none(p) == process

(***************************************************************************)
(* kill(pid, SIGTERM).  A child that has not got to its execl yet takes it *)
(* with the server's term_handler: it interrupts every child in its copy   *)
(* of the table, and goes on.                                              *)
(***************************************************************************)
kill_pid(p) ==
  IF process[p].stage = "forked"
  THEN [q \in Pid |-> IF q \in process[p].kin THEN Signalled(process[q])
                      ELSE process[q]]
  ELSE [process EXCEPT ![p] = Signalled(@)]

-----------------------------------------------------------------------------
(***************************************************************************)
(* A node process, from fork to exit.                                      *)
(***************************************************************************)
NodeFrame == UNCHANGED <<server, pinged, verdict, hasty, commands>>

Fault ==
  /\ faults < MaxFaults
  /\ faults' = faults + 1
  /\ restoring' = FALSE

Advance(p, from, to) ==
  /\ process[p].stage = from
  /\ process' = [process EXCEPT ![p].stage = to]

\* execl, which replaces the image of the server, table and all, and the
\* signal() calls of mesh_node.
Exec(p) ==
  /\ \/ /\ process[p].stage = "forked"
        /\ process' = [process EXCEPT ![p].stage = "loading", ![p].kin = {}]
     \/ Advance(p, "loading", "starting")
  /\ UNCHANGED <<children, updates, bound, faults>>
  /\ NodeFrame /\ UNCHANGED restoring

Listener(a) ==
  {q \in Pid : process[q].addr = a /\ process[q].stage \in {"listening", "serving"}}

(***************************************************************************)
(* bind() fails while another process has the port; and because the value  *)
(* given for SO_REUSEADDR is uninitialised, it may also fail when the port *)
(* was in use a while ago.  die() only raises SIGTERM, which sets the      *)
(* flag, so the process goes on to report itself.                          *)
(***************************************************************************)
Bind(p) ==
  LET a == process[p].addr
  IN
  /\ \/ /\ Listener(a) = {}
        /\ Advance(p, "starting", "listening")
        /\ UNCHANGED <<faults, restoring>>
     \/ /\ \/ Listener(a) # {} /\ UNCHANGED <<faults, restoring>>
           \/ Listener(a) = {} /\ a \in bound /\ Fault
        /\ process[p].stage = "starting"
        /\ process' = [process EXCEPT ![p].stage = "homeless", ![p].stop = TRUE]
  /\ bound' = bound \cup {a}
  /\ UNCHANGED <<children, updates>>
  /\ NodeFrame

(***************************************************************************)
(* update_node_state; a process without a port then finds its flag set.    *)
(* Connecting to the server cannot fail: every child has inherited the     *)
(* socket the server listens on, also when the server is gone.             *)
(***************************************************************************)
Report(p) ==
  /\ \/ Advance(p, "listening", "serving")
     \/ /\ process[p].stage = "homeless"
        /\ process' = [process EXCEPT ![p] = Ended(@)]
  /\ updates' = updates \cup {p}
  /\ UNCHANGED <<children, bound, faults>>
  /\ NodeFrame /\ UNCHANGED restoring

\* What the end of process p leaves of the connections to it.
HungUp(p) ==
  [i \in Node |->
     LET f == children[i].write_fd
     IN  IF f.to # p \/ f.state # "open" THEN children[i]
         ELSE [children[i] EXCEPT
                 !.write_fd.state = IF f.unread = << >> THEN "fin" ELSE "err"]]

End(p) ==
  /\ process[p].stage = "serving"
  /\ process' = [process EXCEPT ![p] = Ended(@)]
  /\ children' = HungUp(p)

\* The poll loop looks at the flag at least every five seconds.
Exit(p) ==
  /\ process[p].stop
  /\ End(p)
  /\ UNCHANGED <<updates, bound, faults>>
  /\ NodeFrame /\ UNCHANGED restoring

\* A node can end without a command: Mesh shows how SIGPIPE does it.
Crash(p) ==
  /\ Fault
  /\ End(p)
  /\ UNCHANGED <<updates, bound>>
  /\ NodeFrame

\* The process that child i is connected to reads a request from the server.
NodeReads(i) ==
  LET f == children[i].write_fd
  IN
  /\ f.state = "open"
  /\ process[f.to].stage = "serving"
  /\ f.unread # << >>
  /\ children' = [children EXCEPT ![i].write_fd.unread = Tail(@),
                    ![i].write_fd.answers =
                       IF Head(f.unread) = "PING" THEN @ + 1 ELSE @]
  /\ UNCHANGED <<process, updates, bound, faults>>
  /\ NodeFrame /\ UNCHANGED restoring

-----------------------------------------------------------------------------
(***************************************************************************)
(* The server starts processes.                                            *)
(***************************************************************************)
\* The address is printed into three bytes, one of which ends the string.
run_node(a) == IF a < 100 THEN a ELSE a \div 10

Born == {p \in Pid : process[p].stage # "unborn"}

NewPid(S, i) == Cardinality(Born) + Cardinality(S \cap Before(i)) + 1

\* revivie_node for the children in S, in the order of the table.
revivie_nodes(S) ==
  [p \in Pid |->
     IF \A i \in S : p # NewPid(S, i) THEN process[p]
     ELSE LET i == CHOOSE j \in S : p = NewPid(S, j)
          IN  [addr |-> run_node(children[i].addr), stage |-> "forked",
               stop |-> FALSE,
               kin |-> {NewPid(S, j) : j \in S \cap Before(i)} \cup
                       {children[j].pid : j \in Node \ (S \cap Before(i))}]]

\* A faulty variant: what fork() returns in the child.
WithPids_zero(S) ==
  [i \in Node |-> IF i \in S THEN [children[i] EXCEPT !.pid = 0] ELSE children[i]]

WithPids(S) ==
  [i \in Node |-> IF i \in S THEN [children[i] EXCEPT !.pid = NewPid(S, i)]
                  ELSE children[i]]

-----------------------------------------------------------------------------
(***************************************************************************)
(* The requests the server handles.  A client gives any address it likes,  *)
(* also UINT8_MAX, which the table holds for children not heard of yet.    *)
(* Where no child has the address, nothing happens.                        *)
(***************************************************************************)
First(S) == CHOOSE i \in S : \A j \in S : i <= j

WithAddr(a) == {i \in Node : children[i].addr = a}

Command ==
  /\ server = "ready"
  /\ commands < MaxCommands
  /\ commands' = commands + 1
  /\ UNCHANGED <<updates, bound, faults>>

\* The last process of child i has neither ended nor been heard of.
UnderWay(i) ==
  LET c == children[i]
  IN  c.write_fd = NoFd /\ (process[c.pid].stage # "gone" \/ c.pid \in updates)

Note(cmd, S) ==
  /\ hasty' = (hasty \/ \E i \in S : UnderWay(i))
  /\ restoring' = (cmd = "reset" /\ ~hasty' /\ faults = 0)

\* A faulty variant: the address is taken to be known.
update_child_fd(i, p, f) == [children EXCEPT ![i].write_fd = f]

update_child(i, p, f) ==
  [children EXCEPT ![i].addr = process[p].addr, ![i].write_fd = f]

\* UPDATE from process p: connect to whoever listens on its port.
HandleUpdateChild(p) ==
  LET S  == {i \in Node : children[i].pid = p}
      L  == Listener(process[p].addr)
      fd == IF L = {} THEN NoFd
            ELSE [NoFd EXCEPT !.state = "open", !.to = CHOOSE q \in L : TRUE]
  IN
  /\ server = "ready"
  /\ p \in updates
  /\ updates' = updates \ {p}
  /\ children' = IF S = {} THEN children ELSE update_child(First(S), p, fd)
  /\ UNCHANGED <<process, server, pinged, bound, verdict, hasty, restoring, commands,
                 faults>>

HandleKill(a) ==
  LET i == First(WithAddr(a))
  IN
  /\ Command
  /\ WithAddr(a) # {}
  /\ children' = [children EXCEPT ![i].write_fd = NoFd]
  /\ process' = kill_pid(children[i].pid)
  /\ Note("kill", {i})
  /\ verdict' = NoVerdict
  /\ UNCHANGED <<server, pinged>>

\* Every child with this address; one that is connected is left alone.
HandleRevive(a) ==
  LET S == {i \in WithAddr(a) : children[i].write_fd = NoFd}
  IN
  /\ Command
  /\ S # {}
  /\ Cardinality(Born) + Cardinality(S) <= MaxProcesses
  /\ process' = revivie_nodes(S)
  /\ children' = WithPids(S)
  /\ Note("revive", S)
  /\ verdict' = NoVerdict
  /\ UNCHANGED <<server, pinged>>

\* The connection after a request was written to it.
io_write_all(f, req) ==
  IF f.state = "open" THEN [f EXCEPT !.unread = Append(@, req)]
  ELSE [f EXCEPT !.state = "broken"]

\* A faulty variant: children that were killed are left alone.
ResetForks_none(tried) == {}

\* The children that have no connection.
ResetForks(tried) == {i \in tried : children[i].write_fd = NoFd}

\* RESET to every child that is connected, a new process for the others.
HandleReset ==
  LET broken == {i \in Node : children[i].write_fd.state = "broken"}
      tried  == {i \in Node : \A b \in broken : i < b}
      S      == ResetForks(tried)
  IN
  /\ Command
  /\ Cardinality(Born) + Cardinality(S) <= MaxProcesses
  /\ process' = revivie_nodes(S)
  /\ children' = [i \in Node |->
       IF i \in tried /\ children[i].write_fd # NoFd
       THEN [children[i] EXCEPT !.write_fd = io_write_all(@, "RESET")]
       ELSE WithPids(S)[i]]
  /\ server' = IF broken = {} THEN server ELSE "down"
  /\ Note("reset", S)
  /\ verdict' = NoVerdict
  /\ UNCHANGED pinged

\* PING: an error at once, or a request to the node and a wait.
HandlePing(a) ==
  LET i == First(WithAddr(a))
      f == children[i].write_fd
  IN
  /\ Command
  /\ WithAddr(a) # {}
  /\ \/ /\ f.state \in {"none", "err"}
        /\ verdict' = [answer |-> "ERR", ran |-> FALSE, late |-> f.late]
        /\ UNCHANGED <<server, pinged>>
     \/ /\ f.state \in {"open", "fin"}
        /\ server' = "waiting"
        /\ pinged' = [node |-> i,
                      ran |-> process[f.to].stage \in {"listening", "serving"}]
        /\ verdict' = NoVerdict
     \/ /\ f.state = "broken"
        /\ server' = "down"
        /\ verdict' = NoVerdict
        /\ UNCHANGED pinged
  /\ children' = IF f.state = "none" THEN children
                 ELSE [children EXCEPT ![i].write_fd = io_write_all(@, "PING")]
  /\ UNCHANGED <<process, hasty, restoring>>

(***************************************************************************)
(* What the client is told when recv returns.  recv takes all the answers  *)
(* there are, also those to earlier pings.  The -1 of a timeout or a reset *)
(* connection becomes 255 in an uint8_t: the client gets 255 bytes of a    *)
(* buffer that begins with the request.                                    *)
(***************************************************************************)
\* A faulty variant: the end of the connection is not told from an answer.
recv_result_any(f) == IF f.answers > 0 \/ f.state # "open" THEN {"OK"} ELSE {"junk"}

recv_result(f) ==
  IF f.answers > 0 THEN {"OK"}
  ELSE IF f.state = "fin" THEN {"ERR"}
  ELSE IF f.state = "broken" THEN {"ERR", "junk"} ELSE {"junk"}

PingReturns ==
  LET f == children[pinged.node].write_fd
  IN
  /\ server = "waiting"
  /\ server' = "ready"
  /\ \E r \in recv_result(f) :
       verdict' = [answer |-> r, ran |-> pinged.ran, late |-> f.late]
  /\ children' = [children EXCEPT ![pinged.node].write_fd =
                    [f EXCEPT !.answers = 0,
                              !.late = @ \/ (f.answers = 0 /\ f.state = "open")]]
  /\ pinged' = NoPing
  /\ UNCHANGED <<process, updates, bound, hasty, restoring, commands, faults>>

\* A faulty variant: only children that are connected.
Interrupted_connected == {children[i].pid : i \in {j \in Node : children[j].write_fd # NoFd}}

\* The processes term_handler sends SIGINT to.
Interrupted == {children[i].pid : i \in Node}

\* SIGTERM to the server, at any time.  A child before its execl ignores SIGINT.
TermHandler ==
  /\ server \in {"ready", "waiting"}
  /\ commands < MaxCommands
  /\ commands' = MaxCommands
  /\ server' = "stopped"
  /\ process' = [p \in Pid |-> IF p \in Interrupted THEN Signalled(process[p])
                               ELSE process[p]]
  /\ hasty' = (hasty \/ \E p \in Pid : process[p].stage = "forked")
  /\ restoring' = FALSE
  /\ pinged' = NoPing /\ verdict' = NoVerdict
  /\ UNCHANGED <<children, updates, bound, faults>>

-----------------------------------------------------------------------------
NodeStep(p) == Exec(p) \/ Bind(p) \/ Report(p) \/ Exit(p)

Next ==
  \/ HandleReset
  \/ \E a \in Node \cup {UINT8_MAX} : \/ HandleKill(a) \/ HandleRevive(a)
                                      \/ HandlePing(a)
  \/ \E p \in Pid : NodeStep(p) \/ Crash(p) \/ HandleUpdateChild(p)
  \/ \E i \in Node : NodeReads(i)
  \/ PingReturns
  \/ TermHandler

(***************************************************************************)
(* The operating system runs the processes: when some node process can     *)
(* take its next step, or the server has an update to read or a ping to    *)
(* give up, one of them goes on.  Nothing makes clients send, nodes answer *)
(* or nodes crash.  That each process gets its turn need not be assumed:   *)
(* none of them takes more than a few steps.                               *)
(***************************************************************************)
Progress ==
  \/ \E p \in Pid : NodeStep(p) \/ HandleUpdateChild(p)
  \/ PingReturns

Fairness == WF_vars(Progress)

Spec == Init /\ [][Next]_vars /\ Fairness

-----------------------------------------------------------------------------
(***************************************************************************)
(* Properties.                                                             *)
(***************************************************************************)
\* No process is on its way up or down.
AtRest ==
  \A p \in Pid : \/ process[p].stage \in {"unborn", "gone"}
                 \/ process[p].stage = "serving" /\ ~process[p].stop

Settled == server = "ready" /\ updates = {} /\ AtRest

Running(a) == {p \in Pid : process[p].addr = a /\ process[p].stage = "serving"}

(***************************************************************************)
(* When commands are given one after the other, each when the one before   *)
(* has taken effect, then once everything has settled the table is right:  *)
(* child i is node i, a connected child is the one process of that node,   *)
(* and a child without connection has no process, so that kill has killed  *)
(* it, whatever crashed and whatever bind() failed in between.             *)
(***************************************************************************)
TableAgrees ==
  Settled /\ ~hasty =>
    \A i \in Node :
      LET c == children[i]
      IN  /\ c.addr = i
          /\ Running(i) = IF c.write_fd.state = "open" THEN {c.pid} ELSE {}
          /\ c.write_fd.state = "open" => c.write_fd.to = c.pid

(***************************************************************************)
(* However processes and commands overtake each other, a connection in the *)
(* table leads to a process of the address that stands beside it: requests *)
(* for a node never reach another one.                                     *)
(***************************************************************************)
ConnectionFits ==
  \A i \in Node :
    LET c == children[i]
    IN  c.write_fd # NoFd => process[c.write_fd.to].addr = c.addr

(***************************************************************************)
(* A ping says OK only if the process ran when it was asked, unless an     *)
(* earlier ping on the connection has timed out: its answer, when it comes *)
(* late, is taken for the answer to the next.                              *)
(***************************************************************************)
PingTruthful == verdict.answer = "OK" => verdict.ran \/ verdict.late

Up(i) ==
  LET c == children[i]
  IN  c.addr = i /\ c.write_fd.state = "open" /\ process[c.write_fd.to].stage = "serving"

(***************************************************************************)
(* A reset brings back every node that was killed, if it does not come too *)
(* early and no node crashes or is refused its port: a crashed node keeps  *)
(* its descriptor in the table, and RESET is written to nobody.            *)
(***************************************************************************)
ResetRestores ==
  restoring ~> (~restoring \/ \A i \in Node : Up(i))

(***************************************************************************)
(* Stopping the server leaves no node process behind once all have come to *)
(* rest, not even one that was about to start, unless a command was hasty: *)
(* then there may be a process that the table has forgotten, and a child   *)
(* that was just forked goes on.                                           *)
(***************************************************************************)
StopEndsNodes ==
  server = "stopped" /\ AtRest /\ ~hasty =>
    \A p \in Pid : process[p].stage \in {"unborn", "gone"}
=============================================================================
