-------------------------- MODULE SupervisorProofs --------------------------
(***************************************************************************)
(* The server and the processes of its nodes, for any set of nodes and any *)
(* number of processes, commands and faults.                               *)
(*                                                                         *)
(* Pids are given out in order and none twice (Fresh), so that what the    *)
(* server knows of a process stays true of it (Fits).  A ping that was not *)
(* answered in time is remembered as such until its connection is gone     *)
(* (Asked).  As long as no command is hasty, every process that runs is    *)
(* the one its child has in the table, and the table lags behind only by   *)
(* updates that are still to be read (Family).                             *)
(***************************************************************************)
EXTENDS Supervisor, NumberSets, SequenceTheorems

\* The constants, as the proofs use them.
LEMMA Constants ==
  /\ IsFiniteSet(Node) /\ MaxProcesses \in Nat /\ Cardinality(Node) <= MaxProcesses
  /\ MaxCommands \in Nat /\ MaxFaults \in Nat
BY SupervisorAssumption

\* The largest address is a number; which one does not matter.
LEMMA LastAddr == UINT8_MAX \in Nat
BY SMT DEF UINT8_MAX

\* Nodes are addresses, but not the one for children not heard of.
LEMMA NodeFacts == Node \in SUBSET Nat /\ Node \subseteq Addr /\ UINT8_MAX \notin Node /\ UINT8_MAX \in Addr
<1>1. Node \subseteq 0 .. UINT8_MAX - 1
  BY SupervisorAssumption
<1>2. QED
  BY <1>1, LastAddr DEF Addr

\* A table is searched from its beginning.
LEMMA FirstFacts ==
  ASSUME NEW S \in SUBSET Node, S # {}
  PROVE  First(S) \in S
<1>1. S \in SUBSET Nat
  BY NodeFacts
<1>2. \E x \in S : \A y \in S : x <= y
  BY <1>1, HasLeast
<1>3. QED
  BY <1>2 DEF First

-----------------------------------------------------------------------------
(***************************************************************************)
(* What the operators of the model do to records.                          *)
(***************************************************************************)
\* The end of a process.
LEMMA EndedFacts ==
  ASSUME NEW r \in Process
  PROVE  /\ Ended(r) \in Process /\ Ended(r).addr = r.addr
         /\ Ended(r).stage = "gone" /\ Ended(r).stop = FALSE
BY DEF Ended, Process, Stage

\* A signal ends a process that is loading, and sets the flag of a later one.
LEMMA SignalledFacts ==
  ASSUME NEW r \in Process
  PROVE  /\ Signalled(r) \in Process /\ Signalled(r).addr = r.addr
         /\ Signalled(r).stage = IF r.stage = "loading" THEN "gone" ELSE r.stage
         /\ r.stage \in {"starting", "listening", "homeless", "serving"} => Signalled(r).stop
         /\ r.stop /\ r.stage # "loading" => Signalled(r).stop
<1>1. CASE r.stage = "loading"
  BY <1>1, EndedFacts DEF Signalled
<1>2. CASE r.stage # "loading"
  <2>1. Signalled(r) = [r EXCEPT !.stop = r.stop \/ r.stage \in {"starting", "listening", "homeless", "serving"}]
    BY <1>2 DEF Signalled
  <2>2. (r.stop \/ r.stage \in {"starting", "listening", "homeless", "serving"}) \in BOOLEAN
    OBVIOUS
  <2>3. QED
    BY <1>2, <2>1, <2>2 DEF Process
<1>3. QED
  BY <1>1, <1>2

\* A process goes on to another stage.
LEMMA StageFacts ==
  ASSUME NEW r \in Process, NEW t \in Stage
  PROVE  \E s \in Process : /\ s = [r EXCEPT !.stage = t] /\ s.stage = t
                            /\ s.addr = r.addr /\ s.stop = r.stop
<1> DEFINE s == [r EXCEPT !.stage = t]
<1>1. s \in Process /\ s.addr = r.addr /\ s.stop = r.stop /\ s.stage = t
  BY DEF Process
<1>2. QED
  BY <1>1

\* The same where another part of it changes too.
LEMMA StagesFacts ==
  ASSUME NEW r \in Process
  PROVE  /\ LET s == [r EXCEPT !.stage = "loading", !.kin = {}]
            IN  s \in Process /\ s.addr = r.addr /\ s.stop = r.stop /\ s.stage = "loading"
         /\ LET s == [r EXCEPT !.stage = "homeless", !.stop = TRUE]
            IN  s \in Process /\ s.addr = r.addr /\ s.stop /\ s.stage = "homeless"
BY DEF Process, Stage

\* NoFd and the fresh connection to a process.
LEMMA FdTypes ==
  /\ NoFd \in Fd /\ NoFd.state = "none" /\ NoFd.answers = 0 /\ NoFd.late = FALSE /\ NoFd.unread = << >>
  /\ \A q \in Pid : LET f == [NoFd EXCEPT !.state = "open", !.to = q]
                    IN  /\ f \in Fd /\ f.state = "open" /\ f.to = q
                        /\ f.answers = 0 /\ f.late = FALSE /\ f.unread = << >>
<1>1. << >> \in Seq({"PING", "RESET"})
  OBVIOUS
<1>2. QED
  BY <1>1 DEF NoFd, Fd

\* Writing a request to a connection.
LEMMA WriteFacts ==
  ASSUME NEW f \in Fd, NEW req \in {"PING", "RESET"}
  PROVE  LET g == io_write_all(f, req)
         IN  /\ g \in Fd /\ g.to = f.to /\ g.answers = f.answers /\ g.late = f.late
             /\ f.state = "open" => g.state = "open" /\ g.unread = Append(f.unread, req)
             /\ f.state # "open" => g.state = "broken"
<1>1. f.unread \in Seq({"PING", "RESET"})
  BY DEF Fd
<1>2. Append(f.unread, req) \in Seq({"PING", "RESET"})
  BY <1>1
<1>3. CASE f.state = "open"
  BY <1>2, <1>3 DEF io_write_all, Fd
<1>4. CASE f.state # "open"
  BY <1>4 DEF io_write_all, Fd
<1>5. QED
  BY <1>3, <1>4

\* The connection of a child is replaced.
LEMMA ChildFd ==
  ASSUME NEW c \in Child, NEW f \in Fd
  PROVE  LET d == [c EXCEPT !.write_fd = f]
         IN  d \in Child /\ d.pid = c.pid /\ d.addr = c.addr /\ d.write_fd = f
BY DEF Child

\* The same in the table.
LEMMA TableFd ==
  ASSUME NEW ch \in [Node -> Child], NEW i \in Node, NEW f \in Fd
  PROVE  LET new == [ch EXCEPT ![i].write_fd = f]
         IN  /\ new \in [Node -> Child]
             /\ \A j \in Node : /\ new[j].pid = ch[j].pid /\ new[j].addr = ch[j].addr
                                /\ new[j].write_fd = IF j = i THEN f ELSE ch[j].write_fd
<1>1. ch[i] \in Child
  OBVIOUS
<1>2. [ch EXCEPT ![i].write_fd = f] = [ch EXCEPT ![i] = [ch[i] EXCEPT !.write_fd = f]]
  OBVIOUS
<1>3. QED
  BY <1>1, <1>2, ChildFd

\* The parts of a child have their types.
LEMMA ChildParts ==
  ASSUME children \in [Node -> Child], NEW i \in Node
  PROVE  children[i] \in Child /\ children[i].pid \in Pid /\ children[i].addr \in Addr /\ children[i].write_fd \in Fd
<1>1. children[i] \in Child
  OBVIOUS
<1>2. QED
  BY <1>1 DEF Child

\* The parts of a connection have their types.
LEMMA FdParts ==
  ASSUME NEW f \in Fd
  PROVE  /\ f.state \in {"none", "open", "fin", "err", "broken"} /\ f.to \in Pid \cup {0}
         /\ f.unread \in Seq({"PING", "RESET"}) /\ f.answers \in Nat /\ f.late \in BOOLEAN
BY DEF Fd

\* The parts of a process have their types.
LEMMA ProcessParts ==
  ASSUME NEW r \in Process
  PROVE  r.addr \in Addr /\ r.stage \in Stage /\ r.stop \in BOOLEAN /\ r.kin \subseteq Pid
BY DEF Process
-----------------------------------------------------------------------------
(***************************************************************************)
(* What the actions do.                                                    *)
(***************************************************************************)
\* One step of process p, from one stage to another.
Goes(p, from, to) == process[p].stage = from /\ process'[p].stage = to

Moves(p) ==
  /\ process' \in [Pid -> Process]
  /\ \A q \in Pid : q # p => process'[q] = process[q]
  /\ process'[p].addr = process[p].addr
  /\ \/ /\ \/ Goes(p, "forked", "loading") \/ Goes(p, "loading", "starting")
           \/ Goes(p, "starting", "listening")
        /\ process'[p].stop = process[p].stop
        /\ UNCHANGED <<children, updates>>
     \/ /\ Goes(p, "starting", "homeless")
        /\ process'[p].stop
        /\ UNCHANGED <<children, updates>>
     \/ /\ Goes(p, "listening", "serving")
        /\ process'[p].stop = process[p].stop
        /\ updates' = updates \cup {p} /\ UNCHANGED children
     \/ /\ Goes(p, "homeless", "gone")
        /\ updates' = updates \cup {p} /\ UNCHANGED children
     \/ /\ Goes(p, "serving", "gone")
        /\ children' = HungUp(p) /\ UNCHANGED updates

\* Every step of a node process is such a move.
LEMMA NodeMoves ==
  ASSUME TypeOK, NEW p \in Pid, NodeStep(p) \/ Crash(p)
  PROVE  Moves(p)
<1> DEFINE r == process[p]
<1>1. process \in [Pid -> Process] /\ r \in Process
  BY DEF TypeOK
<1>2. ASSUME NEW from, NEW to \in Stage, Advance(p, from, to)
      PROVE  /\ process' \in [Pid -> Process] /\ Goes(p, from, to)
             /\ \A q \in Pid : q # p => process'[q] = process[q]
             /\ process'[p].addr = r.addr /\ process'[p].stop = r.stop
  <2>1. process' = [process EXCEPT ![p] = [r EXCEPT !.stage = to]]
    BY <1>2 DEF Advance
  <2>2. PICK s \in Process : /\ s = [r EXCEPT !.stage = to] /\ s.stage = to
                             /\ s.addr = r.addr /\ s.stop = r.stop
    BY <1>1, <1>2, StageFacts
  <2>3. process' = [process EXCEPT ![p] = s] /\ r.stage = from
    BY <1>2, <2>1, <2>2 DEF Advance
  <2>4. QED
    BY <1>1, <2>2, <2>3 DEF Goes
<1>3. CASE Exec(p)
  <2>1. CASE /\ r.stage = "forked"
             /\ process' = [process EXCEPT ![p].stage = "loading", ![p].kin = {}]
    <3>1. process' = [process EXCEPT ![p] = [r EXCEPT !.stage = "loading", !.kin = {}]]
      BY <2>1
    <3>2. PICK s \in Process : /\ s = [r EXCEPT !.stage = "loading", !.kin = {}]
                               /\ s.addr = r.addr /\ s.stop = r.stop /\ s.stage = "loading"
      BY <1>1, StagesFacts
    <3>3. process' = [process EXCEPT ![p] = s]
      BY <3>1, <3>2
    <3>4. QED
      BY <1>1, <1>3, <2>1, <3>2, <3>3 DEF Moves, Goes, Exec
  <2>2. CASE Advance(p, "loading", "starting")
    BY <1>2, <1>3, <2>2 DEF Moves, Exec, Stage
  <2>3. QED
    BY <1>3, <2>1, <2>2 DEF Exec
<1>4. CASE Bind(p)
  <2>1. CASE Advance(p, "starting", "listening")
    BY <1>2, <1>4, <2>1 DEF Moves, Bind, Stage
  <2>2. CASE /\ r.stage = "starting"
             /\ process' = [process EXCEPT ![p].stage = "homeless", ![p].stop = TRUE]
    <3>1. process' = [process EXCEPT ![p] = [r EXCEPT !.stage = "homeless", !.stop = TRUE]]
      BY <2>2
    <3>2. PICK s \in Process : /\ s = [r EXCEPT !.stage = "homeless", !.stop = TRUE]
                               /\ s.addr = r.addr /\ s.stop /\ s.stage = "homeless"
      BY <1>1, StagesFacts
    <3>3. process' = [process EXCEPT ![p] = s]
      BY <3>1, <3>2
    <3>4. QED
      BY <1>1, <1>4, <2>2, <3>2, <3>3 DEF Moves, Goes, Bind
  <2>3. QED
    BY <1>4, <2>1, <2>2 DEF Bind
<1>5. CASE Report(p)
  <2>1. CASE Advance(p, "listening", "serving")
    BY <1>2, <1>5, <2>1 DEF Moves, Report, Stage
  <2>2. CASE r.stage = "homeless" /\ process' = [process EXCEPT ![p] = Ended(@)]
    BY <1>1, <1>5, <2>2, EndedFacts DEF Moves, Goes, Report
  <2>3. QED
    BY <1>5, <2>1, <2>2 DEF Report
<1>6. CASE Exit(p) \/ Crash(p)
  BY <1>1, <1>6, EndedFacts DEF Exit, Crash, End, Moves, Goes
<1>7. QED
  BY <1>3, <1>4, <1>5, <1>6 DEF NodeStep

\* The end of a process leaves connections that are not open, and the rest.
LEMMA HungUpFacts ==
  ASSUME children \in [Node -> Child], NEW p
  PROVE  /\ HungUp(p) \in [Node -> Child]
         /\ \A i \in Node :
              LET f == children[i].write_fd
                  g == HungUp(p)[i].write_fd
              IN  /\ HungUp(p)[i].pid = children[i].pid
                  /\ HungUp(p)[i].addr = children[i].addr
                  /\ f.to # p \/ f.state # "open" => g = f
                  /\ f.to = p /\ f.state = "open" => g.state \in {"fin", "err"}
                  /\ g.to = f.to /\ g.answers = f.answers /\ g.late = f.late
                  /\ g.unread = f.unread
<1>1. ASSUME NEW i \in Node
      PROVE  LET f == children[i].write_fd
                 d == HungUp(p)[i]
                 g == d.write_fd
             IN  /\ d \in Child /\ d.pid = children[i].pid /\ d.addr = children[i].addr
                 /\ f.to # p \/ f.state # "open" => g = f
                 /\ f.to = p /\ f.state = "open" => g.state \in {"fin", "err"}
                 /\ g.to = f.to /\ g.answers = f.answers /\ g.late = f.late
                 /\ g.unread = f.unread
  <2> DEFINE c == children[i]
             f == c.write_fd
             s == IF f.unread = << >> THEN "fin" ELSE "err"
  <2>1. c \in Child /\ f \in Fd
    BY ChildParts
  <2>2. HungUp(p)[i] = IF f.to # p \/ f.state # "open" THEN c
                       ELSE [c EXCEPT !.write_fd.state = s]
    BY DEF HungUp
  <2>3. [c EXCEPT !.write_fd.state = s] = [c EXCEPT !.write_fd = [f EXCEPT !.state = s]]
    BY <2>1 DEF Child
  <2>4. s \in {"fin", "err"}
    OBVIOUS
  <2> HIDE DEF s
  <2>5. LET g == [f EXCEPT !.state = s]
        IN  /\ g \in Fd /\ g.state = s /\ g.to = f.to /\ g.answers = f.answers
            /\ g.late = f.late /\ g.unread = f.unread
    BY <2>1, <2>4 DEF Fd
  <2> HIDE DEF c, f
  <2>6. QED
    BY <2>1, <2>2, <2>3, <2>4, <2>5, ChildFd DEF c, f
<1>2. HungUp(p) = [i \in Node |-> HungUp(p)[i]]
  BY DEF HungUp
<1>3. QED
  BY <1>1, <1>2

\* Processes that are signalled keep their addresses and mostly their stages.
LEMMA SignalEffect ==
  ASSUME process \in [Pid -> Process], NEW T,
         process' = [q \in Pid |-> IF q \in T THEN Signalled(process[q]) ELSE process[q]]
  PROVE  /\ process' \in [Pid -> Process]
         /\ \A q \in Pid :
              /\ process'[q].addr = process[q].addr
              /\ process'[q].stage \in {process[q].stage, "gone"}
              /\ process[q].stage # "loading" => process'[q].stage = process[q].stage
              /\ q \in T /\ process[q].stage = "loading" => process'[q].stage = "gone"
              /\ process[q].stop /\ process[q].stage # "loading" => process'[q].stop
              /\ q \in T /\ process[q].stage \in {"starting", "listening", "homeless", "serving"}
                   => process'[q].stop
<1>1. \A q \in Pid : process[q] \in Process /\ Signalled(process[q]) \in Process
  BY SignalledFacts
<1>2. process' \in [Pid -> Process]
  BY <1>1
<1>3. QED
  BY <1>1, <1>2, SignalledFacts

\* kill() signals some processes, and of a child that is past its execl that one.
LEMMA KillSignals ==
  ASSUME process \in [Pid -> Process], NEW p \in Pid
  PROVE  \E T \in SUBSET Pid :
           /\ kill_pid(p) = [q \in Pid |-> IF q \in T THEN Signalled(process[q]) ELSE process[q]]
           /\ process[p].stage # "forked" => T = {p}
<1>1. process[p] \in Process
  OBVIOUS
<1>2. CASE process[p].stage = "forked"
  BY <1>1, <1>2, ProcessParts DEF kill_pid
<1>3. CASE process[p].stage # "forked"
  <2>1. kill_pid(p) = [q \in Pid |-> IF q \in {p} THEN Signalled(process[q]) ELSE process[q]]
    BY <1>3 DEF kill_pid
  <2>2. QED
    BY <2>1
<1>4. QED
  BY <1>2, <1>3
-----------------------------------------------------------------------------
(***************************************************************************)
(* Processes are born.                                                     *)
(***************************************************************************)
\* What the server knows are processes that were born, and their pids count
\* up, so that the next ones are new.
PidsCountUp == \A p \in Born : p <= Cardinality(Born)

Fresh ==
  /\ PidsCountUp
  /\ updates \subseteq Born
  /\ \A i \in Node :
       /\ children[i].pid \in Born
       /\ children[i].write_fd # NoFd => children[i].write_fd.to \in Born

\* There are finitely many processes.
LEMMA BornFacts == IsFiniteSet(Born) /\ Cardinality(Born) \in Nat /\ Born \subseteq Pid
<1>1. IsFiniteSet(1 .. MaxProcesses)
  BY Constants, FS_Interval
<1>2. Born \subseteq Pid /\ IsFiniteSet(Pid)
  BY <1>1 DEF Born, Pid
<1>3. QED
  BY <1>2, FS_Subset, FS_CardinalityType

\* The children in S get the pids after those that were given out.
LEMMA NewPidFacts ==
  ASSUME PidsCountUp, NEW S \in SUBSET Node,
         Cardinality(Born) + Cardinality(S) <= MaxProcesses
  PROVE  /\ \A i \in S : NewPid(S, i) \in Pid /\ NewPid(S, i) \notin Born
         /\ \A i \in S : NewPid(S, i) <= Cardinality(Born) + Cardinality(S)
         /\ \A i, j \in S : NewPid(S, i) = NewPid(S, j) => i = j
         /\ IsFiniteSet({NewPid(S, i) : i \in S})
         /\ Cardinality({NewPid(S, i) : i \in S}) = Cardinality(S)
         /\ Cardinality(S) \in Nat
<1> DEFINE b == Cardinality(Born)
<1>1. S \in SUBSET Nat /\ IsFiniteSet(S)
  BY Constants, NodeFacts, FS_Subset
<1>2. \A i \in S : {j \in S : j < i} = S \cap Before(i)
  BY DEF Before
<1>3. \A i \in S : NewPid(S, i) = b + Rank(S, i) + 1
  BY <1>2 DEF NewPid, Rank
<1>4. b \in Nat
  BY BornFacts
<1>5. Cardinality(S) \in Nat
  BY <1>1, RankFacts
<1>6. \A i \in S : Rank(S, i) \in Nat /\ Rank(S, i) < Cardinality(S)
  BY <1>1, RankFacts
<1>7. \A i, j \in S : Rank(S, i) = Rank(S, j) => i = j
  BY <1>1, RankFacts
<1>8. {NewPid(S, i) : i \in S} = {b + Rank(S, i) + 1 : i \in S}
  BY <1>3
<1>9. /\ IsFiniteSet({b + Rank(S, i) + 1 : i \in S})
      /\ Cardinality({b + Rank(S, i) + 1 : i \in S}) = Cardinality(S)
  BY <1>1, <1>4, RankImage
<1>10. \A i \in S : /\ NewPid(S, i) \in 1 .. MaxProcesses
                    /\ NewPid(S, i) > b /\ NewPid(S, i) <= b + Cardinality(S)
  BY <1>3, <1>4, <1>5, <1>6, Constants
<1>11. \A i \in S : NewPid(S, i) \notin Born
  BY <1>4, <1>10, BornFacts DEF PidsCountUp, Pid
<1>12. \A i, j \in S : NewPid(S, i) = NewPid(S, j) => i = j
  BY <1>3, <1>4, <1>6, <1>7
<1>13. QED
  BY <1>5, <1>8, <1>9, <1>10, <1>11, <1>12 DEF Pid

\* run_node prints an address, at least as long as it has two digits.
LEMMA RunNodeFacts ==
  /\ \A a \in Addr : run_node(a) \in Addr
  /\ \A a : a < 100 => run_node(a) = a
<1>1. ASSUME NEW m \in Nat, NEW a \in 0 .. m PROVE a \div 10 \in 0 .. m
  BY SMT
<1>2. \A a \in Addr : a \div 10 \in Addr
  BY <1>1, LastAddr DEF Addr
<1>3. QED
  BY <1>2 DEF run_node

\* The new process of child i.
NewProcess(S, i) ==
  [addr |-> run_node(children[i].addr), stage |-> "forked", stop |-> FALSE,
   kin |-> {NewPid(S, j) : j \in S \cap Before(i)} \cup
           {children[j].pid : j \in Node \ (S \cap Before(i))}]

\* revivie_node adds new processes and leaves the others alone.
LEMMA Births ==
  ASSUME children \in [Node -> Child], process \in [Pid -> Process], PidsCountUp,
         NEW S \in SUBSET Node, Cardinality(Born) + Cardinality(S) <= MaxProcesses,
         process' = revivie_nodes(S)
  PROVE  /\ process' \in [Pid -> Process]
         /\ \A q \in Born : process'[q] = process[q]
         /\ \A q \in Pid : process'[q] = process[q] \/ \E i \in S : q = NewPid(S, i)
         /\ \A i \in S : /\ process'[NewPid(S, i)].addr = run_node(children[i].addr)
                         /\ process'[NewPid(S, i)].stage = "forked"
         /\ Born' = Born \cup {NewPid(S, i) : i \in S}
         /\ PidsCountUp'
<1> DEFINE N == {NewPid(S, i) : i \in S}
<1>1. \A i \in S : NewPid(S, i) \in Pid /\ NewPid(S, i) \notin Born
  BY NewPidFacts
<1>2. \A i, j \in S : NewPid(S, i) = NewPid(S, j) => i = j
  BY NewPidFacts
<1>3. ASSUME NEW q \in Pid
      PROVE  process'[q] = IF \A i \in S : q # NewPid(S, i) THEN process[q]
                           ELSE NewProcess(S, CHOOSE j \in S : q = NewPid(S, j))
  BY DEF revivie_nodes, NewProcess
<1>4. ASSUME NEW i \in S
      PROVE  process'[NewPid(S, i)] = NewProcess(S, i)
  <2>1. (CHOOSE j \in S : NewPid(S, i) = NewPid(S, j)) = i
    BY <1>2
  <2>2. QED
    BY <1>1, <1>3, <2>1
<1>5. ASSUME NEW i \in S PROVE NewProcess(S, i) \in Process
  <2>1. run_node(children[i].addr) \in Addr
    BY ChildParts, RunNodeFacts
  <2>2. \A j \in Node : children[j].pid \in Pid
    BY ChildParts
  <2>3. {NewPid(S, j) : j \in S \cap Before(i)} \cup
          {children[j].pid : j \in Node \ (S \cap Before(i))} \in SUBSET Pid
    BY <1>1, <2>2
  <2>4. QED
    BY <2>1, <2>3 DEF NewProcess, Process, Stage
<1>6. \A q \in Pid : process'[q] = process[q] \/ \E i \in S : q = NewPid(S, i)
  BY <1>3
<1>7. process' \in [Pid -> Process]
  <2>1. \A q \in Pid : process'[q] \in Process
    BY <1>4, <1>5, <1>6
  <2>2. process' = [q \in Pid |-> process'[q]]
    BY DEF revivie_nodes
  <2>3. QED
    BY <2>1, <2>2
<1>8. \A i \in S : NewProcess(S, i).addr = run_node(children[i].addr) /\ NewProcess(S, i).stage = "forked"
  BY DEF NewProcess
<1>9. \A q \in Born : process'[q] = process[q]
  BY <1>1, <1>6, BornFacts
<1>10. Born' = Born \cup N
  <2>1. \A q \in Pid : process'[q].stage # "unborn" <=> process[q].stage # "unborn" \/ q \in N
    BY <1>1, <1>4, <1>6, <1>8, <1>9 DEF Born
  <2>2. QED
    BY <1>1, <2>1 DEF Born
<1>11. PidsCountUp'
  <2> DEFINE b == Cardinality(Born)
             n == Cardinality(S)
  <2>1. IsFiniteSet(N) /\ Cardinality(N) = n /\ n \in Nat
    BY NewPidFacts
  <2>2. N \cap Born = {}
    BY <1>1
  <2>3. Cardinality(Born \cup N) = b + n - Cardinality(Born \cap N)
    BY <2>1, BornFacts, FS_Union
  <2>4. Cardinality(Born') = b + n
    <3>1. Born \cap N = {}
      BY <2>2
    <3>2. Cardinality(Born \cap N) = 0
      BY <3>1, FS_EmptySet
    <3>3. b + n - 0 = b + n
      BY <2>1, BornFacts
    <3>4. QED
      BY <1>10, <2>3, <3>2, <3>3
  <2>5. \A q \in N : q <= b + n
    <3>1. \A i \in S : NewPid(S, i) <= b + n
      BY NewPidFacts
    <3>2. QED
      BY <3>1
  <2>6. \A q \in Born : q <= b /\ q \in Nat
    BY BornFacts DEF PidsCountUp, Pid
  <2>7. \A q \in Born \cup N : q <= b + n
    BY <2>1, <2>5, <2>6, BornFacts
  <2>8. QED
    BY <1>10, <2>4, <2>7 DEF PidsCountUp
<1>12. QED
  BY <1>4, <1>6, <1>7, <1>8, <1>9, <1>10, <1>11
-----------------------------------------------------------------------------
(***************************************************************************)
(* The inductive invariant.                                                *)
(***************************************************************************)
\* An open connection leads to a process that has the port.
Listens ==
  \A i \in Node :
    LET f == children[i].write_fd
    IN  f.state = "open" => process[f.to].stage \in {"listening", "serving"}

Pings(f) == {k \in DOMAIN f.unread : f.unread[k] = "PING"}

\* On a connection on which no ping has timed out there is nothing left of
\* pings, but for the one the server waits for.
Quiet(f) == f.answers = 0 /\ (f.state = "open" => Pings(f) = {})

Expected(f) ==
  /\ f.answers > 0 => pinged.ran /\ (f.state = "open" => Pings(f) = {})
  /\ f.state = "open" => \A k, l \in Pings(f) : k = l

Waited(i) == server = "waiting" /\ pinged.node = i

Asked ==
  /\ server = "waiting" => pinged.node \in Node
  /\ server \in {"ready", "waiting"} => \A i \in Node :
       LET f == children[i].write_fd
       IN  /\ Waited(i) /\ f.state = "open" => pinged.ran
           /\ Waited(i) => f.late \/ Expected(f)
           /\ ~Waited(i) => f.late \/ Quiet(f)

\* As long as no command is hasty, no process is forgotten.
Steady == server \in {"ready", "waiting"} /\ ~hasty

Tracked ==
  Steady => \A p \in Pid : process[p].stage \notin {"unborn", "gone"} =>
              \E i \in Node : children[i].pid = p

\* Once the server is stopped every process has been told.
Stopping ==
  server = "stopped" /\ ~hasty =>
    \A p \in Pid : \/ process[p].stage \in {"unborn", "gone"}
                   \/ /\ process[p].stage \in {"starting", "listening", "homeless", "serving"}
                      /\ process[p].stop

Inv ==
  /\ TypeOK /\ Fresh
  /\ ConnectionFits /\ Listens
  /\ Asked /\ PingTruthful
  /\ Tracked /\ Stopping

-----------------------------------------------------------------------------
(***************************************************************************)
(* The steps of node processes.                                            *)
(***************************************************************************)
\* What such a step leaves of a connection: all but that it is open.
Kept(f, g) ==
  /\ g.to = f.to /\ g.answers = f.answers /\ g.late = f.late /\ g.unread = f.unread
  /\ g = f \/ (f.state = "open" /\ g.state \in {"fin", "err"})

LEMMA MoveFacts ==
  ASSUME TypeOK, NEW p \in Pid, Moves(p)
  PROVE  /\ process' \in [Pid -> Process] /\ children' \in [Node -> Child]
         /\ updates' \subseteq Pid
         /\ Born' = Born
         /\ \A q \in Pid : process'[q].addr = process[q].addr
         /\ \A i \in Node : /\ children'[i].pid = children[i].pid
                            /\ children'[i].addr = children[i].addr
                            /\ Kept(children[i].write_fd, children'[i].write_fd)
         /\ \A i \in Node : Goes(p, "serving", "gone") /\ children[i].write_fd.to = p
              => children'[i].write_fd.state # "open"
<1>1. children \in [Node -> Child] /\ process \in [Pid -> Process] /\ updates \subseteq Pid
  BY DEF TypeOK
<1>2. process' \in [Pid -> Process] /\ \A q \in Pid : process'[q].addr = process[q].addr
  BY DEF Moves
<1>3. updates' \subseteq Pid
  BY <1>1 DEF Moves
<1>4. Born' = Born
  BY DEF Moves, Goes, Born
<1>5. CASE UNCHANGED children /\ ~Goes(p, "serving", "gone")
  BY <1>1, <1>2, <1>3, <1>4, <1>5 DEF Kept
<1>6. CASE children' = HungUp(p)
  <2>1. children' \in [Node -> Child]
    BY <1>1, <1>6, HungUpFacts
  <2>2. ASSUME NEW i \in Node
        PROVE  /\ children'[i].pid = children[i].pid
               /\ children'[i].addr = children[i].addr
               /\ Kept(children[i].write_fd, children'[i].write_fd)
               /\ children[i].write_fd.to = p => children'[i].write_fd.state # "open"
    BY <1>1, <1>6, HungUpFacts DEF Kept
  <2>3. QED
    BY <1>2, <1>3, <1>4, <2>1, <2>2
<1>7. QED
  BY <1>5, <1>6 DEF Moves, Goes

LEMMA NodeSteps ==
  ASSUME Inv, NEW p \in Pid, NodeStep(p) \/ Crash(p)
  PROVE  Inv'
<1>1. TypeOK /\ Moves(p)
  BY NodeMoves DEF Inv
<1>2. UNCHANGED <<server, pinged, verdict, hasty, commands>>
  BY DEF NodeStep, Exec, Bind, Report, Exit, Crash, NodeFrame
<1>3. /\ process' \in [Pid -> Process] /\ children' \in [Node -> Child]
      /\ updates' \subseteq Pid /\ Born' = Born
      /\ \A q \in Pid : process'[q].addr = process[q].addr
  BY <1>1, MoveFacts
<1>4. \A i \in Node : /\ children'[i].pid = children[i].pid
                      /\ children'[i].addr = children[i].addr
                      /\ Kept(children[i].write_fd, children'[i].write_fd)
  BY <1>1, MoveFacts
<1>5. TypeOK'
  <2>1. process[p].addr \in Addr
    BY ProcessParts DEF Inv, TypeOK
  <2>2. bound' \subseteq Addr
    BY <2>1 DEF Inv, TypeOK, NodeStep, Exec, Bind, Report, Exit, Crash
  <2>3. restoring' \in BOOLEAN /\ faults' \in 0 .. MaxFaults
    <3>1. restoring \in BOOLEAN /\ faults \in 0 .. MaxFaults
      BY DEF Inv, TypeOK
    <3>2. Fault => restoring' \in BOOLEAN /\ faults' \in 0 .. MaxFaults
      <4>1. ASSUME Fault PROVE faults' \in 0 .. MaxFaults
        BY <3>1, <4>1, Constants DEF Fault
      <4>2. ASSUME Fault PROVE restoring' \in BOOLEAN
        BY <4>2 DEF Fault
      <4>3. QED
        BY <4>1, <4>2
    <3>3. QED
      BY <3>1, <3>2 DEF NodeStep, Exec, Bind, Report, Exit, Crash
  <2>4. QED
    BY <1>2, <1>3, <2>2, <2>3 DEF Inv, TypeOK
<1>6. \A i \in Node : children'[i].write_fd # NoFd => children[i].write_fd # NoFd
  BY <1>4 DEF Kept, NoFd
<1>7. Fresh'
  <2>1. PidsCountUp'
    BY <1>3 DEF Inv, Fresh, PidsCountUp
  <2>2. updates' \subseteq Born
    <3>1. process[p].stage \in {"listening", "homeless"} => p \in Born
      BY DEF Born
    <3>2. QED
      BY <1>1, <3>1 DEF Inv, Fresh, Moves, Goes
  <2>3. \A i \in Node : /\ children'[i].pid \in Born
                        /\ children'[i].write_fd # NoFd => children'[i].write_fd.to \in Born
    BY <1>4, <1>6 DEF Inv, Fresh, Kept
  <2>4. QED
    BY <1>3, <2>1, <2>2, <2>3 DEF Fresh
<1>8. ConnectionFits'
  <2>1. ASSUME NEW i \in Node, children'[i].write_fd # NoFd
        PROVE  process'[children'[i].write_fd.to].addr = children'[i].addr
    <3>1. children[i].write_fd # NoFd /\ children[i].write_fd.to \in Pid
      BY <1>6, <2>1, BornFacts DEF Inv, Fresh
    <3>2. QED
      BY <1>3, <1>4, <3>1 DEF Inv, ConnectionFits, Kept
  <2>2. QED
    BY <2>1 DEF ConnectionFits
<1>9. Listens'
  <2> SUFFICES ASSUME NEW i \in Node, children'[i].write_fd.state = "open"
               PROVE  process'[children'[i].write_fd.to].stage \in {"listening", "serving"}
    BY DEF Listens
  <2> DEFINE f == children[i].write_fd
  <2>1. children'[i].write_fd = f /\ f.state = "open"
    BY <1>4 DEF Kept
  <2>2. process[f.to].stage \in {"listening", "serving"}
    BY <2>1 DEF Inv, Listens
  <2>3. f # NoFd
    BY <2>1, FdTypes
  <2>4. f.to \in Pid
    BY <2>3, BornFacts DEF Inv, Fresh
  <2>5. ~(Goes(p, "serving", "gone") /\ f.to = p)
    BY <1>1, <2>1, MoveFacts
  <2>6. process'[f.to].stage \in {"listening", "serving"}
    BY <1>1, <2>2, <2>4, <2>5 DEF Moves, Goes
  <2>7. QED
    BY <2>1, <2>6
<1>10. Asked'
  <2>1. \A i \in Node : LET f == children[i].write_fd
                            g == children'[i].write_fd
                        IN  /\ g.state = "open" => f.state = "open"
                            /\ g.late = f.late /\ g.answers = f.answers
                            /\ Pings(g) = Pings(f)
    BY <1>4 DEF Kept, Pings
  <2>2. QED
    BY <1>2, <2>1, SMTT(30) DEF Inv, Asked, Waited, Expected, Quiet
<1>11. PingTruthful'
  BY <1>2 DEF Inv, PingTruthful
<1>12. Tracked'
  <2>1. \A q \in Pid : process'[q].stage \notin {"unborn", "gone"} => process[q].stage \notin {"unborn", "gone"}
    BY <1>1 DEF Moves, Goes
  <2>2. QED
    BY <1>2, <1>4, <2>1 DEF Inv, Tracked, Steady
<1>13. Stopping'
  BY <1>1, <1>2 DEF Inv, Stopping, Moves, Goes
<1>14. QED
  BY <1>5, <1>7, <1>8, <1>9, <1>10, <1>11, <1>12, <1>13 DEF Inv
-----------------------------------------------------------------------------
(***************************************************************************)
(* Steps that change one connection and no process.                        *)
(***************************************************************************)
\* The types of what a command changes.
LEMMA CommandType ==
  ASSUME TypeOK, Command
  PROVE  /\ commands' \in 0 .. MaxCommands /\ updates' \subseteq Pid
         /\ bound' \subseteq Addr /\ faults' \in 0 .. MaxFaults
<1>1. commands \in 0 .. MaxCommands
  BY DEF TypeOK
<1>2. commands' \in 0 .. MaxCommands
  BY <1>1, Constants DEF Command
<1>3. QED
  BY <1>2 DEF Command, TypeOK

\* Pings among the requests, after one more was written.
LEMMA PingsAppended ==
  ASSUME NEW f \in Fd, NEW g \in Fd, NEW req \in {"PING", "RESET"},
         g.unread = Append(f.unread, req)
  PROVE  /\ req = "RESET" => Pings(g) = Pings(f)
         /\ req = "PING" /\ Pings(f) = {} => \A k, l \in Pings(g) : k = l
<1>1. f.unread \in Seq({"PING", "RESET"})
  BY FdParts
<1> DEFINE u == f.unread
           v == Append(u, req)
           n == Len(u)
<1>2. /\ DOMAIN u = 1 .. n /\ DOMAIN v = 1 .. n + 1 /\ n \in Nat
      /\ v[n + 1] = req /\ \A k \in 1 .. n : v[k] = u[k]
  BY <1>1
<1> HIDE DEF u, v, n
<1>3. Pings(f) = {k \in 1 .. n : u[k] = "PING"} /\ Pings(g) = {k \in 1 .. n + 1 : v[k] = "PING"}
  BY <1>2 DEF Pings, u, v
<1>4. req = "RESET" => Pings(g) = Pings(f)
  BY <1>2, <1>3
<1>5. req = "PING" /\ Pings(f) = {} => \A k, l \in Pings(g) : k = l
  <2>1. \A k \in 1 .. n + 1 : k \in 1 .. n \/ k = n + 1
    BY <1>2
  <2>2. QED
    BY <1>2, <1>3, <2>1
<1>6. QED
  BY <1>4, <1>5

\* Pings among the requests, after the first was read.
LEMMA PingsRead ==
  ASSUME NEW f \in Fd, NEW g \in Fd, f.unread # << >>, g.unread = Tail(f.unread)
  PROVE  /\ Pings(f) = {} => Pings(g) = {} /\ Head(f.unread) # "PING"
         /\ (\A k, l \in Pings(f) : k = l) => \A k, l \in Pings(g) : k = l
         /\ (\A k, l \in Pings(f) : k = l) /\ Head(f.unread) = "PING" => Pings(g) = {}
<1> DEFINE u == f.unread
           v == Tail(u)
           n == Len(u)
<1>1. u \in Seq({"PING", "RESET"}) /\ u # << >>
  BY FdParts
<1>2. /\ DOMAIN u = 1 .. n /\ DOMAIN v = 1 .. n - 1 /\ n \in Nat \ {0}
      /\ Head(u) = u[1] /\ \A k \in 1 .. n - 1 : v[k] = u[k + 1]
  BY <1>1
<1> HIDE DEF u, v, n
<1>3. Pings(f) = {k \in 1 .. n : u[k] = "PING"} /\ Pings(g) = {k \in 1 .. n - 1 : v[k] = "PING"}
  BY <1>2 DEF Pings, u, v
<1>4. \A k \in Pings(g) : k \in Nat /\ k # 0 /\ k + 1 \in Pings(f)
  BY <1>2, <1>3
<1>5. Head(u) = "PING" => 1 \in Pings(f)
  BY <1>2, <1>3
<1>6. Pings(f) = {} => Pings(g) = {} /\ Head(u) # "PING"
  BY <1>4, <1>5
<1>7. (\A k, l \in Pings(f) : k = l) => \A k, l \in Pings(g) : k = l
  <2>1. \A k, l \in Nat : k + 1 = l + 1 => k = l
    OBVIOUS
  <2>2. QED
    BY <1>4, <2>1
<1>8. (\A k, l \in Pings(f) : k = l) /\ Head(u) = "PING" => Pings(g) = {}
  <2>1. \A k \in Nat : k # 0 => k + 1 # 1
    OBVIOUS
  <2>2. QED
    BY <1>4, <1>5, <2>1
<1>9. QED
  BY <1>6, <1>7, <1>8 DEF u

\* What does not depend on the requests and answers on a connection.
SameTable ==
  \A i \in Node : LET f == children[i].write_fd
                      g == children'[i].write_fd
                  IN  /\ children'[i].pid = children[i].pid
                      /\ children'[i].addr = children[i].addr
                      /\ g # NoFd => f # NoFd
                      /\ g.to = f.to
                      /\ g.state = "open" <=> f.state = "open"

LEMMA FdStep ==
  ASSUME Inv, UNCHANGED <<process, updates, hasty>>, SameTable,
         server \in {"ready", "waiting"} \/ UNCHANGED server, server' # "stopped" \/ UNCHANGED server
  PROVE  Fresh' /\ ConnectionFits' /\ Listens' /\ Tracked' /\ Stopping'
<1>1. Born' = Born
  BY DEF Born
<1>2. Fresh'
  BY <1>1 DEF Inv, Fresh, PidsCountUp, SameTable
<1>3. ConnectionFits'
  BY DEF Inv, ConnectionFits, SameTable
<1>4. Listens'
  BY DEF Inv, Listens, SameTable
<1>5. Tracked'
  <2>1. Steady' => Steady
    BY DEF Steady
  <2>2. QED
    BY <2>1 DEF Inv, Tracked, SameTable
<1>6. Stopping'
  BY DEF Inv, Stopping
<1>7. QED
  BY <1>2, <1>3, <1>4, <1>5, <1>6

\* A node reads a request.
LEMMA NodeReadsStep ==
  ASSUME Inv, NEW i \in Node, NodeReads(i)
  PROVE  Inv' /\ SameTable
<1> DEFINE f == children[i].write_fd
           a == IF Head(f.unread) = "PING" THEN f.answers + 1 ELSE f.answers
           e == [f EXCEPT !.unread = Tail(@), !.answers = a]
<1>1. children \in [Node -> Child] /\ f \in Fd
  BY ChildParts DEF Inv, TypeOK
<1>2. f.state = "open" /\ f.unread # << >>
  BY DEF NodeReads
<1>3. /\ UNCHANGED <<process, updates, bound, faults, restoring>>
      /\ UNCHANGED <<server, pinged, verdict, hasty, commands>>
  BY DEF NodeReads, NodeFrame
<1>4. a \in Nat /\ Tail(f.unread) \in Seq({"PING", "RESET"})
  BY <1>1, <1>2, FdParts
<1>5. children' = [children EXCEPT ![i].write_fd = e]
  <2>1. children' = [children EXCEPT ![i].write_fd.unread = Tail(@), ![i].write_fd.answers = a]
    BY DEF NodeReads
  <2> HIDE DEF a
  <2>2. QED
    BY <1>1, <2>1
<1> HIDE DEF a
<1>6. PICK g \in Fd : /\ g = e /\ g.state = f.state /\ g.to = f.to /\ g.late = f.late
                      /\ g.unread = Tail(f.unread) /\ g.answers = a
  <2>1. /\ e \in Fd /\ e.state = f.state /\ e.to = f.to /\ e.late = f.late
        /\ e.unread = Tail(f.unread) /\ e.answers = a
    BY <1>1, <1>4 DEF Fd
  <2>2. QED
    BY <2>1
<1> HIDE DEF e
<1>7. /\ children' \in [Node -> Child]
      /\ \A j \in Node : /\ children'[j].pid = children[j].pid /\ children'[j].addr = children[j].addr
                         /\ children'[j].write_fd = IF j = i THEN g ELSE children[j].write_fd
  BY <1>1, <1>5, <1>6, TableFd
<1>8. f # NoFd
  BY <1>2, FdTypes
<1>9. SameTable
  BY <1>6, <1>7, <1>8 DEF SameTable
<1>10. Fresh' /\ ConnectionFits' /\ Listens' /\ Tracked' /\ Stopping'
  BY <1>3, <1>9, FdStep
<1>11. TypeOK'
  BY <1>3, <1>7 DEF Inv, TypeOK
<1>12. PingTruthful'
  BY <1>3 DEF Inv, PingTruthful
<1>13. Asked'
  <2>1. \A j \in Node : Waited(j)' <=> Waited(j)
    BY <1>3 DEF Waited
  <2>2. ASSUME server \in {"ready", "waiting"}, Waited(i)
        PROVE  (g.state = "open" => pinged.ran) /\ (g.late \/ Expected(g))
    <3>1. pinged.ran /\ (f.late \/ Expected(f))
      BY <1>2, <2>2 DEF Inv, Asked
    <3>2. ASSUME Expected(f) PROVE Expected(g)
      <4>1. \A k, l \in Pings(f) : k = l
        BY <1>2, <3>2 DEF Expected
      <4>2. \A k, l \in Pings(g) : k = l
        BY <1>1, <1>2, <1>6, <4>1, PingsRead
      <4>3. Head(f.unread) = "PING" => Pings(g) = {}
        BY <1>1, <1>2, <1>6, <4>1, PingsRead
      <4>4. Head(f.unread) # "PING" /\ g.answers > 0 => Pings(g) = {}
        BY <1>1, <1>2, <1>6, <3>2, PingsRead DEF Expected, a
      <4>5. QED
        BY <3>1, <4>2, <4>3, <4>4 DEF Expected
    <3>3. QED
      BY <1>6, <3>1, <3>2
  <2>3. ASSUME server \in {"ready", "waiting"}, ~Waited(i)
        PROVE  g.late \/ Quiet(g)
    <3>1. f.late \/ Quiet(f)
      BY <2>3 DEF Inv, Asked
    <3>2. ASSUME Quiet(f) PROVE Quiet(g)
      BY <1>1, <1>2, <1>6, <3>2, PingsRead DEF Quiet, a
    <3>3. QED
      BY <1>6, <3>1, <3>2
  <2>4. ASSUME server \in {"ready", "waiting"}, NEW j \in Node
        PROVE  LET h == children'[j].write_fd
               IN  /\ Waited(j) /\ h.state = "open" => pinged.ran
                   /\ Waited(j) => h.late \/ Expected(h)
                   /\ ~Waited(j) => h.late \/ Quiet(h)
    <3>1. CASE j = i
      BY <1>7, <2>2, <2>3, <2>4, <3>1
    <3>2. CASE j # i
      BY <1>7, <2>4, <3>2 DEF Inv, Asked
    <3>3. QED
      BY <3>1, <3>2
  <2>5. server = "waiting" => pinged.node \in Node
    BY DEF Inv, Asked
  <2>6. QED
    BY <1>3, <2>1, <2>4, <2>5 DEF Asked, Expected
<1>14. QED
  BY <1>9, <1>11, <1>12, <1>13, <1>10 DEF Inv

\* A client pings a node.
LEMMA PingStep ==
  ASSUME Inv, NEW x, HandlePing(x)
  PROVE  Inv' /\ SameTable
<1>1. PICK i : i = First(WithAddr(x))
  OBVIOUS
<1>2. i \in Node
  BY <1>1, FirstFacts DEF HandlePing, WithAddr
<1> DEFINE f == children[i].write_fd
<1>3. children \in [Node -> Child] /\ f \in Fd /\ pinged \in Ping
  BY <1>2, ChildParts DEF Inv, TypeOK
<1>4. PICK g \in Fd : g = IF f.state = "none" THEN f ELSE io_write_all(f, "PING")
  BY <1>3, WriteFacts
<1>5. /\ g.to = f.to /\ g.answers = f.answers /\ g.late = f.late
      /\ f.state = "open" => g.state = "open" /\ g.unread = Append(f.unread, "PING")
      /\ f.state # "open" => g.state # "open"
      /\ f.state = "none" => g = f
  BY <1>3, <1>4, WriteFacts
<1>6. /\ children' \in [Node -> Child]
      /\ \A j \in Node : /\ children'[j].pid = children[j].pid /\ children'[j].addr = children[j].addr
                         /\ children'[j].write_fd = IF j = i THEN g ELSE children[j].write_fd
  <2>1. children' = IF f.state = "none" THEN children
                    ELSE [children EXCEPT ![i].write_fd = io_write_all(@, "PING")]
    BY <1>1 DEF HandlePing
  <2>2. CASE f.state = "none"
    BY <1>3, <1>5, <2>1, <2>2
  <2>3. CASE f.state # "none"
    <3>1. children' = [children EXCEPT ![i].write_fd = g]
      BY <1>4, <2>1, <2>3
    <3>2. QED
      BY <1>2, <1>3, <3>1, TableFd
  <2>4. QED
    BY <2>2, <2>3
<1>7. /\ server = "ready" /\ Command
      /\ UNCHANGED <<process, updates, bound, faults, hasty, restoring>>
  BY DEF HandlePing, Command
<1>8. \/ /\ f.state \in {"none", "err"}
         /\ verdict' = [answer |-> "ERR", ran |-> FALSE, late |-> f.late]
         /\ UNCHANGED <<server, pinged>>
      \/ /\ f.state \in {"open", "fin"}
         /\ server' = "waiting"
         /\ pinged' = [node |-> i, ran |-> process[f.to].stage \in {"listening", "serving"}]
         /\ verdict' = NoVerdict
      \/ /\ f.state = "broken"
         /\ server' = "down"
         /\ verdict' = NoVerdict
         /\ UNCHANGED pinged
  BY <1>1 DEF HandlePing
<1>9. SameTable
  <2>1. g # NoFd => f # NoFd
    BY <1>5, FdTypes
  <2>2. QED
    BY <1>5, <1>6, <2>1 DEF SameTable
<1>10. Fresh' /\ ConnectionFits' /\ Listens' /\ Tracked' /\ Stopping'
  <2>1. server' # "stopped"
    BY <1>7, <1>8
  <2>2. QED
    BY <1>7, <1>9, <2>1, FdStep
<1>11. TypeOK'
  <2>1. pinged' \in Ping
    <3> DEFINE w == process[f.to].stage \in {"listening", "serving"}
    <3>1. w \in BOOLEAN
      OBVIOUS
    <3> HIDE DEF w
    <3>2. PICK v \in BOOLEAN : v = w
      BY <3>1
    <3>3. [node |-> i, ran |-> v] \in Ping
      BY <1>2 DEF Ping
    <3>4. QED
      BY <1>3, <1>8, <3>2, <3>3 DEF w
  <2>2. verdict' \in Verdict
    <3>1. PICK l \in BOOLEAN : l = f.late
      BY <1>3, FdParts
    <3>2. [answer |-> "ERR", ran |-> FALSE, late |-> l] \in Verdict /\ NoVerdict \in Verdict
      BY DEF Verdict, NoVerdict
    <3>3. QED
      BY <1>8, <3>1, <3>2
  <2>3. server' \in {"ready", "waiting", "stopped", "down"}
    BY <1>7, <1>8
  <2>4. QED
    BY <1>6, <1>7, <2>1, <2>2, <2>3, CommandType DEF Inv, TypeOK
<1>12. PingTruthful'
  BY <1>8 DEF PingTruthful, NoVerdict
<1>13. Asked'
  <2>1. \A j \in Node : children[j].write_fd.late \/ Quiet(children[j].write_fd)
    BY <1>7 DEF Inv, Asked, Waited
  <2>2. CASE f.state \in {"open", "fin"}
    <3>1. server' = "waiting" /\ pinged'.node = i
      BY <1>8, <2>2
    <3>2. f.state = "open" => pinged'.ran
      <4>1. f.state = "open" => process[f.to].stage \in {"listening", "serving"}
        BY <1>2 DEF Inv, Listens
      <4>2. pinged' = [node |-> i, ran |-> process[f.to].stage \in {"listening", "serving"}]
        BY <1>8, <2>2
      <4>3. pinged'.ran = (process[f.to].stage \in {"listening", "serving"})
        BY <4>2
      <4>4. QED
        BY <4>1, <4>3
    <3>3. f.late \/ Quiet(f)
      BY <1>2, <2>1
    <3>4. ASSUME Quiet(f) PROVE Expected(g)'
      <4>1. g.answers = 0
        BY <1>5, <3>4 DEF Quiet
      <4>2. g.state = "open" => \A k, l \in Pings(g) : k = l
        BY <1>3, <1>5, <3>4, PingsAppended DEF Quiet
      <4>3. QED
        BY <4>1, <4>2 DEF Expected, Pings
    <3>5. \A j \in Node : Waited(j)' <=> j = i
      BY <3>1 DEF Waited
    <3>6. \A j \in Node : j # i => children'[j].write_fd = children[j].write_fd
      BY <1>6
    <3>7. /\ children'[i].write_fd = g
          /\ g.state = "open" => pinged'.ran
          /\ g.late \/ Expected(g)'
      BY <1>2, <1>5, <1>6, <3>2, <3>3, <3>4
    <3>8. \A j \in Node : j # i => children'[j].write_fd.late \/ Quiet(children'[j].write_fd)
      BY <2>1, <3>6
    <3>9. QED
      BY <1>2, <3>1, <3>5, <3>7, <3>8 DEF Asked, Expected
  <2>3. CASE f.state \notin {"open", "fin"}
    <3>1. server' \in {"ready", "down"} /\ \A j \in Node : ~Waited(j)'
      BY <1>7, <1>8, <2>3 DEF Waited
    <3>2. g.late \/ Quiet(g)
      BY <1>2, <1>5, <2>1, <2>3 DEF Quiet
    <3>3. QED
      BY <1>6, <2>1, <3>1, <3>2 DEF Asked
  <2>4. QED
    BY <2>2, <2>3
<1>14. QED
  BY <1>10, <1>11, <1>12, <1>13, <1>9 DEF Inv

\* The wait for the answer ends.
LEMMA PingReturnsStep ==
  ASSUME Inv, PingReturns
  PROVE  Inv' /\ SameTable
<1>1. PICK i : i = pinged.node
  OBVIOUS
<1>2. server = "waiting" /\ i \in Node /\ Waited(i)
  BY <1>1 DEF PingReturns, Inv, Asked, Waited
<1> DEFINE f == children[i].write_fd
           b == f.late \/ (f.answers = 0 /\ f.state = "open")
           e == [f EXCEPT !.answers = 0, !.late = b]
<1>3. children \in [Node -> Child] /\ f \in Fd /\ pinged \in Ping
  BY <1>2, ChildParts DEF Inv, TypeOK
<1>4. b \in BOOLEAN
  BY <1>3, FdParts
<1>5. e \in Fd /\ e.state = f.state /\ e.to = f.to /\ e.late = b /\ e.unread = f.unread /\ e.answers = 0
  <2> HIDE DEF b
  <2>1. QED
    BY <1>3, <1>4 DEF Fd
<1>6. PICK g \in Fd : /\ g = e /\ g.state = f.state /\ g.to = f.to /\ g.late = b
                      /\ g.unread = f.unread /\ g.answers = 0
  BY <1>5
<1>7. children' = [children EXCEPT ![i].write_fd = g]
  BY <1>1, <1>6 DEF PingReturns
<1> HIDE DEF e
<1>8. /\ children' \in [Node -> Child]
      /\ \A j \in Node : /\ children'[j].pid = children[j].pid /\ children'[j].addr = children[j].addr
                         /\ children'[j].write_fd = IF j = i THEN g ELSE children[j].write_fd
  BY <1>2, <1>3, <1>7, TableFd
<1>9. /\ server' = "ready" /\ pinged' = NoPing
      /\ UNCHANGED <<process, updates, bound, hasty, restoring, commands, faults>>
      /\ \E r \in recv_result(f) : verdict' = [answer |-> r, ran |-> pinged.ran, late |-> f.late]
  BY <1>1 DEF PingReturns
<1>10. SameTable
  <2>1. f = NoFd => g = NoFd
    <3>1. g = [state |-> g.state, to |-> g.to, unread |-> g.unread,
               answers |-> g.answers, late |-> g.late]
      BY DEF Fd
    <3>2. ASSUME f = NoFd
          PROVE  g.state = "none" /\ g.to = 0 /\ g.unread = << >> /\ g.answers = 0 /\ g.late = FALSE
      <4>1. NoFd.to = 0
        BY DEF NoFd
      <4>2. b = FALSE
        BY <3>2, FdTypes
      <4> HIDE DEF b
      <4>3. QED
        BY <1>6, <3>2, <4>1, <4>2, FdTypes
    <3>3. QED
      BY <3>1, <3>2, Zenon DEF NoFd
  <2>2. QED
    BY <1>6, <1>8, <2>1 DEF SameTable
<1>11. Fresh' /\ ConnectionFits' /\ Listens' /\ Tracked' /\ Stopping'
  BY <1>2, <1>9, <1>10, FdStep
<1>12. TypeOK'
  <2>1. verdict' \in Verdict
    <3>1. f.late \in BOOLEAN /\ pinged.ran \in BOOLEAN
      BY <1>3, FdParts DEF Ping
    <3>2. recv_result(f) \subseteq {"OK", "ERR", "junk"}
      BY DEF recv_result
    <3>3. QED
      BY <1>9, <3>1, <3>2 DEF Verdict
  <2>2. pinged' \in Ping
    BY <1>9 DEF NoPing, Ping
  <2>3. QED
    BY <1>8, <1>9, <2>1, <2>2 DEF Inv, TypeOK
<1>13. f.late \/ Expected(f)
  BY <1>2 DEF Inv, Asked
<1>14. PingTruthful'
  <2>1. PICK r \in recv_result(f) : verdict' = [answer |-> r, ran |-> pinged.ran, late |-> f.late]
    BY <1>9
  <2>2. r = "OK" => f.answers > 0
    BY <2>1 DEF recv_result
  <2>3. r = "OK" => pinged.ran \/ f.late
    BY <1>13, <2>2 DEF Expected
  <2>4. verdict'.answer = r /\ verdict'.ran = pinged.ran /\ verdict'.late = f.late
    BY <2>1
  <2>5. QED
    BY <2>3, <2>4 DEF PingTruthful
<1>15. Asked'
  <2>1. \A j \in Node : ~Waited(j)'
    BY <1>9 DEF Waited
  <2>2. \A j \in Node : j # i => children[j].write_fd.late \/ Quiet(children[j].write_fd)
    BY <1>1, <1>2 DEF Inv, Asked, Waited
  <2>3. g.late \/ Quiet(g)
    <3>1. ASSUME ~b, f.state = "open" PROVE Pings(g) = {}
      <4>1. f.answers > 0
        BY <1>3, <3>1, FdParts
      <4>2. Pings(f) = {}
        BY <1>13, <3>1, <4>1 DEF Expected
      <4>3. QED
        BY <1>6, <4>2 DEF Pings
    <3>2. QED
      BY <1>4, <1>6, <3>1 DEF Quiet
  <2>4. QED
    BY <1>8, <1>9, <2>1, <2>2, <2>3 DEF Asked
<1>16. QED
  BY <1>11, <1>12, <1>14, <1>15, <1>10 DEF Inv
-----------------------------------------------------------------------------
(***************************************************************************)
(* The other steps of the server.                                          *)
(***************************************************************************)
\* The connection the server has after an UPDATE of process p.
Connected(p, fd) ==
  \/ fd = NoFd /\ Listener(process[p].addr) = {}
  \/ /\ fd.state = "open" /\ fd.to \in Listener(process[p].addr)
     /\ fd.answers = 0 /\ fd.late = FALSE /\ fd.unread = << >>

\* What an UPDATE does to the table.
LEMMA UpdateFacts ==
  ASSUME children \in [Node -> Child], process \in [Pid -> Process], NEW p \in Pid,
         HandleUpdateChild(p)
  PROVE  /\ children' \in [Node -> Child]
         /\ \/ children' = children /\ \A i \in Node : children[i].pid # p
            \/ \E i \in Node, fd \in Fd :
                 /\ children[i].pid = p /\ Connected(p, fd)
                 /\ \A j \in Node :
                      /\ children'[j].pid = children[j].pid
                      /\ children'[j].addr = IF j = i THEN process[p].addr ELSE children[j].addr
                      /\ children'[j].write_fd = IF j = i THEN fd ELSE children[j].write_fd
<1> DEFINE L == Listener(process[p].addr)
           e == IF L = {} THEN NoFd ELSE [NoFd EXCEPT !.state = "open", !.to = CHOOSE q \in L : TRUE]
<1>1. PICK S \in SUBSET Node : S = {i \in Node : children[i].pid = p}
  OBVIOUS
<1>2. children' = IF S = {} THEN children ELSE update_child(First(S), p, e)
  BY <1>1 DEF HandleUpdateChild
<1>3. PICK fd \in Fd : fd = e /\ Connected(p, fd)
  <2>1. CASE L = {}
    BY <2>1, FdTypes DEF Connected
  <2>2. CASE L # {}
    <3>1. PICK q \in L : q = CHOOSE x \in L : TRUE
      BY <2>2
    <3>2. q \in Pid
      BY DEF Listener
    <3> DEFINE d == [NoFd EXCEPT !.state = "open", !.to = q]
    <3>3. d \in Fd /\ d.state = "open" /\ d.to = q /\ d.answers = 0 /\ d.late = FALSE /\ d.unread = << >>
      BY <3>2, FdTypes
    <3>4. e = d
      BY <2>2, <3>1
    <3> HIDE DEF d, e
    <3>5. QED
      BY <3>3, <3>4 DEF Connected
  <2>3. QED
    BY <2>1, <2>2
<1> HIDE DEF e
<1>4. CASE S = {}
  BY <1>1, <1>2, <1>4
<1>5. CASE S # {}
  <2>1. PICK i \in S : i = First(S)
    BY <1>5, FirstFacts
  <2>2. i \in Node /\ children[i].pid = p /\ children[i] \in Child /\ process[p].addr \in Addr
    BY <1>1, <2>1, ProcessParts
  <2>3. PICK d \in Child : /\ d = [children[i] EXCEPT !.addr = process[p].addr, !.write_fd = fd]
                           /\ d.pid = p /\ d.addr = process[p].addr /\ d.write_fd = fd
    <3> DEFINE d == [children[i] EXCEPT !.addr = process[p].addr, !.write_fd = fd]
    <3>1. d \in Child /\ d.pid = p /\ d.addr = process[p].addr /\ d.write_fd = fd
      BY <2>2 DEF Child
    <3>2. QED
      BY <3>1
  <2>4. children' = [children EXCEPT ![i] = d]
    BY <1>2, <1>3, <1>5, <2>1, <2>3 DEF update_child
  <2>5. children' \in [Node -> Child]
    BY <2>2, <2>3, <2>4
  <2>6. \A j \in Node : children'[j] = IF j = i THEN d ELSE children[j]
    BY <2>2, <2>4
  <2>7. d.pid = p /\ d.addr = process[p].addr /\ d.write_fd = fd
    BY <2>3
  <2>8. \A j \in Node :
          /\ children'[j].pid = children[j].pid
          /\ children'[j].addr = IF j = i THEN process[p].addr ELSE children[j].addr
          /\ children'[j].write_fd = IF j = i THEN fd ELSE children[j].write_fd
    BY <2>2, <2>6, <2>7
  <2>9. Connected(p, fd)
    BY <1>3
  <2>10. QED
    BY <2>2, <2>5, <2>8, <2>9
<1>6. QED
  BY <1>4, <1>5

\* The server reads an UPDATE.
LEMMA UpdateStep ==
  ASSUME Inv, NEW p \in Pid, HandleUpdateChild(p)
  PROVE  Inv'
<1>1. /\ server = "ready" /\ updates' = updates \ {p}
      /\ UNCHANGED <<process, server, pinged, bound, verdict, hasty, restoring, commands, faults>>
  BY DEF HandleUpdateChild
<1>2. children \in [Node -> Child] /\ process \in [Pid -> Process]
  BY DEF Inv, TypeOK
<1>3. children' \in [Node -> Child]
  BY <1>2, UpdateFacts
<1>4. Born' = Born
  BY <1>1 DEF Born
<1>5. \A j \in Node :
        LET f == children[j].write_fd
            g == children'[j].write_fd
        IN  /\ children'[j].pid = children[j].pid
            /\ \/ g = f /\ children'[j].addr = children[j].addr
               \/ /\ Connected(p, g)
                  /\ children'[j].addr = process[p].addr
  <2>1. CASE children' = children
    BY <2>1
  <2>2. CASE children' # children
    BY <1>2, <2>2, UpdateFacts
  <2>3. QED
    BY <2>1, <2>2
<1>6. ASSUME NEW fd, Connected(p, fd), fd # NoFd
      PROVE  /\ fd.to \in Born /\ process[fd.to].addr = process[p].addr
             /\ process[fd.to].stage \in {"listening", "serving"}
  BY <1>6 DEF Connected, Listener, Born
<1>7. TypeOK'
  BY <1>1, <1>3 DEF Inv, TypeOK
<1>8. Fresh'
  BY <1>1, <1>4, <1>5, <1>6 DEF Inv, Fresh, PidsCountUp
<1>9. ConnectionFits'
  BY <1>1, <1>5, <1>6 DEF Inv, ConnectionFits
<1>10. Listens'
  <2>1. NoFd.state # "open"
    BY FdTypes
  <2>2. QED
    BY <1>1, <1>5, <1>6, <2>1 DEF Inv, Listens
<1>11. Asked'
  <2>1. \A j \in Node : ~Waited(j) /\ ~Waited(j)'
    BY <1>1 DEF Waited
  <2>2. \A j \in Node : children[j].write_fd.late \/ Quiet(children[j].write_fd)
    BY <1>1, <2>1 DEF Inv, Asked
  <2>3. ASSUME NEW fd, Connected(p, fd) PROVE Quiet(fd)
    <3>1. fd.unread = << >> /\ fd.answers = 0
      BY <2>3, FdTypes DEF Connected
    <3>2. Pings(fd) = {}
      BY <3>1 DEF Pings
    <3>3. QED
      BY <3>1, <3>2 DEF Quiet
  <2>4. \A j \in Node : children'[j].write_fd.late \/ Quiet(children'[j].write_fd)
    BY <1>5, <2>2, <2>3
  <2>5. QED
    BY <1>1, <2>1, <2>4 DEF Asked
<1>12. PingTruthful' /\ Stopping'
  BY <1>1 DEF Inv, PingTruthful, Stopping
<1>13. Tracked'
  BY <1>1, <1>5 DEF Inv, Tracked, Steady
<1>14. QED
  BY <1>7, <1>8, <1>9, <1>10, <1>11, <1>12, <1>13 DEF Inv

\* The types of the marks that a command leaves.
LEMMA NoteType ==
  ASSUME NEW cmd, NEW S, Note(cmd, S)
  PROVE  hasty' \in BOOLEAN /\ restoring' \in BOOLEAN /\ (hasty => hasty')
BY DEF Note

\* A client has a node killed.
LEMMA KillStep ==
  ASSUME Inv, NEW x, HandleKill(x)
  PROVE  Inv'
<1>1. PICK i : i = First(WithAddr(x))
  OBVIOUS
<1>2. i \in Node
  BY <1>1, FirstFacts DEF HandleKill, WithAddr
<1>3. children \in [Node -> Child] /\ process \in [Pid -> Process]
  BY DEF Inv, TypeOK
<1>4. /\ children' \in [Node -> Child]
      /\ \A j \in Node : /\ children'[j].pid = children[j].pid /\ children'[j].addr = children[j].addr
                         /\ children'[j].write_fd = IF j = i THEN NoFd ELSE children[j].write_fd
  <2>1. children' = [children EXCEPT ![i].write_fd = NoFd]
    BY <1>1 DEF HandleKill
  <2>2. NoFd \in Fd
    BY FdTypes
  <2>3. QED
    BY <1>2, <1>3, <2>1, <2>2, TableFd
<1>5. /\ process' \in [Pid -> Process]
      /\ \A q \in Pid : /\ process'[q].addr = process[q].addr
                        /\ process'[q].stage \in {process[q].stage, "gone"}
                        /\ process[q].stage # "loading" => process'[q].stage = process[q].stage
  <2>1. children[i].pid \in Pid /\ process' = kill_pid(children[i].pid)
    BY <1>1, <1>2, <1>3, ChildParts DEF HandleKill
  <2>2. PICK T \in SUBSET Pid :
          process' = [q \in Pid |-> IF q \in T THEN Signalled(process[q]) ELSE process[q]]
    BY <1>3, <2>1, KillSignals
  <2>3. QED
    BY <1>3, <2>2, SignalEffect
<1>6. /\ server = "ready" /\ Command /\ verdict' = NoVerdict
      /\ UNCHANGED <<server, pinged, updates, bound, faults>>
  BY DEF HandleKill, Command
<1>7. hasty' \in BOOLEAN /\ restoring' \in BOOLEAN /\ (hasty => hasty')
  BY NoteType DEF HandleKill
<1>8. Born' = Born
  BY <1>5 DEF Born
<1>9. TypeOK'
  <2>1. NoVerdict \in Verdict
    BY DEF NoVerdict, Verdict
  <2>2. QED
    BY <1>4, <1>5, <1>6, <1>7, <2>1, CommandType DEF Inv, TypeOK
<1>10. Fresh'
  BY <1>4, <1>6, <1>8 DEF Inv, Fresh, PidsCountUp
<1>11. \A j \in Node : children[j].write_fd # NoFd => children[j].write_fd.to \in Pid
  BY BornFacts DEF Inv, Fresh
<1>12. ConnectionFits'
  BY <1>4, <1>5, <1>11 DEF Inv, ConnectionFits
<1>13. Listens'
  <2>1. NoFd.state # "open"
    BY FdTypes
  <2>2. QED
    BY <1>4, <1>5, <1>11, <2>1 DEF Inv, Listens
<1>14. Asked'
  <2>1. \A j \in Node : ~Waited(j) /\ ~Waited(j)'
    BY <1>6 DEF Waited
  <2>2. Quiet(NoFd)
    BY FdTypes DEF Quiet
  <2>3. \A j \in Node : children[j].write_fd.late \/ Quiet(children[j].write_fd)
    BY <1>6, <2>1 DEF Inv, Asked
  <2>4. \A j \in Node : children'[j].write_fd.late \/ Quiet(children'[j].write_fd)
    BY <1>4, <2>2, <2>3
  <2>5. QED
    BY <1>6, <2>1, <2>4 DEF Asked
<1>15. PingTruthful'
  BY <1>6 DEF PingTruthful, NoVerdict
<1>16. Tracked'
  <2>1. Steady' => Steady
    BY <1>6, <1>7 DEF Steady
  <2>2. \A q \in Pid : process'[q].stage \notin {"unborn", "gone"} => process[q].stage \notin {"unborn", "gone"}
    BY <1>5
  <2>3. QED
    BY <1>4, <2>1, <2>2 DEF Inv, Tracked
<1>17. Stopping'
  BY <1>6 DEF Stopping
<1>18. QED
  BY <1>9, <1>10, <1>12, <1>13, <1>14, <1>15, <1>16, <1>17 DEF Inv
\* The table with new pids for the children in S.
LEMMA WithPidsFacts ==
  ASSUME children \in [Node -> Child], PidsCountUp, NEW S \in SUBSET Node,
         Cardinality(Born) + Cardinality(S) <= MaxProcesses
  PROVE  \A i \in Node :
           LET d == WithPids(S)[i]
           IN  /\ d \in Child /\ d.addr = children[i].addr /\ d.write_fd = children[i].write_fd
               /\ d.pid = IF i \in S THEN NewPid(S, i) ELSE children[i].pid
<1> SUFFICES ASSUME NEW i \in Node
             PROVE  LET d == WithPids(S)[i]
                    IN  /\ d \in Child /\ d.addr = children[i].addr
                        /\ d.write_fd = children[i].write_fd
                        /\ d.pid = IF i \in S THEN NewPid(S, i) ELSE children[i].pid
  OBVIOUS
<1>1. children[i] \in Child
  OBVIOUS
<1>2. CASE i \notin S
  BY <1>1, <1>2 DEF WithPids
<1>3. CASE i \in S
  <2>1. PICK n \in Pid : n = NewPid(S, i)
    BY <1>3, NewPidFacts
  <2>2. LET d == [children[i] EXCEPT !.pid = n]
        IN  d \in Child /\ d.addr = children[i].addr /\ d.write_fd = children[i].write_fd /\ d.pid = n
    BY <1>1 DEF Child
  <2>3. WithPids(S)[i] = [children[i] EXCEPT !.pid = n]
    BY <1>3, <2>1 DEF WithPids
  <2>4. QED
    BY <1>3, <2>1, <2>2, <2>3
<1>4. QED
  BY <1>2, <1>3

\* The server starts processes for the children in S, and may write RESET to
\* others.
Restarts(S) ==
  /\ S \in SUBSET Node /\ \A i \in S : children[i].write_fd = NoFd
  /\ Cardinality(Born) + Cardinality(S) <= MaxProcesses
  /\ process' = revivie_nodes(S)
  /\ children' \in [Node -> Child]
  /\ \A i \in Node :
       LET f == children[i].write_fd
           g == children'[i].write_fd
       IN  /\ children'[i].pid = IF i \in S THEN NewPid(S, i) ELSE children[i].pid
           /\ children'[i].addr = children[i].addr
           /\ g = f \/ (f # NoFd /\ g = io_write_all(f, "RESET"))
  /\ server = "ready" /\ server' \in {"ready", "down"}
  /\ UNCHANGED <<updates, pinged>>
  /\ hasty => hasty'
  /\ ~hasty' => \A i \in S : ~UnderWay(i)

\* What that leaves of processes and connections.
LEMMA RestartsFacts ==
  ASSUME Inv, NEW S, Restarts(S)
  PROVE  /\ process' \in [Pid -> Process]
         /\ \A q \in Born : process'[q] = process[q]
         /\ \A q \in Pid : process'[q] = process[q] \/ \E i \in S : q = NewPid(S, i)
         /\ \A i \in S : /\ process'[NewPid(S, i)].addr = run_node(children[i].addr)
                         /\ process'[NewPid(S, i)].stage = "forked"
         /\ Born' = Born \cup {NewPid(S, i) : i \in S}
         /\ PidsCountUp'
         /\ \A i \in Node :
              LET f == children[i].write_fd
                  g == children'[i].write_fd
              IN  /\ g.to = f.to /\ (g.state = "open" <=> f.state = "open")
                  /\ g # NoFd => f # NoFd
                  /\ g.answers = f.answers /\ g.late = f.late
                  /\ g.state = "open" => Pings(g) = Pings(f)
<1>1. children \in [Node -> Child] /\ process \in [Pid -> Process] /\ PidsCountUp
  BY DEF Inv, TypeOK, Fresh
<1>2. /\ S \in SUBSET Node /\ \A i \in S : children[i].write_fd = NoFd
      /\ Cardinality(Born) + Cardinality(S) <= MaxProcesses
      /\ process' = revivie_nodes(S)
  BY DEF Restarts
<1>3. /\ process' \in [Pid -> Process]
      /\ \A q \in Born : process'[q] = process[q]
      /\ \A q \in Pid : process'[q] = process[q] \/ \E i \in S : q = NewPid(S, i)
      /\ \A i \in S : /\ process'[NewPid(S, i)].addr = run_node(children[i].addr)
                      /\ process'[NewPid(S, i)].stage = "forked"
      /\ Born' = Born \cup {NewPid(S, i) : i \in S}
      /\ PidsCountUp'
  BY <1>1, <1>2, Births
<1>4. \A i \in Node :
        LET f == children[i].write_fd
            g == children'[i].write_fd
        IN  /\ g.to = f.to /\ (g.state = "open" <=> f.state = "open")
            /\ g # NoFd => f # NoFd
            /\ g.answers = f.answers /\ g.late = f.late
            /\ g.state = "open" => Pings(g) = Pings(f)
  <2> SUFFICES ASSUME NEW i \in Node
               PROVE  LET f == children[i].write_fd
                          g == children'[i].write_fd
                      IN  /\ g.to = f.to /\ (g.state = "open" <=> f.state = "open")
                          /\ g # NoFd => f # NoFd
                          /\ g.answers = f.answers /\ g.late = f.late
                          /\ g.state = "open" => Pings(g) = Pings(f)
    OBVIOUS
  <2> DEFINE f == children[i].write_fd
             g == children'[i].write_fd
  <2>1. f \in Fd
    BY <1>1, ChildParts
  <2>2. CASE g = f
    BY <2>2
  <2>3. CASE f # NoFd /\ g = io_write_all(f, "RESET")
    <3>1. /\ g \in Fd /\ g.to = f.to /\ g.answers = f.answers /\ g.late = f.late
          /\ f.state = "open" => g.state = "open" /\ g.unread = Append(f.unread, "RESET")
          /\ f.state # "open" => g.state = "broken"
      BY <2>1, <2>3, WriteFacts, SMTT(30)
    <3> HIDE DEF f, g
    <3>2. f.state = "open" => Pings(g) = Pings(f)
      BY <2>1, <3>1, PingsAppended
    <3>3. QED
      BY <2>3, <3>1, <3>2 DEF f, g
  <2>4. QED
    BY <2>2, <2>3 DEF Restarts
<1>5. QED
  BY <1>3, <1>4

\* Restarts keep the invariant.
LEMMA RestartsStep ==
  ASSUME Inv, NEW S, Restarts(S)
  PROVE  /\ process' \in [Pid -> Process]
         /\ Fresh' /\ ConnectionFits' /\ Listens' /\ Asked' /\ Tracked' /\ Stopping'
<1>1. /\ S \in SUBSET Node /\ \A i \in S : children[i].write_fd = NoFd
  BY DEF Restarts
<1>2. /\ process' \in [Pid -> Process]
      /\ \A q \in Born : process'[q] = process[q]
      /\ \A q \in Pid : process'[q] = process[q] \/ \E i \in S : q = NewPid(S, i)
      /\ Born' = Born \cup {NewPid(S, i) : i \in S}
      /\ PidsCountUp'
  BY RestartsFacts
<1>3. \A i \in Node :
        LET f == children[i].write_fd
            g == children'[i].write_fd
        IN  /\ g.to = f.to /\ (g.state = "open" => f.state = "open")
            /\ g # NoFd => f # NoFd
            /\ g.answers = f.answers /\ g.late = f.late
            /\ g.state = "open" => Pings(g) = Pings(f)
  BY RestartsFacts
<1>4. \A i \in Node : /\ children'[i].pid = IF i \in S THEN NewPid(S, i) ELSE children[i].pid
                      /\ children'[i].addr = children[i].addr
  BY DEF Restarts
<1>5. \A i \in Node : children[i].write_fd # NoFd => children[i].write_fd.to \in Born
  BY DEF Inv, Fresh
<1>6. Fresh'
  <2>1. updates' \subseteq Born'
    BY <1>2 DEF Inv, Fresh, Restarts
  <2>2. \A i \in Node : children'[i].pid \in Born'
    BY <1>2, <1>4 DEF Inv, Fresh
  <2>3. \A i \in Node : children'[i].write_fd # NoFd => children'[i].write_fd.to \in Born'
    BY <1>2, <1>3, <1>5
  <2>4. QED
    BY <1>2, <2>1, <2>2, <2>3 DEF Fresh
<1>7. ConnectionFits'
  BY <1>2, <1>3, <1>4, <1>5 DEF Inv, ConnectionFits
<1>8. Listens'
  <2>1. \A i \in Node : children[i].write_fd.state = "open" => children[i].write_fd # NoFd
    BY FdTypes
  <2>2. QED
    BY <1>2, <1>3, <1>5, <2>1 DEF Inv, Listens
<1>9. Asked'
  <2>1. server = "ready" /\ \A j \in Node : ~Waited(j) /\ ~Waited(j)'
    BY DEF Waited, Restarts
  <2>2. \A j \in Node : children[j].write_fd.late \/ Quiet(children[j].write_fd)
    BY <2>1 DEF Inv, Asked
  <2>3. \A j \in Node : children'[j].write_fd.late \/ Quiet(children'[j].write_fd)
    BY <1>3, <2>2 DEF Quiet
  <2>4. QED
    BY <2>1, <2>3 DEF Asked, Restarts
<1>10. Tracked'
  <2> SUFFICES ASSUME Steady', NEW q \in Pid, process'[q].stage \notin {"unborn", "gone"}
               PROVE  \E i \in Node : children'[i].pid = q
    BY DEF Tracked
  <2>1. CASE \E i \in S : q = NewPid(S, i)
    BY <1>1, <1>4, <2>1
  <2>2. CASE process'[q] = process[q]
    <3>1. Steady /\ \A i \in S : ~UnderWay(i)
      BY DEF Steady, Restarts
    <3>2. PICK i \in Node : children[i].pid = q
      BY <2>2, <3>1 DEF Inv, Tracked
    <3>3. i \notin S
      BY <1>1, <2>2, <3>1, <3>2 DEF UnderWay
    <3>4. QED
      BY <1>4, <3>2, <3>3
  <2>3. QED
    BY <1>2, <2>1, <2>2
<1>11. Stopping'
  BY DEF Stopping, Restarts
<1>12. QED
  BY <1>2, <1>6, <1>7, <1>8, <1>9, <1>10, <1>11

\* A client has a node revived.
LEMMA ReviveRestarts ==
  ASSUME Inv, NEW x, HandleRevive(x)
  PROVE  Restarts({i \in WithAddr(x) : children[i].write_fd = NoFd})
<1>1. PICK S \in SUBSET Node : S = {i \in WithAddr(x) : children[i].write_fd = NoFd}
  BY DEF WithAddr
<1>2. children \in [Node -> Child] /\ PidsCountUp
  BY DEF Inv, TypeOK, Fresh
<1>3. /\ Cardinality(Born) + Cardinality(S) <= MaxProcesses
      /\ process' = revivie_nodes(S) /\ children' = WithPids(S)
      /\ server = "ready" /\ UNCHANGED <<server, pinged, updates>>
      /\ Note("revive", S)
  BY <1>1 DEF HandleRevive, Command
<1>4. \A i \in Node : /\ children'[i] \in Child /\ children'[i].addr = children[i].addr
                      /\ children'[i].write_fd = children[i].write_fd
                      /\ children'[i].pid = IF i \in S THEN NewPid(S, i) ELSE children[i].pid
  BY <1>2, <1>3, WithPidsFacts
<1>5. children' \in [Node -> Child]
  BY <1>3, <1>4 DEF WithPids
<1>6. hasty => hasty'
  BY <1>3 DEF Note
<1>7. ~hasty' => \A i \in S : ~UnderWay(i)
  BY <1>3 DEF Note
<1>8. Restarts(S)
  BY <1>1, <1>3, <1>4, <1>5, <1>6, <1>7 DEF Restarts
<1>9. QED
  BY <1>1, <1>8

\* A client has the mesh reset.
LEMMA ResetRestarts ==
  ASSUME Inv, HandleReset
  PROVE  \E S : Restarts(S)
<1>1. PICK broken \in SUBSET Node, tried \in SUBSET Node :
        /\ broken = {i \in Node : children[i].write_fd.state = "broken"}
        /\ tried = {i \in Node : \A b \in broken : i < b}
  OBVIOUS
<1>2. PICK S \in SUBSET Node : S = ResetForks(tried)
  BY DEF ResetForks
<1>3. \A i \in S : i \in tried /\ children[i].write_fd = NoFd
  BY <1>2 DEF ResetForks
<1>4. children \in [Node -> Child] /\ PidsCountUp
  BY DEF Inv, TypeOK, Fresh
<1>5. /\ Cardinality(Born) + Cardinality(S) <= MaxProcesses
      /\ process' = revivie_nodes(S)
      /\ children' = [i \in Node |->
           IF i \in tried /\ children[i].write_fd # NoFd
           THEN [children[i] EXCEPT !.write_fd = io_write_all(@, "RESET")]
           ELSE WithPids(S)[i]]
      /\ server = "ready" /\ server' \in {"ready", "down"} /\ UNCHANGED <<pinged, updates>>
      /\ Note("reset", S)
  BY <1>1, <1>2 DEF HandleReset, Command
<1>6. ASSUME NEW i \in Node
      PROVE  /\ children'[i] \in Child /\ children'[i].addr = children[i].addr
             /\ children'[i].pid = IF i \in S THEN NewPid(S, i) ELSE children[i].pid
             /\ \/ children'[i].write_fd = children[i].write_fd
                \/ /\ children[i].write_fd # NoFd
                   /\ children'[i].write_fd = io_write_all(children[i].write_fd, "RESET")
  <2>1. CASE i \in tried /\ children[i].write_fd # NoFd
    <3>1. children[i] \in Child /\ children[i].write_fd \in Fd
      BY <1>4, ChildParts
    <3>2. PICK g \in Fd : g = io_write_all(children[i].write_fd, "RESET")
      BY <3>1, WriteFacts
    <3>3. children'[i] = [children[i] EXCEPT !.write_fd = g]
      BY <1>5, <2>1, <3>2
    <3>4. /\ children'[i] \in Child /\ children'[i].addr = children[i].addr
          /\ children'[i].pid = children[i].pid /\ children'[i].write_fd = g
      BY <3>1, <3>3, ChildFd
    <3>5. i \notin S
      BY <1>3, <2>1
    <3>6. QED
      BY <2>1, <3>2, <3>4, <3>5
  <2>2. CASE ~(i \in tried /\ children[i].write_fd # NoFd)
    <3>1. children'[i] = WithPids(S)[i]
      BY <1>5, <2>2
    <3>2. Cardinality(Born) + Cardinality(S) <= MaxProcesses
      BY <1>5
    <3>3. QED
      BY <1>4, <3>1, <3>2, WithPidsFacts
  <2>3. QED
    BY <2>1, <2>2
<1>7. children' \in [Node -> Child]
  BY <1>5, <1>6
<1>8. hasty => hasty'
  BY <1>5 DEF Note
<1>9. ~hasty' => \A i \in S : ~UnderWay(i)
  BY <1>5 DEF Note
<1>10. Restarts(S)
  BY <1>3, <1>5, <1>6, <1>7, <1>8, <1>9 DEF Restarts
<1>11. QED
  BY <1>10

LEMMA RestartSteps ==
  ASSUME Inv, HandleReset \/ \E x : HandleRevive(x)
  PROVE  Inv'
<1>1. PICK S : Restarts(S)
  BY ReviveRestarts, ResetRestarts
<1>2. /\ process' \in [Pid -> Process]
      /\ Fresh' /\ ConnectionFits' /\ Listens' /\ Asked' /\ Tracked' /\ Stopping'
  BY <1>1, RestartsStep
<1>3. /\ children' \in [Node -> Child] /\ server' \in {"ready", "waiting", "stopped", "down"}
      /\ UNCHANGED pinged
  BY <1>1 DEF Restarts
<1>4. Command /\ verdict' = NoVerdict
  BY DEF HandleReset, HandleRevive
<1>5. hasty' \in BOOLEAN /\ restoring' \in BOOLEAN
  BY NoteType DEF HandleReset, HandleRevive
<1>6. NoVerdict \in Verdict
  BY DEF NoVerdict, Verdict
<1>7. TypeOK'
  BY <1>2, <1>3, <1>4, <1>5, <1>6, CommandType DEF Inv, TypeOK
<1>8. PingTruthful'
  BY <1>4 DEF PingTruthful, NoVerdict
<1>9. QED
  BY <1>2, <1>7, <1>8 DEF Inv

\* The server is stopped.
LEMMA TermStep ==
  ASSUME Inv, TermHandler
  PROVE  Inv'
<1>1. children \in [Node -> Child] /\ process \in [Pid -> Process]
  BY DEF Inv, TypeOK
<1>2. PICK T : /\ T = Interrupted
               /\ process' = [q \in Pid |-> IF q \in T THEN Signalled(process[q]) ELSE process[q]]
  BY DEF TermHandler
<1>3. /\ process' \in [Pid -> Process]
      /\ \A q \in Pid : /\ process'[q].addr = process[q].addr
                        /\ process'[q].stage \in {process[q].stage, "gone"}
                        /\ process[q].stage # "loading" => process'[q].stage = process[q].stage
  BY <1>1, <1>2, SignalEffect
<1>4. \A q \in T \cap Pid :
        /\ process[q].stage = "loading" => process'[q].stage = "gone"
        /\ process[q].stage \in {"starting", "listening", "homeless", "serving"} => process'[q].stop
  BY <1>1, <1>2, SignalEffect
<1>5. /\ server \in {"ready", "waiting"} /\ server' = "stopped"
      /\ UNCHANGED <<children, updates, bound, faults>>
      /\ pinged' = NoPing /\ verdict' = NoVerdict /\ commands' = MaxCommands
      /\ restoring' = FALSE
      /\ hasty' = (hasty \/ \E p \in Pid : process[p].stage = "forked")
  BY DEF TermHandler
<1>6. Born' = Born
  BY <1>3 DEF Born
<1>7. TypeOK'
  <2>1. NoPing \in Ping /\ NoVerdict \in Verdict
    BY DEF NoPing, NoVerdict, Ping, Verdict
  <2>2. commands' \in 0 .. MaxCommands
    BY <1>5, Constants
  <2>3. hasty' \in BOOLEAN
    BY <1>5
  <2>4. QED
    BY <1>3, <1>5, <2>1, <2>2, <2>3 DEF Inv, TypeOK
<1>8. Fresh'
  BY <1>5, <1>6 DEF Inv, Fresh, PidsCountUp
<1>9. \A j \in Node : children[j].write_fd # NoFd => children[j].write_fd.to \in Pid
  BY BornFacts DEF Inv, Fresh
<1>10. ConnectionFits'
  BY <1>3, <1>5, <1>9 DEF Inv, ConnectionFits
<1>11. Listens'
  <2>1. NoFd.state # "open"
    BY FdTypes
  <2>2. QED
    BY <1>3, <1>5, <1>9, <2>1 DEF Inv, Listens
<1>12. Asked' /\ PingTruthful' /\ Tracked'
  BY <1>5 DEF Asked, PingTruthful, NoVerdict, Tracked, Steady
<1>13. Stopping'
  <2> SUFFICES ASSUME ~hasty', NEW q \in Pid, process'[q].stage \notin {"unborn", "gone"}
               PROVE  /\ process'[q].stage \in {"starting", "listening", "homeless", "serving"}
                      /\ process'[q].stop
    BY DEF Stopping
  <2>1. ~hasty /\ process[q].stage # "forked"
    BY <1>5
  <2>2. process[q].stage \notin {"unborn", "gone"}
    BY <1>3
  <2>3. q \in T
    BY <1>2, <1>5, <2>1, <2>2 DEF Inv, Tracked, Steady, Interrupted
  <2>4. process[q].stage # "loading"
    BY <1>4, <2>3
  <2>5. process[q].stage \in Stage
    BY <1>1, ProcessParts
  <2>6. process[q].stage \in {"starting", "listening", "homeless", "serving"}
    BY <2>1, <2>2, <2>4, <2>5 DEF Stage
  <2>7. QED
    BY <1>3, <1>4, <2>3, <2>4, <2>6
<1>14. QED
  BY <1>7, <1>8, <1>10, <1>11, <1>12, <1>13 DEF Inv
-----------------------------------------------------------------------------
\* The pids of the first processes.
LEMMA FirstPidFacts ==
  /\ \A i \in Node : FirstPid(i) \in Pid /\ FirstPid(i) <= Cardinality(Node)
  /\ \A i, j \in Node : FirstPid(i) = FirstPid(j) => i = j
  /\ Cardinality({FirstPid(i) : i \in Node}) = Cardinality(Node)
<1>1. Node \in SUBSET Nat /\ IsFiniteSet(Node)
  BY Constants, NodeFacts
<1>2. \A i \in Node : FirstPid(i) = 0 + Rank(Node, i) + 1 /\ Rank(Node, i) \in Nat
  <2>1. \A i \in Node : Rank(Node, i) \in Nat /\ Cardinality(Before(i)) = Rank(Node, i)
    BY <1>1, RankFacts DEF Rank, Before
  <2>2. QED
    BY <2>1 DEF FirstPid
<1>3. \A i \in Node : Rank(Node, i) < Cardinality(Node) /\ Cardinality(Node) \in Nat
  BY <1>1, RankFacts
<1>4. \A i \in Node : FirstPid(i) \in 1 .. MaxProcesses /\ FirstPid(i) <= Cardinality(Node)
  BY <1>2, <1>3, Constants
<1>5. \A i, j \in Node : Rank(Node, i) = Rank(Node, j) => i = j
  BY <1>1, RankFacts
<1>6. \A i, j \in Node : FirstPid(i) = FirstPid(j) => i = j
  BY <1>2, <1>5
<1>7. Cardinality({0 + Rank(Node, i) + 1 : i \in Node}) = Cardinality(Node)
  BY <1>1, RankImage
<1>8. {FirstPid(i) : i \in Node} = {0 + Rank(Node, i) + 1 : i \in Node}
  BY <1>2
<1>9. QED
  BY <1>4, <1>6, <1>7, <1>8 DEF Pid

\* The first processes: child i has the one for node i.
LEMMA InitFacts ==
  ASSUME Init
  PROVE  /\ children \in [Node -> Child]
         /\ \A i \in Node : /\ children[i].pid = FirstPid(i) /\ children[i].addr = UINT8_MAX
                            /\ children[i].write_fd = NoFd
         /\ process \in [Pid -> Process]
         /\ \A i \in Node : /\ process[FirstPid(i)].addr = i
                            /\ process[FirstPid(i)].stage = "forked"
         /\ Born = {FirstPid(i) : i \in Node}
<1>1. /\ children = [i \in Node |-> [pid |-> FirstPid(i), addr |-> UINT8_MAX, write_fd |-> NoFd]]
  BY DEF Init
<1>2. ASSUME NEW i \in Node
      PROVE  [pid |-> FirstPid(i), addr |-> UINT8_MAX, write_fd |-> NoFd] \in Child
  <2>1. NoFd \in Fd
    BY FdTypes
  <2>2. QED
    BY <2>1, FirstPidFacts, NodeFacts DEF Child
<1>3. /\ children \in [Node -> Child]
      /\ \A i \in Node : /\ children[i].pid = FirstPid(i) /\ children[i].addr = UINT8_MAX
                         /\ children[i].write_fd = NoFd
  BY <1>1, <1>2
<1> DEFINE First0(i, p) == [addr |-> i, stage |-> "forked", stop |-> FALSE, kin |-> 1 .. p - 1]
<1>4. process = [p \in Pid |-> IF \E i \in Node : p = FirstPid(i)
                               THEN First0(CHOOSE i \in Node : p = FirstPid(i), p) ELSE Unborn]
  BY DEF Init
<1>5. \A i \in Node, p \in Pid : /\ First0(i, p) \in Process
                                 /\ First0(i, p).addr = i /\ First0(i, p).stage = "forked"
  <2>1. \A p \in Pid : 1 .. p - 1 \in SUBSET Pid
    BY Constants DEF Pid
  <2>2. QED
    BY <2>1, NodeFacts DEF Process, Stage
<1>6. Unborn \in Process /\ Unborn.stage = "unborn"
  BY NodeFacts DEF Unborn, Process, Stage
<1> HIDE DEF First0
<1>7. process \in [Pid -> Process]
  BY <1>4, <1>5, <1>6
<1>8. \A i \in Node : process[FirstPid(i)] = First0(i, FirstPid(i))
  <2> SUFFICES ASSUME NEW i \in Node PROVE process[FirstPid(i)] = First0(i, FirstPid(i))
    OBVIOUS
  <2>1. FirstPid(i) \in Pid
    BY FirstPidFacts
  <2>2. (CHOOSE j \in Node : FirstPid(i) = FirstPid(j)) = i
    BY FirstPidFacts
  <2>3. QED
    BY <1>4, <2>1, <2>2
<1>9. \A i \in Node : /\ process[FirstPid(i)].addr = i
                      /\ process[FirstPid(i)].stage = "forked"
  BY <1>5, <1>8, FirstPidFacts
<1>10. \A p \in Pid : (\A i \in Node : p # FirstPid(i)) => process[p].stage = "unborn"
  BY <1>4, <1>6
<1>11. Born = {FirstPid(i) : i \in Node}
  BY <1>9, <1>10, FirstPidFacts DEF Born
<1>12. QED
  BY <1>3, <1>7, <1>9, <1>11

LEMMA InitInv == Init => Inv
<1> SUFFICES ASSUME Init PROVE Inv
  OBVIOUS
<1>1. /\ server = "ready" /\ pinged = NoPing /\ verdict = NoVerdict /\ updates = {}
      /\ bound = {} /\ hasty = FALSE /\ restoring = FALSE /\ commands = 0 /\ faults = 0
  BY DEF Init
<1>2. TypeOK
  <2>1. NoPing \in Ping /\ NoVerdict \in Verdict
    BY DEF NoPing, NoVerdict, Ping, Verdict
  <2>2. 0 \in 0 .. MaxCommands /\ 0 \in 0 .. MaxFaults
    BY Constants
  <2>3. QED
    BY <1>1, <2>1, <2>2, InitFacts DEF TypeOK
<1>3. Fresh
  <2>1. PidsCountUp
    <3>1. Born = {FirstPid(i) : i \in Node}
      BY InitFacts
    <3>2. Cardinality(Born) = Cardinality(Node)
      BY <3>1, FirstPidFacts
    <3>3. \A i \in Node : FirstPid(i) <= Cardinality(Node)
      BY FirstPidFacts
    <3>4. QED
      BY <3>1, <3>2, <3>3 DEF PidsCountUp
  <2>2. QED
    BY <1>1, <2>1, InitFacts DEF Fresh
<1>4. ConnectionFits
  BY InitFacts DEF ConnectionFits
<1>5. Listens
  BY InitFacts, FdTypes DEF Listens
<1>6. Asked
  <2>1. \A i \in Node : Quiet(children[i].write_fd) /\ ~Waited(i)
    BY <1>1, InitFacts, FdTypes DEF Quiet, Waited
  <2>2. QED
    BY <1>1, <2>1 DEF Asked
<1>7. PingTruthful
  BY <1>1 DEF PingTruthful, NoVerdict
<1>8. Tracked
  BY InitFacts DEF Tracked, Born
<1>9. Stopping
  BY <1>1 DEF Stopping
<1>10. QED
  BY <1>2, <1>3, <1>4, <1>5, <1>6, <1>7, <1>8, <1>9 DEF Inv

\* Every step keeps the invariant.
LEMMA InvStep == Inv /\ [Next]_vars => Inv'
<1> SUFFICES ASSUME Inv, [Next]_vars PROVE Inv'
  OBVIOUS
<1>1. CASE Next
  BY <1>1, NodeSteps, NodeReadsStep, UpdateStep, KillStep, RestartSteps, PingStep,
     PingReturnsStep, TermStep DEF Next
<1>2. CASE UNCHANGED vars
  <2>1. TypeOK'
    BY <1>2 DEF vars, Inv, TypeOK
  <2>2. Fresh'
    BY <1>2 DEF vars, Inv, Fresh, PidsCountUp, Born
  <2>3. ConnectionFits' /\ Listens'
    BY <1>2 DEF vars, Inv, ConnectionFits, Listens
  <2>4. Asked'
    BY <1>2, Zenon DEF vars, Inv, Asked, Waited, Expected
  <2>5. PingTruthful' /\ Tracked' /\ Stopping'
    BY <1>2 DEF vars, Inv, PingTruthful, Tracked, Steady, Stopping
  <2>6. QED
    BY <2>1, <2>2, <2>3, <2>4, <2>5 DEF Inv
<1>3. QED
  BY <1>1, <1>2

\* The invariant.
LEMMA Invariant == Spec => []Inv
BY InitInv, InvStep, PTL DEF Spec

(***************************************************************************)
(* TypeOK for any set of nodes: in particular the pids that are given out  *)
(* stay within those there are, and the server only waits for nodes.       *)
(***************************************************************************)
THEOREM TypeCorrect == Spec => []TypeOK
BY Invariant, PTL DEF Inv

(***************************************************************************)
(* A connection in the table leads to a process of the address beside it,  *)
(* however commands, processes and their reports overtake each other.      *)
(***************************************************************************)
THEOREM ConnectionsFit == Spec => []ConnectionFits
BY Invariant, PTL DEF Inv

(***************************************************************************)
(* A ping says OK only if the process ran when it was asked, or a ping on  *)
(* the same connection has timed out before.                               *)
(***************************************************************************)
THEOREM PingsAreTruthful == Spec => []PingTruthful
BY Invariant, PTL DEF Inv

(***************************************************************************)
(* Stopping the server ends all node processes, unless a command was given *)
(* before the one before it had taken effect.                              *)
(***************************************************************************)
THEOREM StoppingEndsNodes == Spec => []StopEndsNodes
<1>1. Inv => StopEndsNodes
  BY DEF Inv, Stopping, StopEndsNodes, AtRest
<1>2. QED
  BY <1>1, Invariant, PTL

-----------------------------------------------------------------------------
(***************************************************************************)
(* That the table is right, as long as no command is hasty and addresses   *)
(* have at most two digits, which is what run_node has room for.           *)
(***************************************************************************)
TwoDigits == \A i \in Node : i < 100

\* Child i has not been heard of: its process is on the way, or its UPDATE is.
NotHeard(i) ==
  LET c == children[i]
  IN  /\ c.addr = UINT8_MAX /\ c.write_fd = NoFd
      /\ process[c.pid].stage \notin {"serving", "gone"} \/ c.pid \in updates

Agrees(i) ==
  LET c == children[i]
      r == process[c.pid]
  IN  /\ r.addr = i
      /\ c.addr = i \/ NotHeard(i)
      /\ c.write_fd # NoFd => c.write_fd.to = c.pid /\ r.stage \in {"serving", "gone"}
      /\ c.write_fd.state = "open" => r.stage = "serving"
      /\ r.stage = "serving" => c.pid \in updates \/ r.stop \/ c.write_fd.state = "open"

Reported == \A p \in updates : process[p].stage \in {"serving", "gone"}

Family == Steady => Reported /\ \A i \in Node : Agrees(i)

\* A process takes a step.
LEMMA NodeFamily ==
  ASSUME Inv, Family, NEW p \in Pid, NodeStep(p) \/ Crash(p)
  PROVE  Family'
<1>1. TypeOK /\ Moves(p)
  BY NodeMoves DEF Inv
<1>2. UNCHANGED <<server, hasty>>
  BY DEF NodeStep, Exec, Bind, Report, Exit, Crash, NodeFrame
<1> SUFFICES ASSUME Steady PROVE Reported' /\ \A i \in Node : Agrees(i)'
  BY <1>2 DEF Family, Steady
<1>3. Reported /\ \A i \in Node : Agrees(i)
  BY DEF Family
<1>4. Reported'
  <2>1. updates \subseteq Pid
    BY <1>1 DEF TypeOK
  <2>2. \A q \in Pid : process[q].stage \in {"serving", "gone"} => process'[q].stage \in {"serving", "gone"}
    BY <1>1 DEF Moves, Goes
  <2>3. \/ UNCHANGED <<children, updates>> \/ UNCHANGED updates
        \/ updates' = updates \cup {p} /\ process'[p].stage = "serving"
        \/ updates' = updates \cup {p} /\ process'[p].stage = "gone"
    BY <1>1, Zenon DEF Moves, Goes
  <2>4. QED
    BY <1>3, <2>1, <2>2, <2>3 DEF Reported
<1>5. ASSUME NEW i \in Node PROVE Agrees(i)'
  <2> DEFINE q == children[i].pid
             f == children[i].write_fd
             g == children'[i].write_fd
  <2>1. /\ children'[i].pid = q /\ children'[i].addr = children[i].addr /\ Kept(f, g)
        /\ q \in Pid /\ process'[q].addr = process[q].addr
    BY <1>1, MoveFacts, ChildParts DEF TypeOK
  <2>2. Agrees(i)
    BY <1>3
  <2>3. updates \subseteq updates'
    BY <1>1 DEF Moves
  <2>4. f.state = "open" => f # NoFd
    BY FdTypes
  <2>5. g # NoFd => f # NoFd
    BY <2>1, <2>4 DEF Kept
  <2>6. CASE q # p
    <3>1. process'[q] = process[q]
      BY <1>1, <2>1, <2>6 DEF Moves
    <3>2. g = f
      <4>1. f # NoFd => f.to # p
        BY <2>2, <2>6 DEF Agrees
      <4>2. CASE children' = children
        BY <4>2
      <4>3. CASE children' = HungUp(p)
        BY <1>1, <2>4, <4>1, <4>3, HungUpFacts DEF TypeOK
      <4>4. QED
        BY <1>1, <4>2, <4>3 DEF Moves
    <3>3. QED
      BY <2>1, <2>2, <2>3, <3>1, <3>2 DEF Agrees, NotHeard
  <2>7. CASE q = p
    <3>1. CASE process[p].stage \notin {"serving", "gone"}
      <4>1. f = NoFd
        BY <2>2, <2>7, <3>1 DEF Agrees
      <4>2. g = NoFd /\ g.state # "open"
        BY <2>5, <4>1, FdTypes
      <4>3. process'[p].stage \in {"serving", "gone"} => p \in updates'
        BY <1>1, <3>1 DEF Moves, Goes
      <4>4. QED
        BY <2>1, <2>2, <2>7, <3>1, <4>1, <4>2, <4>3 DEF Agrees, NotHeard
    <3>2. CASE process[p].stage \in {"serving", "gone"}
      <4>1. Goes(p, "serving", "gone") /\ process'[p].stage = "gone"
        BY <1>1, <3>2 DEF Moves, Goes
      <4>2. f.to = p => g.state # "open"
        BY <1>1, <4>1, MoveFacts
      <4>3. g.state = "open" => f.state = "open" /\ g.to = f.to
        BY <2>1 DEF Kept
      <4>4. g.state # "open"
        BY <2>2, <2>4, <2>7, <4>2, <4>3 DEF Agrees
      <4>5. g # NoFd => g.to = p
        BY <2>1, <2>2, <2>5, <2>7 DEF Agrees, Kept
      <4>6. NotHeard(i) => NotHeard(i)'
        BY <2>1, <2>3, <2>5, <2>7, <3>2 DEF NotHeard
      <4>7. QED
        BY <2>1, <2>2, <2>7, <4>1, <4>4, <4>5, <4>6 DEF Agrees
    <3>3. QED
      BY <3>1, <3>2
  <2>8. QED
    BY <2>6, <2>7
<1>6. QED
  BY <1>4, <1>5

\* Only requests and answers change.
LEMMA SameFamily ==
  ASSUME Inv, Family, UNCHANGED <<process, updates, hasty>>, SameTable,
         Steady' => Steady
  PROVE  Family'
<1> SUFFICES ASSUME Steady PROVE Reported' /\ \A i \in Node : Agrees(i)'
  BY DEF Family
<1>1. Reported'
  BY DEF Family, Reported
<1>2. \A i \in Node : Agrees(i)
  BY DEF Family
<1>3. QED
  BY <1>1, <1>2 DEF Agrees, NotHeard, SameTable

\* The process that has the port of node i is the one of child i.
LEMMA OneListener ==
  ASSUME Inv, Steady, \A i \in Node : Agrees(i), NEW i \in Node, NEW q \in Listener(i)
  PROVE  q = children[i].pid
<1>1. /\ q \in Pid /\ process[q].addr = i
      /\ process[q].stage \in {"listening", "serving"}
  BY DEF Listener
<1>2. PICK j \in Node : children[j].pid = q
  BY <1>1 DEF Inv, Tracked
<1>3. QED
  BY <1>1, <1>2 DEF Agrees

\* The server reads an UPDATE.
LEMMA UpdateFamily ==
  ASSUME Inv, Family, NEW p \in Pid, HandleUpdateChild(p)
  PROVE  Family'
<1>1. /\ server = "ready" /\ updates' = updates \ {p} /\ p \in updates
      /\ UNCHANGED <<process, server, hasty>>
  BY DEF HandleUpdateChild
<1> SUFFICES ASSUME Steady PROVE Reported' /\ \A i \in Node : Agrees(i)'
  BY <1>1 DEF Family, Steady
<1>2. Reported /\ \A i \in Node : Agrees(i)
  BY DEF Family
<1>3. Reported'
  BY <1>1, <1>2 DEF Reported
<1>4. CASE children' = children /\ \A i \in Node : children[i].pid # p
  BY <1>1, <1>2, <1>3, <1>4 DEF Agrees, NotHeard
<1>5. CASE ~(children' = children /\ \A i \in Node : children[i].pid # p)
  <2>1. PICK i \in Node, fd \in Fd :
          /\ children[i].pid = p /\ Connected(p, fd)
          /\ \A j \in Node :
               /\ children'[j].pid = children[j].pid
               /\ children'[j].addr = IF j = i THEN process[p].addr ELSE children[j].addr
               /\ children'[j].write_fd = IF j = i THEN fd ELSE children[j].write_fd
    BY <1>5, UpdateFacts DEF Inv, TypeOK
  <2>2. process[p].addr = i /\ process[p].stage \in {"serving", "gone"}
    BY <1>1, <1>2, <2>1 DEF Agrees, Reported
  <2>3. \A j \in Node : j # i => children[j].pid # p
    BY <1>2, <2>2 DEF Agrees
  <2>4. \A j \in Node : j # i => Agrees(j)'
    BY <1>1, <1>2, <2>1, <2>3 DEF Agrees, NotHeard
  <2>5. \A q \in Listener(i) : q = p /\ process[q].stage \in {"listening", "serving"}
    BY <1>2, <2>1, OneListener DEF Listener
  <2>6. process[p].stage = "serving" => p \in Listener(i)
    BY <2>2 DEF Listener
  <2>7. NoFd.state # "open"
    BY FdTypes
  <2>8. /\ fd # NoFd => fd.to = p
        /\ fd.state = "open" => process[p].stage = "serving"
        /\ process[p].stage = "serving" => fd.state = "open"
    BY <2>1, <2>2, <2>5, <2>6, <2>7 DEF Connected
  <2>9. Agrees(i)'
    BY <1>1, <2>1, <2>2, <2>8 DEF Agrees
  <2>10. QED
    BY <1>3, <2>4, <2>9
<1>6. QED
  BY <1>4, <1>5

\* A client has a node killed.
LEMMA KillFamily ==
  ASSUME Inv, Family, NEW x, HandleKill(x)
  PROVE  Family'
<1>1. PICK i : i = First(WithAddr(x))
  OBVIOUS
<1>2. i \in Node
  BY <1>1, FirstFacts DEF HandleKill, WithAddr
<1>3. UNCHANGED <<updates, server>> /\ hasty' = (hasty \/ \E j \in {i} : UnderWay(j))
  BY <1>1 DEF HandleKill, Command, Note
<1> SUFFICES ASSUME Steady, ~UnderWay(i) PROVE Reported' /\ \A j \in Node : Agrees(j)'
  BY <1>3 DEF Family, Steady
<1>4. Reported /\ \A j \in Node : Agrees(j)
  BY DEF Family
<1>5. children \in [Node -> Child] /\ process \in [Pid -> Process]
  BY DEF Inv, TypeOK
<1>6. \A j \in Node : /\ children'[j].pid = children[j].pid /\ children'[j].addr = children[j].addr
                      /\ children'[j].write_fd = IF j = i THEN NoFd ELSE children[j].write_fd
  <2>1. children' = [children EXCEPT ![i].write_fd = NoFd]
    BY <1>1 DEF HandleKill
  <2>2. NoFd \in Fd
    BY FdTypes
  <2>3. QED
    BY <1>2, <1>5, <2>1, <2>2, TableFd
<1>7. PICK p \in Pid : p = children[i].pid /\ process' = kill_pid(p)
  BY <1>1, <1>2, <1>5, ChildParts DEF HandleKill
<1>8. process[p].stage \in {"serving", "gone"} /\ children[i].addr = i
  <2>1. Agrees(i)
    BY <1>2, <1>4
  <2>2. ~NotHeard(i)
    BY <1>7 DEF NotHeard, UnderWay
  <2>3. QED
    BY <1>7, <2>1, <2>2 DEF Agrees, UnderWay
<1>9. process' = [q \in Pid |-> IF q \in {p} THEN Signalled(process[q]) ELSE process[q]]
  <2>1. PICK T \in SUBSET Pid :
          /\ kill_pid(p) = [q \in Pid |-> IF q \in T THEN Signalled(process[q]) ELSE process[q]]
          /\ process[p].stage # "forked" => T = {p}
    BY <1>5, KillSignals
  <2>2. T = {p}
    BY <1>8, <2>1
  <2>3. QED
    BY <1>7, <2>1, <2>2
<1>10. \A q \in Pid : q # p => process'[q] = process[q]
  BY <1>9
<1>11. /\ process'[p].addr = process[p].addr /\ process'[p].stage = process[p].stage
       /\ process[p].stage = "serving" => process'[p].stop
  BY <1>5, <1>8, <1>9, SignalEffect
<1>12. Reported'
  BY <1>3, <1>4, <1>8, <1>10, <1>11 DEF Reported, Inv, TypeOK
<1>13. NoFd.state # "open"
  BY FdTypes
<1>14. Agrees(i)'
  BY <1>2, <1>4, <1>6, <1>7, <1>8, <1>11, <1>13 DEF Agrees
<1>15. ASSUME NEW j \in Node, j # i PROVE Agrees(j)'
  <2>1. children[j].pid # p /\ children[j].pid \in Pid
    BY <1>2, <1>4, <1>5, <1>7, <1>15, ChildParts DEF Agrees
  <2>2. process'[children[j].pid] = process[children[j].pid]
    BY <1>10, <2>1
  <2>3. QED
    BY <1>3, <1>4, <1>6, <1>15, <2>2 DEF Agrees, NotHeard
<1>16. QED
  BY <1>12, <1>14, <1>15

\* The server starts processes.
LEMMA RestartsFamily ==
  ASSUME Inv, Family, TwoDigits, NEW S, Restarts(S)
  PROVE  Family'
<1> SUFFICES ASSUME Steady' PROVE Reported' /\ \A j \in Node : Agrees(j)'
  BY DEF Family
<1>1. Steady /\ \A i \in S : ~UnderWay(i)
  BY DEF Steady, Restarts
<1>2. Reported /\ \A j \in Node : Agrees(j)
  BY <1>1 DEF Family
<1>3. UNCHANGED updates /\ S \in SUBSET Node /\ \A i \in S : children[i].write_fd = NoFd
  BY DEF Restarts
<1>4. \A i \in Node : /\ children'[i].pid = IF i \in S THEN NewPid(S, i) ELSE children[i].pid
                      /\ children'[i].addr = children[i].addr
  BY DEF Restarts
<1>5. \A i \in Node :
        LET f == children[i].write_fd
            g == children'[i].write_fd
        IN  g.to = f.to /\ (g.state = "open" <=> f.state = "open") /\ (g # NoFd => f # NoFd)
  BY RestartsFacts
<1>6. /\ \A q \in Born : process'[q] = process[q]
      /\ \A i \in S : /\ process'[NewPid(S, i)].addr = run_node(children[i].addr)
                      /\ process'[NewPid(S, i)].stage = "forked"
  BY RestartsFacts
<1>7. Reported'
  BY <1>2, <1>3, <1>6 DEF Inv, Fresh, Reported
<1>8. ASSUME NEW i \in S PROVE Agrees(i)'
  <2>1. children[i].addr = i
    BY <1>1, <1>2, <1>3 DEF Agrees, NotHeard, UnderWay
  <2>2. process'[NewPid(S, i)].addr = i
    BY <1>3, <1>6, <2>1, RunNodeFacts DEF TwoDigits
  <2>3. children'[i].write_fd = NoFd
    BY <1>3, <1>5
  <2>4. NoFd.state # "open"
    BY FdTypes
  <2>5. QED
    BY <1>3, <1>4, <1>6, <2>1, <2>2, <2>3, <2>4 DEF Agrees
<1>9. ASSUME NEW i \in Node, i \notin S PROVE Agrees(i)'
  <2>1. children'[i].pid = children[i].pid /\ process'[children[i].pid] = process[children[i].pid]
    BY <1>4, <1>6, <1>9 DEF Inv, Fresh
  <2>2. QED
    BY <1>2, <1>3, <1>4, <1>5, <2>1 DEF Agrees, NotHeard
<1>10. QED
  BY <1>7, <1>8, <1>9

(***************************************************************************)
(* Once everything has settled the table is right: child i is node i, its  *)
(* connection, if open, leads to the only process of that node, and a      *)
(* child without one has no process; for any set of nodes whose addresses  *)
(* have at most two digits, as long as no command was hasty.               *)
(***************************************************************************)
THEOREM TableIsRight ==
  ASSUME TwoDigits
  PROVE  Spec => []TableAgrees
<1>1. Init => Family
  <2> SUFFICES ASSUME Init PROVE Reported /\ \A i \in Node : Agrees(i)
    BY DEF Family
  <2>1. Reported
    BY DEF Init, Reported
  <2>2. ASSUME NEW i \in Node PROVE Agrees(i)
    BY InitFacts, FdTypes DEF Agrees, NotHeard
  <2>3. QED
    BY <2>1, <2>2
<1>2. ASSUME Inv, Family, [Next]_vars PROVE Family'
  <2>1. ASSUME NEW p \in Pid, NodeStep(p) \/ Crash(p) PROVE Family'
    BY <1>2, <2>1, NodeFamily
  <2>2. ASSUME NEW p \in Pid, HandleUpdateChild(p) PROVE Family'
    BY <1>2, <2>2, UpdateFamily
  <2>3. ASSUME NEW i \in Node, NodeReads(i) PROVE Family'
    <3>1. UNCHANGED <<process, updates, hasty, server>>
      BY <2>3 DEF NodeReads, NodeFrame
    <3>2. QED
      BY <1>2, <2>3, <3>1, NodeReadsStep, SameFamily DEF Steady
  <2>4. ASSUME NEW x, HandlePing(x) PROVE Family'
    <3>1. UNCHANGED <<process, updates, hasty>> /\ server = "ready"
      BY <2>4 DEF HandlePing, Command
    <3>2. QED
      BY <1>2, <2>4, <3>1, PingStep, SameFamily DEF Steady
  <2>5. CASE PingReturns
    <3>1. UNCHANGED <<process, updates, hasty>> /\ server = "waiting"
      BY <2>5 DEF PingReturns
    <3>2. QED
      BY <1>2, <2>5, <3>1, PingReturnsStep, SameFamily DEF Steady
  <2>6. ASSUME NEW x, HandleKill(x) PROVE Family'
    BY <1>2, <2>6, KillFamily
  <2>7. ASSUME NEW x, HandleRevive(x) PROVE Family'
    BY <1>2, <2>7, ReviveRestarts, RestartsFamily
  <2>8. CASE HandleReset
    BY <1>2, <2>8, ResetRestarts, RestartsFamily
  <2>9. CASE TermHandler
    BY <2>9 DEF TermHandler, Family, Steady
  <2>10. CASE UNCHANGED vars
    BY <1>2, <2>10 DEF vars, Family, Steady, Reported, Agrees, NotHeard
  <2>11. QED
    BY <1>2, <2>1, <2>2, <2>3, <2>4, <2>5, <2>6, <2>7, <2>8, <2>9, <2>10 DEF Next
<1>3. ASSUME Inv, Family PROVE TableAgrees
  <2> SUFFICES ASSUME Settled, ~hasty, NEW i \in Node
               PROVE  LET c == children[i]
                      IN  /\ c.addr = i
                          /\ Running(i) = IF c.write_fd.state = "open" THEN {c.pid} ELSE {}
                          /\ c.write_fd.state = "open" => c.write_fd.to = c.pid
    BY DEF TableAgrees
  <2> DEFINE c == children[i]
             r == process[c.pid]
  <2>1. Steady /\ updates = {} /\ \A j \in Node : Agrees(j)
    BY <1>3 DEF Steady, Settled, Family
  <2>2. Agrees(i)
    BY <2>1
  <2>3. c.pid \in Pid /\ r.stage # "unborn"
    BY <1>3 DEF Inv, Fresh, Born
  <2>4. r.stage = "gone" \/ (r.stage = "serving" /\ ~r.stop)
    BY <2>3 DEF Settled, AtRest
  <2>5. c.addr = i
    BY <2>1, <2>2, <2>4 DEF Agrees, NotHeard
  <2>6. c.write_fd.state = "open" => c.write_fd # NoFd
    BY FdTypes
  <2>7. Running(i) \subseteq {c.pid}
    BY <1>3, <2>1, OneListener DEF Running, Listener
  <2>8. c.pid \in Running(i) <=> r.stage = "serving"
    BY <2>2, <2>3 DEF Running, Agrees
  <2>9. r.stage = "serving" <=> c.write_fd.state = "open"
    BY <2>1, <2>2, <2>4 DEF Agrees
  <2>10. QED
    BY <2>2, <2>5, <2>6, <2>7, <2>8, <2>9 DEF Agrees
<1>4. Spec => []Family
  <2>1. Inv /\ Family /\ [Next]_vars => Family'
    BY <1>2
  <2>2. QED
    BY <1>1, <2>1, Invariant, PTL DEF Spec
<1>5. Inv /\ Family => TableAgrees
  BY <1>3
<1>6. QED
  BY <1>4, <1>5, Invariant, PTL
=============================================================================
