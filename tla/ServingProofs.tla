---------------------------- MODULE ServingProofs ---------------------------
(***************************************************************************)
(* Theorems about Serving, for any set of connections, whatever they       *)
(* write and however their bytes arrive: the array that poll is given has  *)
(* every open connection once and stays within its memory, the loop waits  *)
(* only for a connection that has begun a request or was accepted in the   *)
(* same pass, and it handles what was meant at the other end.              *)
(*                                                                         *)
(* The types alone are not inductive.  That the array has room for one     *)
(* more entry needs that it has each connection once (then it is no longer *)
(* than there are connections), and this needs that a connection that      *)
(* waits to be accepted waits only once.  That the loop does not wait for  *)
(* a silent connection needs to be known of all entries it has yet to come *)
(* to, not only of the one it is at.  That requests are handled as meant   *)
(* rests on two things: that what format_create writes begins with its own *)
(* length and is parsed to what it was made of, for every request that the *)
(* structures allow, and that the loop stands between two requests         *)
(* whenever it is not reading one.                                         *)
(***************************************************************************)
EXTENDS Serving, NumberSets, SequenceTheorems

(***************************************************************************)
(* The inductive invariant.                                                *)
(***************************************************************************)
ArrayOK ==
  /\ pfds \in [Index -> Entry]
  /\ pfd_capacity \in 1 .. MaxCapacity
  /\ pfd_count \in 1 .. pfd_capacity
  /\ at \in -1 .. pfd_count - 1
  /\ new \subseteq Conn

PhasesOK ==
  /\ role \in {"server", "node"}
  /\ phase \in [Conn -> {"idle", "waiting", "open", "closed", "refused"}]

\* What is written, what of it has arrived, and what of that has been read.
StreamsOK ==
  /\ fin \in [Conn -> BOOLEAN]
  /\ arrived \in [Conn -> Nat] /\ taken \in [Conn -> Nat]
  /\ \A c \in Conn :
       /\ wire[c] \in Seq(Int) /\ Len(wire[c]) > 0
       /\ ends[c] \in Seq(1 .. Len(wire[c]))
       /\ arrived[c] <= Len(wire[c]) /\ taken[c] <= arrived[c]

\* A connection waits to be accepted at most once.
QueueOK ==
  /\ backlog \in Seq(Conn)
  /\ \A k \in 1 .. Len(backlog) : phase[backlog[k]] = "waiting"
  /\ \A k, l \in 1 .. Len(backlog) : backlog[k] = backlog[l] => k = l

Open == {c \in Conn : phase[c] = "open"}

Watches(a, n, S) ==
  /\ a[0].fd = Listener
  /\ {a[j].fd : j \in 0 .. n - 1} = {Listener} \cup S
  /\ \A j, k \in 0 .. n - 1 : a[j].fd = a[k].fd => j = k

Talks(c) == arrived[c] > taken[c] \/ fin[c]

\* A connection that poll has found something on still has it when the loop
\* comes to it.
Ahead ==
  at # -1 =>
    \A j \in at .. pfd_count - 1 :
      pfds[j].revents = "yes" /\ pfds[j].fd \in Conn /\ pfds[j].fd \notin new
        => Talks(pfds[j].fd)

Inv == /\ ArrayOK /\ PhasesOK /\ StreamsOK /\ QueueOK
       /\ Watches(pfds, pfd_count, Open)
       /\ at # -1 => pfds[at].revents = "yes"
       /\ Ahead

-----------------------------------------------------------------------------
(***************************************************************************)
(* The constants, entries and the search for the next entry.               *)
(***************************************************************************)
LEMMA Constants ==
  /\ IsFiniteSet(Conn) /\ Cardinality(Conn) \in Nat
  /\ Listener \notin Conn /\ "none" \notin Conn /\ Listener # "none"
  /\ CAPACITY \in Nat /\ CAPACITY > 0
  /\ MaxCapacity \in Nat /\ MaxCapacity >= CAPACITY
  /\ MaxCapacity >= 2 * (Cardinality(Conn) + 1)
BY ServingAssumption, FS_CardinalityType DEF Listener

LEMMA Entries ==
  /\ \A e \in Entry : /\ e.fd \in Conn \cup {Listener, "none"}
                      /\ e.revents \in {"yes", "no", "unset"}
  /\ \A f \in Conn \cup {Listener, "none"}, r \in {"yes", "no", "unset"} :
       [fd |-> f, revents |-> r] \in Entry
  /\ \A f, r : [fd |-> f, revents |-> r].fd = f /\ [fd |-> f, revents |-> r].revents = r
BY DEF Entry

\* poll sets revents and nothing else.
LEMMA Polled ==
  ASSUME NEW e \in Entry, NEW r \in {"yes", "no"}
  PROVE  /\ [e EXCEPT !.revents = r] \in Entry
         /\ [e EXCEPT !.revents = r].fd = e.fd
         /\ [e EXCEPT !.revents = r].revents = r
BY DEF Entry

LEMMA NextReadyFacts ==
  ASSUME NEW a, NEW n \in Int, NEW j \in Nat
  PROVE  \E y \in Int : /\ y = NextReady(a, n, j)
                        /\ y = -1 \/ (y \in j .. n - 1 /\ a[y].revents = "yes")
<1> DEFINE R == {k \in j .. n - 1 : a[k].revents = "yes"}
<1>1. CASE R = {}
  <2>1. PICK y \in Int : y = -1
    OBVIOUS
  <2>2. y = NextReady(a, n, j)
    BY <1>1, <2>1 DEF NextReady
  <2>3. QED
    BY <2>1, <2>2
<1>2. CASE R # {}
  <2>1. R \in SUBSET Nat
    OBVIOUS
  <2>2. \E k \in R : \A l \in R : k <= l
    BY <1>2, <2>1, HasLeast
  <2>3. PICK y : y = CHOOSE k \in R : \A l \in R : k <= l
    OBVIOUS
  <2>4. y \in R
    BY <2>2, <2>3
  <2>5. y = NextReady(a, n, j)
    BY <1>2, <2>3 DEF NextReady
  <2>6. QED
    BY <2>4, <2>5
<1>3. QED
  BY <1>1, <1>2

-----------------------------------------------------------------------------
(***************************************************************************)
(* The array.                                                              *)
(***************************************************************************)
\* It is as long as there are open connections, and the listening socket.
LEMMA WatchCount ==
  ASSUME NEW a, NEW n \in Nat, NEW S \in SUBSET Conn, Watches(a, n, S)
  PROVE  n = Cardinality(S) + 1 /\ Cardinality(S) \in Nat
<1> DEFINE T == {Listener} \cup S
           U == 0 .. n - 1
           f == [j \in U |-> a[j].fd]
<1>1. f \in [U -> T]
  BY DEF Watches
<1>2. \A t \in T : \E j \in U : f[j] = t
  BY DEF Watches
<1>3. \A j, k \in U : f[j] = f[k] => j = k
  BY DEF Watches
<1>4. f \in Bijection(U, T)
  BY <1>1, <1>2, <1>3 DEF Bijection, Injection, Surjection, IsInjective
<1>5. ExistsBijection(U, T)
  BY <1>4 DEF ExistsBijection
<1>6. IsFiniteSet(U) /\ Cardinality(U) = n
  <2>1. /\ IsFiniteSet(U)
        /\ Cardinality(U) = IF 0 > n - 1 THEN 0 ELSE (n - 1) - 0 + 1
    BY FS_Interval
  <2>2. QED
    BY <2>1
<1>7. Cardinality(T) = n
  BY <1>5, <1>6, FS_Bijection
<1>8. IsFiniteSet(S) /\ Cardinality(S) \in Nat
  BY Constants, FS_Subset, FS_CardinalityType
<1>9. Cardinality(S \cup {Listener}) = Cardinality(S) + 1
  <2>1. Listener \notin S
    BY Constants
  <2>2. QED
    BY <1>8, <2>1, FS_AddElement
<1>10. T = S \cup {Listener}
  OBVIOUS
<1>11. QED
  BY <1>7, <1>8, <1>9, <1>10

\* Only descriptors matter.
LEMMA WatchSame ==
  ASSUME NEW a, NEW b, NEW n \in Nat, n > 0, NEW S, Watches(a, n, S),
         \A j \in 0 .. n - 1 : b[j].fd = a[j].fd
  PROVE  Watches(b, n, S)
<1>1. {b[j].fd : j \in 0 .. n - 1} = {a[j].fd : j \in 0 .. n - 1}
  OBVIOUS
<1>2. b[0].fd = a[0].fd
  OBVIOUS
<1>3. QED
  BY <1>1, <1>2 DEF Watches

LEMMA WatchAdd ==
  ASSUME NEW a, NEW b, NEW n \in Nat, n > 0, NEW S, NEW c, c \notin S, c # Listener,
         Watches(a, n, S), b[n].fd = c, \A j \in 0 .. n - 1 : b[j].fd = a[j].fd
  PROVE  Watches(b, n + 1, S \cup {c})
<1>1. \A j \in 0 .. n - 1 : a[j].fd \in {Listener} \cup S
  BY DEF Watches
<1>2. \A j \in 0 .. n : j \in 0 .. n - 1 \/ j = n
  OBVIOUS
<1>3. (n + 1) - 1 = n /\ 0 \in 0 .. n - 1 /\ \A j \in 0 .. n - 1 : j \in 0 .. n
  OBVIOUS
<1>4. n \in 0 .. n
  OBVIOUS
<1>5. \A j, k \in 0 .. n : b[j].fd = b[k].fd => j = k
  BY <1>1, <1>2 DEF Watches
<1>6. {b[j].fd : j \in 0 .. n} = {Listener} \cup (S \cup {c})
  <2>1. \A j \in 0 .. n : b[j].fd \in {Listener} \cup (S \cup {c})
    BY <1>1, <1>2
  <2>2. \A x \in {Listener} \cup (S \cup {c}) : \E j \in 0 .. n : b[j].fd = x
    <3>1. \A x \in {Listener} \cup S : \E j \in 0 .. n - 1 : a[j].fd = x
      BY DEF Watches
    <3>2. QED
      BY <1>3, <1>4, <3>1
  <2>3. QED
    BY <2>1, <2>2
<1>7. QED
  BY <1>3, <1>5, <1>6 DEF Watches

LEMMA WatchDel ==
  ASSUME NEW a, NEW b, NEW n \in Nat, NEW S, NEW i \in 0 .. n - 1,
         Watches(a, n, S), a[i].fd # Listener, Listener \notin S, b[i] = a[n - 1],
         \A j \in 0 .. n - 1 : j # i => b[j] = a[j]
  PROVE  Watches(b, n - 1, S \ {a[i].fd}) /\ n - 1 > 0 /\ i # 0
<1>1. i # 0 /\ n - 1 > 0 /\ 0 \in 0 .. n - 1 /\ n - 1 \in 0 .. n - 1
  BY DEF Watches
<1>2. b[0].fd = Listener
  BY <1>1 DEF Watches
<1> DEFINE V == 0 .. (n - 1) - 1
<1>3. \A j \in V : j \in 0 .. n - 1 /\ j # n - 1
  OBVIOUS
<1>4. \A j \in V : b[j] = IF j = i THEN a[n - 1] ELSE a[j]
  BY <1>3
<1>5. \A j, k \in V : b[j].fd = b[k].fd => j = k
  BY <1>1, <1>3, <1>4 DEF Watches
<1>6. {b[j].fd : j \in V} = {Listener} \cup (S \ {a[i].fd})
  <2>1. ASSUME NEW j \in V PROVE b[j].fd \in {Listener} \cup (S \ {a[i].fd})
    <3>1. PICK k \in 0 .. n - 1 : b[j] = a[k] /\ k # i
      BY <1>1, <1>3, <1>4
    <3>2. a[k].fd \in {Listener} \cup S /\ a[k].fd # a[i].fd
      BY <3>1 DEF Watches
    <3>3. QED
      BY <3>1, <3>2
  <2>2. ASSUME NEW x \in {Listener} \cup (S \ {a[i].fd}) PROVE \E j \in V : b[j].fd = x
    <3>1. PICK k \in 0 .. n - 1 : a[k].fd = x
      BY DEF Watches
    <3>2. k # i
      BY <3>1
    <3>3. CASE k = n - 1
      <4>1. i \in V /\ b[i].fd = x
        BY <3>1, <3>2, <3>3
      <4>2. QED
        BY <4>1
    <3>4. CASE k # n - 1
      <4>1. k \in V /\ b[k].fd = x
        BY <3>1, <3>2, <3>4
      <4>2. QED
        BY <4>1
    <3>5. QED
      BY <3>3, <3>4
  <2>3. QED
    BY <2>1, <2>2
<1>7. QED
  BY <1>1, <1>2, <1>5, <1>6 DEF Watches

-----------------------------------------------------------------------------
(***************************************************************************)
(* The steps.                                                              *)
(***************************************************************************)
LEMMA InitInv == Init => Inv
<1> SUFFICES ASSUME Init PROVE Inv
  OBVIOUS
<1>1. ArrayOK
  <2>1. 0 \in Index /\ CAPACITY \in 1 .. MaxCapacity /\ 1 \in 1 .. CAPACITY
    BY Constants DEF Index
  <2>2. pfds \in [Index -> Entry]
    BY Entries DEF Init, Unused
  <2>3. QED
    BY <2>1, <2>2, Constants DEF Init, ArrayOK
<1>2. PhasesOK
  BY DEF Init, PhasesOK
<1>3. StreamsOK
  <2>1. PICK f \in [Conn -> UNION {Openings(role, c) : c \in Conn}] :
          /\ \A c \in Conn : f[c] \in Openings(role, c)
          /\ wire = [c \in Conn |-> f[c][1]]
          /\ ends = [c \in Conn |-> f[c][2]]
    BY Zenon DEF Init
  <2>2. role \in {"server", "node"}
    BY DEF Init
  <2>3. ASSUME NEW c \in Conn
        PROVE  /\ wire[c] \in Seq(Int) /\ wire[c] # << >>
               /\ ends[c] \in Seq(1 .. Len(wire[c]))
    <3>1. f[c] \in Openings(role, c)
      BY <2>1
    <3>2. /\ f[c][1] \in Seq(Int) /\ f[c][1] # << >>
          /\ f[c][2] \in Seq(1 .. Len(f[c][1]))
      BY <2>2, <3>1, OpeningsAssumption
    <3>3. wire[c] = f[c][1] /\ ends[c] = f[c][2]
      BY <2>1
    <3>4. QED
      BY <3>2, <3>3
  <2>4. \A c \in Conn : Len(wire[c]) \in Nat /\ Len(wire[c]) > 0
    BY <2>3, EmptySeq, LenProperties
  <2>5. /\ fin \in [Conn -> BOOLEAN]
        /\ arrived = [c \in Conn |-> 0] /\ taken = [c \in Conn |-> 0]
    BY DEF Init
  <2>6. QED
    BY <2>3, <2>4, <2>5 DEF StreamsOK
<1>4. QueueOK
  BY DEF Init, QueueOK
<1>5. Watches(pfds, pfd_count, Open)
  <2>1. Open = {}
    BY DEF Init, Open
  <2>2. 0 \in Index
    BY Constants DEF Index
  <2>3. pfds[0].fd = Listener /\ pfd_count = 1
    BY <2>2 DEF Init
  <2>4. 0 .. pfd_count - 1 = {0}
    BY <2>3
  <2>5. QED
    BY <2>1, <2>3, <2>4 DEF Watches
<1>6. at = -1
  BY DEF Init
<1>7. QED
  BY <1>1, <1>2, <1>3, <1>4, <1>5, <1>6 DEF Inv, Ahead

\* The loop goes on from an entry; what it has yet to come to stays.
GoesOn ==
  /\ at # -1 /\ new \subseteq new' /\ UNCHANGED <<arrived, fin>>
  /\ pfd_count' \in Nat /\ at' = NextReady(pfds', pfd_count', at + 1)
  /\ \A j \in at + 1 .. pfd_count' - 1 :
       (j <= pfd_count - 1 /\ pfds'[j] = pfds[j]) \/ pfds'[j].fd \in new'
  /\ \A c \in Conn : c # pfds[at].fd => taken'[c] = taken[c]

LEMMA AheadStays ==
  ASSUME Inv, GoesOn
  PROVE  /\ Ahead' /\ at' \in -1 .. pfd_count' - 1
         /\ at' # -1 => pfds'[at'].revents = "yes"
<1>1. at \in 0 .. pfd_count - 1 /\ at + 1 \in Nat /\ at \in Nat /\ pfd_count \in Nat
  BY Constants DEF GoesOn, Inv, ArrayOK
<1>2. PICK k \in Nat : k = at + 1
  BY <1>1
<1>3. PICK m \in Nat : m = pfd_count'
  BY DEF GoesOn
<1>4. at' = NextReady(pfds', m, k)
  BY <1>2, <1>3 DEF GoesOn
<1>5. at' = -1 \/ (at' \in k .. m - 1 /\ pfds'[at'].revents = "yes")
  <2>1. PICK a : a = pfds'
    OBVIOUS
  <2>2. PICK y \in Int : /\ y = NextReady(a, m, k)
                         /\ y = -1 \/ (y \in k .. m - 1 /\ a[y].revents = "yes")
    BY NextReadyFacts
  <2>3. y = at'
    BY <1>4, <2>1, <2>2
  <2>4. QED
    BY <2>1, <2>2, <2>3
<1>6. PICK x \in Int : x = at'
  BY <1>5
<1>7. ASSUME x # -1, NEW j \in x .. m - 1,
             pfds'[j].revents = "yes", pfds'[j].fd \in Conn, pfds'[j].fd \notin new'
      PROVE  Talks(pfds[j].fd)'
  <2>1. x \in k .. m - 1
    BY <1>5, <1>6, <1>7
  <2>2. j \in k .. m - 1 /\ j \in Int /\ k <= j
    BY <2>1
  <2>3. j <= pfd_count - 1 /\ pfds'[j] = pfds[j]
    BY <1>2, <1>3, <1>7, <2>2 DEF GoesOn
  <2>4. j # at /\ j \in at .. pfd_count - 1
    BY <1>1, <1>2, <2>2, <2>3
  <2>5. pfds[j].fd # pfds[at].fd
    <3>1. j \in 0 .. pfd_count - 1
      BY <1>1, <2>4
    <3>2. QED
      BY <1>1, <2>4, <3>1 DEF Inv, Watches
  <2>6. Talks(pfds[j].fd)
    <3>1. at # -1
      BY DEF GoesOn
    <3>2. new \subseteq new'
      BY DEF GoesOn
    <3>3. QED
      BY <1>7, <2>3, <2>4, <3>1, <3>2 DEF Inv, Ahead
  <2>7. PICK c \in Conn : c = pfds[j].fd
    BY <1>7, <2>3
  <2>8. taken'[c] = taken[c] /\ pfds'[j].fd = c /\ Talks(c)
    BY <2>3, <2>5, <2>6, <2>7 DEF GoesOn
  <2>9. arrived'[c] = arrived[c] /\ fin'[c] = fin[c]
    BY DEF GoesOn
  <2>10. QED
    BY <2>8, <2>9 DEF Talks
<1>8. Ahead'
  BY <1>3, <1>6, <1>7 DEF Ahead
<1>9. x \in -1 .. m - 1
  BY <1>5, <1>6
<1>10. QED
  BY <1>3, <1>5, <1>6, <1>8, <1>9

LEMMA ConnectInv ==
  ASSUME Inv, NEW c \in Conn, Connect(c)
  PROVE  Inv'
<1>1. UNCHANGED <<pfds, pfd_count, pfd_capacity, at, new, role, wire, ends, arrived, fin, taken>>
  BY DEF Connect, arrayVars, peerVars
<1>2. /\ phase[c] = "idle" /\ phase' = [phase EXCEPT ![c] = "waiting"]
      /\ backlog' = Append(backlog, c)
  BY DEF Connect
<1>3. PhasesOK' /\ \A d \in Conn : phase'[d] = IF d = c THEN "waiting" ELSE phase[d]
  BY <1>1, <1>2 DEF Inv, PhasesOK
<1>4. Open' = Open
  BY <1>2, <1>3 DEF Open
<1>5. QueueOK'
  <2>1. backlog \in Seq(Conn)
    BY DEF Inv, QueueOK
  <2>2. /\ backlog' \in Seq(Conn) /\ Len(backlog') = Len(backlog) + 1 /\ Len(backlog) \in Nat
        /\ \A k \in 1 .. Len(backlog) : backlog'[k] = backlog[k] /\ backlog[k] \in Conn
        /\ backlog'[Len(backlog) + 1] = c
    BY <1>2, <2>1
  <2>3. \A k \in 1 .. Len(backlog) : backlog[k] # c /\ phase[backlog[k]] = "waiting"
    BY <1>2 DEF Inv, QueueOK
  <2>4. PICK n \in Nat : n = Len(backlog)
    BY <2>2
  <2>5. \A k \in 1 .. n + 1 : k \in 1 .. n \/ k = n + 1
    BY <2>4
  <2>6. \A k \in 1 .. n + 1 : phase'[backlog'[k]] = "waiting"
    BY <1>3, <2>2, <2>3, <2>4, <2>5
  <2>7. \A k, l \in 1 .. n : backlog[k] = backlog[l] => k = l
    BY <2>4 DEF Inv, QueueOK
  <2>8. \A k, l \in 1 .. n + 1 : backlog'[k] = backlog'[l] => k = l
    BY <2>2, <2>3, <2>4, <2>5, <2>7
  <2>9. QED
    BY <2>2, <2>4, <2>6, <2>8 DEF QueueOK
<1>6. ArrayOK' /\ StreamsOK' /\ Ahead' /\ (at' # -1 => pfds'[at'].revents = "yes")
  BY <1>1 DEF Inv, ArrayOK, StreamsOK, Ahead, Talks
<1>7. QED
  BY <1>1, <1>3, <1>4, <1>5, <1>6 DEF Inv

LEMMA ArriveInv ==
  ASSUME Inv, NEW c \in Conn, Arrive(c)
  PROVE  Inv'
<1>1. UNCHANGED <<pfds, pfd_count, pfd_capacity, at, new, role, wire, ends, fin, taken, phase, backlog>>
  BY DEF Arrive, arrayVars
<1>2. PICK k \in Breaks(c) : k > arrived[c] /\ arrived' = [arrived EXCEPT ![c] = k]
  BY DEF Arrive
<1>3. /\ arrived \in [Conn -> Nat] /\ taken \in [Conn -> Nat]
      /\ ends[c] \in Seq(1 .. Len(wire[c])) /\ Len(wire[c]) > 0 /\ wire[c] \in Seq(Int)
  BY DEF Inv, StreamsOK
<1>4. k \in Nat /\ k <= Len(wire[c])
  <2>1. PICK n \in Nat : n = Len(wire[c])
    BY <1>3
  <2>2. \A e \in Range(ends[c]) : e \in 1 .. n
    BY <1>3, <2>1, SMTT(30) DEF Range
  <2>3. k = 1 \/ \E e \in Range(ends[c]) : k = e \/ k = e - 1
    BY <1>2 DEF Breaks
  <2>4. QED
    BY <1>3, <2>1, <2>2, <2>3
<1>5. /\ arrived' \in [Conn -> Nat]
      /\ \A d \in Conn : arrived'[d] = IF d = c THEN k ELSE arrived[d]
  BY <1>2, <1>3, <1>4
<1>6. StreamsOK'
  <2>1. \A d \in Conn : arrived'[d] <= Len(wire[d]) /\ taken[d] <= arrived'[d]
    BY <1>2, <1>3, <1>4, <1>5 DEF Inv, StreamsOK
  <2>2. QED
    BY <1>1, <1>5, <2>1 DEF Inv, StreamsOK
<1>7. \A d \in Conn : Talks(d) => Talks(d)'
  BY <1>1, <1>2, <1>3, <1>4, <1>5 DEF Talks
<1>8. Ahead'
  BY <1>1, <1>7 DEF Inv, Ahead
<1>9. ArrayOK' /\ PhasesOK' /\ QueueOK' /\ Open' = Open
  BY <1>1 DEF Inv, ArrayOK, PhasesOK, QueueOK, Open
<1>10. QED
  BY <1>1, <1>6, <1>8, <1>9 DEF Inv

LEMMA CloseInv ==
  ASSUME Inv, NEW c \in Conn, Close(c)
  PROVE  Inv'
<1>1. UNCHANGED <<pfds, pfd_count, pfd_capacity, at, new, role, wire, ends, arrived, taken, phase, backlog>>
  BY DEF Close, arrayVars
<1>2. fin' = [fin EXCEPT ![c] = TRUE] /\ fin \in [Conn -> BOOLEAN]
  BY DEF Close, Inv, StreamsOK
<1>3. fin' \in [Conn -> BOOLEAN] /\ \A d \in Conn : fin[d] => fin'[d]
  BY <1>2
<1>4. StreamsOK'
  BY <1>1, <1>3 DEF Inv, StreamsOK
<1>5. \A d \in Conn : Talks(d) => Talks(d)'
  BY <1>1, <1>3 DEF Talks
<1>6. Ahead'
  BY <1>1, <1>5 DEF Inv, Ahead
<1>7. ArrayOK' /\ PhasesOK' /\ QueueOK' /\ Open' = Open
  BY <1>1 DEF Inv, ArrayOK, PhasesOK, QueueOK, Open
<1>8. QED
  BY <1>1, <1>4, <1>6, <1>7 DEF Inv

LEMMA PollInv ==
  ASSUME Inv, Poll
  PROVE  Inv'
<1>1. UNCHANGED <<pfd_count, pfd_capacity, phase, backlog, role, wire, ends, arrived, fin, taken>>
  BY DEF Poll, peerVars
<1>2. PICK n \in Nat : n = pfd_count /\ n > 0 /\ n <= MaxCapacity
  BY Constants DEF Inv, ArrayOK
<1>3. pfds \in [Index -> Entry] /\ 0 .. n - 1 \subseteq Index
  BY <1>2, Constants DEF Inv, ArrayOK, Index
<1> DEFINE r(j) == IF Readable(pfds[j].fd) THEN "yes" ELSE "no"
           e(j) == IF j >= pfd_count THEN pfds[j] ELSE [pfds[j] EXCEPT !.revents = r(j)]
<1>4. pfds' = [j \in Index |-> e(j)]
  BY DEF Poll
<1>5. ASSUME NEW j \in Index
      PROVE  /\ pfds'[j] \in Entry /\ pfds'[j].fd = pfds[j].fd
             /\ j \in 0 .. n - 1 => (pfds'[j].revents = "yes" <=> Readable(pfds[j].fd))
  <2>1. pfds'[j] = e(j) /\ pfds[j] \in Entry
    BY <1>3, <1>4
  <2>2. PICK v \in {"yes", "no"} : v = r(j) /\ (v = "yes" <=> Readable(pfds[j].fd))
    OBVIOUS
  <2>3. CASE j >= pfd_count
    <3>1. j \notin 0 .. n - 1
      BY <1>2, <2>3
    <3>2. QED
      BY <2>1, <2>3, <3>1
  <2>4. CASE ~(j >= pfd_count)
    <3>1. pfds'[j] = [pfds[j] EXCEPT !.revents = v]
      BY <2>1, <2>2, <2>4
    <3>2. PICK x \in Entry : x = pfds[j]
      BY <2>1
    <3>3. /\ [x EXCEPT !.revents = v] \in Entry /\ [x EXCEPT !.revents = v].fd = x.fd
          /\ [x EXCEPT !.revents = v].revents = v
      BY Polled
    <3>4. pfds'[j] = [x EXCEPT !.revents = v]
      BY <3>1, <3>2
    <3>5. pfds'[j] \in Entry /\ pfds'[j].fd = x.fd /\ pfds'[j].revents = v
      BY <3>3, <3>4, Zenon
    <3>6. QED
      BY <2>2, <3>2, <3>5
  <2>5. QED
    BY <2>3, <2>4
<1>6. pfds' \in [Index -> Entry]
  BY <1>4, <1>5
<1>7. Watches(pfds, n, Open)
  BY <1>2 DEF Inv
<1>8. Watches(pfds', n, Open)
  <2>1. PICK b : b = pfds'
    OBVIOUS
  <2>2. \A j \in 0 .. n - 1 : b[j].fd = pfds[j].fd
    BY <1>3, <1>5, <2>1
  <2>3. Watches(b, n, Open)
    BY <1>2, <1>7, <2>2, WatchSame
  <2>4. QED
    BY <2>1, <2>3
<1>9. PICK x \in Int : x = at' /\ (x = -1 \/ (x \in 0 .. n - 1 /\ pfds'[x].revents = "yes"))
  <2>1. PICK b : b = pfds'
    OBVIOUS
  <2>2. at' = NextReady(b, n, 0)
    BY <1>2, <2>1 DEF Poll
  <2>3. PICK y \in Int : /\ y = NextReady(b, n, 0)
                         /\ y = -1 \/ (y \in 0 .. n - 1 /\ b[y].revents = "yes")
    <3>1. 0 \in Nat /\ n \in Int
      OBVIOUS
    <3>2. QED
      BY <3>1, NextReadyFacts, Zenon
  <2>4. QED
    BY <2>1, <2>2, <2>3
<1>10. Ahead'
  <2>1. ASSUME x # -1, NEW j \in x .. n - 1, pfds'[j].revents = "yes", pfds'[j].fd \in Conn
        PROVE  Talks(pfds[j].fd)'
    <3>1. j \in 0 .. n - 1 /\ j \in Index
      BY <1>3, <1>9, <2>1
    <3>2. Readable(pfds[j].fd) /\ pfds'[j].fd = pfds[j].fd
      BY <1>5, <2>1, <3>1
    <3>3. PICK c \in Conn : c = pfds[j].fd
      BY <2>1, <3>2
    <3>4. arrived[c] > taken[c] \/ fin[c]
      BY <3>2, <3>3, Constants DEF Readable
    <3>5. QED
      BY <1>1, <3>2, <3>3, <3>4 DEF Talks
  <2>2. QED
    BY <1>1, <1>2, <1>9, <2>1 DEF Ahead
<1>11. ArrayOK'
  <2>1. new' = {} /\ x \in -1 .. n - 1
    BY <1>2, <1>9 DEF Poll
  <2>2. QED
    BY <1>1, <1>2, <1>6, <1>9, <2>1 DEF Inv, ArrayOK
<1>12. PhasesOK' /\ StreamsOK' /\ QueueOK' /\ Open' = Open
  BY <1>1 DEF Inv, PhasesOK, StreamsOK, QueueOK, Open
<1>13. QED
  BY <1>1, <1>2, <1>8, <1>9, <1>10, <1>11, <1>12 DEF Inv

\* A request is read: what is taken from c stays within what has arrived.
LEMMA TakenStays ==
  ASSUME StreamsOK, NEW c \in Conn, Handles(c), UNCHANGED <<arrived, fin, wire, ends>>
  PROVE  StreamsOK' /\ \A d \in Conn : d # c => taken'[d] = taken[d]
<1>1. taken \in [Conn -> Nat] /\ arrived[c] \in Nat /\ taken[c] \in Nat /\ wire[c] \in Seq(Int)
  BY DEF StreamsOK
<1>2. arrived[c] > taken[c] /\ arrived[c] <= Len(wire[c])
  BY DEF StreamsOK, Handles, Reads
<1>3. PICK D \in Nat : D = Declared(c)
  <2>1. taken[c] + 1 \in 1 .. Len(wire[c])
    BY <1>1, <1>2
  <2>2. wire[c][taken[c] + 1] \in Int
    BY <1>1, <2>1
  <2>3. ASSUME NEW y \in Int PROVE (y - 1) % 256 \in Nat
    OBVIOUS
  <2>4. QED
    BY <2>2, <2>3 DEF Declared
<1>4. Len(Received(c)) = D
  BY <1>3 DEF Handles, Reads, format_is_message_correct
<1>5. taken[c] + 1 + D <= arrived[c]
  <2>1. PICK hi \in Nat : hi = IF taken[c] + 1 + D <= arrived[c] THEN taken[c] + 1 + D ELSE arrived[c]
    BY <1>1
  <2>2. Received(c) = SubSeq(wire[c], taken[c] + 2, hi)
    BY <1>3, <2>1, Zenon DEF Received
  <2>3. hi <= Len(wire[c])
    <3>1. hi <= arrived[c]
      BY <1>1, <2>1
    <3>2. QED
      BY <1>1, <1>2, <3>1
  <2>4. \A i \in taken[c] + 2 .. hi : wire[c][i] \in Int
    BY <1>1, <2>3
  <2>5. Len(Received(c)) = IF taken[c] + 2 <= hi THEN hi - (taken[c] + 2) + 1 ELSE 0
    BY <1>1, <2>2, <2>4, SubSeqProperties
  <2>6. QED
    BY <1>1, <1>2, <1>4, <2>1, <2>5, SMTT(30)
<1>6. taken' = [taken EXCEPT ![c] = taken[c] + 1 + D]
  BY <1>4 DEF Handles
<1>7. /\ taken' \in [Conn -> Nat]
      /\ \A d \in Conn : taken'[d] = IF d = c THEN taken[c] + 1 + D ELSE taken[d]
  BY <1>1, <1>6
<1>8. StreamsOK'
  <2>1. \A d \in Conn : taken'[d] <= arrived[d]
    BY <1>5, <1>7 DEF StreamsOK
  <2>2. QED
    BY <1>7, <2>1 DEF StreamsOK
<1>9. QED
  BY <1>7, <1>8

LEMMA AcceptInv ==
  ASSUME Inv, Accept
  PROVE  Inv'
<1>1. UNCHANGED <<role, wire, ends, arrived, fin, taken>>
  BY DEF Accept, peerVars
<1>2. PICK n \in Nat : n = pfd_count /\ n > 0 /\ n <= pfd_capacity
  BY Constants DEF Inv, ArrayOK
<1>3. /\ backlog \in Seq(Conn) /\ backlog # << >>
      /\ Len(backlog) \in Nat /\ Len(backlog) > 0 /\ Head(backlog) = backlog[1]
      /\ Tail(backlog) \in Seq(Conn) /\ Len(Tail(backlog)) = Len(backlog) - 1
      /\ \A k \in 1 .. Len(Tail(backlog)) : Tail(backlog)[k] = backlog[k + 1]
  <2>1. backlog \in Seq(Conn) /\ backlog # << >>
    BY DEF Inv, QueueOK, Accept
  <2>2. Len(backlog) \in Nat /\ Len(backlog) > 0
    BY <2>1, EmptySeq
  <2>3. Head(backlog) = backlog[1]
    BY <2>1
  <2>4. /\ Tail(backlog) \in Seq(Conn) /\ Len(Tail(backlog)) = Len(backlog) - 1
        /\ \A k \in 1 .. Len(Tail(backlog)) : Tail(backlog)[k] = backlog[k + 1]
    BY <2>1, HeadTailProperties
  <2>5. QED
    BY <2>1, <2>2, <2>3, <2>4
<1>4. PICK c \in Conn : c = backlog[1] /\ c = Head(backlog) /\ phase[c] = "waiting"
  <2>1. 1 \in 1 .. Len(backlog)
    BY <1>3
  <2>2. backlog[1] \in Conn
    BY <1>3, <2>1
  <2>3. QED
    BY <1>3, <2>1, <2>2 DEF Inv, QueueOK
<1>5. /\ phase' = [phase EXCEPT ![c] = "open"] /\ backlog' = Tail(backlog)
      /\ new' = new \cup {c} /\ pfd_count' = n + 1
      /\ pfd_capacity' = Capacity(n, pfd_capacity)
  BY <1>2, <1>4 DEF Accept
<1>6. PhasesOK' /\ \A d \in Conn : phase'[d] = IF d = c THEN "open" ELSE phase[d]
  BY <1>1, <1>5 DEF Inv, PhasesOK
<1>7. Open' = Open \cup {c} /\ c \notin Open
  BY <1>4, <1>6 DEF Open
<1>8. QueueOK'
  <2>1. PICK m \in Nat : m = Len(backlog) /\ m > 0 /\ Len(backlog') = m - 1
    BY <1>3, <1>5
  <2>2. \A k \in 1 .. m - 1 : backlog'[k] = backlog[k + 1] /\ k + 1 \in 1 .. m /\ k + 1 # 1
    BY <1>3, <1>5, <2>1
  <2>3. \A k, l \in 1 .. m : backlog[k] = backlog[l] => k = l
    BY <2>1 DEF Inv, QueueOK
  <2>4. \A k \in 1 .. m : phase[backlog[k]] = "waiting" /\ backlog[k] \in Conn
    BY <1>3, <2>1 DEF Inv, QueueOK
  <2>5. 1 \in 1 .. m
    BY <2>1
  <2>6. \A k \in 1 .. m - 1 : phase'[backlog'[k]] = "waiting"
    BY <1>4, <1>6, <2>2, <2>3, <2>4, <2>5
  <2>7. \A k, l \in 1 .. m - 1 : backlog'[k] = backlog'[l] => k = l
    <3>1. ASSUME NEW k \in 1 .. m - 1, NEW l \in 1 .. m - 1, backlog'[k] = backlog'[l]
          PROVE  k = l
      <4>1. k + 1 = l + 1
        BY <2>2, <2>3, <3>1
      <4>2. QED
        BY <4>1
    <3>2. QED
      BY <3>1
  <2>8. QED
    BY <1>3, <1>5, <2>1, <2>6, <2>7 DEF QueueOK
\* There is room for the new entry: it is a connection that is not there yet.
<1>9. n + 1 <= pfd_capacity' /\ pfd_capacity' \in 1 .. MaxCapacity /\ n \in Index
  <2>1. Watches(pfds, n, Open) /\ Open \in SUBSET Conn
    BY <1>2 DEF Inv, Open
  <2>2. n = Cardinality(Open) + 1 /\ Cardinality(Open) \in Nat
    BY <2>1, WatchCount
  <2>3. Cardinality(Open \cup {c}) = Cardinality(Open) + 1
    <3>1. IsFiniteSet(Open)
      BY <2>1, Constants, FS_Subset
    <3>2. QED
      BY <1>7, <3>1, FS_AddElement
  <2>4. Cardinality(Open \cup {c}) <= Cardinality(Conn)
    <3>1. Open \cup {c} \in SUBSET Conn
      BY <2>1
    <3>2. QED
      BY <3>1, Constants, FS_Subset
  <2>5. n <= Cardinality(Conn)
    BY <2>2, <2>3, <2>4
  <2>6. PICK p \in Nat : p = pfd_capacity /\ p <= MaxCapacity /\ p > 0
    BY Constants DEF Inv, ArrayOK
  <2>7. pfd_capacity' = IF n = p THEN p * 2 ELSE p
    BY <1>5, <2>6 DEF Capacity
  <2>8. n \in Index
    BY <2>5, Constants DEF Index
  <2>9. QED
    BY <1>2, <2>5, <2>6, <2>7, <2>8, Constants
<1>10. PICK r \in {"yes", "no", "unset"} : pfds' = [pfds EXCEPT ![n] = [fd |-> c, revents |-> r]]
  <2>1. pfds' \in add_to_pfds(c)
    BY <1>4 DEF Accept
  <2>2. pfds[n] \in Entry
    BY <1>9 DEF Inv, ArrayOK
  <2>3. pfds[n].revents \in {"yes", "no", "unset"}
    BY <2>2, Entries
  <2>4. QED
    BY <1>2, <2>1, <2>3 DEF add_to_pfds
<1>11. /\ pfds' \in [Index -> Entry] /\ pfds'[n].fd = c
       /\ \A j \in Index : j # n => pfds'[j] = pfds[j]
  <2>1. PICK e \in Entry : e = [fd |-> c, revents |-> r] /\ e.fd = c
    <3>1. c \in Conn \cup {Listener, "none"}
      OBVIOUS
    <3>2. [fd |-> c, revents |-> r] \in Entry
      BY <3>1, Entries
    <3>3. [fd |-> c, revents |-> r].fd = c
      OBVIOUS
    <3>4. QED
      BY <3>2, <3>3, Zenon
  <2>2. pfds' = [pfds EXCEPT ![n] = e] /\ pfds \in [Index -> Entry]
    BY <1>10, <2>1 DEF Inv, ArrayOK
  <2>3. QED
    BY <1>9, <2>1, <2>2
<1>12. \A j \in 0 .. n - 1 : j \in Index /\ j # n /\ pfds'[j] = pfds[j]
  <2>1. \A j \in 0 .. n - 1 : j \in Index /\ j # n
    BY <1>9, Constants DEF Index
  <2>2. QED
    BY <1>11, <2>1
<1>13. Watches(pfds', n + 1, Open \cup {c})
  <2>1. PICK b : b = pfds'
    OBVIOUS
  <2>2. b[n].fd = c /\ \A j \in 0 .. n - 1 : b[j].fd = pfds[j].fd
    BY <1>11, <1>12, <2>1
  <2>3. Watches(pfds, n, Open) /\ c # Listener
    BY <1>2, Constants DEF Inv
  <2>4. Watches(b, n + 1, Open \cup {c})
    BY <1>2, <1>7, <2>2, <2>3, WatchAdd
  <2>5. QED
    BY <2>1, <2>4
<1>14. GoesOn
  <2>1. at # -1 /\ new \subseteq new' /\ pfd_count' \in Nat
    BY <1>2, <1>5 DEF Accept
  <2>2. at' = NextReady(pfds', pfd_count', at + 1)
    BY DEF Accept
  <2>3. at \in Int /\ at >= 0
    BY <2>1 DEF Inv, ArrayOK
  <2>4. ASSUME NEW j \in at + 1 .. n
        PROVE  (j <= n - 1 /\ pfds'[j] = pfds[j]) \/ pfds'[j].fd \in new'
    <3>1. j = n \/ (j \in 0 .. n - 1 /\ j <= n - 1)
      BY <2>3
    <3>2. CASE j = n
      BY <1>5, <1>11, <3>2
    <3>3. CASE j \in 0 .. n - 1 /\ j <= n - 1
      BY <1>12, <3>3
    <3>4. QED
      BY <3>1, <3>2, <3>3
  <2>5. pfd_count' - 1 = n /\ pfd_count = n
    BY <1>2, <1>5
  <2>6. \A j \in at + 1 .. pfd_count' - 1 :
          (j <= pfd_count - 1 /\ pfds'[j] = pfds[j]) \/ pfds'[j].fd \in new'
    BY <2>4, <2>5
  <2>7. QED
    BY <1>1, <2>1, <2>2, <2>6 DEF GoesOn
<1>15. Ahead' /\ at' \in -1 .. pfd_count' - 1 /\ (at' # -1 => pfds'[at'].revents = "yes")
  BY <1>14, AheadStays
<1>16. ArrayOK'
  <2>1. new' \subseteq Conn /\ n + 1 \in 1 .. pfd_capacity'
    BY <1>2, <1>5, <1>9 DEF Inv, ArrayOK
  <2>2. QED
    BY <1>5, <1>9, <1>11, <1>15, <2>1 DEF ArrayOK
<1>17. StreamsOK'
  BY <1>1 DEF Inv, StreamsOK
<1>18. QED
  BY <1>5, <1>6, <1>7, <1>8, <1>13, <1>15, <1>16, <1>17 DEF Inv

\* The loop is at connection c: what serving it leaves alone.
LEMMA ServeFacts ==
  ASSUME Inv, NEW c \in Conn, Serves(c)
  PROVE  /\ UNCHANGED <<pfd_capacity, new, backlog, role, wire, ends, arrived, fin>>
         /\ at \in 0 .. pfd_count - 1 /\ pfds[at].fd = c /\ c \in Open
         /\ pfd_count \in Nat /\ pfd_count > 0 /\ pfd_count <= pfd_capacity
         /\ 0 .. pfd_count - 1 \subseteq Index /\ pfds \in [Index -> Entry]
<1>1. UNCHANGED <<pfd_capacity, new, backlog, role, wire, ends, arrived, fin>>
  BY DEF Serves, peerVars
<1>2. /\ pfd_count \in Nat /\ pfd_count > 0 /\ pfd_count <= pfd_capacity
      /\ pfds \in [Index -> Entry] /\ pfd_count <= MaxCapacity
  BY Constants DEF Inv, ArrayOK
<1>3. at \in 0 .. pfd_count - 1 /\ pfds[at].fd = c
  BY <1>2 DEF Inv, ArrayOK, Serves
<1>4. c \in Open
  <2>1. c \in {Listener} \cup Open
    BY <1>3 DEF Inv, Watches
  <2>2. QED
    BY <2>1, Constants
<1>5. 0 .. pfd_count - 1 \subseteq Index
  BY <1>2, Constants DEF Index
<1>6. QED
  BY <1>1, <1>2, <1>3, <1>4, <1>5

LEMMA HandleInv ==
  ASSUME Inv, NEW c \in Conn, HandleRequest(c)
  PROVE  Inv'
<1>1. /\ Serves(c) /\ Handles(c) /\ UNCHANGED <<pfds, pfd_count, phase>>
      /\ at' = NextReady(pfds, pfd_count, at + 1)
  BY DEF HandleRequest
<1>2. /\ UNCHANGED <<pfd_capacity, new, backlog, role, wire, ends, arrived, fin>>
      /\ at \in 0 .. pfd_count - 1 /\ pfds[at].fd = c /\ pfd_count \in Nat
  BY <1>1, ServeFacts
<1>3. StreamsOK
  BY DEF Inv
<1>4. StreamsOK' /\ \A d \in Conn : d # c => taken'[d] = taken[d]
  BY <1>1, <1>2, <1>3, TakenStays
<1>5. GoesOn
  <2>1. at # -1 /\ pfd_count' \in Nat /\ at' = NextReady(pfds', pfd_count', at + 1)
    BY <1>1, <1>2
  <2>2. \A j \in at + 1 .. pfd_count' - 1 : j <= pfd_count - 1 /\ pfds'[j] = pfds[j]
    BY <1>1, <1>2
  <2>3. QED
    BY <1>2, <1>4, <2>1, <2>2 DEF GoesOn
<1>6. Ahead' /\ at' \in -1 .. pfd_count' - 1 /\ (at' # -1 => pfds'[at'].revents = "yes")
  BY <1>5, AheadStays
<1>7. ArrayOK' /\ PhasesOK' /\ QueueOK' /\ Open' = Open
  BY <1>1, <1>2, <1>6 DEF Inv, ArrayOK, PhasesOK, QueueOK, Open
<1>8. QED
  BY <1>1, <1>4, <1>6, <1>7 DEF Inv

\* An entry is taken out and the last one put in its place.
LEMMA CloseConnectionInv ==
  ASSUME Inv, NEW c \in Conn, Serves(c), NEW how \in {"closed", "refused"},
         CloseConnection(c, how), StreamsOK',
         \A d \in Conn : d # c => taken'[d] = taken[d]
  PROVE  Inv'
<1>1. /\ UNCHANGED <<pfd_capacity, new, backlog, role, wire, ends, arrived, fin>>
      /\ pfds[at].fd = c /\ c \in Open /\ pfds \in [Index -> Entry]
  BY ServeFacts
<1>2. PICK n \in Nat : n = pfd_count /\ n > 0 /\ n <= pfd_capacity /\ 0 .. n - 1 \subseteq Index
  BY ServeFacts
<1>3. PICK i \in 0 .. n - 1 : i = at
  BY <1>2, ServeFacts
<1>4. /\ phase' = [phase EXCEPT ![c] = how] /\ pfd_count' = n - 1
      /\ pfds' = [pfds EXCEPT ![i] = pfds[n - 1]]
      /\ at' = NextReady(pfds', n - 1, i + 1)
  BY <1>2, <1>3 DEF CloseConnection, del_from_pfds
<1>5. /\ pfds' \in [Index -> Entry] /\ pfds'[i] = pfds[n - 1]
      /\ \A j \in Index : j # i => pfds'[j] = pfds[j]
  <2>1. i \in Index /\ n - 1 \in Index
    BY <1>2
  <2>2. pfds[n - 1] \in Entry
    BY <1>1, <2>1
  <2>3. QED
    BY <1>1, <1>4, <2>1, <2>2
<1>6. PhasesOK' /\ \A d \in Conn : phase'[d] = IF d = c THEN how ELSE phase[d]
  BY <1>1, <1>4 DEF Inv, PhasesOK
<1>7. Open' = Open \ {c} /\ phase[c] = "open"
  BY <1>1, <1>6 DEF Open
<1>8. QueueOK'
  <2>1. \A k \in 1 .. Len(backlog) : phase[backlog[k]] = "waiting" /\ backlog[k] \in Conn
    BY DEF Inv, QueueOK
  <2>2. \A k \in 1 .. Len(backlog) : phase'[backlog[k]] = "waiting"
    BY <1>6, <1>7, <2>1
  <2>3. QED
    BY <1>1, <2>2 DEF Inv, QueueOK
<1>9. Watches(pfds', n - 1, Open \ {c}) /\ n - 1 > 0
  <2>1. PICK b : b = pfds'
    OBVIOUS
  <2>2. PICK a : a = pfds
    OBVIOUS
  <2>3. PICK S : S = Open
    OBVIOUS
  <2>4. Watches(a, n, S)
    BY <1>2, <2>2, <2>3 DEF Inv
  <2>5. a[i].fd # Listener /\ Listener \notin S /\ a[i].fd = c
    BY <1>1, <1>3, <2>2, <2>3, Constants DEF Open
  <2>6. b[i] = a[n - 1] /\ \A j \in 0 .. n - 1 : j # i => b[j] = a[j]
    BY <1>2, <1>5, <2>1, <2>2
  <2>7. Watches(b, n - 1, S \ {a[i].fd}) /\ n - 1 > 0
    BY <2>4, <2>5, <2>6, WatchDel, ZenonT(60)
  <2>8. QED
    BY <2>1, <2>3, <2>5, <2>7
<1>10. GoesOn
  <2>1. at # -1 /\ pfd_count' \in Nat /\ at' = NextReady(pfds', pfd_count', at + 1)
    BY <1>3, <1>4, <1>9
  <2>2. ASSUME NEW j \in i + 1 .. (n - 1) - 1 PROVE j <= n - 1 /\ pfds'[j] = pfds[j]
    <3>1. j \in 0 .. n - 1 /\ j # i /\ j <= n - 1
      OBVIOUS
    <3>2. QED
      BY <1>2, <1>5, <3>1
  <2>3. \A j \in at + 1 .. pfd_count' - 1 : j <= pfd_count - 1 /\ pfds'[j] = pfds[j]
    BY <1>2, <1>3, <1>4, <2>2
  <2>4. QED
    BY <1>1, <2>1, <2>3 DEF GoesOn
<1>11. Ahead' /\ at' \in -1 .. pfd_count' - 1 /\ (at' # -1 => pfds'[at'].revents = "yes")
  BY <1>10, AheadStays
<1>12. ArrayOK'
  <2>1. pfd_capacity \in 1 .. MaxCapacity /\ new \subseteq Conn
    BY DEF Inv, ArrayOK
  <2>2. n - 1 \in 1 .. pfd_capacity
    BY <1>2, <1>9, <2>1, Constants
  <2>3. QED
    BY <1>1, <1>4, <1>5, <1>11, <2>1, <2>2 DEF ArrayOK
<1>13. QED
  BY <1>4, <1>6, <1>7, <1>8, <1>9, <1>11, <1>12 DEF Inv

LEMMA EndInv ==
  ASSUME Inv, NEW c \in Conn, HandlerFails(c) \/ EndsConnection(c)
  PROVE  Inv'
<1>1. StreamsOK
  BY DEF Inv
<1>2. CASE HandlerFails(c)
  <2>1. Serves(c) /\ Handles(c) /\ CloseConnection(c, "refused")
    BY <1>2 DEF HandlerFails
  <2>2. UNCHANGED <<arrived, fin, wire, ends>>
    BY <2>1, ServeFacts
  <2>3. StreamsOK' /\ \A d \in Conn : d # c => taken'[d] = taken[d]
    BY <1>1, <2>1, <2>2, TakenStays
  <2>4. QED
    BY <2>1, <2>3, CloseConnectionInv
<1>3. CASE EndsConnection(c)
  <2>1. Serves(c) /\ CloseConnection(c, "closed") /\ UNCHANGED taken
    BY <1>3 DEF EndsConnection
  <2>2. UNCHANGED <<arrived, fin, wire, ends>>
    BY <2>1, ServeFacts
  <2>3. StreamsOK'
    BY <1>1, <2>1, <2>2 DEF StreamsOK
  <2>4. QED
    BY <2>1, <2>3, CloseConnectionInv
<1>4. QED
  BY <1>2, <1>3

LEMMA NextInv ==
  ASSUME Inv, [Next]_vars
  PROVE  Inv'
<1>1. CASE Next
  BY <1>1, ConnectInv, ArriveInv, CloseInv, PollInv, AcceptInv, HandleInv, EndInv
     DEF Next, Loop
<1>2. CASE UNCHANGED vars
  <2>1. ArrayOK' /\ PhasesOK' /\ QueueOK' /\ Open' = Open
    BY <1>2 DEF vars, Inv, ArrayOK, PhasesOK, QueueOK, Open
  <2>2. StreamsOK'
    BY <1>2 DEF vars, Inv, StreamsOK
  <2>3. Watches(pfds, pfd_count, Open)' /\ (at # -1 => pfds[at].revents = "yes")'
    BY <1>2, <2>1 DEF vars, Inv, Watches
  <2>4. Ahead'
    BY <1>2 DEF vars, Inv, Ahead, Talks
  <2>5. QED
    BY <2>1, <2>2, <2>3, <2>4 DEF Inv
<1>3. QED
  BY <1>1, <1>2

LEMMA SpecInv == Spec => []Inv
<1>1. QED
  BY InitInv, NextInv, PTL DEF Spec

-----------------------------------------------------------------------------
(***************************************************************************)
(* The state is what its types say, in particular the array stays within   *)
(* the memory allotted to it, and no more is read than has arrived.        *)
(***************************************************************************)
THEOREM TypeCorrect == Spec => []TypeOK
<1>1. Inv => TypeOK
  <2> SUFFICES ASSUME Inv PROVE TypeOK
    OBVIOUS
  <2>1. \A c \in Conn : arrived[c] \in 0 .. Len(wire[c]) /\ taken[c] \in 0 .. arrived[c]
    BY DEF Inv, StreamsOK
  <2>2. QED
    BY <2>1 DEF Inv, ArrayOK, PhasesOK, StreamsOK, TypeOK
<1>2. QED
  BY <1>1, SpecInv, PTL

(***************************************************************************)
(* The array has the listening socket and every open connection once,      *)
(* however the loop adds and removes entries while it goes over them.      *)
(***************************************************************************)
THEOREM EveryoneIsWatched == Spec => []WatchedOnce
<1>1. Inv => WatchedOnce
  BY DEF Inv, Watches, WatchedOnce, Open
<1>2. QED
  BY <1>1, SpecInv, PTL

(***************************************************************************)
(* io_read_all blocks the loop only for a connection that has begun a      *)
(* request, or that was accepted in this pass.                             *)
(***************************************************************************)
THEOREM SilentDoNotBlock == Spec => []WaitsForTalkersOnly
<1>1. Inv => WaitsForTalkersOnly
  <2> SUFFICES ASSUME Inv, NEW c \in Conn, Blocked(c)
               PROVE  c \in new \/ arrived[c] > taken[c]
    BY DEF WaitsForTalkersOnly
  <2>1. at # -1 /\ pfds[at].fd = c /\ ~fin[c]
    BY DEF Blocked, Returns
  <2>2. at \in at .. pfd_count - 1 /\ pfds[at].revents = "yes"
    BY <2>1 DEF Inv, ArrayOK
  <2>3. c \notin new => Talks(c)
    BY <2>1, <2>2 DEF Inv, Ahead
  <2>4. QED
    BY <2>1, <2>3 DEF Talks
<1>2. QED
  BY <1>1, SpecInv, PTL

-----------------------------------------------------------------------------
(***************************************************************************)
(* Requests are read as they were written.  First the bytes of a number    *)
(* and what a sequence has in which place when bytes are put behind it.    *)
(***************************************************************************)
Low(x)  == IF x = Garbage THEN Garbage ELSE x % 256
High(x) == IF x = Garbage THEN Garbage ELSE (x \div 256) % 256

LEMMA OneByte ==
  ASSUME NEW x \in Int
  PROVE  Bytes(x, 1) = <<Low(x)>> /\ Low(x) \in Int
<1>1. x \div 256 ^ (1 - 1) = x
  BY SMT
<1>2. Bytes(x, 1) = [k \in 1 .. 1 |-> Low(x)]
  BY <1>1, SMT DEF Bytes, Low
<1>3. QED
  BY <1>2, SMT DEF Low, Garbage

LEMMA TwoBytes ==
  ASSUME NEW x \in Int
  PROVE  Bytes(x, 2) = <<Low(x), High(x)>> /\ Low(x) \in Int /\ High(x) \in Int
<1>1. x \div 256 ^ (1 - 1) = x /\ x \div 256 ^ (2 - 1) = x \div 256
  BY SMT
<1>2. Bytes(x, 2) = [k \in 1 .. 2 |-> IF k = 1 THEN Low(x) ELSE High(x)]
  BY <1>1, SMT DEF Bytes, Low, High
<1>3. QED
  BY <1>2, SMT DEF Low, High, Garbage

LEMMA PutAll ==
  ASSUME NEW s \in Seq(Int), NEW t \in Seq(Int)
  PROVE  /\ s \o t \in Seq(Int) /\ Len(s \o t) = Len(s) + Len(t)
         /\ \A i \in 1 .. Len(s) : (s \o t)[i] = s[i]
         /\ \A j \in 1 .. Len(t) : (s \o t)[Len(s) + j] = t[j]
<1> DEFINE u == s \o t
<1>1. PICK n \in Nat : n = Len(s)
  OBVIOUS
<1>2. PICK l \in Nat : l = Len(t)
  OBVIOUS
<1>3. /\ u \in Seq(Int) /\ Len(u) = n + l
      /\ \A i \in 1 .. n + l : u[i] = IF i <= n THEN s[i] ELSE t[i - n]
  BY <1>1, <1>2, ConcatProperties
<1>4. \A i \in 1 .. n : i \in 1 .. n + l /\ i <= n
  BY SMT
<1>5. \A j \in 1 .. l : n + j \in 1 .. n + l /\ ~(n + j <= n) /\ (n + j) - n = j
  BY SMT
<1>6. (\A i \in 1 .. n : u[i] = s[i]) /\ \A j \in 1 .. l : u[n + j] = t[j]
  BY <1>3, <1>4, <1>5
<1>7. QED
  BY <1>1, <1>2, <1>3, <1>6

LEMMA PutOne ==
  ASSUME NEW s \in Seq(Int), NEW x \in Int
  PROVE  LET u == s \o Bytes(x, 1) IN
         /\ u \in Seq(Int) /\ Len(u) = Len(s) + 1 /\ u[Len(s) + 1] = Low(x)
         /\ \A i \in 1 .. Len(s) : u[i] = s[i]
<1>1. PICK t : t = Bytes(x, 1)
  OBVIOUS
<1>2. t \in Seq(Int) /\ Len(t) = 1 /\ t[1] = Low(x)
  <2>1. PICK b \in Int : b = Low(x)
    BY OneByte
  <2>2. t = <<b>>
    BY <1>1, <2>1, OneByte
  <2>3. QED
    BY <2>1, <2>2
<1>3. PICK u : u = s \o t
  OBVIOUS
<1>4. /\ u \in Seq(Int) /\ Len(u) = Len(s) + Len(t)
      /\ \A i \in 1 .. Len(s) : u[i] = s[i]
      /\ \A j \in 1 .. Len(t) : u[Len(s) + j] = t[j]
  BY <1>2, <1>3, PutAll
<1>5. u[Len(s) + 1] = t[1] /\ Len(u) = Len(s) + 1
  BY <1>2, <1>4
<1>6. QED
  BY <1>1, <1>2, <1>3, <1>4, <1>5

LEMMA PutTwo ==
  ASSUME NEW s \in Seq(Int), NEW x \in Int
  PROVE  LET u == s \o Bytes(x, 2) IN
         /\ u \in Seq(Int) /\ Len(u) = Len(s) + 2
         /\ u[Len(s) + 1] = Low(x) /\ u[Len(s) + 2] = High(x)
         /\ \A i \in 1 .. Len(s) : u[i] = s[i]
<1>1. PICK t : t = Bytes(x, 2)
  OBVIOUS
<1>2. t \in Seq(Int) /\ Len(t) = 2 /\ t[1] = Low(x) /\ t[2] = High(x)
  <2>1. PICK b \in Int : b = Low(x)
    BY TwoBytes
  <2>2. PICK d \in Int : d = High(x)
    BY TwoBytes
  <2>3. t = <<b, d>>
    BY <1>1, <2>1, <2>2, TwoBytes
  <2>4. QED
    BY <2>1, <2>2, <2>3
<1>3. PICK u : u = s \o t
  OBVIOUS
<1>4. /\ u \in Seq(Int) /\ Len(u) = Len(s) + Len(t)
      /\ \A i \in 1 .. Len(s) : u[i] = s[i]
      /\ \A j \in 1 .. Len(t) : u[Len(s) + j] = t[j]
  BY <1>2, <1>3, PutAll
<1>5. u[Len(s) + 1] = t[1] /\ u[Len(s) + 2] = t[2]
  BY <1>2, <1>4
<1>6. QED
  BY <1>1, <1>2, <1>3, <1>4, <1>5

\* A number is what its bytes say, and memory that was never written stays so.
LEMMA ByteBack ==
  ASSUME NEW x \in uint8_t
  PROVE  x \in Int /\ Low(x) = x
<1>1. x \in Int /\ (x = Garbage \/ (0 <= x /\ x <= 255))
  BY SMT DEF uint8_t, Unsigned, Garbage
<1>2. QED
  BY <1>1, SMT DEF Low, Garbage

LEMMA WordBack ==
  ASSUME NEW x \in uint16_t, NEW buf, NEW k,
         At(buf, k) = Low(x), At(buf, k + 1) = High(x)
  PROVE  x \in Int /\ U16(buf, k) = x
<1>1. x \in Int /\ (x = Garbage \/ (0 <= x /\ x <= 65535))
  BY SMT DEF uint16_t, Unsigned, Garbage
<1>2. CASE x = Garbage
  BY <1>1, <1>2 DEF U16, Low, High
<1>3. CASE x # Garbage
  <2>1. /\ Low(x) = x % 256 /\ High(x) = (x \div 256) % 256
        /\ Low(x) # Garbage /\ High(x) # Garbage
    BY <1>1, <1>3, SMT DEF Low, High, Garbage
  <2>2. x = (x % 256) + 256 * ((x \div 256) % 256)
    BY <1>1, <1>3, SMT DEF Garbage
  <2>3. U16(buf, k) = Low(x) + 256 * High(x)
    BY <2>1 DEF U16
  <2>4. QED
    BY <1>1, <2>1, <2>2, <2>3
<1>4. QED
  BY <1>2, <1>3

LEMMA SignedBack ==
  ASSUME NEW x \in int8_t, NEW buf, NEW k, At(buf, k) = Low(x)
  PROVE  x \in Int /\ I8(buf, k) = x
<1>1. x \in Int /\ (x = Garbage \/ (-128 <= x /\ x <= 127))
  BY SMT DEF int8_t, Garbage
<1>2. CASE x = Garbage
  BY <1>1, <1>2, SMT DEF I8, Low, Garbage
<1>3. CASE x # Garbage
  <2>1. Low(x) = x % 256
    BY <1>3 DEF Low
  <2>2. x % 256 = IF x >= 0 THEN x ELSE x + 256
    BY <1>1, <1>3, SMT DEF Garbage
  <2>3. QED
    BY <1>1, <1>3, <2>1, <2>2, SMT DEF I8, Garbage
<1>4. QED
  BY <1>2, <1>3

(***************************************************************************)
(* The application part of a packet.                                       *)
(***************************************************************************)
LEMMA AppFields ==
  ASSUME NEW n \in Nat, NEW a \in app_payload(n)
  PROVE  /\ a.req_type \in DOMAIN app_request /\ app_request[a.req_type] \in Int
         /\ app_request[a.req_type] \in uint8_t
         /\ NameOf(app_request, app_request[a.req_type]) = a.req_type
         /\ a.addr_from \in uint8_t /\ a.addr_to \in uint8_t /\ a.id \in uint16_t
         /\ a.crc \in uint16_t /\ a.message \in Seq(uint8_t) /\ a.message \in Seq(Int)
         /\ Len(a.message) \in Nat /\ Len(a.message) <= n
<1>1. /\ a.req_type \in DOMAIN app_request /\ a.addr_from \in uint8_t
      /\ a.addr_to \in uint8_t /\ a.id \in uint16_t
      /\ a.crc \in uint16_t /\ a.message \in Seq(uint8_t) /\ Len(a.message) <= n
  BY DEF app_payload
<1>2. app_request[a.req_type] \in {0, 1, 2} /\ app_request[a.req_type] \in Int
  BY <1>1 DEF app_request
<1>3. app_request[a.req_type] \in uint8_t
  BY <1>2, SMT DEF uint8_t, Unsigned
<1>4. \A x, y \in DOMAIN app_request : app_request[x] = app_request[y] => x = y
  BY DEF app_request
<1>5. NameOf(app_request, app_request[a.req_type]) = a.req_type
  BY <1>1, <1>4 DEF NameOf
<1>6. a.message \in Seq(Int) /\ Len(a.message) \in Nat
  <2>1. uint8_t \subseteq Int
    BY ByteBack
  <2>2. PICK t, S : t = a.message /\ S = uint8_t
    OBVIOUS
  <2>3. t \in Seq(S) /\ S \subseteq Int
    BY <1>1, <2>1, <2>2
  <2>4. t \in Seq(Int) /\ Len(t) \in Nat
    <3>1. Len(t) \in Nat /\ t = [i \in 1 .. Len(t) |-> t[i]] /\ \A i \in 1 .. Len(t) : t[i] \in S
      BY <2>3
    <3>2. \A i \in 1 .. Len(t) : t[i] \in Int
      BY <2>3, <3>1
    <3>3. QED
      BY <3>1, <3>2
  <2>5. QED
    BY <2>2, <2>4
<1>7. QED
  BY <1>1, <1>2, <1>3, <1>5, <1>6

LEMMA AppBytes ==
  ASSUME NEW n \in Nat, n <= 238, NEW a \in app_payload(n)
  PROVE  LET g == format_app_create_message(a)
             L == Len(a.message)
         IN  /\ g \in Seq(Int) /\ Len(g) = 8 + L /\ L \in Nat
             /\ g[1] = app_request[a.req_type] /\ g[2] = a.addr_from /\ g[3] = a.addr_to
             /\ g[4] = Low(a.id) /\ g[5] = High(a.id) /\ g[6] = L
             /\ \A j \in 1 .. L : g[6 + j] = a.message[j]
             /\ g[7 + L] = Low(a.crc) /\ g[8 + L] = High(a.crc)
<1>1. PICK v \in Int : v = app_request[a.req_type] /\ v \in uint8_t
  BY AppFields
<1>2. PICK t \in Seq(Int) : t = a.message
  BY AppFields
<1>3. PICK L \in Nat : L = Len(t) /\ L <= n
  BY <1>2, AppFields
<1>4. /\ a.addr_from \in Int /\ Low(a.addr_from) = a.addr_from
      /\ a.addr_to \in Int /\ Low(a.addr_to) = a.addr_to
      /\ a.id \in uint16_t /\ a.crc \in uint16_t
  <2>1. /\ a.addr_from \in uint8_t /\ a.addr_to \in uint8_t
        /\ a.id \in uint16_t /\ a.crc \in uint16_t
    BY AppFields
  <2>2. QED
    BY <2>1, ByteBack
<1>5. uint8_t \subseteq Int /\ \A x \in uint8_t : Low(x) = x
  BY ByteBack
<1>6. uint16_t \subseteq Int
  BY SMT DEF uint16_t, Unsigned, Garbage
<1>7. L \in uint8_t
  BY <1>3, SMT DEF uint8_t, Unsigned
<1>8. PICK p1 : p1 = Bytes(v, 1)
  OBVIOUS
<1>9. p1 \in Seq(Int) /\ Len(p1) = 1 /\ p1[1] = v
  <2>1. p1 = <<v>>
    BY <1>1, <1>5, <1>8, OneByte
  <2>2. QED
    BY <2>1
<1>10. PICK p2 : p2 = p1 \o Bytes(a.addr_from, 1)
  OBVIOUS
<1>11. p2 \in Seq(Int) /\ Len(p2) = 2 /\ p2[1] = v /\ p2[2] = a.addr_from
  <2>1. /\ p2 \in Seq(Int) /\ Len(p2) = Len(p1) + 1 /\ p2[Len(p1) + 1] = Low(a.addr_from)
        /\ \A i \in 1 .. Len(p1) : p2[i] = p1[i]
    BY <1>4, <1>9, <1>10, PutOne
  <2>2. QED
    BY <1>4, <1>9, <2>1
<1>12. PICK p3 : p3 = p2 \o Bytes(a.addr_to, 1)
  OBVIOUS
<1>13. /\ p3 \in Seq(Int) /\ Len(p3) = 3 /\ p3[1] = v /\ p3[2] = a.addr_from
       /\ p3[3] = a.addr_to
  <2>1. /\ p3 \in Seq(Int) /\ Len(p3) = Len(p2) + 1 /\ p3[Len(p2) + 1] = Low(a.addr_to)
        /\ \A i \in 1 .. Len(p2) : p3[i] = p2[i]
    BY <1>4, <1>11, <1>12, PutOne
  <2>2. QED
    BY <1>4, <1>11, <2>1
<1>14. PICK p4 : p4 = p3 \o Bytes(a.id, 2)
  OBVIOUS
<1>15. /\ p4 \in Seq(Int) /\ Len(p4) = 5 /\ p4[1] = v /\ p4[2] = a.addr_from
       /\ p4[3] = a.addr_to /\ p4[4] = Low(a.id) /\ p4[5] = High(a.id)
  <2>1. /\ p4 \in Seq(Int) /\ Len(p4) = Len(p3) + 2 /\ p4[Len(p3) + 1] = Low(a.id)
        /\ p4[Len(p3) + 2] = High(a.id) /\ \A i \in 1 .. Len(p3) : p4[i] = p3[i]
    BY <1>4, <1>6, <1>13, <1>14, PutTwo
  <2>2. QED
    BY <1>13, <2>1
<1>16. PICK p5 : p5 = p4 \o Bytes(L, 1)
  OBVIOUS
<1>17. /\ p5 \in Seq(Int) /\ Len(p5) = 6 /\ p5[1] = v /\ p5[2] = a.addr_from
       /\ p5[3] = a.addr_to /\ p5[4] = Low(a.id) /\ p5[5] = High(a.id) /\ p5[6] = L
  <2>1. /\ p5 \in Seq(Int) /\ Len(p5) = Len(p4) + 1 /\ p5[Len(p4) + 1] = Low(L)
        /\ \A i \in 1 .. Len(p4) : p5[i] = p4[i]
    <3>1. L \in Int
      OBVIOUS
    <3>2. QED
      BY <1>15, <1>16, <3>1, PutOne
  <2>2. QED
    BY <1>5, <1>7, <1>15, <2>1
<1>18. PICK p6 : p6 = p5 \o t
  OBVIOUS
<1>19. /\ p6 \in Seq(Int) /\ Len(p6) = 6 + L /\ p6[1] = v /\ p6[2] = a.addr_from
       /\ p6[3] = a.addr_to /\ p6[4] = Low(a.id) /\ p6[5] = High(a.id) /\ p6[6] = L
       /\ \A j \in 1 .. L : p6[6 + j] = t[j]
  <2>1. /\ p6 \in Seq(Int) /\ Len(p6) = Len(p5) + Len(t)
        /\ \A i \in 1 .. Len(p5) : p6[i] = p5[i]
        /\ \A j \in 1 .. Len(t) : p6[Len(p5) + j] = t[j]
    BY <1>2, <1>17, <1>18, PutAll
  <2>2. Len(p6) = 6 + L /\ \A j \in 1 .. L : p6[6 + j] = t[j]
    BY <1>3, <1>17, <2>1
  <2>3. /\ p6[1] = p5[1] /\ p6[2] = p5[2] /\ p6[3] = p5[3]
        /\ p6[4] = p5[4] /\ p6[5] = p5[5] /\ p6[6] = p5[6]
    <3>1. \A i \in 1 .. 6 : p6[i] = p5[i]
      BY <1>17, <2>1
    <3>2. QED
      BY <3>1
  <2>4. QED
    BY <1>17, <2>1, <2>2, <2>3
<1>20. PICK p7 : p7 = p6 \o Bytes(a.crc, 2)
  OBVIOUS
<1>21. /\ p7 \in Seq(Int) /\ Len(p7) = 8 + L /\ p7[7 + L] = Low(a.crc)
       /\ p7[8 + L] = High(a.crc) /\ \A i \in 1 .. 6 + L : p7[i] = p6[i]
  <2>1. /\ p7 \in Seq(Int) /\ Len(p7) = Len(p6) + 2 /\ p7[Len(p6) + 1] = Low(a.crc)
        /\ p7[Len(p6) + 2] = High(a.crc) /\ \A i \in 1 .. Len(p6) : p7[i] = p6[i]
    BY <1>4, <1>6, <1>19, <1>20, PutTwo
  <2>2. (6 + L) + 1 = 7 + L /\ (6 + L) + 2 = 8 + L
    BY <1>3
  <2>3. QED
    BY <1>19, <2>1, <2>2
<1>22. /\ p7[1] = v /\ p7[2] = a.addr_from /\ p7[3] = a.addr_to /\ p7[4] = Low(a.id)
       /\ p7[5] = High(a.id) /\ p7[6] = L /\ \A j \in 1 .. L : p7[6 + j] = t[j]
  <2>1. /\ {1, 2, 3, 4, 5, 6} \subseteq 1 .. 6 + L
        /\ \A j \in 1 .. L : 6 + j \in 1 .. 6 + L
    BY <1>3, SMT
  <2>2. QED
    BY <1>19, <1>21, <2>1
<1>23. p7 = format_app_create_message(a)
  BY <1>1, <1>2, <1>3, <1>8, <1>10, <1>12, <1>14, <1>16, <1>18, <1>20
     DEF format_app_create_message
<1>24. QED
  BY <1>1, <1>2, <1>3, <1>21, <1>22, <1>23

LEMMA AppParse ==
  ASSUME NEW n \in Nat, n <= 238, NEW a \in app_payload(n), NEW buf, NEW k \in Nat,
         \A i \in 1 .. 8 + Len(a.message) :
           At(buf, k + (i - 1)) = format_app_create_message(a)[i]
  PROVE  format_app_parse_message(buf, k) = a
<1>1. PICK g : g = format_app_create_message(a)
  OBVIOUS
<1>2. PICK L \in Nat : L = Len(a.message)
  BY AppFields
<1>3. /\ g[1] = app_request[a.req_type] /\ g[2] = a.addr_from /\ g[3] = a.addr_to
      /\ g[4] = Low(a.id) /\ g[5] = High(a.id) /\ g[6] = L
      /\ \A j \in 1 .. L : g[6 + j] = a.message[j]
      /\ g[7 + L] = Low(a.crc) /\ g[8 + L] = High(a.crc)
  BY <1>1, <1>2, AppBytes
<1>4. \A i \in 1 .. 8 + L : At(buf, k + (i - 1)) = g[i]
  BY <1>1, <1>2
<1>5. /\ At(buf, k) = g[1] /\ At(buf, k + 1) = g[2] /\ At(buf, k + 2) = g[3]
      /\ At(buf, k + 3) = g[4] /\ At(buf, k + 4) = g[5] /\ At(buf, k + 5) = g[6]
  <2>1. /\ 1 \in 1 .. 8 + L /\ 2 \in 1 .. 8 + L /\ 3 \in 1 .. 8 + L
        /\ 4 \in 1 .. 8 + L /\ 5 \in 1 .. 8 + L /\ 6 \in 1 .. 8 + L
    BY SMT
  <2>2. /\ k + (1 - 1) = k /\ k + (2 - 1) = k + 1 /\ k + (3 - 1) = k + 2
        /\ k + (4 - 1) = k + 3 /\ k + (5 - 1) = k + 4 /\ k + (6 - 1) = k + 5
    BY SMT
  <2>3. QED
    BY <1>4, <2>1, <2>2
<1>6. At(buf, (k + 6) + L) = g[7 + L] /\ At(buf, ((k + 6) + L) + 1) = g[8 + L]
  <2>1. 7 + L \in 1 .. 8 + L /\ 8 + L \in 1 .. 8 + L
    BY SMT
  <2>2. k + ((7 + L) - 1) = (k + 6) + L /\ k + ((8 + L) - 1) = ((k + 6) + L) + 1
    BY SMT
  <2>3. QED
    BY <1>4, <2>1, <2>2
<1>7. \A j \in 1 .. L : At(buf, (k + 5) + j) = a.message[j]
  <2> SUFFICES ASSUME NEW j \in 1 .. L
               PROVE  At(buf, (k + 5) + j) = a.message[j]
    OBVIOUS
  <2>1. 6 + j \in 1 .. 8 + L /\ k + ((6 + j) - 1) = (k + 5) + j
    BY SMT
  <2>2. QED
    BY <1>3, <1>4, <2>1
<1>8. (IF U8(buf, k + 5) = Garbage THEN 0 ELSE U8(buf, k + 5)) = L
  BY <1>3, <1>5, SMT DEF U8, Garbage
<1>9. (k + 3) + 1 = k + 4
  BY SMT
<1>10. U16(buf, k + 3) = a.id
  <2>1. a.id \in uint16_t
    BY AppFields
  <2>2. QED
    BY <1>3, <1>5, <1>9, <2>1, WordBack
<1>11. U16(buf, (k + 6) + L) = a.crc
  <2>1. a.crc \in uint16_t
    BY AppFields
  <2>2. QED
    BY <1>3, <1>6, <2>1, WordBack
<1>12. [j \in 1 .. L |-> At(buf, (k + 5) + j)] = a.message
  <2>1. a.message = [j \in 1 .. L |-> a.message[j]]
    BY <1>2, AppFields
  <2>2. QED
    BY <1>7, <2>1
<1>13. NameOf(app_request, U8(buf, k)) = a.req_type
  BY <1>3, <1>5, AppFields DEF U8
<1>14. format_app_parse_message(buf, k) =
         [req_type |-> a.req_type, addr_from |-> a.addr_from, addr_to |-> a.addr_to,
          id |-> a.id, message |-> a.message, crc |-> a.crc]
  <2>1. U8(buf, k + 1) = a.addr_from /\ U8(buf, k + 2) = a.addr_to
    BY <1>3, <1>5 DEF U8
  <2>2. QED
    BY <1>8, <1>10, <1>11, <1>12, <1>13, <2>1 DEF format_app_parse_message
<1>15. QED
  BY <1>14 DEF app_payload

(***************************************************************************)
(* A request and what is read of it once its length was taken off.         *)
(***************************************************************************)
LEMMA KindBack ==
  /\ \A r \in DOMAIN request : request[r] \in Int /\ NameOf(request, request[r]) = r
  /\ \A s \in DOMAIN request_sender :
       request_sender[s] \in Int /\ NameOf(request_sender, request_sender[s]) = s
<1>1. /\ \A x, y \in DOMAIN request : request[x] = request[y] => x = y
      /\ \A x \in DOMAIN request : request[x] \in Int
  BY DEF request
<1>2. /\ \A x, y \in DOMAIN request_sender : request_sender[x] = request_sender[y] => x = y
      /\ \A x \in DOMAIN request_sender : request_sender[x] \in Int
  BY DEF request_sender
<1>3. QED
  BY <1>1, <1>2 DEF NameOf

LEMMA FrameBytes ==
  ASSUME NEW n, NEW m, m.req \in DOMAIN request, m.sender \in DOMAIN request_sender,
         PayloadBytes(m, n) \in Seq(Int), Len(PayloadBytes(m, n)) <= 252
  PROVE  LET p == PayloadBytes(m, n)
             f == format_create(m, n)
             buf == SubSeq(f, 2, Len(f))
         IN  /\ f \in Seq(Int) /\ Len(f) = Len(p) + 3 /\ f[1] = Len(f)
             /\ NameOf(request, U8(buf, 1)) = m.req
             /\ format_define_sender(buf) = m.sender
             /\ \A i \in 1 .. Len(p) : At(buf, 2 + i) = p[i]
<1>1. PICK p \in Seq(Int) : p = PayloadBytes(m, n)
  OBVIOUS
<1>2. PICK l \in Nat : l = Len(p) /\ l <= 252
  BY <1>1
<1>3. PICK x \in Int : x = request[m.req]
  BY KindBack
<1>4. PICK y \in Int : y = request_sender[m.sender]
  BY KindBack
<1>5. (l + 3) % 256 = l + 3
  BY <1>2, SMT
<1>6. PICK h : h = <<l + 3, x, y>>
  OBVIOUS
<1>7. PICK f : f = h \o p
  OBVIOUS
<1>8. f = format_create(m, n)
  BY <1>1, <1>2, <1>3, <1>4, <1>5, <1>6, <1>7 DEF format_create, create_base, MSG_BASE_LEN
<1>9. h \in Seq(Int) /\ Len(h) = 3 /\ h[1] = l + 3 /\ h[2] = x /\ h[3] = y
  BY <1>6
<1>10. /\ f \in Seq(Int) /\ Len(f) = l + 3 /\ f[1] = l + 3 /\ f[2] = x /\ f[3] = y
       /\ \A i \in 1 .. l : f[3 + i] = p[i]
  <2>1. /\ f \in Seq(Int) /\ Len(f) = Len(h) + Len(p)
        /\ \A i \in 1 .. Len(h) : f[i] = h[i]
        /\ \A j \in 1 .. Len(p) : f[Len(h) + j] = p[j]
    BY <1>7, <1>9, PutAll
  <2>2. QED
    BY <1>2, <1>9, <2>1
<1>11. PICK buf : buf = SubSeq(f, 2, Len(f))
  OBVIOUS
<1>12. Len(buf) = l + 2 /\ \A i \in 1 .. l + 2 : buf[i] = f[i + 1]
  <2>1. buf = [i \in 1 .. l + 2 |-> f[i + 1]] /\ Len(buf) = l + 2
    BY <1>2, <1>10, <1>11
  <2>2. QED
    BY <2>1
<1>13. \A i \in 1 .. l + 2 : At(buf, i) = f[i + 1]
  BY <1>12 DEF At
<1>14. U8(buf, 1) = x /\ U8(buf, 2) = y
  <2>1. 1 \in 1 .. l + 2 /\ 2 \in 1 .. l + 2 /\ 1 + 1 = 2 /\ 2 + 1 = 3
    BY SMT
  <2>2. QED
    BY <1>10, <1>13, <2>1 DEF U8
<1>15. \A i \in 1 .. l : At(buf, 2 + i) = p[i]
  <2> SUFFICES ASSUME NEW i \in 1 .. l PROVE At(buf, 2 + i) = p[i]
    OBVIOUS
  <2>1. 2 + i \in 1 .. l + 2 /\ (2 + i) + 1 = 3 + i
    BY SMT
  <2>2. QED
    BY <1>10, <1>13, <2>1
<1>16. NameOf(request, U8(buf, 1)) = m.req /\ format_define_sender(buf) = m.sender
  BY <1>3, <1>4, <1>14, KindBack DEF format_define_sender
<1>17. QED
  BY <1>1, <1>2, <1>8, <1>10, <1>11, <1>15, <1>16

\* What a payload is on the wire, and read again; n is APP_MESSAGE_LEN.
Holds(buf, p) == \A i \in 1 .. Len(p) : At(buf, 2 + i) = p[i]

LowWord(x)  == x % 65536
HighWord(x) == x \div 65536

LEMMA FourBytes ==
  ASSUME NEW x \in Unsigned(INT32_MAX), NEW s \in Seq(Int)
  PROVE  LET u == s \o Bytes(x, 4) IN
         /\ u \in Seq(Int) /\ Len(u) = Len(s) + 4
         /\ u[Len(s) + 1] = Low(LowWord(x)) /\ u[Len(s) + 2] = High(LowWord(x))
         /\ u[Len(s) + 3] = Low(HighWord(x)) /\ u[Len(s) + 4] = High(HighWord(x))
         /\ \A i \in 1 .. Len(s) : u[i] = s[i]
<1>1. x \in Int /\ 0 <= x /\ x <= 2147483647
  BY SMT DEF Unsigned, INT32_MAX
<1>2. PICK b1 \in Int : b1 = x % 256
  BY <1>1, SMT
<1>3. PICK b2 \in Int : b2 = (x \div 256) % 256
  BY <1>1, SMT
<1>4. PICK b3 \in Int : b3 = (x \div 65536) % 256
  BY <1>1, SMT
<1>5. PICK b4 \in Int : b4 = (x \div 16777216) % 256
  BY <1>1, SMT
<1>6. /\ 256 ^ (1 - 1) = 1 /\ 256 ^ (2 - 1) = 256
      /\ 256 ^ (3 - 1) = 65536 /\ 256 ^ (4 - 1) = 16777216
  BY SMT
<1>7. PICK t : t = Bytes(x, 4)
  OBVIOUS
<1>8. t = <<b1, b2, b3, b4>>
  <2>1. x # Garbage /\ x \div 1 = x
    BY <1>1, SMT DEF Garbage
  <2>2. t = [k \in 1 .. 4 |-> (x \div 256 ^ (k - 1)) % 256]
    BY <1>7, <2>1, SMT DEF Bytes
  <2>3. t[1] = b1 /\ t[2] = b2 /\ t[3] = b3 /\ t[4] = b4
    BY <1>2, <1>3, <1>4, <1>5, <1>6, <2>1, <2>2, SMT
  <2>4. QED
    BY <2>2, <2>3, SMT
<1>9. b1 = Low(LowWord(x)) /\ b2 = High(LowWord(x))
  <2>1. x % 65536 \in Int /\ 0 <= x % 65536
    BY <1>1, SMT
  <2>2. (x % 65536) % 256 = x % 256 /\ ((x % 65536) \div 256) % 256 = (x \div 256) % 256
    BY <1>1, SMT
  <2>3. x % 65536 # Garbage
    BY <2>1, SMT DEF Garbage
  <2>4. QED
    BY <1>2, <1>3, <2>2, <2>3, SMT DEF Low, High, LowWord
<1>10. b3 = Low(HighWord(x)) /\ b4 = High(HighWord(x))
  <2>1. x \div 65536 \in Int /\ 0 <= x \div 65536
    BY <1>1, SMT
  <2>2. (x \div 65536) \div 256 = x \div 16777216
    BY <1>1, SMT
  <2>3. x \div 65536 # Garbage
    BY <2>1, SMT DEF Garbage
  <2>4. QED
    BY <1>4, <1>5, <2>2, <2>3, SMT DEF Low, High, HighWord
<1>11. t \in Seq(Int) /\ Len(t) = 4 /\ t[1] = b1 /\ t[2] = b2 /\ t[3] = b3 /\ t[4] = b4
  BY <1>8, SMT
<1> PICK u : u = s \o t
  OBVIOUS
<1>12. /\ u \in Seq(Int) /\ Len(u) = Len(s) + Len(t)
       /\ \A i \in 1 .. Len(s) : u[i] = s[i]
       /\ \A j \in 1 .. Len(t) : u[Len(s) + j] = t[j]
  BY <1>11, PutAll
<1>13. /\ u[Len(s) + 1] = t[1] /\ u[Len(s) + 2] = t[2]
       /\ u[Len(s) + 3] = t[3] /\ u[Len(s) + 4] = t[4]
  BY <1>11, <1>12, SMT
<1>14. u[Len(s) + 1] = Low(LowWord(x)) /\ u[Len(s) + 2] = High(LowWord(x))
  <2>1. t[1] = b1 /\ t[2] = b2
    BY <1>11
  <2>2. QED
    BY <1>9, <1>13, <2>1
<1>15. u[Len(s) + 3] = Low(HighWord(x)) /\ u[Len(s) + 4] = High(HighWord(x))
  <2>1. t[3] = b3 /\ t[4] = b4
    BY <1>11
  <2>2. QED
    BY <1>10, <1>13, <2>1
<1>16. Len(u) = Len(s) + 4
  BY <1>11, <1>12, SMT
<1>17. QED
  BY <1>7, <1>12, <1>14, <1>15, <1>16

LEMMA LongBack ==
  ASSUME NEW x \in Unsigned(INT32_MAX), NEW buf, NEW k \in Nat,
         At(buf, k) = Low(LowWord(x)), At(buf, k + 1) = High(LowWord(x)),
         At(buf, k + 2) = Low(HighWord(x)), At(buf, k + 3) = High(HighWord(x))
  PROVE  I32(buf, k) = x
<1>1. x \in Int /\ 0 <= x /\ x <= 2147483647
  BY SMT DEF Unsigned, INT32_MAX
<1>2. PICK y \in Int : y = LowWord(x) /\ y = x % 65536 /\ 0 <= y /\ y <= 65535
  BY <1>1, SMT DEF LowWord
<1>3. PICK z \in Int : z = HighWord(x) /\ z = x \div 65536 /\ 0 <= z /\ z <= 65535
  BY <1>1, SMT DEF HighWord
<1>4. y \in uint16_t /\ z \in uint16_t
  BY <1>2, <1>3, SMT DEF uint16_t, Unsigned
<1>5. U16(buf, k) = y
  BY <1>2, <1>4, WordBack
<1>6. U16(buf, k + 2) = z
  <2>1. (k + 2) + 1 = k + 3
    BY SMT
  <2>2. QED
    BY <1>3, <1>4, <2>1, WordBack
<1>7. y # Garbage /\ z # Garbage
  BY <1>2, <1>3, SMT DEF Garbage
<1>8. I32(buf, k) = y + 65536 * z
  BY <1>5, <1>6, <1>7, SMT DEF I32
<1>9. x = y + 65536 * z
  BY <1>1, <1>2, <1>3, SMT
<1>10. QED
  BY <1>8, <1>9, SMT

\* Numbers that are always set.
LEMMA SetNumbers ==
  /\ \A x \in Unsigned(255) : x \in uint8_t /\ x \in Int
  /\ \A x \in Unsigned(65535) : x \in uint16_t /\ x \in Int
  /\ uint8_t \subseteq Int /\ uint16_t \subseteq Int /\ int8_t \subseteq Int
<1>1. /\ \A x \in Unsigned(255) : x \in uint8_t
      /\ \A x \in Unsigned(65535) : x \in uint16_t
  BY DEF uint8_t, uint16_t
<1>2. uint8_t \subseteq Int /\ uint16_t \subseteq Int /\ int8_t \subseteq Int
  BY SMT DEF uint8_t, uint16_t, int8_t, Unsigned, Garbage
<1>3. \A x \in Unsigned(255) : x \in Int
  BY SMT DEF Unsigned
<1>4. \A x \in Unsigned(65535) : x \in Int
  BY SMT DEF Unsigned
<1>5. QED
  BY <1>1, <1>2, <1>3, <1>4

LEMMA UpdateBack ==
  ASSUME NEW q \in node_update_t
  PROVE  LET p == Bytes(q.port, 2) \o Bytes(q.addr, 1) \o Bytes(q.pid, 4)
         IN  /\ p \in Seq(Int) /\ Len(p) = 7
             /\ \A buf : Holds(buf, p) => parse_node_update_payload(buf) = q
<1>1. /\ q.port \in uint16_t /\ q.addr \in uint8_t /\ q.pid \in Unsigned(INT32_MAX)
      /\ q.port \in Int /\ q.addr \in Int
      /\ q = [port |-> q.port, addr |-> q.addr, pid |-> q.pid]
  BY SetNumbers DEF node_update_t
<1>2. PICK p1 : p1 = Bytes(q.port, 2)
  OBVIOUS
<1>3. p1 \in Seq(Int) /\ Len(p1) = 2 /\ p1[1] = Low(q.port) /\ p1[2] = High(q.port)
  <2>1. PICK b \in Int : b = Low(q.port)
    BY <1>1, TwoBytes
  <2>2. PICK d \in Int : d = High(q.port)
    BY <1>1, TwoBytes
  <2>3. p1 = <<b, d>>
    BY <1>1, <1>2, <2>1, <2>2, TwoBytes
  <2>4. QED
    BY <2>1, <2>2, <2>3
<1>4. PICK p2 : p2 = p1 \o Bytes(q.addr, 1)
  OBVIOUS
<1>5. /\ p2 \in Seq(Int) /\ Len(p2) = 3 /\ p2[1] = Low(q.port) /\ p2[2] = High(q.port)
      /\ p2[3] = q.addr
  <2>1. /\ p2 \in Seq(Int) /\ Len(p2) = Len(p1) + 1 /\ p2[Len(p1) + 1] = Low(q.addr)
        /\ \A i \in 1 .. Len(p1) : p2[i] = p1[i]
    BY <1>1, <1>3, <1>4, PutOne
  <2>2. Low(q.addr) = q.addr
    BY <1>1, ByteBack
  <2>3. QED
    BY <1>3, <2>1, <2>2
<1>6. PICK p : p = p2 \o Bytes(q.pid, 4)
  OBVIOUS
<1>7. /\ p \in Seq(Int) /\ Len(p) = 7 /\ p[1] = Low(q.port) /\ p[2] = High(q.port)
      /\ p[3] = q.addr
      /\ p[4] = Low(LowWord(q.pid)) /\ p[5] = High(LowWord(q.pid))
      /\ p[6] = Low(HighWord(q.pid)) /\ p[7] = High(HighWord(q.pid))
  <2>1. /\ p \in Seq(Int) /\ Len(p) = Len(p2) + 4
        /\ p[Len(p2) + 1] = Low(LowWord(q.pid)) /\ p[Len(p2) + 2] = High(LowWord(q.pid))
        /\ p[Len(p2) + 3] = Low(HighWord(q.pid)) /\ p[Len(p2) + 4] = High(HighWord(q.pid))
        /\ \A i \in 1 .. Len(p2) : p[i] = p2[i]
    <3>1. p2 \in Seq(Int) /\ q.pid \in Unsigned(INT32_MAX)
      BY <1>1, <1>5
    <3>2. QED
      BY <1>6, <3>1, FourBytes
  <2>2. QED
    BY <1>5, <2>1
<1>8. ASSUME NEW buf, Holds(buf, p)
      PROVE  parse_node_update_payload(buf) = q
  <2>1. /\ At(buf, 3) = p[1] /\ At(buf, 4) = p[2] /\ At(buf, 5) = p[3] /\ At(buf, 6) = p[4]
        /\ At(buf, 7) = p[5] /\ At(buf, 8) = p[6] /\ At(buf, 9) = p[7]
    <3>1. /\ 1 \in 1 .. 7 /\ 2 \in 1 .. 7 /\ 3 \in 1 .. 7 /\ 4 \in 1 .. 7
          /\ 5 \in 1 .. 7 /\ 6 \in 1 .. 7 /\ 7 \in 1 .. 7
      BY SMT
    <3>2. /\ 2 + 1 = 3 /\ 2 + 2 = 4 /\ 2 + 3 = 5 /\ 2 + 4 = 6
          /\ 2 + 5 = 7 /\ 2 + 6 = 8 /\ 2 + 7 = 9
      BY SMT
    <3>3. \A i \in 1 .. 7 : At(buf, 2 + i) = p[i]
      BY <1>7, <1>8 DEF Holds
    <3>4. QED
      BY <3>1, <3>2, <3>3
  <2>2. U16(buf, 3) = q.port
    <3>1. 3 + 1 = 4
      OBVIOUS
    <3>2. QED
      BY <1>1, <1>7, <2>1, <3>1, WordBack
  <2>3. I32(buf, 6) = q.pid
    <3>1. 6 \in Nat /\ 6 + 1 = 7 /\ 6 + 2 = 8 /\ 6 + 3 = 9
      OBVIOUS
    <3>2. QED
      BY <1>1, <1>7, <2>1, <3>1, LongBack
  <2>4. U8(buf, 5) = q.addr
    BY <1>7, <2>1 DEF U8
  <2>5. QED
    BY <1>1, <2>2, <2>3, <2>4 DEF parse_node_update_payload
<1>9. p = Bytes(q.port, 2) \o Bytes(q.addr, 1) \o Bytes(q.pid, 4)
  BY <1>2, <1>4, <1>6
<1>10. QED
  BY <1>7, <1>8, <1>9

LEMMA NotifyBack ==
  ASSUME NEW q \in notify_t
  PROVE  LET p == Bytes(notify_type[q.type], 1) \o Bytes(q.app_msg_id, 2)
         IN  /\ p \in Seq(Int) /\ Len(p) = 3
             /\ \A buf : Holds(buf, p) => parse_notify_payload(buf) = q
<1>1. /\ q.type \in DOMAIN notify_type /\ q.app_msg_id \in uint16_t /\ q.app_msg_id \in Int
      /\ q = [type |-> q.type, app_msg_id |-> q.app_msg_id]
  BY SetNumbers DEF notify_t
<1>2. PICK v \in Int : v = notify_type[q.type] /\ Low(v) = v
  <2>1. notify_type[q.type] \in {0, 1}
    BY <1>1 DEF notify_type
  <2>2. notify_type[q.type] \in uint8_t
    BY <2>1, SMT DEF uint8_t, Unsigned
  <2>3. QED
    BY <2>2, ByteBack
<1>3. NameOf(notify_type, v) = q.type
  <2>1. \A x, y \in DOMAIN notify_type : notify_type[x] = notify_type[y] => x = y
    BY DEF notify_type
  <2>2. QED
    BY <1>1, <1>2, <2>1 DEF NameOf
<1>4. PICK p1 : p1 = Bytes(v, 1)
  OBVIOUS
<1>5. p1 \in Seq(Int) /\ Len(p1) = 1 /\ p1[1] = v
  <2>1. p1 = <<v>>
    BY <1>2, <1>4, OneByte
  <2>2. QED
    BY <2>1
<1>6. PICK p : p = p1 \o Bytes(q.app_msg_id, 2)
  OBVIOUS
<1>7. /\ p \in Seq(Int) /\ Len(p) = 3 /\ p[1] = v
      /\ p[2] = Low(q.app_msg_id) /\ p[3] = High(q.app_msg_id)
  <2>1. /\ p \in Seq(Int) /\ Len(p) = Len(p1) + 2 /\ p[Len(p1) + 1] = Low(q.app_msg_id)
        /\ p[Len(p1) + 2] = High(q.app_msg_id) /\ \A i \in 1 .. Len(p1) : p[i] = p1[i]
    BY <1>1, <1>5, <1>6, PutTwo
  <2>2. QED
    BY <1>5, <2>1
<1>8. ASSUME NEW buf, Holds(buf, p)
      PROVE  parse_notify_payload(buf) = q
  <2>1. At(buf, 3) = p[1] /\ At(buf, 4) = p[2] /\ At(buf, 5) = p[3]
    <3>1. /\ 1 \in 1 .. 3 /\ 2 \in 1 .. 3 /\ 3 \in 1 .. 3
      BY SMT
    <3>2. /\ 2 + 1 = 3 /\ 2 + 2 = 4 /\ 2 + 3 = 5
      BY SMT
    <3>3. \A i \in 1 .. 3 : At(buf, 2 + i) = p[i]
      BY <1>7, <1>8 DEF Holds
    <3>4. QED
      BY <3>1, <3>2, <3>3
  <2>2. U16(buf, 4) = q.app_msg_id
    <3>1. 4 + 1 = 5
      OBVIOUS
    <3>2. QED
      BY <1>1, <1>7, <2>1, <3>1, WordBack
  <2>3. U8(buf, 3) = v
    BY <1>7, <2>1 DEF U8
  <2>4. QED
    BY <1>1, <1>3, <2>2, <2>3 DEF parse_notify_payload
<1>9. p = Bytes(notify_type[q.type], 1) \o Bytes(q.app_msg_id, 2)
  BY <1>2, <1>4, <1>6
<1>10. QED
  BY <1>7, <1>8, <1>9

LEMMA PacketBack ==
  ASSUME NEW n \in Nat, n <= 238, NEW q \in node_packet_t(n)
  PROVE  LET p == Bytes(q.sender_addr, 1) \o Bytes(q.receiver_addr, 1) \o
                  Bytes(q.local_sender_addr, 1) \o Bytes(q.time_to_live, 1) \o
                  format_app_create_message(q.app_payload) \o Bytes(q.crc, 2)
         IN  /\ p \in Seq(Int) /\ Len(p) <= 252
             /\ \A buf : Holds(buf, p) => parse_route_payload(buf) = q
<1>1. /\ q.sender_addr \in uint8_t /\ q.receiver_addr \in uint8_t
      /\ q.local_sender_addr \in uint8_t /\ q.time_to_live \in int8_t
      /\ q.app_payload \in app_payload(n) /\ q.crc \in uint16_t
      /\ q = [sender_addr |-> q.sender_addr, receiver_addr |-> q.receiver_addr,
              local_sender_addr |-> q.local_sender_addr, time_to_live |-> q.time_to_live,
              app_payload |-> q.app_payload, crc |-> q.crc]
  BY DEF node_packet_t
<1>2. PICK a \in app_payload(n) : a = q.app_payload
  BY <1>1
<1>3. PICK g \in Seq(Int) : g = format_app_create_message(a)
  BY AppBytes
<1>4. PICK L \in Nat : L = Len(a.message) /\ L <= n /\ Len(g) = 8 + L
  BY <1>3, AppFields, AppBytes
<1>5. PICK x1 \in Int : x1 = q.sender_addr /\ Low(x1) = x1
  BY <1>1, ByteBack
<1>6. PICK x2 \in Int : x2 = q.receiver_addr /\ Low(x2) = x2
  BY <1>1, ByteBack
<1>7. PICK x3 \in Int : x3 = q.local_sender_addr /\ Low(x3) = x3
  BY <1>1, ByteBack
<1>8. PICK x4 \in Int : x4 = q.time_to_live
  BY <1>1, SetNumbers
<1>9. PICK x6 \in Int : x6 = q.crc
  BY <1>1, SetNumbers
<1>10. PICK p1 : p1 = Bytes(x1, 1)
  OBVIOUS
<1>11. p1 \in Seq(Int) /\ Len(p1) = 1 /\ p1[1] = x1
  <2>1. p1 = <<x1>>
    BY <1>5, <1>10, OneByte
  <2>2. QED
    BY <2>1
<1>12. PICK p2 : p2 = p1 \o Bytes(x2, 1)
  OBVIOUS
<1>13. p2 \in Seq(Int) /\ Len(p2) = 2 /\ p2[1] = x1 /\ p2[2] = x2
  <2>1. /\ p2 \in Seq(Int) /\ Len(p2) = Len(p1) + 1 /\ p2[Len(p1) + 1] = Low(x2)
        /\ \A i \in 1 .. Len(p1) : p2[i] = p1[i]
    BY <1>11, <1>12, PutOne
  <2>2. QED
    BY <1>6, <1>11, <2>1
<1>14. PICK p3 : p3 = p2 \o Bytes(x3, 1)
  OBVIOUS
<1>15. p3 \in Seq(Int) /\ Len(p3) = 3 /\ p3[1] = x1 /\ p3[2] = x2 /\ p3[3] = x3
  <2>1. /\ p3 \in Seq(Int) /\ Len(p3) = Len(p2) + 1 /\ p3[Len(p2) + 1] = Low(x3)
        /\ \A i \in 1 .. Len(p2) : p3[i] = p2[i]
    BY <1>13, <1>14, PutOne
  <2>2. QED
    BY <1>7, <1>13, <2>1
<1>16. PICK p4 : p4 = p3 \o Bytes(x4, 1)
  OBVIOUS
<1>17. /\ p4 \in Seq(Int) /\ Len(p4) = 4 /\ p4[1] = x1 /\ p4[2] = x2 /\ p4[3] = x3
       /\ p4[4] = Low(x4)
  <2>1. /\ p4 \in Seq(Int) /\ Len(p4) = Len(p3) + 1 /\ p4[Len(p3) + 1] = Low(x4)
        /\ \A i \in 1 .. Len(p3) : p4[i] = p3[i]
    BY <1>15, <1>16, PutOne
  <2>2. QED
    BY <1>15, <2>1
<1>18. PICK p5 : p5 = p4 \o g
  OBVIOUS
<1>19. /\ p5 \in Seq(Int) /\ Len(p5) = 12 + L /\ p5[1] = x1 /\ p5[2] = x2 /\ p5[3] = x3
       /\ p5[4] = Low(x4) /\ \A i \in 1 .. 8 + L : p5[4 + i] = g[i]
  <2>1. /\ p5 \in Seq(Int) /\ Len(p5) = Len(p4) + Len(g)
        /\ \A i \in 1 .. Len(p4) : p5[i] = p4[i]
        /\ \A j \in 1 .. Len(g) : p5[Len(p4) + j] = g[j]
    BY <1>17, <1>18, PutAll
  <2>2. 4 + (8 + L) = 12 + L
    BY SMT
  <2>3. p5[1] = x1 /\ p5[2] = x2 /\ p5[3] = x3 /\ p5[4] = Low(x4)
    BY <1>17, <2>1
  <2>4. Len(p5) = 12 + L
    BY <1>4, <1>17, <2>1, <2>2
  <2>5. \A i \in 1 .. 8 + L : p5[4 + i] = g[i]
    BY <1>4, <1>17, <2>1
  <2>6. QED
    BY <2>1, <2>3, <2>4, <2>5
<1>20. PICK p : p = p5 \o Bytes(x6, 2)
  OBVIOUS
<1>21. /\ p \in Seq(Int) /\ Len(p) = 14 + L /\ p[13 + L] = Low(x6) /\ p[14 + L] = High(x6)
       /\ \A i \in 1 .. 12 + L : p[i] = p5[i]
  <2>1. /\ p \in Seq(Int) /\ Len(p) = Len(p5) + 2 /\ p[Len(p5) + 1] = Low(x6)
        /\ p[Len(p5) + 2] = High(x6) /\ \A i \in 1 .. Len(p5) : p[i] = p5[i]
    BY <1>19, <1>20, PutTwo
  <2>2. (12 + L) + 1 = 13 + L /\ (12 + L) + 2 = 14 + L
    BY SMT
  <2>3. QED
    BY <1>19, <2>1, <2>2
<1>22. /\ p[1] = x1 /\ p[2] = x2 /\ p[3] = x3 /\ p[4] = Low(x4)
       /\ \A i \in 1 .. 8 + L : p[4 + i] = g[i]
  <2>1. /\ 1 \in 1 .. 12 + L /\ 2 \in 1 .. 12 + L /\ 3 \in 1 .. 12 + L /\ 4 \in 1 .. 12 + L
        /\ \A i \in 1 .. 8 + L : 4 + i \in 1 .. 12 + L
    BY SMT
  <2>2. QED
    BY <1>19, <1>21, <2>1
<1>23. ASSUME NEW buf, Holds(buf, p)
       PROVE  parse_route_payload(buf) = q
  <2>1. \A i \in 1 .. 14 + L : At(buf, 2 + i) = p[i]
    BY <1>21, <1>23 DEF Holds
  <2>2. At(buf, 3) = x1 /\ At(buf, 4) = x2 /\ At(buf, 5) = x3 /\ At(buf, 6) = Low(x4)
    <3>1. 1 \in 1 .. 14 + L /\ 2 \in 1 .. 14 + L /\ 3 \in 1 .. 14 + L /\ 4 \in 1 .. 14 + L
      BY SMT
    <3>2. 2 + 1 = 3 /\ 2 + 2 = 4 /\ 2 + 3 = 5 /\ 2 + 4 = 6
      BY SMT
    <3>3. QED
      BY <1>22, <2>1, <3>1, <3>2
  <2>3. format_app_parse_message(buf, 7) = a
    <3>1. PICK k \in Nat : k = 7
      OBVIOUS
    <3>2. ASSUME NEW i \in 1 .. 8 + L
          PROVE  At(buf, k + (i - 1)) = g[i]
      <4>1. 4 + i \in 1 .. 14 + L /\ 2 + (4 + i) = k + (i - 1)
        BY <3>1, SMT
      <4>2. QED
        BY <1>22, <2>1, <4>1
    <3>3. \A i \in 1 .. 8 + Len(a.message) :
            At(buf, k + (i - 1)) = format_app_create_message(a)[i]
      BY <1>3, <1>4, <3>2
    <3>4. QED
      BY <3>1, <3>3, AppParse
  <2>4. U16(buf, 7 + (8 + L)) = q.crc
    <3>1. PICK k : k = 7 + (8 + L)
      OBVIOUS
    <3>2. /\ 13 + L \in 1 .. 14 + L /\ 2 + (13 + L) = k
          /\ 14 + L \in 1 .. 14 + L /\ 2 + (14 + L) = k + 1
      BY <3>1, SMT
    <3>3. At(buf, k) = Low(x6) /\ At(buf, k + 1) = High(x6)
      BY <1>21, <2>1, <3>2
    <3>4. x6 \in uint16_t
      BY <1>1, <1>9
    <3>5. U16(buf, k) = x6
      BY <3>3, <3>4, WordBack
    <3>6. QED
      BY <1>9, <3>1, <3>5
  <2>5. I8(buf, 6) = q.time_to_live
    <3>1. x4 \in int8_t
      BY <1>1, <1>8
    <3>2. I8(buf, 6) = x4
      BY <2>2, <3>1, SignedBack
    <3>3. QED
      BY <1>8, <3>2
  <2>6. format_app_message_len(a) = 8 + L
    BY <1>4 DEF format_app_message_len
  <2>7. parse_route_payload(buf) =
          [sender_addr |-> q.sender_addr, receiver_addr |-> q.receiver_addr,
           local_sender_addr |-> q.local_sender_addr, time_to_live |-> q.time_to_live,
           app_payload |-> q.app_payload, crc |-> q.crc]
    BY <1>2, <1>5, <1>6, <1>7, <2>2, <2>3, <2>4, <2>5, <2>6 DEF parse_route_payload, U8
  <2>8. QED
    BY <1>1, <2>7
<1>24. p = Bytes(q.sender_addr, 1) \o Bytes(q.receiver_addr, 1) \o
           Bytes(q.local_sender_addr, 1) \o Bytes(q.time_to_live, 1) \o
           format_app_create_message(q.app_payload) \o Bytes(q.crc, 2)
  BY <1>2, <1>3, <1>5, <1>6, <1>7, <1>8, <1>9, <1>10, <1>12, <1>14, <1>16, <1>18, <1>20
<1>25. Len(p) <= 252
  BY <1>4, <1>21, SMT
<1>26. QED
  BY <1>21, <1>23, <1>24, <1>25

\* The bytes of a contest, padded to its structure.
ContestBytes(q, n) ==
  LET used == Bytes(request[q.req], 1) \o Bytes(q.node_addr, 1) \o
              format_app_create_message(q.app_payload)
  IN  [k \in 1 .. ContestSize(n) |-> At(used, k)]

LEMMA ContestBack ==
  ASSUME NEW n \in Nat, n <= 238, NEW q \in unicast_contest_t(n)
  PROVE  LET p == ContestBytes(q, n)
         IN  /\ p \in Seq(Int) /\ Len(p) <= 252
             /\ \A buf : Holds(buf, p) => parse_unicast_contest_payload(buf) = q
<1>1. /\ q.req \in ContestRequest /\ q.node_addr \in uint8_t
      /\ q.app_payload \in app_payload(n)
      /\ q = [req |-> q.req, node_addr |-> q.node_addr, app_payload |-> q.app_payload]
  BY SetNumbers DEF unicast_contest_t
<1>2. PICK a \in app_payload(n) : a = q.app_payload
  BY <1>1
<1>3. PICK g \in Seq(Int) : g = format_app_create_message(a)
  BY AppBytes
<1>4. PICK L \in Nat : L = Len(a.message) /\ L <= n /\ Len(g) = 8 + L
  BY <1>3, AppFields, AppBytes
<1>5. PICK x1 \in Int : x1 = request[q.req] /\ Low(x1) = x1 /\ NameOf(request, x1) = q.req
  <2>1. q.req \in DOMAIN request
    BY <1>1 DEF ContestRequest, request
  <2>2. request[q.req] \in {11, 12}
    BY <1>1 DEF ContestRequest, request
  <2>3. request[q.req] \in uint8_t
    BY <2>2, SMT DEF uint8_t, Unsigned
  <2>4. QED
    BY <2>1, <2>3, ByteBack, KindBack
<1>6. PICK x2 \in Int : x2 = q.node_addr /\ Low(x2) = x2
  BY <1>1, ByteBack
<1>7. PICK p1 : p1 = Bytes(x1, 1)
  OBVIOUS
<1>8. p1 \in Seq(Int) /\ Len(p1) = 1 /\ p1[1] = x1
  <2>1. p1 = <<x1>>
    BY <1>5, <1>7, OneByte
  <2>2. QED
    BY <2>1
<1>9. PICK p2 : p2 = p1 \o Bytes(x2, 1)
  OBVIOUS
<1>10. p2 \in Seq(Int) /\ Len(p2) = 2 /\ p2[1] = x1 /\ p2[2] = x2
  <2>1. /\ p2 \in Seq(Int) /\ Len(p2) = Len(p1) + 1 /\ p2[Len(p1) + 1] = Low(x2)
        /\ \A i \in 1 .. Len(p1) : p2[i] = p1[i]
    BY <1>8, <1>9, PutOne
  <2>2. QED
    BY <1>6, <1>8, <2>1
<1>11. PICK v : v = p2 \o g
  OBVIOUS
<1>12. /\ v \in Seq(Int) /\ Len(v) = 10 + L /\ v[1] = x1 /\ v[2] = x2
       /\ \A i \in 1 .. 8 + L : v[2 + i] = g[i]
  <2>1. /\ v \in Seq(Int) /\ Len(v) = Len(p2) + Len(g)
        /\ \A i \in 1 .. Len(p2) : v[i] = p2[i]
        /\ \A j \in 1 .. Len(g) : v[Len(p2) + j] = g[j]
    BY <1>10, <1>11, PutAll
  <2>2. 2 + (8 + L) = 10 + L
    BY SMT
  <2>3. QED
    BY <1>4, <1>10, <2>1, <2>2
<1>13. PICK z \in Nat : z = ContestSize(n) /\ 10 + L <= z /\ z <= 252
  BY <1>4, SMT DEF ContestSize
<1>14. PICK p : p = [k \in 1 .. z |-> At(v, k)]
  OBVIOUS
<1>15. p \in Seq(Int) /\ Len(p) = z
  <2>1. \A k \in 1 .. z : At(v, k) \in Int
    BY <1>12, SMT DEF At, Garbage
  <2>2. QED
    BY <1>14, <2>1
<1>16. \A k \in 1 .. 10 + L : p[k] = v[k]
  <2>1. \A k \in 1 .. 10 + L : k \in 1 .. z
    BY <1>13, SMT
  <2>2. QED
    BY <1>12, <1>14, <2>1 DEF At
<1>17. ASSUME NEW buf, Holds(buf, p)
       PROVE  parse_unicast_contest_payload(buf) = q
  <2>1. \A i \in 1 .. 10 + L : At(buf, 2 + i) = v[i]
    <3>1. \A i \in 1 .. 10 + L : i \in 1 .. z
      BY <1>13, SMT
    <3>2. \A i \in 1 .. z : At(buf, 2 + i) = p[i]
      BY <1>15, <1>17 DEF Holds
    <3>3. QED
      BY <1>16, <3>1, <3>2
  <2>2. At(buf, 3) = x1 /\ At(buf, 4) = x2
    <3>1. 1 \in 1 .. 10 + L /\ 2 \in 1 .. 10 + L /\ 2 + 1 = 3 /\ 2 + 2 = 4
      BY SMT
    <3>2. QED
      BY <1>12, <2>1, <3>1
  <2>3. format_app_parse_message(buf, 5) = a
    <3>1. PICK k \in Nat : k = 5
      OBVIOUS
    <3>2. ASSUME NEW i \in 1 .. 8 + L
          PROVE  At(buf, k + (i - 1)) = g[i]
      <4>1. 2 + i \in 1 .. 10 + L /\ 2 + (2 + i) = k + (i - 1)
        BY <3>1, SMT
      <4>2. QED
        BY <1>12, <2>1, <4>1
    <3>3. \A i \in 1 .. 8 + Len(a.message) :
            At(buf, k + (i - 1)) = format_app_create_message(a)[i]
      BY <1>3, <1>4, <3>2
    <3>4. QED
      BY <3>1, <3>3, AppParse
  <2>4. QED
    BY <1>1, <1>2, <1>5, <1>6, <2>2, <2>3 DEF parse_unicast_contest_payload, U8
<1>18. p = ContestBytes(q, n)
  BY <1>2, <1>3, <1>5, <1>6, <1>7, <1>9, <1>11, <1>13, <1>14 DEF ContestBytes
<1>19. QED
  BY <1>13, <1>15, <1>17, <1>18

(***************************************************************************)
(* Whatever is sent is read again as it was, but for the payload that a    *)
(* ping or reset from the server does not have.                            *)
(***************************************************************************)
LEMMA AddrBack ==
  ASSUME NEW n, NEW m, m.req \in AddrRequest, m.sender \in DOMAIN request_sender,
         \/ m.req # "RESET" /\ m.payload \in Unsigned(255)
         \/ m.payload = NoPayload
  PROVE  LET p == PayloadBytes(m, n)
         IN  /\ p \in Seq(Int) /\ Len(p) <= 252
             /\ \A buf : Holds(buf, p) /\ m.payload # NoPayload => U8(buf, 3) = m.payload
<1>1. PayloadBytes(m, n) = IF m.payload = NoPayload THEN << >> ELSE Bytes(m.payload, 1)
  BY DEF PayloadBytes, AddrRequest, PacketRequest, ContestRequest
<1>2. CASE m.payload = NoPayload
  <2>1. PICK p : p = << >>
    OBVIOUS
  <2>2. p \in Seq(Int) /\ Len(p) = 0
    BY <2>1
  <2>3. Len(p) <= 252
    BY <2>2
  <2>4. QED
    BY <1>1, <1>2, <2>1, <2>2, <2>3
<1>3. CASE m.payload # NoPayload
  <2>1. PICK x \in Int : x = m.payload /\ Low(x) = x
    BY <1>3, SetNumbers, ByteBack
  <2>2. PICK p : p = <<x>>
    OBVIOUS
  <2>3. p = PayloadBytes(m, n)
    BY <1>1, <1>3, <2>1, <2>2, OneByte
  <2>4. p \in Seq(Int) /\ Len(p) = 1 /\ p[1] = x /\ Len(p) <= 252
    BY <2>2
  <2>5. ASSUME NEW buf, Holds(buf, p)
        PROVE  U8(buf, 3) = m.payload
    <3>1. 1 \in 1 .. 1 /\ 2 + 1 = 3
      BY SMT
    <3>2. \A i \in 1 .. 1 : At(buf, 2 + i) = p[i]
      BY <2>4, <2>5 DEF Holds
    <3>3. QED
      BY <2>1, <2>4, <3>1, <3>2 DEF U8
  <2>6. QED
    BY <2>3, <2>4, <2>5
<1>4. QED
  BY <1>2, <1>3

\* The payload fits, and it is read as it was.
LEMMA PayloadBack ==
  ASSUME NEW n \in Nat, n <= 238, NEW m \in Sendable(n)
  PROVE  LET p == PayloadBytes(m, n)
         IN  /\ m.req \in DOMAIN request /\ m.sender \in DOMAIN request_sender
             /\ p \in Seq(Int) /\ Len(p) <= 252
             /\ \A buf : /\ Holds(buf, p) /\ NameOf(request, U8(buf, 1)) = m.req
                         /\ ~(m.sender = "SERVER" /\ m.req \in AddrRequest)
                         => format_parse(buf).payload = m.payload
<1>1. m.req \in DOMAIN request /\ m.sender \in DOMAIN request_sender
  BY DEF Sendable, AddrRequest, PacketRequest, ContestRequest, request, request_sender
<1>2. \/ /\ m.req \in AddrRequest
         /\ \/ m.req # "RESET" /\ m.payload \in Unsigned(255)
            \/ m.payload = NoPayload
         /\ m.sender # "SERVER" => (m.req = "RESET" <=> m.payload = NoPayload)
      \/ m.req = "UPDATE" /\ m.payload \in node_update_t
      \/ m.req = "NOTIFY" /\ m.payload \in notify_t
      \/ m.req \in PacketRequest /\ m.payload \in node_packet_t(n)
      \/ m.req \in ContestRequest /\ m.payload \in unicast_contest_t(n)
  <2>1. \A x \in Unsigned(255) : x # NoPayload
    BY SMT DEF Unsigned, NoPayload
  <2>2. QED
    BY <2>1 DEF Sendable, AddrRequest
<1>3. PICK p : p = PayloadBytes(m, n)
  OBVIOUS
<1>4. PICK q : q = m.payload
  OBVIOUS
<1> DEFINE Goal ==
      /\ p \in Seq(Int) /\ Len(p) <= 252
      /\ \A buf : /\ Holds(buf, p) /\ NameOf(request, U8(buf, 1)) = m.req
                  /\ ~(m.sender = "SERVER" /\ m.req \in AddrRequest)
                  => format_parse(buf).payload = q
<1> SUFFICES Goal
  BY <1>1, <1>3, <1>4
<1>5. CASE /\ m.req \in AddrRequest
           /\ \/ m.req # "RESET" /\ m.payload \in Unsigned(255)
              \/ m.payload = NoPayload
           /\ m.sender # "SERVER" => (m.req = "RESET" <=> m.payload = NoPayload)
  <2>1. /\ p \in Seq(Int) /\ Len(p) <= 252
        /\ \A buf : Holds(buf, p) /\ m.payload # NoPayload => U8(buf, 3) = m.payload
    BY <1>1, <1>3, <1>5, AddrBack
  <2>2. ASSUME NEW buf, Holds(buf, p), NameOf(request, U8(buf, 1)) = m.req,
               ~(m.sender = "SERVER" /\ m.req \in AddrRequest)
        PROVE  format_parse(buf).payload = q
    <3>1. CASE m.req = "RESET"
      <4>1. format_parse(buf).payload = NoPayload
        BY <2>2, <3>1 DEF format_parse, AddrRequest, PacketRequest, ContestRequest
      <4>2. QED
        BY <1>4, <1>5, <2>2, <3>1, <4>1
    <3>2. CASE m.req # "RESET"
      <4>1. format_parse(buf).payload = U8(buf, 3)
        BY <1>5, <2>2, <3>2 DEF format_parse, AddrRequest, PacketRequest, ContestRequest
      <4>2. QED
        BY <1>4, <1>5, <2>1, <2>2, <3>2, <4>1
    <3>3. QED
      BY <3>1, <3>2
  <2>3. QED
    BY <2>1, <2>2
<1>6. CASE m.req = "UPDATE" /\ m.payload \in node_update_t
  <2>1. p = Bytes(q.port, 2) \o Bytes(q.addr, 1) \o Bytes(q.pid, 4)
    BY <1>3, <1>4, <1>6 DEF PayloadBytes, AddrRequest, PacketRequest, ContestRequest
  <2>2. /\ p \in Seq(Int) /\ Len(p) = 7
        /\ \A buf : Holds(buf, p) => parse_node_update_payload(buf) = q
    BY <1>4, <1>6, <2>1, UpdateBack
  <2>3. ASSUME NEW buf, Holds(buf, p), NameOf(request, U8(buf, 1)) = m.req
        PROVE  format_parse(buf).payload = q
    <3>1. format_parse(buf).payload = parse_node_update_payload(buf)
      BY <1>6, <2>3 DEF format_parse, AddrRequest, PacketRequest, ContestRequest
    <3>2. QED
      BY <2>2, <2>3, <3>1
  <2>4. Len(p) <= 252
    BY <2>2
  <2>5. QED
    BY <2>2, <2>3, <2>4
<1>7. CASE m.req = "NOTIFY" /\ m.payload \in notify_t
  <2>1. p = Bytes(notify_type[q.type], 1) \o Bytes(q.app_msg_id, 2)
    BY <1>3, <1>4, <1>7 DEF PayloadBytes, AddrRequest, PacketRequest, ContestRequest
  <2>2. /\ p \in Seq(Int) /\ Len(p) = 3
        /\ \A buf : Holds(buf, p) => parse_notify_payload(buf) = q
    BY <1>4, <1>7, <2>1, NotifyBack
  <2>3. ASSUME NEW buf, Holds(buf, p), NameOf(request, U8(buf, 1)) = m.req
        PROVE  format_parse(buf).payload = q
    <3>1. format_parse(buf).payload = parse_notify_payload(buf)
      BY <1>7, <2>3 DEF format_parse, AddrRequest, PacketRequest, ContestRequest
    <3>2. QED
      BY <2>2, <2>3, <3>1
  <2>4. Len(p) <= 252
    BY <2>2
  <2>5. QED
    BY <2>2, <2>3, <2>4
<1>8. CASE m.req \in PacketRequest /\ m.payload \in node_packet_t(n)
  <2>1. p = Bytes(q.sender_addr, 1) \o Bytes(q.receiver_addr, 1) \o
            Bytes(q.local_sender_addr, 1) \o Bytes(q.time_to_live, 1) \o
            format_app_create_message(q.app_payload) \o Bytes(q.crc, 2)
    BY <1>3, <1>4, <1>8 DEF PayloadBytes, AddrRequest, PacketRequest, ContestRequest
  <2>2. /\ p \in Seq(Int) /\ Len(p) <= 252
        /\ \A buf : Holds(buf, p) => parse_route_payload(buf) = q
    BY <1>4, <1>8, <2>1, PacketBack
  <2>3. ASSUME NEW buf, Holds(buf, p), NameOf(request, U8(buf, 1)) = m.req
        PROVE  format_parse(buf).payload = q
    <3>1. format_parse(buf).payload = parse_route_payload(buf)
      BY <1>8, <2>3 DEF format_parse, AddrRequest, PacketRequest, ContestRequest
    <3>2. QED
      BY <2>2, <2>3, <3>1
  <2>4. QED
    BY <2>2, <2>3
<1>9. CASE m.req \in ContestRequest /\ m.payload \in unicast_contest_t(n)
  <2>1. p = ContestBytes(q, n)
    BY <1>3, <1>4, <1>9
       DEF ContestBytes, PayloadBytes, AddrRequest, PacketRequest, ContestRequest
  <2>2. q \in unicast_contest_t(n)
    BY <1>4, <1>9
  <2>3. /\ p \in Seq(Int) /\ Len(p) <= 252
        /\ \A buf : Holds(buf, p) => parse_unicast_contest_payload(buf) = q
    BY <2>1, <2>2, ContestBack
  <2>4. ASSUME NEW buf, Holds(buf, p), NameOf(request, U8(buf, 1)) = m.req
        PROVE  format_parse(buf).payload = q
    <3>1. format_parse(buf).payload = parse_unicast_contest_payload(buf)
      BY <1>9, <2>4 DEF format_parse, AddrRequest, PacketRequest, ContestRequest
    <3>2. QED
      BY <2>3, <2>4, <3>1
  <2>5. QED
    BY <2>3, <2>4
<1>10. QED
  BY <1>2, <1>5, <1>6, <1>7, <1>8, <1>9

LEMMA FormatBack ==
  ASSUME NEW n \in Nat, n <= 238, NEW m \in Sendable(n)
  PROVE  LET f == format_create(m, n)
             d == format_parse(SubSeq(f, 2, Len(f)))
         IN  /\ f \in Seq(Int) /\ f[1] = Len(f) /\ Len(f) >= 3 /\ Len(f) <= 255
             /\ Meaning(d) = Meaning(m) /\ d.req = m.req /\ d.sender = m.sender
<1>1. PICK p : p = PayloadBytes(m, n)
  OBVIOUS
<1>2. PICK f : f = format_create(m, n)
  OBVIOUS
<1>3. PICK buf : buf = SubSeq(f, 2, Len(f))
  OBVIOUS
<1>4. PICK d : d = format_parse(buf)
  OBVIOUS
<1>5. /\ m.req \in DOMAIN request /\ m.sender \in DOMAIN request_sender
      /\ p \in Seq(Int) /\ Len(p) <= 252
      /\ \A x : /\ Holds(x, p) /\ NameOf(request, U8(x, 1)) = m.req
                /\ ~(m.sender = "SERVER" /\ m.req \in AddrRequest)
                => format_parse(x).payload = m.payload
  BY <1>1, PayloadBack
<1>6. /\ f \in Seq(Int) /\ Len(f) = Len(p) + 3 /\ f[1] = Len(f)
      /\ NameOf(request, U8(buf, 1)) = m.req /\ format_define_sender(buf) = m.sender
      /\ \A i \in 1 .. Len(p) : At(buf, 2 + i) = p[i]
  BY <1>1, <1>2, <1>3, <1>5, FrameBytes
<1>7. Len(f) >= 3 /\ Len(f) <= 255
  <2>1. PICK l \in Nat : l = Len(p)
    BY <1>5
  <2>2. QED
    BY <1>5, <1>6, <2>1
<1>8. d.req = m.req /\ d.sender = m.sender
  BY <1>4, <1>6 DEF format_parse
<1>9. ~(m.sender = "SERVER" /\ m.req \in AddrRequest) => d.payload = m.payload
  BY <1>4, <1>5, <1>6 DEF Holds
<1>10. Meaning(d) = Meaning(m)
  <2>1. CASE m.sender = "SERVER" /\ m.req \in AddrRequest
    BY <1>8, <2>1 DEF Meaning
  <2>2. CASE ~(m.sender = "SERVER" /\ m.req \in AddrRequest)
    BY <1>8, <1>9, <2>2 DEF Meaning
  <2>3. QED
    BY <2>1, <2>2
<1>11. QED
  BY <1>2, <1>3, <1>4, <1>6, <1>7, <1>8, <1>10

LEMMA SliceTail ==
  ASSUME NEW w \in Seq(Int), NEW b \in Nat, NEW z \in Nat, z <= Len(w),
         Len(SubSeq(w, b + 1, z)) >= 3
  PROVE  LET f == SubSeq(w, b + 1, z)
         IN  /\ z = b + Len(f) /\ w[b + 1] = f[1]
             /\ SubSeq(w, b + 2, z) = SubSeq(f, 2, Len(f))
<1> PICK f : f = SubSeq(w, b + 1, z)
  OBVIOUS
<1>1. b + 1 <= z
  <2>1. SUFFICES ASSUME ~(b + 1 <= z) PROVE FALSE
    OBVIOUS
  <2>2. Len(SubSeq(w, b + 1, z)) = 0
    BY <2>1
  <2>3. QED
    BY <2>2
<1>2. /\ f = [i \in 1 .. z - b |-> w[b + i]] /\ Len(f) = z - b /\ f \in Seq(Int)
  BY <1>1
<1>3. PICK l \in Nat : l = z - b /\ l >= 3
  BY <1>1, <1>2
<1>4. f = [i \in 1 .. l |-> w[b + i]] /\ Len(f) = l
  BY <1>2, <1>3
<1>5. z = b + l
  BY <1>3
<1>6. SubSeq(w, b + 2, z) = [i \in 1 .. l - 1 |-> w[(b + 1) + i]]
  BY <1>3, <1>5
<1>7. SubSeq(f, 2, l) = [i \in 1 .. l - 1 |-> f[1 + i]]
  BY <1>2, <1>3, <1>4
<1>8. \A i \in 1 .. l - 1 : f[1 + i] = w[(b + 1) + i]
  <2> SUFFICES ASSUME NEW i \in 1 .. l - 1 PROVE f[1 + i] = w[(b + 1) + i]
    OBVIOUS
  <2>1. 1 + i \in 1 .. l /\ b + (1 + i) = (b + 1) + i
    BY <1>3, SMT
  <2>2. QED
    BY <1>4, <2>1
<1>9. f[1] = w[b + 1]
  BY <1>3, <1>4
<1>10. QED
  BY <1>4, <1>5, <1>6, <1>7, <1>8, <1>9

-----------------------------------------------------------------------------
(***************************************************************************)
(* Requests are told apart.  What the other end writes is cut into pieces: *)
(* request k begins behind the end of the one before it, its first byte is *)
(* its length, and the rest is parsed to what is meant.                    *)
(***************************************************************************)
Begin(e, k) == IF k = 1 THEN 0 ELSE e[k - 1]

Piece(w, e, k) == SubSeq(w, Begin(e, k) + 2, e[k])

Framed(r, w, e, t) ==
  /\ Len(e) > 0 /\ e[Len(e)] = Len(w) /\ Len(t) = Len(e) /\ \E S : t \in Seq(S)
  /\ \A k \in 1 .. Len(e) :
       LET m == format_parse(Piece(w, e, k))
       IN  /\ e[k] >= Begin(e, k) + 3 /\ e[k] <= Begin(e, k) + 255
           /\ w[Begin(e, k) + 1] = e[k] - Begin(e, k)
           /\ Meaning(m) = t[k] /\ m.req \in Requests(r, m.sender)

\* The requests handled on a connection are the first pieces, and the loop has
\* read exactly these.
FramesOK ==
  /\ handled \in [Conn -> Seq({format_parse(b) : b \in Seq(Int)})]
  /\ \A c \in Conn :
       LET n == Len(handled[c])
       IN  /\ Framed(role, wire[c], ends[c], intended[c])
           /\ n <= Len(ends[c]) /\ taken[c] = Begin(ends[c], n + 1)
           /\ \A k \in 1 .. n : /\ handled[c][k] = format_parse(Piece(wire[c], ends[c], k))
                                /\ ends[c][k] <= taken[c]

\* handle_request reads the next piece and no other.
LEMMA ReadsPiece ==
  ASSUME Inv, FramesOK, NEW c \in Conn, Reads(c)
  PROVE  LET k == Len(handled[c]) + 1
         IN  /\ k \in 1 .. Len(ends[c])
             /\ Received(c) = Piece(wire[c], ends[c], k)
             /\ taken[c] + 1 + Len(Received(c)) = ends[c][k]
             /\ Received(c) \in Seq(Int)
             /\ ends[c][k] >= taken[c]
<1>1. PICK w, e : w = wire[c] /\ e = ends[c]
  OBVIOUS
<1>2. PICK n \in Nat, b \in Nat, a \in Nat :
        n = Len(handled[c]) /\ b = taken[c] /\ a = arrived[c]
  <2>1. Len(handled[c]) \in Nat
    BY DEF FramesOK
  <2>2. taken[c] \in Nat /\ arrived[c] \in Nat
    BY DEF Inv, StreamsOK
  <2>3. QED
    BY <2>1, <2>2
<1>3. /\ w \in Seq(Int) /\ Len(w) \in Nat /\ e \in Seq(1 .. Len(w)) /\ Len(e) \in Nat
      /\ b <= a /\ a <= Len(w)
  BY <1>1, <1>2 DEF Inv, StreamsOK
<1>4. /\ n <= Len(e) /\ b = Begin(e, n + 1)
      /\ Framed(role, w, e, intended[c])
  BY <1>1, <1>2 DEF FramesOK
<1>5. a > b /\ format_is_message_correct(Len(Received(c)), Declared(c))
  BY <1>2 DEF Reads
<1>6. n # Len(e)
  <2>1. SUFFICES ASSUME n = Len(e) PROVE FALSE
    OBVIOUS
  <2>2. n + 1 # 1 /\ (n + 1) - 1 = n /\ e[n] = Len(w)
    BY <1>3, <1>4, <2>1 DEF Framed
  <2>3. b = Len(w)
    BY <1>4, <2>2 DEF Begin
  <2>4. QED
    BY <1>3, <1>5, <2>3
<1>7. PICK k \in 1 .. Len(e) : k = n + 1
  BY <1>3, <1>4, <1>6
<1>8. PICK z \in Int : z = e[k] /\ z >= b + 3 /\ z <= b + 255 /\ w[b + 1] = z - b
  <2>1. e[k] \in 1 .. Len(w)
    BY <1>3, <1>7
  <2>2. PICK z \in Int : z = e[k]
    BY <1>3, <2>1
  <2>3. Begin(e, k) = b
    BY <1>4, <1>7
  <2>4. e[k] >= b + 3 /\ e[k] <= b + 255 /\ w[b + 1] = e[k] - b
    BY <1>4, <2>3 DEF Framed
  <2>5. QED
    BY <2>2, <2>4
<1>9. Declared(c) = (z - b) - 1
  <2>1. Declared(c) = ((z - b) - 1) % 256
    BY <1>1, <1>2, <1>8 DEF Declared
  <2>2. (z - b) - 1 \in Int /\ 0 <= (z - b) - 1 /\ (z - b) - 1 < 256
    BY <1>8, SMT
  <2>3. QED
    BY <2>1, <2>2
<1>10. b + 1 + Declared(c) = z
  BY <1>9, SMT
<1>11. Received(c) = SubSeq(w, b + 2, IF z <= a THEN z ELSE a)
  BY <1>1, <1>2, <1>10 DEF Received
<1>12. Len(Received(c)) = (z - b) - 1
  BY <1>5, <1>9 DEF format_is_message_correct
<1>13. z <= a
  <2>1. SUFFICES ASSUME ~(z <= a) PROVE FALSE
    OBVIOUS
  <2>2. Received(c) = SubSeq(w, b + 2, a)
    BY <1>11, <2>1
  <2>3. Len(SubSeq(w, b + 2, a)) = (a - b) - 1
    BY <1>3, <1>5
  <2>4. QED
    BY <1>12, <2>1, <2>2, <2>3, SMT
<1>14. Received(c) = SubSeq(w, b + 2, z)
  BY <1>11, <1>13
<1>15. Received(c) = Piece(w, e, k)
  BY <1>4, <1>7, <1>8, <1>14 DEF Piece
<1>16. Received(c) \in Seq(Int)
  BY <1>3, <1>13, <1>14, SMT
<1>17. b + 1 + Len(Received(c)) = z /\ z >= b
  <2>1. PICK l \in Int : l = Len(Received(c)) /\ l = (z - b) - 1
    BY <1>12
  <2>2. b + 1 + l = z /\ z >= b
    BY <1>8, <2>1
  <2>3. QED
    BY <2>1, <2>2
<1>18. QED
  BY <1>1, <1>2, <1>7, <1>8, <1>15, <1>16, <1>17

LEMMA HandlesFrames ==
  ASSUME Inv, FramesOK, NEW c \in Conn, Handles(c), UNCHANGED <<role, wire, ends, intended>>
  PROVE  FramesOK'
<1>1. PICK n \in Nat : n = Len(handled[c])
  BY DEF FramesOK
<1>2. PICK x : x = Received(c)
  OBVIOUS
<1>3. /\ n + 1 \in 1 .. Len(ends[c]) /\ x = Piece(wire[c], ends[c], n + 1)
      /\ taken[c] + 1 + Len(x) = ends[c][n + 1] /\ x \in Seq(Int)
      /\ ends[c][n + 1] >= taken[c]
  BY <1>1, <1>2, ReadsPiece DEF Handles
<1>4. /\ taken' = [taken EXCEPT ![c] = @ + 1 + Len(x)]
      /\ handled' = [handled EXCEPT ![c] = Append(@, format_parse(x))]
  BY <1>2 DEF Handles
<1>5. PICK S : S = {format_parse(b) : b \in Seq(Int)}
  OBVIOUS
<1>6. handled \in [Conn -> Seq(S)] /\ format_parse(x) \in S
  BY <1>3, <1>5 DEF FramesOK
<1>7. /\ handled' \in [Conn -> Seq(S)]
      /\ handled'[c] = Append(handled[c], format_parse(x))
      /\ \A d \in Conn : d # c => handled'[d] = handled[d]
  BY <1>4, <1>6
<1>8. taken \in [Conn -> Nat] /\ ends[c] \in Seq(1 .. Len(wire[c])) /\ Len(wire[c]) \in Nat
  BY DEF Inv, StreamsOK
<1>9. taken'[c] = ends[c][n + 1] /\ \A d \in Conn : d # c => taken'[d] = taken[d]
  BY <1>3, <1>4, <1>8
<1>10. Len(handled'[c]) = n + 1 /\ handled'[c][n + 1] = format_parse(x)
  BY <1>1, <1>6, <1>7
<1>11. \A k \in 1 .. n : handled'[c][k] = handled[c][k]
  BY <1>1, <1>6, <1>7
<1>12. ASSUME NEW d \in Conn
       PROVE  /\ Framed(role, wire[d], ends[d], intended[d])
              /\ Len(handled'[d]) <= Len(ends[d])
              /\ taken'[d] = Begin(ends[d], Len(handled'[d]) + 1)
              /\ \A k \in 1 .. Len(handled'[d]) :
                   /\ handled'[d][k] = format_parse(Piece(wire[d], ends[d], k))
                   /\ ends[d][k] <= taken'[d]
  <2>1. Framed(role, wire[d], ends[d], intended[d])
    BY DEF FramesOK
  <2>2. CASE d # c
    BY <1>7, <1>9, <2>1, <2>2 DEF FramesOK
  <2>3. CASE d = c
    <3>1. taken'[c] = Begin(ends[c], (n + 1) + 1)
      <4>1. (n + 1) + 1 # 1 /\ ((n + 1) + 1) - 1 = n + 1
        BY <1>1
      <4>2. QED
        BY <1>9, <4>1 DEF Begin
    <3>2. ASSUME NEW k \in 1 .. n + 1
          PROVE  /\ handled'[c][k] = format_parse(Piece(wire[c], ends[c], k))
                 /\ ends[c][k] <= taken'[c]
      <4>1. CASE k = n + 1
        <5>1. ends[c][k] \in Int
          BY <1>3, <1>8, <4>1
        <5>2. QED
          BY <1>3, <1>9, <1>10, <4>1, <5>1
      <4>2. CASE k # n + 1
        <5>1. k \in 1 .. n
          BY <1>1, <4>2
        <5>2. k \in 1 .. Len(ends[c]) /\ ends[c][k] \in Int /\ ends[c][n + 1] \in Int
          <6>1. Len(ends[c]) \in Nat /\ k \in 1 .. Len(ends[c])
            <7>1. PICK l \in Nat : l = Len(ends[c])
              BY <1>8
            <7>2. n + 1 <= l
              BY <1>3, <7>1
            <7>3. QED
              BY <5>1, <7>1, <7>2
          <6>2. \A j \in 1 .. Len(ends[c]) : ends[c][j] \in 1 .. Len(wire[c])
            BY <1>8
          <6>3. ends[c][k] \in 1 .. Len(wire[c]) /\ ends[c][n + 1] \in 1 .. Len(wire[c])
            BY <1>3, <6>1, <6>2
          <6>4. QED
            BY <1>8, <6>1, <6>3
        <5>3. ends[c][k] <= taken[c] /\ handled[c][k] = format_parse(Piece(wire[c], ends[c], k))
          BY <1>1, <5>1 DEF FramesOK
        <5>4. taken[c] \in Nat
          BY <1>8
        <5>5. QED
          BY <1>3, <1>9, <1>11, <5>1, <5>2, <5>3, <5>4
      <4>3. QED
        BY <4>1, <4>2
    <3>3. QED
      BY <1>3, <1>10, <2>1, <2>3, <3>1, <3>2
  <2>4. QED
    BY <2>2, <2>3
<1>13. QED
  BY <1>5, <1>7, <1>12 DEF FramesOK

LEMMA NextFrames ==
  ASSUME Inv, FramesOK, [Next]_vars
  PROVE  FramesOK'
<1>1. ASSUME NEW c \in Conn, Serves(c), Handles(c)
      PROVE  FramesOK'
  BY <1>1, HandlesFrames DEF Serves, peerVars
<1>2. ASSUME UNCHANGED <<role, wire, ends, intended, taken, handled>>
      PROVE  FramesOK'
  BY <1>2 DEF FramesOK
<1>3. CASE \E c \in Conn : HandleRequest(c) \/ HandlerFails(c)
  BY <1>1, <1>3 DEF HandleRequest, HandlerFails
<1>4. CASE \E c \in Conn : EndsConnection(c)
  BY <1>2, <1>4 DEF EndsConnection, Serves, peerVars
<1>5. CASE Poll \/ Accept
  BY <1>2, <1>5 DEF Poll, Accept, peerVars
<1>6. CASE \E c \in Conn : Connect(c) \/ Arrive(c) \/ Close(c)
  BY <1>2, <1>6 DEF Connect, Arrive, Close, peerVars
<1>7. CASE UNCHANGED vars
  BY <1>2, <1>7 DEF vars
<1>8. QED
  BY <1>3, <1>4, <1>5, <1>6, <1>7 DEF Next, Loop

LEMMA FramesMean ==
  ASSUME Inv, FramesOK
  PROVE  HandledAsMeant
<1> SUFFICES ASSUME NEW c \in Conn
             PROVE  /\ Len(handled[c]) <= Complete(c)
                    /\ \A m \in Range(handled[c]) : m.req \in Requests(role, m.sender)
                    /\ IsPrefix([k \in 1 .. Len(handled[c]) |-> Meaning(handled[c][k])], intended[c])
  BY DEF HandledAsMeant
<1>1. PICK w, e, t, h : w = wire[c] /\ e = ends[c] /\ t = intended[c] /\ h = handled[c]
  OBVIOUS
<1>2. PICK n \in Nat : n = Len(h)
  BY <1>1 DEF FramesOK
<1>3. /\ w \in Seq(Int) /\ e \in Seq(1 .. Len(w)) /\ taken[c] <= arrived[c]
      /\ taken[c] \in Nat /\ arrived[c] \in Nat /\ Len(w) \in Nat /\ Len(e) \in Nat
  BY <1>1 DEF Inv, StreamsOK
<1>4. /\ Framed(role, w, e, t) /\ n <= Len(e)
      /\ \A k \in 1 .. n : h[k] = format_parse(Piece(w, e, k)) /\ e[k] <= taken[c]
  BY <1>1, <1>2 DEF FramesOK
<1>5. DOMAIN h = 1 .. n
  BY <1>1, <1>2 DEF FramesOK
<1>6. \A k \in 1 .. n : Meaning(h[k]) = t[k] /\ h[k].req \in Requests(role, h[k].sender)
  <2>1. \A k \in 1 .. n : k \in 1 .. Len(e)
    BY <1>3, <1>4
  <2>2. QED
    BY <1>4, <2>1 DEF Framed
<1>7. n <= Complete(c)
  <2>1. PICK K : K = {k \in DOMAIN e : e[k] <= arrived[c]}
    OBVIOUS
  <2>2. ASSUME NEW k \in 1 .. n
        PROVE  k \in K
    <3>1. k \in 1 .. Len(e) /\ DOMAIN e = 1 .. Len(e)
      BY <1>3, <1>4
    <3>2. e[k] \in Int
      BY <1>3, <3>1
    <3>3. e[k] <= arrived[c]
      <4>1. e[k] <= taken[c]
        BY <1>4
      <4>2. QED
        BY <1>3, <3>2, <4>1
    <3>4. QED
      BY <2>1, <3>1, <3>3
  <2>3. IsFiniteSet(K)
    <3>1. IsFiniteSet(1 .. Len(e)) /\ DOMAIN e = 1 .. Len(e)
      BY <1>3, FS_Interval
    <3>2. QED
      BY <2>1, <3>1, FS_Subset
  <2>4. PICK J : J = 1 .. n
    OBVIOUS
  <2>5. J \in SUBSET K /\ Cardinality(J) = n
    <3>1. Cardinality(1 .. n) = IF 1 > n THEN 0 ELSE n - 1 + 1
      BY FS_Interval
    <3>2. QED
      BY <2>2, <2>4, <3>1
  <2>6. Cardinality(J) <= Cardinality(K)
    BY <2>3, <2>5, FS_Subset
  <2>7. QED
    BY <1>1, <2>1, <2>5, <2>6 DEF Complete
<1>8. \A m \in Range(h) : m.req \in Requests(role, m.sender)
  BY <1>5, <1>6 DEF Range
<1>9. PICK s : s = [k \in 1 .. n |-> Meaning(h[k])]
  OBVIOUS
<1>10. IsPrefix(s, t)
  <2>1. PICK S : t \in Seq(S)
    BY <1>4 DEF Framed
  <2>2. n <= Len(t)
    BY <1>4 DEF Framed
  <2>3. s = [k \in 1 .. n |-> t[k]]
    BY <1>6, <1>9
  <2>4. \A k \in 1 .. n : t[k] \in S
    BY <2>1, <2>2
  <2>5. s \in Seq(S) /\ Len(s) = n
    BY <2>3, <2>4
  <2>6. SubSeq(s, 1, n) = SubSeq(t, 1, n)
    <3>1. /\ SubSeq(s, 1, n) = [i \in 1 .. n |-> s[i]]
          /\ SubSeq(t, 1, n) = [i \in 1 .. n |-> t[i]]
      BY <2>1, <2>2, <2>5
    <3>2. QED
      BY <2>3, <3>1
  <2>7. QED
    BY <2>2, <2>5, <2>6 DEF IsPrefix
<1>11. QED
  BY <1>1, <1>2, <1>7, <1>8, <1>9, <1>10

(***************************************************************************)
(* What is said at the other end is framed, since the bytes of each        *)
(* request are as many as its first byte says.                             *)
(***************************************************************************)
LEMMA SaysFramed ==
  ASSUME WellMeant, NEW r \in {"server", "node"}, NEW c \in Conn, NEW o \in Openings(r, c)
  PROVE  Framed(r, o[1], o[2], o[3])
<1>1. PICK x \in Says(r, c) : o = Encoding(x[1], x[2])
  BY DEF Openings
<1>2. PICK msgs, t, out, w, e :
        /\ msgs = x[1] /\ t = x[2] /\ out = Encoded(msgs) /\ w = FlattenSeq(out)
        /\ e = [k \in DOMAIN out |-> Len(FlattenSeq(SubSeq(out, 1, k)))]
  OBVIOUS
<1>3. o[1] = w /\ o[2] = e /\ o[3] = t
  BY <1>1, <1>2 DEF Encoding
<1>4. PICK n \in Nat : n = APP_MESSAGE_LEN /\ n <= 238
  <2>1. APP_MESSAGE_LEN \in Nat /\ APP_MESSAGE_LEN + 17 <= 255
    BY ClientArgsAssumption DEF WellMeant, UINT8_MAX
  <2>2. QED
    BY <2>1
<1>5. /\ msgs \in Seq({m \in Sendable(n) : m.req \in Requests(r, m.sender)})
      /\ msgs # << >> /\ t = [k \in 1 .. Len(msgs) |-> Meaning(msgs[k])] /\ Joins(out)
  <2>1. /\ x[1] \in Seq({m \in Sendable(APP_MESSAGE_LEN) : m.req \in Requests(r, m.sender)})
        /\ x[1] # << >> /\ x[2] = [k \in 1 .. Len(x[1]) |-> Meaning(x[1][k])]
        /\ Joins(Encoded(x[1]))
    BY Zenon DEF WellMeant
  <2>2. QED
    BY <1>2, <1>4, <2>1
<1>6. PICK N \in Nat : N = Len(msgs) /\ N > 0
  <2>1. Len(msgs) \in Nat /\ Len(msgs) # 0
    BY <1>5, EmptySeq, LenProperties
  <2>2. QED
    BY <2>1
<1>7. \A k \in 1 .. N : msgs[k] \in Sendable(n) /\ msgs[k].req \in Requests(r, msgs[k].sender)
  BY <1>5, <1>6
<1>8. out = [k \in 1 .. N |-> format_create(msgs[k], n)]
  BY <1>2, <1>4, <1>6 DEF Encoded
<1>9. DOMAIN out = 1 .. N /\ Len(out) = N
  BY <1>8
<1>10. /\ w \in Seq(Int) /\ Len(w) \in Nat /\ e \in Seq(1 .. Len(w)) /\ Len(e) = N
       /\ \A k \in 1 .. N : e[k] \in Nat /\ e[k] <= Len(w)
  <2>1. w \in Seq(Int) /\ e \in Seq(1 .. Len(w))
    BY <1>3, OpeningsAssumption
  <2>2. Len(w) \in Nat
    BY <2>1
  <2>3. DOMAIN e = 1 .. N
    BY <1>2, <1>9
  <2>4. Len(e) = N
    BY <2>1, <2>3
  <2>5. \A k \in 1 .. N : e[k] \in 1 .. Len(w)
    BY <2>1, <2>4
  <2>6. QED
    BY <2>1, <2>2, <2>4, <2>5
<1>11. \A k \in 1 .. N : e[k] = Len(FlattenSeq(SubSeq(out, 1, k)))
  BY <1>2, <1>9
<1>12. e[N] = Len(w)
  <2>1. N # 0 /\ N \in 1 .. N
    BY <1>6
  <2>2. Len(FlattenSeq(SubSeq(out, 1, N))) = Len(w)
    BY <1>2, <1>5, <1>9, <2>1 DEF Joins
  <2>3. QED
    BY <1>11, <2>1, <2>2
<1>13. ASSUME NEW k \in 1 .. N
       PROVE  Begin(e, k) \in Nat /\ SubSeq(w, Begin(e, k) + 1, e[k]) = out[k]
  <2>1. SubSeq(w, (IF k - 1 = 0 THEN 0 ELSE Len(FlattenSeq(SubSeq(out, 1, k - 1)))) + 1,
               IF k = 0 THEN 0 ELSE Len(FlattenSeq(SubSeq(out, 1, k)))) = out[k]
    BY <1>2, <1>5, <1>9 DEF Joins
  <2>2. k # 0 /\ e[k] = Len(FlattenSeq(SubSeq(out, 1, k)))
    BY <1>11
  <2>3. SubSeq(w, (IF k - 1 = 0 THEN 0 ELSE Len(FlattenSeq(SubSeq(out, 1, k - 1)))) + 1,
               e[k]) = out[k]
    BY <2>1, <2>2
  <2>4. CASE k = 1
    <3>1. k - 1 = 0 /\ Begin(e, k) = 0
      BY <2>4 DEF Begin
    <3>2. QED
      BY <2>3, <3>1
  <2>5. CASE k # 1
    <3>1. k - 1 \in 1 .. N /\ k - 1 # 0
      BY <2>5
    <3>2. Begin(e, k) = e[k - 1]
      BY <2>5 DEF Begin
    <3>3. Begin(e, k) = Len(FlattenSeq(SubSeq(out, 1, k - 1))) /\ Begin(e, k) \in Nat
      BY <1>10, <1>11, <3>1, <3>2
    <3>4. QED
      BY <2>3, <3>1, <3>3
  <2>6. QED
    BY <2>4, <2>5
<1>14. ASSUME NEW k \in 1 .. N
       PROVE  LET m == format_parse(Piece(w, e, k))
              IN  /\ e[k] >= Begin(e, k) + 3 /\ e[k] <= Begin(e, k) + 255
                  /\ w[Begin(e, k) + 1] = e[k] - Begin(e, k)
                  /\ Meaning(m) = t[k] /\ m.req \in Requests(r, m.sender)
  <2>1. PICK b \in Nat : b = Begin(e, k)
    BY <1>13
  <2>2. PICK z \in Nat : z = e[k] /\ z <= Len(w)
    BY <1>10
  <2>3. PICK f : f = out[k]
    OBVIOUS
  <2>4. PICK m \in Sendable(n) : m = msgs[k] /\ m.req \in Requests(r, m.sender)
    BY <1>7
  <2>5. f = format_create(m, n)
    BY <1>8, <2>3, <2>4
  <2>6. PICK d : d = format_parse(SubSeq(f, 2, Len(f)))
    OBVIOUS
  <2>7. /\ f \in Seq(Int) /\ f[1] = Len(f) /\ Len(f) >= 3 /\ Len(f) <= 255
        /\ Meaning(d) = Meaning(m) /\ d.req = m.req /\ d.sender = m.sender
    BY <1>4, <2>5, <2>6, FormatBack
  <2>8. f = SubSeq(w, b + 1, z)
    BY <1>13, <2>1, <2>2, <2>3
  <2>9. z = b + Len(f) /\ w[b + 1] = f[1] /\ SubSeq(w, b + 2, z) = SubSeq(f, 2, Len(f))
    <3>1. Len(SubSeq(w, b + 1, z)) >= 3
      BY <2>7, <2>8
    <3>2. w \in Seq(Int) /\ z <= Len(w)
      BY <1>10, <2>2
    <3>3. /\ z = b + Len(SubSeq(w, b + 1, z)) /\ w[b + 1] = SubSeq(w, b + 1, z)[1]
          /\ SubSeq(w, b + 2, z) =
               SubSeq(SubSeq(w, b + 1, z), 2, Len(SubSeq(w, b + 1, z)))
      BY <3>1, <3>2, SliceTail
    <3>4. QED
      BY <2>8, <3>3
  <2>10. PICK l \in Nat : l = Len(f)
    BY <2>7
  <2>11. z >= b + 3 /\ z <= b + 255 /\ w[b + 1] = z - b
    BY <2>7, <2>9, <2>10
  <2>12. format_parse(Piece(w, e, k)) = d
    BY <2>1, <2>2, <2>6, <2>9 DEF Piece
  <2>13. t[k] = Meaning(m)
    BY <1>5, <1>6, <2>4
  <2>14. Meaning(d) = t[k] /\ d.req \in Requests(r, d.sender)
    BY <2>4, <2>7, <2>13
  <2>15. QED
    BY <2>1, <2>2, <2>11, <2>12, <2>14
<1>15. Len(t) = N /\ \E S : t \in Seq(S)
  <2>1. PICK S : S = {Meaning(msgs[k]) : k \in 1 .. N}
    OBVIOUS
  <2>2. t = [k \in 1 .. N |-> Meaning(msgs[k])]
    BY <1>5, <1>6
  <2>3. \A k \in 1 .. N : Meaning(msgs[k]) \in S
    BY <2>1
  <2>4. t \in Seq(S) /\ Len(t) = N
    BY <2>2, <2>3
  <2>5. QED
    BY <2>4
<1>16. Framed(r, w, e, t)
  BY <1>6, <1>10, <1>12, <1>14, <1>15 DEF Framed
<1>17. QED
  BY <1>3, <1>16

LEMMA InitFrames ==
  ASSUME WellMeant, Init
  PROVE  FramesOK
<1>1. PICK f \in [Conn -> UNION {Openings(role, c) : c \in Conn}] :
        /\ \A c \in Conn : f[c] \in Openings(role, c)
        /\ wire = [c \in Conn |-> f[c][1]]
        /\ ends = [c \in Conn |-> f[c][2]]
        /\ intended = [c \in Conn |-> f[c][3]]
  BY Zenon DEF Init
<1>2. role \in {"server", "node"}
  BY DEF Init
<1>3. handled = [c \in Conn |-> << >>] /\ taken = [c \in Conn |-> 0]
  BY DEF Init
<1>4. \A c \in Conn : Framed(role, wire[c], ends[c], intended[c])
  <2> SUFFICES ASSUME NEW c \in Conn
               PROVE  Framed(role, wire[c], ends[c], intended[c])
    OBVIOUS
  <2>1. PICK o : o = f[c] /\ o \in Openings(role, c)
    BY <1>1
  <2>2. wire[c] = o[1] /\ ends[c] = o[2] /\ intended[c] = o[3]
    BY <1>1, <2>1
  <2>3. Framed(role, o[1], o[2], o[3])
    BY <1>2, <2>1, SaysFramed
  <2>4. QED
    BY <2>2, <2>3
<1>5. handled \in [Conn -> Seq({format_parse(b) : b \in Seq(Int)})]
  BY <1>3
<1>6. \A c \in Conn : Len(handled[c]) = 0 /\ taken[c] = 0
  BY <1>3
<1>7. ASSUME NEW c \in Conn
      PROVE  0 <= Len(ends[c]) /\ 0 = Begin(ends[c], 0 + 1)
  <2>1. Len(ends[c]) > 0 /\ Len(ends[c]) \in Nat
    <3>1. ends[c] \in Seq(1 .. Len(wire[c]))
      BY InitInv DEF Inv, StreamsOK
    <3>2. QED
      BY <1>4, <3>1 DEF Framed
  <2>2. QED
    BY <2>1 DEF Begin
<1>8. \A k \in 1 .. 0 : FALSE
  BY SMT
<1>9. QED
  BY <1>4, <1>5, <1>6, <1>7, <1>8 DEF FramesOK

(***************************************************************************)
(* Whatever is sent and however it is cut and joined on the way, the loop  *)
(* handles it as it was meant at the other end: nothing is handled before  *)
(* all of it has come, nothing twice and nothing out of order, provided    *)
(* the requests that processes send are such as the code can make.         *)
(***************************************************************************)
THEOREM RequestsAreHandledAsMeant ==
  ASSUME WellMeant
  PROVE  Spec => []HandledAsMeant
<1>1. Init => FramesOK
  BY InitFrames
<1>2. Inv /\ FramesOK /\ [Next]_vars => FramesOK'
  BY NextFrames
<1>3. Inv /\ FramesOK => HandledAsMeant
  BY FramesMean
<1>4. QED
  BY <1>1, <1>2, <1>3, SpecInv, PTL DEF Spec
=============================================================================
