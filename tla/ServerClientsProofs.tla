------------------------- MODULE ServerClientsProofs -------------------------
(***************************************************************************)
(* That clients get their own answers, for any number of clients, entries  *)
(* of the client table, descriptors and notifies.                          *)
(*                                                                         *)
(* The table is a ring that the ids go round in order, so the id in an     *)
(* entry follows from its age, but for the entries never written and for   *)
(* those left from before a reset (Table).  From that the search by id     *)
(* finds the one entry that was written for a message (Own), and an entry  *)
(* is not overwritten while its client waits (Kept).                       *)
(***************************************************************************)
EXTENDS ServerClients, NumberSets

-----------------------------------------------------------------------------
\* The constants, as the proofs use them.
LEMMA MaxClientType == MAX_CLIENT \in Nat /\ 1 <= MAX_CLIENT /\ MAX_CLIENT <= 255
BY ServerClientsAssumption

\* Bounds are natural numbers.
LEMMA BoundTypes ==
  MaxNotifies \in Nat /\ MaxResets \in Nat /\ Batch \in Nat \ {0} /\ ResetGap \in Nat
BY ServerClientsAssumption

\* Ids are 0 up to a natural number; which one does not matter.
LEMMA LastIdType == UINT16_MAX \in Nat
BY SMT DEF UINT16_MAX

\* There are finitely many clients, and none of them is nobody.
LEMMA ClientsFinite == IsFiniteSet(Clients) /\ Nobody \notin Clients
BY ServerClientsAssumption

\* The search for an id that is in the table finds its first entry.
LEMMA FirstEntryFacts ==
  ASSUME NEW id, Entries(id) # {}
  PROVE  /\ FirstEntry(id) \in Entries(id)
         /\ \A t \in Entries(id) : FirstEntry(id) <= t
<1>1. Entries(id) \in SUBSET Nat
  BY MaxClientType DEF Entries, Slot
<1>2. \E s \in Entries(id) : \A t \in Entries(id) : s <= t
  BY <1>1, HasLeast
<1>3. QED
  BY <1>2 DEF FirstEntry

\* get_client_fd_by_id returns a descriptor or -1.
LEMMA LookupType ==
  ASSUME TypeOK, NEW id
  PROVE  get_client_fd_by_id(id) \in Fd \cup {-1}
<1>1. \A s \in Slot : clients[s] \in ClientEntry
  BY DEF TypeOK
<1>2. \A s \in Slot : clients[s].fd \in Fd \cup {-1}
  BY <1>1 DEF ClientEntry
<1>3. Entries(id) # {} => FirstEntry(id) \in Slot
  BY FirstEntryFacts DEF Entries
<1>4. QED
  BY <1>2, <1>3 DEF get_client_fd_by_id

\* set_client writes within the table.
LEMMA SlotType ==
  ASSUME TypeOK
  PROVE  next_slot \in Slot /\ next_slot + 1 \in 0 .. MAX_CLIENT
<1>1. client_num \in 0 .. MAX_CLIENT
  BY DEF TypeOK
<1>2. QED
  BY <1>1, MaxClientType DEF next_slot, Slot

-----------------------------------------------------------------------------
\* What a write does to the types.
LEMMA WriteType ==
  ASSUME TypeOK, NEW f \in Fd, NEW d \in Clients, Write(f, d)
  PROVE  /\ answer' \in [Clients -> Clients \cup {Nobody}]
         /\ written' \subseteq Fd
         /\ server' \in {"up", "down"}
<1>1. /\ answer \in [Clients -> Clients \cup {Nobody}]
      /\ written \subseteq Fd
      /\ server \in {"up", "down"}
  BY DEF TypeOK
<1>2. QED
  BY <1>1 DEF Write

\* A message keeps its type when a notify is taken from those to come.
LEMMA OneLessType ==
  ASSUME TypeOK, NEW c \in Clients, mesh[c].left > 0
  PROVE  [mesh EXCEPT ![c].left = @ - 1] \in [Clients -> MeshMessage]
<1>1. mesh \in [Clients -> MeshMessage]
  BY DEF TypeOK
<1>2. ASSUME NEW m \in MeshMessage, m.left > 0
      PROVE  [m EXCEPT !.left = @ - 1] \in MeshMessage
  <2>1. m.left - 1 \in 0 .. MaxNotifies
    BY <1>2, BoundTypes DEF MeshMessage
  <2>2. QED
    BY <2>1 DEF MeshMessage
<1>3. mesh[c] \in MeshMessage
  BY <1>1
<1>4. [mesh[c] EXCEPT !.left = @ - 1] \in MeshMessage
  BY <1>2, <1>3
<1>5. QED
  BY <1>1, <1>4

\* The table keeps its type when an entry is taken.
LEMMA TakeType ==
  ASSUME TypeOK, NEW id, TakeClient(id)
  PROVE  clients' \in [Slot -> ClientEntry]
<1>1. clients \in [Slot -> ClientEntry]
  BY DEF TypeOK
<1>2. \A e \in ClientEntry : [e EXCEPT !.fd = -1] \in ClientEntry
  BY DEF ClientEntry
<1>3. QED
  BY <1>1, <1>2 DEF TakeClient

\* Every step keeps the types.
LEMMA TypeStep == TypeOK /\ [Next]_vars => TypeOK'
<1> SUFFICES ASSUME TypeOK, [Next]_vars PROVE TypeOK'
  OBVIOUS
<1>1. ASSUME NEW c \in Clients, Connect(c) PROVE TypeOK'
  <2>1. batch' \in 0 .. Batch
    <3>1. batch \in 0 .. Batch
      BY DEF TypeOK
    <3>2. QED
      BY <1>1, <3>1, BoundTypes DEF Connect
  <2>2. QED
    BY <1>1, <2>1 DEF Connect, TypeOK
<1>2. ASSUME NEW c \in Clients, ClientReads(c) \/ ClientGivesUp(c) PROVE TypeOK'
  BY <1>2 DEF ClientReads, ClientGivesUp, Leave, TypeOK
<1>3. ASSUME NEW c \in Clients, Accept(c) PROVE TypeOK'
  BY <1>3 DEF Accept, TypeOK
<1>4. ASSUME NEW c \in Clients, Notify(c) PROVE TypeOK'
  <2> DEFINE id == mesh[c].id
             fd == get_client_fd_by_id(id)
  <2>1. fd \in Fd \cup {-1}
    BY LookupType
  <2>2. /\ answer' \in [Clients -> Clients \cup {Nobody}]
        /\ written' \subseteq Fd
        /\ server' \in {"up", "down"}
        /\ notifier' \in [Notifiers -> {"open", "fin", "broken"}]
    <3>1. CASE fd # -1 /\ Write(fd, c) /\ UNCHANGED notifier
      BY <3>1, <2>1, WriteType DEF TypeOK
    <3>2. CASE UNCHANGED <<answer, written, server>>
      BY <1>4, <3>2 DEF Notify, TypeOK
    <3>3. QED
      BY <1>4, <3>1, <3>2 DEF Notify
  <2>3. clients' \in [Slot -> ClientEntry]
    BY <1>4, TakeType DEF Notify
  <2>4. mesh' \in [Clients -> MeshMessage]
    BY <1>4, OneLessType DEF Notify
  <2>5. QED
    BY <1>4, <2>2, <2>3, <2>4 DEF Notify, TypeOK
<1>5. ASSUME NEW c \in Clients, NotifyLost(c) PROVE TypeOK'
  <2>1. mesh' \in [Clients -> MeshMessage]
    BY <1>5, OneLessType DEF NotifyLost
  <2>2. QED
    BY <1>5, <2>1 DEF NotifyLost, TypeOK
<1>6. ASSUME NEW f \in Fd, NEW c \in Clients, HandleClientSend(f, c) PROVE TypeOK'
  <2>1. app_msg_id \in 0 .. UINT16_MAX /\ app_msg_id' \in 0 .. UINT16_MAX
    <3>1. app_msg_id \in 0 .. UINT16_MAX
      BY DEF TypeOK
    <3>2. app_msg_id' = (app_msg_id + 1) % (UINT16_MAX + 1)
      BY <1>6 DEF HandleClientSend
    <3>3. ASSUME NEW m \in Nat, NEW i \in 0 .. m
          PROVE  (i + 1) % (m + 1) \in 0 .. m
      BY SMT
    <3>4. QED
      BY <3>1, <3>2, <3>3, LastIdType
  <2>2. /\ clients' \in [Slot -> ClientEntry]
        /\ client_num' \in 0 .. MAX_CLIENT
    <3>1. [fd |-> f, app_id |-> app_msg_id] \in ClientEntry
      BY <2>1 DEF ClientEntry
    <3>2. clients \in [Slot -> ClientEntry]
      BY DEF TypeOK
    <3>3. /\ clients' = [clients EXCEPT ![next_slot] = [fd |-> f, app_id |-> app_msg_id]]
          /\ client_num' = next_slot + 1
      BY <1>6 DEF HandleClientSend, set_client
    <3>4. QED
      BY <3>1, <3>2, <3>3, SlotType
  <2>3. mesh' \in [Clients -> MeshMessage]
    <3>1. \A n \in Notifiers, k \in 0 .. MaxNotifies :
            [id |-> app_msg_id, by |-> n, left |-> k] \in MeshMessage
      BY <2>1 DEF MeshMessage
    <3>2. mesh \in [Clients -> MeshMessage]
      BY DEF TypeOK
    <3>3. QED
      BY <1>6, <3>1, <3>2 DEF HandleClientSend
  <2>4. fds' \in [Fd -> Clients \cup {Nobody}]
    BY <1>6 DEF HandleClientSend, TypeOK
  <2>5. QED
    BY <1>6, <2>1, <2>2, <2>3, <2>4 DEF HandleClientSend, Reads, TypeOK
<1>7. ASSUME NEW f \in Fd, NEW c \in Clients, HandleReset(f, c) PROVE TypeOK'
  <2>1. resets' \in 0 .. MaxResets /\ app_msg_id' \in 0 .. UINT16_MAX
    <3>1. resets \in 0 .. MaxResets
      BY DEF TypeOK
    <3>2. QED
      BY <1>7, <3>1, BoundTypes, LastIdType DEF HandleReset
  <2>2. /\ answer' \in [Clients -> Clients \cup {Nobody}]
        /\ written' \subseteq Fd
        /\ server' \in {"up", "down"}
    BY <1>7, WriteType DEF HandleReset
  <2>3. QED
    BY <1>7, <2>1, <2>2 DEF HandleReset, Reads, TypeOK
<1>8. ASSUME NEW f \in Fd, ServerCloses(f) PROVE TypeOK'
  BY <1>8 DEF ServerCloses, TypeOK
<1>9. CASE UNCHANGED vars
  BY <1>9 DEF vars, TypeOK
<1>10. QED
  BY <1>1, <1>2, <1>3, <1>4, <1>5, <1>6, <1>7, <1>8, <1>9 DEF Next

\* The server starts with variables of their types.
LEMMA InitType == Init => TypeOK
<1>1. init_clients \in [Slot -> ClientEntry]
  BY LastIdType DEF init_clients, ClientEntry
<1>2. NoMessage \in MeshMessage
  BY BoundTypes, LastIdType DEF NoMessage, MeshMessage
<1>3. /\ 0 \in 0 .. UINT16_MAX /\ 0 \in 0 .. MAX_CLIENT
      /\ 0 \in 0 .. Batch /\ 0 \in 0 .. MaxResets
  BY BoundTypes, MaxClientType, LastIdType
<1>4. QED
  BY <1>1, <1>2, <1>3 DEF Init, TypeOK

(***************************************************************************)
(* client_num stays within the table that set_client goes round, ids and   *)
(* descriptors within their types, for every number of clients, entries,   *)
(* descriptors and notifies.                                               *)
(***************************************************************************)
THEOREM TypeCorrect == Spec => []TypeOK
BY InitType, TypeStep, PTL DEF Spec

-----------------------------------------------------------------------------
(***************************************************************************)
(* The inductive invariant.                                                *)
(***************************************************************************)
Unread == {c \in Clients : request[c] \in {"queued", "accepted"}}
WasRead == {c \in Clients : request[c] = "read"}

\* How many messages ago an entry was written: the last one has age 1.
Age(s) == IF s < next_slot THEN next_slot - s ELSE next_slot - s + MAX_CLIENT

\* The first round: message s is in entry s, the rest was never written.
FirstRound ==
  /\ client_num = app_msg_id
  /\ \A s \in Slot : IF s < app_msg_id THEN clients[s].app_id = s
                     ELSE clients[s].app_id = 0 /\ clients[s].fd = -1

\* Later rounds: entries since the last reset have the last ids, and those
\* from before it (when the next id would have been b) larger ones.
LaterRound ==
  \E b \in Nat :
    /\ b >= app_msg_id + MAX_CLIENT
    /\ \A s \in Slot :
         clients[s].app_id = (IF Age(s) <= app_msg_id THEN app_msg_id ELSE b) - Age(s)

Table == FirstRound \/ LaterRound

Pending(c) == mesh[c].left > 0

\* Notifies are about requests that were read, under ids of their own.
Numbered ==
  /\ app_msg_id <= Cardinality(WasRead)
  /\ \A c \in Clients : client[c] = "idle" => request[c] = "none"
  /\ \A c \in Clients : c \in told \/ Pending(c) \/ answer[c] = c => c \in WasRead
  /\ \A c \in Clients : Pending(c) => mesh[c].id < app_msg_id
  /\ \A c, d \in Clients : Pending(c) /\ Pending(d) /\ mesh[c].id = mesh[d].id => c = d

\* An entry for a message that is still to be notified leads to its client,
\* or to nobody once the outcome was told.
Own ==
  \A c \in Clients, s \in Slot : Pending(c) /\ clients[s].app_id = mesh[c].id =>
    /\ c \in told \/ answer[c] = c => clients[s].fd = -1
    /\ client[c] = "waiting" /\ clients[s].fd # -1 => fds[clients[s].fd] = c

AnswerInv == TypeOK /\ Table /\ Numbered /\ Own /\ RightAnswer

(***************************************************************************)
(* What the clients must keep to: between resets there are either no       *)
(* messages or as many as the table has entries, so that the ids left in   *)
(* the table are used up, and the ids do not come round.                   *)
(***************************************************************************)
SpacedResets ==
  /\ MaxResets = 0 \/ ResetGap >= MAX_CLIENT
  /\ Cardinality(Clients) <= UINT16_MAX

-----------------------------------------------------------------------------
\* Ages.
LEMMA AgeFacts ==
  ASSUME TypeOK
  PROVE  /\ \A s \in Slot : Age(s) \in 1 .. MAX_CLIENT
         /\ \A s, t \in Slot : Age(s) = Age(t) => s = t
<1>1. next_slot \in Slot
  BY SlotType
<1>2. QED
  BY <1>1, MaxClientType DEF Age, Slot

\* Of the entries with one id only the first can lead to a client.
LEMMA FirstOnly ==
  ASSUME TypeOK, Table, NEW s \in Slot, NEW t \in Slot, s < t,
         clients[s].app_id = clients[t].app_id, clients[s].app_id < app_msg_id
  PROVE  clients[t].fd = -1
<1> DEFINE a == app_msg_id
<1>1. a \in Nat /\ s \in Nat /\ t \in Nat
  BY LastIdType DEF TypeOK, Slot
<1>2. CASE FirstRound
  BY <1>1, <1>2 DEF FirstRound
<1>3. CASE LaterRound
  <2>1. PICK b \in Nat :
          /\ b >= a + MAX_CLIENT
          /\ \A x \in Slot :
               clients[x].app_id = (IF Age(x) <= a THEN a ELSE b) - Age(x)
    BY <1>3 DEF LaterRound
  <2>2. Age(s) \in 1 .. MAX_CLIENT /\ Age(t) \in 1 .. MAX_CLIENT /\ Age(s) # Age(t)
    BY <1>1, AgeFacts
  <2>3. FALSE
    BY <1>1, <2>1, <2>2, MaxClientType
  <2>4. QED
    BY <2>3
<1>4. QED
  BY <1>2, <1>3 DEF Table

\* set_client makes the entry it writes the youngest.
LEMMA AgeAfter ==
  ASSUME TypeOK, client_num' = next_slot + 1, NEW s \in Slot
  PROVE  Age(s)' = IF s = next_slot THEN 1 ELSE Age(s) + 1
<1>1. next_slot \in Slot
  BY SlotType
<1>2. next_slot' = IF next_slot + 1 = MAX_CLIENT THEN 0 ELSE next_slot + 1
  BY DEF next_slot
<1>3. QED
  BY <1>1, <1>2, MaxClientType DEF Age, Slot

\* At the end of the first round the later ones begin.
LEMMA RoundEnds ==
  ASSUME TypeOK, FirstRound, app_msg_id = MAX_CLIENT
  PROVE  LaterRound
<1>1. client_num = MAX_CLIENT /\ next_slot = 0
  BY DEF FirstRound, next_slot
<1>2. \A s \in Slot : Age(s) = MAX_CLIENT - s /\ Age(s) <= app_msg_id
  BY <1>1, MaxClientType DEF Age, Slot
<1>3. \A s \in Slot : clients[s].app_id = s
  BY MaxClientType DEF FirstRound, Slot
<1>4. \A s \in Slot : clients[s].app_id = app_msg_id - Age(s)
  BY <1>2, <1>3, MaxClientType DEF Slot
<1>5. MAX_CLIENT + MAX_CLIENT \in Nat /\ MAX_CLIENT + MAX_CLIENT >= app_msg_id + MAX_CLIENT
  BY MaxClientType
<1>6. QED
  BY <1>2, <1>4, <1>5 DEF LaterRound

\* A new message keeps the table in order, if the ids do not come round.
LEMMA TableEnters ==
  ASSUME TypeOK, Table, NEW f, set_client(app_msg_id, f), app_msg_id' = app_msg_id + 1
  PROVE  Table'
<1> DEFINE a == app_msg_id
<1>1. a \in Nat /\ a' = a + 1 /\ client_num' = next_slot + 1
  BY LastIdType DEF TypeOK, set_client
<1>2. next_slot \in Slot
  BY SlotType
<1>3. \A s \in Slot : clients'[s] = IF s = next_slot THEN [fd |-> f, app_id |-> a]
                                    ELSE clients[s]
  BY <1>2 DEF set_client, TypeOK
<1>4. \A s \in Slot : clients'[s].app_id = IF s = next_slot THEN a ELSE clients[s].app_id
  BY <1>3
<1>5. CASE FirstRound /\ a # MAX_CLIENT
  <2>1. client_num = a /\ client_num # MAX_CLIENT
    BY <1>5 DEF FirstRound
  <2>2. next_slot = a /\ client_num' = a + 1
    BY <1>1, <2>1 DEF next_slot
  <2>3. \A s \in Slot : s \in Nat
    BY MaxClientType DEF Slot
  <2>4. \A s \in Slot : IF s < a + 1 THEN clients'[s].app_id = s
                        ELSE clients'[s].app_id = 0 /\ clients'[s].fd = -1
    BY <1>1, <1>3, <1>4, <1>5, <2>2, <2>3 DEF FirstRound
  <2>5. QED
    BY <1>1, <2>2, <2>4 DEF FirstRound, Table
<1>6. CASE LaterRound
  <2>1. PICK b \in Nat :
          /\ b >= a + MAX_CLIENT
          /\ \A s \in Slot :
               clients[s].app_id = (IF Age(s) <= a THEN a ELSE b) - Age(s)
    BY <1>6 DEF LaterRound
  <2>2. ASSUME NEW s \in Slot
        PROVE  clients'[s].app_id = (IF Age(s)' <= a + 1 THEN a + 1 ELSE b + 1) - Age(s)'
    <3>1. Age(s) \in 1 .. MAX_CLIENT
      BY AgeFacts
    <3>2. Age(s)' = IF s = next_slot THEN 1 ELSE Age(s) + 1
      BY <1>1, AgeAfter
    <3>3. CASE s = next_slot
      BY <1>1, <1>4, <3>2, <3>3
    <3>4. CASE s # next_slot
      <4>1. clients'[s].app_id = clients[s].app_id /\ Age(s)' = Age(s) + 1
        BY <1>4, <3>2, <3>4
      <4>2. clients[s].app_id = (IF Age(s) <= a THEN a ELSE b) - Age(s)
        BY <2>1
      <4>3. QED
        BY <1>1, <2>1, <3>1, <4>1, <4>2, MaxClientType
    <3>5. QED
      BY <3>3, <3>4
  <2>3. b + 1 \in Nat /\ b + 1 >= a' + MAX_CLIENT
    BY <1>1, <2>1, MaxClientType
  <2>4. LaterRound'
    BY <1>1, <2>2, <2>3 DEF LaterRound
  <2>5. QED
    BY <2>4 DEF Table
<1>7. QED
  BY <1>5, <1>6, RoundEnds DEF Table

\* A reset that comes after no message or after enough of them keeps it too.
LEMMA TableResets ==
  ASSUME TypeOK, Table, app_msg_id = 0 \/ app_msg_id >= MAX_CLIENT,
         app_msg_id' = 0, UNCHANGED <<clients, client_num>>
  PROVE  Table'
<1> DEFINE a == app_msg_id
<1>1. a \in Nat /\ client_num \in 0 .. MAX_CLIENT
  BY LastIdType DEF TypeOK
<1>2. next_slot' = next_slot /\ \A s \in Slot : Age(s)' = Age(s)
  BY DEF next_slot, Age
<1>3. CASE a = 0
  <2>1. FirstRound => FirstRound'
    BY <1>3 DEF FirstRound
  <2>2. LaterRound => LaterRound'
    BY <1>2, <1>3 DEF LaterRound
  <2>3. QED
    BY <2>1, <2>2 DEF Table
<1>4. CASE a >= MAX_CLIENT
  <2>1. FirstRound => a = MAX_CLIENT
    BY <1>1, <1>4, MaxClientType DEF FirstRound
  <2>2. LaterRound
    BY <2>1, RoundEnds DEF Table
  <2>3. PICK b \in Nat :
          /\ b >= a + MAX_CLIENT
          /\ \A s \in Slot :
               clients[s].app_id = (IF Age(s) <= a THEN a ELSE b) - Age(s)
    BY <2>2 DEF LaterRound
  <2>4. ASSUME NEW s \in Slot
        PROVE  clients'[s].app_id = (IF Age(s)' <= 0 THEN 0 ELSE a) - Age(s)'
    <3>1. Age(s) \in 1 .. MAX_CLIENT
      BY AgeFacts
    <3>2. clients[s].app_id = (IF Age(s) <= a THEN a ELSE b) - Age(s)
      BY <2>3
    <3>3. clients'[s].app_id = clients[s].app_id /\ Age(s)' = Age(s)
      BY <1>2
    <3>4. QED
      BY <1>1, <1>4, <3>1, <3>2, <3>3, MaxClientType
  <2>5. a >= 0 + MAX_CLIENT
    BY <1>1, <1>4, MaxClientType
  <2>6. LaterRound'
    BY <1>1, <2>4, <2>5 DEF LaterRound
  <2>7. QED
    BY <2>6 DEF Table
<1>5. QED
  BY <1>3, <1>4

\* Taking an entry changes no id.
LEMMA TableTaken ==
  ASSUME TypeOK, Table, UNCHANGED <<app_msg_id, client_num>>,
         \A s \in Slot : /\ clients'[s].app_id = clients[s].app_id
                         /\ clients'[s].fd \in {clients[s].fd, -1}
  PROVE  Table'
<1>1. next_slot' = next_slot /\ \A s \in Slot : Age(s)' = Age(s)
  BY DEF next_slot, Age
<1>2. FirstRound => FirstRound'
  BY DEF FirstRound
<1>3. LaterRound => LaterRound'
  BY <1>1 DEF LaterRound
<1>4. QED
  BY <1>2, <1>3 DEF Table

\* The next id is in the table only where it does no harm.
LEMMA NextIdFree ==
  ASSUME TypeOK, Table, NEW s \in Slot, s # next_slot, clients[s].app_id = app_msg_id
  PROVE  clients[s].fd = -1
<1> DEFINE a == app_msg_id
<1>1. a \in Nat /\ s \in Nat
  BY LastIdType DEF TypeOK, Slot
<1>2. CASE FirstRound
  BY <1>1, <1>2 DEF FirstRound
<1>3. CASE LaterRound
  <2>1. PICK b \in Nat :
          /\ b >= a + MAX_CLIENT
          /\ \A x \in Slot :
               clients[x].app_id = (IF Age(x) <= a THEN a ELSE b) - Age(x)
    BY <1>3 DEF LaterRound
  <2>2. Age(next_slot) = MAX_CLIENT
    BY SlotType, MaxClientType DEF Age, Slot
  <2>3. Age(s) \in 1 .. MAX_CLIENT /\ Age(s) # MAX_CLIENT
    BY <2>2, AgeFacts, SlotType
  <2>4. FALSE
    BY <1>1, <2>1, <2>3, MaxClientType
  <2>5. QED
    BY <2>4
<1>4. QED
  BY <1>2, <1>3 DEF Table

\* accept takes a descriptor that is free.
LEMMA LowestFree ==
  ASSUME FreeFds # {}
  PROVE  (CHOOSE g \in FreeFds : \A h \in FreeFds : g <= h) \in FreeFds
<1>1. FreeFds \in SUBSET Nat
  BY DEF FreeFds, Fd
<1>2. \E g \in FreeFds : \A h \in FreeFds : g <= h
  BY <1>1, HasLeast
<1>3. QED
  BY <1>2

\* A client that asks for something new is added to those that were read.
LEMMA ReadCount ==
  ASSUME TypeOK, Numbered, NEW f, NEW c \in Clients, Reads(f, c)
  PROVE  /\ WasRead' = WasRead \cup {c} /\ c \notin WasRead
         /\ Cardinality(WasRead') = Cardinality(WasRead) + 1
         /\ Cardinality(WasRead) \in Nat
         /\ Cardinality(WasRead) < Cardinality(Clients) /\ Cardinality(Clients) \in Nat
<1>1. WasRead' = WasRead \cup {c} /\ c \notin WasRead
  BY DEF Reads, WasRead, TypeOK
<1>2. WasRead \subseteq Clients /\ WasRead' \subseteq Clients /\ IsFiniteSet(Clients)
  BY ClientsFinite DEF WasRead
<1>3. IsFiniteSet(WasRead) /\ IsFiniteSet(WasRead')
  BY <1>2, FS_Subset
<1>4. Cardinality(WasRead') <= Cardinality(Clients)
  BY <1>2, FS_Subset
<1>5. Cardinality(WasRead') = Cardinality(WasRead) + 1
  BY <1>1, <1>3, FS_AddElement
<1>6. Cardinality(WasRead) \in Nat /\ Cardinality(Clients) \in Nat
  BY <1>2, <1>3, FS_CardinalityType
<1>7. QED
  BY <1>1, <1>4, <1>5, <1>6

\* As long as the ids do not come round, the next one is one more.
LEMMA NextId ==
  ASSUME TypeOK, Numbered, SpacedResets, NEW f \in Fd, NEW c \in Clients,
         HandleClientSend(f, c)
  PROVE  /\ app_msg_id \in Nat /\ app_msg_id' = app_msg_id + 1
         /\ app_msg_id' <= Cardinality(WasRead')
<1>1. app_msg_id \in Nat /\ UINT16_MAX \in Nat
  BY LastIdType DEF TypeOK
<1>2. app_msg_id <= Cardinality(WasRead) /\ Reads(f, c)
  BY DEF Numbered, HandleClientSend
<1>3. app_msg_id + 1 <= UINT16_MAX /\ app_msg_id + 1 <= Cardinality(WasRead')
  BY <1>1, <1>2, ReadCount DEF SpacedResets
<1>4. app_msg_id' = (app_msg_id + 1) % (UINT16_MAX + 1)
  BY DEF HandleClientSend
<1>5. ASSUME NEW m \in Nat, NEW i \in Nat, i <= m
      PROVE  i % (m + 1) = i
  BY <1>5, SMT
<1>6. app_msg_id' = app_msg_id + 1
  BY <1>1, <1>3, <1>4, <1>5
<1>7. QED
  BY <1>1, <1>3, <1>6

\* Taking a notify from those to come leaves the ids as they are.
LEMMA OneLess ==
  ASSUME mesh \in [Clients -> MeshMessage], NEW c \in Clients, mesh[c].left > 0,
         mesh' = [mesh EXCEPT ![c].left = @ - 1]
  PROVE  \A d \in Clients : mesh'[d].id = mesh[d].id /\ (Pending(d)' => Pending(d))
<1>1. mesh[c] \in MeshMessage
  OBVIOUS
<1>2. mesh'[c].id = mesh[c].id
  BY <1>1 DEF MeshMessage
<1>3. QED
  BY <1>1, <1>2 DEF Pending

\* A message the mesh still has to notify about has the id it was given.
LEMMA NewMessage ==
  ASSUME mesh \in [Clients -> MeshMessage], Numbered, NEW f \in Fd, NEW c \in Clients,
         HandleClientSend(f, c), Pending(c)'
  PROVE  mesh'[c].id = app_msg_id /\ fds' = fds
<1>1. ~Pending(c)
  BY DEF HandleClientSend, Reads, Numbered, WasRead
<1>2. mesh' # mesh
  BY <1>1 DEF Pending
<1>3. fds' = fds /\ \E n \in Notifiers, k \in 0 .. MaxNotifies :
        mesh' = [mesh EXCEPT ![c] = [id |-> app_msg_id, by |-> n, left |-> k]]
  BY <1>2 DEF HandleClientSend
<1>4. QED
  BY <1>3

-----------------------------------------------------------------------------
(***************************************************************************)
(* The steps.                                                              *)
(***************************************************************************)
\* Clients come and go.
LEMMA ClientSteps ==
  ASSUME AnswerInv, NEW c \in Clients, Connect(c) \/ Leave(c)
  PROVE  Table' /\ Numbered' /\ Own' /\ RightAnswer'
<1>1. /\ TypeOK /\ Table /\ Numbered /\ Own /\ RightAnswer
      /\ client \in [Clients -> {"idle", "waiting", "left"}]
      /\ request \in [Clients -> {"none", "queued", "accepted", "read"}]
  BY DEF AnswerInv, TypeOK
<1>2. UNCHANGED <<app_msg_id, clients, client_num, fds, mesh, answer, told>>
  BY DEF Connect, Leave
<1>3. Table'
  BY <1>1, <1>2, TableTaken
<1>4. Connect(c) => c \notin WasRead /\ client[c] = "idle"
  BY <1>1 DEF Connect, Numbered, WasRead
<1>5. WasRead' = WasRead
  BY <1>1, <1>4 DEF Connect, Leave, WasRead
<1>6. \A d \in Clients : client'[d] = "idle" => request'[d] = "none"
  BY <1>1 DEF Connect, Leave, Numbered
<1>7. Numbered'
  BY <1>1, <1>2, <1>5, <1>6 DEF Numbered, Pending
<1>8. \A d \in Clients : Pending(d) /\ client'[d] = "waiting" => client[d] = "waiting"
  BY <1>1, <1>4 DEF Connect, Leave, Numbered
<1>9. Own'
  BY <1>1, <1>2, <1>8 DEF Own, Pending
<1>10. RightAnswer'
  BY <1>1, <1>2, <1>4 DEF Connect, Leave, RightAnswer
<1>11. QED
  BY <1>3, <1>7, <1>9, <1>10

\* The server accepts a connection.
LEMMA AcceptStep ==
  ASSUME AnswerInv, NEW c \in Clients, Accept(c)
  PROVE  Table' /\ Numbered' /\ Own' /\ RightAnswer'
<1>1. /\ TypeOK /\ Table /\ Numbered /\ Own /\ RightAnswer
      /\ fds \in [Fd -> Clients \cup {Nobody}]
      /\ request \in [Clients -> {"none", "queued", "accepted", "read"}]
  BY DEF AnswerInv, TypeOK
<1>2. UNCHANGED <<app_msg_id, clients, client_num, mesh, answer, told, client>>
  BY DEF Accept
<1>3. Table'
  BY <1>1, <1>2, TableTaken
<1>4. WasRead' = WasRead
  BY <1>1 DEF Accept, WasRead
<1>5. \A d \in Clients : client'[d] = "idle" => request'[d] = "none"
  BY <1>1 DEF Accept, Numbered
<1>6. Numbered'
  BY <1>1, <1>2, <1>4, <1>5 DEF Numbered, Pending
<1>7. \A g, d : d \in Clients /\ fds[g] = d => fds'[g] = d
  <2>1. PICK f \in FreeFds : fds' = [fds EXCEPT ![f] = c]
    BY LowestFree DEF Accept
  <2>2. fds[f] = Nobody
    BY <2>1 DEF FreeFds
  <2>3. QED
    BY <1>1, <2>1, <2>2, ClientsFinite
<1>8. Own'
  BY <1>1, <1>2, <1>7 DEF Own, Pending
<1>9. RightAnswer'
  BY <1>1, <1>2 DEF RightAnswer
<1>10. QED
  BY <1>3, <1>6, <1>8, <1>9

\* The server hands a message to the mesh.
LEMMA SendStep ==
  ASSUME AnswerInv, SpacedResets, NEW f \in Fd, NEW c \in Clients,
         HandleClientSend(f, c)
  PROVE  Table' /\ Numbered' /\ Own' /\ RightAnswer'
<1> DEFINE a == app_msg_id
<1>1. /\ TypeOK /\ Table /\ Numbered /\ Own /\ RightAnswer
      /\ fds \in [Fd -> Clients \cup {Nobody}]
      /\ request \in [Clients -> {"none", "queued", "accepted", "read"}]
      /\ mesh \in [Clients -> MeshMessage]
      /\ clients \in [Slot -> ClientEntry]
  BY DEF AnswerInv, TypeOK
<1>2. UNCHANGED <<answer, told, client>> /\ fds[f] = c
  BY DEF HandleClientSend, Reads
<1>3. a \in Nat /\ a' = a + 1 /\ a' <= Cardinality(WasRead')
  BY <1>1, NextId
<1>4. WasRead' = WasRead \cup {c} /\ c \notin WasRead
  BY <1>1, ReadCount DEF HandleClientSend
<1>5. c \notin told /\ answer[c] # c /\ ~Pending(c)
  BY <1>1, <1>4 DEF Numbered
<1>6. Table'
  BY <1>1, <1>3, TableEnters DEF HandleClientSend
<1>7. next_slot \in Slot
  BY <1>1, SlotType
<1>8. \A s \in Slot : clients'[s] = IF s = next_slot THEN [fd |-> f, app_id |-> a]
                                    ELSE clients[s]
  BY <1>1, <1>7 DEF HandleClientSend, set_client
<1>9. \A s \in Slot :
        /\ clients'[s].app_id = IF s = next_slot THEN a ELSE clients[s].app_id
        /\ clients'[s].fd = IF s = next_slot THEN f ELSE clients[s].fd
  BY <1>8
<1>10. \A d \in Clients : d # c => mesh'[d] = mesh[d]
  BY <1>1 DEF HandleClientSend
<1>11. Pending(c)' => mesh'[c].id = a /\ fds' = fds
  BY <1>1, NewMessage
<1>12. Numbered'
  <2>1. \A d \in Clients : client'[d] = "idle" => request'[d] = "none"
    BY <1>1, <1>2 DEF HandleClientSend, Reads, Numbered
  <2>2. \A d \in Clients : d \in told' \/ Pending(d)' \/ answer'[d] = d => d \in WasRead'
    BY <1>1, <1>2, <1>4, <1>10 DEF Numbered, Pending
  <2>3. \A d \in Clients : d # c /\ Pending(d)' => Pending(d) /\ mesh[d].id < a /\ mesh[d].id \in Nat
    <3>1. \A m \in MeshMessage : m.id \in Nat
      BY LastIdType DEF MeshMessage
    <3>2. QED
      BY <1>1, <1>10, <3>1 DEF Numbered, Pending
  <2>4. \A d \in Clients : Pending(d)' => mesh'[d].id < a'
    BY <1>3, <1>10, <1>11, <2>3
  <2>5. \A d, e \in Clients : Pending(d)' /\ Pending(e)' /\ mesh'[d].id = mesh'[e].id => d = e
    BY <1>1, <1>3, <1>10, <1>11, <2>3 DEF Numbered
  <2>6. QED
    BY <1>3, <2>1, <2>2, <2>4, <2>5 DEF Numbered
<1>13. Own'
  <2> SUFFICES ASSUME NEW d \in Clients, NEW s \in Slot, Pending(d)',
                      clients'[s].app_id = mesh'[d].id
               PROVE  /\ d \in told' \/ answer'[d] = d => clients'[s].fd = -1
                      /\ client'[d] = "waiting" /\ clients'[s].fd # -1
                           => fds'[clients'[s].fd] = d
    BY DEF Own
  <2>1. CASE d = c
    <3>1. s # next_slot => clients'[s].fd = -1
      BY <1>1, <1>9, <1>11, <2>1, NextIdFree
    <3>2. s = next_slot => clients'[s].fd = f
      BY <1>9
    <3>3. QED
      BY <1>2, <1>5, <1>11, <2>1, <3>1, <3>2
  <2>2. CASE d # c
    <3>1. Pending(d) /\ mesh'[d].id = mesh[d].id /\ mesh[d].id < a /\ mesh[d].id \in Nat
      <4>1. \A m \in MeshMessage : m.id \in Nat
        BY LastIdType DEF MeshMessage
      <4>2. QED
        BY <1>1, <1>10, <2>2, <4>1 DEF Numbered, Pending
    <3>2. s # next_slot /\ clients'[s].fd = clients[s].fd /\ clients[s].app_id = mesh[d].id
      BY <1>3, <1>9, <3>1
    <3>3. clients[s].fd \in Fd \cup {-1}
      BY <1>1 DEF ClientEntry
    <3>4. \A g \in Fd : fds[g] = d => fds'[g] = d
      BY <1>1, <1>2, <2>2 DEF HandleClientSend
    <3>5. QED
      BY <1>1, <1>2, <3>1, <3>2, <3>3, <3>4 DEF Own
  <2>3. QED
    BY <2>1, <2>2
<1>14. RightAnswer'
  BY <1>1, <1>2 DEF RightAnswer
<1>15. QED
  BY <1>6, <1>12, <1>13, <1>14

\* A client asks for a reset.
LEMMA ResetStep ==
  ASSUME AnswerInv, SpacedResets, NEW f \in Fd, NEW c \in Clients, HandleReset(f, c)
  PROVE  Table' /\ Numbered' /\ Own' /\ RightAnswer'
<1>1. /\ TypeOK /\ Table /\ Numbered /\ Own /\ RightAnswer
      /\ request \in [Clients -> {"none", "queued", "accepted", "read"}]
      /\ answer \in [Clients -> Clients \cup {Nobody}]
      /\ resets \in 0 .. MaxResets
  BY DEF AnswerInv, TypeOK
<1>2. /\ UNCHANGED <<clients, client_num, fds, told, client, mesh>>
      /\ app_msg_id' = 0 /\ fds[f] = c /\ Reads(f, c) /\ Write(f, c)
      /\ app_msg_id \notin 1 .. ResetGap - 1 /\ resets < MaxResets
      /\ \A d \in Clients : mesh[d].left = 0
  BY DEF HandleReset, Reads
<1>3. Table'
  <2>1. app_msg_id \in Nat
    BY <1>1, LastIdType DEF TypeOK
  <2>2. app_msg_id = 0 \/ app_msg_id >= MAX_CLIENT
    BY <1>1, <1>2, <2>1, MaxClientType, BoundTypes DEF SpacedResets
  <2>3. QED
    BY <1>1, <1>2, <2>2, TableResets
<1>4. \A d \in Clients : ~Pending(d)'
  BY <1>2 DEF Pending
<1>5. \A d \in Clients : answer'[d] = IF d = c /\ client[c] # "left" /\ answer[c] = Nobody
                                      THEN c ELSE answer[d]
  BY <1>1, <1>2 DEF Write
<1>6. Numbered'
  <2>1. WasRead' = WasRead \cup {c} /\ Cardinality(WasRead') \in Nat
    BY <1>1, <1>2, ReadCount
  <2>2. \A d \in Clients : client'[d] = "idle" => request'[d] = "none"
    BY <1>1, <1>2 DEF Reads, Numbered
  <2>3. 0 <= Cardinality(WasRead')
    BY <2>1
  <2>4. QED
    BY <1>1, <1>2, <1>4, <1>5, <2>1, <2>2, <2>3 DEF Numbered
<1>7. Own'
  BY <1>4 DEF Own
<1>8. RightAnswer'
  BY <1>1, <1>2, <1>5 DEF RightAnswer
<1>9. QED
  BY <1>3, <1>6, <1>7, <1>8

\* A notify is lost on the way, or the server closes a connection.
LEMMA LossSteps ==
  ASSUME AnswerInv,
         \/ \E c \in Clients : NotifyLost(c)
         \/ \E f \in Fd : ServerCloses(f)
  PROVE  Table' /\ Numbered' /\ Own' /\ RightAnswer'
<1>1. /\ TypeOK /\ Table /\ Numbered /\ Own /\ RightAnswer
      /\ fds \in [Fd -> Clients \cup {Nobody}]
      /\ mesh \in [Clients -> MeshMessage]
      /\ clients \in [Slot -> ClientEntry]
  BY DEF AnswerInv, TypeOK
<1>2. UNCHANGED <<app_msg_id, clients, client_num, request, client, answer, told>>
  BY DEF NotifyLost, ServerCloses
<1>3. Table'
  BY <1>1, <1>2, TableTaken
<1>4. \A d \in Clients : mesh'[d].id = mesh[d].id /\ (Pending(d)' => Pending(d))
  <2>1. CASE UNCHANGED mesh
    BY <2>1 DEF Pending
  <2>2. ASSUME NEW c \in Clients, NotifyLost(c)
        PROVE  \A d \in Clients : mesh'[d].id = mesh[d].id /\ (Pending(d)' => Pending(d))
    BY <1>1, <2>2, OneLess DEF NotifyLost
  <2>3. QED
    BY <2>1, <2>2 DEF ServerCloses
<1>5. Numbered'
  BY <1>1, <1>2, <1>4 DEF Numbered, WasRead
<1>6. \A d \in Clients, g \in Fd : client[d] = "waiting" /\ fds[g] = d => fds'[g] = d
  BY <1>1 DEF NotifyLost, ServerCloses
<1>7. \A s \in Slot : clients[s].fd \in Fd \cup {-1}
  BY <1>1 DEF ClientEntry
<1>8. Own'
  BY <1>1, <1>2, <1>4, <1>6, <1>7 DEF Own
<1>9. RightAnswer'
  BY <1>1, <1>2 DEF RightAnswer
<1>10. QED
  BY <1>3, <1>5, <1>8, <1>9

\* What a notify leaves of the table: its id leads to nobody any more.
LEMMA Taken ==
  ASSUME TypeOK, Table, NEW id, id < app_msg_id, TakeClient(id)
  PROVE  /\ \A s \in Slot : /\ clients'[s].app_id = clients[s].app_id
                            /\ clients'[s].fd \in {clients[s].fd, -1}
                            /\ clients[s].app_id # id => clients'[s].fd = clients[s].fd
                            /\ clients[s].app_id = id => clients'[s].fd = -1
<1>1. clients \in [Slot -> ClientEntry]
  BY DEF TypeOK
<1>2. CASE Entries(id) = {}
  BY <1>2 DEF TakeClient, Entries
<1>3. CASE Entries(id) # {}
  <2> DEFINE e == FirstEntry(id)
  <2>1. e \in Slot /\ clients[e].app_id = id /\ \A t \in Entries(id) : e <= t
    BY <1>3, FirstEntryFacts DEF Entries
  <2>2. clients' = [clients EXCEPT ![e].fd = -1]
    BY <1>3 DEF TakeClient
  <2> HIDE DEF e
  <2>3. clients[e] \in ClientEntry
    BY <1>1, <2>1
  <2>4. clients'[e].fd = -1 /\ clients'[e].app_id = id
    BY <1>1, <2>1, <2>2, <2>3 DEF ClientEntry
  <2>5. \A s \in Slot : s # e => clients'[s] = clients[s]
    BY <1>1, <2>2
  <2>6. ASSUME NEW s \in Slot, s # e, clients[s].app_id = id
        PROVE  clients[s].fd = -1
    <3>1. e < s
      BY <2>1, <2>6, MaxClientType DEF Entries, Slot
    <3>2. QED
      BY <2>1, <2>6, <3>1, FirstOnly
  <2>7. QED
    BY <2>1, <2>4, <2>5, <2>6
<1>4. QED
  BY <1>2, <1>3

\* What get_client_fd_by_id returns stands in an entry with that id.
LEMMA Found ==
  ASSUME NEW id, get_client_fd_by_id(id) # -1
  PROVE  \E s \in Slot : clients[s].app_id = id /\ clients[s].fd = get_client_fd_by_id(id)
BY FirstEntryFacts DEF get_client_fd_by_id, Entries

\* A node notifies the server about the message of client c.
LEMMA NotifyStep ==
  ASSUME AnswerInv, NEW c \in Clients, Notify(c)
  PROVE  Table' /\ Numbered' /\ Own' /\ RightAnswer'
<1> DEFINE id == mesh[c].id
           fd == get_client_fd_by_id(id)
           x  == fds[fd]
<1>1. /\ TypeOK /\ Table /\ Numbered /\ Own /\ RightAnswer
      /\ fds \in [Fd -> Clients \cup {Nobody}]
      /\ mesh \in [Clients -> MeshMessage]
      /\ answer \in [Clients -> Clients \cup {Nobody}]
      /\ client \in [Clients -> {"idle", "waiting", "left"}]
  BY DEF AnswerInv, TypeOK
<1>2. /\ UNCHANGED <<app_msg_id, client_num, fds, client, request>>
      /\ told' = told \cup {c} /\ Pending(c)
      /\ mesh' = [mesh EXCEPT ![c].left = @ - 1]
  BY DEF Notify, Pending
<1>3. TakeClient(id) /\ id < app_msg_id /\ c \in WasRead
  BY <1>1, <1>2 DEF Notify, Numbered
<1>4. \A s \in Slot : /\ clients'[s].app_id = clients[s].app_id
                      /\ clients'[s].fd \in {clients[s].fd, -1}
                      /\ clients[s].app_id # id => clients'[s].fd = clients[s].fd
                      /\ clients[s].app_id = id => clients'[s].fd = -1
  BY <1>1, <1>3, Taken
<1>5. Table'
  BY <1>1, <1>2, <1>4, TableTaken
<1>6. \A d \in Clients : mesh'[d].id = mesh[d].id /\ (Pending(d)' => Pending(d))
  BY <1>1, <1>2, OneLess DEF Pending
<1>7. \/ UNCHANGED answer
      \/ /\ fd # -1 /\ client[x] # "left"
         /\ answer' = [answer EXCEPT ![x] = IF @ = Nobody THEN c ELSE @]
  BY DEF Notify, Write
<1>8. \A d \in Clients :
        answer'[d] = answer[d] \/ (fd # -1 /\ d = x /\ client[d] # "left" /\ answer'[d] = c)
  BY <1>1, <1>7
<1>9. fd # -1 => answer[c] # c /\ (client[c] = "waiting" => x = c)
  BY <1>1, <1>2, Found DEF Own
<1>10. client[c] # "idle"
  BY <1>1, <1>3 DEF Numbered, WasRead
<1> HIDE DEF fd, x
<1>11. Numbered'
  BY <1>1, <1>2, <1>3, <1>6, <1>8 DEF Numbered, WasRead
<1>12. Own'
  <2> SUFFICES ASSUME NEW d \in Clients, NEW s \in Slot, Pending(d)',
                      clients'[s].app_id = mesh'[d].id
               PROVE  /\ d \in told' \/ answer'[d] = d => clients'[s].fd = -1
                      /\ client'[d] = "waiting" /\ clients'[s].fd # -1
                           => fds'[clients'[s].fd] = d
    BY DEF Own
  <2>1. CASE d = c
    BY <1>4, <1>6, <2>1
  <2>2. CASE d # c
    <3>1. Pending(d) /\ mesh[d].id # id
      BY <1>1, <1>2, <1>6, <2>2 DEF Numbered
    <3>2. clients'[s].fd = clients[s].fd /\ clients[s].app_id = mesh[d].id
      BY <1>4, <1>6, <3>1
    <3>3. (d \in told' <=> d \in told) /\ (answer'[d] = d => answer[d] = d)
      BY <1>2, <1>8, <2>2
    <3>4. QED
      BY <1>1, <1>2, <3>1, <3>2, <3>3 DEF Own
  <2>3. QED
    BY <2>1, <2>2
<1>13. RightAnswer'
  <2> SUFFICES ASSUME NEW d \in Clients, NEW e \in Clients, answer'[d] = e, d # e
               PROVE  client'[e] = "left" /\ answer'[e] # e
    BY DEF RightAnswer
  <2>1. CASE answer'[d] = answer[d]
    BY <1>1, <1>2, <1>8, <2>1 DEF RightAnswer
  <2>2. CASE answer'[d] # answer[d]
    <3>1. fd # -1 /\ d = x /\ e = c
      BY <1>8, <2>2
    <3>2. client[c] = "left" /\ answer[c] # c
      BY <1>1, <1>9, <1>10, <3>1
    <3>3. answer'[c] = answer[c]
      BY <1>8, <3>2
    <3>4. QED
      BY <1>2, <3>1, <3>2, <3>3
  <2>3. QED
    BY <2>1, <2>2
<1>14. QED
  BY <1>5, <1>11, <1>12, <1>13

\* Every step keeps the invariant.
LEMMA AnswerStep ==
  ASSUME SpacedResets, AnswerInv, [Next]_vars
  PROVE  AnswerInv'
<1>1. TypeOK'
  BY TypeStep DEF AnswerInv
<1>2. CASE UNCHANGED vars
  <2>1. UNCHANGED <<app_msg_id, clients, client_num, fds, client, request, mesh, answer, told>>
    BY <1>2 DEF vars
  <2>2. Table'
    BY <2>1, TableTaken DEF AnswerInv
  <2>3. Numbered' /\ Own' /\ RightAnswer'
    BY <2>1 DEF AnswerInv, Numbered, Own, RightAnswer, Pending, WasRead
  <2>4. QED
    BY <1>1, <2>2, <2>3 DEF AnswerInv
<1>3. CASE Next
  <2>1. Table' /\ Numbered' /\ Own' /\ RightAnswer'
    BY <1>3, ClientSteps, AcceptStep, SendStep, ResetStep, LossSteps, NotifyStep
       DEF Next, ClientReads, ClientGivesUp
  <2>2. QED
    BY <1>1, <2>1 DEF AnswerInv
<1>4. QED
  BY <1>2, <1>3

\* The invariant holds at the start.
LEMMA AnswerInit == Init => AnswerInv
<1> SUFFICES ASSUME Init PROVE AnswerInv
  OBVIOUS
<1>1. TypeOK
  BY InitType
<1>2. Table
  <2>1. \A s \in Slot : clients[s].app_id = 0 /\ clients[s].fd = -1 /\ ~(s < 0)
    BY MaxClientType DEF Init, init_clients, Slot
  <2>2. QED
    BY <2>1 DEF Init, FirstRound, Table
<1>3. \A c \in Clients : ~Pending(c) /\ answer[c] = Nobody
  BY DEF Init, Pending, NoMessage
<1>4. Numbered
  <2>1. WasRead \subseteq Clients
    BY DEF WasRead
  <2>2. Cardinality(WasRead) \in Nat
    BY <2>1, ClientsFinite, FS_Subset, FS_CardinalityType
  <2>3. app_msg_id <= Cardinality(WasRead)
    BY <2>2 DEF Init
  <2>4. QED
    BY <1>3, <2>3, ClientsFinite DEF Init, Numbered
<1>5. Own
  BY <1>3 DEF Own
<1>6. RightAnswer
  BY <1>3, ClientsFinite DEF RightAnswer
<1>7. QED
  BY <1>1, <1>2, <1>4, <1>5, <1>6 DEF AnswerInv

(***************************************************************************)
(* Clients get the outcome of their own requests, whatever the number of   *)
(* clients, of entries in the table and of descriptors, and however many   *)
(* clients come at once, if resets are spaced and the 16 bits of the ids   *)
(* do not come round.                                                      *)
(***************************************************************************)
THEOREM AnswersAreRight ==
  ASSUME SpacedResets
  PROVE  Spec => []RightAnswer
<1>1. AnswerInv /\ [Next]_vars => AnswerInv'
  BY AnswerStep
<1>2. AnswerInv => RightAnswer
  BY DEF AnswerInv
<1>3. QED
  BY <1>1, <1>2, AnswerInit, PTL DEF Spec

-----------------------------------------------------------------------------
(***************************************************************************)
(* That no result is lost.  The clients that come before all of them are   *)
(* done are counted, and there are no more than entries in the table.  An  *)
(* entry that is needed is then young enough to outlive the requests the   *)
(* server has yet to read, which are the only ones that can overwrite it.  *)
(***************************************************************************)
Counted == Cardinality(Unread) <= batch

Needed(c) == Pending(c) /\ c \notin told /\ client[c] = "waiting"

Kept ==
  \A c \in Clients : Needed(c) =>
    \E s \in Slot : /\ clients[s].app_id = mesh[c].id
                    /\ clients[s].fd # -1
                    /\ Age(s) + Cardinality(Unread) <= batch

DeliveryInv == AnswerInv /\ Counted /\ Kept /\ ResultDelivered

SmallBatches == Batch <= MAX_CLIENT

\* The unread requests are finitely many.
LEMMA UnreadFinite == IsFiniteSet(Unread) /\ Cardinality(Unread) \in Nat
<1>1. Unread \subseteq Clients
  BY DEF Unread
<1>2. QED
  BY <1>1, ClientsFinite, FS_Subset, FS_CardinalityType

\* A client that comes adds one unread request.
LEMMA UnreadMore ==
  ASSUME TypeOK, Numbered, NEW c \in Clients, Connect(c)
  PROVE  Cardinality(Unread') = Cardinality(Unread) + 1
<1>1. request \in [Clients -> {"none", "queued", "accepted", "read"}]
  BY DEF TypeOK
<1>2. request[c] = "none"
  BY DEF Connect, Numbered
<1>3. Unread' = Unread \cup {c} /\ c \notin Unread
  BY <1>1, <1>2 DEF Connect, Unread
<1>4. QED
  BY <1>3, UnreadFinite, FS_AddElement

\* Reading a request leaves one less.
LEMMA UnreadLess ==
  ASSUME TypeOK, NEW f, NEW c \in Clients, Reads(f, c)
  PROVE  /\ Cardinality(Unread') = Cardinality(Unread) - 1
         /\ Cardinality(Unread) >= 1
<1>1. request \in [Clients -> {"none", "queued", "accepted", "read"}]
  BY DEF TypeOK
<1>2. Unread' = Unread \ {c} /\ c \in Unread
  BY <1>1 DEF Reads, Unread
<1>3. Cardinality(Unread') = Cardinality(Unread) - 1
  BY <1>2, UnreadFinite, FS_RemoveElement
<1>4. IsFiniteSet(Unread') /\ Cardinality(Unread') \in Nat
  BY <1>2, UnreadFinite, FS_Subset, FS_CardinalityType
<1>5. QED
  BY <1>3, <1>4, UnreadFinite

\* Clients come and go.
LEMMA ClientDelivery ==
  ASSUME DeliveryInv, NEW c \in Clients, Connect(c) \/ Leave(c)
  PROVE  Counted' /\ Kept' /\ ResultDelivered'
<1> DEFINE u == Cardinality(Unread)
<1>1. /\ TypeOK /\ Numbered /\ Counted /\ Kept /\ ResultDelivered
      /\ client \in [Clients -> {"idle", "waiting", "left"}]
      /\ batch \in Nat
  BY BoundTypes DEF DeliveryInv, AnswerInv, TypeOK
<1>2. UNCHANGED <<clients, client_num, mesh, answer, told>>
  BY DEF Connect, Leave
<1>3. \A s : Age(s)' = Age(s)
  BY <1>2 DEF Age, next_slot
<1>4. u \in Nat /\ \A s \in Slot : Age(s) \in Nat
  BY <1>1, UnreadFinite, AgeFacts
<1>5. CASE Leave(c)
  <2>1. UNCHANGED <<request, batch>> /\ \A d \in Clients : client'[d] = "waiting" => client[d] = "waiting"
    BY <1>1, <1>5 DEF Leave
  <2>2. Unread' = Unread
    BY <2>1 DEF Unread
  <2>3. Counted'
    BY <1>1, <2>1, <2>2 DEF Counted
  <2>4. Kept'
    BY <1>1, <1>2, <1>3, <2>1, <2>2 DEF Kept, Needed, Pending
  <2>5. ResultDelivered'
    BY <1>1, <1>2, <2>1 DEF ResultDelivered, TypeOK
  <2>6. QED
    BY <2>3, <2>4, <2>5
<1>6. CASE Connect(c)
  <2>1. u' = u + 1
    BY <1>1, <1>6, UnreadMore
  <2>2. c \notin told /\ ~Pending(c)
    BY <1>1, <1>6 DEF Connect, Numbered, WasRead
  <2>3. \A d \in Clients : d # c => client'[d] = client[d]
    BY <1>1, <1>6 DEF Connect
  <2>4. ResultDelivered'
    <3>1. told \subseteq Clients
      BY <1>1 DEF TypeOK
    <3>2. QED
      BY <1>1, <1>2, <2>2, <2>3, <3>1 DEF ResultDelivered
  <2>5. CASE Busy = {}
    <3>1. Unread = {} /\ \A d \in Clients : client[d] # "waiting"
      BY <2>5 DEF Busy, Unread
    <3>2. u = 0 /\ batch' = 1
      BY <1>6, <2>5, <3>1, FS_EmptySet DEF Connect
    <3>3. Counted'
      BY <2>1, <3>2 DEF Counted
    <3>4. Kept'
      BY <1>2, <2>2, <2>3, <3>1 DEF Kept, Needed, Pending
    <3>5. QED
      BY <2>4, <3>3, <3>4
  <2>6. CASE Busy # {}
    <3>1. batch' = batch + 1
      BY <1>6, <2>6 DEF Connect
    <3>2. Counted'
      BY <1>1, <1>4, <2>1, <3>1 DEF Counted
    <3>3. \A s \in Slot : Age(s) + u <= batch => Age(s)' + u' <= batch'
      BY <1>1, <1>3, <1>4, <2>1, <3>1
    <3>4. Kept'
      BY <1>1, <1>2, <2>2, <2>3, <3>3 DEF Kept, Needed, Pending
    <3>5. QED
      BY <2>4, <3>2, <3>4
  <2>7. QED
    BY <2>5, <2>6
<1>7. QED
  BY <1>5, <1>6

\* The server accepts or closes a connection, or a notify is lost.
LEMMA QuietDelivery ==
  ASSUME DeliveryInv,
         \/ \E c \in Clients : Accept(c) \/ NotifyLost(c)
         \/ \E f \in Fd : ServerCloses(f)
  PROVE  Counted' /\ Kept' /\ ResultDelivered'
<1>1. /\ TypeOK /\ Counted /\ Kept /\ ResultDelivered
      /\ request \in [Clients -> {"none", "queued", "accepted", "read"}]
      /\ mesh \in [Clients -> MeshMessage]
  BY DEF DeliveryInv, AnswerInv, TypeOK
<1>2. UNCHANGED <<clients, client_num, answer, told, client, batch>>
  BY DEF Accept, NotifyLost, ServerCloses
<1>3. \A s : Age(s)' = Age(s)
  BY <1>2 DEF Age, next_slot
<1>4. Unread' = Unread
  BY <1>1 DEF Accept, NotifyLost, ServerCloses, Unread
<1>5. \A d \in Clients : mesh'[d].id = mesh[d].id /\ (Pending(d)' => Pending(d))
  <2>1. CASE UNCHANGED mesh
    BY <2>1 DEF Pending
  <2>2. ASSUME NEW c \in Clients, NotifyLost(c)
        PROVE  \A d \in Clients : mesh'[d].id = mesh[d].id /\ (Pending(d)' => Pending(d))
    BY <1>1, <2>2, OneLess DEF NotifyLost
  <2>3. QED
    BY <2>1, <2>2 DEF Accept, ServerCloses
<1>6. Counted'
  BY <1>1, <1>2, <1>4 DEF Counted
<1>7. Kept'
  BY <1>1, <1>2, <1>3, <1>4, <1>5 DEF Kept, Needed
<1>8. ResultDelivered'
  BY <1>1, <1>2 DEF ResultDelivered
<1>9. QED
  BY <1>6, <1>7, <1>8

\* The server hands a message to the mesh: the entry it overwrites is not needed.
LEMMA SendDelivery ==
  ASSUME DeliveryInv, SpacedResets, SmallBatches, NEW f \in Fd, NEW c \in Clients,
         HandleClientSend(f, c)
  PROVE  Counted' /\ Kept' /\ ResultDelivered'
<1> DEFINE a == app_msg_id
           u == Cardinality(Unread)
<1>1. /\ AnswerInv /\ TypeOK /\ Numbered /\ Counted /\ Kept /\ ResultDelivered
      /\ mesh \in [Clients -> MeshMessage]
      /\ clients \in [Slot -> ClientEntry]
      /\ batch \in Nat /\ batch <= Batch
  BY BoundTypes DEF DeliveryInv, AnswerInv, TypeOK
<1>2. UNCHANGED <<answer, told, client, batch>> /\ Reads(f, c)
  BY DEF HandleClientSend
<1>3. u' = u - 1 /\ u >= 1 /\ u \in Nat
  BY <1>1, <1>2, UnreadLess, UnreadFinite
<1>4. next_slot \in Slot /\ client_num' = next_slot + 1
  BY <1>1, SlotType DEF HandleClientSend, set_client
<1>5. \A s \in Slot : clients'[s] = IF s = next_slot THEN [fd |-> f, app_id |-> a]
                                    ELSE clients[s]
  BY <1>1, <1>4 DEF HandleClientSend, set_client
<1>6. \A s \in Slot : Age(s)' = IF s = next_slot THEN 1 ELSE Age(s) + 1
  BY <1>1, <1>4, AgeAfter
<1>7. \A s \in Slot : Age(s) \in Nat
  BY <1>1, AgeFacts
<1>8. Age(next_slot) = MAX_CLIENT
  BY <1>4, MaxClientType DEF Age, Slot
<1>9. Counted'
  BY <1>1, <1>2, <1>3 DEF Counted
<1>10. ResultDelivered'
  BY <1>1, <1>2 DEF ResultDelivered
<1>11. ASSUME NEW d \in Clients, Needed(d)'
       PROVE  \E s \in Slot : /\ clients'[s].app_id = mesh'[d].id
                              /\ clients'[s].fd # -1
                              /\ Age(s)' + u' <= batch'
  <2>1. CASE d = c
    <3>1. mesh'[c].id = a
      BY <1>1, <1>2, <1>11, <2>1, NewMessage DEF Needed, HandleClientSend
    <3>2. PICK s \in Slot : s = next_slot /\ clients'[s].app_id = a /\ clients'[s].fd = f
      BY <1>4, <1>5
    <3>3. f # -1
      BY DEF Fd
    <3>4. Age(s)' + u' <= batch'
      BY <1>1, <1>2, <1>3, <1>6, <3>2 DEF Counted
    <3>5. QED
      BY <2>1, <3>1, <3>2, <3>3, <3>4
  <2>2. CASE d # c
    <3>1. mesh'[d] = mesh[d]
      BY <1>1, <2>2 DEF HandleClientSend
    <3>2. Needed(d)
      BY <1>2, <1>11, <3>1 DEF Needed, Pending
    <3>3. PICK s \in Slot : /\ clients[s].app_id = mesh[d].id
                           /\ clients[s].fd # -1
                           /\ Age(s) + u <= batch
      BY <1>1, <3>2 DEF Kept
    <3>4. s # next_slot
      BY <1>1, <1>3, <1>8, <3>3, MaxClientType, BoundTypes DEF SmallBatches
    <3>5. Age(s)' + u' <= batch'
      BY <1>1, <1>2, <1>3, <1>6, <1>7, <3>3, <3>4
    <3>6. QED
      BY <1>5, <3>1, <3>3, <3>4, <3>5
  <2>3. QED
    BY <2>1, <2>2
<1>12. Kept'
  BY <1>11 DEF Kept
<1>13. QED
  BY <1>9, <1>10, <1>12

\* A client asks for a reset.
LEMMA ResetDelivery ==
  ASSUME DeliveryInv, NEW f \in Fd, NEW c \in Clients, HandleReset(f, c)
  PROVE  Counted' /\ Kept' /\ ResultDelivered'
<1>1. /\ TypeOK /\ Counted /\ ResultDelivered /\ batch \in Nat
      /\ answer \in [Clients -> Clients \cup {Nobody}] /\ told \subseteq Clients
  BY BoundTypes DEF DeliveryInv, AnswerInv, TypeOK
<1>2. /\ UNCHANGED <<told, client, mesh, batch>> /\ Reads(f, c) /\ fds[f] = c /\ Write(f, c)
      /\ \A d \in Clients : mesh[d].left = 0
  BY DEF HandleReset, Reads
<1>3. Counted'
  BY <1>1, <1>2, UnreadLess, UnreadFinite DEF Counted
<1>4. Kept'
  BY <1>2 DEF Kept, Needed, Pending
<1>5. \A d \in Clients : answer[d] # Nobody => answer'[d] # Nobody
  BY <1>1, <1>2 DEF Write
<1>6. ResultDelivered'
  BY <1>1, <1>2, <1>5 DEF ResultDelivered
<1>7. QED
  BY <1>3, <1>4, <1>6

\* A node notifies the server: the entry of a client that waits is there,
\* the search finds it and no other, and its descriptor is still the client's.
LEMMA NotifyDelivery ==
  ASSUME DeliveryInv, NEW c \in Clients, Notify(c)
  PROVE  Counted' /\ Kept' /\ ResultDelivered'
<1> DEFINE id == mesh[c].id
           fd == get_client_fd_by_id(id)
<1>1. /\ TypeOK /\ Table /\ Numbered /\ Own /\ Counted /\ Kept /\ ResultDelivered
      /\ fds \in [Fd -> Clients \cup {Nobody}]
      /\ mesh \in [Clients -> MeshMessage]
      /\ answer \in [Clients -> Clients \cup {Nobody}]
      /\ told \subseteq Clients
  BY DEF DeliveryInv, AnswerInv, TypeOK
<1>2. /\ UNCHANGED <<client_num, client, request, batch>>
      /\ told' = told \cup {c} /\ Pending(c)
      /\ mesh' = [mesh EXCEPT ![c].left = @ - 1]
  BY DEF Notify, Pending
<1>3. TakeClient(id) /\ id < app_msg_id
  BY <1>1, <1>2 DEF Notify, Numbered
<1>4. Unread' = Unread /\ \A s : Age(s)' = Age(s)
  BY <1>2 DEF Unread, Age, next_slot
<1>5. Counted'
  BY <1>1, <1>2, <1>4 DEF Counted
<1>6. \A d \in Clients : mesh'[d].id = mesh[d].id /\ (Pending(d)' => Pending(d))
  BY <1>1, <1>2, OneLess DEF Pending
<1>7. Kept'
  <2>1. \A d \in Clients : Needed(d)' => Needed(d) /\ d # c /\ mesh[d].id # id
    BY <1>1, <1>2, <1>6 DEF Needed, Numbered
  <2>2. \A s \in Slot : /\ clients'[s].app_id = clients[s].app_id
                        /\ clients[s].app_id # id => clients'[s].fd = clients[s].fd
    BY <1>1, <1>3, Taken
  <2>3. QED
    BY <1>1, <1>2, <1>4, <1>6, <2>1, <2>2 DEF Kept
<1>8. \A d \in Clients : answer[d] # Nobody => answer'[d] # Nobody
  BY <1>1 DEF Notify, Write
<1>9. Needed(c) => answer'[c] # Nobody
  <2> SUFFICES ASSUME Needed(c) PROVE answer'[c] # Nobody
    OBVIOUS
  <2>1. PICK s \in Slot : clients[s].app_id = id /\ clients[s].fd # -1
    BY <1>1 DEF Kept
  <2>2. s \in Entries(id)
    BY <2>1 DEF Entries
  <2>3. /\ FirstEntry(id) \in Slot /\ clients[FirstEntry(id)].app_id = id
        /\ FirstEntry(id) <= s
    BY <2>2, FirstEntryFacts DEF Entries
  <2>4. FirstEntry(id) = s
    <3>1. FirstEntry(id) < s => clients[s].fd = -1
      BY <1>1, <1>3, <2>1, <2>3, FirstOnly
    <3>2. QED
      BY <2>1, <2>3, <3>1, MaxClientType DEF Slot
  <2>5. fd = clients[s].fd /\ fds[fd] = c
    BY <1>1, <1>2, <2>1, <2>2, <2>4 DEF get_client_fd_by_id, Own, Needed
  <2> HIDE DEF fd
  <2>6. client[c] # "left" /\ c # Nobody /\ fd # -1
    BY <2>1, <2>5, ClientsFinite DEF Needed
  <2>7. Write(fd, c)
    BY <2>5, <2>6 DEF Notify, fd
  <2>8. QED
    BY <1>1, <2>5, <2>6, <2>7 DEF Write
<1>10. ResultDelivered'
  <2>1. ASSUME NEW d \in told', client'[d] = "waiting" PROVE answer'[d] # Nobody
    <3>1. d \in told => answer[d] # Nobody
      BY <1>1, <1>2, <2>1 DEF ResultDelivered
    <3>2. QED
      BY <1>1, <1>2, <1>8, <1>9, <2>1, <3>1 DEF Needed
  <2>2. QED
    BY <2>1 DEF ResultDelivered
<1>11. QED
  BY <1>5, <1>7, <1>10

(***************************************************************************)
(* When a node has notified the server about a message, the client has its *)
(* answer, unless it gave up before: for any table, if no more clients     *)
(* come at once than the table has entries.  The run server_parallel shows *)
(* that with more the result can be lost.                                  *)
(***************************************************************************)
THEOREM ResultsAreDelivered ==
  ASSUME SpacedResets, SmallBatches
  PROVE  Spec => []ResultDelivered
<1>1. Init => DeliveryInv
  <2>1. Init => Unread = {} /\ batch = 0 /\ told = {} /\ \A c \in Clients : ~Pending(c)
    BY DEF Init, Unread, Pending, NoMessage
  <2>2. QED
    BY <2>1, AnswerInit, FS_EmptySet
       DEF DeliveryInv, Counted, Kept, Needed, ResultDelivered
<1>2. DeliveryInv /\ [Next]_vars => DeliveryInv'
  <2> SUFFICES ASSUME DeliveryInv, [Next]_vars PROVE DeliveryInv'
    OBVIOUS
  <2>1. AnswerInv'
    BY AnswerStep DEF DeliveryInv
  <2>2. CASE Next
    <3>1. Counted' /\ Kept' /\ ResultDelivered'
      BY <2>2, ClientDelivery, QuietDelivery, SendDelivery, ResetDelivery, NotifyDelivery
         DEF Next, ClientReads, ClientGivesUp
    <3>2. QED
      BY <2>1, <3>1 DEF DeliveryInv
  <2>3. CASE UNCHANGED vars
    <3>1. UNCHANGED <<clients, client_num, client, request, mesh, answer, told, batch>>
      BY <2>3 DEF vars
    <3>2. Counted' /\ Kept' /\ ResultDelivered'
      BY <3>1 DEF DeliveryInv, Counted, Kept, ResultDelivered, Unread, Age, next_slot,
                  Needed, Pending
    <3>3. QED
      BY <2>1, <3>2 DEF DeliveryInv
  <2>4. QED
    BY <2>2, <2>3
<1>3. DeliveryInv => ResultDelivered
  BY DEF DeliveryInv
<1>4. QED
  BY <1>1, <1>2, <1>3, PTL DEF Spec
=============================================================================
