----------------------------- MODULE MessageData ----------------------------
(***************************************************************************)
(* The table messages[MAX_MESSAGE_DATA] in which a node remembers which    *)
(* messages it has seen (node/src/node_handler.c).  Entries below          *)
(* message_num are in use; when the table is full the next id goes to      *)
(* entry 0 again and every older entry is out of use at once.              *)
(***************************************************************************)
EXTENDS Integers

CONSTANT MAX_MESSAGE_DATA

UINT16_MAX == 65535

ASSUME MessageDataAssumption == MAX_MESSAGE_DATA \in 1 .. 255

MessageId == 0 .. UINT16_MAX

Entry == 0 .. MAX_MESSAGE_DATA - 1

Flags == {"stop_inverse", "was_message", "unicast_first"}

\* An entry: the id, and which of its three flags are set.
message_data == [id : MessageId, flags : SUBSET Flags]

MessageTable ==
  [message_num : 0 .. MAX_MESSAGE_DATA, messages : [Entry -> message_data]]

Entered(id) == [id |-> id, flags |-> {}]

\* The static table of a process that has just started.
NewTable ==
  [message_num |-> 0, messages |-> [i \in Entry |-> Entered(0)]]

\* Reset clears the entries and leaves message_num as it is.
fill_messages_default(t) ==
  [message_num |-> t.message_num, messages |-> NewTable.messages]

Matches(t, id) == {i \in Entry : i < t.message_num /\ t.messages[i].id = id}

\* A faulty variant: no id is ever found.
is_id_set_never(t, id) == FALSE

is_id_set(t, id) == Matches(t, id) # {}

\* The entry the search loops of the getters stop at.
FirstMatch(t, id) ==
  CHOOSE i \in Matches(t, id) : \A k \in Matches(t, id) : i <= k

Put(t, i, e) ==
  [message_num |-> i + 1, messages |-> [t.messages EXCEPT ![i] = e]]

\* A faulty variant: the table is full one entry too late.
set_new_id_late(t, id) ==
  IF t.message_num > MAX_MESSAGE_DATA
  THEN Put(t, 0, Entered(id))
  ELSE Put(t, t.message_num, Entered(id))

(***************************************************************************)
(* A new id takes the next entry.  Only the entry that starts a new round  *)
(* has its flags cleared; any other keeps those of its previous id.        *)
(***************************************************************************)
set_new_id(t, id) ==
  IF t.message_num = MAX_MESSAGE_DATA
  THEN Put(t, 0, Entered(id))
  ELSE Put(t, t.message_num,
           [id |-> id, flags |-> t.messages[t.message_num].flags])

\* A faulty variant: an unknown id is not entered.
LookedOnly(t, id) == t

(***************************************************************************)
(* The getters answer whether the id was known and, if so, its flag; an    *)
(* unknown id is entered on the way.                                       *)
(***************************************************************************)
Looked(t, id) == IF is_id_set(t, id) THEN t ELSE set_new_id(t, id)

Flagged(t, id, flag) ==
  is_id_set(t, id) /\ flag \in t.messages[FirstMatch(t, id)].flags

get_inverse_by_id(t, id) == Flagged(t, id, "stop_inverse")
get_was_message_by_id(t, id) == Flagged(t, id, "was_message")

(***************************************************************************)
(* The setters, which the handlers only call to set a flag and only after  *)
(* the getter of the same flag.  Their branches for an id that is not in   *)
(* the table are left out: the getter has put it there (KnownAfterLook in  *)
(* MeshProofs).                                                            *)
(***************************************************************************)
SetFlag(t, id, flag) ==
  [message_num |-> t.message_num,
   messages    |-> [i \in Entry |->
      IF i \in Matches(t, id)
      THEN [id |-> id, flags |-> t.messages[i].flags \cup {flag}]
      ELSE t.messages[i]]]

set_inverse_by_id(t, id) == SetFlag(Looked(t, id), id, "stop_inverse")
set_was_message_by_id(t, id) == SetFlag(Looked(t, id), id, "was_message")
set_unicast_status_by_id(t, id) == SetFlag(Looked(t, id), id, "unicast_first")
=============================================================================
