------------------------------ MODULE MCServing -----------------------------
(***************************************************************************)
(* Command lines as readme.md gives them, in both spellings of an option,  *)
(* with a text that fits exactly, and an address that does not fit a byte. *)
(***************************************************************************)
EXTENDS Serving, TLC

MCNumber == ("1" :> 1) @@ ("2" :> 2) @@ ("7" :> 7) @@ ("263" :> 263)

MCText == ("hi" :> <<104, 105>>) @@ ("hey" :> <<104, 101, 121>>) @@
          ("hello" :> <<104, 101, 108, 108, 111>>)

\* A send that names no apps is one of an empty text from app 0 to app 0.
MCIntent ==
  (<<"client", "ping", "7">> :> <<"PING", 7>>) @@
  (<<"client", "kill", "263">> :> <<"KILL_NODE", 7>>) @@
  (<<"client", "revive", "7">> :> <<"REVIVE_NODE", 7>>) @@
  (<<"client", "reset">> :> <<"RESET", NoPayload>>) @@
  (<<"client", "send", "-s", "1", "-r", "2">> :>
     <<"SEND", 1, <<2, 0, 0>>, "DELIVERY", << >> >>) @@
  (<<"client", "send", "--sender", "1", "--receiver", "7", "-a", "hi",
     "-as", "1", "-ar", "2">> :>
     <<"SEND", 1, <<7, 1, 2>>, "DELIVERY", <<104, 105>> >>) @@
  (<<"client", "broadcast", "-s", "2", "-a", "hey">> :>
     <<"BROADCAST", 2, <<BROADCAST_RADIUS>>, "BROADCAST", <<104, 101, 121>> >>) @@
  (<<"client", "unicast", "-s", "2">> :>
     <<"UNICAST", 2, <<BROADCAST_RADIUS>>, "UNICAST", << >> >>)

MCCommandLines == DOMAIN MCIntent

Notify(type, id) ==
  [req |-> "NOTIFY", sender |-> "NODE",
   payload |-> [type |-> type, app_msg_id |-> id]]

ServedApp ==
  [req_type |-> "DELIVERY", addr_from |-> 0, addr_to |-> 1, id |-> 515,
   message |-> <<120, 156>>, crc |-> 4660]

Packet(req, sender) ==
  [req |-> req, sender |-> sender,
   payload |-> [sender_addr |-> 1, receiver_addr |-> 7, local_sender_addr |-> 2,
                time_to_live |-> -1, app_payload |-> ServedApp, crc |-> 22136]]

Contest(req) ==
  [req |-> req, sender |-> "NODE",
   payload |-> [req |-> req, node_addr |-> 7, app_payload |-> ServedApp]]

Plain(req) == [req |-> req, sender |-> "SERVER", payload |-> NoPayload]

MCScripts ==
  [node |->
     [server |-> {<<Notify("GOT_MESSAGE", 258), Notify("FAIL", 3)>>,
                  <<[req |-> "UPDATE", sender |-> "NODE",
                     payload |-> [port |-> 1007, addr |-> 7, pid |-> 70000]]>>},
      node |-> {<<Contest("UNICAST_CONTEST"), Packet("ROUTE_DIRECT", "NODE")>>}],
   server |->
     [node |-> {<<Packet("SEND", "SERVER"), Plain("PING"), Plain("RESET")>>}]]

\* The readme's command lines are parsed to what it says of them, and all
\* that is said is fit to be sent.
ASSUME ReadmeAssumption == WellMeant

(***************************************************************************)
(* A text that is too long is said to be clipped to APP_MESSAGE_LEN bytes  *)
(* (readme.md:66, client.c:176).  Whatever is on the stack behind it, what *)
(* the client makes of it is something else.                               *)
(***************************************************************************)
TooLong ==
  <<"client", "send", "-s", "1", "-r", "2", "-a", "hello", "-as", "1", "-ar", "2">>

ASSUME ClippedAssumption ==
  /\ parse_args(TooLong) # {}
  /\ \A m \in parse_args(TooLong) :
       Meaning(m) # <<"SEND", 1, <<2, 1, 2>>, "DELIVERY",
                      SubSeq(MCText["hello"], 1, APP_MESSAGE_LEN)>>
=============================================================================
