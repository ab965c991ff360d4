----------------------------- MODULE WireFormat -----------------------------
(***************************************************************************)
(* How requests are laid out on a connection (common/src/format.c,         *)
(* common/src/format_app.c).  A request is a record of its kind, the kind  *)
(* of process that sends it and its payload; on the wire it is a sequence  *)
(* of bytes, the first of which is the number of all of them.  Enums are   *)
(* packed into one byte, integers are little-endian.                       *)
(***************************************************************************)
EXTENDS Integers, Sequences

\* A byte the program never wrote: whatever happened to be in memory.
Garbage == -1000

request ==
  [SEND |-> 0, UPDATE |-> 1, PING |-> 2, NOTIFY |-> 3, ROUTE_DIRECT |-> 4,
   ROUTE_INVERSE |-> 5, KILL_NODE |-> 6, REVIVE_NODE |-> 7, RESET |-> 8,
   BROADCAST |-> 9, UNICAST |-> 10, UNICAST_CONTEST |-> 11,
   UNICAST_FIRST |-> 12, UNDEFINED |-> 13]

request_sender == [CLIENT |-> 0, NODE |-> 1, SERVER |-> 2, UNDEFINED |-> 3]

app_request == [DELIVERY |-> 0, BROADCAST |-> 1, UNICAST |-> 2]

notify_type == [GOT_MESSAGE |-> 0, FAIL |-> 1]

\* The name of a value of an enum; a value without a name is as good as none.
NameOf(enum, v) ==
  IF \E x \in DOMAIN enum : enum[x] = v
  THEN CHOOSE x \in DOMAIN enum : enum[x] = v ELSE "UNDEFINED"

AddrRequest == {"PING", "KILL_NODE", "REVIVE_NODE", "RESET"}

PacketRequest ==
  {"SEND", "BROADCAST", "UNICAST", "ROUTE_DIRECT", "ROUTE_INVERSE"}

ContestRequest == {"UNICAST_CONTEST", "UNICAST_FIRST"}

\* A request that carries no payload.
NoPayload == -1

MSG_BASE_LEN == 3

(***************************************************************************)
(* Integers as bytes, and back.  w bytes of memory that was never written  *)
(* are w bytes of garbage.                                                 *)
(***************************************************************************)
Bytes(x, w) ==
  [k \in 1 .. w |-> IF x = Garbage THEN Garbage
                    ELSE (x \div 256 ^ (k - 1)) % 256]

\* Byte k of a buffer of which only the first bytes were filled.
At(buf, k) == IF k \in 1 .. Len(buf) THEN buf[k] ELSE Garbage

U8(buf, k) == At(buf, k)

U16(buf, k) ==
  IF At(buf, k) = Garbage \/ At(buf, k + 1) = Garbage THEN Garbage
  ELSE At(buf, k) + 256 * At(buf, k + 1)

I8(buf, k) == IF At(buf, k) > 127 THEN At(buf, k) - 256 ELSE At(buf, k)

I32(buf, k) ==
  IF U16(buf, k) = Garbage \/ U16(buf, k + 2) = Garbage THEN Garbage
  ELSE U16(buf, k) + 65536 * U16(buf, k + 2)

-----------------------------------------------------------------------------
(***************************************************************************)
(* The application part of a packet: the text takes as many bytes as it    *)
(* has, although the structure in memory has APP_MESSAGE_LEN.              *)
(***************************************************************************)
format_app_message_len(a) == 8 + Len(a.message)

format_app_create_message(a) ==
  Bytes(app_request[a.req_type], 1) \o Bytes(a.addr_from, 1) \o
  Bytes(a.addr_to, 1) \o Bytes(a.id, 2) \o Bytes(Len(a.message), 1) \o
  a.message \o Bytes(a.crc, 2)

\* The application part that begins at byte k.
format_app_parse_message(buf, k) ==
  LET len == IF U8(buf, k + 5) = Garbage THEN 0 ELSE U8(buf, k + 5)
  IN  [req_type |-> NameOf(app_request, U8(buf, k)),
       addr_from |-> U8(buf, k + 1), addr_to |-> U8(buf, k + 2),
       id |-> U16(buf, k + 3),
       message |-> [j \in 1 .. len |-> At(buf, k + 5 + j)],
       crc |-> U16(buf, k + 6 + len)]

-----------------------------------------------------------------------------
\* sizeof(unicast_contest_t): a contest is sent with all of its structure.
ContestSize(app_message_len) == 2 + 8 + app_message_len

(***************************************************************************)
(* What is sent: the structures of format.h and format_app.h, with texts   *)
(* of at most n bytes.  A field that nobody sets holds garbage.            *)
(***************************************************************************)
Unsigned(max) == {x \in Nat : x <= max}

uint8_t == Unsigned(255) \cup {Garbage}
uint16_t == Unsigned(65535) \cup {Garbage}
int8_t == {x \in Int : -128 <= x /\ x <= 127} \cup {Garbage}

app_payload(n) ==
  [req_type : DOMAIN app_request, addr_from : uint8_t, addr_to : uint8_t,
   id : uint16_t, message : {t \in Seq(uint8_t) : Len(t) <= n}, crc : uint16_t]

node_packet_t(n) ==
  [sender_addr : uint8_t, receiver_addr : uint8_t, local_sender_addr : uint8_t,
   time_to_live : int8_t, app_payload : app_payload(n), crc : uint16_t]

INT32_MAX == 2147483647

node_update_t ==
  [port : Unsigned(65535), addr : Unsigned(255), pid : Unsigned(INT32_MAX)]

notify_t == [type : DOMAIN notify_type, app_msg_id : Unsigned(65535)]

unicast_contest_t(n) ==
  [req : ContestRequest, node_addr : Unsigned(255), app_payload : app_payload(n)]

\* A client gives an address, the server pings and resets without one.
Sendable(n) ==
  [req : AddrRequest \ {"RESET"}, sender : {"CLIENT"}, payload : Unsigned(255)] \cup
  [req : {"RESET"}, sender : {"CLIENT"}, payload : {NoPayload}] \cup
  [req : {"PING", "RESET"}, sender : {"SERVER"}, payload : {NoPayload}] \cup
  [req : {"UPDATE"}, sender : {"NODE"}, payload : node_update_t] \cup
  [req : {"NOTIFY"}, sender : {"NODE"}, payload : notify_t] \cup
  [req : PacketRequest, sender : {"CLIENT", "NODE", "SERVER"},
   payload : node_packet_t(n)] \cup
  [req : ContestRequest, sender : {"NODE"}, payload : unicast_contest_t(n)]

PayloadBytes(m, app_message_len) ==
  LET p == m.payload
  IN  CASE m.req \in AddrRequest ->
             IF p = NoPayload THEN << >> ELSE Bytes(p, 1)
        [] m.req = "UPDATE" ->
             Bytes(p.port, 2) \o Bytes(p.addr, 1) \o Bytes(p.pid, 4)
        [] m.req = "NOTIFY" ->
             Bytes(notify_type[p.type], 1) \o Bytes(p.app_msg_id, 2)
        [] m.req \in PacketRequest ->
             Bytes(p.sender_addr, 1) \o Bytes(p.receiver_addr, 1) \o
             Bytes(p.local_sender_addr, 1) \o Bytes(p.time_to_live, 1) \o
             format_app_create_message(p.app_payload) \o Bytes(p.crc, 2)
        [] m.req \in ContestRequest ->
             LET used == Bytes(request[p.req], 1) \o Bytes(p.node_addr, 1) \o
                         format_app_create_message(p.app_payload)
             IN  [k \in 1 .. ContestSize(app_message_len) |-> At(used, k)]

create_base(len, m) == <<len, request[m.req], request_sender[m.sender]>>

format_create(m, app_message_len) ==
  LET payload == PayloadBytes(m, app_message_len)
  IN  create_base((Len(payload) + MSG_BASE_LEN) % 256, m) \o payload

-----------------------------------------------------------------------------
(***************************************************************************)
(* Reading.  The buffer no longer has the length in front, so the payload  *)
(* begins at its third byte.                                               *)
(***************************************************************************)
format_define_sender(buf) == NameOf(request_sender, U8(buf, 2))

parse_route_payload(buf) ==
  LET app == format_app_parse_message(buf, 7)
  IN  [sender_addr |-> U8(buf, 3), receiver_addr |-> U8(buf, 4),
       local_sender_addr |-> U8(buf, 5), time_to_live |-> I8(buf, 6),
       app_payload |-> app, crc |-> U16(buf, 7 + format_app_message_len(app))]

parse_node_update_payload(buf) ==
  [port |-> U16(buf, 3), addr |-> U8(buf, 5), pid |-> I32(buf, 6)]

parse_notify_payload(buf) ==
  [type |-> NameOf(notify_type, U8(buf, 3)), app_msg_id |-> U16(buf, 4)]

parse_unicast_contest_payload(buf) ==
  [req |-> NameOf(request, U8(buf, 3)), node_addr |-> U8(buf, 4),
   app_payload |-> format_app_parse_message(buf, 5)]

\* A RESET is not looked at further, and a PING without payload gives garbage.
format_parse(buf) ==
  LET req == NameOf(request, U8(buf, 1))
  IN  [req |-> req, sender |-> format_define_sender(buf),
       payload |->
         CASE req \in AddrRequest \ {"RESET"} -> U8(buf, 3)
           [] req \in PacketRequest -> parse_route_payload(buf)
           [] req = "UPDATE" -> parse_node_update_payload(buf)
           [] req = "NOTIFY" -> parse_notify_payload(buf)
           [] req \in ContestRequest -> parse_unicast_contest_payload(buf)
           [] OTHER -> NoPayload]

\* A faulty variant: what came is taken for complete.
format_is_message_correct_any(buf_len, msg_len) == buf_len > 0

format_is_message_correct(buf_len, msg_len) == buf_len > 1 /\ buf_len = msg_len
=============================================================================
