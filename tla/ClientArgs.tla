----------------------------- MODULE ClientArgs -----------------------------
(***************************************************************************)
(* How the client program turns its command line into a request            *)
(* (client/src/client.c).  A command line is a sequence of words, the      *)
(* first of which is the program.  Where the program reads memory it never *)
(* wrote there are several outcomes, so parsing gives a set of requests;   *)
(* the empty set is "Failed to parse client args".  The checksums a client *)
(* computes are left open: the server computes its own.                    *)
(***************************************************************************)
EXTENDS WireFormat, FiniteSets

CONSTANTS
  Number,            \* what strtol makes of the words that are numbers
  Text,              \* the bytes of the words that are texts
  Stray,             \* how far behind a text the next zero byte may be
  APP_MESSAGE_LEN,   \* bytes of a text, one of which ends it
  BROADCAST_RADIUS

UINT8_MAX == 255

ASSUME ClientArgsAssumption ==
  /\ \A w \in DOMAIN Number : Number[w] \in Int
  /\ \A w \in DOMAIN Text : Text[w] \in Seq(1 .. UINT8_MAX)
  /\ Stray \subseteq Nat
  /\ APP_MESSAGE_LEN \in 1 .. UINT8_MAX
  /\ BROADCAST_RADIUS \in 0 .. 127

\* The places of an option in the command line, and the word after each.
Places(argv, names) == {i \in 1 .. Len(argv) - 1 : argv[i] \in names}

Values(argv, names) == {argv[i + 1] : i \in Places(argv, names)}

\* Every value is parsed, and the last one counts.
LastValue(argv, names) ==
  argv[1 + (CHOOSE i \in Places(argv, names) :
              \A j \in Places(argv, names) : j <= i)]

AreNumbers(words) == words \subseteq DOMAIN Number

AddrOption(argv, names, default) ==
  IF Places(argv, names) = {} THEN default
  ELSE Number[LastValue(argv, names)] % (UINT8_MAX + 1)

(***************************************************************************)
(* The text of an application message.  One that does not fit is copied    *)
(* without a zero at its end, and its length, an uint8_t, is then found by *)
(* looking for one on the stack; so is that of a text that was never set.  *)
(* As many bytes are copied to the packet, however few it has room for.    *)
(***************************************************************************)
Unterminated(t) ==
  {[j \in 1 .. (Len(t) + k) % (UINT8_MAX + 1) |-> At(t, j)] : k \in Stray}

Messages(argv) ==
  IF Places(argv, {"-a", "--app"}) = {} THEN Unterminated(<< >>)
  ELSE LET t == Text[LastValue(argv, {"-a", "--app"})]
       IN  IF Len(t) > APP_MESSAGE_LEN - 1
           THEN Unterminated(SubSeq(t, 1, APP_MESSAGE_LEN - 1)) ELSE {t}

ClientPacket(cmd, from, to, ttl, app) ==
  [req |-> cmd, sender |-> "CLIENT",
   payload |-> [sender_addr |-> from, receiver_addr |-> to,
                local_sender_addr |-> Garbage, time_to_live |-> ttl,
                app_payload |-> app, crc |-> Garbage]]

App(kind, from, to, text) ==
  [req_type |-> kind, addr_from |-> from, addr_to |-> to, id |-> Garbage,
   message |-> text, crc |-> Garbage]

parse_send_cmd(argv) ==
  LET S == {"-s", "--sender"}
      R == {"-r", "--receiver"}
      from == AddrOption(argv, S, UINT8_MAX)
      to   == AddrOption(argv, R, UINT8_MAX)
      AS == {"-as", "--app-sender"}
      AR == {"-ar", "--app-receiver"}
      apps == IF Len(argv) > 6
              THEN {App("DELIVERY", AddrOption(argv, AS, Garbage),
                        AddrOption(argv, AR, Garbage), t) : t \in Messages(argv)}
              ELSE {App("DELIVERY", 0, 0, << >>)}
  IN  IF \/ ~AreNumbers(Values(argv, S \cup R))
         \/ from = UINT8_MAX \/ to = UINT8_MAX
         \/ Len(argv) > 6 /\ ~AreNumbers(Values(argv, AS \cup AR))
      THEN {}
      ELSE {ClientPacket("SEND", from, to, Garbage, a) : a \in apps}

parse_broadcast_cmd(argv, cmd) ==
  LET S == {"-s", "--sender"}
      from == AddrOption(argv, S, UINT8_MAX)
      apps == IF Len(argv) >= 6
              THEN {App(cmd, Garbage, Garbage, t) : t \in Messages(argv)}
              ELSE {App(cmd, 0, 0, << >>)}
  IN  IF ~AreNumbers(Values(argv, S)) \/ from = UINT8_MAX THEN {}
      ELSE {ClientPacket(cmd, from, Garbage, BROADCAST_RADIUS, a) : a \in apps}

create_addr_payload(word, cmd) ==
  IF word \notin DOMAIN Number THEN {}
  ELSE {[req |-> cmd, sender |-> "CLIENT",
         payload |-> Number[word] % (UINT8_MAX + 1)]}

\* The commands that need so many words.
Commands(argc) ==
  {"ping", "kill", "revive"} \cup (IF argc >= 6 THEN {"send"} ELSE {}) \cup
  (IF argc >= 4 THEN {"broadcast", "unicast"} ELSE {})

\* The first word that is a command decides.  A single word that is not
\* "reset" leaves the kind of the request unset.
parse_args(argv) ==
  LET argc == Len(argv)
      P == {i \in 1 .. argc : argv[i] \in Commands(argc)}
      i == CHOOSE j \in P : \A k \in P : j <= k
      Plain(r) == [req |-> r, sender |-> "CLIENT", payload |-> NoPayload]
  IN  IF argc = 2
      THEN IF argv[2] = "reset" THEN {Plain("RESET")}
           ELSE {Plain(r) : r \in AddrRequest}
      ELSE IF argc < 2 \/ P = {} THEN {}
      ELSE CASE argv[i] = "send" -> parse_send_cmd(argv)
             [] argv[i] = "broadcast" -> parse_broadcast_cmd(argv, "BROADCAST")
             [] argv[i] = "unicast" -> parse_broadcast_cmd(argv, "UNICAST")
             [] argv[i] = "ping" -> create_addr_payload(argv[i + 1], "PING")
             [] argv[i] = "kill" -> create_addr_payload(argv[i + 1], "KILL_NODE")
             [] argv[i] = "revive" ->
                  create_addr_payload(argv[i + 1], "REVIVE_NODE")
=============================================================================
