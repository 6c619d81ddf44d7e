---------------------------- MODULE Conversation ----------------------------
(***************************************************************************)
(* What the honeypot's services say and record: one conversation as a      *)
(* function of what the client does.  A script is a sequence of client     *)
(* acts; an act is a command, a chunk of bytes, or an end: "close" (the    *)
(* peer shut its side), "stall" (the read times out), "reset" (any other   *)
(* error of the socket).  A script that runs out ends in "close".  Replies *)
(* are names; what counts is which are sent, when a service hangs up, what *)
(* it records, and whether its event is emitted at all.                    *)
(***************************************************************************)
EXTENDS Integers, Sequences, SequencesExt, FiniteSets

CONSTANT Rounds   \* MAX_COMMAND_ROUNDS

ASSUME ConversationAssumption == Rounds \in Nat \ {0}

Ends == {"close", "stall", "reset"}

\* What a conversation has come to: replies sent, bytes recorded, the rounds
\* left, the mode of the service, and how it goes on.
Opening(banner, rounds) ==
  [sent |-> IF banner THEN <<"banner">> ELSE <<>>, noted |-> <<>>, left |-> rounds,
   mode |-> "command", st |-> "talk"]

Note(c, act) == [c EXCEPT !.noted = Append(@, act), !.left = @ - 1]
Says(c, reply) == [c EXCEPT !.sent = Append(@, reply)]
HangUp(c) == [c EXCEPT !.st = "over"]
Raised(c) == [c EXCEPT !.st = "raised"]

\* A line or chunk loop: out of rounds, at the end of the input or at a
\* timeout the handler goes on to its event; any other error leaves it.
Loop(c, act, Handle(_, _)) ==
  IF c.st # "talk" THEN c
  ELSE IF c.left = 0 \/ act \in {"close", "stall"} THEN HangUp(c)
  ELSE IF act = "reset" THEN Raised(c)
  ELSE Handle(Note(c, act), act)

-----------------------------------------------------------------------------
(* The services that answer line by line or chunk by chunk. *)

Answers(c, act, table, quits, other) ==
  LET said == IF act \in DOMAIN table THEN Says(c, table[act]) ELSE Says(c, other)
  IN  IF act \in quits THEN HangUp(said) ELSE said

Ftp(c, act) ==
  Answers(c, act, [USER |-> "331", PASS |-> "230", SYST |-> "215", PWD |-> "257", QUIT |-> "221"],
          {"QUIT"}, "502")

Pop3(c, act) ==
  Answers(c, act, [USER |-> "+OK", PASS |-> "+OK", STAT |-> "+OK", LIST |-> "+OK", QUIT |-> "+OK"],
          {"QUIT"}, "-ERR")

\* A tagged completion follows the untagged answer of CAPABILITY and LOGOUT.
Imap(c, act) ==
  LET first == IF act \in {"CAPABILITY", "LOGOUT"} THEN Says(c, "*") ELSE c
  IN  Answers(first, act, [CAPABILITY |-> "OK", LOGIN |-> "OK", LOGOUT |-> "OK"], {"LOGOUT"}, "BAD")

MutSmtp(c, act) ==
  IF act = "DATA" THEN [Says(c, "354") EXCEPT !.mode = "data"]
  ELSE IF act = "." THEN [Says(c, "250") EXCEPT !.mode = "command"]
  ELSE Answers(c, act, [HELO |-> "250", MAIL |-> "250", STARTTLS |-> "454", QUIT |-> "221"],
               {"QUIT"}, "500")

\* Inside DATA every line is the message's, QUIT too, until the lone dot.
Smtp(c, act) ==
  IF c.mode = "data"
  THEN IF act = "." THEN [Says(c, "250") EXCEPT !.mode = "command"] ELSE c
  ELSE IF act = "DATA" THEN [Says(c, "354") EXCEPT !.mode = "data"]
  ELSE Answers(c, act, [HELO |-> "250", MAIL |-> "250", STARTTLS |-> "454", QUIT |-> "221"],
               {"QUIT"}, "500")

Memcached(c, act) ==
  IF act = "QUIT" THEN HangUp(c)
  ELSE Answers(c, act, [VERSION |-> "VERSION", STATS |-> "STAT", GET |-> "END", SET |-> "STORED"],
               {}, "ERROR")

Redis(c, act) ==
  Answers(c, act, [PING |-> "+PONG", INFO |-> "$", SET |-> "+OK", GET |-> "$-1", QUIT |-> "+OK"],
          {"QUIT"}, "-ERR")

Mqtt(c, act) ==
  IF act = "QUIT" THEN HangUp(c)
  ELSE Answers(c, act, [CONNECT |-> "CONNACK", SUBSCRIBE |-> "SUBACK", PING |-> "PINGRESP"],
               {}, "PINGRESP")

Generic(c, act) == c

\* Two lines at most, the second after a prompt.
Telnet(c, act) == IF c.left = 0 THEN HangUp(c) ELSE Says(c, "Password")

-----------------------------------------------------------------------------
(* The services that read once. *)

\* ssh, mysql, vnc, amqp, ldap, mongodb, smb, rdp: one read, then an answer
\* or none; a timeout counts as no data.
Once(c, act, reply) ==
  IF c.st # "talk" THEN c
  ELSE CASE act \in {"close", "stall"} -> HangUp(c)
         [] act = "reset" -> Raised(c)
         [] OTHER -> HangUp(IF reply = "none" THEN Note(c, act) ELSE Says(Note(c, act), reply))

Ssh(c, act) == Once(c, act, "none")
Mysql(c, act) == Once(c, act, "denied")
Vnc(c, act) == Once(c, act, "security")
Amqp(c, act) == Once(c, act, "protocol")
Ldap(c, act) == Once(c, act, "bind")
MongoDb(c, act) == Once(c, act, "none")
Smb(c, act) == Once(c, act, "negotiate")
Rdp(c, act) == Once(c, act, "confirm")

\* An SSLRequest is refused and the start-up packet read after it; when that
\* read times out the error answer is skipped and the first read kept.
Postgres(c, act) ==
  IF c.st = "talk" /\ c.mode = "ssl"
  THEN CASE act = "stall" -> HangUp(c)
         [] act = "close" -> HangUp(Says(c, "error"))
         [] act = "reset" -> Raised(c)
         [] OTHER -> HangUp(Says(Note(c, act), "error"))
  ELSE IF c.st = "talk" /\ act = "SSLREQUEST"
  THEN [Says(Note(c, act), "N") EXCEPT !.mode = "ssl"]
  ELSE Once(c, act, "error")

\* _read_http_request(): chunks up to the blank line. A timeout or an error
\* loses what was read: http answers and records nothing, rtsp raises.
Request(c, act, swallow) ==
  IF c.st # "talk" THEN c
  ELSE CASE act \in {"stall", "reset"} ->
              IF swallow THEN HangUp(Says([c EXCEPT !.noted = <<>>], "200")) ELSE Raised(c)
         [] act = "close" -> HangUp(IF swallow \/ c.noted # <<>> THEN Says(c, "200") ELSE c)
         [] act = "BLANK" -> HangUp(Says(Note(c, act), "200"))
         [] OTHER -> Note(c, act)

Http(c, act) == Request(c, act, TRUE)
Rtsp(c, act) == Request(c, act, FALSE)

\* The first read holds the length; an empty or one-byte read returns with no
\* event, later reads complete the query, and only the first is recorded. The
\* reply's own length has two bytes, and a longer one raises.
DnsTcp(c, act) ==
  IF c.st # "talk" THEN c
  ELSE IF c.mode = "command"
  THEN CASE act \in {"close", "SHORT"} -> [c EXCEPT !.st = "silent"]
         [] act = "stall" -> HangUp(c)
         [] act = "reset" -> Raised(c)
         [] act = "PART" -> [Note(c, act) EXCEPT !.mode = "more"]
         [] act = "OVERSIZE" -> Raised(Note(c, act))
         [] OTHER -> HangUp(Says(Note(c, act), "answer"))
  ELSE CASE act = "stall" -> HangUp(c)
         [] act = "reset" -> Raised(c)
         [] act = "PART" -> c
         [] OTHER -> HangUp(Says(c, "answer"))

-----------------------------------------------------------------------------
Services == {"ftp", "smtp", "pop3", "imap", "memcached", "redis", "mqtt", "generic", "telnet",
             "ssh", "mysql", "vnc", "amqp", "ldap", "mongodb", "smb", "rdp",
             "postgres", "http", "rtsp", "dns_tcp"}

\* Who speaks first.
Banner(svc) == svc \notin {"postgres", "mqtt", "ldap", "http", "rtsp", "dns_tcp", "smb", "rdp"}

RoundsOf(svc) ==
  CASE svc = "smtp" -> 2 * Rounds [] svc = "telnet" -> 2 [] OTHER -> Rounds

\* _handle_tcp(): the dispatch on the port.
Turn(svc, c, act) ==
  CASE svc = "ftp"       -> Loop(c, act, Ftp)
    [] svc = "smtp"      -> Loop(c, act, Smtp)
    [] svc = "pop3"      -> Loop(c, act, Pop3)
    [] svc = "imap"      -> Loop(c, act, Imap)
    [] svc = "memcached" -> Loop(c, act, Memcached)
    [] svc = "redis"     -> Loop(c, act, Redis)
    [] svc = "mqtt"      -> Loop(c, act, Mqtt)
    [] svc = "generic"   -> Loop(c, act, Generic)
    [] svc = "telnet"    -> Loop(c, act, Telnet)
    [] svc = "postgres"  -> Postgres(c, act)
    [] svc = "http"      -> Http(c, act)
    [] svc = "rtsp"      -> Rtsp(c, act)
    [] svc = "ssh"       -> Ssh(c, act)
    [] svc = "mysql"     -> Mysql(c, act)
    [] svc = "vnc"       -> Vnc(c, act)
    [] svc = "amqp"      -> Amqp(c, act)
    [] svc = "ldap"      -> Ldap(c, act)
    [] svc = "mongodb"   -> MongoDb(c, act)
    [] svc = "smb"       -> Smb(c, act)
    [] svc = "rdp"       -> Rdp(c, act)
    [] svc = "dns_tcp"   -> DnsTcp(c, act)

\* telnet refuses the login whatever came.
Farewell(svc, c) == IF svc = "telnet" /\ c.st = "over" THEN Says(c, "refused") ELSE c

\* A failed handshake never reaches a service; the socket is closed anyway.
Talk(svc, handshake, script) ==
  IF ~handshake THEN Raised(Opening(FALSE, 0))
  ELSE Farewell(svc, FoldLeft(LAMBDA c, act : Turn(svc, c, act),
                              Opening(Banner(svc), RoundsOf(svc)), script \o <<"close">>))

\* _emit_packet() is reached: the handler neither raised nor returned early.
Emits(c) == c.st = "over"

-----------------------------------------------------------------------------
(* Replies to datagrams: _udp_response_allowed(). *)

CONSTANTS
  Limit,        \* HONEYPOT_UDP_RESPONSE_RATE_LIMIT
  RateWindow,   \* HONEYPOT_UDP_RESPONSE_RATE_WINDOW_SECONDS
  MaxClients    \* HONEYPOT_UDP_RESPONSE_RATE_MAX_CLIENTS

ASSUME RateAssumption == Limit \in Nat \ {0} /\ RateWindow \in Nat \ {0} /\ MaxClients \in Nat

Fresh(times, now) == SelectSeq(times, LAMBDA t : t > now - RateWindow)

\* Above the table's limit, windows whose last reply is too old are dropped.
Swept(windows, now) ==
  IF Cardinality(DOMAIN windows) <= MaxClients THEN windows
  ELSE [k \in {k \in DOMAIN windows : Fresh(windows[k], now) # <<>>} |-> windows[k]]

Allowed(windows, key, now) ==
  LET w == Swept(windows, now)
  IN  Len(Fresh(IF key \in DOMAIN w THEN w[key] ELSE <<>>, now)) < Limit

\* The table after one datagram of `key' at `now'.
Charged(windows, key, now) ==
  LET w    == Swept(windows, now)
      old  == Fresh(IF key \in DOMAIN w THEN w[key] ELSE <<>>, now)
      mine == IF Allowed(windows, key, now) THEN Append(old, now) ELSE old
  IN  [k \in DOMAIN w \cup {key} |-> IF k = key THEN mine ELSE w[k]]

\* The replies sent for a history of datagrams, each [key, at].
Replied(history) ==
  FoldLeft(LAMBDA acc, d :
             [w |-> Charged(acc.w, d.key, d.at),
              out |-> IF Allowed(acc.w, d.key, d.at) THEN Append(acc.out, d) ELSE acc.out],
           [w |-> <<>>, out |-> <<>>], history).out
=============================================================================
