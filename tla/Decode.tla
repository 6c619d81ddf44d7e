------------------------------- MODULE Decode -------------------------------
(***************************************************************************)
(* What the capture engine makes of one frame.  A frame is the stack of    *)
(* headers its sender wrote, each with a kind and a size in bytes, and the *)
(* number of bytes captured; a payload is a sequence of cells, one per     *)
(* field (a type, a length, one unit of a value).  The decoders are        *)
(* functions: how far they read, what they name, when they stop.           *)
(***************************************************************************)
EXTENDS Integers, Sequences, FiniteSets

CONSTANTS
  MaxJumps,     \* max_jumps of _read_dns_name()
  MaxLabels,    \* its limit on labels
  MaxRecords,   \* parse_dns_message()'s limit on records of a section
  FlowCap       \* TLS_FLOW_MEMORY_CAP

ASSUME DecodeAssumption == {MaxJumps, MaxLabels, MaxRecords, FlowCap} \subseteq Nat \ {0}

\* n steps of a loop from a state.
Iterate(Step(_), start, n) ==
  LET after[i \in 0..n] == IF i = 0 THEN start ELSE Step(after[i - 1]) IN after[n]

Smaller(a, b) == IF a < b THEN a ELSE b

-----------------------------------------------------------------------------
(* The layers of a frame: [cap, hs], a header [k, len, cut, later]: `cut' is *)
(* the IPv4 total length (0 when absent), `later' a non-initial fragment.    *)

\* Bytes each parser asks for before it reads a field.
Need ==
  [eth |-> 14, vlan |-> 4, ipv4 |-> 20, ipv6 |-> 40, ext |-> 2, frag |-> 8, ah |-> 12, arp |-> 28,
   llc |-> 3, snap |-> 8, tcp |-> 20, udp |-> 8, sctp |-> 12, icmp |-> 4, igmp |-> 8, gre |-> 4,
   esp |-> 8, ospf |-> 0, lldp |-> 0, stp |-> 3]

\* The verdict so far: the offset, the end of the data, the protocol named,
\* whether addresses and ports were read, and whether the walk is over.
Unread(frame) ==
  [at |-> 0, end |-> frame.cap, proto |-> "unknown", addrs |-> FALSE, ports |-> FALSE, st |-> "on"]

Names(d, proto) == [d EXCEPT !.proto = proto, !.st = "over"]
Past(d, h) == [d EXCEPT !.at = @ + h.len]
Left(d) == IF d.at < d.end THEN d.end - d.at ELSE 0
Enough(d, h) == Left(d) >= Need[h.k]

\* A frame too short for its Ethernet header is no packet; a tag that was cut
\* off leaves the tag's own EtherType, which names nothing.
Ethernet(d, h) == IF Enough(d, h) THEN Past(d, h) ELSE [d EXCEPT !.st = "dropped"]
Vlan(d, h) == IF Enough(d, h) THEN Past(d, h) ELSE Names(d, "unknown")

\* The header length moves the body, the total length cuts padding off it.
Ipv4(d, h) ==
  IF ~Enough(d, h) THEN Names(d, "unknown")
  ELSE [Past(d, h) EXCEPT !.addrs = TRUE,
                          !.end = IF h.cut > h.len THEN Smaller(@, d.at + h.cut) ELSE @]

Ipv6(d, h) == IF Enough(d, h) THEN [Past(d, h) EXCEPT !.addrs = TRUE] ELSE Names(d, "unknown")

\* _unwrap_ipv6_transport(): an extension header counts only when whole.
Extension(d, h) ==
  IF Enough(d, h) /\ Left(d) >= h.len THEN Past(d, h) ELSE Names(d, "unknown")

Fragment(d, h) ==
  IF Enough(d, h) /\ ~h.later THEN Past(d, h) ELSE Names(d, "unknown")

\* An AH header that runs past the end leaves an empty body to its inner
\* protocol, which only three parsers accept.
Ah(d, h, inner) ==
  IF ~Enough(d, h) \/ inner \notin {"tcp", "udp", "icmp"} THEN Names(d, "ah")
  ELSE IF h.len <= Left(d) THEN Past(d, h) ELSE [d EXCEPT !.at = d.end]

Arp(d, h) == [Names(d, "arp") EXCEPT !.addrs = Enough(d, h)]
Llc(d, h) == Names(d, "llc")
Snap(d, h) == IF Enough(d, h) THEN Past(d, h) ELSE Names(d, "llc")
Stp(d, h) == Names(d, IF Enough(d, h) THEN "stp" ELSE "llc")

\* Named whatever was captured, ports only with the whole header.
Ported(d, h) == [Names(d, h.k) EXCEPT !.ports = Enough(d, h)]
Tcp(d, h) == Ported(d, h)
Udp(d, h) == Ported(d, h)
Sctp(d, h) == Ported(d, h)

\* A truncated one is named as well, without its fields.
Icmp(d, h) == Names(d, "icmp")
Igmp(d, h) == Names(d, "igmp")
Gre(d, h) == Names(d, "gre")
Esp(d, h) == Names(d, "esp")
Named(d, h) == Names(d, h.k)

Layer(d, hs, i) ==
  LET h == hs[i]
  IN  IF d.st # "on" THEN d
      ELSE CASE h.k = "eth"  -> Ethernet(d, h)
             [] h.k = "vlan" -> Vlan(d, h)
             [] h.k = "ipv4" -> Ipv4(d, h)
             [] h.k = "ipv6" -> Ipv6(d, h)
             [] h.k = "ext"  -> Extension(d, h)
             [] h.k = "frag" -> Fragment(d, h)
             [] h.k = "ah"   -> Ah(d, h, IF i < Len(hs) THEN hs[i + 1].k ELSE "none")
             [] h.k = "arp"  -> Arp(d, h)
             [] h.k = "llc"  -> Llc(d, h)
             [] h.k = "snap" -> Snap(d, h)
             [] h.k = "stp"  -> Stp(d, h)
             [] h.k = "tcp"  -> Tcp(d, h)
             [] h.k = "udp"  -> Udp(d, h)
             [] h.k = "sctp" -> Sctp(d, h)
             [] h.k = "icmp" -> Icmp(d, h)
             [] h.k = "igmp" -> Igmp(d, h)
             [] h.k = "gre"  -> Gre(d, h)
             [] h.k = "esp"  -> Esp(d, h)
             [] OTHER -> Named(d, h)

\* parse_packet(): a raw IP packet starts at its IP header, and only when that
\* header was captured; else the bytes are taken for an Ethernet frame.
ParsePacket(frame) ==
  LET walk[i \in 0..Len(frame.hs)] ==
        IF i = 0 THEN Unread(frame) ELSE Layer(walk[i - 1], frame.hs, i)
  IN  walk[Len(frame.hs)]

-----------------------------------------------------------------------------
(* Naming the application: ports, and the shape of the payload [sig, size]. *)

TcpPorts == [p \in {22, 80, 443, 502, 1883, 20000} |->
               CASE p = 22 -> "ssh" [] p = 80 -> "http" [] p = 443 -> "tls" [] p = 502 -> "modbus"
                 [] p = 1883 -> "mqtt" [] OTHER -> "dnp3"]

UdpPorts == [p \in {53, 67, 123, 443, 514} |->
               CASE p = 53 -> "dns" [] p = 67 -> "dhcp" [] p = 123 -> "ntp" [] p = 443 -> "quic"
                 [] OTHER -> "syslog"]

\* _port_protocol(): the destination first.
PortProtocol(table, src, dst) ==
  IF dst \in DOMAIN table THEN table[dst]
  ELSE IF src \in DOMAIN table THEN table[src] ELSE "none"

ClassifyTcp(src, dst, p) ==
  IF p.sig \in {"tls", "ssh", "sip", "http", "vnc", "telnet", "smb"} THEN p.sig
  ELSE PortProtocol(TcpPorts, src, dst)

ClassifyUdp(src, dst, p) ==
  IF p.sig \in {"ssdp", "sip", "quic"} THEN p.sig ELSE PortProtocol(UdpPorts, src, dst)

\* The dedicated parsers claim a segment first, by port and a little content.
TcpName(src, dst, p) ==
  CASE 53 \in {src, dst} /\ p.size > 2 /\ p.sig = "dns" -> "dns"
    [] 502 \in {src, dst} /\ p.size >= 8 -> "modbus"
    [] 20000 \in {src, dst} /\ p.sig = "dnp3" -> "dnp3"
    [] 1883 \in {src, dst} /\ p.size > 0 -> "mqtt"
    [] OTHER -> LET app == ClassifyTcp(src, dst, p) IN IF app = "none" THEN "tcp" ELSE app

UdpName(src, dst, p) ==
  CASE 53 \in {src, dst} -> "dns"
    [] 67 \in {src, dst} -> "dhcp"
    [] 514 \in {src, dst} -> "syslog"
    [] 20000 \in {src, dst} /\ p.sig = "dnp3" -> "dnp3"
    [] OTHER -> LET app == ClassifyUdp(src, dst, p) IN IF app = "none" THEN "udp" ELSE app

\* service_endpoint(): which side is the server.
ServerIsSrc(transport, src, dst, flags) ==
  LET known == IF transport = "tcp" THEN DOMAIN TcpPorts ELSE DOMAIN UdpPorts
  IN  IF transport = "tcp" /\ "SYN" \in flags THEN "ACK" \in flags
      ELSE IF (src \in known) # (dst \in known) THEN src \in known ELSE src < dst

\* stable_flow_key(): the two ends in one order, whichever sent.
FlowKey(proto, a, b) == <<proto, {a, b}>>

\* The content decoders: which payloads give fields. A line protocol takes
\* any text, some take any payload long enough, the others check what they
\* decode.
TlsFields(p) == p.size >= 5 /\ p.sig = "tls"
SshFields(p) == p.sig = "ssh"
HttpFields(p) == p.sig = "http"
NtpFields(p) == p.size >= 4
LineFields(p) == p.size > 0
RedisFields(p) == p.sig = "redis"
SipFields(p) == p.size > 0
SsdpFields(p) == p.size > 0
BgpFields(p) == p.size >= 19 /\ p.sig = "bgp"
KerberosFields(p) == p.sig = "kerberos"
LdapFields(p) == p.size >= 7 /\ p.sig = "ldap"
SmbFields(p) == p.sig = "smb1" \/ (p.sig = "smb" /\ p.size >= 16)
QuicFields(p) == p.size >= 5 /\ p.sig = "quic"
StunFields(p) == p.size >= 20 /\ p.sig = "stun"
IsakmpFields(p) == p.size >= 28
WireguardFields(p) == p.size >= 4 /\ p.sig = "wireguard"
VxlanFields(p) == p.size >= 8 /\ p.sig = "vxlan"

\* decode(): no decoder, no payload or a decoder that raises give nothing.
Details(proto, p) ==
  /\ p.size > 0
  /\ CASE proto = "tls" -> TlsFields(p) [] proto = "ssh" -> SshFields(p) [] proto = "http" -> HttpFields(p)
       [] proto = "ntp" -> NtpFields(p) [] proto = "smtp" -> LineFields(p) [] proto = "redis" -> RedisFields(p)
       [] proto = "sip" -> SipFields(p) [] proto = "ssdp" -> SsdpFields(p) [] proto = "bgp" -> BgpFields(p)
       [] proto = "kerberos" -> KerberosFields(p) [] proto = "ldap" -> LdapFields(p)
       [] proto = "smb" -> SmbFields(p) [] proto = "quic" -> QuicFields(p) [] proto = "stun" -> StunFields(p)
       [] proto = "isakmp" -> IsakmpFields(p) [] proto = "wireguard" -> WireguardFields(p)
       [] proto = "vxlan" -> VxlanFields(p) [] OTHER -> FALSE

\* _apply_app_decoder(): the name is the classifier's, the fields only from a
\* payload its decoder accepts.
AppTcp(src, dst, p) ==
  LET app == ClassifyTcp(src, dst, p) IN [name |-> app, fields |-> Details(app, p)]
AppUdp(src, dst, p) ==
  LET app == ClassifyUdp(src, dst, p) IN [name |-> app, fields |-> Details(app, p)]

-----------------------------------------------------------------------------
(* The flows known to be encrypted: _is_tls_payload() over the segments seen. *)

\* A record header notes its flow; a full table is emptied first.
Remember(flows, seg) ==
  IF ~seg.head THEN flows
  ELSE (IF Cardinality(flows) >= FlowCap THEN {} ELSE flows) \cup {seg.flow}

Opaque(flows, seg) == seg.head \/ seg.flow \in flows

\* The table after each segment of a history, and the segments shown as text.
Known(history) ==
  LET after[i \in 0..Len(history)] ==
        IF i = 0 THEN {} ELSE Remember(after[i - 1], history[i])
  IN  after

ShownAsText(history) ==
  {i \in 1..Len(history) : ~Opaque(Known(history)[i - 1], history[i]) /\ history[i].printable}

-----------------------------------------------------------------------------
(* Walks over type-length-value cells. A walk is [at, items, st]; an item is *)
(* [t, from, to], the cells of its value. Positions start at 1.              *)

Start(at) == [at |-> at, items |-> <<>>, st |-> "on"]
Stop(w) == [w EXCEPT !.st = "over"]
Take(w, t, from, to) ==
  [w EXCEPT !.items = Append(@, [t |-> t, from |-> from, to |-> to]), !.at = to + 1]

\* DHCP: a pad has no length, the end code stops, a value cut off stops.
Dhcp(p, w) ==
  IF w.st # "on" \/ w.at > Len(p) \/ p[w.at] = 4 THEN Stop(w)
  ELSE IF p[w.at] = 0 THEN [w EXCEPT !.at = @ + 1]
  ELSE IF w.at + 1 > Len(p) THEN Stop(w)
  ELSE IF w.at + 1 + p[w.at + 1] > Len(p) THEN Stop(w)
  ELSE Take(w, p[w.at], w.at + 2, w.at + 1 + p[w.at + 1])

\* A length that counts its own two cells.
Counted(p, w) ==
  IF w.st # "on" \/ w.at + 1 > Len(p) THEN Stop(w)
  ELSE IF p[w.at + 1] < 2 \/ w.at + p[w.at + 1] - 1 > Len(p) THEN Stop(w)
  ELSE Take(w, p[w.at], w.at + 2, w.at + p[w.at + 1] - 1)

Radius(p, w) == Counted(p, w)
Cdp(p, w) == Counted(p, w)

\* LLDP: type 0 ends.
Lldp(p, w) ==
  IF w.st # "on" \/ w.at + 1 > Len(p) THEN Stop(w)
  ELSE IF p[w.at] = 0 \/ w.at + 1 + p[w.at + 1] > Len(p) THEN Stop(w)
  ELSE Take(w, p[w.at], w.at + 2, w.at + 1 + p[w.at + 1])

\* TLS extensions: stops at the server name, type 0, which must be whole.
Sni(p, w) ==
  IF w.st # "on" \/ w.at + 1 > Len(p) THEN Stop(w)
  ELSE LET to == w.at + 1 + p[w.at + 1]
       IN  IF p[w.at] = 0
           THEN Stop(IF to <= Len(p) THEN Take(w, 0, w.at + 2, to) ELSE w)
           ELSE [w EXCEPT !.at = to + 1]

\* TXT strings and MQTT strings: a slice past the end is shortened.
Txt(p, w) ==
  IF w.st # "on" \/ w.at > Len(p) THEN Stop(w)
  ELSE [Take(w, 0, w.at + 1, Smaller(w.at + p[w.at], Len(p))) EXCEPT !.at = w.at + p[w.at] + 1]

Walkers == {"dhcp", "radius", "cdp", "lldp", "sni", "txt"}

Walk(kind, p) ==
  LET step(w) == CASE kind = "dhcp" -> Dhcp(p, w) [] kind = "radius" -> Radius(p, w) [] kind = "cdp" -> Cdp(p, w)
                  
                   [] kind = "lldp" -> Lldp(p, w) [] kind = "sni" -> Sni(p, w) [] OTHER -> Txt(p, w)
  IN  Iterate(step, Start(1), Len(p) + 1)

\* _read_ber_length(): a cell below Long is the length, above it the number
\* of cells that hold it (their value is at most the largest cell).
Long == 3
BerLength(p, at) ==
  IF at > Len(p) THEN [n |-> -1, at |-> at]
  ELSE IF p[at] < Long THEN [n |-> p[at], at |-> at + 1]
  ELSE IF p[at] = Long \/ at + 1 > Len(p) THEN [n |-> -1, at |-> at + 1]
  ELSE [n |-> p[at + 1], at |-> at + 2]

\* One BER element at a position: its value's cells, and where the walk goes
\* on; a length that is absent, zero or too long leaves the value out.
BerElement(p, tag, at) ==
  IF at > Len(p) THEN [from |-> 1, to |-> 0, at |-> at]
  ELSE IF p[at] # tag THEN [from |-> 1, to |-> 0, at |-> at]
  ELSE LET len == BerLength(p, at + 1)
       IN  IF len.n > 0 /\ len.at + len.n - 1 <= Len(p)
           THEN [from |-> len.at, to |-> len.at + len.n - 1, at |-> len.at + len.n]
           ELSE [from |-> 1, to |-> 0, at |-> len.at]

\* _parse_snmp(): the sequence's length, the version (tag 1), the community
\* (tag 2), each where the one before ended.
Snmp(p) ==
  LET body      == BerLength(p, 2).at
      version   == BerElement(p, 1, body)
      community == BerElement(p, 2, version.at)
  IN  <<version, community>>

\* _read_mqtt_remaining_length(): cells from Long up continue, four at most.
MqttRemaining(p, at) ==
  LET ends == {i \in at..Smaller(at + 3, Len(p)) : p[i] < Long}
  IN  IF ends = {} THEN Smaller(at + 4, Len(p) + 1)
      ELSE (CHOOSE i \in ends : \A j \in ends : i <= j) + 1

\* _read_mqtt_string(): an empty or cut string is skipped up to its length cell.
MqttString(p, at) ==
  IF at > Len(p) THEN [from |-> 1, to |-> 0, at |-> at]
  ELSE IF p[at] = 0 \/ at + p[at] > Len(p) THEN [from |-> 1, to |-> 0, at |-> at + 1]
  ELSE [from |-> at + 1, to |-> at + p[at], at |-> at + p[at] + 1]

\* A CONNECT: the protocol's name, level, flags and keep-alive, the client, the
\* will's topic and message when there is a will, then the user.
MqttConnect(p) ==
  LET name   == MqttString(p, MqttRemaining(p, 2))
      flags  == IF name.at + 1 <= Len(p) THEN p[name.at + 1] ELSE 0
      client == MqttString(p, name.at + 3)
      topic  == MqttString(p, client.at)
      will   == MqttString(p, topic.at)
      user   == MqttString(p, IF flags % 2 = 1 THEN will.at ELSE client.at)
  IN  IF Len(p) <= 1 THEN <<>> ELSE IF flags >= 2 THEN <<client, user>> ELSE <<client>>

\* Fixed layouts: what is read, from [size, fc] or the number itself.
ModbusRead(p) ==
  IF p.size < 8 THEN <<>>
  ELSE <<[code |-> p.fc % 128, refused |-> p.fc >= 128,
          writes |-> p.fc % 128 \in {5, 6, 15, 16, 21, 22, 23}]>>
Dnp3Read(p) ==
  IF p.size < 10 \/ p.sig # "dnp3" THEN <<>> ELSE IF p.size >= 13 THEN <<p.fc>> ELSE <<"unknown">>
SyslogRead(pri) == [facility |-> pri \div 8, severity |-> pri % 8]
TftpNames(p) == p.size > 2 /\ p.fc \in {1, 2}
NbnsNames(p) == p.size >= 45 /\ p.fc >= 1

-----------------------------------------------------------------------------
(* DNS. A message's cells: [k |-> "end"], [k |-> "label"], or a pointer      *)
(* [k |-> "ptr", to]; a fixed part of a record is one cell [k |-> "fix", n], *)
(* n the length of the data after it.                                        *)

Reading(at) == [pos |-> at, labels |-> <<>>, jumps |-> 0, resume |-> 0, st |-> "on"]

ResumeAt(r, pos) == [r EXCEPT !.resume = IF @ = 0 THEN pos ELSE @]

MutFollowEarly(cells, r) ==
  LET noted == [ResumeAt(r, r.pos + 1) EXCEPT !.jumps = @ + 1]
  IN  IF noted.jumps >= MaxJumps \/ cells[r.pos].to \notin 1..Len(cells) \/ cells[r.pos].to = r.pos
      THEN [noted EXCEPT !.st = "over"]
      ELSE [noted EXCEPT !.pos = cells[r.pos].to]

\* A pointer: what follows the name is after the first one; too many jumps, a
\* target outside the message or the pointer itself end the name.
Follow(cells, r) ==
  LET noted == [ResumeAt(r, r.pos + 1) EXCEPT !.jumps = @ + 1]
  IN  IF noted.jumps > MaxJumps \/ cells[r.pos].to \notin 1..Len(cells) \/ cells[r.pos].to = r.pos
      THEN [noted EXCEPT !.st = "over"]
      ELSE [noted EXCEPT !.pos = cells[r.pos].to]

ReadStep(cells, r) ==
  IF r.st # "on" THEN r
  ELSE IF r.pos > Len(cells) THEN [r EXCEPT !.st = "over"]
  ELSE CASE cells[r.pos].k = "end" -> [ResumeAt(r, r.pos + 1) EXCEPT !.pos = @ + 1, !.st = "over"]
         [] cells[r.pos].k = "ptr" -> Follow(cells, r)
         [] OTHER -> [r EXCEPT !.labels = Append(@, r.pos), !.pos = @ + 1,
                               !.st = IF Len(r.labels) >= MaxLabels THEN "over" ELSE "on"]

\* _read_dns_name(). The budget is what the limits allow: it never binds.
ReadDnsName(cells, at) ==
  LET step(r) == ReadStep(cells, r)
      last    == Iterate(step, Reading(at), (MaxJumps + 2) * (Len(cells) + 1))
  IN  ResumeAt(last, last.pos)

-----------------------------------------------------------------------------
(* The honeypot has a DNS reader of its own, which raises where the other    *)
(* one stops.                                                                *)

HoneypotStep(cells, r) ==
  IF r.st # "on" THEN r
  ELSE IF r.pos > Len(cells) THEN [r EXCEPT !.st = "raised"]
  ELSE CASE cells[r.pos].k = "end" -> [ResumeAt(r, r.pos + 1) EXCEPT !.st = "over"]
         [] cells[r.pos].k = "ptr" ->
              IF cells[r.pos].to > Len(cells) \/ r.jumps >= MaxJumps THEN [r EXCEPT !.st = "raised"]
              ELSE [ResumeAt(r, r.pos + 1) EXCEPT !.pos = cells[r.pos].to, !.jumps = @ + 1]
         [] OTHER -> [r EXCEPT !.labels = Append(@, r.pos), !.pos = @ + 1]

HoneypotDnsName(cells, at) ==
  LET step(r) == HoneypotStep(cells, r)
  IN  Iterate(step, Reading(at), (MaxJumps + 2) * (Len(cells) + 1))

\* _parse_dns_questions(): the first name that raises ends the list.
HoneypotQuestion(cells, m) ==
  IF m.st # "on" \/ m.at > Len(cells) THEN [m EXCEPT !.st = "over"]
  ELSE LET name == HoneypotDnsName(cells, m.at)
       IN  IF name.st = "raised" \/ name.resume > Len(cells) THEN [m EXCEPT !.st = "over"]
           ELSE [m EXCEPT !.at = name.resume + 1,
                          !.found = Append(@, [name |-> name.labels, at |-> name.resume])]

\* The reply repeats the questions read and answers each.
HoneypotAnswers(cells, qd) ==
  LET step(m) == HoneypotQuestion(cells, m)
  IN  Iterate(step, [at |-> 1, found |-> <<>>, st |-> "on"], Smaller(qd, Len(cells))).found

-----------------------------------------------------------------------------
\* One record of parse_dns_message(): the name, the fixed part, the data.
Record(cells, m, data) ==
  IF m.st # "on" \/ m.at > Len(cells) THEN [m EXCEPT !.st = "over"]
  ELSE LET name == ReadDnsName(cells, m.at)
       IN  IF name.resume > Len(cells) THEN [m EXCEPT !.at = name.resume, !.st = "over"]
           ELSE LET n == IF data /\ cells[name.resume].k = "fix" THEN cells[name.resume].n ELSE 0
                IN  [m EXCEPT !.at = name.resume + 1 + n,
                              !.found = Append(@, [name |-> name.labels, at |-> name.resume])]

Section(cells, at, count, data) ==
  LET step(m) == Record(cells, m, data)
  IN  Iterate(step, [at |-> at, found |-> <<>>, st |-> "on"], Smaller(count, MaxRecords))

ParseDnsMessage(cells, qd, an) ==
  LET questions == Section(cells, 1, qd, FALSE)
      answers   == Section(cells, questions.at, an, TRUE)
  IN  [questions |-> questions.found, answers |-> answers.found]
=============================================================================
