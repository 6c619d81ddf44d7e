------------------------------- MODULE MCWire -------------------------------
(***************************************************************************)
(* The byte-level functions for TLC: Conversation and Decode have no state *)
(* of their own, so a state here is one input under construction, and a    *)
(* step makes it longer by one client act, datagram, captured byte, cell   *)
(* or segment.  Each property compares what the code's function returns    *)
(* for that input with a definition of what it should.                     *)
(***************************************************************************)
EXTENDS Conversation, Decode, FiniteSetsExt

CONSTANTS
  MaxScript,      \* acts of a client's script
  MaxTimes,     \* datagrams of a history, and the largest time
  MaxCells,     \* cells of a payload
  MaxSegments   \* segments of a capture

VARIABLE probe

-----------------------------------------------------------------------------
(* The inputs. *)

Acts(svc) ==
  CASE svc = "smtp" -> {"HELO", "DATA", ".", "QUIT", "stall"}
    [] svc = "postgres" -> {"SSLREQUEST", "START"} \cup Ends
    [] svc = "dns_tcp" -> {"QUERY", "PART", "SHORT", "OVERSIZE"} \cup Ends
    [] svc \in {"http", "rtsp"} -> {"GET", "BLANK"} \cup Ends
    [] svc = "imap" -> {"CAPABILITY", "LOGOUT"} \cup Ends
    [] OTHER -> {"USER", "QUIT"} \cup Ends

Header(k, len) == [k |-> k, len |-> len, cut |-> 0, later |-> FALSE]
Eth == <<Header("eth", 14)>>
Tagged == Eth \o <<Header("vlan", 4), Header("vlan", 4)>>
V4(ihl, total) == <<[Header("ipv4", ihl) EXCEPT !.cut = total]>>
V6 == <<Header("ipv6", 40)>>
Frag(later) == <<[Header("frag", 8) EXCEPT !.later = later]>>

Stacks ==
  LET over == {<<Header("tcp", 20)>>, <<Header("udp", 8)>>, <<Header("icmp", 4)>>,
               <<Header("ah", 16), Header("tcp", 20)>>, <<Header("ah", 16), Header("sctp", 12)>>,
               <<Header("gre", 4)>>, <<Header("ospf", 0)>>}
      six  == {V6, V6 \o <<Header("ext", 16)>>, V6 \o Frag(FALSE), V6 \o Frag(TRUE),
               V6 \o <<Header("ext", 8), Header("frag", 8)>>}
  IN  {link \o ip \o up : link \in {Eth, Tagged}, ip \in {V4(20, 0), V4(24, 50), V4(20, 30)} \cup six, up \in over}
      \cup {ip \o <<Header("udp", 8)>> : ip \in {V4(20, 0), V6}}
      \cup {Eth \o <<Header("arp", 28)>>, Eth \o <<Header("llc", 3)>>, Eth \o <<Header("stp", 3)>>,
            Eth \o <<Header("lldp", 0)>>, Eth \o <<Header("snap", 8)>> \o V4(20, 0) \o <<Header("udp", 8)>>}

Size(hs) ==
  LET upto[i \in 0..Len(hs)] == IF i = 0 THEN 0 ELSE upto[i - 1] + hs[i].len IN upto[Len(hs)]

\* A raw IP packet is recognised only once its header is there.
FirstByte(hs) == IF hs[1].k = "eth" THEN 0 ELSE Need[hs[1].k]

DnsCells(n) ==
  {[k |-> "end"], [k |-> "label"], [k |-> "fix", n |-> 1]} \cup {[k |-> "ptr", to |-> t] : t \in 1..n + 1}

Signatures == {"plain", "tls", "http", "dns", "dnp3", "quic", "sip"}
Ports == {22, 53, 80, 443, 502, 514, 1883, 20000, 50000}

WireInit ==
  \/ \E svc \in Services : probe = [kind |-> "talk", svc |-> svc, script |-> <<>>]
  \/ probe = [kind |-> "rate", history |-> <<>>]
  \/ \E hs \in Stacks : probe = [kind |-> "frame", hs |-> hs, cap |-> FirstByte(hs)]
  \/ \E transport \in {"tcp", "udp"}, src \in Ports, dst \in Ports, sig \in Signatures :
       probe = [kind |-> "name", transport |-> transport, src |-> src, dst |-> dst,
                payload |-> [sig |-> sig, size |-> IF sig = "plain" THEN 0 ELSE 12]]
  \/ probe = [kind |-> "cells", cells |-> <<>>]
  \/ probe = [kind |-> "dns", cells |-> <<>>]
  \/ probe = [kind |-> "flow", history |-> <<>>]

-----------------------------------------------------------------------------
(* One more of each. *)

ClientActs ==
  /\ probe.kind = "talk" /\ Len(probe.script) < MaxScript
  /\ \A i \in 1..Len(probe.script) : probe.script[i] \notin Ends
  /\ \E act \in Acts(probe.svc) : probe' = [probe EXCEPT !.script = Append(@, act)]

DatagramArrives ==
  /\ probe.kind = "rate" /\ Len(probe.history) < MaxTimes
  /\ LET now == IF probe.history = <<>> THEN 0 ELSE Last(probe.history).at
     IN  \E key \in 1..2, t \in now..MaxTimes :
           probe' = [probe EXCEPT !.history = Append(@, [key |-> key, at |-> t])]

\* Two bytes past the last header are padding or payload.
ByteCaptured ==
  /\ probe.kind = "frame" /\ probe.cap < Size(probe.hs) + 2
  /\ probe' = [probe EXCEPT !.cap = @ + 1]

SameSegmentLarger ==
  /\ probe.kind = "name" /\ probe.payload.size < 12
  /\ probe' = [probe EXCEPT !.payload.size = @ + 4]

CellAdded ==
  /\ probe.kind = "cells" /\ Len(probe.cells) < MaxCells
  /\ \E cell \in 0..4 : probe' = [probe EXCEPT !.cells = Append(@, cell)]

DnsCellAdded ==
  /\ probe.kind = "dns" /\ Len(probe.cells) < MaxCells - 1
  /\ \E cell \in DnsCells(MaxCells - 1) : probe' = [probe EXCEPT !.cells = Append(@, cell)]

SegmentCaptured ==
  /\ probe.kind = "flow" /\ Len(probe.history) < MaxSegments
  /\ \E flow \in 1..3, head \in BOOLEAN :
       probe' = [probe EXCEPT !.history = Append(@, [flow |-> flow, head |-> head, printable |-> TRUE])]

WireNext ==
  \/ ClientActs \/ DatagramArrives \/ ByteCaptured \/ SameSegmentLarger
  \/ CellAdded \/ DnsCellAdded \/ SegmentCaptured

-----------------------------------------------------------------------------
(* The references. *)

LineServices == {"ftp", "smtp", "pop3", "imap", "memcached", "redis", "mqtt", "generic", "telnet"}

QuitWord(svc) ==
  CASE svc = "imap" -> {"LOGOUT"} [] svc \in {"generic", "telnet"} -> {} [] OTHER -> {"QUIT"}

\* A line inside the body of a message: after DATA, with no dot in between.
InBody(s, i) == \E j \in 1..i - 1 : /\ s[j] = "DATA" /\ \A l \in j + 1..i - 1 : s[l] # "."
                                    /\ ~\E l \in 1..j - 1 : s[l] = "DATA" /\ \A m \in l + 1..j - 1 : s[m] # "."

\* The acts the service hears: up to its rounds, to the end of the input, and
\* to a farewell that is not part of a message.
HeardOf(svc, s) ==
  LET stops == {i \in 1..Len(s) : s[i] \in Ends}
      byes  == {i \in 1..Len(s) : s[i] \in QuitWord(svc) /\ ~(svc = "smtp" /\ InBody(s, i))}
      n     == Min({Len(s), RoundsOf(svc)} \cup {i - 1 : i \in stops} \cup byes)
  IN  SubSeq(s, 1, n)

\* _handle_*(): the event of a conversation holds every line the client sent
\* up to its farewell or the round limit, and nothing after; a line of a
\* message that reads QUIT ends neither.
RecordsWhatWasSaid ==
  probe.kind = "talk" /\ probe.svc \in LineServices =>
    LET c == Talk(probe.svc, TRUE, probe.script)
    IN  Emits(c) => c.noted = HeardOf(probe.svc, probe.script)

\* _udp_response_allowed(): a reply is sent exactly when fewer than the limit
\* went to that client within the window before it, whatever other clients do
\* and whenever the table is swept.
RateIsSliding ==
  probe.kind = "rate" =>
    LET h == probe.history
        inWindow(i, granted) ==
          {j \in granted : j < i /\ h[j].key = h[i].key /\ h[j].at > h[i].at - RateWindow}
        granted[i \in 0..Len(h)] ==
          IF i = 0 THEN {}
          ELSE IF Cardinality(inWindow(i, granted[i - 1])) < Limit THEN granted[i - 1] \cup {i}
          ELSE granted[i - 1]
        out == Replied(h)
    IN  /\ Len(out) = Cardinality(granted[Len(h)])
        /\ h # <<>> => (Len(h) \in granted[Len(h)]) = (Len(Replied(Front(h))) < Len(out))

\* A header of the stack is there when it and all before it were captured, up
\* to the end an IPv4 total length gives, and no later fragment precedes it.
StartOf(hs, i) == Size(SubSeq(hs, 1, i - 1))
DataEnd(f) ==
  LET cuts == {StartOf(f.hs, i) + f.hs[i].cut : i \in {i \in 1..Len(f.hs) : f.hs[i].cut > f.hs[i].len}}
  IN  Min({f.cap} \cup cuts)
Whole(f, i) ==
  LET end == IF \E j \in 1..i - 1 : f.hs[j].cut > 0 THEN DataEnd(f) ELSE f.cap
  IN  StartOf(f.hs, i) + f.hs[i].len <= end /\ ~f.hs[i].later

\* parse_packet(): ports are read only from a transport header that is in the
\* frame, behind whole headers, and always when it is; the addresses are those
\* of an IP header that is there; a frame without its Ethernet header is none.
FieldsComeFromHeaders ==
  probe.kind = "frame" =>
    LET f == [hs |-> probe.hs, cap |-> probe.cap]
        d == ParsePacket(f)
        carried == {i \in 1..Len(f.hs) : /\ f.hs[i].k \in {"tcp", "udp", "sctp"}
                                         /\ ~(i > 1 /\ f.hs[i].k = "sctp" /\ f.hs[i - 1].k = "ah")
                                         /\ \A j \in 1..i : Whole(f, j)}
    IN  /\ d.ports = (carried # {})
        /\ d.ports => d.addrs /\ \E i \in carried : d.proto = f.hs[i].k
        /\ (d.st = "dropped") = (f.hs[1].k = "eth" /\ f.cap < 14)

\* _parse_tcp(), _parse_udp(), stable_flow_key(): both directions of a
\* conversation get one name, so one flow, when at most one port is a service's.
BothWaysAlike ==
  probe.kind = "name" =>
    LET name(s, d) == IF probe.transport = "tcp" THEN TcpName(s, d, probe.payload)
                      ELSE UdpName(s, d, probe.payload)
        known == IF probe.transport = "tcp" THEN DOMAIN TcpPorts \cup {53}
                 ELSE DOMAIN UdpPorts \cup {20000}
    IN  {probe.src, probe.dst} \ known # {} =>
          /\ FlowKey(name(probe.src, probe.dst), probe.src, probe.dst)
               = FlowKey(name(probe.dst, probe.src), probe.dst, probe.src)
          /\ ServerIsSrc(probe.transport, probe.src, probe.dst, {})
               = ~ServerIsSrc(probe.transport, probe.dst, probe.src, {})
             \/ probe.src = probe.dst

\* The loops of _parse_dhcp(), _parse_radius(), decode_lldp(), decode_cdp(),
\* extract_tls_sni(), _dns_rdata_preview(), _parse_snmp(), _parse_mqtt(),
\* _read_dns_name():
\* whatever the bytes, each ends within the payload's length, and what it
\* returns are cells of the payload, in order and disjoint. The rest of a DNS
\* message is read from behind the name, not from where its pointers lead.
ParsersEnd ==
  /\ probe.kind = "cells" =>
       /\ \A kind \in Walkers :
            LET w == Walk(kind, probe.cells)
            IN  /\ w.st = "over"
                /\ \A i \in 1..Len(w.items) :
                     /\ w.items[i].from > 1 /\ w.items[i].to <= Len(probe.cells)
                     /\ i > 1 => w.items[i].from > w.items[i - 1].to + 1 - (IF kind = "txt" THEN 1 ELSE 0)
       /\ LET found == Snmp(probe.cells)
          IN  \A i \in 1..2 : found[i].to >= found[i].from =>
                /\ found[i].to <= Len(probe.cells)
                /\ i = 2 => found[2].from > found[1].to
       /\ LET p    == <<1, 0, 0, 0>> \o probe.cells   \* a CONNECT up to its level
              said == MqttConnect(p)
          IN  \A i \in 1..Len(said) : said[i].to >= said[i].from =>
                /\ said[i].to <= Len(p)
                /\ i = 2 => said[2].from > said[1].to
  /\ probe.kind = "dns" =>
       \A at \in 1..Len(probe.cells) :
         LET r == ReadDnsName(probe.cells, at)
             first == {j \in at..Len(probe.cells) : probe.cells[j].k \in {"end", "ptr"}}
         IN  /\ r.st = "over" /\ r.jumps <= MaxJumps + 1
             /\ first # {} /\ Min(first) - at < MaxLabels => r.resume = Min(first) + 1

\* _decode_dns_name() and _read_dns_name(): the two DNS readers of the program
\* agree on every name the stricter one accepts, so the questions the honeypot
\* answers are the ones the sniffer reports for the same datagram.
ReadersAgree ==
  probe.kind = "dns" =>
    /\ \A at \in 1..Len(probe.cells) :
         LET h == HoneypotDnsName(probe.cells, at)
             r == ReadDnsName(probe.cells, at)
         IN  h.st = "over" /\ Len(h.labels) <= MaxLabels => r.labels = h.labels /\ r.resume = h.resume
    /\ LET mine   == HoneypotAnswers(probe.cells, MaxRecords)
           theirs == ParseDnsMessage(probe.cells, MaxRecords, 0).questions
       IN  (\A i \in 1..Len(mine) : Len(mine[i].name) <= MaxLabels) =>
             \A i \in 1..Len(mine) : i <= Len(theirs) /\ mine[i] = theirs[i]

\* _is_tls_payload(): a segment of a flow whose records were seen is shown as
\* text only if the table was full, and emptied, since.
CiphertextHidden ==
  probe.kind = "flow" =>
    LET h == probe.history
    IN  \A i \in ShownAsText(h), j \in 1..Len(h) :
          j < i /\ h[j].head /\ h[j].flow = h[i].flow =>
            \E l \in j + 1..i - 1 : h[l].head /\ Cardinality(Known(h)[l - 1]) = FlowCap

\* parse_packet() and the application parsers: whatever the bytes, they end,
\* take every field from the header it belongs to, and two readers of one
\* protocol read the same.
DecodingIsSound == FieldsComeFromHeaders /\ ParsersEnd /\ ReadersAgree
=============================================================================
