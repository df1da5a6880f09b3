--------------------------- MODULE FileAnalysisMC ---------------------------
(***************************************************************************)
(* FileAnalysis for TLC: captures of a few frames between two hosts, with  *)
(* the headers, lengths and ports that matter.                             *)
(***************************************************************************)
EXTENDS FileAnalysis

MCIPs == {1, 2}
MCPorts == {0, 53, 80, 9000}
MCProtocols == {1, TCP, UDP, 47}

At(ip, port) == [ip |-> ip, port |-> port]

Plain == [is |-> "none", len |-> 0]

\* A frame of n bytes with a 20 byte IP header, whose datagram fills it.
Wire(n, ethertype, proto) ==
  [n |-> n, ethertype |-> ethertype, ihl |-> 20, total |-> n - EthernetLen, proto |-> proto, off |-> 20]

Sending(wire, src, dst) == [wire |-> wire, src |-> src, dst |-> dst, app |-> Plain]

Ip(n, proto, src, dst) == Sending(Wire(n, "ipv4", proto), src, dst)

BothWays(n, proto, a, b) == {Ip(n, proto, a, b), Ip(n, proto, b, a)}

\* TCP with equal, crossed and local ports in both directions, UDP beside it, a
\* protocol without ports.
Conversing ==
  UNION { BothWays(55, TCP, At(1, 80), At(2, 80)),
          BothWays(56, TCP, At(1, 9000), At(2, 80)),
          BothWays(55, TCP, At(1, 80), At(1, 9000)),
          {Ip(43, UDP, At(1, 9000), At(2, 80)), Ip(36, 47, At(1, 53), At(2, 80))} }

\* An echo request over IPv6 and its reply over IPv4, an ARP request, frames
\* that are too short, of no known type, and as long as a record may be.
Layered ==
  { Sending(Wire(64, "ipv6", 1), At(1, 53), At(2, 80)),
    Ip(44, 1, At(2, 80), At(1, 53)),
    Sending(Wire(42, "arp", 1), At(1, 0), At(2, 0)),
    Sending([Wire(54, "ipv4", TCP) EXCEPT !.n = 10], At(1, 0), At(2, 0)),
    Sending(Wire(65535, "other", TCP), At(1, 0), At(2, 0)) }

\* Padding, options longer than what was captured, a total length shorter than
\* the header, a data offset beyond the segment.
Malformed ==
  { [Ip(60, TCP, At(1, 9000), At(2, 80)) EXCEPT !.wire.total = 41],
    [Ip(40, TCP, At(1, 9000), At(2, 80)) EXCEPT !.wire.ihl = 32],
    [Ip(60, 47, At(1, 9000), At(2, 80)) EXCEPT !.wire.total = 16],
    [Ip(60, TCP, At(1, 9000), At(2, 80)) EXCEPT !.wire.off = 32] }

\* A DNS query, whole and cut, on its port and another, and a web request.
Talking ==
  { [Ip(62, UDP, At(1, 9000), At(2, 53)) EXCEPT !.app = [is |-> "dns", len |-> 20]],
    [Ip(62, UDP, At(2, 53), At(1, 9000)) EXCEPT !.wire.n = 56, !.app = [is |-> "dns", len |-> 20]],
    [Ip(70, TCP, At(1, 9000), At(2, 80)) EXCEPT !.app = [is |-> "http", len |-> 30]] }

MCFrames == Conversing \cup Layered \cup Malformed \cup Talking

MCCaptures == {Conversing, Layered \cup Malformed \cup Talking}

MCPackets == {ToTracker(f) : f \in MCFrames}

\* An end between records or within a timestamp, a cut header, a length beyond
\* the limit, cut data.
MCTails ==
  { [hdr |-> 0, claims |-> 0, got |-> 0], [hdr |-> 3, claims |-> 0, got |-> 0],
    [hdr |-> 4, claims |-> 0, got |-> 0], [hdr |-> 16, claims |-> 65536, got |-> 65536],
    [hdr |-> 16, claims |-> 60, got |-> 59] }

MCSnapLengths == {14, 33, 34, 41, 53, 54, 55, 58, 64}
=============================================================================
