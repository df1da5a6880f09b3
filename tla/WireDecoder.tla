----------------------------- MODULE WireDecoder -----------------------------
(***************************************************************************)
(* The wire decoder (crates/protocol/src/lib.rs, decode_packet, and        *)
(* icmp.rs, decode_icmp): which headers of a captured frame are accepted,  *)
(* and which bytes are its payload.                                        *)
(*                                                                         *)
(* A frame is the number of bytes captured, `n`, and the values its header *)
(* fields have, or would have in the bytes that were cut off; a slice is   *)
(* its first byte and the byte after its last, from the frame's start.     *)
(***************************************************************************)
EXTENDS Naturals

EthernetLen == 14
ArpLen      == 28
Ipv6Len     == 40

\* The lengths are in bytes: ihl and data offset are nibbles of words.
Frame == [n : Nat, ethertype : {"ipv4", "ipv6", "arp", "other"}, ihl : Nat,
          total : Nat, proto : Nat, off : Nat]

\* What decode_packet finds: L3, L4 and the payload's slice.
Decoded(l3, l4, from, to) == [l3 |-> l3, l4 |-> l4, from |-> from, to |-> to]

NoHeader(l3) == Decoded(l3, "none", 0, 0)

\* Mutant of Refused: what follows a header that is refused is payload.
Refused_AsPayload(l3, from, to) == Decoded(l3, "none", from, to)

\* A transport header that is refused leaves neither L4 nor payload.
Refused(l3, from, to) == NoHeader(l3)

\* decode_icmp, decode_tcp and decode_udp on the `left` bytes after the IP
\* header.
IcmpAccepts(left)   == left >= 8
TcpAccepts(f, left) == left >= 20 /\ f.off >= 20 /\ left >= f.off
UdpAccepts(left)    == left >= 8

\* decode_l4 on the slice after the IP header.
Transport(f, l3, from, to) ==
  CASE f.proto \in {1, 58} /\ IcmpAccepts(to - from) -> Decoded(l3, "icmp", from + 8, to)
    [] f.proto = 6 /\ TcpAccepts(f, to - from) -> Decoded(l3, "tcp", from + f.off, to)
    [] f.proto = 17 /\ UdpAccepts(to - from) -> Decoded(l3, "udp", from + 8, to)
    [] f.proto \notin {1, 58, 6, 17} -> Decoded(l3, "other", from, to)
    [] OTHER -> Refused(l3, from, to)

\* decode_ethernet on the whole frame, decode_ipv4, decode_ipv6 and the ARP
\* header on the `left` bytes after the Ethernet header.
EthernetAccepts(f)   == f.n >= EthernetLen
Ipv4Accepts(f, left) == left >= 20 /\ f.ihl >= 20 /\ left >= f.ihl /\ f.total >= f.ihl
Ipv6Accepts(left)    == left >= Ipv6Len
ArpAccepts(left)     == left >= ArpLen

\* Mutant of Ipv4End: the total length is believed.
Ipv4End_AsTold(f) == EthernetLen + f.total

\* payload_end: without the padding, and within the frame.
Ipv4End(f) == EthernetLen + IF f.total < f.n - EthernetLen THEN f.total ELSE f.n - EthernetLen

\* decode_packet.
Decode(f) ==
  LET left == f.n - EthernetLen
  IN  CASE ~ EthernetAccepts(f) -> Decoded("none", "none", 0, f.n)
        [] EthernetAccepts(f) /\ f.ethertype = "ipv4" ->
             IF Ipv4Accepts(f, left)
               THEN Transport(f, "ipv4", EthernetLen + f.ihl, Ipv4End(f))
               ELSE NoHeader("none")
        [] EthernetAccepts(f) /\ f.ethertype = "ipv6" ->
             IF Ipv6Accepts(left)
               THEN Transport(f, "ipv6", EthernetLen + Ipv6Len, f.n)
               ELSE NoHeader("none")
        [] EthernetAccepts(f) /\ f.ethertype = "arp" ->
             NoHeader(IF ArpAccepts(left) THEN "arp" ELSE "none")
        [] OTHER -> Decoded("other", "none", EthernetLen, f.n)

-----------------------------------------------------------------------------
(***************************************************************************)
(* Properties of a frame                                                   *)
(***************************************************************************)

\* Every slice the decoder takes is one: it begins before it ends and ends
\* within the frame, whatever the length fields say, and the payload of an
\* IPv4 datagram holds neither its headers nor the padding behind it.
SliceInRange(f) ==
  LET d == Decode(f)
  IN  /\ 0 <= d.from /\ d.from <= d.to /\ d.to <= f.n
      /\ d.l3 = "ipv4" => d.to <= EthernetLen + f.total
      /\ d.l3 = "ipv4" /\ d.from # d.to => EthernetLen + f.ihl <= d.from

Cut(f, m) == [f EXCEPT !.n = m]

\* A shorter capture of a frame only loses: whatever is still decoded of it is
\* what the whole frame says, and its payload is a beginning of the whole
\* frame's.  (Cut within the Ethernet header, the rest is taken for payload.)
CutOnlyLoses(f, m) ==
  EthernetLen <= m /\ m <= f.n =>
    LET d == Decode(Cut(f, m))
        e == Decode(f)
    IN  /\ d.l3 \in {"none", e.l3} /\ d.l4 \in {"none", e.l4}
        /\ d.from # d.to => d.from = e.from /\ d.to <= e.to
=============================================================================
