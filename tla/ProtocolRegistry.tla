-------------------------- MODULE ProtocolRegistry --------------------------
(***************************************************************************)
(* The registry of dissectors (crates/protocol/src/dissector.rs,           *)
(* ProtocolRegistry with its built-in dissectors): which application       *)
(* protocol a packet is counted under.                                     *)
(*                                                                         *)
(* A payload is described by what it is the beginning of: a DNS message, an*)
(* HTTP message, or "none", and by that message's length.                  *)
(***************************************************************************)
EXTENDS Naturals

\* with_builtin_dissectors
Registered(l4, port) ==
  CASE l4 = "udp" /\ port = 53 -> "dns"
    [] l4 = "tcp" /\ port = 53 -> "dns"
    [] l4 = "tcp" /\ port \in {80, 8080, 8000, 8008, 3128, 8888} -> "http"
    [] OTHER -> "none"

\* DnsDissector::sniff and is_http_payload
DnsLike(app, len)  == app.is = "dns" /\ len >= 12
HttpLike(app, len) == app.is = "http" /\ len >= 10

\* Dissector::dissect finds fields: DNS is parsed whole or not at all, HTTP as
\* far as it goes.
DnsParses(app, len)  == app.is = "dns" /\ len >= app.len
HttpParses(app, len) == app.is = "http" /\ len >= 10

\* try_dissect_udp and try_dissect_tcp: no fields, no result.
Parses(name, app, len) ==
  \/ name = "dns" /\ DnsParses(app, len)
  \/ name = "http" /\ HttpParses(app, len)

\* The heuristic fallback: DNS over UDP, HTTP over TCP.
Sniffed(l4, app, len) ==
  CASE l4 = "udp" /\ DnsLike(app, len)  -> "dns"
    [] l4 = "tcp" /\ HttpLike(app, len) -> "http"
    [] OTHER -> "none"

\* dissect_packet: the dissectors of the destination port, of the source port,
\* and the sniffed one; ICMP needs none.
Dissected(l4, src_port, dst_port, app, len) ==
  LET tried == {Registered(l4, dst_port), Registered(l4, src_port), Sniffed(l4, app, len)}
  IN  CASE l4 = "icmp" -> "icmp"
        [] l4 \in {"udp", "tcp"} /\ (\E name \in tried : Parses(name, app, len)) -> app.is
        [] OTHER -> "none"
=============================================================================
