---------------------------- MODULE FlowTracker ----------------------------
(***************************************************************************)
(* The conversation table of `ndap-flow` (crates/flow/src/lib.rs,          *)
(* FiveTuple, five_tuple_of and ConversationTracker::record).              *)
(*                                                                         *)
(* An address and a port are numbers: the code only compares them.  A      *)
(* payload is its length, and a stream is the sequence of the endpoints    *)
(* whose payloads were pushed to it; what push does with them is TcpStream.*)
(***************************************************************************)
EXTENDS Integers, Sequences, FiniteSets, FiniteSetsExt

CONSTANTS
  IPs,         \* addresses (IpAddr is totally ordered)
  Ports,       \* u16 ports, ICMP echo identifiers and sequence numbers
  Protocols,   \* protocol bytes of IP headers
  MaxLen,      \* longest payload
  Packets,     \* the decoded packets the capture may deliver
  Times,       \* capture timestamps, (ts_sec, ts_usec) as one number
  MaxPackets   \* bound: packets recorded

TCP == 6
UDP == 17

Endpoint == [ip : IPs, port : Ports]

\* What the decoder hands over: tcp and udp headers have ports, an ICMP
\* header has the echo identifier (src.port) and sequence (dst.port).
DecodedPacket ==
  [l3 : {"ip", "other"}, proto : Protocols, l4 : {"tcp", "udp", "icmp", "other"},
   src : Endpoint, dst : Endpoint, len : 0 .. MaxLen]

ASSUME NumbersAssumption  == IPs \subseteq Nat /\ Ports \subseteq Nat /\ 0 \in Ports
ASSUME ProtocolAssumption == {TCP, UDP} \subseteq Protocols
ASSUME PacketsAssumption  == Packets \subseteq DecodedPacket
ASSUME BoundsAssumption   == MaxLen \in Nat /\ MaxPackets \in Nat /\ Times \subseteq Nat

VARIABLES
  conversations,  \* ConversationTracker.conversations
  tcp_streams,    \* ConversationTracker.tcp_streams
  log             \* the packets passed to record, with their timestamps (history)

vars == <<conversations, tcp_streams, log>>

FiveTuple == [src : Endpoint, dst : Endpoint, protocol : Protocols]

Reverse(t) == [src |-> t.dst, dst |-> t.src, protocol |-> t.protocol]

\* (a_ip, a_port) <= (b_ip, b_port): Rust's order on pairs.
AtMost(a, b) == a.ip < b.ip \/ (a.ip = b.ip /\ a.port <= b.port)

\* Mutant of Canonical: the components are compared one by one.
Canonical_Componentwise(t) ==
  IF t.src.ip <= t.dst.ip /\ t.src.port <= t.dst.port THEN t ELSE Reverse(t)

Canonical(t) == IF AtMost(t.src, t.dst) THEN t ELSE Reverse(t)

\* Mutant of HasTuple: a packet without a transport header has none.
HasTuple_WithTransport(p) == p.l3 = "ip" /\ p.l4 # "other"

HasTuple(p) == p.l3 = "ip"

TupleOf(p) ==
  CASE p.l4 = "tcp"  -> [src |-> p.src, dst |-> p.dst, protocol |-> TCP]
    [] p.l4 = "udp"  -> [src |-> p.src, dst |-> p.dst, protocol |-> UDP]
    [] p.l4 = "icmp" -> [src |-> p.src, dst |-> p.dst, protocol |-> p.proto]
    [] OTHER         -> [src |-> [ip |-> p.src.ip, port |-> 0],
                         dst |-> [ip |-> p.dst.ip, port |-> 0],
                         protocol |-> p.proto]

\* Mutant of Forward: only the ports are compared.
Forward_PortOnly(t, key) == t.src.port = key.src.port

Forward(t, key) == t.src.port = key.src.port /\ t.src.ip = key.src.ip

Default == [packets |-> 0, bytes |-> 0, first_seen |-> {}, last_seen |-> {}]

\* Mutant of Counted: bytes holds the last packet's length.
Counted_LastBytes(stats, p, ts) ==
  [packets    |-> stats.packets + 1,
   bytes      |-> p.len,
   first_seen |-> IF stats.first_seen = {} THEN {ts} ELSE stats.first_seen,
   last_seen  |-> {ts}]

\* A conversation's counters after one more packet; an Option is a set of at
\* most one value.
Counted(stats, p, ts) ==
  [packets    |-> stats.packets + 1,
   bytes      |-> stats.bytes + p.len,
   first_seen |-> IF stats.first_seen = {} THEN {ts} ELSE stats.first_seen,
   last_seen  |-> {ts}]

\* The entry of `key` in a map, or the default a new entry gets.
EntryOr(map, key, default) == IF key \in DOMAIN map THEN map[key] ELSE default

Put(map, key, value) ==
  [k \in DOMAIN map \cup {key} |-> IF k = key THEN value ELSE map[k]]

Pushed(streams, forward, sender) ==
  IF forward THEN [streams EXCEPT !.ab = Append(@, sender)]
             ELSE [streams EXCEPT !.ba = Append(@, sender)]

Init ==
  /\ conversations = [k \in {} |-> Default]
  /\ tcp_streams = [k \in {} |-> [ab |-> <<>>, ba |-> <<>>]]
  /\ log = <<>>

Arrives(p, ts) ==
  /\ Len(log) < MaxPackets
  /\ log' = Append(log, [pkt |-> p, ts |-> ts])

\* record(pkt) of a packet without a five-tuple: nothing changes.
RecordNothing(p, ts) ==
  /\ Arrives(p, ts)
  /\ ~ HasTuple(p)
  /\ UNCHANGED <<conversations, tcp_streams>>

\* record(pkt): the counters, and for TCP the stream of the sender's direction.
Record(p, ts) ==
  LET t   == TupleOf(p)
      key == Canonical(t)
  IN  /\ Arrives(p, ts)
      /\ HasTuple(p)
      /\ conversations' =
           Put(conversations, key, Counted(EntryOr(conversations, key, Default), p, ts))
      /\ tcp_streams' =
           IF p.l4 = "tcp"
             THEN Put(tcp_streams, key,
                      Pushed(EntryOr(tcp_streams, key, [ab |-> <<>>, ba |-> <<>>]),
                             Forward(t, key), t.src))
             ELSE tcp_streams

Next == \E p \in Packets, ts \in Times : RecordNothing(p, ts) \/ Record(p, ts)

Spec == Init /\ [][Next]_vars

-----------------------------------------------------------------------------
(***************************************************************************)
(* Properties                                                              *)
(***************************************************************************)

\* The two directions of a conversation never sit in two buckets
\* (FiveTuple::canonical: "both directions of a conversation map to the same
\* bucket").
OneBucketPerConversation ==
  \A k \in DOMAIN conversations :
    Reverse(k) \in DOMAIN conversations => Reverse(k) = k

\* A direction's stream only ever gets payloads of the endpoint that sends in
\* that direction, so reassembly never mixes the two sides (record's forward
\* test).
StreamPurity ==
  \A k \in DOMAIN tcp_streams :
    /\ \A i \in 1 .. Len(tcp_streams[k].ab) : tcp_streams[k].ab[i] = k.src
    /\ \A i \in 1 .. Len(tcp_streams[k].ba) : tcp_streams[k].ba[i] = k.dst

\* The entries of the log that belong to key k, whichever way they travel.
Entries(k) == {i \in 1 .. Len(log) :
                 HasTuple(log[i].pkt) /\ TupleOf(log[i].pkt) \in {k, Reverse(k)}}

\* A bucket's counters are those of all packets of both directions, in the
\* order they were recorded, which need not be that of their timestamps.
ConversationTotals ==
  \A k \in DOMAIN conversations :
    /\ conversations[k].packets = Cardinality(Entries(k))
    /\ conversations[k].bytes = SumFunction([i \in Entries(k) |-> log[i].pkt.len])
    /\ conversations[k].first_seen = {log[Min(Entries(k))].ts}
    /\ conversations[k].last_seen = {log[Max(Entries(k))].ts}
=============================================================================
