---------------------------- MODULE DnsTunnelRule ----------------------------
(***************************************************************************)
(* The DNS tunnelling rule of `ndap-detect`                                *)
(* (crates/detect/src/dns_tunnel.rs): which bytes of a packet it parses as *)
(* DNS, over UDP, over TCP with its length prefix, or anywhere if they look*)
(* like DNS, and which query names it alerts, once each.                   *)
(*                                                                         *)
(* A name is the sequence of its labels, each with its length and whether  *)
(* it is random; a subdomain's entropy is high if it holds a random label. *)
(***************************************************************************)
EXTENDS Naturals, Sequences, FiniteSets

LOCAL INSTANCE SequencesExt

CONSTANTS LengthThreshold   \* DnsTunnelRule.length_threshold

MinName      == 12   \* shorter names are skipped
MinSubdomain == 20   \* shorter subdomains' entropy is not looked at
HeaderLen    == 12   \* bytes of a DNS header

VARIABLES
  seen_queries,  \* DnsTunnelRule.seen_queries
  alerts,        \* the names alerted, in order
  fed            \* the packets fed that may hold DNS (history)

vars == <<seen_queries, alerts, fed>>

\* Length of labels joined by dots.
TextLen(labels) == FoldLeft(LAMBDA n, label : n + label.len, Len(labels) - 1, labels)

\* What comes before the last two labels, or the whole name without it.
Subdomain(name) == IF Len(name) > 2 THEN SubSeq(name, 1, Len(name) - 2) ELSE name

IsLong(name) == TextLen(name) >= LengthThreshold

IsHighEntropy(name) ==
  /\ TextLen(Subdomain(name)) >= MinSubdomain
  /\ \E i \in 1 .. Len(Subdomain(name)) : Subdomain(name)[i].random

Suspicious(name) == TextLen(name) >= MinName /\ (IsLong(name) \/ IsHighEntropy(name))

\* A packet: its transport, whether one of its ports is 53, and its payload:
\* `prefix` is the length a TCP frame declares before the message (NoPrefix:
\* none), `got` how many of the message's `msg.len` bytes are there; behind its
\* `questions` the message holds `records` resource records.  `misread` is what
\* a parse makes of bytes that are not the message its counts describe: the
\* names it takes for questions, none if it fails.
NoPrefix == 0

Label  == [len : Nat, random : BOOLEAN]
Name   == Seq(Label)
Packet == [l4 : {"tcp", "udp"}, port53 : BOOLEAN, prefix : Nat, got : Nat,
           msg : [flags : Nat, qd : Nat, an : Nat, ns : Nat, ar : Nat, len : Nat,
                  questions : Seq(Name), records : Nat],
           misread : Seq(Name)]

PayloadLen(packet) == packet.got + IF packet.prefix = NoPrefix THEN 0 ELSE 2

\* sniff: the counts must be in bounds; their sum is one of u16s and wraps.  Of
\* a frame with a prefix it reads the flags as the first count.
Sniff(packet) ==
  LET msg   == packet.msg
      words == IF packet.prefix = NoPrefix
                 THEN <<msg.qd, msg.an, msg.ns, msg.ar>>
                 ELSE <<msg.flags, msg.qd, msg.an, msg.ns>>
  IN  /\ PayloadLen(packet) >= HeaderLen
      /\ words[1] \in 1 .. 20
      /\ (words[2] + words[3] + words[4]) % 65536 < 100

\* Mutant of Slice: the length prefix stays.
Slice_WithPrefix(packet) ==
  CASE packet.l4 = "tcp" /\ packet.port53 /\ PayloadLen(packet) >= 2 -> [skip |-> 0, len |-> PayloadLen(packet)]
    [] packet.l4 = "udp" /\ packet.port53 -> [skip |-> 0, len |-> PayloadLen(packet)]
    [] OTHER -> [skip |-> 0, len |-> IF Sniff(packet) THEN PayloadLen(packet) ELSE 0]

\* The part of the payload that is parsed: how many bytes are skipped, and how
\* many are left.  A payload of nothing to parse has length 0.
Slice(packet) ==
  LET n == PayloadLen(packet)
  IN  CASE packet.l4 = "tcp" /\ packet.port53 /\ n >= 2 ->
             [skip |-> 2,
              len  |-> IF packet.prefix >= HeaderLen /\ n >= 2 + packet.prefix
                         THEN packet.prefix ELSE n - 2]
        [] packet.l4 = "udp" /\ packet.port53 -> [skip |-> 0, len |-> n]
        [] OTHER -> [skip |-> 0, len |-> IF Sniff(packet) THEN n ELSE 0]

\* The slice begins where the message does and holds all of it, and what the
\* header counts is there: some of the questions and no records, or all of them
\* and some of the records.  What follows is not looked at.
Counted(packet) ==
  LET slice == Slice(packet)
      msg   == packet.msg
  IN  /\ (slice.skip = 2) = (packet.prefix # NoPrefix)
      /\ slice.len >= msg.len
      /\ msg.qd <= Len(msg.questions)
      /\ msg.an + msg.ns + msg.ar <= IF msg.qd = Len(msg.questions) THEN msg.records ELSE 0

\* parse_dns: the questions of the message as its header counts them, or what a
\* parse finds that is out of step by the prefix, of a message cut or with counts
\* that exceed it, or of bytes that are no DNS at all.
Questions(packet) ==
  IF Slice(packet).len < HeaderLen THEN <<>>
  ELSE IF Counted(packet) THEN SubSeq(packet.msg.questions, 1, packet.msg.qd)
  ELSE packet.misread

Init ==
  /\ seen_queries = {}
  /\ alerts = <<>>
  /\ fed = {}

\* Mutant of Insert: names seen before are alerted again.
Insert_Always(found, name) ==
  IF Suspicious(name)
    THEN [seen |-> found.seen \cup {name}, alerts |-> Append(found.alerts, name)]
    ELSE found

\* One question of the loop; `found` is what the rule has seen and alerted.
Insert(found, name) ==
  IF Suspicious(name) /\ name \notin found.seen
    THEN [seen |-> found.seen \cup {name}, alerts |-> Append(found.alerts, name)]
    ELSE found

\* The loop over the questions.
InsertAll(found, names) ==
  LET after[n \in 0 .. Len(names)] == IF n = 0 THEN found ELSE Insert(after[n - 1], names[n])
  IN  after[Len(names)]

\* on_packet of a TCP or UDP packet.
FeedDns(packet) ==
  LET found == InsertAll([seen |-> seen_queries, alerts |-> alerts], Questions(packet))
  IN  /\ fed' = fed \cup {packet}
      /\ seen_queries' = found.seen
      /\ alerts' = found.alerts

-----------------------------------------------------------------------------
(***************************************************************************)
(* Properties                                                              *)
(***************************************************************************)

\* The payload is one whole message whose counts are what it holds, framed if
\* it came over TCP.
Complete(packet) ==
  /\ packet.msg.len >= HeaderLen
  /\ packet.got = packet.msg.len
  /\ packet.prefix = IF packet.l4 = "tcp" THEN packet.msg.len ELSE NoPrefix
  /\ packet.msg.qd = Len(packet.msg.questions)
  /\ packet.msg.an + packet.msg.ns + packet.msg.ar = packet.msg.records

\* The names the header of a packet's message counts as asked for.
Asked(packet) ==
  {packet.msg.questions[i] : i \in {j \in 1 .. Len(packet.msg.questions) : j <= packet.msg.qd}}

\* The names a parse out of step finds in a packet.
Misread(packet) == {packet.misread[i] : i \in 1 .. Len(packet.misread)}

\* A long or random name is alerted in every question of every complete message
\* to or from port 53, over UDP or in one TCP segment.  What is alerted is long
\* or random and was asked for in some message's counted questions, or was read
\* out of step in a payload that is not a complete message, or is a framed one
\* to another port: no complete message to or from port 53, and none over UDP, is
\* the cause of an alert that names what no message asks for.
TunnelsReported ==
  /\ \A packet \in fed : Complete(packet) /\ packet.port53 =>
       \A name \in Asked(packet) :
         Suspicious(name) => \E i \in 1 .. Len(alerts) : alerts[i] = name
  /\ \A i \in 1 .. Len(alerts) :
       /\ Suspicious(alerts[i])
       /\ \E packet \in fed :
            \/ alerts[i] \in Asked(packet)
            \/ /\ ~ (Complete(packet) /\ (packet.port53 \/ packet.l4 = "udp"))
               /\ alerts[i] \in Misread(packet)

\* A name is alerted once, over whatever transport it is asked for again.
AlertedOnce == \A i, j \in 1 .. Len(alerts) : alerts[i] = alerts[j] => i = j
=============================================================================
