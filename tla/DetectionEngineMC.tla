-------------------------- MODULE DetectionEngineMC --------------------------
(***************************************************************************)
(* DetectionEngine for TLC: captures that each trouble some of the rules.  *)
(***************************************************************************)
EXTENDS DetectionEngine, TLC

LOCAL INSTANCE SequencesExt

CONSTANTS h1, h2, p1, p2, p3

MCHosts == {h1, h2}
MCPorts == {p1, p2, p3}

\* h1 sends to every port of h2, h2 answers with SYNs of its own to one port.
Syns ==
  [kind : {"syn"}, src : {h1}, dst : {h2}, port : MCPorts]
    \cup {[kind |-> "syn", src |-> h2, dst |-> h1, port |-> p1]}

Checkins == {[kind |-> "data", src |-> h1, dst |-> h2, port |-> p1]}

Claims == [kind : {"arp"}, ip : IPs, mac : Macs]

\* Names: long, random, neither, and one that only a parse out of step finds.
Long   == <<[len |-> 55, random |-> FALSE], [len |-> 3, random |-> FALSE]>>
Random == <<[len |-> 24, random |-> TRUE], [len |-> 7, random |-> FALSE], [len |-> 3, random |-> FALSE]>>
Plain  == <<[len |-> 7, random |-> FALSE], [len |-> 3, random |-> FALSE]>>
Odd    == <<[len |-> 60, random |-> TRUE]>>

\* Bytes of a message: a question's type and class follow its name, and a record
\* here takes 80.
Size(questions, records) ==
  FoldLeft(LAMBDA n, name : n + Tunnel!TextLen(name) + 6,
                  Tunnel!HeaderLen + 80 * records, questions)

\* A message whose header counts `qd` questions and `an` answers.
Message(qd, an, questions, records) ==
  [flags |-> 256, qd |-> qd, an |-> an, ns |-> 0, ar |-> 0,
   len |-> Size(questions, records), questions |-> questions, records |-> records]

Query(qd, questions) == Message(qd, 0, questions, 0)

\* A packet of `got` bytes, and what is misread in it.
Segment(l4, port53, prefix, got, msg, misread) ==
  [kind |-> "dns", src |-> h1, dst |-> h2, port |-> p1,
   dns |-> [l4 |-> l4, port53 |-> port53, prefix |-> prefix, got |-> got, msg |-> msg,
            misread |-> misread]]

\* A datagram that holds the message, and a TCP segment that holds it framed.
Datagram(port53, msg, misread) == Segment("udp", port53, 0, msg.len, msg, misread)

Framed(port53, msg, misread) == Segment("tcp", port53, msg.len, msg.len, msg, misread)

\* A padded query without recursion: with the prefix it reads like a message of
\* 16 questions, of which one is a label within the name, and the rest padding.
Padded == [Message(3, 0, <<Plain, Long, Random>>, 1) EXCEPT !.flags = 16, !.ar = 1]

\* Bytes that are no message; where its counts would be they say one question.
NoDns == Query(1, <<>>)

Queries ==
  {Datagram(TRUE, Message(1, 120, <<Long>>, 120), <<>>),
   Datagram(FALSE, Query(1, <<Random>>), <<>>),
   Datagram(TRUE, Query(1, <<Random, Long>>), <<>>),
   Datagram(TRUE, Message(2, 0, <<Random>>, 1), <<Random, Odd>>),
   Segment("udp", TRUE, 0, 40, Query(1, <<Random>>), <<>>),
   Datagram(FALSE, [Query(1, <<Long>>) EXCEPT !.an = 65535, !.ns = 1], <<>>),
   Segment("udp", FALSE, 0, 160, NoDns, <<Odd>>),
   Framed(TRUE, Padded, <<Odd>>),
   Framed(FALSE, Padded, <<Odd>>),
   Segment("tcp", TRUE, 80, 30, Query(1, <<Long>>), <<>>),
   Segment("tcp", TRUE, 0, 160, NoDns, <<Plain, Odd>>),
   Framed(FALSE, Query(1, <<Long>>), <<>>)}

Line(is, arg, end) == [is |-> is, arg |-> arg, eol |-> end]

Http(web_port, payload) ==
  [kind |-> "http", src |-> h1, dst |-> h2, port |-> p1, http |-> [web_port |-> web_port, payload |-> payload]]

\* A request with its lines' end.
Request(uri, end, headers, body) ==
  <<Line("request", uri, end)>> \o headers \o <<Line("empty", "", end)>> \o body

Requests ==
  UNION {
    {Http(TRUE, Request("plain", end, <<Line("host", "a", end)>>, <<Line("secret", "", "")>>)),
     Http(FALSE, Request("plain", end, <<Line("host", "a", end), Line("authorization", "basic", end)>>, <<>>)),
     Http(TRUE, Request("secret", end, <<Line("authorization", "basic", end)>>,
                        <<Line("binary", "", end), Line("empty", "", end), Line("secret", "", "")>>)),
     Http(TRUE, Request("plain", end, <<Line("host", "b", end)>>, <<Line("authorization", "basic", "")>>))}
    : end \in {"crlf", "lf"}}
  \cup
  {Http(TRUE, <<Line("response", "", "crlf"), Line("empty", "", "crlf"), Line("secret", "", "")>>),
   Http(TRUE, <<Line("secret", "", "")>>),
   Http(TRUE, <<Line("request", "none", "crlf"), Line("authorization", "basic", "")>>),
   Http(TRUE, <<Line("request", "plain", "crlf"), Line("host", "a", "crlf"), Line("empty", "", "lf"),
                Line("secret", "", "crlf"), Line("empty", "", "crlf")>>)}

\* A packet or two for every rule at once.
Office ==
  {[kind |-> "syn", src |-> h1, dst |-> h2, port |-> p1], [kind |-> "other"],
   Datagram(TRUE, Query(1, <<Long>>), <<>>),
   Http(TRUE, Request("secret", "crlf", <<Line("authorization", "basic", "crlf")>>, <<>>))}
  \cup {[kind |-> "arp", ip |-> ip, mac |-> mac] : ip \in {CHOOSE x \in IPs : TRUE}, mac \in Macs}

MCTraffic ==
  [syns     |-> [packets |-> Syns, times |-> 0 .. 4],
   checkins |-> [packets |-> Checkins, times |-> 0 .. 10],
   claims   |-> [packets |-> Claims, times |-> {0}],
   queries  |-> [packets |-> Queries, times |-> {0}],
   requests |-> [packets |-> Requests, times |-> {0}],
   office   |-> [packets |-> Office, times |-> {0}]]

\* Ports are only compared for equality, and p1 alone has a role of its own.
MCSymmetry == Permutations({p2, p3})
=============================================================================
