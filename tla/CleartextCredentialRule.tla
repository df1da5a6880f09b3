----------------------- MODULE CleartextCredentialRule -----------------------
(***************************************************************************)
(* The cleartext credential rule of `ndap-detect`                          *)
(* (crates/detect/src/cleartext_cred.rs) with the HTTP parser it calls     *)
(* (crates/protocol/src/http.rs).                                          *)
(*                                                                         *)
(* A payload is the sequence of its lines: what a line is, its argument (a *)
(* URI or a header's value) and its end, "" for an unfinished last line.   *)
(* Text that matches a sensitive pattern is "secret".                      *)
(***************************************************************************)
EXTENDS Naturals, Sequences, FiniteSetsExt

CONSTANT MaxFed   \* bound: distinct packets with a payload fed

VARIABLES
  alerted_targets,  \* CleartextCredentialRule.alerted_targets
  alerts,           \* the alerts returned, in order: host, uri and kind
  fed               \* the packets fed (history)

vars == <<alerted_targets, alerts, fed>>

Kinds == <<"basic", "uri_param", "body">>

Line   == [is : STRING, arg : STRING, eol : {"", "crlf", "lf"}]
Packet == [web_port : BOOLEAN, payload : Seq(Line)]

NoUri == "none"

\* A blank line: the end of line i and the empty line i + 1.
Blank(payload, i, end) == payload[i + 1].is = "empty" /\ payload[i + 1].eol = end

\* find_subslice: the last header line, by the first \r\n\r\n, or else by the
\* first \n\n, or else the payload's last line.
HeaderEnd(payload) ==
  LET crlf == {i \in 1 .. Len(payload) - 1 : payload[i].eol = "crlf" /\ Blank(payload, i, "crlf")}
      lf   == {i \in 1 .. Len(payload) - 1 : payload[i].eol # "" /\ Blank(payload, i, "lf")}
  IN  CASE crlf # {} -> Min(crlf)
        [] crlf = {} /\ lf # {} -> Min(lf)
        [] OTHER -> Len(payload)

Headers(payload) == SubSeq(payload, 2, HeaderEnd(payload))

Body(payload) == SubSeq(payload, HeaderEnd(payload) + 2, Len(payload))

\* is_http_payload: a known method and a space, or a response's version.
Sniff(payload) ==
  payload # <<>> /\ (payload[1].is = "response" \/ (payload[1].is = "request" /\ payload[1].arg # NoUri))

\* parse_http finds a request: its headers are text and start with a known
\* method and a URI.
IsRequest(payload) ==
  /\ payload # <<>>
  /\ \A i \in 1 .. HeaderEnd(payload) : payload[i].is # "binary"
  /\ payload[1].is = "request" /\ payload[1].arg # NoUri

\* get_header: the first header of the name.
Header(payload, name, default) ==
  LET named == {i \in 1 .. Len(Headers(payload)) : Headers(payload)[i].is = name}
  IN  IF named = {} THEN default ELSE Headers(payload)[Min(named)].arg

Uri(payload)  == payload[1].arg
Host(payload) == Header(payload, "host", "unknown-host")

\* What of a request is exposed.
Exposed(payload, kind) ==
  CASE kind = "basic"     -> Header(payload, "authorization", "") = "basic"
    [] kind = "uri_param" -> Uri(payload) = "secret"
    [] kind = "body"      -> \E i \in 1 .. Len(Body(payload)) : Body(payload)[i].is = "secret"

\* Mutant of Key: the kind is left out.
Key_WithoutKind(payload, kind) == <<Host(payload), Uri(payload)>>

Key(payload, kind) == <<Host(payload), Uri(payload), kind>>

Init ==
  /\ alerted_targets = {}
  /\ alerts = <<>>
  /\ fed = {}

\* One of the rule's three tests on a request; `found` is what the rule has
\* recorded and alerted.
Inspect(payload, found, kind) ==
  IF Exposed(payload, kind) /\ Key(payload, kind) \notin found.targets
    THEN [targets |-> found.targets \cup {Key(payload, kind)},
          alerts  |-> Append(found.alerts, [host |-> Host(payload), uri |-> Uri(payload), kind |-> kind])]
    ELSE found

\* Basic authorization, then the URI, then the body.
InspectAll(payload, found) ==
  Inspect(payload, Inspect(payload, Inspect(payload, found, Kinds[1]), Kinds[2]), Kinds[3])

\* on_packet.
FeedPayload(packet) ==
  LET recorded == [targets |-> alerted_targets, alerts |-> alerts]
      found == IF (packet.web_port \/ Sniff(packet.payload)) /\ IsRequest(packet.payload)
                 THEN InspectAll(packet.payload, recorded)
                 ELSE recorded
  IN  /\ Cardinality(fed \cup {packet}) <= MaxFed
      /\ fed' = fed \cup {packet}
      /\ alerted_targets' = found.targets
      /\ alerts' = found.alerts

-----------------------------------------------------------------------------
(***************************************************************************)
(* Properties                                                              *)
(***************************************************************************)

\* One request as a client writes it: lines of one kind of end, text up to the
\* first empty line, no header twice.
FirstEmpty(payload) == Min({i \in 2 .. Len(payload) + 1 : i > Len(payload) \/ payload[i].is = "empty"})

WellFormed(payload) ==
  /\ Len(payload) > 1 /\ payload[1].is = "request" /\ payload[1].arg # NoUri
  /\ \E end \in {"crlf", "lf"} : \A i \in 1 .. Len(payload) - 1 : payload[i].eol = end
  /\ \A i \in 2 .. FirstEmpty(payload) - 1 : payload[i].is # "binary"
  /\ \A i, j \in 2 .. FirstEmpty(payload) - 1 : payload[i].is = payload[j].is => i = j

\* What such a request gives away, and to whom, read off its lines.
HeadersRead(payload, name) ==
  {payload[i].arg : i \in {n \in 2 .. FirstEmpty(payload) - 1 : payload[n].is = name}}

Discloses(payload, kind) ==
  CASE kind = "basic"     -> "basic" \in HeadersRead(payload, "authorization")
    [] kind = "uri_param" -> payload[1].arg = "secret"
    [] kind = "body"      -> \E i \in FirstEmpty(payload) .. Len(payload) : payload[i].is = "secret"

Concerns(payload, alert) ==
  /\ payload[1].arg = alert.uri
  /\ HeadersRead(payload, "host") \in {{alert.host}, {}}
  /\ HeadersRead(payload, "host") = {} => alert.host = "unknown-host"

\* Every well-formed request that gives something away is alerted for its host
\* and URI, and every alert is for something in a packet to that URI: neither
\* the end of lines, nor a body that looks like headers, nor bytes that are not
\* text in the body, nor an earlier alert of another kind makes a difference.
CredentialsReported ==
  /\ \A packet \in fed, n \in 1 .. 3 :
       WellFormed(packet.payload) /\ Discloses(packet.payload, Kinds[n]) =>
         \E i \in 1 .. Len(alerts) :
           Concerns(packet.payload, alerts[i]) /\ alerts[i].kind = Kinds[n]
  /\ \A i \in 1 .. Len(alerts) :
       \E packet \in fed :
         /\ packet.payload[1].arg = alerts[i].uri
         /\ WellFormed(packet.payload) =>
              Concerns(packet.payload, alerts[i]) /\ Discloses(packet.payload, alerts[i].kind)

\* A kind of exposure is alerted once per host and URI.
AlertedOnce == \A i, j \in 1 .. Len(alerts) : alerts[i] = alerts[j] => i = j
=============================================================================
