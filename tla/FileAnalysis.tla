---------------------------- MODULE FileAnalysis ----------------------------
(***************************************************************************)
(* One pass over a capture: POST /api/analyze (api/src/main.rs, analyze)   *)
(* and the command line tool on a file or an interface (cli/src/main.rs,   *)
(* run_file, run_live and process).  All read records one by one           *)
(* (crates/capture/src/lib.rs), decode (WireDecoder), record (FlowTracker),*)
(* count protocols (ProtocolRegistry) and ask the rules.                   *)
(*                                                                         *)
(* A capture's records are chosen as they are read: a record is what is    *)
(* left of its 16 header bytes, the length it claims, and the data bytes   *)
(* that are there.  What the rules say is left open here.                  *)
(***************************************************************************)
EXTENDS FlowTracker, WireDecoder, ProtocolRegistry

CONSTANTS
  Frames,      \* frames a capture may hold: headers, endpoints, application
  Captures,    \* the sets of frames of a single capture
  Tails,       \* what a capture may end with instead of a whole record
  SnapLengths, \* shorter snapshot lengths to compare with
  MaxAlerts    \* bound: alerts of the rules in one capture

RecordHeader == 16
MaxSnaplen   == 65535

VARIABLES
  mode,        \* who reads: "api", "file" or "live"
  capture,     \* the frames that may come
  phase,       \* "closed", "reading", "answered", or "failed" to open and answered
  frames,      \* the frames read (history)
  protocols,   \* counters by protocol
  packets,     \* packets counted
  alerts,      \* alerts listed or counted
  feed,        \* the events sent to the live feed
  answer       \* the response or summary; exit code for the command line tool

tallies   == <<protocols, packets, alerts, feed>>
file_vars == <<vars, mode, capture, phase, frames, tallies, answer>>

FrameFields == [wire : Frame, src : Endpoint, dst : Endpoint,
                app : [is : {"dns", "http", "none"}, len : Nat]]

\* What decode_packet's result is to the tracker; ports count where a header
\* has them.
ToTracker(f) ==
  LET d == Decode(f.wire)
  IN  [l3    |-> IF d.l3 \in {"ipv4", "ipv6"} THEN "ip" ELSE "other",
       proto |-> f.wire.proto,
       l4    |-> IF d.l4 = "none" THEN "other" ELSE d.l4,
       src   |-> f.src,
       dst   |-> f.dst,
       len   |-> d.to - d.from]

ASSUME FramesAssumption == Frames \subseteq FrameFields /\ Captures \subseteq SUBSET Frames
ASSUME TrackerAssumption == \A f \in Frames : ToTracker(f) \in Packets

ASSUME SnapAssumption == SnapLengths \subseteq Nat /\ MaxAlerts \in Nat

\* The record of a frame in a capture that is not cut.
Whole(f) == [hdr |-> RecordHeader, claims |-> f.wire.n, got |-> f.wire.n]

\* PcapReader::next_packet: only an end of file within a record's first four
\* bytes is the end of the packets.
NextPacket(record) ==
  CASE record.hdr < 4 -> "end"
    [] record.hdr \in 4 .. RecordHeader - 1 -> "io"
    [] record.hdr = RecordHeader /\ record.claims > MaxSnaplen -> "truncated"
    [] record.hdr = RecordHeader /\ record.claims <= MaxSnaplen /\ record.got < record.claims -> "truncated"
    [] OTHER -> "packet"

ProtocolNames == {"arp", "ipv4", "ipv6", "tcp", "udp", "icmp", "dns", "http"}

\* The counters a packet goes under: its L3, its L4, and what the registry
\* makes of it, whose name is put into capitals: an ICMP packet's L4 and
\* dissection are one key.
Layers(f) ==
  LET d == Decode(f.wire)
  IN  <<d.l3, d.l4, Dissected(d.l4, f.src.port, f.dst.port, f.app, d.to - d.from)>>

Tallied(f) ==
  [name \in ProtocolNames |-> protocols[name] + Cardinality({i \in 1 .. 3 : Layers(f)[i] = name})]

NoAnswer == [packets |-> 0, conversations |-> 0, alerts |-> 0, exit |-> "none"]

FileInit ==
  /\ Init
  /\ mode \in {"api", "file", "live"}
  /\ capture \in Captures
  /\ phase = "closed"
  /\ frames = <<>>
  /\ protocols = [name \in ProtocolNames |-> 0]
  /\ packets = 0 /\ alerts = 0
  /\ feed = <<>>
  /\ answer = NoAnswer

\* PcapReader::open, or PcapLiveCapture::start, succeeds.
Open ==
  /\ phase = "closed"
  /\ phase' = "reading"
  /\ UNCHANGED <<vars, mode, capture, frames, tallies, answer>>

\* One turn of the loop on a packet: decode, record, tally, send the packet and
\* the alerts of the rules.
ReadPacket(f, ts, n) ==
  /\ phase = "reading"
  /\ NextPacket(Whole(f)) = "packet"
  /\ alerts + n <= MaxAlerts
  /\ RecordNothing(ToTracker(f), ts) \/ Record(ToTracker(f), ts)
  /\ frames' = Append(frames, f)
  /\ protocols' = Tallied(f)
  /\ packets' = packets + 1
  /\ alerts' = alerts + n
  /\ feed' = IF mode = "api" THEN feed \o <<"packet">> \o [i \in 1 .. n |-> "alert"] ELSE feed
  /\ UNCHANGED <<mode, capture, phase, answer>>

\* What is printed, or sent as the last event and returned.
Conclude(listed) ==
  /\ alerts' = listed
  /\ answer' = [packets |-> packets, conversations |-> Cardinality(DOMAIN conversations),
                alerts |-> listed, exit |-> IF mode = "api" THEN "none" ELSE "success"]
  /\ feed' = IF mode = "api" THEN Append(feed, "stats") ELSE feed

\* Mutant of OpenFails: the server's response lists no alert.
OpenFails_Unlisted ==
  /\ phase = "closed"
  /\ phase' = "failed"
  /\ Conclude(alerts)
  /\ UNCHANGED <<vars, mode, capture, frames, protocols, packets>>

\* There is no such file or interface, its header is short or its magic number
\* unknown: the server lists it as an alert of its own, the tool gives up.
OpenFails ==
  /\ phase = "closed"
  /\ phase' = "failed"
  /\ IF mode = "api"
       THEN Conclude(alerts + 1)
       ELSE answer' = [NoAnswer EXCEPT !.exit = "failure"] /\ UNCHANGED <<alerts, feed>>
  /\ UNCHANGED <<vars, mode, capture, frames, protocols, packets>>

\* The last turn, on an end or an error: all leave the loop, and the tool alone
\* prints which it was.
Leave ==
  /\ phase = "reading"
  /\ phase' = "answered"
  /\ Conclude(alerts)
  /\ UNCHANGED <<vars, mode, capture, frames, protocols, packets>>

ReadEnd(tail) == mode # "live" /\ NextPacket(tail) # "packet" /\ Leave

\* PcapLiveCapture::next_packet: an interface has no end, but any error but a
\* timeout ends the capture; after a timeout the loop goes round unchanged.
LiveEnd == mode = "live" /\ Leave

FileNext ==
  \/ Open
  \/ OpenFails
  \/ \E f \in capture, ts \in Times, n \in 0 .. MaxAlerts : ReadPacket(f, ts, n)
  \/ \E tail \in Tails : ReadEnd(tail)
  \/ LiveEnd

FileSpec == FileInit /\ [][FileNext]_file_vars

-----------------------------------------------------------------------------
(***************************************************************************)
(* Properties                                                              *)
(***************************************************************************)

\* The protocol counters and the conversation table, filled side by side, never
\* disagree: every packet with an IP header is in one conversation, every TCP
\* packet in one stream, and what is dissected had a transport header; an ICMP
\* packet is counted twice.
TalliesMatchTables ==
  /\ protocols["ipv4"] + protocols["ipv6"] =
       SumFunction([k \in DOMAIN conversations |-> conversations[k].packets])
  /\ protocols["tcp"] =
       SumFunction([k \in DOMAIN tcp_streams |->
                     Len(tcp_streams[k].ab) + Len(tcp_streams[k].ba)])
  /\ protocols["dns"] + protocols["http"] <= protocols["tcp"] + protocols["udp"]
  /\ 2 * (protocols["tcp"] + protocols["udp"]) + protocols["icmp"] <= 2 * packets
  /\ protocols["ipv4"] + protocols["ipv6"] + protocols["arp"] <= packets

Sent(event) == Cardinality({i \in 1 .. Len(feed) : feed[i] = event})

\* Whoever watches the live feed during an analysis sees what its response
\* says, with the totals last: each packet and each alert once.  The one alert
\* that is not sent is that of a file that does not open, which nothing else
\* reports; an error while reading is not reported at all.
AnswerMatchesFeed ==
  phase \in {"answered", "failed"} /\ mode = "api" =>
    /\ feed # <<>> /\ feed[Len(feed)] = "stats" /\ Sent("stats") = 1
    /\ answer.packets = Sent("packet") /\ answer.conversations <= Sent("packet")
    /\ answer.alerts = Sent("alert") + IF phase = "failed" THEN 1 ELSE 0

\* No frame read makes the decoder slice out of range or count padding.
SlicesInRange == \A i \in 1 .. Len(frames) : SliceInRange(frames[i].wire)

\* Had the capture been taken with any shorter snapshot length that leaves the
\* Ethernet header, every frame would decode to less of the same.
TruncationOnlyLoses ==
  \A i \in 1 .. Len(frames), m \in SnapLengths : CutOnlyLoses(frames[i].wire, m)
=============================================================================
