# NDAP: TLA+ models

TLA+ modules, TLC configurations and TLAPS proofs for NDAP, the network
detection and analysis platform in this repository. Paths below are relative to
the repository's root; `flow:82` means `crates/flow/src/lib.rs`, line 82,
`detect` is `crates/detect/src/lib.rs`, `api` is `api/src/main.rs` and `intel`
is `crates/intel/src/lib.rs`.

## 1. Inventory

| Component | State | Operations | Interacts with |
|---|---|---|---|
| Pcap reader (`crates/capture`) | file, byte order; the handle of an interface | open, next record, start | the CLI, `/analyze`, live captures |
| Wire decoder (`crates/protocol/src/lib.rs`, `icmp.rs`) | none | `decode_packet` | everything that sees a packet |
| DNS, HTTP, registry (`dns.rs`, `http.rs`, `dissector.rs`) | the registered dissectors | parse, register, dissect | CLI, detection rules |
| TCP stream (`TcpStream`, flow:60-94) | `next_seq`, `reassembled`, `out_of_order` | `push` | conversation tracker |
| Conversation tracker (flow:8-124) | `conversations`, `tcp_streams` | `record` | CLI, `/analyze`, captures |
| Port scan, SYN flood, ARP spoofing rules (detect:45-183) | a window per source, a window per destination, MACs per address and alerted pairs | `on_packet` | detection engine |
| DNS tunnelling, credentials, beaconing rules | names seen, targets alerted, the last 30 timestamps of each flow | `on_packet` | detection engine |
| Python plugin (`python_plugin.rs`, `plugins/python-sdk/ndap_plugin.py`) | two pipes, a child process | `on_packet`, `drop`, `run_plugin` | detection engine |
| Detection engine (detect:190-220) | the rules, in order | `register`, `feed` | CLI, `/analyze`, captures |
| Capture control (api:421-630) | `is_capturing`, `live_stats`, one task per capture | start, stop, status | live feed, tracker, engine |
| WebSocket live feed (api:300-329, `api/static/index.html`) | a broadcast channel, one handler per dashboard | publish, subscribe, send | captures, `/analyze`, browsers |
| IOC synchronizer (intel:184-322, api:640-756) | indicator store, feed sources | sync round, fetch, load, add source | background task, HTTP handlers, feeds' servers |
| Sigma-lite, YARA, MITRE tables (`crates/intel`) | none | matching | `/analyze` |
| Analysis: `/analyze` (api:196-294), CLI (`cli/src/main.rs`) | tracker, engine, counters by protocol, the answer | open, one turn per record, conclude | reader, decoder, registry, tracker, engine, live feed |
| Synthetic stream (api:510-608) | a step counter, two clocks | craft a packet | capture control, tracker, engine |
| Dashboard page, site | none that lasts | presentation | the API |

The engine, the tracker and the rules are sequential objects: each capture task
and each `/analyze` request owns its own. What is shared is in the API server:
the flag and the counters, the broadcast channel, and the intelligence store.
Handlers and tasks run on a multi-threaded tokio runtime, so their steps
interleave at every lock, await and atomic access.

**What is hard.** Segments that are lost, repeated, reordered, retransmitted
with other boundaries, and sequence numbers that wrap (TCP stream); a key that
must not depend on direction (tracker); windows whose start moves and tables that silence what was alerted before
(rules); files, frames and messages cut or contradictory at any byte (reader,
decoder, dissectors); a
check and a store of `is_capturing` that are two steps, and a stop that a task
sees only later (capture control); a channel that overwrites what a slow reader
has not read (live feed); a fetch during which anything may change (synchronizer);
two processes that wait for each other through pipes of limited size (plugins).

**What makes each correct.**

- TCP stream: `reassembled` is one gap-free piece of the sender's stream; what
  became contiguous is drained; `push` returns.
- Tracker: one bucket per conversation, totals over both directions, streams
  that never mix two senders.
- Rules: no alert without its cause, a bound on what goes unnoticed, and no
  repeats.
- Decoder: slices within the frame; a shorter capture only loses.
- Analysis: conversations, counters, events and answer describe the same packets.
- Capture control: counters without lost updates, Status and Stats events that
  are true, captures that end, one capture at a time.
- Live feed: each session shows everything since its beginning, or ends.
- Synchronizer: what is reported as synced is loaded, and what failed is retried.
- Plugins: answers belong to their packets, a crash costs one packet, calls return.

## 2. Plan

Order of work, most important first:

1. `TcpStream`, `FlowTracker` - the data path every tool uses. *Done.*
2. `PortScanRule`, `SynFloodRule`, `ArpSpoofRule` - the stateful rules. *Done.*
3. `CaptureControl` - the concurrent part of the server. *Done.*
4. `LiveFeed` and its abstract specification `OrderedFeed`. *Done, with the
   refinement checked and its safety half proved.*
5. `IocSync`. *Done.*
6. `PluginIpc`. *Done.*
7. `DnsMessage`: names, records and the parse. *Done, with its safety proved.*
8. `BeaconingRule`, `DnsTunnelRule`, `CleartextCredentialRule`, and
   `DetectionEngine`, which feeds all six rules. *Done, with all six rules'
   promises proved.*
9. `SyntheticStream`, which ought to trigger the beaconing rule. *Done.*
10. `WireDecoder`, `ProtocolRegistry`, and `FileAnalysis`, which composes them
    with the tracker. *Done, with all that it promises proved.*
11. Proofs of `AnswersFollowPackets`, the safety half of `LiveFeed => OrderedFeed`,
    `StatsFollowFeed`, `FloodsReported`, `ConversationTotals`, `TalliesMatchTables`
    and `AnswerMatchesFeed`. *Done.*
12. Proofs of `ItemsTile`, `NamesMatchWire`, `TunnelsReported`,
    `CredentialsReported`, `AlertedOnce`, `BeaconsDetected` and `BeaconsSound`.
    *Done: every safety property of the passing runs is a theorem.*

Composition: `DetectionEngine` extends `PortScanRule` and instantiates the other
rules; `SyntheticStream` extends `BeaconingRule`; `FileAnalysis` extends
`FlowTracker`, `WireDecoder` and `ProtocolRegistry`; `OrderedFeed` is instantiated
by `LiveFeed`. `FlowTracker` keeps for each direction the sequence of payloads
pushed, which is what `TcpStream` takes. `CaptureControl` and `FileAnalysis` use
the engine through what `feed` returns (0 or more alerts), and `CaptureControl`
uses a tracker through what `record` does (0 or 1 new conversation).

## 3. Modules

Every module carries its definitions' mutated forms (`Name_Change`, each before
the definition it mutates): plausible mistakes in the code that its properties must notice.

### TcpStream

A byte is its offset in the sender's stream; a payload (`Run`) is an offset and
a length; it travels with `WireSeq`, its number modulo `SeqMod`. `push` is four
actions by its branches (`PushEmpty`, `PushFirst`, `PushExpected`, `PushOther`)
and the drain loop is a step per iteration (`Drain`, `DrainEnd`). While the
loop's local `next` is set nothing else can be pushed.

`TcpStream_small` takes sequence numbers modulo 6 for a stream of 5 bytes and
every initial number, so numbers wrap in the middle of the stream; segments of 0
to 2 bytes start anywhere. This covers every overlap of two segments, repeated
numbers with other lengths, and buffers of up to 5 segments.

- `Contiguous`: the appended runs follow one another without gap or repeat.
- `DrainedDry`: after a call no buffered segment is the expected one.
- `PushReturns`: the drain loop ends (fairness of the loop's own steps: it is
  one thread's loop).

`TcpStream_reseg` shows `GapIsNotBuffered` violated: see section 6.

### FlowTracker

`five_tuple_of`, `canonical` and `record`, with addresses and ports as numbers.
A TCP payload is recorded by its sender, so `StreamPurity` can say that the
`ab` stream only holds the canonical source's payloads. `OneBucketPerConversation`
is about keys, `ConversationTotals` about counters and timestamps, which need not
be in order. It is run as a part of `FileAnalysis`.

### WireDecoder, ProtocolRegistry, FileAnalysis, FileAnalysisMC

`WireDecoder` is `decode_packet` as a function of the captured length and the
length fields of the headers (IHL, total length, data offset): which headers are
accepted, and where the payload begins and ends. A refused IP header leaves
nothing; a refused transport header leaves L3 alone.

`ProtocolRegistry` says which protocol a packet is counted under: the dissector of
the destination port, that of the source port, then the heuristics.

`FileAnalysis` is one pass: `Open` or `OpenFails`, a `ReadPacket` for each whole
record (decode, `record`, the counters, the events), and `ReadEnd` at an end or
an error, `LiveEnd` at an error of an interface. `mode` is the caller: the
server's `/analyze` sends events and returns an answer, the tool prints and exits.
`NextPacket` classifies a record by how many of its bytes are there. What the
rules alert is any number up to `MaxAlerts`.

`FileAnalysis_small` reads captures of up to 3 frames out of 7 that converse
(both directions, equal, crossed and local ports, TCP beside UDP, a protocol
without ports) or out of 12 that are layered (IPv6, ICMP, ARP), malformed (padding,
cut options, lengths that contradict each other), or carry DNS and HTTP, ended in
five ways. Every pair of headers and cuts that meets in the decoder occurs in
some frame, three packets are enough for two directions and a return, and the
theorems hold for any frames.

- `TalliesMatchTables`: the protocol counters and the conversation table, filled
  by separate code, agree; ICMP packets count twice.
- `AnswerMatchesFeed`: the answer's totals are those of the events sent, with the
  one alert that is not sent, that of a file that does not open.
- `SlicesInRange`: the decoder's slices lie within the frame and hold neither
  headers nor, with IPv4, padding.
- `TruncationOnlyLoses`: any shorter snapshot length that leaves the Ethernet
  header gives less of the same. (A shorter one still turns the rest into payload.)

### PortScanRule, SynFloodRule, ArpSpoofRule

Each has one action for the packets its rule looks at and, where the rule has a
clock, one for the packets it returns from early. The histories `syns` and `fed`
say what was fed. The windows of the first two are tumbling ones: they begin
with a first SYN and are replaced by the first SYN after their end. So
`BurstDetected` and `FloodDetected` promise an alert for `2 * threshold - 1`
events within a window's length and not for `threshold`: a burst that short
meets at most two windows. After a quiet window's length the threshold itself is
enough (`SuddenFloodDetected`). `AlertsSpaced` says that a server is never alerted
three times within a window's length. Packets come in time order, as captures
deliver them.

### BeaconingRule, SyntheticStream

A flow's timestamps, with bursts counted once and only the latest `MaxStamps`
kept, and `Periodic` for `evaluate_intervals`: the coefficient of variation is
compared by squares, in integers; the rounding of f64 is left out. The
properties do not repeat the formula. `BeaconsDetected` takes the latest times at
which the flow was heard and asks that all gaps lie within twice the tolerance;
`BeaconsSound` that no gap of an alerted flow was further off the mean than any
set of numbers with that deviation allows. The assumptions on the parameters
(`BeaconAssumption`) are those of the defaults, 5 intervals of 2 seconds, 30 percent
and 30 timestamps: naturals, of which the first and the last are not 0.

`SyntheticStream` sends the check-ins of api:544-550 through the rule with its
default parameters: section 6.

### DnsTunnelRule, CleartextCredentialRule

A DNS packet is its transport, whether a port is 53, the length prefix and how
many bytes of the message are there, and the message its counts, questions and
number of records; a name is a sequence of labels, each with its length and
whether it is random. `Slice` is the choice of the bytes that are parsed. `Sniff`
reads four counts, whose sum wraps as u16 does in a release build (a debug build
panics, which is left out). `Questions` is `parse_dns`: what the header counts, if
the slice begins where the message does and holds it; bytes behind are ignored.
A segment in the middle of a stream, a payload that is no DNS or a message
with counts beyond its content is parsed all the same (dns_tunnel:64-83), and
what comes out depends on bytes the model does not have: those names come with the
packet, as `misread`, and are any in the theorems. So `TunnelsReported` does not say
that every alert is of a name somebody asked for. It says that the long or random
names of complete messages to or from port 53 are all alerted, and that a name no
message asked for is alerted only if a packet of another kind was misread so: the
prefix is stripped where it must be, and from UDP it is not.

An HTTP payload is a sequence of lines with their ends. `HeaderEnd` is the search
for the first `\r\n\r\n`, else the first `\n\n`; request line, headers and body follow.
`CredentialsReported` compares the alerts with what a plain reading of a
well-formed request gives away: one kind of line ends, text up to the
first empty line, no header twice.

### DetectionEngine, DetectionEngineMC

`Feed` is `feed`: one packet goes to every rule in turn; each rule's alerts are
kept apart. `capture` chooses one of six mixes: SYNs from one host to three
ports of another, which itself sends to one port, so that a packet is a scan's
and a flood's at once (windows of 2 seconds for scans and 1 for floods, thresholds
of 2, a clock of 0 to 4); check-ins on a clock of 0 to 10 with 2 intervals
enough and 5 timestamps kept, so that the window loses its oldest; three MACs
claiming two addresses; DNS over UDP and TCP, whole, cut, with counts that lie or
wrap, with more than a hundred answers, and segments and payloads that are no
message but read like one; requests with either line end, bodies like headers, responses; and an
office where one packet concerns several rules. `FloodsReported` joins the flood
rule's properties, `AlertedOnce` those of the four rules with tables.

### CaptureControl

State: the flag, the counters, and for each task where it is (`pc`) and its
locals. `capture_start` is two actions, `StartLoad` (api:429) and `StartStore`
(api:436), because other handlers run between the load and the store. The
task is a step per await, lock or look at the flag: `Announce`, `OpenFails`,
`Opened`, `LoopEnds`, `TakePacket`, `SendAlert`, `CountAlert`, `AlertsDone`,
`CountPacket`, `BroadcastStats`, `Finish`. What a packet or an alert says is
left out.

The run has two start handlers, two tasks, files of 0 or 2 packets, files that
do not open, synthetic streams of 2 packets with Stats every 2, and at most one
alert per packet: two captures overlap at every pair of their steps.

- `StatsFollowFeed`: the shared counters equal what was broadcast less what the
  tasks have in hand - no lost and no double update - and less the one
  `capture_error` alert of each capture whose pcap did not open, which is
  broadcast (api:500) and never counted.
- `ConversationsBounded`, `ShownMonotone`: the numbers on the dashboard are
  consistent, although `conversations` is overwritten by whichever task counts
  last. `ShownMonotone` is about the packets and alerts of the capture tasks'
  Stats: conversations go back, and `/analyze` sends its own file's Stats.
- `StatusNotStale`: the last Status event never says "capturing" when every task
  that announced itself has ended. (The converse is false: one task's end says
  "stopped" while another goes on.)
- `StopEventuallyHalts`, `FileCaptureEnds`: liveness under weak fairness of each
  task, which the runtime's polling and the end of each sleep give.

### LiveFeed, OrderedFeed

The n-th event sent to the channel is the number n. The channel keeps the last
`Cap` events (2048 in api:704); a receiver that fell further behind gets
`Lagged`, and `while let Ok` then ends the handler. The socket holds `SockCap`
messages. A handler subscribes, reads `live_stats`, sends it, and forwards
events; a browser reads, leaves, is closed, and reconnects after two seconds.

`LiveFeed_small` has one dashboard, two captures and `/analyze`, a channel of 2
and 5 events, so that a handler can lag in its first and in its second session.
One dashboard is enough for the safety properties because handlers share nothing
but the feed (and the theorem holds for any number). Fairness: handlers that can
go on are polled, and a browser that stays open reads; nothing is assumed of
publishers, of users leaving or of reconnections.

- `NoSilentGap`: what a session hands over is the initial stats and then every
  event since the subscription.
- `SnapshotCovers`: no packet falls between the subscription and the snapshot,
  except the one each task is about to count.
- `DeliveredOrEnded`, `DeadSessionEnds`: liveness of delivery and of handlers
  whose browser is gone.
- `ImplementsOrderedFeed`: refinement, with liveness, of `OrderedFeed`:
  `tail` is the number of events, `on` the browsers with an open socket, `seen`
  what was read after the initial stats.

### IocSync, IocSyncMC

A round of `sync_all_due` takes a snapshot of the due sources (`Begin`), then
for each one copies the url (`Pick`), fetches without a lock (`Fetch`), loads
and dates the source under the store's lock (`Apply`) or sets `last_error`
(`RecordError`). A feed text is CSV or JSON lines, some bad: CSV stops at the
first bad line and keeps what it added, JSON skips bad items, other text fails.
`AddSource` puts a client's source in the place of one of that name at any moment,
with the date, count, error and interval the client gave it: the handler looks
only at the url's scheme. Servers change what they serve and go down. The clock
does not go back.

`IocSync_small` runs one syncer over one source and two urls - one of a scheme
`fetch_url` refuses - with four kinds of feed text and an interval of 2 on a
clock of 0 to 3, so a source is stale again after its first sync. Clients post
sources as `main` registers them, disabled ones, ones dated in the past and in
the future with a count and an error of their own, and one due in every round.
One syncer, because with two `ErrorMeansStale` is false; what is said of fresh
sources is proved for any number.

The histories `posted` (the sources whose date is a client's) and `got` (what a
source's last sync fetched, and when) serve the properties only.

- `FreshMeansLoaded`: a source that is not due, and was not posted so, shows a
  sync fetched less than its interval ago, whole: every good line is in the store
  and counted, whatever broke off, was slow or was replaced before.
- `ErrorMeansStale`: a source that shows an error is due, unless a client gave it
  its date. With one syncer only: `IocSync_late` shows it violated by two.
- `Recovers`: a source whose feed loads from some time on is synced again
  whenever it is stale. Fairness: tasks run and curl has a time limit (15 s).

What a fresh source shows need not come from its own url: a source replaced during
a fetch gets the old url's load (intel:225), and no property says otherwise.

### PluginIpc

Both ends of the two pipes. A line travels in chunks and a pipe holds `PipeCap`
of them, less than the longest line. The engine's call writes (`WriteChunk`,
`WriteFails`), then reads one line (`ReadChunk`) or meets the end of the file
(`ReadEof`); `drop` kills. `run_plugin` reads a line, runs the rule and writes
its answer; the rule may print lines of its own, hang, and the process may die at any
point. An exception in the rule is an answer without alerts.

`PluginIpc_small`: 4 calls, lines of up to 3 chunks in pipes of 2, 2 printed
lines.

- `AnswersFollowPackets`: alerts come back in order, once, and late by at most
  one packet per printed line.
- `NothingWithheld`: a crash costs at most the packet being answered.
- `CallReturns`: a call waits for ever only behind a rule that hangs or prints.
  Fairness: both processes run.

### DnsMessage, DnsMessageMC

`parse_dns` with one action per step: `StartItem` for the next question or
record, one action for each way through `read_name`'s loop (`NameEnd`,
`NamePointer`, `NameLabel`, the failures), `QuestionFields` and `RecordFields`
for what follows a name. RDATA of a CNAME, NS or PTR record is read by a cursor
of its own (`name.own` is FALSE). Fields keep their order and lose bytes: a
header of one, one for a question's type and class, one for a record's type,
class and TTL, one for `rdlength`; a pointer's offset is its second byte. What is
printed (addresses, text, labels) is left out; a label is its position. A pointer
byte has its two high bits set, so it is not 0 (`BytesAssumption`).

`DnsMessage_small` parses every message of 7 bytes out of a root label, labels
of 1 to 3 and pointers, with at most 2 jumps: pointers forward, back, to
themselves, into the header and into labels; names and records that end
the message or break off with it; loops with and without labels.

- `NamesMatchWire`: the name read is the walk over labels and pointers, defined
  without cursor and locals; it is refused exactly if that walk does not end or
  needs too many jumps; and parsing goes on behind the name's own bytes.
- `ItemsTile`: questions and records lie side by side, and a name in RDATA does
  not disturb that.
- `ParseReturns`: parsing ends. Fairness: the parser is one thread's code.

## 4. Runs

| Run | Shows |
|---|---|
| `TcpStream_small` | `push` under loss, repetition, reordering, other boundaries and wrapped numbers |
| `TcpStream_reseg` | violation: a stream stuck on a byte it has |
| `FileAnalysis_small` | whole passes: conversations, counters, feed and answer agree; the decoder's slices |
| `DetectionEngine_small` | six rules fed the same packets: no false alarm, nothing unnoticed within the bounds, no repeats; the two ports only one host uses are symmetric: only compared for equality |
| `SyntheticStream_beacon` | violation: the synthetic beacon is never alerted |
| `CaptureControl_small` | overlapping captures, stops and files |
| `CaptureControl_restart` | violation: two captures after a stop and a start |
| `LiveFeed_small` | sessions, lag, reconnection; refinement of `OrderedFeed` |
| `IocSync_small` | rounds against changing feeds and replaced sources |
| `IocSync_late` | violation: a late error over a newer success |
| `PluginIpc_small` | answers in pieces, crashes, hangs, prints |
| `DnsMessage_small` | names, records and failures of every short message |

`CHECK_DEADLOCK FALSE` stands where the model's bound on packets, events or
calls, or an answer given, is the end of every behaviour.

## 5. Proofs

The eight proof modules are named after the modules they are about; `FlowTracker`'s
theorems are in `FileAnalysisProofs`, which carries them over to whole files, and
those of all six rules in `DetectionEngineProofs`. All theorems hold for every value
of the constants that satisfies the named assumptions.

- **TcpStream.** `TypeCorrect` (types are proved, not run); `DrainsDry`, by `DryInv`: the property alone is
  not inductive, because a first segment must find an empty buffer.
  `ReassemblesInOrder`, for streams no longer than the sequence-number space
  (`NoWrap`): `OrderInv` adds that every buffered run sits under its own number
  (`BufferInv`) and that the expected number is the one after the last byte
  (`CursorInv`); two offsets below `SeqMod` with one number are equal. Without
  `NoWrap` it is false: section 6.
- **FlowTracker.** `CanonicalIgnoresDirection`, from the order on pairs being
  total; `OneBucket` and `StreamsPure`, from the invariant that all keys are
  canonical. `TotalsAddUp`, by `TotalsInv`: every bucket has a packet, and every
  packet with a tuple the bucket of its canonical key, so that a new bucket starts
  with all its packets. The bytes are a sum (`SumFunction`), which picks the
  elements of its set in an order nobody knows: `SumUnfolds` and `SumSplits` show,
  by induction over the set's size, that any order gives the same.
- **FileAnalysis.** `EverySliceInRange` and `EveryCutOnlyLoses` are about the
  decoder alone: every frame, every length. They rest on `TransportFront`: the
  transport decoders look at the front of their slice only, so that a shorter
  slice gives nothing or the same header. `PassIsTracked` is the refinement
  `FileSpec => Spec` of `FlowTracker`; through it `PassKeepsBuckets`,
  `PassKeepsStreams` and `PassKeepsTotals` carry the tracker's theorems over to every pass over every
  capture. `PassSlicesInRange` and `PassSurvivesTruncation` apply the decoder's
  to the frames read. `FeedMatchesAnswer` is by `FeedInv`: until the answer the
  server has sent what it counted, once each, and no totals. `TalliesAgree` is by
  `TallyInv`, which needs that the tables' domains are finite: a turn raises the sum
  over one table by one if the frame has an IP header, over the other if it has TCP.
- **DetectionEngine**, the port scan rule. `TypeCorrect`; `NoFalseAlarm`, by
  `WindowInv`: every port in a window was touched since the window's start.
  `BurstsAlerted`, by `BurstInv`: the window holds all its source touched since its
  start, a window with a threshold's ports fired, and a threshold's ports touched
  less than a window's length before the start fired the window before. Of the
  ports of a burst of `2 * Threshold - 1` one of these two lots is a threshold's.
- **DetectionEngine**, the rules together. `ScanRuleUndisturbed` is the refinement
  `EngineSpec => Spec` of `PortScanRule`; through it `EngineAlertsBursts` carries that
  rule's own theorem over to the engine. `EngineAlertsConflicts` rests on the same for
  the ARP rule, and on `ArpInv`, which ties that rule's two tables to what was fed
  and alerted: a pair in the table has an alert, so that what the table keeps from
  being alerted was alerted before. `EngineSpacesAlerts` is about the flood rule, by
  `SpacedInv`: a window alerts once, and of the alerts before its start all but
  the last are more than a window's length older.
  `EngineReportsFloods` is by `ReportInv`. `Windowed` says of one destination that
  its window's count is the number of SYNs since the window's start, all within its
  length; that a threshold of them has alerted, as has a threshold before the start
  and within a window's length; and that every SYN before the start has one at
  most a window's length older that the start is farther from. The counts are
  cardinalities of sets of positions, which each SYN fed splits or extends.
- **DetectionEngine**, tunnels and credentials. Both rules loop over what they
  parsed; the loops are recursive functions, unfolded by `Recursion` and followed by
  `SetInduction`, which is derived from every set of numbers having a least.
  `EngineReportsTunnels`, by `TunnelInv`: the loop records each name
  once (`InsertAllRecords`); the slice of a complete message is the message
  (`CompleteSliced`), so that it is parsed to its questions, and of any other packet
  come the counted questions or what is misread (`QuestionsParsed`). `EngineReportsCredentials`, by `CredentialInv`: for
  a well-formed request the search for the headers' end, the first `Authorization` and
  the body are what a plain reading finds (`WellFormedRead`). `EngineAlertsOnce`
  joins the tables of four rules.
- **DetectionEngine**, the beaconing rule. Both theorems are by `BeaconInv`: what
  is on record of a flow are its latest times (`RecordMoves`, `RecordIsLatest`), a
  flow not yet alerted did not pass the test, and each alert was regular at its
  time, which later packets cannot change because none is earlier. `PeriodicTimes`
  compares the rule's test, a formula on sums over the intervals, with the
  properties, which speak of times only. For `EngineBeaconsSound`, one interval
  deviates by no more than all together (`TermDeviates`); for `EngineReportsBeacons`,
  `(hi - x) * (x - lo) >= 0` added up over the intervals bounds their deviation
  by half their range (`WithinRange`, `HalfRange`). Both are inductions over the partial sums.
- **CaptureControl.** `StatusFresh`, `FewerConversations`, `ShownNeverFalls`, for
  any number of handlers and tasks, by `CaptureInv`: a task's conversations
  are at most its packets, its packets at most the shared ones, and what was
  shown is an earlier value of the counters. `StatsFollow`, by `FollowInv`: the
  tasks between their broadcast and their update of the counters, and those whose
  pcap did not open, are as many as the counters lag.
- **LiveFeed.** `SessionsWithoutGap`, for any number of dashboards, publishers
  and capacities, by `SessionInv`: the receiver's position is the
  subscription's plus what was handed over, one more while a message is in
  hand. `NoPacketMissed`: a packet counted before a snapshot is in it, and those
  broadcast and not yet counted are one per publisher. `KeepsOrder` is the
  refinement `Spec => Ordered!SafeSpec`, action by action; `DueInv` adds that no
  receiver is ahead of the events published.
- **PluginIpc.** `TypeCorrect`; `AnswersInPacketOrder` and `NoneWithheld`, by
  `PluginInv`: the requests on the way are the packets after the one the plugin
  works at, every line in the answer pipe has a number, printed lines included,
  that grows by one from line to line, and the call that reads line `n` is
  the `n`-th.
- **IocSync.** `TypeCorrect` and `FreshIsLoaded` for any number of syncers,
  sources, posts and feeds, by `LoadInv`: a fetch is not before the round that
  dates it, and a load that goes through is of a whole text (`LoadsWhole`);
  `ErrorsAreStale` for one syncer, by `RoundInv`: but for what clients dated, all a
  round has still to do is stale.
- **DnsMessage.** `ItemsSideBySide`, by `DnsInv`: the parser's stage and locals
  agree with the items behind it (`StageInv`), and every item begins where the one
  before it ended. `NamesAreOnTheWire`, by `NamesInv`, without recursion: a walk is
  a path of places, each the successor of the one before (`IsPath`); the reader's
  locals name a place on it (`ReaderIn`), it has jumped as often as the path, and
  `jumps * Size + offset` bounds the path's length, so that a walk that does not
  end is one the reader refuses.

Only model-checked: liveness and fairness, which are out of the prover's reach:
`PushReturns`, `StopEventuallyHalts`, `FileCaptureEnds`, `DeliveredOrEnded`,
`DeadSessionEnds`, `Recovers`, `CallReturns`, `ParseReturns`, and the liveness half
of `ImplementsOrderedFeed`. Every other property of a passing run is a theorem.

## 6. Where the code and its documents differ

Shown by runs:

- `TcpStream_reseg`: only a segment that starts exactly at the expected number
  makes progress (flow:78, flow:82). A retransmission with other boundaries that
  contains the expected byte is buffered and the stream stays stuck.
- `CaptureControl_restart`: `capture_stop` clears the flag and answers "halted";
  a start before the old task looks at the flag sets it again, and both run. Two
  concurrent starts have the same effect (api:429, api:436).
- `IocSync_late`: a syncer that failed records its error after another synced
  the same source (intel:304).
- `SyntheticStream_beacon`: the beacon that api:511 and api:546 announce takes its
  time from `step / 2` in two of seven steps. Its check-ins are 12, 4 and 12
  seconds apart, a coefficient of variation of 0.40, and `BeaconingRule` asks for
  0.30 or less; the demonstration of C2 beaconing never alerts.

Seen while modelling, without a run of their own:

- A segment that stays in `out_of_order` (flow:90) matches again when the
  sequence numbers come round, and old bytes are appended. `ReassemblesInOrder`
  therefore assumes streams shorter than 2^32 bytes.
- An ICMP echo and its reply get two buckets: identifier and sequence number
  take the ports' places and do not swap (flow:44).
- `crates/detect/src/lib.rs:45` calls the port scan window sliding; it is
  tumbling, so `threshold` ports across a restart go unnoticed. The message
  names the last packet's destination although ports are counted over all.
- `crates/detect/src/lib.rs:93` says "without matching SYN-ACKs"; SYN-ACKs are
  skipped, so answered SYNs count.
- ICMP packets are counted twice under `ICMP` (api:225, api:231; cli:62, cli:67),
  where a comment calls the second count "Layer 7 Application dissections (DNS,
  HTTP)" (api:229).
- The answer for a file that is cut, or whose last record claims too much, is that
  of the packets before, without a hint (api:210); the CLI prints an error, unless
  the cut is in a record's first four bytes (`crates/capture/src/lib.rs:76`).
- DNS over TCP is dissected with its length prefix (`dissector.rs:56`) and so never
  counted as DNS, while `DnsTunnelRule` strips it.
- The decoder takes an IPv4 fragment's data for a transport header, and the trailer
  of a short IPv6 frame for payload: neither fragment offset, IPv6 payload length
  nor UDP length is looked at.
- `DnsTunnelRule` skips two bytes of every TCP segment to or from port 53
  (dns_tunnel:64), also of those in the middle of a message, and parses any
  payload that `sniff` lets pass: what it alerts need not be a query's name.
- A request with bare line feeds whose body holds an empty CRLF line is split in
  its body (`http.rs:113`); a body in a later segment than its headers is not
  looked at; hosts are told apart by the first `Host` header only.
- No task clears `is_capturing` at a file's end (api:611), so the status says a
  capture runs and starts are refused until a stop.
- A source replaced during a fetch gets the old feed's count and date
  (intel:225); `file://` sources, which `crates/intel/README.md:11` offers, are
  refused by `fetch_url` (intel:258).
- `python_plugin.rs:4` promises isolation from slow plugins; a rule that hangs
  blocks the engine's call for ever, as there is no timeout.

## 7. Not modelled

- Of the reader, byte order, nanoseconds, filters and the list of interfaces; of
  the dissectors, the fields they list and HTTP responses; of the CLI, its
  arguments and printing; of the synthetic stream, the bytes of its packets and
  the overflow of `step as u32 * 200` (api:548) after 21 million of them.
- The exact arithmetic of f64 in the beaconing rule, and entropy: a label is random
  or it is not.
- Sigma-lite, the MITRE tables: pure string functions without state; YARA: a
  foreign library behind a feature flag.
- The page's widgets and the site: presentation; the page's connection is in
  `LiveFeed`.
- A new connection on an old 5-tuple, which goes on in the old stream (flow:119):
  no line promises otherwise.
- Poisoned locks (a panic under a lock) and memory growth (flow:90, the rules'
  tables): the code gives no bound or recovery to state.
