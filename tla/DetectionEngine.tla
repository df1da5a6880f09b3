--------------------------- MODULE DetectionEngine ---------------------------
(***************************************************************************)
(* The detection engine (crates/detect/src/lib.rs, DetectionEngine::feed)  *)
(* with its six default rules: every packet goes to every rule, and each   *)
(* looks at those it is about.  The port scan rule's state keeps its names;*)
(* the other rules' is prefixed.                                           *)
(***************************************************************************)
EXTENDS PortScanRule, Sequences

CONSTANTS
  IPs, Macs,          \* addresses of ARP packets
  Traffic,            \* name -> the packets of a capture and their times
  SynWindowSecs,      \* SynFloodRule.window_secs
  SynThreshold,       \* SynFloodRule.syn_threshold
  MinSamples, MinInterval, MaxCv, MaxStamps, \* of BeaconingRule
  LengthThreshold,    \* DnsTunnelRule.length_threshold
  MaxFed              \* bound: SYNs, ARP packets, and payloads fed

\* A packet is a SYN, another TCP or UDP packet, with or without a payload one
\* of the rules reads, an ARP packet, or anything else.
Flowing == {"syn", "data", "dns", "http"}

ASSUME TrafficAssumption ==
  \A name \in DOMAIN Traffic :
    /\ Traffic[name].times \subseteq 0 .. MaxTime
    /\ \A p \in Traffic[name].packets :
         /\ p.kind \in Flowing \cup {"arp", "other"}
         /\ p.kind = "syn" => p.src \in Hosts /\ p.dst \in Hosts /\ p.port \in Ports
         /\ p.kind = "arp" => p.ip \in IPs /\ p.mac \in Macs

ASSUME SynAssumption == SynWindowSecs \in Nat /\ SynThreshold \in Nat \ {0} /\ MaxFed \in Nat

ASSUME BeaconAssumption ==
  /\ MinSamples \in Nat \ {0} /\ MaxStamps \in Nat \ {0}
  /\ MinInterval \in Nat /\ MaxCv \in Nat

VARIABLES
  capture,                                \* name of the traffic captured
  flood_state, flood_alerts, flood_fed,   \* of SynFloodRule
  ip_to_macs, alerted_pairs, arp_alerts, arp_fed,    \* of ArpSpoofRule
  seen_queries, tunnel_alerts, tunnel_fed,           \* of DnsTunnelRule
  alerted_targets, credential_alerts, credential_fed,  \* of CleartextCredentialRule
  flows, alerted_flows, beacon_alerts, heard           \* of BeaconingRule

Flood == INSTANCE SynFloodRule
           WITH Servers <- Hosts, WindowSecs <- SynWindowSecs,
                state <- flood_state, alerts <- flood_alerts, fed <- flood_fed

Arp == INSTANCE ArpSpoofRule WITH alerts <- arp_alerts, fed <- arp_fed

Tunnel == INSTANCE DnsTunnelRule WITH alerts <- tunnel_alerts, fed <- tunnel_fed

Credentials == INSTANCE CleartextCredentialRule
                 WITH alerts <- credential_alerts, fed <- credential_fed

ASSUME PayloadsAssumption ==
  \A name \in DOMAIN Traffic : \A p \in Traffic[name].packets :
    /\ p.kind = "dns" => p.dns \in Tunnel!Packet
    /\ p.kind = "http" => p.http \in Credentials!Packet

Beacon == INSTANCE BeaconingRule WITH alerts <- beacon_alerts

flood_vars       == <<flood_state, flood_alerts, flood_fed>>
arp_vars         == <<ip_to_macs, alerted_pairs, arp_alerts, arp_fed>>
tunnel_vars      == <<seen_queries, tunnel_alerts, tunnel_fed>>
credentials_vars == <<alerted_targets, credential_alerts, credential_fed>>
beacon_vars      == <<flows, alerted_flows, beacon_alerts, heard>>

engine_vars ==
  <<vars, capture, flood_vars, arp_vars, tunnel_vars, credentials_vars, beacon_vars>>

EngineInit ==
  /\ capture \in DOMAIN Traffic
  /\ Init /\ Flood!Init /\ Arp!Init /\ Tunnel!Init /\ Credentials!Init /\ Beacon!Init

Scanned(p, ts) ==
  IF p.kind = "syn"
    THEN FeedSyn([src |-> p.src, dst |-> p.dst, port |-> p.port, ts |-> ts])
    ELSE FeedOther(ts)

Flooded(p, ts) ==
  IF p.kind = "syn" THEN Flood!FeedSyn([server |-> p.dst, ts |-> ts]) ELSE Flood!FeedOther(ts)

\* The rules registered after these two.
Others(p, ts) ==
  /\ IF p.kind = "arp" THEN Arp!FeedArp(p.ip, p.mac) ELSE UNCHANGED arp_vars
  /\ IF p.kind = "dns" THEN Tunnel!FeedDns(p.dns) ELSE UNCHANGED tunnel_vars
  /\ IF p.kind = "http" THEN Credentials!FeedPayload(p.http) ELSE UNCHANGED credentials_vars
  /\ IF p.kind \in Flowing
       THEN Beacon!FeedFlow(<<p.src, p.dst, p.port>>, ts)
       ELSE UNCHANGED beacon_vars

\* Mutant of Feed: the first rule that alerts ends the loop.
Feed_StopsAtFirst(p, ts) ==
  /\ Scanned(p, ts)
  /\ IF alerts' # alerts
       THEN /\ flood_fed' = Append(flood_fed, [server |-> p.dst, ts |-> ts])
            /\ UNCHANGED <<flood_state, flood_alerts>>
            /\ UNCHANGED <<arp_vars, tunnel_vars, credentials_vars, beacon_vars>>
       ELSE Flooded(p, ts) /\ Others(p, ts)

\* feed: all rules in turn, each with the packets it does not return on at once.
Feed(p, ts) ==
  /\ Scanned(p, ts)
  /\ Flooded(p, ts)
  /\ Others(p, ts)

EngineNext ==
  \E p \in Traffic[capture].packets, ts \in Traffic[capture].times :
    Feed(p, ts) /\ UNCHANGED capture

EngineSpec == EngineInit /\ [][EngineNext]_engine_vars

-----------------------------------------------------------------------------
(***************************************************************************)
(* Properties                                                              *)
(***************************************************************************)

\* Alerts of a flood are true, a flood of twice the threshold is alerted, and
\* after a quiet window's length one of the threshold itself, however many of
\* its packets trip the port scan rule too (feed asks every rule).
FloodsReported == Flood!AlertSound /\ Flood!FloodDetected /\ Flood!SuddenFloodDetected

\* A flood does not flood the operator: a destination is never alerted twice
\* in one second, nor three times within a window's length.
AlertsSpaced == Flood!AlertsSpaced

\* An alert names every MAC that claims an address another MAC claimed before, and
\* none names a pair that was not claimed and contested (ArpSpoofRule).
ConflictAlerted == Arp!ConflictAlerted /\ Arp!AlertSound

\* A flow heard at regular intervals is alerted, whatever else it carries: its
\* SYNs, data, DNS and HTTP packets count alike (BeaconingRule).
BeaconsDetected == Beacon!BeaconsDetected

\* No flow is alerted whose intervals were too few, too short or too irregular
\* (BeaconingRule).
BeaconsSound == Beacon!BeaconsSound

\* The long or random names of complete messages to or from port 53 are alerted, and
\* a name no packet asks for only if it was misread in another packet than those
\* (DnsTunnelRule).
TunnelsReported == Tunnel!TunnelsReported

\* What well-formed requests give away is alerted, and nothing else
\* (CleartextCredentialRule).
CredentialsReported == Credentials!CredentialsReported

\* However often packets repeat, the rules that keep a table of what they
\* alerted alert it once: MAC and address pairs, query names, exposed hosts and
\* URIs, flows.
AlertedOnce ==
  Arp!AlertedOnce /\ Tunnel!AlertedOnce /\ Credentials!AlertedOnce /\ Beacon!AlertedOnce
=============================================================================
