---------------------------- MODULE PortScanRule ----------------------------
(***************************************************************************)
(* The port scan rule of `ndap-detect` (crates/detect/src/lib.rs,          *)
(* PortScanRule::on_packet): distinct destination ports per source address *)
(* in a window that starts with a source's first SYN and restarts with its *)
(* first SYN after the window's end.                                       *)
(***************************************************************************)
EXTENDS Integers, FiniteSets

CONSTANTS
  Hosts,      \* IPv4 addresses
  Ports,      \* TCP ports
  WindowSecs, \* PortScanRule.window_secs
  Threshold,  \* PortScanRule.threshold
  MaxTime,    \* bound: capture timestamps are 0 .. MaxTime seconds
  MaxSyns     \* bound: distinct SYNs fed

ASSUME PortsAssumption     == IsFiniteSet(Ports)
ASSUME WindowAssumption    == WindowSecs \in Nat
ASSUME ThresholdAssumption == Threshold \in Nat \ {0}
ASSUME BoundsAssumption    == MaxTime \in Nat /\ MaxSyns \in Nat

VARIABLES
  state,   \* PortScanRule.state: source -> window start and ports touched
  alerts,  \* the alerts returned: source, the `dst` of the message, time
  syns,    \* the SYNs fed so far (history)
  now      \* timestamp of the last packet fed

vars == <<state, alerts, syns, now>>

Syn == [src : Hosts, dst : Hosts, port : Ports, ts : 0 .. MaxTime]

\* u32::saturating_sub
SatSub(a, b) == IF a >= b THEN a - b ELSE 0

\* Mutant of Expired: the window outlives its length by one second.
Expired_Late(start, ts) == SatSub(ts, start) > WindowSecs + 1

Expired(start, ts) == SatSub(ts, start) > WindowSecs

\* The source's window when a SYN of it arrives at ts.
Window(src, ts) ==
  IF src \notin DOMAIN state \/ Expired(state[src].start, ts)
    THEN [start |-> ts, ports |-> {}]
    ELSE state[src]

\* Mutant of Fires: the threshold itself does not fire.
Fires_Above(ports) == Cardinality(ports) = Threshold + 1

Fires(ports) == Cardinality(ports) = Threshold

Init ==
  /\ state = [h \in {} |-> [start |-> 0, ports |-> {}]]
  /\ alerts = {}
  /\ syns = {}
  /\ now = 0

\* on_packet of anything but an IPv4 TCP SYN without ACK returns at once.
FeedOther(ts) ==
  /\ now <= ts
  /\ now' = ts
  /\ UNCHANGED <<state, alerts, syns>>

\* on_packet of a SYN.
FeedSyn(syn) ==
  LET window == Window(syn.src, syn.ts)
      ports  == window.ports \cup {syn.port}
  IN  /\ now <= syn.ts
      /\ Cardinality(syns \cup {syn}) <= MaxSyns
      /\ now' = syn.ts
      /\ syns' = syns \cup {syn}
      /\ state' = [h \in DOMAIN state \cup {syn.src} |->
                     IF h = syn.src THEN [window EXCEPT !.ports = ports] ELSE state[h]]
      /\ alerts' = IF Fires(ports)
                     THEN alerts \cup {[src |-> syn.src, dst |-> syn.dst, ts |-> syn.ts]}
                     ELSE alerts

Next ==
  \/ \E ts \in 0 .. MaxTime : FeedOther(ts)
  \/ \E syn \in Syn : FeedSyn(syn)

Spec == Init /\ [][Next]_vars

-----------------------------------------------------------------------------
(***************************************************************************)
(* Properties                                                              *)
(***************************************************************************)

\* The rule keeps a window start and a set of ports per source.
TypeOK ==
  /\ DOMAIN state \subseteq Hosts
  /\ \A h \in DOMAIN state : state[h] \in [start : 0 .. MaxTime, ports : SUBSET Ports]
  /\ alerts \subseteq [src : Hosts, dst : Hosts, ts : 0 .. MaxTime]
  /\ syns \subseteq Syn
  /\ now \in 0 .. MaxTime

\* The ports a source sent SYNs to in first .. last.
PortsTouched(src, first, last) ==
  {s.port : s \in {x \in syns : x.src = src /\ first <= x.ts /\ x.ts <= last}}

\* No false alarm: whoever is alerted did send SYNs to Threshold distinct
\* ports in the WindowSecs seconds before the alert.
AlertSound ==
  \A a \in alerts :
    Cardinality(PortsTouched(a.src, a.ts - WindowSecs, a.ts)) >= Threshold

\* No scan passes twice the threshold: a source that touches 2 * Threshold - 1
\* ports within WindowSecs seconds is alerted then or shortly before, because
\* a burst that short meets at most two of the source's windows.
BurstDetected ==
  \A h \in Hosts, t \in 0 .. MaxTime :
    Cardinality(PortsTouched(h, t, t + WindowSecs)) >= 2 * Threshold - 1 =>
      \E a \in alerts : a.src = h /\ t - WindowSecs <= a.ts /\ a.ts <= t + WindowSecs

=============================================================================
