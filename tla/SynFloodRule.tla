---------------------------- MODULE SynFloodRule ----------------------------
(***************************************************************************)
(* The SYN flood rule of `ndap-detect` (crates/detect/src/lib.rs,          *)
(* SynFloodRule::on_packet): SYNs per destination address in a window that *)
(* starts with a destination's first SYN and restarts with its first SYN   *)
(* after the window's end.                                                 *)
(***************************************************************************)
EXTENDS Integers, Sequences, FiniteSets

CONSTANTS
  Servers,      \* destination addresses of SYNs
  WindowSecs,   \* SynFloodRule.window_secs
  SynThreshold, \* SynFloodRule.syn_threshold
  MaxTime,      \* bound: capture timestamps are 0 .. MaxTime seconds
  MaxFed        \* bound: SYNs fed

VARIABLES
  state,   \* SynFloodRule.state: destination -> window start and SYN count
  alerts,  \* the alerts returned, in order: destination and time
  fed,     \* the SYNs fed so far, in order (history)
  now      \* timestamp of the last packet fed

vars == <<state, alerts, fed, now>>

Syn == [server : Servers, ts : 0 .. MaxTime]

\* u32::saturating_sub
SatSub(a, b) == IF a >= b THEN a - b ELSE 0

Expired(start, ts) == SatSub(ts, start) > WindowSecs

\* The destination's window when a SYN for it arrives at ts.
Window(dst, ts) ==
  IF dst \notin DOMAIN state \/ Expired(state[dst].start, ts)
    THEN [start |-> ts, count |-> 0]
    ELSE state[dst]

\* Mutant of Fires: every SYN from the threshold on fires.
Fires_FromThreshold(count) == count >= SynThreshold

Fires(count) == count = SynThreshold

Init ==
  /\ state = [h \in {} |-> [start |-> 0, count |-> 0]]
  /\ alerts = <<>>
  /\ fed = <<>>
  /\ now = 0

\* on_packet of a SYN-ACK, as of anything but a pure SYN, returns at once.
FeedOther(ts) ==
  /\ now <= ts
  /\ now' = ts
  /\ UNCHANGED <<state, alerts, fed>>

\* on_packet of a SYN.
FeedSyn(syn) ==
  LET dst    == syn.server
      window == Window(dst, syn.ts)
      count  == window.count + 1
  IN  /\ Len(fed) < MaxFed
      /\ now <= syn.ts
      /\ now' = syn.ts
      /\ fed' = Append(fed, syn)
      /\ state' = [h \in DOMAIN state \cup {dst} |->
                     IF h = dst THEN [window EXCEPT !.count = count] ELSE state[h]]
      /\ alerts' = IF Fires(count) THEN Append(alerts, [dst |-> dst, ts |-> syn.ts])
                                   ELSE alerts

Next ==
  \/ \E ts \in 0 .. MaxTime : FeedOther(ts)
  \/ \E syn \in Syn : FeedSyn(syn)

Spec == Init /\ [][Next]_vars

-----------------------------------------------------------------------------
(***************************************************************************)
(* Properties                                                              *)
(***************************************************************************)

\* The SYNs to dst in first .. last, as positions of fed.
SynsTo(dst, first, last) ==
  {i \in 1 .. Len(fed) :
     fed[i].server = dst /\ first <= fed[i].ts /\ fed[i].ts <= last}

\* No false alarm: SynThreshold SYNs reached an alerted destination in the
\* WindowSecs seconds before the alert.
AlertSound ==
  \A i \in 1 .. Len(alerts) :
    LET a == alerts[i]
    IN  Cardinality(SynsTo(a.dst, a.ts - WindowSecs, a.ts)) >= SynThreshold

\* No flood of twice the threshold passes: 2 * SynThreshold - 1 SYNs within
\* WindowSecs seconds meet at most two windows, so one of them fires.
FloodDetected ==
  \A h \in Servers, t \in 0 .. MaxTime :
    Cardinality(SynsTo(h, t, t + WindowSecs)) >= 2 * SynThreshold - 1 =>
      \E i \in 1 .. Len(alerts) : /\ alerts[i].dst = h
                                  /\ t - WindowSecs <= alerts[i].ts
                                  /\ alerts[i].ts <= t + WindowSecs

\* After WindowSecs quiet seconds the threshold itself is enough: the first SYN
\* then starts a window that all the others meet.
SuddenFloodDetected ==
  \A h \in Servers, t \in 0 .. MaxTime :
    /\ SynsTo(h, t - WindowSecs, t - 1) = {}
    /\ Cardinality(SynsTo(h, t, t + WindowSecs)) >= SynThreshold
    => \E i \in 1 .. Len(alerts) : /\ alerts[i].dst = h
                                   /\ t <= alerts[i].ts
                                   /\ alerts[i].ts <= t + WindowSecs

\* A flood does not flood the operator: a destination is never alerted twice
\* in one second, nor three times within WindowSecs seconds.
AlertsSpaced ==
  \A i, j \in 1 .. Len(alerts) :
    i < j /\ alerts[i].dst = alerts[j].dst =>
      /\ alerts[i].ts < alerts[j].ts
      /\ \A k \in j + 1 .. Len(alerts) :
           alerts[k].dst = alerts[i].dst => alerts[i].ts + WindowSecs < alerts[k].ts

=============================================================================
