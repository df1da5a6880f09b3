---------------------------- MODULE BeaconingRule ----------------------------
(***************************************************************************)
(* The beaconing rule of `ndap-detect` (crates/detect/src/beaconing.rs):   *)
(* the times at which each flow was seen, and the flows whose intervals    *)
(* were regular enough to be alerted.  The coefficient of variation, a     *)
(* quotient of a square root, is compared by squares of integers; rounding *)
(* of f64 is left out.                                                     *)
(***************************************************************************)
EXTENDS Integers, Sequences, FiniteSetsExt

CONSTANTS
  MinSamples,    \* BeaconingRule.min_samples
  MinInterval,   \* BeaconingRule.min_interval_secs
  MaxCv,         \* BeaconingRule.max_jitter_cv, in percent
  MaxStamps      \* timestamps kept per flow (30 in on_packet)

VARIABLES
  flows,          \* BeaconingRule.flows: flow -> its last timestamps
  alerted_flows,  \* BeaconingRule.alerted_flows
  alerts,         \* the alerts returned, in order: flow and time
  heard           \* every <<flow, timestamp>> fed (history)

vars == <<flows, alerted_flows, alerts, heard>>

\* u32::saturating_sub
SatSub(a, b) == IF a >= b THEN a - b ELSE 0

Deltas(stamps) == [i \in 1 .. Len(stamps) - 1 |-> SatSub(stamps[i + 1], stamps[i])]

Sum(seq) ==
  LET upto[n \in 0 .. Len(seq)] == IF n = 0 THEN 0 ELSE upto[n - 1] + seq[n]
  IN  upto[Len(seq)]

\* n * n times the variance of a sequence of n numbers
Spread(seq) == Len(seq) * Sum([i \in 1 .. Len(seq) |-> seq[i] * seq[i]]) - Sum(seq) * Sum(seq)

\* Mutant of Periodic: the mean interval is not looked at.
Periodic_AnyInterval(stamps) ==
  LET deltas == Deltas(stamps)
  IN  /\ Len(deltas) >= MinSamples
      /\ 10000 * Spread(deltas) <= MaxCv * MaxCv * Sum(deltas) * Sum(deltas)

\* evaluate_intervals: enough intervals, long enough, and regular enough.
Periodic(stamps) ==
  LET deltas == Deltas(stamps)
  IN  /\ Len(deltas) >= MinSamples
      /\ Sum(deltas) >= MinInterval * Len(deltas)
      /\ 10000 * Spread(deltas) <= MaxCv * MaxCv * Sum(deltas) * Sum(deltas)

Init ==
  /\ flows = [f \in {} |-> <<>>]
  /\ alerted_flows = {}
  /\ alerts = <<>>
  /\ heard = {}

\* Mutant of Stamped: the window never loses its oldest timestamp.
Stamped_KeepsAll(flow, ts) ==
  LET old == IF flow \in DOMAIN flows THEN flows[flow] ELSE <<>>
  IN  IF old # <<>> /\ old[Len(old)] = ts THEN old ELSE Append(old, ts)

\* A flow's timestamps after a packet at ts: a burst counts once, and only the
\* latest MaxStamps stay.
Stamped(flow, ts) ==
  LET old == IF flow \in DOMAIN flows THEN flows[flow] ELSE <<>>
      new == IF old # <<>> /\ old[Len(old)] = ts THEN old ELSE Append(old, ts)
  IN  IF Len(new) > MaxStamps THEN Tail(new) ELSE new

Fires(flow, stamps) == flow \notin alerted_flows /\ Periodic(stamps)

\* on_packet of a TCP or UDP packet over IP: a flow is its two addresses and
\* the destination port.
FeedFlow(flow, ts) ==
  LET stamps == Stamped(flow, ts)
  IN  /\ heard' = heard \cup {<<flow, ts>>}
      /\ flows' = [f \in DOMAIN flows \cup {flow} |-> IF f = flow THEN stamps ELSE flows[f]]
      /\ IF Fires(flow, stamps)
           THEN /\ alerted_flows' = alerted_flows \cup {flow}
                /\ alerts' = Append(alerts, [flow |-> flow, ts |-> ts])
           ELSE UNCHANGED <<alerted_flows, alerts>>

-----------------------------------------------------------------------------
(***************************************************************************)
(* Properties                                                              *)
(***************************************************************************)

\* The latest MaxStamps of the times up to `last` at which a flow was heard.
Recent(flow, last) ==
  LET times == {h[2] : h \in {x \in heard : x[1] = flow /\ x[2] <= last}}
  IN  {t \in times : Cardinality({u \in times : u > t}) < MaxStamps}

\* The gaps after each of these times but the last; they add up to Length.
GapAfter(times, t) == Min({u \in times : u > t}) - t
Gaps(times)        == {t \in times : \E u \in times : u > t}
Length(times)      == Max(times) - Min(times)

\* Long enough heard, and not too often, to be judged.
Judged(times) ==
  LET n == Cardinality(Gaps(times))
  IN  n >= MinSamples /\ Length(times) >= MinInterval * n

\* A flow whose recent intervals differ by at most 2 * MaxCv percent of their
\* mean is alerted, however irregular it was before and however often its
\* packets repeat within a second: no set of numbers deviates from its mean by
\* more than half its range.
BeaconsDetected ==
  \A flow \in DOMAIN flows :
    LET times == Recent(flow, Max({h[2] : h \in heard}))
        n     == Cardinality(Gaps(times))
    IN  /\ Judged(times)
        /\ \A t, u \in Gaps(times) :
             100 * n * (GapAfter(times, t) - GapAfter(times, u)) <= 2 * MaxCv * Length(times)
        => flow \in alerted_flows

\* No false alarm: at an alert the flow had been heard for MinSamples intervals
\* of MinInterval on average, and none was off the mean by more than the
\* allowed deviation times the root of their number.
BeaconsSound ==
  \A i \in 1 .. Len(alerts) :
    LET times == Recent(alerts[i].flow, alerts[i].ts)
        n     == Cardinality(Gaps(times))
    IN  /\ Judged(times)
        /\ \A t \in Gaps(times) :
             LET off == n * GapAfter(times, t) - Length(times)
             IN  10000 * off * off <= n * MaxCv * MaxCv * Length(times) * Length(times)

\* A flow is alerted once.
AlertedOnce == \A i, j \in 1 .. Len(alerts) : alerts[i].flow = alerts[j].flow => i = j
=============================================================================
