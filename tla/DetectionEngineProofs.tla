------------------------ MODULE DetectionEngineProofs ------------------------
(***************************************************************************)
(* Proofs about the detection engine for all lengths of windows, all       *)
(* thresholds, sets of addresses and ports, and captures of any length:    *)
(* the port scan rule alone, then the rules among one another.             *)
(***************************************************************************)
EXTENDS DetectionEngine, FiniteSetTheorems, WellFoundedInduction, TLAPS

\* The rule keeps a window start and a set of ports per source.
THEOREM TypeCorrect == Spec => []TypeOK
<1> USE BoundsAssumption
<1>1. Init => TypeOK
  BY DEF Init, TypeOK
<1>2. TypeOK /\ [Next]_vars => TypeOK'
  <2> SUFFICES ASSUME TypeOK, [Next]_vars PROVE TypeOK'
    OBVIOUS
  <2>1. ASSUME NEW ts \in 0 .. MaxTime, FeedOther(ts) PROVE TypeOK'
    BY <2>1 DEF FeedOther, TypeOK
  <2>2. ASSUME NEW syn \in Syn, FeedSyn(syn) PROVE TypeOK'
    <3>1. /\ syn.src \in Hosts /\ syn.dst \in Hosts /\ syn.port \in Ports
          /\ syn.ts \in 0 .. MaxTime
      BY DEF Syn
    <3>2. Window(syn.src, syn.ts) \in [start : 0 .. MaxTime, ports : SUBSET Ports]
      BY <3>1 DEF Window, TypeOK
    <3> QED
      BY <2>2, <3>1, <3>2 DEF FeedSyn, TypeOK
  <2>3. CASE UNCHANGED vars
    BY <2>3 DEF vars, TypeOK
  <2> QED
    BY <2>1, <2>2, <2>3 DEF Next
<1> QED
  BY <1>1, <1>2, PTL DEF Spec

-----------------------------------------------------------------------------
\* A window holds only ports its source touched since the window's start, and
\* neither a SYN nor a window start is later than the last packet.
WindowInv ==
  /\ \A s \in syns : s.ts <= now
  /\ \A h \in DOMAIN state :
       /\ state[h].start <= now
       /\ \A port \in state[h].ports :
            \E s \in syns : s.src = h /\ s.port = port /\ state[h].start <= s.ts

SoundInv == TypeOK /\ WindowInv /\ AlertSound

\* The window a SYN falls into is no older than WindowSecs seconds.
LEMMA WindowCurrent ==
  ASSUME TypeOK, WindowInv, NEW syn \in Syn, now <= syn.ts
  PROVE  /\ Window(syn.src, syn.ts) \in [start : 0 .. MaxTime, ports : SUBSET Ports]
         /\ Window(syn.src, syn.ts).start <= syn.ts
         /\ syn.ts - Window(syn.src, syn.ts).start <= WindowSecs
<1> USE BoundsAssumption, WindowAssumption
<1>1. syn.ts \in 0 .. MaxTime /\ now \in 0 .. MaxTime
  BY DEF Syn, TypeOK
<1>2. CASE syn.src \notin DOMAIN state \/ Expired(state[syn.src].start, syn.ts)
  BY <1>1, <1>2 DEF Window
<1>3. CASE ~ (syn.src \notin DOMAIN state \/ Expired(state[syn.src].start, syn.ts))
  <2>1. /\ Window(syn.src, syn.ts) = state[syn.src]
        /\ state[syn.src] \in [start : 0 .. MaxTime, ports : SUBSET Ports]
        /\ state[syn.src].start <= now
    BY <1>3 DEF Window, TypeOK, WindowInv
  <2> QED
    BY <1>1, <1>3, <2>1 DEF Expired, SatSub
<1> QED
  BY <1>2, <1>3

\* More SYNs only add to the ports touched.
LEMMA PortsTouchedGrow ==
  ASSUME syns' \subseteq Syn, syns \subseteq syns', NEW src, NEW first, NEW last,
         Cardinality(PortsTouched(src, first, last)) >= Threshold
  PROVE  Cardinality(PortsTouched(src, first, last)') >= Threshold
<1> DEFINE earlier == PortsTouched(src, first, last)
           later   == PortsTouched(src, first, last)'
<1>1. later \subseteq Ports /\ earlier \subseteq later
  BY DEF PortsTouched, Syn
<1>2. IsFiniteSet(later)
  BY <1>1, PortsAssumption, FS_Subset
<1> HIDE DEF earlier, later
<1>3. Cardinality(earlier) <= Cardinality(later) /\ IsFiniteSet(earlier)
  BY <1>1, <1>2, FS_Subset
<1>4. Cardinality(later) \in Nat /\ Cardinality(earlier) \in Nat
  BY <1>2, <1>3, FS_CardinalityType
<1>5. Cardinality(earlier) >= Threshold
  BY DEF earlier
<1> QED
  BY <1>3, <1>4, <1>5, ThresholdAssumption DEF later

\* SoundInv is inductive.
LEMMA SoundInvariant == Spec => []SoundInv
<1> USE BoundsAssumption, WindowAssumption, ThresholdAssumption
<1>1. Init => SoundInv
  <2> SUFFICES ASSUME Init PROVE SoundInv
    OBVIOUS
  <2>1. TypeOK
    BY DEF Init, TypeOK
  <2>2. WindowInv /\ AlertSound
    BY DEF Init, WindowInv, AlertSound
  <2> QED
    BY <2>1, <2>2 DEF SoundInv
<1>2. SoundInv /\ TypeOK' /\ [Next]_vars => SoundInv'
  <2> SUFFICES ASSUME SoundInv, TypeOK', [Next]_vars PROVE SoundInv'
    OBVIOUS
  <2> USE DEF SoundInv
  <2>1. ASSUME NEW ts \in 0 .. MaxTime, FeedOther(ts) PROVE SoundInv'
    <3>1. WindowInv'
      BY <2>1 DEF FeedOther, WindowInv, TypeOK, Syn
    <3>2. AlertSound'
      BY <2>1 DEF FeedOther, AlertSound, PortsTouched
    <3> QED
      BY <3>1, <3>2
  <2>2. ASSUME NEW syn \in Syn, FeedSyn(syn) PROVE SoundInv'
    <3> DEFINE window == Window(syn.src, syn.ts)
               ports  == window.ports \cup {syn.port}
    <3>1. /\ syn.src \in Hosts /\ syn.ts \in 0 .. MaxTime /\ now \in 0 .. MaxTime
          /\ now <= syn.ts /\ now' = syn.ts /\ syns' = syns \cup {syn}
      BY <2>2 DEF FeedSyn, TypeOK, Syn
    <3>2. syns' \subseteq Syn
      BY DEF TypeOK
    <3>3. /\ window \in [start : 0 .. MaxTime, ports : SUBSET Ports]
          /\ window.start <= syn.ts
          /\ syn.ts - window.start <= WindowSecs
      BY <2>2, WindowCurrent DEF FeedSyn
    <3>4. \A port \in ports :
            \E s \in syns' : /\ s.src = syn.src /\ s.port = port
                             /\ window.start <= s.ts /\ s.ts <= syn.ts
      <4> SUFFICES ASSUME NEW port \in ports
                   PROVE \E s \in syns' : /\ s.src = syn.src /\ s.port = port
                                          /\ window.start <= s.ts /\ s.ts <= syn.ts
        OBVIOUS
      <4>1. CASE port \in window.ports
        <5>1. window = state[syn.src] /\ syn.src \in DOMAIN state
          BY <4>1 DEF Window
        <5>2. PICK s \in syns : s.src = syn.src /\ s.port = port /\ window.start <= s.ts
          BY <4>1, <5>1 DEF WindowInv
        <5>3. s.ts <= now /\ s.ts \in 0 .. MaxTime
          BY <5>2 DEF WindowInv, TypeOK, Syn
        <5>4. s.ts <= syn.ts
          BY <3>1, <5>3
        <5> QED
          BY <3>1, <5>2, <5>4
      <4>2. CASE port = syn.port
        BY <3>1, <3>3, <4>2
      <4> QED
        BY <4>1, <4>2
    <3>5. /\ DOMAIN state' = DOMAIN state \cup {syn.src}
          /\ \A h \in DOMAIN state' :
               state'[h] = IF h = syn.src THEN [start |-> window.start, ports |-> ports]
                                          ELSE state[h]
      <4>1. [window EXCEPT !.ports = ports] = [start |-> window.start, ports |-> ports]
        <5>1. window \in [start : 0 .. MaxTime, ports : SUBSET Ports]
          BY <3>3
        <5> HIDE DEF window, ports
        <5> QED
          BY <5>1
      <4> QED
        BY <2>2, <4>1 DEF FeedSyn
    <3>6. WindowInv'
      <4> HIDE DEF window, ports
      <4>1. \A s \in syns' : s.ts <= now'
        BY <3>1 DEF WindowInv, TypeOK, Syn
      <4>2. ASSUME NEW h \in DOMAIN state'
            PROVE  /\ state'[h].start <= now'
                   /\ \A port \in state'[h].ports :
                        \E s \in syns' : s.src = h /\ s.port = port /\ state'[h].start <= s.ts
        <5>1. CASE h = syn.src
          BY <3>1, <3>3, <3>4, <3>5, <5>1
        <5>2. CASE h # syn.src
          <6>1. h \in DOMAIN state /\ state'[h] = state[h] /\ state[h].start \in 0 .. MaxTime
            BY <3>5, <5>2 DEF TypeOK
          <6> QED
            BY <3>1, <6>1 DEF WindowInv
        <5> QED
          BY <5>1, <5>2
      <4> QED
        BY <3>2, <4>1, <4>2 DEF WindowInv
    <3>7. ASSUME Fires(ports)
          PROVE  Cardinality(PortsTouched(syn.src, syn.ts - WindowSecs, syn.ts)') >= Threshold
      <4> DEFINE touched == PortsTouched(syn.src, syn.ts - WindowSecs, syn.ts)'
      <4>1. ports \subseteq touched
        <5> SUFFICES ASSUME NEW port \in ports PROVE port \in touched
          OBVIOUS
        <5>1. PICK s \in syns' : /\ s.src = syn.src /\ s.port = port
                                 /\ window.start <= s.ts /\ s.ts <= syn.ts
          BY <3>4
        <5>2. s.ts \in 0 .. MaxTime
          BY <5>1 DEF TypeOK, Syn
        <5>3. syn.ts - WindowSecs <= s.ts
          BY <3>1, <3>3, <5>1, <5>2
        <5> QED
          BY <5>1, <5>3 DEF PortsTouched
      <4>2. IsFiniteSet(touched)
        <5>1. touched \subseteq Ports
          BY DEF PortsTouched, TypeOK, Syn
        <5> QED
          BY <5>1, PortsAssumption, FS_Subset
      <4> HIDE DEF touched, ports, window
      <4>3. Cardinality(ports) <= Cardinality(touched)
        BY <4>1, <4>2, FS_Subset
      <4>4. Cardinality(touched) \in Nat /\ Cardinality(ports) = Threshold
        BY <3>7, <4>2, FS_CardinalityType DEF Fires
      <4> QED
        BY <4>3, <4>4 DEF touched
    <3>8. AlertSound'
      <4> SUFFICES ASSUME NEW a \in alerts'
                   PROVE Cardinality(PortsTouched(a.src, a.ts - WindowSecs, a.ts)') >= Threshold
        BY DEF AlertSound, PortsTouched
      <4>1. CASE a \in alerts
        BY <3>1, <3>2, <4>1, PortsTouchedGrow DEF AlertSound
      <4>2. CASE a \notin alerts
        <5>1. Fires(ports) /\ a = [src |-> syn.src, dst |-> syn.dst, ts |-> syn.ts]
          BY <2>2, <4>2 DEF FeedSyn
        <5> QED
          BY <3>7, <5>1
      <4> QED
        BY <4>1, <4>2
    <3> QED
      BY <3>6, <3>8
  <2>3. CASE UNCHANGED vars
    BY <2>3 DEF vars, WindowInv, AlertSound, PortsTouched, TypeOK
  <2> QED
    BY <2>1, <2>2, <2>3 DEF Next
<1> QED
  BY <1>1, <1>2, TypeCorrect, PTL DEF Spec

\* No false alarm: whoever is alerted sent SYNs to Threshold distinct ports in
\* the WindowSecs seconds before the alert.
THEOREM NoFalseAlarm == Spec => []AlertSound
<1>1. SoundInv => AlertSound
  BY DEF SoundInv
<1> QED
  BY <1>1, SoundInvariant, PTL

-----------------------------------------------------------------------------
\* An alert of h is dated first .. last.
AlertedIn(h, first, last) ==
  \E a \in alerts : a.src = h /\ first <= a.ts /\ a.ts <= last

\* What a burst that spans a window's start leaves behind: the SYNs since the
\* start are in the window, the window fired once it held Threshold ports, and
\* Threshold ports touched shortly before it had fired their own.
BurstInv ==
  /\ \A a \in alerts : a.ts <= now
  /\ \A s \in syns : /\ s.src \in DOMAIN state
                     /\ s.ts <= state[s.src].start + WindowSecs
                     /\ state[s.src].start <= s.ts => s.port \in state[s.src].ports
  /\ \A h \in DOMAIN state :
       Cardinality(state[h].ports) >= Threshold =>
         AlertedIn(h, state[h].start, state[h].start + WindowSecs)
  /\ \A h \in DOMAIN state, t \in 0 .. MaxTime :
       /\ t < state[h].start /\ state[h].start <= t + WindowSecs
       /\ Cardinality(PortsTouched(h, t, state[h].start - 1)) >= Threshold
       => AlertedIn(h, t - WindowSecs, state[h].start - 1)

\* One SYN's step keeps BurstInv.
LEMMA BurstStep ==
  ASSUME TypeOK, TypeOK', WindowInv, BurstInv, NEW syn \in Syn, FeedSyn(syn)
  PROVE  BurstInv'
<1> USE BoundsAssumption, WindowAssumption, ThresholdAssumption
<1> DEFINE src == syn.src
<1>1. PICK start, ports : /\ start = Window(src, syn.ts).start
                          /\ ports = Window(src, syn.ts).ports \cup {syn.port}
  OBVIOUS
<1>2. /\ src \in Hosts /\ syn.ts \in 0 .. MaxTime /\ now \in 0 .. MaxTime
      /\ now <= syn.ts /\ now' = syn.ts /\ syns' = syns \cup {syn}
      /\ syns' \subseteq Syn /\ syn.port \in Ports
  BY DEF FeedSyn, TypeOK, Syn
<1>3. /\ Window(src, syn.ts) \in [start : 0 .. MaxTime, ports : SUBSET Ports]
      /\ start \in 0 .. MaxTime /\ start <= syn.ts /\ syn.ts <= start + WindowSecs
  BY <1>1, <1>2, WindowCurrent
<1>4. /\ DOMAIN state' = DOMAIN state \cup {src}
      /\ state'[src] = [start |-> start, ports |-> ports]
      /\ \A h \in DOMAIN state : h # src => state'[h] = state[h]
  <2>1. [Window(src, syn.ts) EXCEPT !.ports = ports] = [start |-> start, ports |-> ports]
    BY <1>1, <1>3
  <2> QED
    BY <1>1, <2>1 DEF FeedSyn
<1>5. /\ alerts \subseteq alerts'
      /\ \A a \in alerts' : a \in alerts \/ a.ts = syn.ts
      /\ Fires(ports) => AlertedIn(src, syn.ts, syn.ts)'
  <2>1. PICK alert : alert = [src |-> src, dst |-> syn.dst, ts |-> syn.ts]
    OBVIOUS
  <2>2. alert.src = src /\ alert.ts = syn.ts
    BY <2>1
  <2>3. alerts' = IF Fires(ports) THEN alerts \cup {alert} ELSE alerts
    BY <1>1, <2>1 DEF FeedSyn
  <2>4. Fires(ports) => \E a \in alerts' : a.src = src /\ syn.ts <= a.ts /\ a.ts <= syn.ts
    BY <1>2, <2>2, <2>3
  <2> QED
    BY <2>2, <2>3, <2>4 DEF AlertedIn
<1>6. ASSUME NEW h \in DOMAIN state, h # src
      PROVE  state'[h] = state[h] /\ h \in DOMAIN state' /\ h \in Hosts
  BY <1>4, <1>6 DEF TypeOK
<1>7. Fires(ports) => AlertedIn(src, start, start + WindowSecs)'
  <2> SUFFICES ASSUME NEW a \in alerts', a.src = src, syn.ts <= a.ts, a.ts <= syn.ts
               PROVE  start <= a.ts /\ a.ts <= start + WindowSecs
    BY <1>5 DEF AlertedIn
  <2>1. a.ts \in 0 .. MaxTime
    BY DEF TypeOK
  <2> QED
    BY <1>2, <1>3, <2>1
\* The window the SYN is counted in fires when it reaches the threshold.
<1>8. Cardinality(ports) >= Threshold =>
        AlertedIn(src, start, start + WindowSecs)'
  <2>1. CASE src \notin DOMAIN state \/ Expired(state[src].start, syn.ts)
    <3>1. ports = {syn.port}
      BY <1>1, <2>1 DEF Window
    <3>2. Cardinality(ports) = 1
      BY <3>1, FS_Singleton
    <3>3. 1 >= Threshold => Fires(ports)
      BY <3>2 DEF Fires
    <3> QED
      BY <1>7, <3>2, <3>3
  <2>2. CASE ~ (src \notin DOMAIN state \/ Expired(state[src].start, syn.ts))
    <3> DEFINE held == state[src].ports
    <3>1. src \in DOMAIN state /\ start = state[src].start /\ ports = held \cup {syn.port}
      BY <1>1, <2>2 DEF Window
    <3>2. held \subseteq Ports /\ IsFiniteSet(held)
      BY <3>1, PortsAssumption, FS_Subset DEF TypeOK
    <3>3. /\ Cardinality(held) \in Nat
          /\ Cardinality(ports) = Cardinality(held) \/ Cardinality(ports) = Cardinality(held) + 1
      BY <3>1, <3>2, FS_CardinalityType, FS_AddElement
    <3>4. CASE Cardinality(held) >= Threshold
      <4>1. AlertedIn(src, start, start + WindowSecs)
        BY <3>1, <3>4 DEF BurstInv
      <4> QED
        BY <1>4, <1>5, <4>1 DEF AlertedIn
    <3>5. CASE ~ (Cardinality(held) >= Threshold) /\ Cardinality(ports) >= Threshold
      <4>1. Fires(ports)
        <5> HIDE DEF held
        <5> QED
          BY <3>3, <3>5 DEF Fires
      <4> QED
        BY <1>7, <4>1
    <3> QED
      BY <3>4, <3>5
  <2> QED
    BY <2>1, <2>2
\* Of the source's SYNs, those from the window's start on are the window's.
<1>9. ASSUME NEW s \in syns', s.src = src
      PROVE  s.ts <= start + WindowSecs /\ (start <= s.ts => s.port \in ports)
  <2>1. CASE s = syn
    BY <1>1, <1>3, <2>1
  <2>2. CASE s \in syns
    <3>1. /\ src \in DOMAIN state /\ s.ts <= state[src].start + WindowSecs
          /\ state[src].start <= s.ts => s.port \in state[src].ports
      BY <1>9, <2>2 DEF BurstInv
    <3>2. state[src].start \in 0 .. MaxTime /\ s.ts \in 0 .. MaxTime
      BY <2>2, <3>1 DEF TypeOK, Syn
    <3>3. CASE Expired(state[src].start, syn.ts)
      <4>1. start = syn.ts
        BY <1>1, <3>3 DEF Window
      <4> QED
        BY <1>2, <3>1, <3>2, <3>3, <4>1 DEF Expired, SatSub
    <3>4. CASE ~ Expired(state[src].start, syn.ts)
      <4>1. start = state[src].start /\ ports = state[src].ports \cup {syn.port}
        BY <1>1, <3>1, <3>4 DEF Window
      <4> QED
        BY <3>1, <4>1
    <3> QED
      BY <3>3, <3>4
  <2> QED
    BY <1>2, <2>1, <2>2
\* Threshold ports shortly before the window's start fired the window before.
<1>10. ASSUME NEW t \in 0 .. MaxTime, t < start, start <= t + WindowSecs,
             Cardinality(PortsTouched(src, t, start - 1)') >= Threshold
      PROVE  AlertedIn(src, t - WindowSecs, start - 1)'
  <2>1. PortsTouched(src, t, start - 1)' = PortsTouched(src, t, start - 1)
    BY <1>2, <1>3 DEF PortsTouched
  <2>2. CASE src \notin DOMAIN state
    <3>1. PortsTouched(src, t, start - 1) = {}
      BY <2>2 DEF PortsTouched, BurstInv
    <3> QED
      BY <1>10, <2>1, <3>1, FS_EmptySet
  <2>3. CASE src \in DOMAIN state /\ ~ Expired(state[src].start, syn.ts)
    <3>1. start = state[src].start
      BY <1>1, <2>3 DEF Window
    <3>2. AlertedIn(src, t - WindowSecs, start - 1)
      BY <1>10, <2>1, <2>3, <3>1 DEF BurstInv
    <3> QED
      BY <1>5, <3>2 DEF AlertedIn
  <2>4. CASE src \in DOMAIN state /\ Expired(state[src].start, syn.ts)
    <3> DEFINE old     == state[src].start
               touched == PortsTouched(src, t, start - 1)
    <3>1. /\ start = syn.ts /\ old \in 0 .. MaxTime /\ old + WindowSecs < start
          /\ state[src].ports \subseteq Ports
      <4>1. start = syn.ts
        BY <1>1, <2>4 DEF Window
      <4>2. old \in 0 .. MaxTime /\ state[src].ports \subseteq Ports
        BY <2>4 DEF TypeOK
      <4> QED
        BY <1>2, <2>4, <4>1, <4>2 DEF Expired, SatSub
    <3>2. touched \subseteq state[src].ports
      <4> SUFFICES ASSUME NEW s \in syns, s.src = src, t <= s.ts
                   PROVE  s.port \in state[src].ports
        BY DEF PortsTouched
      <4>1. s.ts \in 0 .. MaxTime
        BY DEF TypeOK, Syn
      <4>2. old <= s.ts
        BY <1>3, <1>10, <3>1, <4>1
      <4>3. s \in syns /\ s.src = src
        OBVIOUS
      <4> QED
        BY <4>2, <4>3 DEF BurstInv
    <3>3. PICK s \in syns : s.src = src /\ t <= s.ts
      <4>1. touched # {}
        BY <1>10, <2>1, FS_EmptySet
      <4> QED
        BY <4>1 DEF PortsTouched
    <3>4. t - WindowSecs <= old
      <4>1. s.ts \in 0 .. MaxTime /\ s.ts <= old + WindowSecs
        BY <3>3 DEF TypeOK, Syn, BurstInv
      <4> QED
        BY <3>1, <3>3, <4>1
    <3>5. Cardinality(state[src].ports) >= Threshold
      <4> HIDE DEF touched
      <4>1. IsFiniteSet(state[src].ports)
        BY <3>1, PortsAssumption, FS_Subset
      <4>2. /\ Cardinality(touched) <= Cardinality(state[src].ports)
            /\ Cardinality(touched) \in Nat /\ Cardinality(state[src].ports) \in Nat
        BY <3>2, <4>1, FS_Subset, FS_CardinalityType
      <4>3. Cardinality(touched) >= Threshold
        BY <1>10, <2>1 DEF touched
      <4> QED
        BY <4>2, <4>3
    <3>6. AlertedIn(src, old, old + WindowSecs)
      BY <2>4, <3>5 DEF BurstInv
    <3>7. PICK a \in alerts : a.src = src /\ old <= a.ts /\ a.ts <= old + WindowSecs
      BY <3>6 DEF AlertedIn
    <3>8. a.ts \in 0 .. MaxTime
      BY <3>7 DEF TypeOK
    <3>9. t - WindowSecs <= a.ts /\ a.ts <= start - 1
      BY <1>3, <3>1, <3>4, <3>7, <3>8
    <3> QED
      BY <1>5, <3>7, <3>9 DEF AlertedIn
  <2> QED
    BY <2>2, <2>3, <2>4
<1>11. \A a \in alerts' : a.ts <= now'
  <2> SUFFICES ASSUME NEW a \in alerts' PROVE a.ts <= syn.ts
    BY <1>2
  <2>1. CASE a \in alerts
    <3>1. a.ts <= now /\ a.ts \in 0 .. MaxTime
      BY <2>1 DEF BurstInv, TypeOK
    <3> QED
      BY <1>2, <3>1
  <2> QED
    BY <1>2, <1>5, <2>1
<1>12. ASSUME NEW s \in syns'
       PROVE  /\ s.src \in DOMAIN state'
              /\ s.ts <= state'[s.src].start + WindowSecs
              /\ state'[s.src].start <= s.ts => s.port \in state'[s.src].ports
  <2>1. CASE s.src = src
    BY <1>4, <1>9, <2>1
  <2>2. CASE s.src # src
    <3>1. s \in syns
      BY <1>2, <2>2
    <3> QED
      BY <1>6, <2>2, <3>1 DEF BurstInv
  <2> QED
    BY <2>1, <2>2
<1>13. ASSUME NEW h \in DOMAIN state', Cardinality(state'[h].ports) >= Threshold
       PROVE  AlertedIn(h, state[h].start, state[h].start + WindowSecs)'
  <2>1. CASE h = src
    <3>1. state'[h] = [start |-> start, ports |-> ports]
      BY <1>4, <2>1
    <3>2. AlertedIn(src, start, start + WindowSecs)'
      BY <1>8, <1>13, <3>1
    <3> QED
      BY <2>1, <3>1, <3>2 DEF AlertedIn
  <2>2. CASE h # src
    <3>1. h \in DOMAIN state
      BY <1>4, <2>2
    <3>2. AlertedIn(h, state[h].start, state[h].start + WindowSecs)
      BY <1>6, <1>13, <2>2, <3>1 DEF BurstInv
    <3> QED
      BY <1>5, <1>6, <2>2, <3>1, <3>2 DEF AlertedIn
  <2> QED
    BY <2>1, <2>2
<1>14. ASSUME NEW h \in DOMAIN state', NEW t \in 0 .. MaxTime,
              t < state'[h].start, state'[h].start <= t + WindowSecs,
              Cardinality(PortsTouched(h, t, state[h].start - 1)') >= Threshold
       PROVE  AlertedIn(h, t - WindowSecs, state[h].start - 1)'
  <2>1. CASE h = src
    <3>1. state'[h].start = start
      BY <1>4, <2>1
    <3>2. PortsTouched(h, t, state[h].start - 1)' = PortsTouched(src, t, start - 1)'
      BY <2>1, <3>1 DEF PortsTouched
    <3> QED
      BY <1>10, <1>14, <2>1, <3>1, <3>2 DEF AlertedIn
  <2>2. CASE h # src
    <3>1. h \in DOMAIN state /\ state'[h].start = state[h].start
      BY <1>4, <1>6, <2>2
    <3>2. PortsTouched(h, t, state[h].start - 1)' = PortsTouched(h, t, state[h].start - 1)
      BY <1>2, <2>2, <3>1 DEF PortsTouched
    <3>3. AlertedIn(h, t - WindowSecs, state[h].start - 1)
      BY <1>14, <3>1, <3>2 DEF BurstInv
    <3> QED
      BY <1>5, <3>1, <3>3 DEF AlertedIn
  <2> QED
    BY <2>1, <2>2
<1> QED
  BY <1>11, <1>12, <1>13, <1>14 DEF BurstInv

\* A SYN that completes a burst finds the alert: of the ports touched before
\* the window's start and those in the window, one lot is a threshold's.
LEMMA BurstCaught ==
  ASSUME TypeOK, TypeOK', WindowInv, BurstInv', NEW syn \in Syn, FeedSyn(syn),
         NEW t \in 0 .. MaxTime, t <= syn.ts, syn.ts <= t + WindowSecs,
         Cardinality(PortsTouched(syn.src, t, t + WindowSecs)') >= 2 * Threshold - 1
  PROVE  AlertedIn(syn.src, t - WindowSecs, t + WindowSecs)'
<1> USE BoundsAssumption, WindowAssumption, ThresholdAssumption
<1> DEFINE src == syn.src
<1>0. PICK start, ports : start = state'[src].start /\ ports = state'[src].ports
  OBVIOUS
<1>1. /\ src \in DOMAIN state' /\ syn.ts \in 0 .. MaxTime /\ now' = syn.ts
      /\ start = Window(src, syn.ts).start
  <2>1. now <= syn.ts /\ now' = syn.ts /\ src \in DOMAIN state'
    BY DEF FeedSyn
  <2>2. Window(src, syn.ts) \in [start : 0 .. MaxTime, ports : SUBSET Ports]
    BY <2>1, WindowCurrent
  <2>3. state'[src].start = Window(src, syn.ts).start
    BY <2>2 DEF FeedSyn
  <2> QED
    BY <1>0, <2>1, <2>3 DEF Syn
<1>2. start \in 0 .. MaxTime /\ start <= syn.ts /\ syn.ts <= start + WindowSecs
  <2>1. now <= syn.ts
    BY DEF FeedSyn
  <2> QED
    BY <1>1, <2>1, WindowCurrent
<1>3. ports \subseteq Ports /\ IsFiniteSet(ports)
  BY <1>0, <1>1, PortsAssumption, FS_Subset DEF TypeOK
<1> DEFINE touched == PortsTouched(src, t, t + WindowSecs)'
           before  == PortsTouched(src, t, start - 1)'
<1>4. touched \subseteq before \cup ports
  <2> SUFFICES ASSUME NEW s \in syns', s.src = src, t <= s.ts
               PROVE  s.port \in before \cup ports
    BY DEF PortsTouched
  <2>1. s.ts \in 0 .. MaxTime
    BY DEF TypeOK, Syn
  <2>2. CASE start <= s.ts
    BY <1>0, <1>1, <2>2 DEF BurstInv
  <2>3. CASE s.ts <= start - 1
    BY <2>3 DEF PortsTouched
  <2> QED
    BY <1>2, <2>1, <2>2, <2>3
<1>5. before \subseteq Ports /\ IsFiniteSet(before)
  <2>1. before \subseteq Ports
    BY DEF PortsTouched, TypeOK, Syn
  <2> QED
    BY <2>1, PortsAssumption, FS_Subset
\* A whole threshold in the window itself.
<1>6. CASE Cardinality(ports) >= Threshold
  <2>1. PICK a \in alerts' : a.src = src /\ start <= a.ts /\ a.ts <= start + WindowSecs
    BY <1>0, <1>1, <1>6 DEF BurstInv, AlertedIn
  <2>2. a.ts \in 0 .. MaxTime /\ a.ts <= syn.ts
    BY <1>1 DEF TypeOK, BurstInv
  <2>3. t - WindowSecs <= a.ts /\ a.ts <= t + WindowSecs
    BY <1>1, <1>2, <2>1, <2>2
  <2> QED
    BY <2>1, <2>3 DEF AlertedIn
\* Or as many before its start.
<1>7. CASE ~ (Cardinality(ports) >= Threshold)
  <2>1. Cardinality(before) >= Threshold /\ before # {}
    <3> HIDE DEF touched, before
    <3>1. /\ IsFiniteSet(before \cup ports)
          /\ Cardinality(before \cup ports)
               = Cardinality(before) + Cardinality(ports) - Cardinality(before \cap ports)
      BY <1>3, <1>5, FS_Union
    <3>2. Cardinality(touched) <= Cardinality(before \cup ports)
      BY <1>4, <3>1, FS_Subset
    <3>3. IsFiniteSet(touched) /\ IsFiniteSet(before \cap ports)
      BY <1>3, <1>4, <3>1, FS_Subset
    <3>4. /\ Cardinality(touched) \in Nat /\ Cardinality(before) \in Nat
          /\ Cardinality(ports) \in Nat /\ Cardinality(before \cap ports) \in Nat
      BY <1>3, <1>5, <3>3, FS_CardinalityType
    <3>5. Cardinality(touched) >= 2 * Threshold - 1
      BY DEF touched
    <3>6. Cardinality(before) >= Threshold
      BY <1>7, <3>1, <3>2, <3>4, <3>5
    <3> QED
      BY <3>6, FS_EmptySet
  <2>2. PICK s \in syns' : t <= s.ts /\ s.ts <= start - 1
    BY <2>1 DEF PortsTouched
  <2>3. t < start /\ start <= t + WindowSecs
    <3>1. s.ts \in 0 .. MaxTime
      BY DEF TypeOK, Syn
    <3> QED
      BY <1>1, <1>2, <2>2, <3>1
  <2>4. Cardinality(PortsTouched(src, t, state[src].start - 1)') >= Threshold
    BY <1>0, <2>1 DEF PortsTouched
  <2>5. AlertedIn(src, t - WindowSecs, state[src].start - 1)'
    BY <1>0, <1>1, <2>3, <2>4 DEF BurstInv
  <2>6. PICK a \in alerts' : a.src = src /\ t - WindowSecs <= a.ts /\ a.ts <= start - 1
    BY <1>0, <2>5 DEF AlertedIn
  <2>7. a.ts \in 0 .. MaxTime
    BY DEF TypeOK
  <2>8. a.ts <= t + WindowSecs
    BY <1>2, <2>3, <2>6, <2>7
  <2> QED
    BY <2>6, <2>8 DEF AlertedIn
<1> QED
  BY <1>6, <1>7

\* No scan passes twice the threshold: 2 * Threshold - 1 ports within WindowSecs
\* seconds meet at most two of the source's windows, so one of them fired.
THEOREM BurstsAlerted == Spec => []BurstDetected
<1> USE BoundsAssumption, WindowAssumption, ThresholdAssumption
<1> DEFINE Inv == BurstInv /\ BurstDetected
<1>1. Init => Inv
  <2> SUFFICES ASSUME Init PROVE Inv
    OBVIOUS
  <2>1. BurstInv
    BY DEF Init, BurstInv
  <2>2. ASSUME NEW h \in Hosts, NEW t \in 0 .. MaxTime
        PROVE  Cardinality(PortsTouched(h, t, t + WindowSecs)) = 0
    <3>1. PortsTouched(h, t, t + WindowSecs) = {}
      BY DEF Init, PortsTouched
    <3> QED
      BY <3>1, FS_EmptySet
  <2> QED
    BY <2>1, <2>2 DEF BurstDetected
<1>2. SoundInv /\ SoundInv' /\ Inv /\ [Next]_vars => Inv'
  <2> SUFFICES ASSUME SoundInv, SoundInv', Inv, [Next]_vars PROVE Inv'
    OBVIOUS
  <2> USE DEF SoundInv
  <2>1. ASSUME NEW syn \in Syn, FeedSyn(syn) PROVE Inv'
    <3>1. BurstInv'
      BY <2>1, BurstStep
    <3>2. ASSUME NEW h \in Hosts, NEW t \in 0 .. MaxTime,
                 Cardinality(PortsTouched(h, t, t + WindowSecs)') >= 2 * Threshold - 1
          PROVE  AlertedIn(h, t - WindowSecs, t + WindowSecs)'
      <4>1. CASE h = syn.src /\ t <= syn.ts /\ syn.ts <= t + WindowSecs
        BY <2>1, <3>1, <3>2, <4>1, BurstCaught
      <4>2. CASE ~ (h = syn.src /\ t <= syn.ts /\ syn.ts <= t + WindowSecs)
        <5>1. syns' = syns \cup {syn} /\ alerts \subseteq alerts'
          BY <2>1 DEF FeedSyn
        <5>2. PortsTouched(h, t, t + WindowSecs)' = PortsTouched(h, t, t + WindowSecs)
          BY <4>2, <5>1 DEF PortsTouched
        <5>3. AlertedIn(h, t - WindowSecs, t + WindowSecs)
          BY <3>2, <5>2 DEF BurstDetected, AlertedIn
        <5> QED
          BY <5>1, <5>3 DEF AlertedIn
      <4> QED
        BY <4>1, <4>2
    <3>3. BurstDetected'
      BY <3>2 DEF BurstDetected, AlertedIn
    <3> QED
      BY <3>1, <3>3
  <2>2. ASSUME NEW ts \in 0 .. MaxTime, FeedOther(ts) PROVE Inv'
    <3>1. now \in 0 .. MaxTime /\ now <= now' /\ now' \in 0 .. MaxTime
      BY <2>2 DEF FeedOther, TypeOK
    <3>2. \A a \in alerts : a.ts \in 0 .. MaxTime
      BY DEF TypeOK
    <3>3. state' = state /\ alerts' = alerts /\ syns' = syns
      BY <2>2 DEF FeedOther
    <3>4. BurstInv'
      BY <3>1, <3>2, <3>3 DEF BurstInv, PortsTouched, AlertedIn
    <3>5. BurstDetected'
      BY <3>3 DEF BurstDetected, PortsTouched
    <3> QED
      BY <3>4, <3>5
  <2>3. CASE UNCHANGED vars
    <3>1. BurstInv'
      BY <2>3 DEF vars, BurstInv, PortsTouched, AlertedIn
    <3>2. BurstDetected'
      BY <2>3 DEF vars, BurstDetected, PortsTouched
    <3> QED
      BY <3>1, <3>2
  <2> QED
    BY <2>1, <2>2, <2>3 DEF Next
<1> QED
  BY <1>1, <1>2, SoundInvariant, PTL DEF Spec

-----------------------------------------------------------------------------
(***************************************************************************)
(* The ARP spoofing rule                                                   *)
(***************************************************************************)
\* Two claimants are what the count of a conflict means.
LEMMA CountIsConflict ==
  ASSUME NEW S \in SUBSET Macs, NEW mac \in Macs, IsFiniteSet(S)
  PROVE  /\ Cardinality(S \cup {mac}) \in Nat
         /\ Cardinality(S \cup {mac}) > 1 <=> \E m \in S : m # mac
<1>1. IsFiniteSet(S \cup {mac})
  BY FS_AddElement
<1>2. Cardinality(S \cup {mac}) \in Nat
  BY <1>1, FS_CardinalityType
<1>3. ASSUME NEW m \in S, m # mac PROVE Cardinality(S \cup {mac}) > 1
  <2>1. IsFiniteSet({mac}) /\ Cardinality({mac}) = 1
    BY FS_Singleton
  <2>2. Cardinality({mac} \cup {m}) = 2
    <3>1. m \notin {mac}
      BY <1>3
    <3>2. Cardinality({mac} \cup {m}) = Cardinality({mac}) + 1
      BY <2>1, <3>1, FS_AddElement
    <3> QED
      BY <2>1, <3>2
  <2>3. {mac} \cup {m} \subseteq S \cup {mac}
    OBVIOUS
  <2>4. Cardinality({mac} \cup {m}) <= Cardinality(S \cup {mac})
    BY <1>1, <2>3, FS_Subset
  <2> QED
    BY <1>2, <2>2, <2>4
<1>4. ASSUME \A m \in S : m = mac PROVE Cardinality(S \cup {mac}) = 1
  <2>1. S \cup {mac} = {mac}
    BY <1>4
  <2> QED
    BY <2>1, FS_Singleton
<1> QED
  BY <1>2, <1>3, <1>4

\* The tables say what was fed and alerted.
ArpTables ==
  /\ \A ip \in IPs : IsFiniteSet(ip_to_macs[ip])
  /\ \A i \in 1 .. Len(arp_fed) : arp_fed[i][2] \in ip_to_macs[arp_fed[i][1]]
  /\ \A ip \in IPs : \A mac \in ip_to_macs[ip] :
       \E i \in 1 .. Len(arp_fed) : arp_fed[i] = <<ip, mac>>
  /\ \A i \in 1 .. Len(arp_alerts) : <<arp_alerts[i].ip, arp_alerts[i].mac>> \in alerted_pairs
  /\ \A pair \in alerted_pairs :
       \E i \in 1 .. Len(arp_alerts) : <<arp_alerts[i].ip, arp_alerts[i].mac>> = pair

\* The table of pairs holds the claims of contested addresses.
ClaimsTabled ==
  \A i, j \in 1 .. Len(arp_fed) :
    i < j /\ arp_fed[i][1] = arp_fed[j][1] /\ arp_fed[i][2] # arp_fed[j][2] =>
      arp_fed[j] \in alerted_pairs

ArpInv == Arp!TypeOK /\ ArpTables /\ ClaimsTabled /\ Arp!AlertSound /\ Arp!AlertedOnce

LEMMA ArpInvariant == Arp!Spec => []ArpInv
<1>1. Arp!Init => ArpInv
  BY FS_EmptySet DEF Arp!Init, ArpInv, Arp!TypeOK, ArpTables, ClaimsTabled,
                     Arp!AlertSound, Arp!AlertedOnce
<1>2. ArpInv /\ [Arp!Next]_(Arp!vars) => ArpInv'
  <2> SUFFICES ASSUME ArpInv, [Arp!Next]_(Arp!vars) PROVE ArpInv'
    OBVIOUS
  <2> USE DEF ArpInv
  <2>1. ASSUME NEW ip \in IPs, NEW mac \in Macs, Arp!FeedArp(ip, mac) PROVE ArpInv'
    <3>1. ip_to_macs[ip] \in SUBSET Macs /\ IsFiniteSet(ip_to_macs[ip])
      BY DEF Arp!TypeOK, ArpTables
    <3>2. /\ Arp!Cardinality(ip_to_macs[ip] \cup {mac}) \in Nat
          /\ Arp!Cardinality(ip_to_macs[ip] \cup {mac}) > 1 <=> \E m \in ip_to_macs[ip] : m # mac
      <4>1. ASSUME NEW S PROVE Arp!Cardinality(S) = Cardinality(S)
        BY DEF Arp!Cardinality, Cardinality
      <4> QED
        BY <3>1, <4>1, CountIsConflict
    <3>3. /\ Len(arp_fed') = Len(arp_fed) + 1 /\ Len(arp_fed) \in Nat
          /\ arp_fed'[Len(arp_fed) + 1] = <<ip, mac>>
          /\ \A i \in 1 .. Len(arp_fed) : arp_fed'[i] = arp_fed[i]
          /\ \A i \in 1 .. Len(arp_fed) : arp_fed[i] \in Arp!Pair
      BY <2>1 DEF Arp!FeedArp, Arp!TypeOK
    <3>4. /\ ip_to_macs'[ip] = ip_to_macs[ip] \cup {mac}
          /\ \A other \in IPs \ {ip} : ip_to_macs'[other] = ip_to_macs[other]
      BY <2>1 DEF Arp!FeedArp, Arp!TypeOK
    <3>5. /\ \A any \in IPs : IsFiniteSet(ip_to_macs'[any])
          /\ \A i \in 1 .. Len(arp_fed') : arp_fed'[i][2] \in ip_to_macs'[arp_fed'[i][1]]
          /\ \A any \in IPs : \A m \in ip_to_macs'[any] :
               \E i \in 1 .. Len(arp_fed') : arp_fed'[i] = <<any, m>>
      <4>1. ASSUME NEW i \in 1 .. Len(arp_fed') PROVE arp_fed'[i][2] \in ip_to_macs'[arp_fed'[i][1]]
        <5>1. CASE i = Len(arp_fed) + 1
          BY <3>3, <3>4, <5>1
        <5>2. CASE i \in 1 .. Len(arp_fed)
          BY <3>3, <3>4, <5>2 DEF ArpTables, Arp!Pair
        <5> QED
          BY <3>3, <5>1, <5>2
      <4>2. ASSUME NEW any \in IPs, NEW m \in ip_to_macs'[any]
            PROVE  \E i \in 1 .. Len(arp_fed') : arp_fed'[i] = <<any, m>>
        <5>1. CASE m \in ip_to_macs[any]
          <6>1. PICK i \in 1 .. Len(arp_fed) : arp_fed[i] = <<any, m>>
            BY <5>1 DEF ArpTables
          <6>2. i \in 1 .. Len(arp_fed') /\ arp_fed'[i] = <<any, m>>
            BY <3>3, <6>1
          <6> QED
            BY <6>2
        <5>2. CASE m \notin ip_to_macs[any]
          <6>1. any = ip /\ m = mac
            BY <3>4, <5>2
          <6>2. Len(arp_fed) + 1 \in 1 .. Len(arp_fed')
            BY <3>3
          <6> QED
            BY <3>3, <6>1, <6>2
        <5> QED
          BY <5>1, <5>2
      <4>3. IsFiniteSet(ip_to_macs'[ip])
        BY <3>1, <3>4, FS_AddElement
      <4>4. ASSUME NEW any \in IPs PROVE IsFiniteSet(ip_to_macs'[any])
        BY <3>4, <4>3 DEF ArpTables
      <4> QED
        BY <4>1, <4>2, <4>4
    <3>6. CASE Arp!Conflict(ip, mac)
      <4>1. /\ alerted_pairs' = alerted_pairs \cup {<<ip, mac>>}
            /\ arp_alerts' = Append(arp_alerts, Arp!Alert(ip, mac))
            /\ <<ip, mac>> \notin alerted_pairs
        BY <2>1, <3>6 DEF Arp!FeedArp, Arp!Conflict, Arp!Pairs
      <4>2. PICK m \in ip_to_macs[ip] : m # mac
        BY <3>2, <3>6 DEF Arp!Conflict, Arp!Contested
      <4>3. /\ Arp!Alert(ip, mac) \in [ip : IPs, mac : Macs, count : Nat \ {0, 1}]
            /\ Arp!Alert(ip, mac).ip = ip /\ Arp!Alert(ip, mac).mac = mac
        BY <3>2, <3>6 DEF Arp!Conflict, Arp!Contested, Arp!Alert
      <4>4. /\ Len(arp_alerts') = Len(arp_alerts) + 1 /\ Len(arp_alerts) \in Nat
            /\ arp_alerts'[Len(arp_alerts) + 1] = Arp!Alert(ip, mac)
            /\ \A i \in 1 .. Len(arp_alerts) : arp_alerts'[i] = arp_alerts[i]
        BY <4>1, <4>3 DEF Arp!TypeOK
      <4>5. Arp!TypeOK'
        <5>1. ip_to_macs' \in [IPs -> SUBSET Macs] /\ arp_fed' \in Seq(Arp!Pair)
          BY <2>1 DEF Arp!FeedArp, Arp!TypeOK, Arp!Pair
        <5> QED
          BY <4>1, <4>3, <5>1 DEF Arp!TypeOK, Arp!Pair
      <4>6. ArpTables'
        <5>1. ASSUME NEW i \in 1 .. Len(arp_alerts')
              PROVE  <<arp_alerts'[i].ip, arp_alerts'[i].mac>> \in alerted_pairs'
          <6>1. CASE i \in 1 .. Len(arp_alerts)
            BY <4>1, <4>4, <6>1 DEF ArpTables
          <6>2. CASE i = Len(arp_alerts) + 1
            BY <4>1, <4>3, <4>4, <6>2
          <6> QED
            BY <4>4, <6>1, <6>2
        <5>2. ASSUME NEW pair \in alerted_pairs'
              PROVE  \E i \in 1 .. Len(arp_alerts') : <<arp_alerts'[i].ip, arp_alerts'[i].mac>> = pair
          <6>1. CASE pair \in alerted_pairs
            <7>1. PICK i \in 1 .. Len(arp_alerts) : <<arp_alerts[i].ip, arp_alerts[i].mac>> = pair
              BY <6>1 DEF ArpTables
            <7>2. i \in 1 .. Len(arp_alerts') /\ arp_alerts'[i] = arp_alerts[i]
              BY <4>4
            <7> QED
              BY <7>1, <7>2
          <6>2. CASE pair = <<ip, mac>>
            <7>1. Len(arp_alerts) + 1 \in 1 .. Len(arp_alerts')
              BY <4>4
            <7> QED
              BY <4>3, <4>4, <6>2, <7>1
          <6> QED
            BY <4>1, <6>1, <6>2
        <5> QED
          BY <3>5, <5>1, <5>2 DEF ArpTables
      <4>7. Arp!AlertedOnce'
        BY <4>1, <4>3, <4>4 DEF Arp!AlertedOnce, ArpTables
      <4>8. Arp!AlertSound'
        <5> SUFFICES ASSUME NEW i \in 1 .. Len(arp_alerts')
                     PROVE \E j, k \in 1 .. Len(arp_fed') :
                             /\ arp_fed'[j] = <<arp_alerts'[i].ip, arp_alerts'[i].mac>>
                             /\ arp_fed'[k][1] = arp_alerts'[i].ip
                             /\ arp_fed'[k][2] # arp_alerts'[i].mac
          BY DEF Arp!AlertSound
        <5>1. CASE i \in 1 .. Len(arp_alerts)
          <6>1. PICK j \in 1 .. Len(arp_fed), k \in 1 .. Len(arp_fed) :
                  /\ arp_fed[j] = <<arp_alerts[i].ip, arp_alerts[i].mac>>
                  /\ arp_fed[k][1] = arp_alerts[i].ip
                  /\ arp_fed[k][2] # arp_alerts[i].mac
            BY <5>1 DEF Arp!AlertSound
          <6>2. j \in 1 .. Len(arp_fed') /\ k \in 1 .. Len(arp_fed')
            BY <3>3
          <6>3. arp_alerts'[i] = arp_alerts[i]
            BY <4>4, <5>1
          <6>4. arp_fed'[j] = arp_fed[j] /\ arp_fed'[k] = arp_fed[k]
            BY <3>3, <6>1
          <6>5. /\ arp_fed'[j] = <<arp_alerts'[i].ip, arp_alerts'[i].mac>>
                /\ arp_fed'[k][1] = arp_alerts'[i].ip
                /\ arp_fed'[k][2] # arp_alerts'[i].mac
            BY <6>1, <6>3, <6>4, Zenon
          <6> QED
            BY <6>2, <6>5
        <5>2. CASE i = Len(arp_alerts) + 1
          <6>1. PICK k \in 1 .. Len(arp_fed) : arp_fed[k] = <<ip, m>>
            BY <4>2 DEF ArpTables
          <6>2. Len(arp_fed) + 1 \in 1 .. Len(arp_fed') /\ k \in 1 .. Len(arp_fed')
            BY <3>3
          <6> QED
            BY <3>3, <4>2, <4>3, <4>4, <5>2, <6>1, <6>2
        <5> QED
          BY <4>4, <5>1, <5>2
      <4>9. ClaimsTabled'
        <5> SUFFICES ASSUME NEW i \in 1 .. Len(arp_fed'), NEW j \in 1 .. Len(arp_fed'),
                            i < j, arp_fed'[i][1] = arp_fed'[j][1], arp_fed'[i][2] # arp_fed'[j][2]
                     PROVE  arp_fed'[j] \in alerted_pairs'
          BY DEF ClaimsTabled
        <5>1. i \in 1 .. Len(arp_fed) /\ (j \in 1 .. Len(arp_fed) \/ j = Len(arp_fed) + 1)
          BY <3>3
        <5> QED
          BY <3>3, <4>1, <5>1 DEF ClaimsTabled
      <4> QED
        BY <4>5, <4>6, <4>7, <4>8, <4>9
    <3>7. CASE ~ Arp!Conflict(ip, mac)
      <4>1. UNCHANGED <<alerted_pairs, arp_alerts>>
        BY <2>1, <3>7 DEF Arp!FeedArp, Arp!Conflict, Arp!Pairs
      <4>2. Arp!TypeOK'
        BY <2>1, <4>1 DEF Arp!FeedArp, Arp!TypeOK, Arp!Pair
      <4>3. ArpTables' /\ Arp!AlertedOnce'
        BY <3>5, <4>1 DEF ArpTables, Arp!AlertedOnce
      <4>4. Arp!AlertSound'
        <5> SUFFICES ASSUME NEW i \in 1 .. Len(arp_alerts)
                     PROVE \E j, k \in 1 .. Len(arp_fed') :
                             /\ arp_fed'[j] = <<arp_alerts[i].ip, arp_alerts[i].mac>>
                             /\ arp_fed'[k][1] = arp_alerts[i].ip
                             /\ arp_fed'[k][2] # arp_alerts[i].mac
          BY <4>1 DEF Arp!AlertSound
        <5>1. PICK j \in 1 .. Len(arp_fed), k \in 1 .. Len(arp_fed) :
                /\ arp_fed[j] = <<arp_alerts[i].ip, arp_alerts[i].mac>>
                /\ arp_fed[k][1] = arp_alerts[i].ip
                /\ arp_fed[k][2] # arp_alerts[i].mac
          BY DEF Arp!AlertSound
        <5>2. j \in 1 .. Len(arp_fed') /\ k \in 1 .. Len(arp_fed')
          BY <3>3
        <5> QED
          BY <3>3, <5>1, <5>2
      <4>5. ClaimsTabled'
        <5> SUFFICES ASSUME NEW i \in 1 .. Len(arp_fed'), NEW j \in 1 .. Len(arp_fed'),
                            i < j, arp_fed'[i][1] = arp_fed'[j][1], arp_fed'[i][2] # arp_fed'[j][2]
                     PROVE  arp_fed'[j] \in alerted_pairs'
          BY DEF ClaimsTabled
        <5>1. i \in 1 .. Len(arp_fed) /\ (j \in 1 .. Len(arp_fed) \/ j = Len(arp_fed) + 1)
          BY <3>3
        <5>2. CASE j = Len(arp_fed) + 1
          <6>1. arp_fed[i][2] \in ip_to_macs[ip] /\ arp_fed[i][2] # mac
            BY <3>3, <5>1, <5>2 DEF ArpTables
          <6> QED
            BY <3>2, <3>3, <3>7, <4>1, <5>2, <6>1 DEF Arp!Conflict, Arp!Contested
        <5> QED
          BY <3>3, <4>1, <5>1, <5>2 DEF ClaimsTabled
      <4> QED
        BY <4>2, <4>3, <4>4, <4>5
    <3> QED
      BY <3>6, <3>7
  <2>2. CASE UNCHANGED Arp!vars
    <3>1. UNCHANGED <<ip_to_macs, alerted_pairs, arp_alerts, arp_fed>>
      BY <2>2 DEF Arp!vars
    <3>2. Arp!TypeOK' /\ ArpTables'
      BY <3>1 DEF Arp!TypeOK, ArpTables
    <3>3. ClaimsTabled' /\ Arp!AlertSound' /\ Arp!AlertedOnce'
      BY <3>1 DEF ClaimsTabled, Arp!AlertSound, Arp!AlertedOnce
    <3> QED
      BY <3>2, <3>3
  <2> QED
    BY <2>1, <2>2 DEF Arp!Next
<1> QED
  BY <1>1, <1>2, PTL DEF Arp!Spec

-----------------------------------------------------------------------------
(***************************************************************************)
(* The rules within the engine: each takes only steps of its own, so what  *)
(* is proved of a rule alone holds of it among the others.                 *)
(***************************************************************************)
\* The capture is one of the given ones throughout.
LEMMA CaptureKept == EngineSpec => [](capture \in DOMAIN Traffic)
<1>1. EngineInit => capture \in DOMAIN Traffic
  BY DEF EngineInit
<1>2. capture \in DOMAIN Traffic /\ [EngineNext]_engine_vars => (capture \in DOMAIN Traffic)'
  BY DEF EngineNext, engine_vars
<1> QED
  BY <1>1, <1>2, PTL DEF EngineSpec

\* What a packet of a capture is.
LEMMA PacketType ==
  ASSUME capture \in DOMAIN Traffic,
         NEW p \in Traffic[capture].packets, NEW ts \in Traffic[capture].times
  PROVE  /\ ts \in 0 .. MaxTime
         /\ p.kind = "syn" => p.src \in Hosts /\ p.dst \in Hosts /\ p.port \in Ports
         /\ p.kind = "arp" => p.ip \in IPs /\ p.mac \in Macs
BY TrafficAssumption

\* The port scan rule takes its own steps whatever the other rules do.
THEOREM ScanRuleUndisturbed == EngineSpec => Spec
<1>1. EngineInit => Init
  BY DEF EngineInit
<1>2. capture \in DOMAIN Traffic /\ [EngineNext]_engine_vars => [Next]_vars
  <2> SUFFICES ASSUME capture \in DOMAIN Traffic, [EngineNext]_engine_vars PROVE [Next]_vars
    OBVIOUS
  <2>1. ASSUME NEW p \in Traffic[capture].packets, NEW ts \in Traffic[capture].times,
               Scanned(p, ts)
        PROVE  Next
    <3>1. CASE p.kind = "syn"
      <4>1. [src |-> p.src, dst |-> p.dst, port |-> p.port, ts |-> ts] \in Syn
        BY <3>1, PacketType DEF Syn
      <4> QED
        BY <2>1, <3>1, <4>1 DEF Scanned, Next
    <3>2. CASE p.kind # "syn"
      BY <2>1, <3>2, PacketType DEF Scanned, Next
    <3> QED
      BY <3>1, <3>2
  <2>2. CASE UNCHANGED engine_vars
    BY <2>2 DEF engine_vars
  <2> QED
    BY <2>1, <2>2 DEF EngineNext, Feed
<1> QED
  BY <1>1, <1>2, CaptureKept, PTL DEF EngineSpec, Spec

\* A scan of twice the threshold is alerted however the engine's other rules
\* are fed in between.
THEOREM EngineAlertsBursts == EngineSpec => []BurstDetected
BY ScanRuleUndisturbed, BurstsAlerted, PTL

\* So does the ARP rule.
LEMMA ArpRuleUndisturbed == EngineSpec => Arp!Spec
<1>1. EngineInit => Arp!Init
  BY DEF EngineInit
<1>2. capture \in DOMAIN Traffic /\ [EngineNext]_engine_vars => [Arp!Next]_(Arp!vars)
  <2> SUFFICES ASSUME capture \in DOMAIN Traffic, [EngineNext]_engine_vars
               PROVE  [Arp!Next]_(Arp!vars)
    OBVIOUS
  <2>1. ASSUME NEW p \in Traffic[capture].packets, NEW ts \in Traffic[capture].times,
               Others(p, ts)
        PROVE  [Arp!Next]_(Arp!vars)
    <3>1. CASE p.kind = "arp"
      BY <2>1, <3>1, PacketType DEF Others, Arp!Next
    <3>2. CASE p.kind # "arp"
      BY <2>1, <3>2 DEF Others, Arp!vars, arp_vars
    <3> QED
      BY <3>1, <3>2
  <2>2. CASE UNCHANGED engine_vars
    BY <2>2 DEF engine_vars, arp_vars, Arp!vars
  <2> QED
    BY <2>1, <2>2 DEF EngineNext, Feed
<1> QED
  BY <1>1, <1>2, CaptureKept, PTL DEF EngineSpec, Arp!Spec

\* Contested addresses are alerted, and no others, whatever else the capture
\* carries.
THEOREM EngineAlertsConflicts == EngineSpec => []ConflictAlerted
<1>1. ArpInv => ConflictAlerted
  <2> SUFFICES ASSUME ArpInv PROVE Arp!ConflictAlerted
    BY DEF ArpInv, ConflictAlerted
  <2>1. \A pair \in alerted_pairs :
          \E k \in 1 .. Len(arp_alerts) : <<arp_alerts[k].ip, arp_alerts[k].mac>> = pair
    BY DEF ArpInv, ArpTables
  <2> QED
    BY <2>1 DEF ArpInv, ClaimsTabled, Arp!ConflictAlerted
<1> QED
  BY <1>1, ArpInvariant, ArpRuleUndisturbed, PTL

-----------------------------------------------------------------------------
FloodAlert == [dst : Hosts, ts : 0 .. MaxTime]

\* The SYN flood rule's tables.
FloodTypeOK ==
  /\ DOMAIN flood_state \subseteq Hosts
  /\ \A h \in DOMAIN flood_state : flood_state[h] \in [start : 0 .. MaxTime, count : Nat]
  /\ flood_alerts \in Seq(FloodAlert)
  /\ now \in 0 .. MaxTime

\* A destination's window has alerted at most once, when its count reached the
\* threshold, and of the alerts before its start all but the last are more than
\* a window's length older than the start.
SpacedInv ==
  /\ \A i \in 1 .. Len(flood_alerts) :
       LET a == flood_alerts[i]
       IN  /\ a.dst \in DOMAIN flood_state
           /\ a.ts <= flood_state[a.dst].start + SynWindowSecs
           /\ flood_state[a.dst].count < SynThreshold => a.ts < flood_state[a.dst].start
  /\ \A i, j \in 1 .. Len(flood_alerts) :
       LET a     == flood_alerts[i]
           b     == flood_alerts[j]
           start == flood_state[a.dst].start
       IN  i < j /\ a.dst = b.dst =>
             /\ a.ts < start
             /\ b.ts < start => a.ts + SynWindowSecs < start
  /\ \A h \in DOMAIN flood_state : flood_state[h].start <= now

FloodInv == FloodTypeOK /\ SpacedInv /\ AlertsSpaced

LEMMA FloodAlertFields ==
  ASSUME FloodTypeOK, NEW i \in 1 .. Len(flood_alerts)
  PROVE  flood_alerts[i].dst \in Hosts /\ flood_alerts[i].ts \in 0 .. MaxTime
<1>1. flood_alerts[i] \in FloodAlert
  BY DEF FloodTypeOK
<1> QED
  BY <1>1 DEF FloodAlert

\* A SYN to dst at ts is counted in the window start, the one that held count
\* SYNs or one that starts with it, and may raise the alert.
Counted(dst, ts, start, count, alert) ==
  /\ start <= ts /\ ts <= start + SynWindowSecs
  /\ dst \in DOMAIN flood_state =>
       \/ start = flood_state[dst].start /\ count = flood_state[dst].count
       \/ flood_state[dst].start + SynWindowSecs < start /\ start = ts /\ count = 0
  /\ dst \notin DOMAIN flood_state => start = ts /\ count = 0
  /\ DOMAIN flood_state' = DOMAIN flood_state \cup {dst}
  /\ flood_state'[dst] = [start |-> start, count |-> count + 1]
  /\ \A h \in DOMAIN flood_state : h # dst => flood_state'[h] = flood_state[h]
  /\ alert.dst = dst /\ alert.ts = ts
  /\ flood_alerts' = IF count + 1 = SynThreshold THEN Append(flood_alerts, alert)
                                                 ELSE flood_alerts

LEMMA FloodMoves ==
  ASSUME FloodInv, NEW syn \in Flood!Syn, Flood!FeedSyn(syn)
  PROVE  \E start \in 0 .. MaxTime, count \in Nat, alert \in FloodAlert :
           Counted(syn.server, syn.ts, start, count, alert)
<1> USE BoundsAssumption, SynAssumption
<1> DEFINE dst == syn.server
<1>0. PICK start, count : /\ start = Flood!Window(dst, syn.ts).start
                          /\ count = Flood!Window(dst, syn.ts).count
  OBVIOUS
<1>1. /\ dst \in Hosts /\ syn.ts \in 0 .. MaxTime /\ now \in 0 .. MaxTime /\ now <= syn.ts
  BY DEF FloodInv, FloodTypeOK, Flood!FeedSyn, Flood!Syn
<1>2. /\ Flood!Window(dst, syn.ts) \in [start : 0 .. MaxTime, count : Nat]
      /\ start \in 0 .. MaxTime /\ count \in Nat
      /\ start <= syn.ts /\ syn.ts <= start + SynWindowSecs
      /\ dst \in DOMAIN flood_state =>
           \/ start = flood_state[dst].start /\ count = flood_state[dst].count
           \/ /\ flood_state[dst].start + SynWindowSecs < start
              /\ start = syn.ts /\ count = 0
      /\ dst \notin DOMAIN flood_state => start = syn.ts /\ count = 0
  <2>1. CASE dst \notin DOMAIN flood_state
    BY <1>0, <1>1, <2>1 DEF Flood!Window
  <2>2. CASE dst \in DOMAIN flood_state
    <3>1. /\ flood_state[dst] \in [start : 0 .. MaxTime, count : Nat]
          /\ flood_state[dst].start <= now
      BY <2>2 DEF FloodInv, FloodTypeOK, SpacedInv
    <3>2. CASE Flood!Expired(flood_state[dst].start, syn.ts)
      BY <1>0, <1>1, <2>2, <3>1, <3>2 DEF Flood!Window, Flood!Expired, Flood!SatSub
    <3>3. CASE ~ Flood!Expired(flood_state[dst].start, syn.ts)
      BY <1>0, <1>1, <2>2, <3>1, <3>3 DEF Flood!Window, Flood!Expired, Flood!SatSub
    <3> QED
      BY <3>2, <3>3
  <2> QED
    BY <2>1, <2>2
<1>3. /\ DOMAIN flood_state' = DOMAIN flood_state \cup {dst}
      /\ flood_state'[dst] = [start |-> start, count |-> count + 1]
      /\ \A h \in DOMAIN flood_state : h # dst => flood_state'[h] = flood_state[h]
  <2>1. [Flood!Window(dst, syn.ts) EXCEPT !.count = count + 1]
          = [start |-> start, count |-> count + 1]
    BY <1>0, <1>2
  <2> QED
    BY <1>0, <2>1 DEF Flood!FeedSyn
<1>4. PICK alert \in FloodAlert :
        /\ alert.dst = dst /\ alert.ts = syn.ts
        /\ flood_alerts' = IF count + 1 = SynThreshold THEN Append(flood_alerts, alert)
                                                       ELSE flood_alerts
  <2>1. /\ [dst |-> dst, ts |-> syn.ts] \in FloodAlert
        /\ [dst |-> dst, ts |-> syn.ts].dst = dst
        /\ [dst |-> dst, ts |-> syn.ts].ts = syn.ts
    BY <1>1 DEF FloodAlert
  <2>2. flood_alerts' = IF count + 1 = SynThreshold
                          THEN Append(flood_alerts, [dst |-> dst, ts |-> syn.ts])
                          ELSE flood_alerts
    BY <1>0 DEF Flood!FeedSyn, Flood!Fires
  <2> QED
    BY <2>1, <2>2
<1> HIDE DEF dst
<1> QED
  BY <1>2, <1>3, <1>4 DEF dst, Counted

\* A SYN that reaches the threshold keeps FloodInv, and so does any other.
LEMMA Apart ==
  ASSUME NEW x \in Int, NEW y \in Int, NEW z \in Int, x <= y, y + SynWindowSecs < z
  PROVE  x + SynWindowSecs < z /\ x < z
BY SynAssumption

LEMMA Later ==
  ASSUME NEW x \in Int, NEW y \in Int, NEW z \in Int, x + SynWindowSecs < y, y <= z
  PROVE  x + SynWindowSecs < z
BY SynAssumption

LEMMA FloodStep ==
  ASSUME FloodInv, NEW syn \in Flood!Syn, Flood!FeedSyn(syn)
  PROVE  FloodInv'
<1> USE BoundsAssumption, SynAssumption
<1> DEFINE dst == syn.server
<1>1. /\ dst \in Hosts /\ syn.ts \in 0 .. MaxTime /\ now \in 0 .. MaxTime
      /\ now <= syn.ts /\ now' = syn.ts
  BY DEF FloodInv, FloodTypeOK, Flood!FeedSyn, Flood!Syn
\* The window the SYN is counted in: the old one, or one after its end.
<1>2. PICK start \in 0 .. MaxTime, count \in Nat, alert \in FloodAlert :
        Counted(dst, syn.ts, start, count, alert)
  BY FloodMoves
<1>3. /\ start \in 0 .. MaxTime /\ count \in Nat
      /\ start <= syn.ts /\ syn.ts <= start + SynWindowSecs
      /\ dst \in DOMAIN flood_state =>
           \/ start = flood_state[dst].start /\ count = flood_state[dst].count
           \/ flood_state[dst].start + SynWindowSecs < start /\ count = 0
  BY <1>2 DEF Counted
<1>4. /\ DOMAIN flood_state' = DOMAIN flood_state \cup {dst}
      /\ flood_state'[dst] = [start |-> start, count |-> count + 1]
      /\ \A h \in DOMAIN flood_state : h # dst => flood_state'[h] = flood_state[h]
  BY <1>2 DEF Counted
\* The destination's alerts, seen from this window.
<1>5. ASSUME NEW i \in 1 .. Len(flood_alerts), flood_alerts[i].dst = dst
      PROVE  /\ flood_alerts[i].ts \in 0 .. MaxTime
             /\ flood_alerts[i].ts <= start + SynWindowSecs
             /\ count < SynThreshold => flood_alerts[i].ts < start
  <2>1. flood_alerts[i].ts \in 0 .. MaxTime
    BY FloodAlertFields DEF FloodInv
  <2>2. /\ dst \in DOMAIN flood_state
        /\ flood_alerts[i].ts <= flood_state[dst].start + SynWindowSecs
        /\ flood_state[dst].count < SynThreshold => flood_alerts[i].ts < flood_state[dst].start
    BY <1>5 DEF FloodInv, SpacedInv
  <2>3. flood_state[dst].start \in 0 .. MaxTime
    BY <2>2 DEF FloodInv, FloodTypeOK
  <2>4. CASE start = flood_state[dst].start /\ count = flood_state[dst].count
    BY <2>1, <2>2, <2>3, <2>4, <1>3
  <2>5. CASE flood_state[dst].start + SynWindowSecs < start
    <3>1. flood_alerts[i].ts <= flood_state[dst].start + SynWindowSecs
      BY <2>2
    <3>2. flood_alerts[i].ts < start
      BY <1>3, <2>1, <2>3, <2>5, <3>1
    <3> QED
      BY <1>3, <2>1, <3>2
  <2> QED
    BY <1>3, <2>2, <2>4, <2>5
<1>6. ASSUME NEW i \in 1 .. Len(flood_alerts), NEW j \in 1 .. Len(flood_alerts),
             i < j, flood_alerts[i].dst = dst, flood_alerts[j].dst = dst
      PROVE  /\ flood_alerts[i].ts < start
             /\ flood_alerts[j].ts < start => flood_alerts[i].ts + SynWindowSecs < start
  <2>1. /\ dst \in DOMAIN flood_state
        /\ flood_alerts[i].ts < flood_state[dst].start
        /\ flood_alerts[j].ts < flood_state[dst].start =>
             flood_alerts[i].ts + SynWindowSecs < flood_state[dst].start
    BY <1>6 DEF FloodInv, SpacedInv
  <2>2. flood_state[dst].start \in 0 .. MaxTime
    BY <2>1 DEF FloodInv, FloodTypeOK
  <2>3. flood_alerts[i].ts \in 0 .. MaxTime /\ flood_alerts[j].ts \in 0 .. MaxTime
    BY FloodAlertFields DEF FloodInv
  <2>4. CASE start = flood_state[dst].start /\ count = flood_state[dst].count
    BY <2>1, <2>2, <2>3, <2>4, <1>3
  <2>5. CASE flood_state[dst].start + SynWindowSecs < start
    <3>1. PICK x \in Int, u \in Int, y \in Int, z \in Int :
            /\ x = flood_alerts[i].ts /\ u = flood_alerts[j].ts
            /\ y = flood_state[dst].start /\ z = start
      BY <1>3, <2>2, <2>3, BoundsAssumption
    <3>2. x < y /\ y + SynWindowSecs < z /\ (u < y => x + SynWindowSecs < y)
      BY <2>1, <2>5, <3>1
    <3>3. x <= y
      BY <3>2
    <3>4. x < z /\ x + SynWindowSecs < z
      BY <3>2, <3>3, Apart
    <3> QED
      BY <3>1, <3>4
  <2> QED
    BY <1>3, <2>1, <2>4, <2>5
<1>7. /\ alert \in FloodAlert /\ alert.dst = dst /\ alert.ts = syn.ts
      /\ flood_alerts' = IF count + 1 = SynThreshold THEN Append(flood_alerts, alert)
                                                     ELSE flood_alerts
  BY <1>2 DEF Counted
<1>8. FloodTypeOK'
  <2>1. flood_alerts \in Seq(FloodAlert)
    BY DEF FloodInv, FloodTypeOK
  <2>2. flood_alerts' \in Seq(FloodAlert)
    BY <1>7, <2>1
  <2>3. ASSUME NEW h \in DOMAIN flood_state'
        PROVE  flood_state'[h] \in [start : 0 .. MaxTime, count : Nat]
    BY <1>3, <1>4 DEF FloodInv, FloodTypeOK
  <2> QED
    BY <1>1, <1>4, <2>2, <2>3 DEF FloodInv, FloodTypeOK
<1>9. /\ Len(flood_alerts) \in Nat
      /\ count + 1 # SynThreshold => flood_alerts' = flood_alerts
      /\ count + 1 = SynThreshold =>
           /\ Len(flood_alerts') = Len(flood_alerts) + 1
           /\ \A i \in 1 .. Len(flood_alerts) : flood_alerts'[i] = flood_alerts[i]
           /\ flood_alerts'[Len(flood_alerts) + 1] = alert
  BY <1>7 DEF FloodInv, FloodTypeOK
<1>10. SpacedInv'
  <2>1. ASSUME NEW i \in 1 .. Len(flood_alerts')
        PROVE  LET a == flood_alerts'[i]
               IN  /\ a.dst \in DOMAIN flood_state'
                   /\ a.ts <= flood_state'[a.dst].start + SynWindowSecs
                   /\ flood_state'[a.dst].count < SynThreshold =>
                        a.ts < flood_state'[a.dst].start
    <3>1. CASE i \in 1 .. Len(flood_alerts) /\ flood_alerts[i].dst = dst
      <4>1. flood_alerts'[i] = flood_alerts[i]
        BY <1>9, <3>1
      <4>2. /\ dst \in DOMAIN flood_state'
            /\ flood_state'[dst].start = start /\ flood_state'[dst].count = count + 1
        BY <1>4
      <4>3. /\ flood_alerts[i].ts <= start + SynWindowSecs
            /\ count < SynThreshold => flood_alerts[i].ts < start
        BY <1>5, <3>1
      <4>4. count + 1 < SynThreshold => count < SynThreshold
        BY <1>3
      <4> QED
        BY <3>1, <4>1, <4>2, <4>3, <4>4
    <3>2. CASE i \in 1 .. Len(flood_alerts) /\ flood_alerts[i].dst # dst
      BY <1>4, <1>9, <3>2 DEF FloodInv, SpacedInv
    <3>3. CASE i \notin 1 .. Len(flood_alerts)
      BY <1>1, <1>3, <1>4, <1>7, <1>9, <3>3
    <3> QED
      BY <3>1, <3>2, <3>3
  <2>2. ASSUME NEW i \in 1 .. Len(flood_alerts'), NEW j \in 1 .. Len(flood_alerts'),
               i < j, flood_alerts'[i].dst = flood_alerts'[j].dst
        PROVE  LET start1 == flood_state'[flood_alerts'[i].dst].start
               IN  /\ flood_alerts'[i].ts < start1
                   /\ flood_alerts'[j].ts < start1 =>
                        flood_alerts'[i].ts + SynWindowSecs < start1
    <3>1. i \in 1 .. Len(flood_alerts) /\ flood_alerts'[i] = flood_alerts[i]
      BY <1>9, <2>2
    <3>2. CASE j \in 1 .. Len(flood_alerts) /\ flood_alerts[i].dst = dst
      BY <1>4, <1>6, <1>9, <2>2, <3>1, <3>2
    <3>3. CASE j \in 1 .. Len(flood_alerts) /\ flood_alerts[i].dst # dst
      <4>1. PICK g : /\ g = flood_alerts[i].dst /\ g = flood_alerts[j].dst /\ g # dst
                     /\ flood_alerts'[j] = flood_alerts[j]
        BY <1>9, <2>2, <3>1, <3>3
      <4>2. /\ flood_alerts[i].ts < flood_state[g].start
            /\ flood_alerts[j].ts < flood_state[g].start =>
                 flood_alerts[i].ts + SynWindowSecs < flood_state[g].start
        BY <2>2, <3>1, <3>3, <4>1 DEF FloodInv, SpacedInv
      <4>3. flood_state'[g] = flood_state[g]
        BY <1>4, <3>1, <4>1 DEF FloodInv, SpacedInv
      <4> QED
        BY <3>1, <4>1, <4>2, <4>3
    <3>4. CASE j \notin 1 .. Len(flood_alerts)
      <4>1. count + 1 = SynThreshold /\ flood_alerts'[j] = alert
        BY <1>9, <3>4
      <4>2. flood_alerts[i].dst = dst
        BY <1>7, <2>2, <3>1, <4>1
      <4>3. flood_alerts[i].ts < start /\ flood_state'[dst].start = start
        BY <1>3, <1>4, <1>5, <3>1, <4>1, <4>2
      <4>4. ~ (flood_alerts'[j].ts < start)
        BY <1>1, <1>7, <1>3, <4>1
      <4> QED
        BY <3>1, <4>2, <4>3, <4>4
    <3> QED
      BY <3>2, <3>3, <3>4
  <2>3. ASSUME NEW h \in DOMAIN flood_state' PROVE flood_state'[h].start <= now'
    <3>1. CASE h = dst
      BY <1>1, <1>3, <1>4, <3>1
    <3>2. CASE h # dst
      <4>1. /\ flood_state'[h] = flood_state[h] /\ flood_state[h].start \in 0 .. MaxTime
            /\ flood_state[h].start <= now
        BY <1>4, <3>2 DEF FloodInv, FloodTypeOK, SpacedInv
      <4> QED
        BY <1>1, <4>1
    <3> QED
      BY <3>1, <3>2
  <2> QED
    BY <2>1, <2>2, <2>3 DEF SpacedInv
<1>11. AlertsSpaced'
  <2> SUFFICES ASSUME NEW i \in 1 .. Len(flood_alerts'), NEW j \in 1 .. Len(flood_alerts'),
                      i < j, flood_alerts'[i].dst = flood_alerts'[j].dst
               PROVE  /\ flood_alerts'[i].ts < flood_alerts'[j].ts
                      /\ \A k \in j + 1 .. Len(flood_alerts') :
                           flood_alerts'[k].dst = flood_alerts'[i].dst =>
                             flood_alerts'[i].ts + SynWindowSecs < flood_alerts'[k].ts
    BY DEF AlertsSpaced, Flood!AlertsSpaced
  <2>1. i \in 1 .. Len(flood_alerts) /\ flood_alerts'[i] = flood_alerts[i]
    BY <1>9
  <2>2. flood_alerts'[i].ts < flood_alerts'[j].ts
    <3>1. CASE j \in 1 .. Len(flood_alerts)
      BY <1>9, <2>1, <3>1 DEF FloodInv, AlertsSpaced, Flood!AlertsSpaced
    <3>2. CASE j \notin 1 .. Len(flood_alerts)
      <4>1. count + 1 = SynThreshold /\ flood_alerts'[j] = alert
        BY <1>9, <3>2
      <4>2. flood_alerts[i].dst = dst
        BY <1>7, <2>1, <4>1
      <4>3. flood_alerts[i].ts < start /\ flood_alerts[i].ts \in 0 .. MaxTime
        BY <1>3, <1>5, <2>1, <4>1, <4>2
      <4>4. flood_alerts[i].ts < alert.ts
        <5>1. start <= alert.ts /\ alert.ts \in 0 .. MaxTime
          BY <1>1, <1>3, <1>7
        <5> QED
          BY <1>3, <4>3, <5>1
      <4> QED
        BY <2>1, <4>1, <4>4
    <3> QED
      BY <3>1, <3>2
  <2>3. ASSUME NEW k \in j + 1 .. Len(flood_alerts'), flood_alerts'[k].dst = flood_alerts'[i].dst
        PROVE  flood_alerts'[i].ts + SynWindowSecs < flood_alerts'[k].ts
    <3>1. j \in 1 .. Len(flood_alerts) /\ flood_alerts'[j] = flood_alerts[j]
      BY <1>9, <2>3
    <3>2. CASE k \in 1 .. Len(flood_alerts)
      <4>1. k \in j + 1 .. Len(flood_alerts) /\ flood_alerts'[k] = flood_alerts[k]
        BY <1>9, <3>2
      <4> QED
        BY <2>1, <2>3, <3>1, <4>1 DEF FloodInv, AlertsSpaced, Flood!AlertsSpaced
    <3>3. CASE k \notin 1 .. Len(flood_alerts)
      <4>1. count + 1 = SynThreshold /\ flood_alerts'[k] = alert
        BY <1>9, <2>3, <3>3
      <4>2. flood_alerts[i].dst = dst /\ flood_alerts[j].dst = dst
        BY <1>7, <2>1, <2>3, <3>1, <4>1
      <4>3. count < SynThreshold
        BY <1>3, <4>1
      <4>4. flood_alerts[j].ts < start /\ flood_alerts[i].ts \in 0 .. MaxTime
        BY <1>5, <2>1, <3>1, <4>3, <4>2
      <4>5. flood_alerts[i].ts + SynWindowSecs < start
        BY <1>6, <2>1, <3>1, <4>2, <4>4
      <4> QED
        <5>1. alert.ts = syn.ts
          BY <1>7
        <5>2. flood_alerts[i].ts + SynWindowSecs < alert.ts
          <6>1. start <= alert.ts
            BY <1>3, <5>1
          <6>2. alert.ts \in 0 .. MaxTime
            BY <1>1, <5>1
          <6>3. PICK x \in Int, y \in Int, z \in Int :
                  x = flood_alerts[i].ts /\ y = start /\ z = alert.ts
            BY <1>3, <4>4, <6>2, BoundsAssumption
          <6>4. x + SynWindowSecs < y /\ y <= z
            BY <4>5, <6>1, <6>3
          <6>5. x + SynWindowSecs < z
            BY <6>4, Later
          <6> QED
            BY <6>3, <6>5
        <5> QED
          BY <2>1, <4>1, <5>2
    <3> QED
      BY <3>2, <3>3
  <2> QED
    BY <2>2, <2>3
<1> QED
  BY <1>8, <1>10, <1>11 DEF FloodInv

\* Every packet keeps FloodInv.
LEMMA FloodKept ==
  ASSUME capture \in DOMAIN Traffic, FloodInv, [EngineNext]_engine_vars
  PROVE  FloodInv'
<1> USE BoundsAssumption, SynAssumption
<1>1. ASSUME NEW p \in Traffic[capture].packets, NEW ts \in Traffic[capture].times,
             Flooded(p, ts)
      PROVE  FloodInv'
  <2>1. CASE p.kind = "syn"
    <3>1. [server |-> p.dst, ts |-> ts] \in Flood!Syn
      BY <2>1, PacketType DEF Flood!Syn
    <3> QED
      BY <1>1, <2>1, <3>1, FloodStep DEF Flooded
  <2>2. CASE p.kind # "syn"
    <3>1. /\ now <= now' /\ now' \in 0 .. MaxTime
          /\ UNCHANGED <<flood_state, flood_alerts>>
      BY <1>1, <2>2, PacketType DEF Flooded, Flood!FeedOther
    <3> QED
      <4>1. FloodTypeOK'
        BY <3>1 DEF FloodInv, FloodTypeOK
      <4>2. \A h \in DOMAIN flood_state : flood_state[h].start <= now'
        <5>1. /\ now \in 0 .. MaxTime
              /\ \A h \in DOMAIN flood_state : /\ flood_state[h].start \in 0 .. MaxTime
                                               /\ flood_state[h].start <= now
          BY DEF FloodInv, FloodTypeOK, SpacedInv
        <5> QED
          BY <3>1, <5>1
      <4>3. SpacedInv'
        BY <3>1, <4>2 DEF FloodInv, SpacedInv
      <4>4. AlertsSpaced'
        BY <3>1 DEF FloodInv, AlertsSpaced, Flood!AlertsSpaced
      <4> QED
        BY <4>1, <4>3, <4>4 DEF FloodInv
  <2> QED
    BY <2>1, <2>2
<1>2. CASE UNCHANGED engine_vars
  BY <1>2 DEF engine_vars, vars, flood_vars, FloodInv, FloodTypeOK, SpacedInv, AlertsSpaced,
              Flood!AlertsSpaced
<1> QED
  BY <1>1, <1>2 DEF EngineNext, Feed

\* A flood does not flood the operator: a destination is never alerted twice in
\* one second, nor three times within a window's length.
THEOREM EngineSpacesAlerts == EngineSpec => []AlertsSpaced
<1> USE BoundsAssumption, SynAssumption
<1>1. EngineInit => FloodInv
  BY DEF EngineInit, Init, Flood!Init, FloodInv, FloodTypeOK, SpacedInv, AlertsSpaced,
         Flood!AlertsSpaced
<1>2. capture \in DOMAIN Traffic /\ FloodInv /\ [EngineNext]_engine_vars => FloodInv'
  BY FloodKept
<1>3. FloodInv => AlertsSpaced
  BY DEF FloodInv
<1> QED
  BY <1>1, <1>2, <1>3, CaptureKept, PTL DEF EngineSpec

-----------------------------------------------------------------------------
(***************************************************************************)
(* What the flood rule reports, said of any sequence q of SYNs and any     *)
(* sequence a of alerts.                                                   *)
(***************************************************************************)
SynsIn(q, h, first, last) ==
  {i \in 1 .. Len(q) : q[i].server = h /\ first <= q[i].ts /\ q[i].ts <= last}

Count(q, h, first, last) == Cardinality(SynsIn(q, h, first, last))

AlertWithin(a, h, first, last) ==
  \E i \in 1 .. Len(a) : a[i].dst = h /\ first <= a[i].ts /\ a[i].ts <= last

\* The window s of h with c SYNs, as the SYNs q and the alerts a leave it: a
\* SYN started it and none came after its end, every earlier SYN was in an
\* earlier window, and it or an earlier one alerted as soon as T SYNs of its own
\* had come.
Windowed(q, a, h, s, c) ==
  /\ c = Count(q, h, s, MaxTime)
  /\ \E i \in 1 .. Len(q) : q[i].server = h /\ q[i].ts = s
  /\ \A i \in 1 .. Len(q) : q[i].server = h => q[i].ts <= s + SynWindowSecs
  /\ \A j \in 1 .. Len(q) : q[j].server = h /\ q[j].ts < s =>
       \E k \in 1 .. Len(q) : /\ q[k].server = h
                              /\ q[k].ts <= q[j].ts /\ q[j].ts <= q[k].ts + SynWindowSecs
                              /\ q[k].ts + SynWindowSecs < s
  /\ \A x \in Int : Count(q, h, s, x) >= SynThreshold => AlertWithin(a, h, s, x)
  /\ \A t \in Int :
       s <= t + SynWindowSecs /\ Count(q, h, t, s - 1) >= SynThreshold =>
         AlertWithin(a, h, t - SynWindowSecs, s - 1)

\* Alerts b are a's and, if the c-th SYN of a window fires, one of h at ts.
Alerted(a, b, h, ts, c) ==
  /\ \A g, first, last : AlertWithin(a, g, first, last) => AlertWithin(b, g, first, last)
  /\ c = SynThreshold => \A first, last \in Int :
                           first <= ts /\ ts <= last => AlertWithin(b, h, first, last)
  /\ \A i \in 1 .. Len(b) : \/ i \in 1 .. Len(a) /\ b[i] = a[i]
                            \/ c = SynThreshold /\ b[i].dst = h /\ b[i].ts = ts

LEMMA Shifted ==
  ASSUME NEW x \in Int, NEW y \in Int, NEW z \in Int, x <= z, z <= y + SynWindowSecs
  PROVE  x - SynWindowSecs <= y
BY SynAssumption

LEMMA Reached ==
  ASSUME NEW x \in Int, NEW y \in Int, x <= y
  PROVE  x <= y + SynWindowSecs
BY SynAssumption

LEMMA Wider ==
  ASSUME NEW x \in Int, NEW y \in Int, NEW z \in Int, y <= x, z <= y + SynWindowSecs
  PROVE  z <= x + SynWindowSecs
BY SynAssumption

LEMMA SynFields ==
  ASSUME NEW q \in Seq(Flood!Syn), NEW i \in 1 .. Len(q)
  PROVE  q[i].server \in Hosts /\ q[i].ts \in 0 .. MaxTime
<1>1. q[i] \in Flood!Syn
  OBVIOUS
<1> QED
  BY <1>1 DEF Flood!Syn

LEMMA SynsFinite ==
  ASSUME NEW q \in Seq(Flood!Syn), NEW h, NEW first, NEW last
  PROVE  IsFiniteSet(SynsIn(q, h, first, last)) /\ Count(q, h, first, last) \in Nat
<1>1. IsFiniteSet(1 .. Len(q)) /\ SynsIn(q, h, first, last) \subseteq 1 .. Len(q)
  BY FS_Interval DEF SynsIn
<1>2. IsFiniteSet(SynsIn(q, h, first, last))
  BY <1>1, FS_Subset
<1> QED
  BY <1>2, FS_CardinalityType DEF Count

\* A set of SYNs counts no more than one that holds it.
LEMMA CountSubset ==
  ASSUME NEW q \in Seq(Flood!Syn), NEW h, NEW first, NEW last, NEW first2, NEW last2,
         SynsIn(q, h, first, last) \subseteq SynsIn(q, h, first2, last2)
  PROVE  Count(q, h, first, last) <= Count(q, h, first2, last2)
BY SynsFinite, FS_Subset DEF Count

LEMMA CountSplit ==
  ASSUME NEW q \in Seq(Flood!Syn), NEW h, NEW first \in Int, NEW mid \in Int, NEW last \in Int
  PROVE  Count(q, h, first, last) <= Count(q, h, first, mid - 1) + Count(q, h, mid, last)
<1> DEFINE all   == SynsIn(q, h, first, last)
           early == SynsIn(q, h, first, mid - 1)
           late  == SynsIn(q, h, mid, last)
<1>1. all \subseteq early \cup late
  <2> SUFFICES ASSUME NEW i \in 1 .. Len(q), q[i].server = h, first <= q[i].ts, q[i].ts <= last
               PROVE  i \in early \cup late
    BY DEF SynsIn
  <2>1. q[i].ts \in 0 .. MaxTime
    BY SynFields
  <2> QED
    BY <2>1, BoundsAssumption DEF SynsIn
<1>2. IsFiniteSet(all) /\ IsFiniteSet(early) /\ IsFiniteSet(late)
  BY SynsFinite
<1> HIDE DEF all, early, late
<1>3. /\ IsFiniteSet(early \cup late)
      /\ Cardinality(early \cup late)
           = Cardinality(early) + Cardinality(late) - Cardinality(early \cap late)
      /\ IsFiniteSet(early \cap late)
  BY <1>2, FS_Union, FS_Subset
<1>4. /\ Cardinality(all) <= Cardinality(early \cup late)
      /\ Cardinality(all) \in Nat /\ Cardinality(early) \in Nat /\ Cardinality(late) \in Nat
      /\ Cardinality(early \cap late) \in Nat
  BY <1>1, <1>2, <1>3, FS_Subset, FS_CardinalityType
<1>5. Cardinality(all) <= Cardinality(early) + Cardinality(late)
  BY <1>3, <1>4
<1> QED
  BY <1>5 DEF Count, all, early, late

\* One more SYN counts where its destination and time fall.
LEMMA CountAppend ==
  ASSUME NEW q \in Seq(Flood!Syn), NEW syn \in Flood!Syn, NEW h, NEW first, NEW last
  PROVE  /\ syn.server = h /\ first <= syn.ts /\ syn.ts <= last =>
              Count(Append(q, syn), h, first, last) = Count(q, h, first, last) + 1
         /\ ~ (syn.server = h /\ first <= syn.ts /\ syn.ts <= last) =>
              SynsIn(Append(q, syn), h, first, last) = SynsIn(q, h, first, last)
<1> DEFINE n   == Len(q)
           r   == Append(q, syn)
           old == SynsIn(q, h, first, last)
<1>1. n \in Nat /\ Len(r) = n + 1 /\ r[n + 1] = syn /\ \A i \in 1 .. n : r[i] = q[i]
  OBVIOUS
<1>2. ASSUME syn.server = h, first <= syn.ts, syn.ts <= last
      PROVE  SynsIn(r, h, first, last) = old \cup {n + 1} /\ n + 1 \notin old
  <2> HIDE DEF n, r
  <2> QED
    BY <1>1, <1>2 DEF SynsIn, n
<1>3. ASSUME ~ (syn.server = h /\ first <= syn.ts /\ syn.ts <= last)
      PROVE  SynsIn(r, h, first, last) = old
  <2> HIDE DEF n, r
  <2> QED
    BY <1>1, <1>3 DEF SynsIn, n
<1>4. ASSUME NEW k, k \notin old PROVE Cardinality(old \cup {k}) = Cardinality(old) + 1
  BY <1>4, SynsFinite, FS_AddElement
<1> QED
  BY <1>2, <1>3, <1>4 DEF Count

LEMMA CountNew ==
  ASSUME NEW q \in Seq(Flood!Syn), NEW syn \in Flood!Syn, NEW h, NEW first \in Int, NEW last \in Int,
         syn.server = h, first <= syn.ts, syn.ts <= last
  PROVE  Count(Append(q, syn), h, first, last) = Count(q, h, first, last) + 1
BY CountAppend

\* Where the SYN does not fall nothing changes, and counts never shrink.
LEMMA CountKept ==
  ASSUME NEW q \in Seq(Flood!Syn), NEW syn \in Flood!Syn, NEW h, NEW first, NEW last
  PROVE  /\ ~ (syn.server = h /\ first <= syn.ts /\ syn.ts <= last) =>
              Count(Append(q, syn), h, first, last) = Count(q, h, first, last)
         /\ Count(q, h, first, last) <= Count(Append(q, syn), h, first, last)
         /\ Count(q, h, first, last) \in Nat
<1>1. Count(q, h, first, last) \in Nat
  BY SynsFinite
<1>2. CASE syn.server = h /\ first <= syn.ts /\ syn.ts <= last
  <2>1. Count(Append(q, syn), h, first, last) = Count(q, h, first, last) + 1
    BY <1>2, CountAppend
  <2> QED
    BY <1>1, <1>2, <2>1
<1>3. CASE ~ (syn.server = h /\ first <= syn.ts /\ syn.ts <= last)
  <2>1. Count(Append(q, syn), h, first, last) = Count(q, h, first, last)
    BY <1>3, CountAppend DEF Count
  <2> QED
    BY <1>1, <1>3, <2>1
<1> QED
  BY <1>2, <1>3

LEMMA AlertWidens ==
  ASSUME NEW a \in Seq(FloodAlert), NEW h,
         NEW first \in Int, NEW last \in Int, NEW first2 \in Int, NEW last2 \in Int,
         first2 <= first, last <= last2, AlertWithin(a, h, first, last)
  PROVE  AlertWithin(a, h, first2, last2)
<1>1. PICK i \in 1 .. Len(a) : a[i].dst = h /\ first <= a[i].ts /\ a[i].ts <= last
  BY DEF AlertWithin
<1>2. a[i].ts \in 0 .. MaxTime
  <2>1. a[i] \in FloodAlert
    OBVIOUS
  <2> QED
    BY <2>1 DEF FloodAlert
<1>3. first2 <= a[i].ts /\ a[i].ts <= last2
  BY <1>1, <1>2, BoundsAssumption
<1> QED
  BY <1>1, <1>3 DEF AlertWithin

\* A SYN within the destination's window.
LEMMA WindowContinues ==
  ASSUME NEW q \in Seq(Flood!Syn), NEW syn \in Flood!Syn, NEW h, syn.server = h, NEW a, NEW b \in Seq(FloodAlert),
         NEW s \in 0 .. MaxTime, NEW c \in Nat,
         \A i \in 1 .. Len(q) : q[i].ts <= syn.ts,
         Windowed(q, a, h, s, c), s <= syn.ts, syn.ts <= s + SynWindowSecs,
         Alerted(a, b, h, syn.ts, c + 1)
  PROVE  Windowed(Append(q, syn), b, h, s, c + 1)
<1> USE BoundsAssumption, SynAssumption
<1> DEFINE n == Len(q)
           r == Append(q, syn)
<1>1. /\ n \in Nat /\ Len(r) = n + 1 /\ r[n + 1] = syn
      /\ \A i \in 1 .. n : r[i] = q[i] /\ i \in 1 .. n + 1
      /\ \A i \in 1 .. n + 1 : i \in 1 .. n \/ i = n + 1
  OBVIOUS
<1>2. syn.ts \in 0 .. MaxTime
  BY DEF Flood!Syn
<1>3. c + 1 = Count(r, h, s, MaxTime)
  <2>1. s <= syn.ts /\ syn.ts <= MaxTime /\ s \in Int /\ MaxTime \in Int
    BY <1>2
  <2>2. Count(r, h, s, MaxTime) = Count(q, h, s, MaxTime) + 1
    BY <2>1, CountNew
  <2> QED
    BY <2>2 DEF Windowed
<1>4. \E i \in 1 .. n + 1 : r[i].server = h /\ r[i].ts = s
  <2>1. PICK i \in 1 .. n : q[i].server = h /\ q[i].ts = s
    BY DEF Windowed
  <2> QED
    BY <1>1, <2>1
<1>5. ASSUME NEW i \in 1 .. n + 1, r[i].server = h PROVE r[i].ts <= s + SynWindowSecs
  <2>1. CASE i \in 1 .. n
    <3>1. r[i] = q[i] /\ q[i].ts <= s + SynWindowSecs
      BY <1>1, <1>5, <2>1 DEF Windowed
    <3> QED
      BY <3>1
  <2>2. CASE i = n + 1
    BY <1>1, <2>2
  <2> QED
    BY <1>1, <2>1, <2>2
<1>6. ASSUME NEW j \in 1 .. n + 1, r[j].server = h, r[j].ts < s
      PROVE  \E k \in 1 .. n + 1 : /\ r[k].server = h
                                   /\ r[k].ts <= r[j].ts /\ r[j].ts <= r[k].ts + SynWindowSecs
                                   /\ r[k].ts + SynWindowSecs < s
  <2>1. j \in 1 .. n
    BY <1>1, <1>2, <1>6
  <2>2. r[j] = q[j]
    BY <1>1, <2>1
  <2>3. PICK k \in 1 .. n : /\ q[k].server = h
                            /\ q[k].ts <= q[j].ts /\ q[j].ts <= q[k].ts + SynWindowSecs
                            /\ q[k].ts + SynWindowSecs < s
    BY <1>6, <2>1, <2>2 DEF Windowed
  <2>4. r[k] = q[k] /\ k \in 1 .. n + 1
    BY <1>1
  <2> QED
    BY <2>2, <2>3, <2>4
\* The SYN that is the threshold's fires; before it nothing changes.
<1>7. ASSUME NEW x \in Int, Count(r, h, s, x) >= SynThreshold PROVE AlertWithin(b, h, s, x)
  <2>1. ASSUME Count(q, h, s, x) >= SynThreshold PROVE AlertWithin(b, h, s, x)
    BY <2>1 DEF Windowed, Alerted
  <2>2. CASE x < syn.ts
    <3>1. Count(r, h, s, x) = Count(q, h, s, x)
      <4>1. ~ (syn.ts <= x)
        BY <1>2, <2>2
      <4> QED
        BY <4>1, CountKept
    <3> QED
      BY <1>7, <2>1, <3>1
  <2>3. CASE syn.ts <= x
    <3>1. SynsIn(q, h, s, x) = SynsIn(q, h, s, MaxTime)
      <4> SUFFICES ASSUME NEW i \in 1 .. Len(q) PROVE q[i].ts <= x /\ q[i].ts <= MaxTime
        BY DEF SynsIn
      <4>1. q[i].ts \in 0 .. MaxTime /\ q[i].ts <= syn.ts
        BY SynFields
      <4> QED
        BY <1>2, <2>3, <4>1
    <3>2. Count(q, h, s, x) = c
      BY <3>1 DEF Count, Windowed
    <3>3. Count(r, h, s, x) = c + 1
      <4>1. Count(r, h, s, x) = Count(q, h, s, x) + 1
        BY <2>3, CountNew
      <4> QED
        BY <3>2, <4>1
    <3>4. c >= SynThreshold \/ c + 1 = SynThreshold
      BY <1>7, <3>3
    <3>5. c + 1 = SynThreshold => AlertWithin(b, h, s, x)
      BY <2>3 DEF Alerted
    <3> QED
      BY <2>1, <3>2, <3>4, <3>5
  <2> QED
    BY <1>2, <2>2, <2>3
<1>8. ASSUME NEW t \in Int, s <= t + SynWindowSecs, Count(r, h, t, s - 1) >= SynThreshold
      PROVE  AlertWithin(b, h, t - SynWindowSecs, s - 1)
  <2>1. ~ (syn.ts <= s - 1)
    BY <1>2
  <2>2. Count(r, h, t, s - 1) = Count(q, h, t, s - 1)
    BY <2>1, CountKept
  <2> QED
    BY <1>8, <2>2 DEF Windowed, Alerted
<1> HIDE DEF r, n
<1>9. Windowed(r, b, h, s, c + 1)
  BY <1>1, <1>3, <1>4, <1>5, <1>6, <1>7, <1>8, Zenon DEF Windowed
<1> QED
  BY <1>9 DEF r

\* The first SYN of a destination, or one after its window's end.
LEMMA WindowRestarts ==
  ASSUME NEW q \in Seq(Flood!Syn), NEW syn \in Flood!Syn, NEW h, syn.server = h, NEW a, NEW b \in Seq(FloodAlert),
         \A i \in 1 .. Len(q) : q[i].ts <= syn.ts,
         \/ \A i \in 1 .. Len(q) : q[i].server # h
         \/ \E s \in 0 .. MaxTime, c \in Nat :
              Windowed(q, a, h, s, c) /\ s + SynWindowSecs < syn.ts,
         Alerted(a, b, h, syn.ts, 1)
  PROVE  Windowed(Append(q, syn), b, h, syn.ts, 1)
<1> USE BoundsAssumption, SynAssumption
<1> DEFINE n == Len(q)
           r == Append(q, syn)
<1>1. /\ n \in Nat /\ Len(r) = n + 1 /\ r[n + 1] = syn /\ n + 1 \in 1 .. n + 1
      /\ \A i \in 1 .. n : r[i] = q[i] /\ i \in 1 .. n + 1
      /\ \A i \in 1 .. n + 1 : i \in 1 .. n \/ i = n + 1
  OBVIOUS
<1> DEFINE ts == syn.ts
<1>2. ts \in 0 .. MaxTime
  BY DEF Flood!Syn
\* None of the destination's earlier SYNs is as late.
<1>3. ASSUME NEW i \in 1 .. n, q[i].server = h PROVE q[i].ts < ts
  <2>1. PICK s \in 0 .. MaxTime, c \in Nat : Windowed(q, a, h, s, c) /\ s + SynWindowSecs < ts
    BY <1>3
  <2>2. q[i].ts <= s + SynWindowSecs /\ q[i].ts \in 0 .. MaxTime
    BY <1>3, <2>1, SynFields DEF Windowed
  <2> QED
    BY <1>2, <2>1, <2>2
<1>4. ASSUME NEW x PROVE Count(q, h, ts, x) = 0
  <2>1. SynsIn(q, h, ts, x) = {}
    <3> SUFFICES ASSUME NEW i \in 1 .. n, q[i].server = h, ts <= q[i].ts PROVE FALSE
      BY DEF SynsIn
    <3>1. q[i].ts < ts /\ q[i].ts \in 0 .. MaxTime
      BY <1>3, SynFields
    <3> QED
      BY <1>2, <3>1
  <2> QED
    BY <2>1, FS_EmptySet DEF Count
<1>5. ASSUME NEW x \in Int, ts <= x PROVE Count(r, h, ts, x) = 1
  <2>1. ts <= ts /\ ts \in Int
    BY <1>2
  <2>2. Count(r, h, ts, x) = Count(q, h, ts, x) + 1
    BY <1>5, <2>1, CountNew
  <2> QED
    BY <1>4, <2>2
<1>6. ASSUME NEW i \in 1 .. n + 1, r[i].server = h PROVE r[i].ts <= ts + SynWindowSecs
  <2>1. CASE i \in 1 .. n
    <3>1. r[i] = q[i] /\ q[i].ts <= ts /\ q[i].ts \in 0 .. MaxTime
      BY <1>1, <2>1, SynFields
    <3>2. PICK e \in 0 .. MaxTime : e = q[i].ts /\ e <= ts
      BY <3>1
    <3>3. e \in Int /\ ts \in Int
      BY <1>2, <3>2
    <3>4. e <= ts + SynWindowSecs
      BY <3>2, <3>3, Reached
    <3> QED
      BY <3>1, <3>2, <3>4, Zenon
  <2>2. CASE i = n + 1
    <3>1. r[i].ts = ts
      BY <1>1, <2>2
    <3>2. ts <= ts + SynWindowSecs
      BY <1>2
    <3> QED
      BY <3>1, <3>2
  <2> QED
    BY <1>1, <2>1, <2>2
<1>7. ASSUME NEW j \in 1 .. n + 1, r[j].server = h, r[j].ts < ts
      PROVE  \E k \in 1 .. n + 1 : /\ r[k].server = h
                                   /\ r[k].ts <= r[j].ts /\ r[j].ts <= r[k].ts + SynWindowSecs
                                   /\ r[k].ts + SynWindowSecs < ts
  <2>1. j \in 1 .. n
    BY <1>1, <1>2, <1>7
  <2>2. r[j] = q[j]
    BY <1>1, <2>1
  <2>3. PICK s \in 0 .. MaxTime, c \in Nat : Windowed(q, a, h, s, c) /\ s + SynWindowSecs < ts
    BY <1>7, <2>1, <2>2
  <2>4. q[j].ts \in 0 .. MaxTime /\ q[j].ts <= s + SynWindowSecs
    BY <1>7, <2>1, <2>2, <2>3, SynFields DEF Windowed
  <2>5. \E k \in 1 .. n : /\ q[k].server = h
                          /\ q[k].ts <= q[j].ts /\ q[j].ts <= q[k].ts + SynWindowSecs
                          /\ q[k].ts + SynWindowSecs < ts
    <3>1. CASE s <= q[j].ts
      <4>1. PICK k \in 1 .. n : q[k].server = h /\ q[k].ts = s
        BY <2>3 DEF Windowed
      <4> QED
        BY <2>3, <2>4, <3>1, <4>1
    <3>2. CASE q[j].ts < s
      <4>1. PICK k \in 1 .. n : /\ q[k].server = h
                                /\ q[k].ts <= q[j].ts /\ q[j].ts <= q[k].ts + SynWindowSecs
                                /\ q[k].ts + SynWindowSecs < s
        <5>1. q[j].server = h
          BY <1>7, <2>2
        <5> QED
          BY <2>1, <2>3, <3>2, <5>1 DEF Windowed
      <4>2. q[k].ts \in 0 .. MaxTime
        BY SynFields
      <4>3. q[k].ts + SynWindowSecs < ts
        BY <1>2, <2>3, <4>1, <4>2, SMTT(30)
      <4> QED
        BY <4>1, <4>3
    <3> QED
      BY <2>4, <3>1, <3>2
  <2>6. PICK k \in 1 .. n : /\ q[k].server = h
                            /\ q[k].ts <= q[j].ts /\ q[j].ts <= q[k].ts + SynWindowSecs
                            /\ q[k].ts + SynWindowSecs < ts
    BY <2>5
  <2>7. r[k] = q[k] /\ k \in 1 .. n + 1
    BY <1>1
  <2> QED
    BY <2>2, <2>6, <2>7
<1>8. ASSUME NEW x \in Int, Count(r, h, ts, x) >= SynThreshold PROVE AlertWithin(b, h, ts, x)
  <2>1. CASE ts <= x
    <3>1. Count(r, h, ts, x) = 1
      BY <1>5, <2>1
    <3>2. 1 = SynThreshold
      BY <1>8, <3>1
    <3> QED
      BY <1>2, <2>1, <3>2 DEF Alerted
  <2>2. CASE ~ (ts <= x)
    <3>1. Count(r, h, ts, x) = 0
      BY <1>4, <2>2, CountKept
    <3> QED
      BY <1>8, <3>1
  <2> QED
    BY <2>1, <2>2
\* Those shortly before are the window's that ended.
<1>9. ASSUME NEW t \in Int, ts <= t + SynWindowSecs, Count(r, h, t, ts - 1) >= SynThreshold
      PROVE  AlertWithin(b, h, t - SynWindowSecs, ts - 1)
  <2>1. Count(q, h, t, ts - 1) >= SynThreshold
    <3>1. ~ (ts <= ts - 1)
      BY <1>2
    <3> QED
      BY <1>9, <3>1, CountKept
  <2>2. PICK i \in 1 .. n : q[i].server = h /\ t <= q[i].ts
    <3>1. SynsIn(q, h, t, ts - 1) # {}
      <4>1. SynsIn(q, h, t, ts - 1) = {} => Count(q, h, t, ts - 1) = 0
        BY FS_EmptySet DEF Count
      <4> QED
        BY <2>1, <4>1
    <3> QED
      BY <3>1 DEF SynsIn
  <2>3. PICK s \in 0 .. MaxTime, c \in Nat : Windowed(q, a, h, s, c) /\ s + SynWindowSecs < ts
    BY <2>2
  <2>4. q[i].ts \in 0 .. MaxTime /\ q[i].ts <= s + SynWindowSecs
    BY <2>2, <2>3, SynFields DEF Windowed
  <2>5. t - SynWindowSecs <= s /\ s < t /\ s + SynWindowSecs <= ts - 1 /\ s + SynWindowSecs \in Int
    <3>1. t <= s + SynWindowSecs
      BY <2>2, <2>4
    <3>2. s + SynWindowSecs < ts /\ ts <= t + SynWindowSecs
      BY <1>9, <2>3
    <3> QED
      BY <1>2, <3>1, <3>2, SMTT(30)
  <2>6. SynsIn(q, h, t, ts - 1) \subseteq SynsIn(q, h, s, s + SynWindowSecs)
    <3> SUFFICES ASSUME NEW j \in 1 .. n, q[j].server = h, t <= q[j].ts
                 PROVE  s <= q[j].ts /\ q[j].ts <= s + SynWindowSecs
      BY DEF SynsIn
    <3>1. q[j].ts \in 0 .. MaxTime /\ q[j].ts <= s + SynWindowSecs
      BY <2>3, SynFields DEF Windowed
    <3> QED
      BY <2>5, <3>1
  <2>7. Count(q, h, s, s + SynWindowSecs) >= SynThreshold
    <3>1. Count(q, h, t, ts - 1) <= Count(q, h, s, s + SynWindowSecs)
      BY <2>6, CountSubset
    <3>2. Count(q, h, t, ts - 1) \in Nat /\ Count(q, h, s, s + SynWindowSecs) \in Nat
      BY SynsFinite
    <3> QED
      BY <2>1, <3>1, <3>2
  <2>8. AlertWithin(b, h, s, s + SynWindowSecs)
    <3>1. AlertWithin(a, h, s, s + SynWindowSecs)
      BY <2>3, <2>5, <2>7 DEF Windowed
    <3> QED
      BY <3>1 DEF Alerted
  <2> QED
    <3>1. t - SynWindowSecs \in Int /\ ts - 1 \in Int /\ s \in Int
      BY <1>2
    <3> QED
      BY <2>5, <2>8, <3>1, AlertWidens
<1> HIDE DEF r, n, ts
<1>10. \E i \in 1 .. n + 1 : r[i].server = h /\ r[i].ts = ts
  BY <1>1 DEF ts
<1>11. ts <= MaxTime /\ MaxTime \in Int
  BY <1>2
<1>12. 1 = Count(r, h, ts, MaxTime)
  BY <1>5, <1>11
<1>13. Windowed(r, b, h, ts, 1)
  BY <1>1, <1>6, <1>7, <1>8, <1>9, <1>10, <1>12, Zenon DEF Windowed
<1> QED
  BY <1>13 DEF r, ts

\* A SYN for another destination.
LEMMA WindowUntouched ==
  ASSUME NEW q \in Seq(Flood!Syn), NEW syn \in Flood!Syn, NEW a, NEW b, NEW h,
         syn.server # h, NEW s \in 0 .. MaxTime, NEW c \in Nat,
         Windowed(q, a, h, s, c), \A first, last : AlertWithin(a, h, first, last) =>
                                                     AlertWithin(b, h, first, last)
  PROVE  Windowed(Append(q, syn), b, h, s, c)
<1> DEFINE n == Len(q)
           r == Append(q, syn)
<1>1. /\ n \in Nat /\ Len(r) = n + 1 /\ r[n + 1] = syn
      /\ \A i \in 1 .. n : r[i] = q[i] /\ i \in 1 .. n + 1
      /\ \A i \in 1 .. n + 1 : i \in 1 .. n \/ i = n + 1
  OBVIOUS
<1>2. ASSUME NEW first, NEW last PROVE Count(r, h, first, last) = Count(q, h, first, last)
  BY CountKept
<1>3. ASSUME NEW i \in 1 .. n + 1, r[i].server = h PROVE i \in 1 .. n /\ r[i] = q[i]
  <2> HIDE DEF r, n
  <2> QED
    BY <1>1, <1>3
<1>4. \E i \in 1 .. n + 1 : r[i].server = h /\ r[i].ts = s
  <2>1. PICK i \in 1 .. n : q[i].server = h /\ q[i].ts = s
    BY DEF Windowed
  <2> QED
    BY <1>1, <2>1
<1>5. ASSUME NEW i \in 1 .. n + 1, r[i].server = h PROVE r[i].ts <= s + SynWindowSecs
  BY <1>3, <1>5 DEF Windowed
<1>6. ASSUME NEW j \in 1 .. n + 1, r[j].server = h, r[j].ts < s
      PROVE  \E k \in 1 .. n + 1 : /\ r[k].server = h
                                   /\ r[k].ts <= r[j].ts /\ r[j].ts <= r[k].ts + SynWindowSecs
                                   /\ r[k].ts + SynWindowSecs < s
  <2>1. j \in 1 .. n /\ r[j] = q[j]
    BY <1>3, <1>6
  <2>2. PICK k \in 1 .. n : /\ q[k].server = h
                            /\ q[k].ts <= q[j].ts /\ q[j].ts <= q[k].ts + SynWindowSecs
                            /\ q[k].ts + SynWindowSecs < s
    BY <1>6, <2>1 DEF Windowed
  <2>3. r[k] = q[k] /\ k \in 1 .. n + 1
    BY <1>1
  <2> QED
    BY <2>1, <2>2, <2>3
<1>7. ASSUME NEW x \in Int, Count(r, h, s, x) >= SynThreshold PROVE AlertWithin(b, h, s, x)
  BY <1>2, <1>7 DEF Windowed
<1>8. ASSUME NEW t \in Int, s <= t + SynWindowSecs, Count(r, h, t, s - 1) >= SynThreshold
      PROVE  AlertWithin(b, h, t - SynWindowSecs, s - 1)
  BY <1>2, <1>8 DEF Windowed
<1>9. c = Count(r, h, s, MaxTime)
  BY <1>2 DEF Windowed
<1> HIDE DEF r, n
<1>10. Windowed(r, b, h, s, c)
  BY <1>1, <1>4, <1>5, <1>6, <1>7, <1>8, <1>9, Zenon DEF Windowed
<1> QED
  BY <1>10 DEF r

\* 2 * SynThreshold - 1 SYNs in a window's length leave SynThreshold before the
\* current window's start or in it.
LEMMA FloodCaught ==
  ASSUME NEW r \in Seq(Flood!Syn), NEW b \in Seq(FloodAlert), NEW h,
         NEW s \in 0 .. MaxTime, NEW c \in Nat, Windowed(r, b, h, s, c),
         NEW ts \in 0 .. MaxTime, s <= ts, ts <= s + SynWindowSecs,
         NEW t \in 0 .. MaxTime, t <= ts, ts <= t + SynWindowSecs,
         Count(r, h, t, t + SynWindowSecs) >= 2 * SynThreshold - 1
  PROVE  AlertWithin(b, h, t - SynWindowSecs, t + SynWindowSecs)
<1> USE BoundsAssumption, SynAssumption
<1>1. PICK all \in Nat, early \in Nat, late \in Nat :
        /\ all = Count(r, h, t, t + SynWindowSecs)
        /\ early = Count(r, h, t, s - 1)
        /\ late = Count(r, h, s, t + SynWindowSecs)
  BY SynsFinite
<1>2. /\ t + SynWindowSecs \in Int /\ t - SynWindowSecs \in Int /\ s - 1 \in Int /\ s \in Int
      /\ t \in Int /\ t - SynWindowSecs <= s /\ s <= t + SynWindowSecs
  OBVIOUS
<1>3. all <= early + late
  BY <1>1, <1>2, CountSplit
<1>4. CASE late >= SynThreshold
  <2>1. AlertWithin(b, h, s, t + SynWindowSecs)
    BY <1>1, <1>2, <1>4 DEF Windowed
  <2> QED
    BY <1>2, <2>1, AlertWidens
<1>5. CASE early >= SynThreshold
  <2>1. PICK lo \in Int, mid \in Int, hi \in Int :
          /\ lo = t - SynWindowSecs /\ mid = s - 1 /\ hi = t + SynWindowSecs
          /\ lo <= lo /\ mid <= hi
    BY <1>2
  <2>2. AlertWithin(b, h, lo, mid)
    BY <1>1, <1>2, <1>5, <2>1 DEF Windowed
  <2>3. AlertWithin(b, h, lo, hi)
    BY <2>1, <2>2, AlertWidens
  <2> QED
    BY <2>1, <2>3
<1> QED
  BY <1>1, <1>3, <1>4, <1>5, SMTT(30)

\* After a quiet window's length no window starts before a flood of
\* SynThreshold does.
LEMMA SuddenFloodCaught ==
  ASSUME NEW r \in Seq(Flood!Syn), NEW b \in Seq(FloodAlert), NEW h,
         NEW s \in 0 .. MaxTime, NEW c \in Nat, Windowed(r, b, h, s, c),
         NEW ts \in 0 .. MaxTime, s <= ts, ts <= s + SynWindowSecs,
         NEW t \in 0 .. MaxTime, t <= ts, ts <= t + SynWindowSecs,
         SynsIn(r, h, t - SynWindowSecs, t - 1) = {},
         Count(r, h, t, t + SynWindowSecs) >= SynThreshold
  PROVE  AlertWithin(b, h, t, t + SynWindowSecs)
<1> USE BoundsAssumption, SynAssumption
<1>1. ASSUME NEW i \in 1 .. Len(r), r[i].server = h, t - SynWindowSecs <= r[i].ts
      PROVE  t <= r[i].ts
  <2>1. PICK x \in 0 .. MaxTime : x = r[i].ts
    BY SynFields
  <2>2. ~ (x <= t - 1)
    BY <1>1, <2>1 DEF SynsIn
  <2>3. t <= x
    BY <2>2
  <2> QED
    BY <2>1, <2>3
<1>2. t <= s
  <2>1. PICK i \in 1 .. Len(r) : r[i].server = h /\ r[i].ts = s
    BY DEF Windowed
  <2> QED
    BY <1>1, <2>1
<1>3. SynsIn(r, h, t, t + SynWindowSecs) \subseteq SynsIn(r, h, s, t + SynWindowSecs)
  <2> SUFFICES ASSUME NEW j \in 1 .. Len(r), r[j].server = h, t <= r[j].ts, r[j].ts < s
               PROVE  FALSE
    <3>1. ASSUME NEW j \in 1 .. Len(r) PROVE r[j].ts \in 0 .. MaxTime
      BY SynFields
    <3> QED
      BY <3>1 DEF SynsIn
  <2>1. PICK k \in 1 .. Len(r) : /\ r[k].server = h
                                 /\ r[k].ts <= r[j].ts /\ r[j].ts <= r[k].ts + SynWindowSecs
                                 /\ r[k].ts + SynWindowSecs < s
    BY DEF Windowed
  <2>2. r[k].ts \in 0 .. MaxTime /\ r[j].ts \in 0 .. MaxTime
    BY SynFields
  <2>3. t - SynWindowSecs <= r[k].ts
    <3>1. PICK x \in 0 .. MaxTime, y \in 0 .. MaxTime : x = r[j].ts /\ y = r[k].ts
      BY <2>2
    <3>2. t <= x /\ x <= y + SynWindowSecs
      BY <2>1, <3>1
    <3>3. t - SynWindowSecs <= y
      BY <3>2, Shifted, SMTT(30)
    <3> QED
      BY <3>1, <3>3
  <2>4. t <= r[k].ts
    BY <1>1, <2>1, <2>3
  <2> QED
    BY <2>1, <2>2, <2>4, SMTT(30)
<1>4. Count(r, h, s, t + SynWindowSecs) >= SynThreshold
  <2>1. Count(r, h, t, t + SynWindowSecs) <= Count(r, h, s, t + SynWindowSecs)
    BY <1>3, CountSubset
  <2>2. Count(r, h, t, t + SynWindowSecs) \in Nat /\ Count(r, h, s, t + SynWindowSecs) \in Nat
    BY SynsFinite
  <2> QED
    BY <2>1, <2>2
<1>5. t + SynWindowSecs \in Int /\ s \in Int /\ t \in Int /\ t + SynWindowSecs <= t + SynWindowSecs
  OBVIOUS
<1>6. AlertWithin(b, h, s, t + SynWindowSecs)
  BY <1>4, <1>5 DEF Windowed
<1> QED
  BY <1>2, <1>5, <1>6, AlertWidens

\* What the alerts owe to the SYNs.
Reported(q, a) ==
  /\ \A i \in 1 .. Len(a) : Count(q, a[i].dst, a[i].ts - SynWindowSecs, a[i].ts) >= SynThreshold
  /\ \A h \in Hosts, t \in 0 .. MaxTime :
       Count(q, h, t, t + SynWindowSecs) >= 2 * SynThreshold - 1 =>
         AlertWithin(a, h, t - SynWindowSecs, t + SynWindowSecs)
  /\ \A h \in Hosts, t \in 0 .. MaxTime :
       /\ SynsIn(q, h, t - SynWindowSecs, t - 1) = {}
       /\ Count(q, h, t, t + SynWindowSecs) >= SynThreshold
       => AlertWithin(a, h, t, t + SynWindowSecs)

\* Every destination's window is in step with the SYNs fed and the alerts.
ReportInv ==
  /\ flood_fed \in Seq(Flood!Syn)
  /\ \A i \in 1 .. Len(flood_fed) : /\ flood_fed[i].ts <= now
                                    /\ flood_fed[i].server \in DOMAIN flood_state
  /\ \A h \in DOMAIN flood_state :
       Windowed(flood_fed, flood_alerts, h, flood_state[h].start, flood_state[h].count)
  /\ Reported(flood_fed, flood_alerts)

\* The c-th SYN of the window s reports what it has to.
LEMMA ReportsKept ==
  ASSUME NEW q \in Seq(Flood!Syn), NEW syn \in Flood!Syn, NEW h, syn.server = h,
         NEW a \in Seq(FloodAlert), NEW b \in Seq(FloodAlert),
         NEW s \in 0 .. MaxTime, NEW c \in Nat, NEW ts \in 0 .. MaxTime, ts = syn.ts,
         \A i \in 1 .. Len(q) : q[i].ts <= ts,
         s <= ts, ts <= s + SynWindowSecs, Windowed(Append(q, syn), b, h, s, c),
         Alerted(a, b, h, ts, c), Reported(q, a)
  PROVE  Reported(Append(q, syn), b)
<1> USE BoundsAssumption, SynAssumption
<1> DEFINE r == Append(q, syn)
<1>1. r \in Seq(Flood!Syn)
  OBVIOUS
<1>2. ASSUME NEW i \in 1 .. Len(r) PROVE r[i].ts \in 0 .. MaxTime /\ r[i].ts <= ts
  <2>1. CASE i = Len(q) + 1
    BY <2>1
  <2>2. CASE i \in 1 .. Len(q)
    BY <2>2, SynFields
  <2> QED
    BY <2>1, <2>2
\* Those the alert counted came within a window's length of it.
<1>3. ASSUME c = SynThreshold
      PROVE  Count(r, h, ts - SynWindowSecs, ts) >= SynThreshold
  <2> HIDE DEF r
  <2>1. SynsIn(r, h, s, MaxTime) \subseteq SynsIn(r, h, ts - SynWindowSecs, ts)
    <3> SUFFICES ASSUME NEW i \in 1 .. Len(r), s <= r[i].ts
                 PROVE  ts - SynWindowSecs <= r[i].ts /\ r[i].ts <= ts
      BY DEF SynsIn
    <3>1. PICK x \in Int : x = r[i].ts /\ x <= ts
      BY <1>2
    <3>2. PICK y \in Int, z \in Int : y = s /\ z = ts
      OBVIOUS
    <3>3. y <= x /\ z <= y + SynWindowSecs
      BY <3>1, <3>2
    <3>4. z <= x + SynWindowSecs
      BY <3>3, Wider
    <3>5. ts - SynWindowSecs <= x
      BY <3>2, <3>4, Shifted
    <3> QED
      BY <3>1, <3>5
  <2>2. Count(r, h, s, MaxTime) <= Count(r, h, ts - SynWindowSecs, ts)
    BY <1>1, <2>1, CountSubset
  <2>3. Count(r, h, s, MaxTime) = c
    BY DEF Windowed, r
  <2>4. Count(r, h, ts - SynWindowSecs, ts) \in Nat
    BY <1>1, SynsFinite
  <2> QED
    BY <1>3, <2>2, <2>3, <2>4
<1>4. ASSUME NEW i \in 1 .. Len(b)
      PROVE  Count(r, b[i].dst, b[i].ts - SynWindowSecs, b[i].ts) >= SynThreshold
  <2>1. CASE i \in 1 .. Len(a) /\ b[i] = a[i]
    <3>1. Count(q, a[i].dst, a[i].ts - SynWindowSecs, a[i].ts) >= SynThreshold
      BY <2>1 DEF Reported
    <3>2. PICK m \in Nat, n \in Nat :
            /\ m = Count(q, a[i].dst, a[i].ts - SynWindowSecs, a[i].ts)
            /\ n = Count(r, a[i].dst, a[i].ts - SynWindowSecs, a[i].ts)
      BY <1>1, SynsFinite
    <3>3. m <= n
      BY <3>2, CountKept
    <3>4. n >= SynThreshold
      BY <3>1, <3>2, <3>3
    <3> QED
      BY <2>1, <3>2, <3>4
  <2>2. CASE c = SynThreshold /\ b[i].dst = h /\ b[i].ts = ts
    BY <1>3, <2>2
  <2> QED
    BY <2>1, <2>2 DEF Alerted
<1>5. Windowed(r, b, h, s, c)
  OBVIOUS
\* A span the SYN is not in counts as before.
<1>6. ASSUME NEW g \in Hosts, NEW t \in 0 .. MaxTime, ~ (g = h /\ t <= ts /\ ts <= t + SynWindowSecs)
      PROVE  Count(r, g, t, t + SynWindowSecs) = Count(q, g, t, t + SynWindowSecs)
  BY <1>6, CountKept
<1>7. ASSUME NEW g \in Hosts, NEW t \in 0 .. MaxTime,
             Count(r, g, t, t + SynWindowSecs) >= 2 * SynThreshold - 1
      PROVE  AlertWithin(b, g, t - SynWindowSecs, t + SynWindowSecs)
  <2>1. CASE g = h /\ t <= ts /\ ts <= t + SynWindowSecs
    <3> HIDE DEF r
    <3>1. Count(r, h, t, t + SynWindowSecs) >= 2 * SynThreshold - 1
      BY <1>7, <2>1
    <3>2. AlertWithin(b, h, t - SynWindowSecs, t + SynWindowSecs)
      BY <1>1, <1>5, <2>1, <3>1, FloodCaught
    <3> QED
      BY <2>1, <3>2
  <2>2. CASE ~ (g = h /\ t <= ts /\ ts <= t + SynWindowSecs)
    <3>1. AlertWithin(a, g, t - SynWindowSecs, t + SynWindowSecs)
      BY <1>6, <1>7, <2>2 DEF Reported
    <3> QED
      BY <3>1 DEF Alerted
  <2> QED
    BY <2>1, <2>2
<1>8. ASSUME NEW g \in Hosts, NEW t \in 0 .. MaxTime,
             SynsIn(r, g, t - SynWindowSecs, t - 1) = {},
             Count(r, g, t, t + SynWindowSecs) >= SynThreshold
      PROVE  AlertWithin(b, g, t, t + SynWindowSecs)
  <2>1. CASE g = h /\ t <= ts /\ ts <= t + SynWindowSecs
    <3> HIDE DEF r
    <3>1. /\ SynsIn(r, h, t - SynWindowSecs, t - 1) = {}
          /\ Count(r, h, t, t + SynWindowSecs) >= SynThreshold
      BY <1>8, <2>1
    <3>2. AlertWithin(b, h, t, t + SynWindowSecs)
      BY <1>1, <1>5, <2>1, <3>1, SuddenFloodCaught
    <3> QED
      BY <2>1, <3>2
  <2>2. CASE ~ (g = h /\ t <= ts /\ ts <= t + SynWindowSecs)
    <3>1. SynsIn(q, g, t - SynWindowSecs, t - 1) = {}
      <4> SUFFICES ASSUME NEW i \in 1 .. Len(q),
                          i \in SynsIn(q, g, t - SynWindowSecs, t - 1)
                   PROVE  FALSE
        BY DEF SynsIn
      <4>1. i \in 1 .. Len(r) /\ r[i] = q[i]
        OBVIOUS
      <4> HIDE DEF r
      <4>2. i \in SynsIn(r, g, t - SynWindowSecs, t - 1)
        BY <4>1 DEF SynsIn
      <4> QED
        BY <1>8, <4>2
    <3>2. AlertWithin(a, g, t, t + SynWindowSecs)
      BY <1>6, <1>8, <2>2, <3>1 DEF Reported
    <3> QED
      BY <3>2 DEF Alerted
  <2> QED
    BY <2>1, <2>2
<1> HIDE DEF r
<1>9. Reported(r, b)
  BY <1>4, <1>7, <1>8 DEF Reported
<1> QED
  BY <1>9 DEF r

LEMMA AlertAppended ==
  ASSUME NEW a \in Seq(FloodAlert), NEW b, NEW alert \in FloodAlert, NEW c,
         b = IF c = SynThreshold THEN Append(a, alert) ELSE a
  PROVE  Alerted(a, b, alert.dst, alert.ts, c)
<1>1. CASE c # SynThreshold
  BY <1>1 DEF Alerted
<1>2. CASE c = SynThreshold
  <2>1. /\ Len(a) \in Nat /\ Len(b) = Len(a) + 1 /\ b[Len(a) + 1] = alert
        /\ Len(a) + 1 \in 1 .. Len(b)
        /\ \A i \in 1 .. Len(a) : i \in 1 .. Len(b) /\ b[i] = a[i]
        /\ \A i \in 1 .. Len(b) : i \in 1 .. Len(a) \/ i = Len(a) + 1
    BY <1>2
  <2>2. ASSUME NEW g, NEW first, NEW last, AlertWithin(a, g, first, last)
        PROVE  AlertWithin(b, g, first, last)
    <3>1. PICK i \in 1 .. Len(a) : a[i].dst = g /\ first <= a[i].ts /\ a[i].ts <= last
      BY <2>2 DEF AlertWithin
    <3>2. i \in 1 .. Len(b) /\ b[i] = a[i]
      BY <2>1
    <3> QED
      BY <3>1, <3>2, Zenon DEF AlertWithin
  <2>3. ASSUME NEW first \in Int, NEW last \in Int, first <= alert.ts, alert.ts <= last
        PROVE  AlertWithin(b, alert.dst, first, last)
    BY <2>1, <2>3, Zenon DEF AlertWithin
  <2>4. ASSUME NEW i \in 1 .. Len(b)
        PROVE  \/ i \in 1 .. Len(a) /\ b[i] = a[i]
               \/ c = SynThreshold /\ b[i].dst = alert.dst /\ b[i].ts = alert.ts
    BY <1>2, <2>1
  <2> QED
    BY <2>2, <2>3, <2>4 DEF Alerted
<1> QED
  BY <1>1, <1>2

LEMMA ReportStep ==
  ASSUME FloodInv, FloodInv', ReportInv, NEW syn \in Flood!Syn, Flood!FeedSyn(syn)
  PROVE  ReportInv'
<1> USE BoundsAssumption, SynAssumption
<1>0. PICK h, ts, q, a, b : /\ h = syn.server /\ ts = syn.ts
                            /\ q = flood_fed /\ a = flood_alerts /\ b = flood_alerts'
  OBVIOUS
<1>1. /\ h \in Hosts /\ ts \in 0 .. MaxTime /\ now \in 0 .. MaxTime
      /\ now <= ts /\ now' = ts /\ flood_fed' = Append(q, syn)
  BY <1>0 DEF FloodInv, FloodTypeOK, Flood!FeedSyn, Flood!Syn
<1>2. PICK start \in 0 .. MaxTime, count \in Nat, alert \in FloodAlert :
        Counted(h, ts, start, count, alert)
  BY <1>0, FloodMoves
<1>3. /\ q \in Seq(Flood!Syn) /\ a \in Seq(FloodAlert) /\ b \in Seq(FloodAlert)
      /\ \A i \in 1 .. Len(q) : q[i].ts <= now /\ q[i].server \in DOMAIN flood_state
      /\ \A g \in DOMAIN flood_state :
           Windowed(q, a, g, flood_state[g].start, flood_state[g].count)
      /\ Reported(q, a)
  BY <1>0 DEF ReportInv, FloodInv, FloodTypeOK
<1>4. \A i \in 1 .. Len(q) : q[i].ts <= ts
  <2> SUFFICES ASSUME NEW i \in 1 .. Len(q) PROVE q[i].ts <= ts
    OBVIOUS
  <2>1. q[i].ts \in 0 .. MaxTime /\ q[i].ts <= now
    BY <1>3, SynFields
  <2> QED
    BY <1>1, <2>1
<1>5. start <= ts /\ ts <= start + SynWindowSecs
  BY <1>2 DEF Counted
<1>6. /\ alert.dst = h /\ alert.ts = ts
      /\ b = IF count + 1 = SynThreshold THEN Append(a, alert) ELSE a
  BY <1>0, <1>2 DEF Counted
<1>7. Alerted(a, b, h, ts, count + 1)
  BY <1>3, <1>6, AlertAppended
<1>8. Windowed(Append(q, syn), b, h, start, count + 1)
  <2>1. CASE h \in DOMAIN flood_state /\ start = flood_state[h].start /\ count = flood_state[h].count
    <3>1. Windowed(q, a, h, start, count)
      BY <1>3, <2>1
    <3> QED
      BY <1>0, <1>3, <1>4, <1>5, <1>7, <3>1, WindowContinues
  <2>2. CASE start = ts /\ count = 0 /\ (h \in DOMAIN flood_state =>
                                           flood_state[h].start + SynWindowSecs < start)
    <3>1. \/ \A i \in 1 .. Len(q) : q[i].server # h
          \/ \E s \in 0 .. MaxTime, c \in Nat :
               Windowed(q, a, h, s, c) /\ s + SynWindowSecs < ts
      <4>1. CASE h \notin DOMAIN flood_state
        BY <1>3, <4>1
      <4>2. CASE h \in DOMAIN flood_state
        <5>1. PICK s \in 0 .. MaxTime, c \in Nat : s = flood_state[h].start /\ c = flood_state[h].count
          BY <4>2 DEF FloodInv, FloodTypeOK
        <5>2. Windowed(q, a, h, s, c) /\ s + SynWindowSecs < ts
          BY <1>3, <2>2, <4>2, <5>1
        <5> QED
          BY <5>2
      <4> QED
        BY <4>1, <4>2
    <3>2. Alerted(a, b, h, ts, 1)
      BY <1>7, <2>2
    <3>3. Windowed(Append(q, syn), b, h, ts, 1)
      BY <1>0, <1>3, <1>4, <3>1, <3>2, WindowRestarts
    <3> QED
      BY <2>2, <3>3
  <2> QED
    BY <1>2, <2>1, <2>2 DEF Counted
<1>9. Reported(Append(q, syn), b)
  <2>1. PICK c \in Nat : c = count + 1
    OBVIOUS
  <2>2. Windowed(Append(q, syn), b, h, start, c) /\ Alerted(a, b, h, ts, c)
    BY <1>7, <1>8, <2>1
  <2> QED
    BY <1>0, <1>1, <1>3, <1>4, <1>5, <2>2, ReportsKept
<1>10. Append(q, syn) \in Seq(Flood!Syn)
  BY <1>3
<1>11. ASSUME NEW i \in 1 .. Len(flood_fed')
      PROVE  flood_fed'[i].ts <= now' /\ flood_fed'[i].server \in DOMAIN flood_state'
  <2>1. CASE i \in 1 .. Len(q)
    <3>1. flood_fed'[i] = q[i]
      BY <1>1, <1>3, <2>1
    <3> QED
      BY <1>1, <1>2, <1>3, <1>4, <2>1, <3>1 DEF Counted
  <2>2. CASE i \notin 1 .. Len(q)
    <3>1. flood_fed'[i] = syn
      BY <1>1, <1>3, <2>2
    <3> QED
      BY <1>0, <1>1, <1>2, <3>1 DEF Counted
  <2> QED
    BY <2>1, <2>2
<1>12. ASSUME NEW g \in DOMAIN flood_state'
       PROVE  Windowed(Append(q, syn), b, g, flood_state'[g].start, flood_state'[g].count)
  <2>1. CASE g = h
    BY <1>2, <1>8, <2>1 DEF Counted
  <2>2. CASE g # h
    <3>1. g \in DOMAIN flood_state /\ flood_state'[g] = flood_state[g]
      BY <1>2, <2>2 DEF Counted
    <3>2. PICK s \in 0 .. MaxTime, c \in Nat : s = flood_state[g].start /\ c = flood_state[g].count
      BY <3>1 DEF FloodInv, FloodTypeOK
    <3>3. Windowed(q, a, g, s, c)
      BY <1>3, <3>1, <3>2
    <3>4. \A first, last : AlertWithin(a, g, first, last) => AlertWithin(b, g, first, last)
      BY <1>7 DEF Alerted
    <3>5. Windowed(Append(q, syn), b, g, s, c)
      BY <1>0, <1>3, <2>2, <3>3, <3>4, WindowUntouched
    <3> QED
      BY <3>1, <3>2, <3>5
  <2> QED
    BY <2>1, <2>2
<1> QED
  BY <1>0, <1>1, <1>9, <1>10, <1>11, <1>12 DEF ReportInv

\* No flood alert is false, 2 * SynThreshold - 1 SYNs to a destination within a
\* window's length are alerted, and so are SynThreshold after a quiet window's
\* length, however the engine's other rules are fed in between.
THEOREM EngineReportsFloods == EngineSpec => []FloodsReported
<1> USE BoundsAssumption, SynAssumption
<1> DEFINE Inv == FloodInv /\ ReportInv
<1>1. EngineInit => Inv
  <2> SUFFICES ASSUME EngineInit PROVE Inv
    OBVIOUS
  <2>1. flood_fed = <<>> /\ flood_alerts = <<>> /\ DOMAIN flood_state = {} /\ now = 0
    BY DEF EngineInit, Init, Flood!Init
  <2>2. FloodInv
    BY <2>1 DEF FloodInv, FloodTypeOK, SpacedInv, AlertsSpaced, Flood!AlertsSpaced
  <2>3. ASSUME NEW h, NEW first, NEW last PROVE Count(<<>>, h, first, last) = 0
    <3>1. SynsIn(<<>>, h, first, last) = {}
      BY DEF SynsIn
    <3> QED
      BY <3>1, FS_EmptySet DEF Count
  <2>4. Reported(<<>>, <<>>)
    BY <2>3 DEF Reported
  <2> QED
    BY <2>1, <2>2, <2>4 DEF ReportInv
<1>2. capture \in DOMAIN Traffic /\ Inv /\ [EngineNext]_engine_vars => Inv'
  <2> SUFFICES ASSUME capture \in DOMAIN Traffic, Inv, [EngineNext]_engine_vars
               PROVE  Inv'
    OBVIOUS
  <2>1. FloodInv'
    BY FloodKept
  <2>2. ASSUME NEW p \in Traffic[capture].packets, NEW ts \in Traffic[capture].times,
               Flooded(p, ts)
        PROVE  ReportInv'
    <3>1. CASE p.kind = "syn"
      <4>1. [server |-> p.dst, ts |-> ts] \in Flood!Syn
        BY <3>1, PacketType DEF Flood!Syn
      <4> QED
        BY <2>1, <2>2, <3>1, <4>1, ReportStep DEF Flooded
    <3>2. CASE p.kind # "syn"
      <4>1. /\ now <= now' /\ now \in 0 .. MaxTime /\ now' \in 0 .. MaxTime
            /\ UNCHANGED <<flood_state, flood_alerts, flood_fed>>
        BY <2>1, <2>2, <3>2 DEF Flooded, Flood!FeedOther, FloodInv, FloodTypeOK
      <4>2. ASSUME NEW i \in 1 .. Len(flood_fed) PROVE flood_fed[i].ts <= now'
        <5>1. flood_fed[i].ts \in 0 .. MaxTime /\ flood_fed[i].ts <= now
          BY SynFields DEF ReportInv
        <5> QED
          BY <4>1, <5>1
      <4> QED
        BY <4>1, <4>2 DEF ReportInv
    <3> QED
      BY <3>1, <3>2
  <2>3. CASE UNCHANGED engine_vars
    BY <2>1, <2>3 DEF engine_vars, vars, flood_vars, ReportInv
  <2> QED
    BY <2>1, <2>2, <2>3 DEF EngineNext, Feed
<1>3. Inv => FloodsReported
  <2> SUFFICES ASSUME ReportInv PROVE FloodsReported
    OBVIOUS
  <2>1. ASSUME NEW h, NEW first, NEW last
        PROVE  /\ Flood!SynsTo(h, first, last) = SynsIn(flood_fed, h, first, last)
               /\ Flood!Cardinality(Flood!SynsTo(h, first, last))
                    = Count(flood_fed, h, first, last)
    <3>0. ASSUME NEW S PROVE Flood!Cardinality(S) = Cardinality(S)
      BY DEF Flood!Cardinality, Cardinality
    <3>1. Flood!SynsTo(h, first, last) = SynsIn(flood_fed, h, first, last)
      BY DEF Flood!SynsTo, SynsIn
    <3> QED
      BY <3>0, <3>1 DEF Count
  <2>2. Flood!AlertSound
    BY <2>1 DEF Flood!AlertSound, ReportInv, Reported
  <2>3. Flood!FloodDetected
    BY <2>1 DEF Flood!FloodDetected, ReportInv, Reported, AlertWithin
  <2>4. Flood!SuddenFloodDetected
    BY <2>1 DEF Flood!SuddenFloodDetected, ReportInv, Reported, AlertWithin
  <2> QED
    BY <2>2, <2>3, <2>4 DEF FloodsReported
<1> QED
  BY <1>1, <1>2, <1>3, CaptureKept, PTL DEF EngineSpec

-----------------------------------------------------------------------------
(***************************************************************************)
(* Induction and loops                                                     *)
(***************************************************************************)
\* A set of numbers has a least one.
LEMMA LeastNumber ==
  ASSUME NEW S \in SUBSET Nat, S # {}
  PROVE  \E n \in S : \A m \in S : ~ (m < n)
<1> DEFINE R == OpToRel(<, Nat)
<1>1. IsWellFoundedOn(R, Nat)
  BY NatLessThanWellFounded
<1>2. \A x, y \in Nat : <<x, y>> \in R <=> x < y
  BY DEF OpToRel
<1> HIDE DEF R
<1>3. PICK n \in S : \A m \in S : ~ (<<m, n>> \in R)
  BY <1>1, WFMin
<1>4. ASSUME NEW m \in S PROVE ~ (m < n)
  <2>1. m \in Nat /\ n \in Nat /\ ~ (<<m, n>> \in R)
    BY <1>3
  <2> QED
    BY <1>2, <2>1, Zenon
<1> QED
  BY <1>4

\* Induction over a set of numbers.
LEMMA SetInduction ==
  ASSUME NEW S, 0 \in S, \A n \in Nat : n \in S => n + 1 \in S
  PROVE  \A n \in Nat : n \in S
<1> DEFINE T == Nat \ S
<1>1. SUFFICES ASSUME T # {} PROVE FALSE
  OBVIOUS
<1>2. PICK n \in T : \A m \in T : ~ (m < n)
  BY <1>1, LeastNumber
<1>3. n \in Nat /\ n # 0
  OBVIOUS
<1>4. n - 1 \in Nat /\ n - 1 < n
  BY <1>3
<1>5. n - 1 \in S
  BY <1>2, <1>4
<1>6. (n - 1) + 1 \in S
  BY <1>4, <1>5
<1> QED
  BY <1>3, <1>6

\* step takes a value and a number to the next value.
IsStep(step, S) == step \in [S \X Nat -> S]

\* g takes the numbers up to n to what the steps lead to from s0.
Iterates(g, n, S, s0, step) ==
  /\ g \in [0 .. n -> S]
  /\ g[0] = s0
  /\ \A i \in 1 .. n : g[i] = step[<<g[i - 1], i>>]

\* Steps from s0 have a function that follows them: what a loop computes.
LEMMA Recursion ==
  ASSUME NEW S, NEW n \in Nat, NEW s0 \in S, NEW step, IsStep(step, S)
  PROVE  \E g : Iterates(g, n, S, s0, step)
<1> USE DEF IsStep
<1> DEFINE Ok(g, m) == g[0] = s0 /\ \A i \in 1 .. m : g[i] = step[<<g[i - 1], i>>]
           T == {m \in Nat : \E g \in [0 .. m -> S] : Ok(g, m)}
<1>1. 0 \in T
  <2>1. [i \in 0 .. 0 |-> s0] \in [0 .. 0 -> S] /\ Ok([i \in 0 .. 0 |-> s0], 0)
    OBVIOUS
  <2> QED
    BY <2>1
<1>2. ASSUME NEW m \in Nat, m \in T PROVE m + 1 \in T
  <2>1. PICK g \in [0 .. m -> S] : Ok(g, m)
    BY <1>2
  <2> DEFINE h == [i \in 0 .. m + 1 |-> IF i = m + 1 THEN step[<<g[m], m + 1>>] ELSE g[i]]
  <2>2. h \in [0 .. m + 1 -> S]
    OBVIOUS
  <2>3. Ok(h, m + 1)
    <3>1. h[0] = s0
      BY <2>1
    <3>2. ASSUME NEW i \in 1 .. m + 1 PROVE h[i] = step[<<h[i - 1], i>>]
      <4>1. CASE i = m + 1
        <5>1. h[m] = g[m] /\ (m + 1) - 1 = m
          OBVIOUS
        <5>2. h[m + 1] = step[<<g[m], m + 1>>]
          OBVIOUS
        <5> QED
          BY <4>1, <5>1, <5>2, Zenon
      <4>2. CASE i # m + 1
        <5>1. h[i] = g[i] /\ h[i - 1] = g[i - 1] /\ i \in 1 .. m
          BY <4>2
        <5> QED
          BY <2>1, <5>1
      <4> QED
        BY <4>1, <4>2
    <3> QED
      BY <3>1, <3>2
  <2>4. m + 1 \in Nat
    OBVIOUS
  <2> HIDE DEF Ok, h
  <2> QED
    BY <2>2, <2>3, <2>4
<1>3. n \in T
  <2> HIDE DEF T
  <2> QED
    BY <1>1, <1>2, SetInduction
<1> QED
  BY <1>3 DEF Iterates

-----------------------------------------------------------------------------
(***************************************************************************)
(* The DNS tunnelling rule                                                 *)
(***************************************************************************)
Names == Seq(Tunnel!Label)

\* What the rule has seen and alerted.
Found == [seen : SUBSET Names, alerts : Seq(Names)]

\* Seen and alerted are the same names, each suspicious and alerted once.
Recorded(r) ==
  /\ r \in Found
  /\ \A i \in 1 .. Len(r.alerts) : r.alerts[i] \in r.seen /\ Tunnel!Suspicious(r.alerts[i])
  /\ \A name \in r.seen : \E i \in 1 .. Len(r.alerts) : r.alerts[i] = name
  /\ \A i, j \in 1 .. Len(r.alerts) : r.alerts[i] = r.alerts[j] => i = j

\* s has seen what r had, and of the first n names of q the suspicious ones.
Includes(s, r, q, n) ==
  /\ r.seen \subseteq s.seen
  /\ \A i \in 1 .. n : Tunnel!Suspicious(q[i]) => q[i] \in s.seen
  /\ \A name \in s.seen : name \in r.seen \/ \E i \in 1 .. n : q[i] = name

\* One question keeps the record's type, and its meaning.
LEMMA InsertType ==
  ASSUME NEW r \in Found, NEW name \in Names
  PROVE  Tunnel!Insert(r, name) \in Found
BY DEF Found, Tunnel!Insert

\* No two places of a sequence hold the same.
Distinct(a) == \A i, j \in 1 .. Len(a) : a[i] = a[j] => i = j

\* A value that is new may be appended.
LEMMA DistinctGrows ==
  ASSUME NEW S, NEW a \in Seq(S), NEW x \in S, Distinct(a), \A i \in 1 .. Len(a) : a[i] # x
  PROVE  /\ Append(a, x) \in Seq(S) /\ Len(Append(a, x)) = Len(a) + 1
         /\ Append(a, x)[Len(a) + 1] = x
         /\ \A i \in 1 .. Len(a) : Append(a, x)[i] = a[i]
         /\ Distinct(Append(a, x))
<1>1. PICK b : b = Append(a, x)
  OBVIOUS
<1>2. PICK n \in Nat : n = Len(a)
  OBVIOUS
<1>3. b \in Seq(S) /\ Len(b) = n + 1 /\ b[n + 1] = x /\ \A i \in 1 .. n : b[i] = a[i]
  BY <1>1, <1>2
<1>4. ASSUME NEW i \in 1 .. n + 1, NEW j \in 1 .. n + 1, b[i] = b[j] PROVE i = j
  <2>1. CASE i \in 1 .. n /\ j \in 1 .. n
    BY <1>2, <1>3, <1>4, <2>1 DEF Distinct
  <2>2. CASE i = n + 1 /\ j \in 1 .. n
    BY <1>2, <1>3, <1>4, <2>2
  <2>3. CASE i \in 1 .. n /\ j = n + 1
    BY <1>2, <1>3, <1>4, <2>3
  <2> QED
    BY <2>1, <2>2, <2>3
<1>5. Distinct(b)
  BY <1>3, <1>4 DEF Distinct
<1> QED
  BY <1>1, <1>2, <1>3, <1>5

LEMMA InsertRecords ==
  ASSUME NEW r, Recorded(r), NEW name \in Names
  PROVE  Recorded(Tunnel!Insert(r, name))
<1>1. CASE Tunnel!Suspicious(name) /\ name \notin r.seen
  <2>1. PICK a \in Seq(Names) : a = r.alerts
    BY DEF Recorded, Found
  <2>2. PICK b : b = Append(a, name)
    OBVIOUS
  <2>2a. PICK m \in Nat : m = Len(a)
    OBVIOUS
  <2>3. /\ \A i \in 1 .. m : a[i] \in r.seen /\ Tunnel!Suspicious(a[i])
        /\ \A any \in r.seen : \E i \in 1 .. m : a[i] = any
        /\ Distinct(a)
    BY <2>1, <2>2a DEF Recorded, Distinct
  <2>4. /\ b \in Seq(Names) /\ Len(b) = m + 1 /\ b[m + 1] = name
        /\ \A i \in 1 .. m : b[i] = a[i]
        /\ Distinct(b)
    <3>1. \A i \in 1 .. Len(a) : a[i] # name
      BY <1>1, <2>2a, <2>3
    <3> QED
      BY <2>2, <2>2a, <2>3, <3>1, DistinctGrows
  <2>5. PICK s : s = Tunnel!Insert(r, name)
    OBVIOUS
  <2>6. s.seen = r.seen \cup {name} /\ s.alerts = b
    BY <1>1, <2>1, <2>2, <2>5 DEF Tunnel!Insert
  <2>7. s \in Found
    BY <2>5, InsertType DEF Recorded
  <2>8. ASSUME NEW i \in 1 .. m + 1 PROVE b[i] \in s.seen /\ Tunnel!Suspicious(b[i])
    <3>1. CASE i = m + 1
      BY <1>1, <2>4, <2>6, <3>1
    <3>2. CASE i \in 1 .. m
      BY <2>3, <2>4, <2>6, <3>2
    <3> QED
      BY <3>1, <3>2
  <2>9. ASSUME NEW any \in s.seen PROVE \E i \in 1 .. m + 1 : b[i] = any
    <3>1. CASE any = name
      BY <2>4, <3>1
    <3>2. CASE any \in r.seen
      <4>1. PICK i \in 1 .. m : a[i] = any
        BY <2>3, <3>2
      <4> QED
        BY <2>4, <4>1
    <3> QED
      BY <2>6, <3>1, <3>2
  <2> QED
    BY <2>4, <2>5, <2>6, <2>7, <2>8, <2>9 DEF Recorded, Distinct
<1>2. CASE ~ (Tunnel!Suspicious(name) /\ name \notin r.seen)
  BY <1>2 DEF Tunnel!Insert
<1> QED
  BY <1>1, <1>2

\* What the loop over the questions computes, question by question.
LEMMA InsertAllUnfolds ==
  ASSUME NEW r \in Found, NEW q \in Seq(Names)
  PROVE  \E g \in [0 .. Len(q) -> Found] :
           /\ g[0] = r /\ Tunnel!InsertAll(r, q) = g[Len(q)]
           /\ \A i \in 1 .. Len(q) : g[i] = Tunnel!Insert(g[i - 1], q[i])
<1> DEFINE f == CHOOSE f : f = [n \in 0 .. Len(q) |->
                                 IF n = 0 THEN r ELSE Tunnel!Insert(f[n - 1], q[n])]
<1>1. Tunnel!InsertAll(r, q) = f[Len(q)]
  BY Zenon DEF Tunnel!InsertAll
<1>2. PICK l \in Nat : l = Len(q)
  OBVIOUS
<1>3. PICK g \in [0 .. l -> Found] :
        g[0] = r /\ \A i \in 1 .. l : g[i] = Tunnel!Insert(g[i - 1], q[i])
  <2> DEFINE step == [p \in Found \X Nat |->
                       IF p[2] \in 1 .. l THEN Tunnel!Insert(p[1], q[p[2]]) ELSE p[1]]
  <2>1. step \in [Found \X Nat -> Found]
    <3>1. ASSUME NEW p \in Found \X Nat
          PROVE  (IF p[2] \in 1 .. l THEN Tunnel!Insert(p[1], q[p[2]]) ELSE p[1]) \in Found
      BY <1>2, InsertType
    <3> QED
      BY <3>1
  <2>2. ASSUME NEW s \in Found, NEW i \in 1 .. l PROVE step[<<s, i>>] = Tunnel!Insert(s, q[i])
    OBVIOUS
  <2> HIDE DEF step
  <2>3. PICK g \in [0 .. l -> Found] :
          g[0] = r /\ \A i \in 1 .. l : g[i] = step[<<g[i - 1], i>>]
    <3>1. IsStep(step, Found)
      BY <2>1 DEF IsStep
    <3>2. \E g : Iterates(g, l, Found, r, step)
      BY <1>2, <3>1, Recursion
    <3> QED
      BY <3>2 DEF Iterates
  <2>4. ASSUME NEW i \in 1 .. l PROVE g[i] = Tunnel!Insert(g[i - 1], q[i])
    <3>1. g[i - 1] \in Found
      OBVIOUS
    <3> QED
      BY <2>2, <2>3, <3>1
  <2> QED
    BY <2>3, <2>4
<1>4. g = [n \in 0 .. Len(q) |-> IF n = 0 THEN r ELSE Tunnel!Insert(g[n - 1], q[n])]
  BY <1>2, <1>3
<1>5. f = [n \in 0 .. Len(q) |-> IF n = 0 THEN r ELSE Tunnel!Insert(f[n - 1], q[n])]
  BY <1>4
<1> HIDE DEF f
<1>6. \A n \in 0 .. l : f[n] = g[n]
  <2> DEFINE T == {n \in Nat : n <= l => f[n] = g[n]}
  <2>1. 0 \in T
    BY <1>2, <1>3, <1>5
  <2>2. ASSUME NEW n \in Nat, n \in T PROVE n + 1 \in T
    <3>1. CASE n + 1 <= l
      <4>1. f[n] = g[n] /\ n + 1 \in 1 .. l /\ (n + 1) - 1 = n
        BY <2>2, <3>1
      <4>2. f[n + 1] = Tunnel!Insert(f[n], q[n + 1])
        BY <1>2, <1>5, <4>1
      <4>3. g[n + 1] = Tunnel!Insert(g[n], q[n + 1])
        BY <1>3, <4>1
      <4> QED
        BY <4>1, <4>2, <4>3
    <3> QED
      BY <3>1
  <2>3. Nat \subseteq T
    <3> HIDE DEF T
    <3> QED
      BY <2>1, <2>2, SetInduction
  <2> QED
    BY <2>3
<1> QED
  BY <1>1, <1>2, <1>3, <1>6

LEMMA InsertAllRecords ==
  ASSUME NEW r, Recorded(r), NEW q \in Seq(Names)
  PROVE  /\ Recorded(Tunnel!InsertAll(r, q))
         /\ Includes(Tunnel!InsertAll(r, q), r, q, Len(q))
<1>1. PICK l \in Nat : l = Len(q)
  OBVIOUS
<1>2. PICK g \in [0 .. l -> Found] :
        /\ g[0] = r /\ Tunnel!InsertAll(r, q) = g[l]
        /\ \A i \in 1 .. l : g[i] = Tunnel!Insert(g[i - 1], q[i])
  BY <1>1, InsertAllUnfolds DEF Recorded
<1> DEFINE T == {n \in Nat : n <= l => Recorded(g[n]) /\ Includes(g[n], r, q, n)}
<1>3. 0 \in T
  BY <1>2 DEF Includes
<1>4. ASSUME NEW n \in Nat, n \in T PROVE n + 1 \in T
  <2>1. CASE n + 1 <= l
    <3>1. /\ n + 1 \in 1 .. l /\ n <= l /\ (n + 1) - 1 = n
          /\ Recorded(g[n]) /\ Includes(g[n], r, q, n)
      BY <1>4, <2>1
    <3>2. q[n + 1] \in Names
      BY <1>1, <3>1
    <3>3. g[n + 1] = Tunnel!Insert(g[n], q[n + 1])
      BY <1>2, <3>1
    <3>4. Recorded(g[n + 1])
      BY <3>1, <3>2, <3>3, InsertRecords
    <3>5. \/ g[n + 1].seen = g[n].seen \cup {q[n + 1]}
          \/ g[n + 1].seen = g[n].seen /\ (Tunnel!Suspicious(q[n + 1]) => q[n + 1] \in g[n].seen)
      BY <3>3 DEF Tunnel!Insert
    <3>6. Includes(g[n + 1], r, q, n + 1)
      BY <3>1, <3>5 DEF Includes
    <3> QED
      BY <3>4, <3>6
  <2> QED
    BY <2>1
<1>5. Nat \subseteq T
  <2> HIDE DEF T
  <2> QED
    BY <1>3, <1>4, SetInduction
<1> QED
  BY <1>1, <1>2, <1>5

\* What a packet may bring an alert of.
MayFind(packet, name) ==
  \/ name \in Tunnel!Asked(packet)
  \/ /\ ~ (Tunnel!Complete(packet) /\ (packet.port53 \/ packet.l4 = "udp"))
     /\ name \in Tunnel!Misread(packet)

\* The slice of a complete message to or from port 53 is the message; of one over
\* UDP to another port it is the message or nothing.
LEMMA CompleteSliced ==
  ASSUME NEW packet \in Tunnel!Packet, Tunnel!Complete(packet)
  PROVE  /\ packet.port53 => /\ Tunnel!Slice(packet).len = packet.msg.len
                             /\ (Tunnel!Slice(packet).skip = 2) = (packet.prefix # Tunnel!NoPrefix)
         /\ packet.l4 = "udp" => /\ Tunnel!Slice(packet).len \in {packet.msg.len, 0}
                                 /\ (Tunnel!Slice(packet).skip = 2) = (packet.prefix # Tunnel!NoPrefix)
<1>1. PICK n \in Nat, prefix \in Nat, got \in Nat :
        n = packet.msg.len /\ prefix = packet.prefix /\ got = packet.got
  BY DEF Tunnel!Packet
<1>2. /\ got = n /\ n >= 12 /\ packet.l4 \in {"tcp", "udp"}
      /\ prefix = IF packet.l4 = "tcp" THEN n ELSE 0
  BY <1>1 DEF Tunnel!Complete, Tunnel!Packet, Tunnel!NoPrefix, Tunnel!HeaderLen
<1>3. CASE packet.l4 = "udp"
  <2>1. prefix = 0 /\ Tunnel!PayloadLen(packet) = n
    BY <1>1, <1>2, <1>3 DEF Tunnel!PayloadLen, Tunnel!NoPrefix
  <2>2. Tunnel!Slice(packet) \in {[skip |-> 0, len |-> n], [skip |-> 0, len |-> 0]}
    BY <1>3, <2>1 DEF Tunnel!Slice
  <2>3. packet.port53 => Tunnel!Slice(packet) = [skip |-> 0, len |-> n]
    BY <1>3, <2>1 DEF Tunnel!Slice
  <2> QED
    BY <1>1, <1>3, <2>1, <2>2, <2>3 DEF Tunnel!NoPrefix
<1>4. CASE packet.l4 = "tcp"
  <2>1. PICK m \in Nat : m = Tunnel!PayloadLen(packet) /\ m = n + 2
    BY <1>1, <1>2, <1>4 DEF Tunnel!PayloadLen, Tunnel!NoPrefix
  <2>2. m >= 2 /\ m - 2 = n /\ prefix = n /\ prefix # 0
    BY <1>2, <1>4, <2>1
  <2>3. packet.port53 => Tunnel!Slice(packet) = [skip |-> 2, len |-> n]
    BY <1>1, <1>4, <2>1, <2>2 DEF Tunnel!Slice
  <2> QED
    BY <1>1, <1>4, <2>2, <2>3 DEF Tunnel!NoPrefix
<1> QED
  BY <1>2, <1>3, <1>4

\* What the rule goes through a packet may bring an alert of, and a complete
\* message to or from port 53 brings its own questions.
LEMMA QuestionsParsed ==
  ASSUME NEW packet \in Tunnel!Packet
  PROVE  /\ Tunnel!Questions(packet) \in Seq(Names)
         /\ \A i \in 1 .. Len(Tunnel!Questions(packet)) :
              MayFind(packet, Tunnel!Questions(packet)[i])
         /\ Tunnel!Complete(packet) /\ packet.port53 =>
              /\ Tunnel!Questions(packet) = packet.msg.questions
              /\ \A name \in Tunnel!Asked(packet) :
                   \E i \in 1 .. Len(Tunnel!Questions(packet)) : Tunnel!Questions(packet)[i] = name
<1>1. PICK asked \in Seq(Names), misread \in Seq(Names), qd \in Nat :
        asked = packet.msg.questions /\ misread = packet.misread /\ qd = packet.msg.qd
  BY DEF Tunnel!Packet, Tunnel!Name, Names
<1>2. PICK q : q = Tunnel!Questions(packet)
  OBVIOUS
<1>3. \/ q = <<>>
      \/ Tunnel!Counted(packet) /\ q = SubSeq(asked, 1, qd)
      \/ ~ Tunnel!Counted(packet) /\ Tunnel!Slice(packet).len # 0 /\ q = misread
  BY <1>1, <1>2 DEF Tunnel!Questions, Tunnel!HeaderLen
<1>4. ASSUME Tunnel!Complete(packet), packet.port53 \/ packet.l4 = "udp"
      PROVE  /\ qd = Len(asked)
             /\ Tunnel!Counted(packet) \/ Tunnel!Slice(packet).len = 0
             /\ packet.port53 => Tunnel!Counted(packet) /\ ~ (Tunnel!Slice(packet).len < 12)
  <2>1. PICK n \in Nat, an \in Nat, ns \in Nat, ar \in Nat, records \in Nat :
          /\ n = packet.msg.len /\ records = packet.msg.records
          /\ an = packet.msg.an /\ ns = packet.msg.ns /\ ar = packet.msg.ar
    BY DEF Tunnel!Packet
  <2>2. n >= 12 /\ qd = Len(asked) /\ an + ns + ar = records
    BY <1>1, <1>4, <2>1 DEF Tunnel!Complete, Tunnel!HeaderLen
  <2>3. Tunnel!Slice(packet).len = n => Tunnel!Counted(packet)
    <3> SUFFICES ASSUME Tunnel!Slice(packet).len = n PROVE Tunnel!Counted(packet)
      OBVIOUS
    <3>1. (Tunnel!Slice(packet).skip = 2) = (packet.prefix # Tunnel!NoPrefix)
      BY <1>4, CompleteSliced
    <3>2. Tunnel!Slice(packet).len >= packet.msg.len
      BY <2>1
    <3>3. packet.msg.qd <= Len(packet.msg.questions)
      BY <1>1, <2>2
    <3>4. packet.msg.an + packet.msg.ns + packet.msg.ar
            <= IF packet.msg.qd = Len(packet.msg.questions) THEN packet.msg.records ELSE 0
      <4>1. an + ns + ar <= records
        BY <2>2
      <4>2. packet.msg.qd = Len(packet.msg.questions)
        BY <1>1, <2>2
      <4> QED
        BY <2>1, <4>1, <4>2, Zenon
    <3> QED
      BY <3>1, <3>2, <3>3, <3>4 DEF Tunnel!Counted
  <2> QED
    BY <1>4, <2>1, <2>2, <2>3, CompleteSliced
<1>5. CASE q = <<>>
  <2>1. ~ (Tunnel!Complete(packet) /\ packet.port53) \/ Len(asked) = 0
    <3>1. ASSUME Tunnel!Complete(packet), packet.port53 PROVE q = SubSeq(asked, 1, qd)
      BY <1>1, <1>2, <1>4, <3>1 DEF Tunnel!Questions, Tunnel!HeaderLen
    <3> QED
      BY <1>4, <1>5, <3>1
  <2> QED
    BY <1>1, <1>2, <1>5, <2>1 DEF Tunnel!Asked
<1>6. CASE Tunnel!Counted(packet) /\ q = SubSeq(asked, 1, qd)
  <2>1. qd <= Len(asked)
    BY <1>1, <1>6 DEF Tunnel!Counted
  <2>2. q \in Seq(Names) /\ Len(q) = qd /\ \A i \in 1 .. qd : q[i] = asked[i]
    BY <1>6, <2>1
  <2> DEFINE counted == {j \in 1 .. Len(asked) : j <= qd}
  <2>3. Tunnel!Asked(packet) = {asked[i] : i \in counted}
    BY <1>1 DEF Tunnel!Asked
  <2>4. counted = 1 .. qd
    BY <2>1
  <2> HIDE DEF counted
  <2>5. ASSUME NEW i \in 1 .. Len(q) PROVE q[i] \in Tunnel!Asked(packet)
    BY <2>2, <2>3, <2>4
  <2>6. ASSUME Tunnel!Complete(packet), packet.port53
        PROVE  q = asked /\ \A name \in Tunnel!Asked(packet) : \E i \in 1 .. Len(q) : q[i] = name
    BY <1>4, <2>2, <2>3, <2>4, <2>6
  <2> QED
    BY <1>1, <1>2, <2>2, <2>5, <2>6 DEF MayFind
<1>7. CASE ~ Tunnel!Counted(packet) /\ Tunnel!Slice(packet).len # 0 /\ q = misread
  <2>1. ~ (Tunnel!Complete(packet) /\ (packet.port53 \/ packet.l4 = "udp"))
    BY <1>4, <1>7
  <2>2. ASSUME NEW i \in 1 .. Len(q) PROVE q[i] \in Tunnel!Misread(packet)
    BY <1>1, <1>7 DEF Tunnel!Misread
  <2> QED
    BY <1>1, <1>2, <1>7, <2>1, <2>2 DEF MayFind
<1> QED
  BY <1>3, <1>5, <1>6, <1>7

\* What was alerted some packet may bring, and what a complete message asks for is
\* seen.
TunnelInv ==
  /\ Recorded([seen |-> seen_queries, alerts |-> tunnel_alerts])
  /\ \A packet \in tunnel_fed :
       /\ packet \in Tunnel!Packet
       /\ Tunnel!Complete(packet) /\ packet.port53 =>
            \A name \in Tunnel!Asked(packet) : Tunnel!Suspicious(name) => name \in seen_queries
  /\ \A name \in seen_queries : \E packet \in tunnel_fed : MayFind(packet, name)

LEMMA TunnelInvInit == Tunnel!Init => TunnelInv
<1> SUFFICES ASSUME Tunnel!Init PROVE TunnelInv
  OBVIOUS
<1>1. PICK r : r = [seen |-> seen_queries, alerts |-> tunnel_alerts]
  OBVIOUS
<1>2. r.seen = {} /\ r.alerts = <<>> /\ r \in Found
  BY <1>1 DEF Tunnel!Init, Found
<1>3. Recorded(r)
  BY <1>2 DEF Recorded
<1> QED
  BY <1>1, <1>3 DEF TunnelInv, Tunnel!Init

LEMMA TunnelInvStep ==
  ASSUME TunnelInv, NEW packet \in Tunnel!Packet, Tunnel!FeedDns(packet)
  PROVE  TunnelInv'
<1>1. PICK r : r = [seen |-> seen_queries, alerts |-> tunnel_alerts]
  OBVIOUS
<1>2. PICK q \in Seq(Names) : q = Tunnel!Questions(packet)
  BY QuestionsParsed
<1>3. PICK s : s = Tunnel!InsertAll(r, q)
  OBVIOUS
<1>4. tunnel_fed' = tunnel_fed \cup {packet} /\ seen_queries' = s.seen /\ tunnel_alerts' = s.alerts
  BY <1>1, <1>2, <1>3, Zenon DEF Tunnel!FeedDns
<1>5. Recorded(r)
  BY <1>1 DEF TunnelInv
<1>6. Recorded(s) /\ Includes(s, r, q, Len(q))
  BY <1>3, <1>5, InsertAllRecords
<1>7. s = [seen |-> s.seen, alerts |-> s.alerts]
  BY <1>6 DEF Recorded, Found
<1>8. r.seen = seen_queries
  BY <1>1
<1>9. /\ seen_queries \subseteq s.seen
      /\ \A i \in 1 .. Len(q) : Tunnel!Suspicious(q[i]) => q[i] \in s.seen
      /\ \A name \in s.seen : name \in seen_queries \/ \E i \in 1 .. Len(q) : q[i] = name
  BY <1>6, <1>8 DEF Includes
<1>10. Recorded([seen |-> seen_queries, alerts |-> tunnel_alerts])'
  BY <1>4, <1>6, <1>7 DEF Recorded
<1>11. ASSUME NEW p \in tunnel_fed', Tunnel!Complete(p), p.port53,
              NEW name \in Tunnel!Asked(p), Tunnel!Suspicious(name)
       PROVE  name \in s.seen
  <2>1. CASE p \in tunnel_fed
    BY <1>9, <1>11, <2>1 DEF TunnelInv
  <2>2. CASE p = packet
    <3>1. PICK i \in 1 .. Len(q) : name = q[i]
      BY <1>2, <1>11, <2>2, QuestionsParsed
    <3> QED
      BY <1>9, <1>11, <3>1
  <2> QED
    BY <1>4, <2>1, <2>2
<1>12. ASSUME NEW name \in s.seen PROVE \E p \in tunnel_fed' : MayFind(p, name)
  <2>1. CASE name \in seen_queries
    BY <1>4, <2>1 DEF TunnelInv
  <2>2. CASE \E i \in 1 .. Len(q) : q[i] = name
    <3>1. MayFind(packet, name)
      BY <1>2, <2>2, QuestionsParsed
    <3> QED
      BY <1>4, <3>1
  <2> QED
    BY <1>9, <2>1, <2>2
<1>13. \A p \in tunnel_fed' : p \in Tunnel!Packet
  BY <1>4 DEF TunnelInv
<1> QED
  BY <1>4, <1>10, <1>11, <1>12, <1>13 DEF TunnelInv

LEMMA TunnelInvariant == EngineSpec => []TunnelInv
<1>1. EngineInit => TunnelInv
  BY TunnelInvInit DEF EngineInit
<1>2. capture \in DOMAIN Traffic /\ TunnelInv /\ [EngineNext]_engine_vars => TunnelInv'
  <2> SUFFICES ASSUME capture \in DOMAIN Traffic, TunnelInv, [EngineNext]_engine_vars
               PROVE  TunnelInv'
    OBVIOUS
  <2>1. ASSUME NEW p \in Traffic[capture].packets, NEW ts \in Traffic[capture].times,
               Others(p, ts)
        PROVE  TunnelInv'
    <3>1. CASE p.kind = "dns"
      <4>1. p.dns \in Tunnel!Packet
        BY <3>1, PayloadsAssumption
      <4>2. Tunnel!FeedDns(p.dns)
        BY <2>1, <3>1 DEF Others
      <4> QED
        BY <4>1, <4>2, TunnelInvStep
    <3>2. CASE p.kind # "dns"
      BY <2>1, <3>2 DEF Others, tunnel_vars, TunnelInv
    <3> QED
      BY <3>1, <3>2
  <2>2. CASE UNCHANGED engine_vars
    BY <2>2 DEF engine_vars, tunnel_vars, TunnelInv
  <2> QED
    BY <2>1, <2>2 DEF EngineNext, Feed
<1> QED
  BY <1>1, <1>2, CaptureKept, PTL DEF EngineSpec

\* Within the engine, whatever the threshold and the traffic: what is long or
\* random in a complete message to or from port 53 is alerted, and a name no
\* message asked for only if it was misread in a packet that is none.
THEOREM EngineReportsTunnels == EngineSpec => []TunnelsReported
<1>1. TunnelInv => TunnelsReported
  <2> SUFFICES ASSUME TunnelInv PROVE Tunnel!TunnelsReported
    BY DEF TunnelsReported
  <2>1. PICK r : r = [seen |-> seen_queries, alerts |-> tunnel_alerts]
    OBVIOUS
  <2>2. /\ \A i \in 1 .. Len(tunnel_alerts) :
             tunnel_alerts[i] \in seen_queries /\ Tunnel!Suspicious(tunnel_alerts[i])
        /\ \A name \in seen_queries : \E i \in 1 .. Len(tunnel_alerts) : tunnel_alerts[i] = name
    BY DEF TunnelInv, Recorded
  <2>3. \A packet \in tunnel_fed :
          Tunnel!Complete(packet) /\ packet.port53 =>
            \A name \in Tunnel!Asked(packet) : Tunnel!Suspicious(name) => name \in seen_queries
    BY DEF TunnelInv
  <2>4. \A i \in 1 .. Len(tunnel_alerts) : \E packet \in tunnel_fed : MayFind(packet, tunnel_alerts[i])
    BY <2>2 DEF TunnelInv
  <2> QED
    BY <2>2, <2>3, <2>4 DEF MayFind, Tunnel!TunnelsReported
<1> QED
  BY <1>1, TunnelInvariant, PTL

-----------------------------------------------------------------------------
(***************************************************************************)
(* The cleartext credential rule                                           *)
(***************************************************************************)
\* The minimum of the community modules is the least.
LEMMA FirstOf ==
  ASSUME NEW S \in SUBSET Nat, S # {}
  PROVE  Credentials!Min(S) \in S /\ \A y \in S : Credentials!Min(S) <= y
<1>1. PICK n \in S : \A y \in S : ~ (y < n)
  BY LeastNumber
<1>2. \A y \in S : n <= y
  BY <1>1
<1> QED
  BY <1>2 DEF Credentials!Min

\* Where a well-formed request's headers end for the parser: before the first
\* empty line, or with it if it ends the payload.
LEMMA HeadersEnd ==
  ASSUME NEW q \in Seq(Credentials!Line), Credentials!WellFormed(q)
  PROVE  /\ Credentials!FirstEmpty(q) \in 2 .. Len(q) + 1
         /\ \A i \in 2 .. Credentials!FirstEmpty(q) - 1 : q[i].is # "empty"
         /\ Credentials!FirstEmpty(q) <= Len(q) => q[Credentials!FirstEmpty(q)].is = "empty"
         /\ Credentials!HeaderEnd(q) \in Nat
         /\ \/ Credentials!HeaderEnd(q) = Credentials!FirstEmpty(q) - 1
            \/ /\ Credentials!HeaderEnd(q) = Credentials!FirstEmpty(q)
               /\ Credentials!FirstEmpty(q) = Len(q)
<1> DEFINE E == {i \in 2 .. Len(q) + 1 : i > Len(q) \/ q[i].is = "empty"}
           C == {i \in 1 .. Len(q) - 1 : q[i].eol = "crlf" /\ Credentials!Blank(q, i, "crlf")}
           L == {i \in 1 .. Len(q) - 1 : q[i].eol # "" /\ Credentials!Blank(q, i, "lf")}
<1>1. PICK n \in Nat : n = Len(q) /\ n > 1
  BY DEF Credentials!WellFormed
<1>2. PICK end \in {"crlf", "lf"} : \A i \in 1 .. n - 1 : q[i].eol = end
  BY <1>1 DEF Credentials!WellFormed
<1>3. PICK e \in E : e = Credentials!Min(E) /\ \A y \in E : e <= y
  <2>1. E \in SUBSET Nat /\ n + 1 \in E
    BY <1>1
  <2> QED
    BY <2>1, FirstOf
<1>4. /\ e \in Nat /\ e \in 2 .. n + 1 /\ (e <= n => q[e].is = "empty")
      /\ \A i \in 2 .. n : q[i].is = "empty" => e <= i
  BY <1>1, <1>3
<1>5. e = Credentials!FirstEmpty(q)
  BY <1>3 DEF Credentials!FirstEmpty
<1>6. /\ \A i : i \in C <=> /\ i \in 1 .. n - 1 /\ q[i].eol = "crlf"
                            /\ q[i + 1].is = "empty" /\ q[i + 1].eol = "crlf"
      /\ \A i : i \in L <=> /\ i \in 1 .. n - 1 /\ q[i].eol # ""
                            /\ q[i + 1].is = "empty" /\ q[i + 1].eol = "lf"
  BY <1>1 DEF Credentials!Blank
<1>7. Credentials!HeaderEnd(q) = IF C # {} THEN Credentials!Min(C)
                                 ELSE IF L # {} THEN Credentials!Min(L) ELSE n
  BY <1>1 DEF Credentials!HeaderEnd
<1> HIDE DEF C, L, E
<1>8. C \in SUBSET Nat /\ L \in SUBSET Nat
  <2>1. \A i \in C \cup L : i \in 1 .. n - 1
    BY <1>6
  <2> QED
    BY <1>1, <2>1
<1>9. \A i \in C \cup L : i \in 1 .. n - 1 /\ e - 1 <= i
  <2> SUFFICES ASSUME NEW i \in C \cup L PROVE i \in 1 .. n - 1 /\ e - 1 <= i
    OBVIOUS
  <2>1. i \in 1 .. n - 1 /\ q[i + 1].is = "empty"
    BY <1>6
  <2>2. i + 1 \in 2 .. n
    BY <2>1
  <2>3. e <= i + 1
    BY <1>4, <2>1, <2>2
  <2> QED
    BY <1>4, <2>1, <2>3
<1>10. ASSUME NEW i \in C PROVE e - 1 \in C
  <2>1. i \in 1 .. n - 1 /\ e - 1 <= i /\ end = "crlf" /\ q[i + 1].eol = "crlf"
    BY <1>2, <1>6, <1>9
  <2>2. e - 1 \in 1 .. n - 1 /\ (e - 1) + 1 = e /\ e <= n
    BY <1>4, <2>1
  <2>3. q[e - 1].eol = "crlf" /\ q[e].is = "empty"
    BY <1>2, <1>4, <2>1, <2>2
  <2>4. q[e].eol = "crlf"
    <3>1. CASE e = i + 1
      BY <2>1, <3>1
    <3>2. CASE e # i + 1
      <4>1. e \in 1 .. n - 1
        BY <1>4, <2>1, <3>2
      <4> QED
        BY <1>2, <2>1, <4>1
    <3> QED
      BY <3>1, <3>2
  <2> QED
    BY <1>6, <2>2, <2>3, <2>4
<1>11. ASSUME NEW i \in L, C = {} PROVE e - 1 \in L
  <2>1. i \in 1 .. n - 1 /\ e - 1 <= i /\ q[i + 1].eol = "lf"
    BY <1>6, <1>9
  <2>2. e - 1 \in 1 .. n - 1 /\ (e - 1) + 1 = e /\ e <= n
    BY <1>4, <2>1
  <2>3. q[e - 1].eol = end /\ q[e].is = "empty" /\ end # ""
    BY <1>2, <1>4, <2>2
  <2>4. q[e].eol = "lf"
    <3>1. CASE e = i + 1
      BY <2>1, <3>1
    <3>2. CASE e # i + 1
      <4>1. e \in 1 .. n - 1
        BY <1>4, <2>1, <3>2
      <4>2. q[e].eol = end
        BY <1>2, <4>1
      <4>3. end # "crlf"
        BY <1>6, <1>11, <2>2, <2>3, <4>2
      <4> QED
        BY <1>2, <4>2, <4>3
    <3> QED
      BY <3>1, <3>2
  <2> QED
    BY <1>6, <2>2, <2>3, <2>4
<1>12. ASSUME C # {} PROVE Credentials!HeaderEnd(q) = e - 1
  <2>1. Credentials!Min(C) \in C /\ Credentials!Min(C) <= e - 1
    BY <1>8, <1>10, <1>12, FirstOf
  <2> QED
    BY <1>4, <1>7, <1>9, <1>12, <2>1
<1>13. ASSUME C = {} /\ L # {} PROVE Credentials!HeaderEnd(q) = e - 1
  <2>1. Credentials!Min(L) \in L /\ Credentials!Min(L) <= e - 1
    BY <1>8, <1>11, <1>13, FirstOf
  <2> QED
    BY <1>4, <1>7, <1>9, <1>13, <2>1
<1>14. ASSUME C = {} /\ L = {} PROVE Credentials!HeaderEnd(q) = n /\ (e = n \/ e = n + 1)
  <2>1. Credentials!HeaderEnd(q) = n
    BY <1>7, <1>14
  <2>2. e = n \/ e = n + 1
    <3> SUFFICES ASSUME e < n PROVE FALSE
      BY <1>4
    <3>1. e \in 1 .. n - 1 /\ e - 1 \in 1 .. n - 1 /\ (e - 1) + 1 = e
      BY <1>4
    <3>2. q[e].eol = end /\ q[e - 1].eol = end /\ q[e].is = "empty"
      BY <1>2, <1>4, <3>1
    <3>3. e - 1 \in C \/ e - 1 \in L
      BY <1>2, <1>6, <3>1, <3>2
    <3> QED
      BY <1>14, <3>3
  <2> QED
    BY <2>1, <2>2
<1>15. /\ Credentials!HeaderEnd(q) \in Nat
       /\ \/ Credentials!HeaderEnd(q) = e - 1
          \/ Credentials!HeaderEnd(q) = e /\ e = n
  <2>1. e - 1 \in Nat
    BY <1>4
  <2>2. CASE C # {} \/ L # {}
    BY <1>12, <1>13, <2>1, <2>2
  <2>3. CASE C = {} /\ L = {}
    BY <1>1, <1>4, <1>14, <2>3
  <2> QED
    BY <2>2, <2>3
<1>16. \A i \in 2 .. e - 1 : q[i].is # "empty"
  BY <1>1, <1>4
<1>17. /\ e \in 2 .. Len(q) + 1
       /\ e <= Len(q) => q[e].is = "empty"
       /\ Credentials!HeaderEnd(q) = e => e = Len(q) \/ Credentials!HeaderEnd(q) = e - 1
  BY <1>1, <1>4, <1>15
<1> QED
  BY <1>1, <1>5, <1>15, <1>16, <1>17, Zenon

\* The parser and a reader of the lines agree on a header.
LEMMA HeaderRead ==
  ASSUME NEW q \in Seq(Credentials!Line), Credentials!WellFormed(q),
         NEW name, name # "empty", NEW d
  PROVE  \/ Credentials!HeadersRead(q, name) = {} /\ Credentials!Header(q, name, d) = d
         \/ Credentials!HeadersRead(q, name) = {Credentials!Header(q, name, d)}
<1>1. PICK n \in Nat, e \in Nat, h \in Nat :
        n = Len(q) /\ e = Credentials!FirstEmpty(q) /\ h = Credentials!HeaderEnd(q)
  <2>1. Len(q) \in Nat /\ Credentials!FirstEmpty(q) \in Nat /\ Credentials!HeaderEnd(q) \in Nat
    BY HeadersEnd
  <2> QED
    BY <2>1
<1>2. /\ e \in 2 .. n + 1 /\ (e <= n => q[e].is = "empty")
      /\ h = e - 1 \/ (h = e /\ e = n)
  BY <1>1, HeadersEnd
<1>3. \A i, j \in 2 .. e - 1 : q[i].is = q[j].is => i = j
  BY <1>1 DEF Credentials!WellFormed
<1>4. PICK t : t = Credentials!Headers(q) /\ Len(t) = h - 1 /\ \A i \in 1 .. h - 1 : t[i] = q[i + 1]
  <2>1. h \in 1 .. n /\ 2 \in Nat
    BY <1>1, <1>2
  <2>2. PICK t : t = SubSeq(q, 2, h)
    OBVIOUS
  <2>3. Len(t) = h - 1
    BY <1>1, <2>1, <2>2
  <2>4. \A i \in 1 .. h - 1 : t[i] = q[i + 1]
    BY <1>1, <2>1, <2>2
  <2>5. t = Credentials!Headers(q)
    BY <1>1, <2>2 DEF Credentials!Headers
  <2> QED
    BY <2>3, <2>4, <2>5
<1> DEFINE named == {i \in 1 .. Len(Credentials!Headers(q)) : Credentials!Headers(q)[i].is = name}
           M == {i \in 2 .. Credentials!FirstEmpty(q) - 1 : q[i].is = name}
<1>5. \A i : i \in named <=> i \in 1 .. h - 1 /\ q[i + 1].is = name
  BY <1>4
<1>6. \A j : j \in M <=> j \in 2 .. e - 1 /\ q[j].is = name
  BY <1>1
<1>7. Credentials!HeadersRead(q, name) = {q[i].arg : i \in M}
  BY DEF Credentials!HeadersRead
<1>8. Credentials!Header(q, name, d) = IF named = {} THEN d
                                       ELSE Credentials!Headers(q)[Credentials!Min(named)].arg
  BY DEF Credentials!Header
<1> HIDE DEF named, M
<1>9. ASSUME NEW i \in named PROVE i \in 1 .. h - 1 /\ i + 1 \in M
  <2>1. i \in 1 .. h - 1 /\ q[i + 1].is = name
    BY <1>5
  <2>2. i + 1 \in 2 .. h /\ i + 1 # e
    BY <1>2, <2>1
  <2>3. i + 1 \in 2 .. e - 1
    BY <1>2, <2>2
  <2> QED
    BY <1>6, <2>1, <2>3
<1>10. ASSUME NEW j \in M PROVE j - 1 \in named
  <2>1. j \in 2 .. e - 1 /\ q[j].is = name
    BY <1>6
  <2>2. j - 1 \in 1 .. h - 1 /\ (j - 1) + 1 = j
    BY <1>2, <2>1
  <2> QED
    BY <1>5, <2>1, <2>2
<1>11. CASE named = {}
  <2>1. M = {}
    BY <1>10, <1>11
  <2> QED
    BY <1>7, <1>8, <1>11, <2>1
<1>12. CASE named # {}
  <2>1. named \in SUBSET Nat
    BY <1>9
  <2>2. PICK k \in named : k = Credentials!Min(named)
    BY <1>12, <2>1, FirstOf
  <2>3. k \in 1 .. h - 1 /\ k + 1 \in M
    BY <1>9
  <2>4. Credentials!Header(q, name, d) = q[k + 1].arg
    BY <1>4, <1>8, <1>12, <2>2, <2>3
  <2>8. \A j \in M : j = k + 1
    BY <1>3, <1>6, <2>3
  <2>9. Credentials!HeadersRead(q, name) = {q[k + 1].arg}
    BY <1>7, <2>3, <2>8
  <2> QED
    BY <2>4, <2>9
<1> QED
  BY <1>11, <1>12

\* The text of a line, or what stands for a header that is missing.
Text == STRING \cup {"unknown-host"}

\* The parser finds text on a payload of any lines.
LEMMA HeaderType ==
  ASSUME NEW q \in Seq(Credentials!Line), q # <<>>, NEW name, NEW d \in Text
  PROVE  Credentials!Header(q, name, d) \in Text
<1>1. PICK n \in Nat : n = Len(q) /\ n > 0
  OBVIOUS
<1> DEFINE C == {i \in 1 .. Len(q) - 1 : q[i].eol = "crlf" /\ Credentials!Blank(q, i, "crlf")}
           L == {i \in 1 .. Len(q) - 1 : q[i].eol # "" /\ Credentials!Blank(q, i, "lf")}
<1>2. \A i \in C \cup L : i \in Nat /\ i \in 1 .. n
  <2>1. \A i \in C : i \in 1 .. n - 1
    BY <1>1
  <2>2. \A i \in L : i \in 1 .. n - 1
    BY <1>1
  <2> HIDE DEF C, L
  <2>3. \A i \in 1 .. n - 1 : i \in Nat /\ i \in 1 .. n
    BY <1>1
  <2> QED
    BY <2>1, <2>2, <2>3
<1>3. Credentials!HeaderEnd(q) = IF C # {} THEN Credentials!Min(C)
                                 ELSE IF L # {} THEN Credentials!Min(L) ELSE n
  BY <1>1 DEF Credentials!HeaderEnd
<1> HIDE DEF C, L
<1>4. PICK h \in 1 .. n : h = Credentials!HeaderEnd(q)
  <2>1. C \in SUBSET Nat /\ L \in SUBSET Nat
    BY <1>2
  <2>2. CASE C # {}
    <3>1. Credentials!Min(C) \in C
      BY <2>1, <2>2, FirstOf
    <3>2. Credentials!Min(C) \in 1 .. n
      BY <1>2, <3>1, Zenon
    <3> QED
      BY <1>3, <2>2, <3>2
  <2>3. CASE C = {} /\ L # {}
    <3>1. Credentials!Min(L) \in L
      BY <2>1, <2>3, FirstOf
    <3>2. Credentials!Min(L) \in 1 .. n
      BY <1>2, <3>1, Zenon
    <3> QED
      BY <1>3, <2>3, <3>2
  <2>4. CASE C = {} /\ L = {}
    BY <1>1, <1>3, <2>4
  <2> QED
    BY <2>2, <2>3, <2>4
<1>5. PICK t : t = Credentials!Headers(q) /\ Len(t) = h - 1 /\ \A i \in 1 .. h - 1 : t[i] = q[i + 1]
  <2>1. 2 \in Nat
    OBVIOUS
  <2>2. PICK t : t = SubSeq(q, 2, h)
    OBVIOUS
  <2>3. Len(t) = h - 1
    BY <1>1, <2>1, <2>2
  <2>4. \A i \in 1 .. h - 1 : t[i] = q[i + 1]
    BY <1>1, <2>1, <2>2
  <2>5. t = Credentials!Headers(q)
    BY <1>4, <2>2 DEF Credentials!Headers
  <2> QED
    BY <2>3, <2>4, <2>5
<1> DEFINE named == {i \in 1 .. Len(Credentials!Headers(q)) : Credentials!Headers(q)[i].is = name}
<1>6. \A i \in named : i \in 1 .. h - 1
  BY <1>5
<1>7. Credentials!Header(q, name, d) = IF named = {} THEN d
                                       ELSE Credentials!Headers(q)[Credentials!Min(named)].arg
  BY DEF Credentials!Header
<1> HIDE DEF named
<1>8. CASE named # {}
  <2>1. named \in SUBSET Nat
    BY <1>6
  <2>2. PICK k \in named : k = Credentials!Min(named)
    BY <1>8, <2>1, FirstOf
  <2>3. k \in 1 .. h - 1 /\ k + 1 \in 1 .. n
    BY <1>4, <1>6
  <2>4. Credentials!Header(q, name, d) = q[k + 1].arg
    BY <1>5, <1>7, <1>8, <2>2, <2>3
  <2>5. q[k + 1] \in Credentials!Line
    BY <1>1, <2>3
  <2> QED
    BY <2>4, <2>5 DEF Credentials!Line, Text
<1> QED
  BY <1>7, <1>8

\* The end of a sequence, place by place.
LEMMA TailOf ==
  ASSUME NEW S, NEW q \in Seq(S), NEW s \in Nat, s > 0, s <= Len(q)
  PROVE  /\ Len(SubSeq(q, s, Len(q))) = Len(q) - s + 1
         /\ \A i \in 1 .. Len(q) - s + 1 : SubSeq(q, s, Len(q))[i] = q[i + s - 1]
OBVIOUS

\* Of a well-formed request the rule finds what its lines give away.
LEMMA WellFormedRead ==
  ASSUME NEW q \in Seq(Credentials!Line), Credentials!WellFormed(q)
  PROVE  /\ Credentials!Sniff(q) /\ Credentials!IsRequest(q)
         /\ \A kind \in {"basic", "uri_param", "body"} :
              Credentials!Exposed(q, kind) <=> Credentials!Discloses(q, kind)
         /\ Credentials!HeadersRead(q, "host") \in {{Credentials!Host(q)}, {}}
         /\ Credentials!HeadersRead(q, "host") = {} => Credentials!Host(q) = "unknown-host"
<1>1. PICK n \in Nat, e \in Nat, h \in Nat :
        n = Len(q) /\ e = Credentials!FirstEmpty(q) /\ h = Credentials!HeaderEnd(q)
  <2>1. Len(q) \in Nat /\ Credentials!FirstEmpty(q) \in Nat /\ Credentials!HeaderEnd(q) \in Nat
    BY HeadersEnd
  <2> QED
    BY <2>1
<1>2. /\ e \in 2 .. n + 1 /\ (e <= n => q[e].is = "empty")
      /\ h = e - 1 \/ (h = e /\ e = n)
  BY <1>1, HeadersEnd
<1>3. /\ n > 1 /\ q[1].is = "request" /\ q[1].arg # Credentials!NoUri
      /\ \A i \in 2 .. e - 1 : q[i].is # "binary"
  BY <1>1 DEF Credentials!WellFormed
<1>4. q # <<>>
  BY <1>1, <1>3
<1>5. Credentials!Sniff(q)
  BY <1>3, <1>4 DEF Credentials!Sniff
<1>6. Credentials!IsRequest(q)
  <2>1. ASSUME NEW i \in 1 .. h PROVE q[i].is # "binary"
    <3>1. i = 1 \/ i \in 2 .. e - 1 \/ (i = e /\ e <= n)
      BY <1>2, <1>3
    <3> QED
      BY <1>2, <1>3, <3>1
  <2> QED
    BY <1>1, <1>3, <1>4, <2>1 DEF Credentials!IsRequest
<1>7. Credentials!Exposed(q, "basic") <=> Credentials!Discloses(q, "basic")
  <2>1. PICK d : d = Credentials!Header(q, "authorization", "")
    OBVIOUS
  <2>2. \/ Credentials!HeadersRead(q, "authorization") = {} /\ d = ""
        \/ Credentials!HeadersRead(q, "authorization") = {d}
    <3>1. "authorization" # "empty"
      OBVIOUS
    <3> QED
      BY <2>1, <3>1, HeaderRead, Zenon
  <2>3. Credentials!Exposed(q, "basic") <=> d = "basic"
    BY <2>1 DEF Credentials!Exposed
  <2>4. Credentials!Discloses(q, "basic") <=> "basic" \in Credentials!HeadersRead(q, "authorization")
    BY DEF Credentials!Discloses
  <2> QED
    BY <2>2, <2>3, <2>4
<1>8. Credentials!Exposed(q, "uri_param") <=> Credentials!Discloses(q, "uri_param")
  BY DEF Credentials!Exposed, Credentials!Discloses, Credentials!Uri
<1>9. Credentials!Exposed(q, "body") <=> Credentials!Discloses(q, "body")
  <2>1. PICK b : b = SubSeq(q, h + 2, n)
    OBVIOUS
  <2>2. Credentials!Exposed(q, "body") <=> \E i \in 1 .. Len(b) : b[i].is = "secret"
    BY <1>1, <2>1 DEF Credentials!Exposed, Credentials!Body
  <2>3. Credentials!Discloses(q, "body") <=> \E i \in e .. n : q[i].is = "secret"
    BY <1>1 DEF Credentials!Discloses
  <2>4. CASE e < n
    <3>1. h + 2 = e + 1 /\ e + 1 \in 1 .. n
      BY <1>2, <2>4
    <3>2. PICK s \in Nat : s = e + 1
      BY <1>1
    <3>3. Len(b) = n - e /\ \A i \in 1 .. n - e : b[i] = q[e + i]
      <4>1. s > 0 /\ s <= n /\ h + 2 = s
        BY <1>1, <3>1, <3>2
      <4>2. b = SubSeq(q, s, Len(q)) /\ s <= Len(q)
        BY <1>1, <2>1, <4>1, Zenon
      <4>3. Len(b) = Len(q) - s + 1 /\ \A i \in 1 .. Len(q) - s + 1 : b[i] = q[i + s - 1]
        BY <4>1, <4>2, TailOf
      <4>4. Len(b) = n - s + 1 /\ \A i \in 1 .. n - s + 1 : b[i] = q[i + s - 1]
        BY <1>1, <4>3, Zenon
      <4>5. n - s + 1 = n - e /\ \A i \in 1 .. n - e : i + s - 1 = e + i
        BY <1>1, <3>2
      <4> QED
        BY <4>4, <4>5
    <3>4. ASSUME NEW i \in 1 .. n - e, b[i].is = "secret" PROVE \E j \in e .. n : q[j].is = "secret"
      <4>1. e + i \in e .. n
        OBVIOUS
      <4> QED
        BY <3>3, <3>4, <4>1
    <3>5. ASSUME NEW j \in e .. n, q[j].is = "secret" PROVE \E i \in 1 .. n - e : b[i].is = "secret"
      <4>1. j # e
        BY <1>2, <2>4, <3>5
      <4>2. j - e \in 1 .. n - e /\ e + (j - e) = j
        BY <4>1
      <4>3. b[j - e] = q[j]
        BY <3>3, <4>2
      <4> QED
        BY <3>5, <4>2, <4>3
    <3> QED
      BY <2>2, <2>3, <3>3, <3>4, <3>5
  <2>5. CASE e >= n
    <3>1. h + 2 > n
      BY <1>2, <2>5
    <3>2. Len(b) = 0
      BY <1>1, <2>1, <3>1
    <3>3. ASSUME NEW j \in e .. n PROVE q[j].is = "empty"
      BY <1>2, <2>5
    <3>4. "empty" # "secret"
      OBVIOUS
    <3> QED
      BY <2>2, <2>3, <3>2, <3>3, <3>4
  <2> QED
    BY <2>4, <2>5
<1>10. /\ Credentials!HeadersRead(q, "host") \in {{Credentials!Host(q)}, {}}
       /\ Credentials!HeadersRead(q, "host") = {} => Credentials!Host(q) = "unknown-host"
  <2>1. PICK d : d = Credentials!Header(q, "host", "unknown-host")
    OBVIOUS
  <2>2. \/ Credentials!HeadersRead(q, "host") = {} /\ d = "unknown-host"
        \/ Credentials!HeadersRead(q, "host") = {d}
    <3>1. "host" # "empty"
      OBVIOUS
    <3> QED
      BY <2>1, <3>1, HeaderRead, Zenon
  <2>3. Credentials!Host(q) = d
    BY <2>1 DEF Credentials!Host
  <2> QED
    BY <2>2, <2>3
<1> QED
  BY <1>5, <1>6, <1>7, <1>8, <1>9, <1>10

Kind     == {"basic", "uri_param", "body"}
Exposure == [host : Text, uri : Text, kind : Kind]
Target   == Text \X Text \X Kind

TargetOf(alert) == <<alert.host, alert.uri, alert.kind>>

\* What is recorded is what was alerted, once.
Noted(r) ==
  /\ r \in [targets : SUBSET Target, alerts : Seq(Exposure)]
  /\ \A i \in 1 .. Len(r.alerts) : TargetOf(r.alerts[i]) \in r.targets
  /\ \A t \in r.targets : \E i \in 1 .. Len(r.alerts) : TargetOf(r.alerts[i]) = t
  /\ Distinct(r.alerts)

\* One test on a request adds its target to r, if it is exposed.
Tested(s, r, q, kind) ==
  /\ r.targets \subseteq s.targets
  /\ Credentials!Exposed(q, kind) => Credentials!Key(q, kind) \in s.targets
  /\ \A t \in s.targets :
       t \in r.targets \/ (Credentials!Exposed(q, kind) /\ t = Credentials!Key(q, kind))

LEMMA InspectNotes ==
  ASSUME NEW r, Noted(r), NEW q \in Seq(Credentials!Line), q # <<>>, NEW kind \in Kind
  PROVE  Noted(Credentials!Inspect(q, r, kind)) /\ Tested(Credentials!Inspect(q, r, kind), r, q, kind)
<1>1. PICK t : t = Credentials!Key(q, kind)
  OBVIOUS
<1>2. PICK host \in Text, uri \in Text : host = Credentials!Host(q) /\ uri = Credentials!Uri(q)
  <2>1. "unknown-host" \in Text
    BY DEF Text
  <2>2. Credentials!Host(q) \in Text
    BY <2>1, HeaderType DEF Credentials!Host
  <2>3. q[1] \in Credentials!Line
    OBVIOUS
  <2>4. Credentials!Uri(q) \in Text
    BY <2>3 DEF Credentials!Uri, Credentials!Line, Text
  <2> QED
    BY <2>2, <2>4
<1>3. PICK x : x = [host |-> host, uri |-> uri, kind |-> kind]
  OBVIOUS
<1>4. x \in Exposure /\ TargetOf(x) = t /\ t \in Target
  BY <1>1, <1>2, <1>3 DEF Exposure, TargetOf, Target, Credentials!Key
<1>5. PICK a \in Seq(Exposure) : a = r.alerts
  BY DEF Noted
<1>6. PICK m \in Nat : m = Len(a)
  OBVIOUS
<1>7. /\ \A i \in 1 .. m : TargetOf(a[i]) \in r.targets
      /\ \A any \in r.targets : \E i \in 1 .. m : TargetOf(a[i]) = any
      /\ Distinct(a) /\ r.targets \subseteq Target
  BY <1>5, <1>6 DEF Noted
<1>8. CASE Credentials!Exposed(q, kind) /\ t \notin r.targets
  <2>1. PICK b : b = Append(a, x)
    OBVIOUS
  <2>2. /\ b \in Seq(Exposure) /\ Len(b) = m + 1 /\ b[m + 1] = x
        /\ \A i \in 1 .. m : b[i] = a[i]
        /\ Distinct(b)
    <3>1. \A i \in 1 .. Len(a) : a[i] # x
      BY <1>4, <1>6, <1>7, <1>8
    <3> QED
      BY <1>4, <1>6, <1>7, <2>1, <3>1, DistinctGrows
  <2>3. PICK s : s = [targets |-> r.targets \cup {t}, alerts |-> b]
    OBVIOUS
  <2>4. s = Credentials!Inspect(q, r, kind)
    BY <1>1, <1>2, <1>3, <1>5, <1>8, <2>1, <2>3 DEF Credentials!Inspect
  <2>5. s.targets = r.targets \cup {t} /\ s.alerts = b
    BY <2>3
  <2>6. s \in [targets : SUBSET Target, alerts : Seq(Exposure)]
    BY <1>4, <1>7, <2>2, <2>3
  <2>7. \A i \in 1 .. m + 1 : TargetOf(b[i]) \in s.targets
    BY <1>4, <1>7, <2>2, <2>5
  <2>8. ASSUME NEW any \in s.targets PROVE \E i \in 1 .. m + 1 : TargetOf(b[i]) = any
    <3>1. CASE any = t
      BY <1>4, <2>2, <3>1
    <3>2. CASE any \in r.targets
      <4>1. PICK i \in 1 .. m : TargetOf(a[i]) = any
        BY <1>7, <3>2
      <4> QED
        BY <2>2, <4>1
    <3> QED
      BY <2>5, <3>1, <3>2
  <2>9. Noted(s)
    BY <2>2, <2>5, <2>6, <2>7, <2>8 DEF Noted
  <2>10. Tested(s, r, q, kind)
    BY <1>1, <1>8, <2>5 DEF Tested
  <2> QED
    BY <2>4, <2>9, <2>10
<1>9. CASE ~ (Credentials!Exposed(q, kind) /\ t \notin r.targets)
  <2>1. Credentials!Inspect(q, r, kind) = r
    BY <1>1, <1>9 DEF Credentials!Inspect
  <2>2. Tested(r, r, q, kind)
    BY <1>1, <1>9 DEF Tested
  <2> QED
    BY <2>1, <2>2
<1> QED
  BY <1>8, <1>9

LEMMA InspectAllNotes ==
  ASSUME NEW r, Noted(r), NEW q \in Seq(Credentials!Line), q # <<>>
  PROVE  /\ Noted(Credentials!InspectAll(q, r))
         /\ r.targets \subseteq Credentials!InspectAll(q, r).targets
         /\ \A kind \in Kind : Credentials!Exposed(q, kind) =>
              Credentials!Key(q, kind) \in Credentials!InspectAll(q, r).targets
         /\ \A t \in Credentials!InspectAll(q, r).targets :
              t \in r.targets \/ \E kind \in Kind :
                                   Credentials!Exposed(q, kind) /\ t = Credentials!Key(q, kind)
<1>1. PICK r1 : r1 = Credentials!Inspect(q, r, "basic")
  OBVIOUS
<1>2. PICK r2 : r2 = Credentials!Inspect(q, r1, "uri_param")
  OBVIOUS
<1>3. PICK r3 : r3 = Credentials!Inspect(q, r2, "body")
  OBVIOUS
<1>4. r3 = Credentials!InspectAll(q, r)
  <2>1. Credentials!Kinds[1] = "basic" /\ Credentials!Kinds[2] = "uri_param" /\ Credentials!Kinds[3] = "body"
    BY DEF Credentials!Kinds
  <2> QED
    BY <1>1, <1>2, <1>3, <2>1, Zenon DEF Credentials!InspectAll
<1>5. "basic" \in Kind /\ "uri_param" \in Kind /\ "body" \in Kind
  BY DEF Kind
<1>6. Noted(r1) /\ Tested(r1, r, q, "basic")
  BY <1>1, <1>5, InspectNotes, Zenon
<1>7. Noted(r2) /\ Tested(r2, r1, q, "uri_param")
  BY <1>2, <1>5, <1>6, InspectNotes, Zenon
<1>8. Noted(r3) /\ Tested(r3, r2, q, "body")
  BY <1>3, <1>5, <1>7, InspectNotes, Zenon
<1>9. r.targets \subseteq r1.targets /\ r1.targets \subseteq r2.targets /\ r2.targets \subseteq r3.targets
  BY <1>6, <1>7, <1>8 DEF Tested
<1>10. ASSUME NEW kind \in Kind, Credentials!Exposed(q, kind)
       PROVE  Credentials!Key(q, kind) \in r3.targets
  <2>1. kind = "basic" \/ kind = "uri_param" \/ kind = "body"
    BY DEF Kind
  <2> QED
    BY <1>6, <1>7, <1>8, <1>9, <1>10, <2>1 DEF Tested
<1>11. ASSUME NEW t \in r3.targets
       PROVE  t \in r.targets \/ \E kind \in Kind :
                                   Credentials!Exposed(q, kind) /\ t = Credentials!Key(q, kind)
  BY <1>5, <1>6, <1>7, <1>8 DEF Tested
<1> QED
  BY <1>4, <1>8, <1>9, <1>10, <1>11

\* Every target is a packet's, and every well-formed packet's are there.
CredentialInv ==
  /\ Noted([targets |-> alerted_targets, alerts |-> credential_alerts])
  /\ \A packet \in credential_fed :
       /\ packet \in Credentials!Packet
       /\ Credentials!WellFormed(packet.payload) =>
            \A kind \in Kind : Credentials!Discloses(packet.payload, kind) =>
              Credentials!Key(packet.payload, kind) \in alerted_targets
  /\ \A t \in alerted_targets : \E packet \in credential_fed, kind \in Kind :
       Credentials!Exposed(packet.payload, kind) /\ t = Credentials!Key(packet.payload, kind)

LEMMA CredentialInvInit == Credentials!Init => CredentialInv
<1> SUFFICES ASSUME Credentials!Init PROVE CredentialInv
  OBVIOUS
<1>1. PICK r : r = [targets |-> alerted_targets, alerts |-> credential_alerts]
  OBVIOUS
<1>2. r.targets = {} /\ r.alerts = <<>> /\ r \in [targets : SUBSET Target, alerts : Seq(Exposure)]
  BY <1>1 DEF Credentials!Init
<1>3. Noted(r)
  BY <1>2 DEF Noted, Distinct
<1> QED
  BY <1>1, <1>3 DEF CredentialInv, Credentials!Init

LEMMA CredentialInvStep ==
  ASSUME CredentialInv, NEW packet \in Credentials!Packet, Credentials!FeedPayload(packet)
  PROVE  CredentialInv'
<1>1. PICK r : r = [targets |-> alerted_targets, alerts |-> credential_alerts]
  OBVIOUS
<1>2. PICK q \in Seq(Credentials!Line) : q = packet.payload
  BY DEF Credentials!Packet
<1>3. PICK s : s = IF (packet.web_port \/ Credentials!Sniff(q)) /\ Credentials!IsRequest(q)
                     THEN Credentials!InspectAll(q, r) ELSE r
  OBVIOUS
<1>4. /\ credential_fed' = credential_fed \cup {packet}
      /\ alerted_targets' = s.targets /\ credential_alerts' = s.alerts
  BY <1>1, <1>2, <1>3, Zenon DEF Credentials!FeedPayload
<1>5. Noted(r) /\ r.targets = alerted_targets
  BY <1>1 DEF CredentialInv
<1>6. /\ Noted(s) /\ alerted_targets \subseteq s.targets
      /\ Credentials!WellFormed(q) => \A kind \in Kind : Credentials!Discloses(q, kind) =>
           Credentials!Key(q, kind) \in s.targets
      /\ \A t \in s.targets :
           t \in alerted_targets \/ \E kind \in Kind :
                                      Credentials!Exposed(q, kind) /\ t = Credentials!Key(q, kind)
  <2>1. CASE (packet.web_port \/ Credentials!Sniff(q)) /\ Credentials!IsRequest(q)
    <3>1. q # <<>> /\ s = Credentials!InspectAll(q, r)
      BY <1>3, <2>1 DEF Credentials!IsRequest
    <3>2. /\ Noted(s) /\ r.targets \subseteq s.targets
          /\ \A kind \in Kind : Credentials!Exposed(q, kind) =>
               Credentials!Key(q, kind) \in s.targets
          /\ \A t \in s.targets :
               t \in r.targets \/ \E kind \in Kind :
                                    Credentials!Exposed(q, kind) /\ t = Credentials!Key(q, kind)
      BY <1>5, <3>1, InspectAllNotes
    <3>3. ASSUME Credentials!WellFormed(q), NEW kind \in Kind, Credentials!Discloses(q, kind)
          PROVE  Credentials!Exposed(q, kind)
      BY <3>3, WellFormedRead DEF Kind
    <3> QED
      BY <1>5, <3>2, <3>3
  <2>2. CASE ~ ((packet.web_port \/ Credentials!Sniff(q)) /\ Credentials!IsRequest(q))
    <3>1. s = r
      BY <1>3, <2>2
    <3>2. ~ Credentials!WellFormed(q)
      BY <2>2, WellFormedRead
    <3> QED
      BY <1>5, <3>1, <3>2
  <2> QED
    BY <2>1, <2>2
<1>7. Noted([targets |-> alerted_targets, alerts |-> credential_alerts])'
  <2>1. s = [targets |-> s.targets, alerts |-> s.alerts]
    BY <1>6 DEF Noted
  <2> QED
    BY <1>4, <1>6, <2>1 DEF Noted
<1>8. ASSUME NEW p \in credential_fed', Credentials!WellFormed(p.payload), NEW kind \in Kind,
             Credentials!Discloses(p.payload, kind)
      PROVE  Credentials!Key(p.payload, kind) \in s.targets
  <2>1. CASE p \in credential_fed
    BY <1>6, <1>8, <2>1 DEF CredentialInv
  <2>2. CASE p = packet
    BY <1>2, <1>6, <1>8, <2>2
  <2> QED
    BY <1>4, <2>1, <2>2
<1>9. ASSUME NEW t \in s.targets
      PROVE  \E p \in credential_fed', kind \in Kind :
               Credentials!Exposed(p.payload, kind) /\ t = Credentials!Key(p.payload, kind)
  <2>1. CASE t \in alerted_targets
    BY <1>4, <2>1 DEF CredentialInv
  <2>2. CASE \E kind \in Kind : Credentials!Exposed(q, kind) /\ t = Credentials!Key(q, kind)
    BY <1>2, <1>4, <2>2
  <2> QED
    BY <1>6, <2>1, <2>2
<1>10. \A p \in credential_fed' : p \in Credentials!Packet
  BY <1>4 DEF CredentialInv
<1> QED
  BY <1>4, <1>7, <1>8, <1>9, <1>10 DEF CredentialInv

LEMMA CredentialInvariant == EngineSpec => []CredentialInv
<1>1. EngineInit => CredentialInv
  BY CredentialInvInit DEF EngineInit
<1>2. capture \in DOMAIN Traffic /\ CredentialInv /\ [EngineNext]_engine_vars => CredentialInv'
  <2> SUFFICES ASSUME capture \in DOMAIN Traffic, CredentialInv, [EngineNext]_engine_vars
               PROVE  CredentialInv'
    OBVIOUS
  <2>1. ASSUME NEW p \in Traffic[capture].packets, NEW ts \in Traffic[capture].times,
               Others(p, ts)
        PROVE  CredentialInv'
    <3>1. CASE p.kind = "http"
      <4>1. p.http \in Credentials!Packet
        BY <3>1, PayloadsAssumption
      <4>2. Credentials!FeedPayload(p.http)
        BY <2>1, <3>1 DEF Others
      <4> QED
        BY <4>1, <4>2, CredentialInvStep
    <3>2. CASE p.kind # "http"
      BY <2>1, <3>2 DEF Others, credentials_vars, CredentialInv
    <3> QED
      BY <3>1, <3>2
  <2>2. CASE UNCHANGED engine_vars
    BY <2>2 DEF engine_vars, credentials_vars, CredentialInv
  <2> QED
    BY <2>1, <2>2 DEF EngineNext, Feed
<1> QED
  BY <1>1, <1>2, CaptureKept, PTL DEF EngineSpec

\* Within the engine, whatever the lines of its packets: what a well-formed
\* request gives away is alerted for its host and URI, and nothing else is.
THEOREM EngineReportsCredentials == EngineSpec => []CredentialsReported
<1>1. CredentialInv => CredentialsReported
  <2> SUFFICES ASSUME CredentialInv PROVE Credentials!CredentialsReported
    BY DEF CredentialsReported
  <2>1. PICK a : a = credential_alerts
    OBVIOUS
  <2>2. /\ \A i \in 1 .. Len(a) : a[i] \in Exposure /\ TargetOf(a[i]) \in alerted_targets
        /\ \A t \in alerted_targets : \E i \in 1 .. Len(a) : TargetOf(a[i]) = t
    <3>1. PICK r : r = [targets |-> alerted_targets, alerts |-> credential_alerts]
      OBVIOUS
    <3>2. Noted(r) /\ r.targets = alerted_targets /\ r.alerts = a
      BY <2>1, <3>1 DEF CredentialInv
    <3>3. a \in Seq(Exposure)
      BY <3>2 DEF Noted
    <3> QED
      BY <3>2, <3>3 DEF Noted
  <2>3. ASSUME NEW q \in Seq(Credentials!Line), Credentials!WellFormed(q),
               NEW i \in 1 .. Len(a), NEW kind \in Kind, TargetOf(a[i]) = Credentials!Key(q, kind)
        PROVE  Credentials!Concerns(q, a[i]) /\ a[i].kind = kind
    <3>1. a[i].host = Credentials!Host(q) /\ a[i].uri = q[1].arg /\ a[i].kind = kind
      BY <2>3 DEF TargetOf, Credentials!Key, Credentials!Uri
    <3> QED
      BY <2>3, <3>1, WellFormedRead DEF Credentials!Concerns
  <2>4. ASSUME NEW packet \in credential_fed, NEW n \in 1 .. 3,
               Credentials!WellFormed(packet.payload),
               Credentials!Discloses(packet.payload, Credentials!Kinds[n])
        PROVE  \E i \in 1 .. Len(a) :
                 Credentials!Concerns(packet.payload, a[i]) /\ a[i].kind = Credentials!Kinds[n]
    <3>1. PICK kind \in Kind : kind = Credentials!Kinds[n]
      BY DEF Kind, Credentials!Kinds
    <3>2. Credentials!Key(packet.payload, kind) \in alerted_targets
      BY <2>4, <3>1 DEF CredentialInv
    <3>3. PICK i \in 1 .. Len(a) : TargetOf(a[i]) = Credentials!Key(packet.payload, kind)
      BY <2>2, <3>2
    <3>4. packet.payload \in Seq(Credentials!Line)
      BY DEF CredentialInv, Credentials!Packet
    <3>5. Credentials!Concerns(packet.payload, a[i]) /\ a[i].kind = kind
      BY <2>3, <2>4, <3>3, <3>4
    <3> QED
      BY <3>1, <3>5
  <2>5. ASSUME NEW i \in 1 .. Len(a)
        PROVE  \E packet \in credential_fed :
                 /\ packet.payload[1].arg = a[i].uri
                 /\ Credentials!WellFormed(packet.payload) =>
                      /\ Credentials!Concerns(packet.payload, a[i])
                      /\ Credentials!Discloses(packet.payload, a[i].kind)
    <3>1. PICK packet \in credential_fed, kind \in Kind :
            /\ Credentials!Exposed(packet.payload, kind)
            /\ TargetOf(a[i]) = Credentials!Key(packet.payload, kind)
      BY <2>2 DEF CredentialInv
    <3>2. packet.payload \in Seq(Credentials!Line)
      BY DEF CredentialInv, Credentials!Packet
    <3>3. packet.payload[1].arg = a[i].uri /\ a[i].kind = kind
      BY <3>1 DEF TargetOf, Credentials!Key, Credentials!Uri
    <3>4. ASSUME Credentials!WellFormed(packet.payload)
          PROVE  /\ Credentials!Concerns(packet.payload, a[i])
                 /\ Credentials!Discloses(packet.payload, a[i].kind)
      <4>1. Credentials!Discloses(packet.payload, kind)
        BY <3>1, <3>2, <3>4, WellFormedRead DEF Kind
      <4> QED
        BY <2>3, <3>1, <3>2, <3>3, <3>4, <4>1
    <3> QED
      BY <3>3, <3>4
  <2> QED
    BY <2>1, <2>4, <2>5 DEF Credentials!CredentialsReported
<1> QED
  BY <1>1, CredentialInvariant, PTL

-----------------------------------------------------------------------------
(***************************************************************************)
(* Alerting once                                                           *)
(***************************************************************************)
BeaconAlert ==
  [flow : {<<p.src, p.dst, p.port>> : p \in UNION {Traffic[name].packets : name \in DOMAIN Traffic}},
   ts   : UNION {Traffic[name].times : name \in DOMAIN Traffic}]

\* The beaconing rule has on record what it alerted, each flow once.
BeaconOnce(a, alerted) ==
  /\ a \in Seq(BeaconAlert)
  /\ \A i \in 1 .. Len(a) : a[i].flow \in alerted
  /\ \A i, j \in 1 .. Len(a) : a[i].flow = a[j].flow => i = j

LEMMA BeaconStep ==
  ASSUME BeaconOnce(beacon_alerts, alerted_flows), NEW flow, NEW ts,
         [flow |-> flow, ts |-> ts] \in BeaconAlert, Beacon!FeedFlow(flow, ts)
  PROVE  BeaconOnce(beacon_alerts', alerted_flows')
<1>1. PICK x \in BeaconAlert : x = [flow |-> flow, ts |-> ts]
  OBVIOUS
<1>2. PICK a, known : a \in Seq(BeaconAlert) /\ a = beacon_alerts /\ known = alerted_flows
  BY DEF BeaconOnce
<1>3. PICK m \in Nat : m = Len(a)
  BY <1>2
<1>4. /\ \A i \in 1 .. m : a[i].flow \in known
      /\ \A i, j \in 1 .. m : a[i].flow = a[j].flow => i = j
  BY <1>2, <1>3 DEF BeaconOnce
<1>5. CASE flow \notin known /\ beacon_alerts' = Append(a, x) /\ alerted_flows' = known \cup {flow}
  <2>1. PICK b : b = Append(a, x)
    OBVIOUS
  <2>2. b \in Seq(BeaconAlert) /\ Len(b) = m + 1 /\ b[m + 1] = x /\ \A i \in 1 .. m : b[i] = a[i]
    BY <1>2, <1>3, <2>1
  <2>3. x.flow = flow
    BY <1>1
  <2>4. \A i \in 1 .. m + 1 : b[i].flow \in known \cup {flow}
    BY <1>4, <2>2, <2>3
  <2>5. ASSUME NEW i \in 1 .. m + 1, NEW j \in 1 .. m + 1, b[i].flow = b[j].flow PROVE i = j
    <3>1. CASE i \in 1 .. m /\ j \in 1 .. m
      BY <1>4, <2>2, <2>5, <3>1
    <3>2. CASE i = m + 1 /\ j \in 1 .. m
      BY <1>4, <1>5, <2>2, <2>3, <2>5, <3>2
    <3>3. CASE i \in 1 .. m /\ j = m + 1
      BY <1>4, <1>5, <2>2, <2>3, <2>5, <3>3
    <3> QED
      BY <3>1, <3>2, <3>3
  <2> QED
    BY <1>5, <2>1, <2>2, <2>4, <2>5 DEF BeaconOnce
<1>6. CASE beacon_alerts' = a /\ alerted_flows' = known
  BY <1>2, <1>6
<1> QED
  BY <1>1, <1>2, <1>5, <1>6 DEF Beacon!FeedFlow, Beacon!Fires

LEMMA BeaconInvariant == EngineSpec => []BeaconOnce(beacon_alerts, alerted_flows)
<1>1. EngineInit => BeaconOnce(beacon_alerts, alerted_flows)
  BY DEF EngineInit, Beacon!Init, BeaconOnce
<1>2. capture \in DOMAIN Traffic /\ BeaconOnce(beacon_alerts, alerted_flows) /\ [EngineNext]_engine_vars
        => BeaconOnce(beacon_alerts, alerted_flows)'
  <2> SUFFICES ASSUME capture \in DOMAIN Traffic, BeaconOnce(beacon_alerts, alerted_flows),
                      [EngineNext]_engine_vars
               PROVE  BeaconOnce(beacon_alerts', alerted_flows')
    OBVIOUS
  <2>1. ASSUME NEW p \in Traffic[capture].packets, NEW ts \in Traffic[capture].times,
               Others(p, ts)
        PROVE  BeaconOnce(beacon_alerts', alerted_flows')
    <3>1. CASE p.kind \in Flowing
      <4>1. [flow |-> <<p.src, p.dst, p.port>>, ts |-> ts] \in BeaconAlert
        BY DEF BeaconAlert
      <4>2. Beacon!FeedFlow(<<p.src, p.dst, p.port>>, ts)
        BY <2>1, <3>1 DEF Others
      <4> QED
        BY <4>1, <4>2, BeaconStep
    <3>2. CASE p.kind \notin Flowing
      BY <2>1, <3>2 DEF Others, beacon_vars
    <3> QED
      BY <3>1, <3>2
  <2>2. CASE UNCHANGED engine_vars
    BY <2>2 DEF engine_vars, beacon_vars
  <2> QED
    BY <2>1, <2>2 DEF EngineNext, Feed
<1> QED
  BY <1>1, <1>2, CaptureKept, PTL DEF EngineSpec

\* Within the engine, however often packets repeat: a contested pair, a name, an
\* exposure and a flow are each alerted once.
THEOREM EngineAlertsOnce == EngineSpec => []AlertedOnce
<1>1. ArpInv => Arp!AlertedOnce
  BY DEF ArpInv
<1>2. TunnelInv => Tunnel!AlertedOnce
  BY DEF TunnelInv, Recorded, Tunnel!AlertedOnce
<1>3. CredentialInv => Credentials!AlertedOnce
  BY DEF CredentialInv, Noted, Distinct, Credentials!AlertedOnce
<1>4. BeaconOnce(beacon_alerts, alerted_flows) => Beacon!AlertedOnce
  BY DEF BeaconOnce, Beacon!AlertedOnce
<1>5. ArpInv /\ TunnelInv /\ CredentialInv /\ BeaconOnce(beacon_alerts, alerted_flows) => AlertedOnce
  BY <1>1, <1>2, <1>3, <1>4 DEF AlertedOnce
<1> QED
  BY <1>5, ArpRuleUndisturbed, ArpInvariant, TunnelInvariant, CredentialInvariant, BeaconInvariant, PTL


-----------------------------------------------------------------------------
(***************************************************************************)
(* Intervals and their deviation                                           *)
(***************************************************************************)
\* The sums of a sequence's first numbers.
Totals(f, x, n) ==
  /\ f \in [0 .. n -> Int] /\ f[0] = 0
  /\ \A i \in 1 .. n : f[i] = f[i - 1] + x[i]

\* What Sum computes.
LEMMA SumUnfolds ==
  ASSUME NEW x \in Seq(Nat)
  PROVE  \E f : Totals(f, x, Len(x)) /\ Beacon!Sum(x) = f[Len(x)]
<1> DEFINE u == CHOOSE u : u = [n \in 0 .. Len(x) |-> IF n = 0 THEN 0 ELSE u[n - 1] + x[n]]
<1>1. Beacon!Sum(x) = u[Len(x)]
  BY Zenon DEF Beacon!Sum
<1>2. PICK l \in Nat : l = Len(x)
  OBVIOUS
<1>3. PICK f : Totals(f, x, l)
  <2> DEFINE step == [p \in Int \X Nat |-> IF p[2] \in 1 .. l THEN p[1] + x[p[2]] ELSE p[1]]
  <2>1. step \in [Int \X Nat -> Int]
    <3>1. ASSUME NEW p \in Int \X Nat
          PROVE  (IF p[2] \in 1 .. l THEN p[1] + x[p[2]] ELSE p[1]) \in Int
      BY <1>2
    <3> QED
      BY <3>1
  <2>2. ASSUME NEW s \in Int, NEW i \in 1 .. l PROVE step[<<s, i>>] = s + x[i]
    OBVIOUS
  <2> HIDE DEF step
  <2>3. PICK f \in [0 .. l -> Int] : f[0] = 0 /\ \A i \in 1 .. l : f[i] = step[<<f[i - 1], i>>]
    <3>1. IsStep(step, Int)
      BY <2>1 DEF IsStep
    <3>2. \E g : Iterates(g, l, Int, 0, step)
      <4>1. 0 \in Int /\ l \in Nat
        BY <1>2
      <4> QED
        BY <3>1, <4>1, Recursion
    <3> QED
      BY <3>2 DEF Iterates
  <2>4. ASSUME NEW i \in 1 .. l PROVE f[i] = f[i - 1] + x[i]
    <3>1. f[i - 1] \in Int
      BY <2>3
    <3> QED
      BY <2>2, <2>3, <3>1
  <2> QED
    BY <2>3, <2>4 DEF Totals
<1>4. f = [n \in 0 .. Len(x) |-> IF n = 0 THEN 0 ELSE f[n - 1] + x[n]]
  BY <1>2, <1>3 DEF Totals
<1>5. u = [n \in 0 .. Len(x) |-> IF n = 0 THEN 0 ELSE u[n - 1] + x[n]]
  BY <1>4
<1> HIDE DEF u
<1>6. \A n \in 0 .. l : u[n] = f[n]
  <2> DEFINE T == {n \in Nat : n <= l => u[n] = f[n]}
  <2>1. 0 \in T
    BY <1>2, <1>3, <1>5 DEF Totals
  <2>2. ASSUME NEW n \in Nat, n \in T PROVE n + 1 \in T
    <3>1. CASE n + 1 <= l
      <4>1. u[n] = f[n] /\ n + 1 \in 1 .. l /\ (n + 1) - 1 = n
        <5>1. n + 1 \in 1 .. l /\ n <= l /\ (n + 1) - 1 = n
          BY <1>2, <3>1
        <5>2. u[n] = f[n]
          BY <2>2, <5>1
        <5> QED
          BY <5>1, <5>2
      <4>2. u[n + 1] = u[n] + x[n + 1]
        <5>1. n + 1 \in 0 .. Len(x) /\ n + 1 # 0
          BY <1>2, <4>1
        <5>2. u[n + 1] = IF n + 1 = 0 THEN 0 ELSE u[(n + 1) - 1] + x[n + 1]
          BY <1>5, <5>1
        <5> QED
          BY <4>1, <5>1, <5>2
      <4>3. f[n + 1] = f[n] + x[n + 1]
        BY <1>3, <4>1 DEF Totals
      <4> QED
        BY <4>1, <4>2, <4>3
    <3> QED
      BY <3>1
  <2>3. Nat \subseteq T
    <3> HIDE DEF T
    <3> QED
      BY <2>1, <2>2, SetInduction
  <2> QED
    BY <2>3
<1> QED
  BY <1>1, <1>2, <1>3, <1>6

\* A square is no less than 0, and monotone.
LEMMA Square ==
  /\ \A a \in Int : a * a \in Nat
  /\ \A a, b \in Nat : a <= b => a * a <= b * b
<1>1. ASSUME NEW a \in Int PROVE a * a \in Nat
  <2>1. CASE a >= 0
    BY <2>1
  <2>2. CASE a < 0
    BY <2>2
  <2> QED
    BY <2>1, <2>2
<1>2. ASSUME NEW a \in Nat, NEW b \in Nat, a <= b PROVE a * a <= b * b
  BY <1>2
<1> QED
  BY <1>1, <1>2

\* A term's deviation from the mean c / n, squared, and what the first i terms'
\* add up to, s and q being the sums of the terms and of their squares; both
\* times n * n.
Off(n, c, t)       == (n * t - c) * (n * t - c)
Dev(n, c, q, s, i) == n * n * q[i] - 2 * n * c * s[i] + i * c * c

LEMMA OffType ==
  ASSUME NEW n \in Int, NEW c \in Int, NEW t \in Int
  PROVE  Off(n, c, t) \in Nat
<1>1. PICK v \in Int : v = n * t - c
  OBVIOUS
<1>2. v * v \in Nat
  BY Square
<1> QED
  BY <1>1, <1>2 DEF Off

LEMMA OneMoreTerm ==
  ASSUME NEW n \in Int, NEW c \in Int, NEW q, NEW s, NEW i \in Int, q[i] \in Int, s[i] \in Int,
         NEW t \in Int, q[i + 1] = q[i] + t * t, s[i + 1] = s[i] + t
  PROVE  Dev(n, c, q, s, i) \in Int /\ Dev(n, c, q, s, i + 1) = Dev(n, c, q, s, i) + Off(n, c, t)
<1>1. ASSUME NEW p \in Int, NEW a \in Int
      PROVE  /\ n * n * p - 2 * n * c * a + i * c * c \in Int
             /\ n * n * (p + t * t) - 2 * n * c * (a + t) + (i + 1) * c * c
                  = (n * n * p - 2 * n * c * a + i * c * c) + (n * t - c) * (n * t - c)
  OBVIOUS
<1>2. /\ n * n * q[i] - 2 * n * c * s[i] + i * c * c \in Int
      /\ n * n * (q[i] + t * t) - 2 * n * c * (s[i] + t) + (i + 1) * c * c
           = (n * n * q[i] - 2 * n * c * s[i] + i * c * c) + (n * t - c) * (n * t - c)
  BY <1>1, Zenon
<1>3. n * n * q[i + 1] - 2 * n * c * s[i + 1] + (i + 1) * c * c
        = (n * n * q[i] - 2 * n * c * s[i] + i * c * c) + (n * t - c) * (n * t - c)
  BY <1>2, Zenon
<1> QED
  BY <1>2, <1>3, Zenon DEF Dev, Off

LEMMA AllTerms ==
  ASSUME NEW n \in Int, NEW c \in Int, NEW r \in Int
  PROVE  /\ n * n * r - 2 * n * c * c + n * c * c = n * (n * r - c * c)
         /\ n * n * 0 - 2 * n * c * 0 + 0 * c * c = 0
OBVIOUS

\* The term t is no further off than all n of sum c and sum of squares r allow.
Deviates(n, c, r, t) == Off(n, c, t) <= n * (n * r - c * c)

\* n terms x of sum c, and q the sum of their squares: no term is further off
\* their mean than the root of n times their variance.
LEMMA TermDeviates ==
  ASSUME NEW n \in Nat, NEW x \in [1 .. n -> Nat], NEW y, NEW s, NEW q,
         Totals(s, x, n), Totals(q, y, n), \A i \in 1 .. n : y[i] = x[i] * x[i]
  PROVE  \A k \in 1 .. n : Deviates(n, s[n], q[n], x[k])
<1>1. PICK c \in Int : c = s[n]
  BY DEF Totals
<1>2. PICK r \in Int : r = q[n]
  BY DEF Totals
<1> DEFINE T == {i \in Nat : i <= n => /\ 0 <= Dev(n, c, q, s, i)
                                       /\ \A k \in 1 .. i : Off(n, c, x[k]) <= Dev(n, c, q, s, i)}
<1>3. 0 \in T
  <2>1. q[0] = 0 /\ s[0] = 0
    BY DEF Totals
  <2>2. n * n * 0 - 2 * n * c * 0 + 0 * c * c = 0
    BY AllTerms
  <2>3. Dev(n, c, q, s, 0) = 0
    BY <2>1, <2>2, Zenon DEF Dev
  <2> QED
    BY <2>3
<1>4. ASSUME NEW i \in Nat, i \in T PROVE i + 1 \in T
  <2>1. SUFFICES ASSUME i + 1 <= n
                 PROVE  /\ 0 <= Dev(n, c, q, s, i + 1)
                        /\ \A k \in 1 .. i + 1 : Off(n, c, x[k]) <= Dev(n, c, q, s, i + 1)
    OBVIOUS
  <2>2. PICK t \in Int : t = x[i + 1]
    BY <2>1
  <2>3. /\ n \in Int /\ i \in Int /\ q[i] \in Int /\ s[i] \in Int
        /\ q[i + 1] = q[i] + t * t /\ s[i + 1] = s[i] + t
    BY <2>1, <2>2 DEF Totals
  <2>4. PICK d, e : d = Dev(n, c, q, s, i) /\ e = Off(n, c, t)
    OBVIOUS
  <2>5. d \in Int /\ Dev(n, c, q, s, i + 1) = d + e
    BY <2>3, <2>4, OneMoreTerm
  <2>6. e \in Nat
    BY <2>3, <2>4, OffType
  <2>7. 0 <= d /\ \A k \in 1 .. i : Off(n, c, x[k]) <= d
    BY <1>4, <2>1, <2>4
  <2>8. ASSUME NEW k \in 1 .. i + 1 PROVE Off(n, c, x[k]) <= d + e
    <3>1. Off(n, c, x[k]) \in Nat
      <4>1. n \in Int /\ c \in Int /\ x[k] \in Int
        BY <1>1, <2>1
      <4> QED
        BY <4>1, OffType
    <3>2. CASE k = i + 1
      BY <2>2, <2>4, <2>5, <2>6, <2>7, <3>2
    <3>3. CASE k \in 1 .. i
      <4>1. Off(n, c, x[k]) <= d
        BY <2>7, <3>3
      <4> QED
        BY <2>5, <2>6, <3>1, <4>1
    <3> QED
      BY <3>2, <3>3
  <2> QED
    BY <2>5, <2>6, <2>7, <2>8
<1>5. n \in T
  <2> HIDE DEF T
  <2> QED
    BY <1>3, <1>4, SetInduction
<1>6. Dev(n, c, q, s, n) = n * (n * r - c * c)
  <2>1. n * n * r - 2 * n * c * c + n * c * c = n * (n * r - c * c)
    <3>1. n \in Int /\ c \in Int /\ r \in Int
      BY <1>1, <1>2
    <3> QED
      BY <3>1, AllTerms, Zenon
  <2> QED
    BY <1>1, <1>2, <2>1, Zenon DEF Dev
<1>7. \A k \in 1 .. n : Off(n, c, x[k]) <= n * (n * r - c * c)
  BY <1>5, <1>6
<1>8. \A k \in 1 .. n : Deviates(n, c, r, x[k])
  BY <1>7 DEF Deviates
<1> QED
  BY <1>1, <1>2, <1>8, Zenon

\* How far the sum of the first i squares is below what it would be if every
\* term were lo or hi.
Below(lo, hi, q, s, i) == (lo + hi) * s[i] - i * lo * hi - q[i]

LEMMA OneTermBelow ==
  ASSUME NEW lo \in Int, NEW hi \in Int, NEW q, NEW s, NEW i \in Int, q[i] \in Int, s[i] \in Int,
         NEW t \in Int, q[i + 1] = q[i] + t * t, s[i + 1] = s[i] + t
  PROVE  /\ Below(lo, hi, q, s, i) \in Int
         /\ Below(lo, hi, q, s, i + 1) = Below(lo, hi, q, s, i) + (t - lo) * (hi - t)
<1>1. ASSUME NEW p \in Int, NEW a \in Int
      PROVE  /\ (lo + hi) * a - i * lo * hi - p \in Int
             /\ (lo + hi) * (a + t) - (i + 1) * lo * hi - (p + t * t)
                  = ((lo + hi) * a - i * lo * hi - p) + (t - lo) * (hi - t)
  OBVIOUS
<1>2. /\ (lo + hi) * s[i] - i * lo * hi - q[i] \in Int
      /\ (lo + hi) * (s[i] + t) - (i + 1) * lo * hi - (q[i] + t * t)
           = ((lo + hi) * s[i] - i * lo * hi - q[i]) + (t - lo) * (hi - t)
  BY <1>1, Zenon
<1>3. (lo + hi) * s[i + 1] - (i + 1) * lo * hi - q[i + 1]
        = ((lo + hi) * s[i] - i * lo * hi - q[i]) + (t - lo) * (hi - t)
  BY <1>2, Zenon
<1> QED
  BY <1>2, <1>3, Zenon DEF Below

\* The product of numbers that are no less than 0.
LEMMA Product ==
  ASSUME NEW a \in Int, NEW b \in Int, 0 <= a, 0 <= b
  PROVE  a * b \in Nat
OBVIOUS

LEMMA HalfRange ==
  ASSUME NEW n \in Nat, NEW lo \in Int, NEW hi \in Int, NEW c \in Int, NEW r \in Int,
         0 <= (lo + hi) * c - n * lo * hi - r
  PROVE  4 * (n * r - c * c) <= (n * (hi - lo)) * (n * (hi - lo))
<1>1. PICK b \in Int : b = (lo + hi) * c - n * lo * hi - r
  OBVIOUS
<1>2. PICK v \in Int : v = n * (hi + lo) - 2 * c
  OBVIOUS
<1>3. v * v \in Nat
  BY Square
<1>4. n * b \in Nat
  BY <1>1, Product
<1>5. (n * (hi - lo)) * (n * (hi - lo)) - 4 * (n * r - c * c)
        = (n * (hi + lo) - 2 * c) * (n * (hi + lo) - 2 * c) + 4 * (n * ((lo + hi) * c - n * lo * hi - r))
  OBVIOUS
<1>6. (n * (hi - lo)) * (n * (hi - lo)) - 4 * (n * r - c * c) = v * v + 4 * (n * b)
  BY <1>1, <1>2, <1>5, Zenon
<1>7. PICK k \in Int, l \in Int : k = (n * (hi - lo)) * (n * (hi - lo)) /\ l = n * r - c * c
  OBVIOUS
<1>8. PICK f \in Nat, g \in Nat : f = v * v /\ g = n * b
  BY <1>3, <1>4
<1>9. k - 4 * l = f + 4 * g
  BY <1>6, <1>7, <1>8, Zenon
<1>10. 4 * l <= k
  BY <1>9
<1> QED
  BY <1>7, <1>10, Zenon

\* No n terms vary more than half their range.
LEMMA WithinRange ==
  ASSUME NEW n \in Nat, NEW x \in [1 .. n -> Nat], NEW y, NEW s, NEW q,
         Totals(s, x, n), Totals(q, y, n), \A i \in 1 .. n : y[i] = x[i] * x[i],
         NEW lo \in Nat, NEW hi \in Nat, \A i \in 1 .. n : lo <= x[i] /\ x[i] <= hi
  PROVE  4 * (n * q[n] - s[n] * s[n]) <= (n * (hi - lo)) * (n * (hi - lo))
<1> DEFINE T == {i \in Nat : i <= n => 0 <= Below(lo, hi, q, s, i)}
<1>1. 0 \in T
  <2>1. q[0] = 0 /\ s[0] = 0
    BY DEF Totals
  <2>2. (lo + hi) * 0 - 0 * lo * hi - 0 = 0
    OBVIOUS
  <2>3. Below(lo, hi, q, s, 0) = 0
    BY <2>1, <2>2, Zenon DEF Below
  <2> QED
    BY <2>3
<1>2. ASSUME NEW i \in Nat, i \in T PROVE i + 1 \in T
  <2>1. SUFFICES ASSUME i + 1 <= n PROVE 0 <= Below(lo, hi, q, s, i + 1)
    OBVIOUS
  <2>2. PICK t \in Int : t = x[i + 1]
    BY <2>1
  <2>3. /\ lo \in Int /\ hi \in Int /\ i \in Int /\ q[i] \in Int /\ s[i] \in Int
        /\ q[i + 1] = q[i] + t * t /\ s[i + 1] = s[i] + t
    BY <2>1, <2>2 DEF Totals
  <2>4. PICK d : d = Below(lo, hi, q, s, i)
    OBVIOUS
  <2>5. d \in Int /\ Below(lo, hi, q, s, i + 1) = d + (t - lo) * (hi - t)
    BY <2>3, <2>4, OneTermBelow
  <2>6. 0 <= d
    BY <1>2, <2>1, <2>4
  <2>7. (t - lo) * (hi - t) \in Nat
    <3>1. PICK a \in Int, b \in Int : a = t - lo /\ b = hi - t
      BY <2>3
    <3>2. i + 1 \in 1 .. n
      BY <2>1
    <3>3. lo <= x[i + 1] /\ x[i + 1] <= hi
      BY <3>2
    <3>4. lo <= t /\ t <= hi
      BY <2>2, <3>3, Zenon
    <3>5. 0 <= a /\ 0 <= b
      BY <3>1, <3>4
    <3> QED
      BY <3>1, <3>5, Product
  <2>8. PICK e \in Nat : e = (t - lo) * (hi - t)
    BY <2>7
  <2> QED
    BY <2>5, <2>6, <2>8
<1>3. n \in T
  <2> HIDE DEF T
  <2> QED
    BY <1>1, <1>2, SetInduction
<1>4. PICK c \in Int : c = s[n]
  BY DEF Totals
<1>5. PICK r \in Int : r = q[n]
  BY DEF Totals
<1>6. 0 <= (lo + hi) * c - n * lo * hi - r
  <2>1. 0 <= Below(lo, hi, q, s, n)
    BY <1>3
  <2> QED
    BY <1>4, <1>5, <2>1, Zenon DEF Below
<1>7. 4 * (n * r - c * c) <= (n * (hi - lo)) * (n * (hi - lo))
  <2>1. lo \in Int /\ hi \in Int
    OBVIOUS
  <2> QED
    BY <1>4, <1>5, <1>6, <2>1, HalfRange
<1> QED
  BY <1>4, <1>5, <1>7, Zenon

\* Of a few numbers one is the least and one the greatest.
LEMMA Extremes ==
  ASSUME NEW n \in Nat \ {0}, NEW x \in [1 .. n -> Nat]
  PROVE  \E i, j \in 1 .. n : \A k \in 1 .. n : x[i] <= x[k] /\ x[k] <= x[j]
<1> DEFINE T == {m \in Nat : m + 1 <= n =>
                   \E i, j \in 1 .. m + 1 : \A k \in 1 .. m + 1 : x[i] <= x[k] /\ x[k] <= x[j]}
<1>1. 0 \in T
  <2>1. 1 \in 1 .. 0 + 1 /\ \A k \in 1 .. 0 + 1 : k = 1
    OBVIOUS
  <2>2. x[1] \in Nat
    OBVIOUS
  <2> QED
    BY <2>1, <2>2
<1>2. ASSUME NEW m \in Nat, m \in T PROVE m + 1 \in T
  <2>1. SUFFICES ASSUME m + 1 + 1 <= n
                 PROVE  \E i, j \in 1 .. m + 1 + 1 : \A k \in 1 .. m + 1 + 1 : x[i] <= x[k] /\ x[k] <= x[j]
    OBVIOUS
  <2>2. PICK i, j \in 1 .. m + 1 : \A k \in 1 .. m + 1 : x[i] <= x[k] /\ x[k] <= x[j]
    BY <1>2, <2>1
  <2>3. PICK l : l = m + 1 + 1
    OBVIOUS
  <2>4. /\ l \in 1 .. n /\ \A k \in 1 .. l : k \in 1 .. m + 1 \/ k = l
        /\ i \in 1 .. l /\ j \in 1 .. l /\ l \in 1 .. l
    BY <2>1, <2>3
  <2>5. \A k \in 1 .. l : x[k] \in Nat
    BY <2>4
  <2>6. PICK a \in 1 .. l : \A k \in 1 .. l : x[a] <= x[k]
    <3>1. ASSUME x[l] <= x[i], NEW k \in 1 .. l PROVE x[l] <= x[k]
      <4>1. x[i] \in Nat /\ x[j] \in Nat /\ x[k] \in Nat /\ x[l] \in Nat
        BY <2>4, <2>5
      <4>2. k = l \/ (x[i] <= x[k] /\ x[k] <= x[j])
        BY <2>2, <2>4
      <4> QED
        BY <3>1, <4>1, <4>2
    <3>2. ASSUME x[i] <= x[l], NEW k \in 1 .. l PROVE x[i] <= x[k]
      <4>1. x[i] \in Nat /\ x[j] \in Nat /\ x[k] \in Nat /\ x[l] \in Nat
        BY <2>4, <2>5
      <4>2. k = l \/ (x[i] <= x[k] /\ x[k] <= x[j])
        BY <2>2, <2>4
      <4> QED
        BY <3>2, <4>1, <4>2
    <3> QED
      BY <2>4, <2>5, <3>1, <3>2
  <2>7. PICK b \in 1 .. l : \A k \in 1 .. l : x[k] <= x[b]
    <3>1. ASSUME x[j] <= x[l], NEW k \in 1 .. l PROVE x[k] <= x[l]
      <4>1. x[i] \in Nat /\ x[j] \in Nat /\ x[k] \in Nat /\ x[l] \in Nat
        BY <2>4, <2>5
      <4>2. k = l \/ (x[i] <= x[k] /\ x[k] <= x[j])
        BY <2>2, <2>4
      <4> QED
        BY <3>1, <4>1, <4>2
    <3>2. ASSUME x[l] <= x[j], NEW k \in 1 .. l PROVE x[k] <= x[j]
      <4>1. x[i] \in Nat /\ x[j] \in Nat /\ x[k] \in Nat /\ x[l] \in Nat
        BY <2>4, <2>5
      <4>2. k = l \/ (x[i] <= x[k] /\ x[k] <= x[j])
        BY <2>2, <2>4
      <4> QED
        BY <3>2, <4>1, <4>2
    <3>3. x[j] <= x[l] \/ x[l] <= x[j]
      BY <2>4, <2>5
    <3> QED
      BY <2>4, <3>1, <3>2, <3>3
  <2> QED
    BY <2>3, <2>6, <2>7
<1>3. n - 1 \in T
  <2> HIDE DEF T
  <2>1. Nat \subseteq T
    BY <1>1, <1>2, SetInduction
  <2> QED
    BY <2>1
<1>4. (n - 1) + 1 = n
  OBVIOUS
<1> QED
  BY <1>3, <1>4

\* The tests on n intervals of sum c and sum of squares r, and on some of them.
Steady(n, c, r)  == 10000 * (n * r - c * c) <= MaxCv * MaxCv * c * c
Close(n, c, t)   == 10000 * (n * t - c) * (n * t - c) <= n * MaxCv * MaxCv * c * c
Near(n, c, t, u) == 100 * n * (t - u) <= 2 * MaxCv * c

\* Intervals within twice the tolerance of one another are regular.
LEMMA EvenIsRegular ==
  ASSUME NEW n \in Nat \ {0}, NEW x \in [1 .. n -> Nat], NEW y, NEW s, NEW q,
         Totals(s, x, n), Totals(q, y, n), \A i \in 1 .. n : y[i] = x[i] * x[i],
         0 <= s[n], \A i, j \in 1 .. n : Near(n, s[n], x[i], x[j])
  PROVE  Steady(n, s[n], q[n])
<1>0. PICK cv \in Nat : cv = MaxCv
  BY BeaconAssumption
<1>1. PICK c \in Int : c = s[n]
  BY DEF Totals
<1>2. PICK r \in Int : r = q[n]
  BY DEF Totals
<1>3. PICK i, j \in 1 .. n : \A k \in 1 .. n : x[i] <= x[k] /\ x[k] <= x[j]
  BY Extremes
<1>4. PICK lo \in Nat, hi \in Nat : lo = x[i] /\ hi = x[j]
  OBVIOUS
<1>5. PICK w \in Nat : w = n * (hi - lo)
  <2>1. PICK d \in Nat : d = hi - lo
    BY <1>3, <1>4
  <2>2. n * d \in Nat
    BY <2>1, Product
  <2> QED
    BY <2>1, <2>2
<1>6. PICK e \in Nat : e = cv * c
  BY <1>1, Product
<1>7. 50 * w <= e
  <2>1. 100 * n * (hi - lo) <= 2 * cv * c
    <3>1. Near(n, s[n], x[j], x[i])
      OBVIOUS
    <3>2. Near(n, c, hi, lo)
      BY <1>1, <1>4, <3>1, Zenon
    <3> QED
      BY <1>0, <3>2 DEF Near
  <2>2. 100 * n * (hi - lo) = 100 * (n * (hi - lo)) /\ 2 * cv * c = 2 * (cv * c)
    OBVIOUS
  <2>3. 100 * w <= 2 * e
    BY <1>5, <1>6, <2>1, <2>2, Zenon
  <2> QED
    BY <2>3
<1>8. (50 * w) * (50 * w) <= e * e
  <2>1. PICK v \in Nat : v = 50 * w
    OBVIOUS
  <2>2. v * v <= e * e
    BY <1>7, <2>1, Square
  <2> QED
    BY <2>1, <2>2, Zenon
<1>9. 4 * (n * r - c * c) <= w * w
  <2>1. \A k \in 1 .. n : lo <= x[k] /\ x[k] <= hi
    BY <1>3, <1>4
  <2>2. 4 * (n * q[n] - s[n] * s[n]) <= (n * (hi - lo)) * (n * (hi - lo))
    BY <2>1, <1>4, WithinRange
  <2> QED
    BY <1>1, <1>2, <1>5, <2>2, Zenon
<1>10. 10000 * (n * r - c * c) <= e * e
  <2>1. PICK l \in Int, k \in Int : l = n * r - c * c /\ k = w * w
    OBVIOUS
  <2>2. (50 * w) * (50 * w) = 2500 * (w * w)
    OBVIOUS
  <2>3. 2500 * k <= e * e
    BY <1>8, <2>1, <2>2
  <2>4. 4 * l <= k
    BY <1>9, <2>1
  <2>5. 10000 * l <= e * e
    BY <2>3, <2>4
  <2> QED
    BY <2>1, <2>5
<1>11. (cv * c) * (cv * c) = cv * cv * c * c
  OBVIOUS
<1>12. 10000 * (n * r - c * c) <= cv * cv * c * c
  BY <1>10, <1>11, <1>6
<1>13. Steady(n, c, r)
  BY <1>0, <1>12 DEF Steady
<1> QED
  BY <1>1, <1>2, <1>13, Zenon

\* Of regular intervals none is far off the mean.
LEMMA RegularIsEven ==
  ASSUME NEW n \in Nat, NEW c \in Int, NEW r \in Int, NEW t \in Int,
         Steady(n, c, r), Deviates(n, c, r, t)
  PROVE  Close(n, c, t)
<1>0. PICK cv \in Nat : cv = MaxCv
  BY BeaconAssumption
<1>1. PICK u \in Int : u = n * r - c * c
  OBVIOUS
<1>2. PICK z \in Int : z = cv * cv * c * c
  OBVIOUS
<1>3. PICK v \in Int : v = (n * t - c) * (n * t - c)
  OBVIOUS
<1>4. 10000 * u <= z /\ v <= n * u
  BY <1>0, <1>1, <1>2, <1>3 DEF Off, Steady, Deviates
<1>5. n * (10000 * u) <= n * z
  <2>1. PICK d \in Int : d = z - 10000 * u
    OBVIOUS
  <2>2. n * d \in Nat
    BY <1>4, <2>1, Product
  <2>3. n * (z - 10000 * u) = n * z - n * (10000 * u)
    OBVIOUS
  <2> QED
    BY <2>1, <2>2, <2>3
<1>6. n * (10000 * u) = 10000 * (n * u) /\ n * (cv * cv * c * c) = n * cv * cv * c * c
      /\ 10000 * (n * t - c) * (n * t - c) = 10000 * ((n * t - c) * (n * t - c))
  OBVIOUS
<1>7. PICK a \in Int, b \in Int : a = n * u /\ b = n * z
  OBVIOUS
<1>8. 10000 * a <= b
  BY <1>5, <1>6, <1>7
<1>9. 10000 * v <= b
  BY <1>4, <1>7, <1>8
<1>10. 10000 * (n * t - c) * (n * t - c) <= n * cv * cv * c * c
  BY <1>2, <1>3, <1>6, <1>7, <1>9
<1> QED
  BY <1>0, <1>10 DEF Close

-----------------------------------------------------------------------------
(***************************************************************************)
(* Timestamps in order, and the intervals between them                     *)
(***************************************************************************)
Increasing(w) == \A i, j \in 1 .. Len(w) : i < j => w[i] < w[j]

Stamps == {w \in Seq(Nat) : w # <<>> /\ Increasing(w)}

TimesOf(w) == {w[i] : i \in 1 .. Len(w)}

\* The least and the greatest of a set are its minimum and its maximum.
LEMMA LeastIsMin ==
  ASSUME NEW S \in SUBSET Nat, NEW m \in S
  PROVE  /\ (\A y \in S : m <= y) => Beacon!Min(S) = m
         /\ (\A y \in S : y <= m) => Beacon!Max(S) = m
<1>1. ASSUME \A y \in S : m <= y PROVE Beacon!Min(S) = m
  <2>1. \A x \in S : (\A y \in S : x <= y) => x = m
    BY <1>1
  <2>2. \E x \in S : \A y \in S : x <= y
    BY <1>1
  <2> QED
    BY <2>1, <2>2 DEF Beacon!Min
<1>2. ASSUME \A y \in S : y <= m PROVE Beacon!Max(S) = m
  <2>1. \A x \in S : (\A y \in S : x >= y) => x = m
    BY <1>2
  <2>2. \E x \in S : \A y \in S : x >= y
    BY <1>2
  <2> QED
    BY <2>1, <2>2 DEF Beacon!Max
<1> QED
  BY <1>1, <1>2

\* Places of a list of times in order are as many as the times at them.
LEMMA TimesCounted ==
  ASSUME NEW w \in Stamps, NEW a \in 1 .. Len(w) + 1, NEW b \in 0 .. Len(w), a <= b + 1
  PROVE  /\ IsFiniteSet({w[i] : i \in a .. b})
         /\ Cardinality({w[i] : i \in a .. b}) = b - a + 1
<1> DEFINE P == a .. b
           S == {w[i] : i \in P}
           f == [i \in P |-> w[i]]
<1>1. P \subseteq 1 .. Len(w) /\ a \in Int /\ b \in Int /\ Len(w) \in Nat
  BY DEF Stamps
<1>2. f \in Bijection(P, S)
  <2>1. f \in [P -> S] /\ \A y \in S : \E i \in P : f[i] = y
    OBVIOUS
  <2>2. ASSUME NEW i \in P, NEW j \in P, f[i] = f[j] PROVE i = j
    <3>1. i \in 1 .. Len(w) /\ j \in 1 .. Len(w) /\ w[i] = w[j]
      BY <1>1, <2>2
    <3>2. ~ (w[i] < w[j]) /\ ~ (w[j] < w[i])
      BY <3>1 DEF Stamps
    <3> QED
      BY <3>1, <3>2 DEF Stamps, Increasing
  <2> QED
    BY <2>1, <2>2 DEF Bijection, Injection, Surjection, IsInjective
<1>3. IsFiniteSet(P) /\ Cardinality(P) = IF a > b THEN 0 ELSE b - a + 1
  BY <1>1, FS_Interval
<1>4. ExistsBijection(P, S)
  BY <1>2 DEF ExistsBijection
<1> HIDE DEF P, S
<1>5. IsFiniteSet(S) /\ Cardinality(S) = Cardinality(P)
  BY <1>3, <1>4, FS_Bijection
<1> QED
  BY <1>1, <1>3, <1>5 DEF S, P

LEMMA SameCount == ASSUME NEW S PROVE Beacon!Cardinality(S) = Cardinality(S)
BY DEF Beacon!Cardinality, Cardinality

\* What the times of a list in order have between them.
LEMMA GapsRead ==
  ASSUME NEW w \in Stamps, NEW m \in Nat, m + 1 = Len(w)
  PROVE  /\ Beacon!Gaps(TimesOf(w)) = {w[i] : i \in 1 .. m}
         /\ \A i \in 1 .. m : Beacon!GapAfter(TimesOf(w), w[i]) = w[i + 1] - w[i]
         /\ Beacon!Cardinality(Beacon!Gaps(TimesOf(w))) = m
         /\ Beacon!Length(TimesOf(w)) = w[m + 1] - w[1]
<1> DEFINE R == TimesOf(w)
<1>1. /\ w \in Seq(Nat) /\ \A i \in 1 .. m + 1 : w[i] \in Nat
      /\ \A i, j \in 1 .. m + 1 : i < j => w[i] < w[j]
  BY DEF Stamps, Increasing
<1>2. R = {w[i] : i \in 1 .. m + 1} /\ R \subseteq Nat
  BY <1>1 DEF TimesOf
<1>3. Beacon!Gaps(R) = {w[i] : i \in 1 .. m}
  <2>1. ASSUME NEW i \in 1 .. m PROVE w[i] \in Beacon!Gaps(R)
    <3>1. w[i] \in R /\ w[i + 1] \in R /\ w[i + 1] > w[i]
      BY <1>1, <1>2
    <3> QED
      BY <3>1 DEF Beacon!Gaps
  <2>2. ASSUME NEW t \in Beacon!Gaps(R) PROVE \E i \in 1 .. m : t = w[i]
    <3>1. PICK i \in 1 .. m + 1, j \in 1 .. m + 1 : t = w[i] /\ w[j] > w[i]
      BY <1>2 DEF Beacon!Gaps
    <3>2. i # m + 1
      BY <1>1, <3>1
    <3> QED
      BY <3>1, <3>2
  <2> QED
    BY <2>1, <2>2
<1>4. ASSUME NEW i \in 1 .. m PROVE Beacon!GapAfter(R, w[i]) = w[i + 1] - w[i]
  <2> DEFINE U == {u \in R : u > w[i]}
  <2>1. w[i + 1] \in U
    <3>1. w[i + 1] \in R /\ w[i + 1] > w[i]
      BY <1>1, <1>2
    <3> QED
      BY <3>1
  <2>2. ASSUME NEW u \in U PROVE w[i + 1] <= u
    <3>1. PICK j \in 1 .. m + 1 : u = w[j] /\ w[j] > w[i]
      BY <1>2
    <3>2. i < j
      BY <1>1, <3>1
    <3>3. j = i + 1 \/ i + 1 < j
      BY <3>2
    <3> QED
      BY <1>1, <3>1, <3>3
  <2>3. U \subseteq Nat
    BY <1>2
  <2>4. Beacon!Min(U) = w[i + 1]
    <3> HIDE DEF U
    <3> QED
      BY <2>1, <2>2, <2>3, LeastIsMin
  <2> QED
    BY <2>4, Zenon DEF Beacon!GapAfter
<1>5. Beacon!Cardinality({w[i] : i \in 1 .. m}) = m
  <2>1. 1 \in 1 .. Len(w) + 1 /\ m \in 0 .. Len(w) /\ 1 <= m + 1
    OBVIOUS
  <2>2. Cardinality({w[i] : i \in 1 .. m}) = m - 1 + 1
    BY <2>1, TimesCounted
  <2> QED
    BY <2>2, SameCount
<1>6. Beacon!Length(R) = w[m + 1] - w[1]
  <2>1. w[1] \in R /\ w[m + 1] \in R
    BY <1>2
  <2>2. ASSUME NEW u \in R PROVE w[1] <= u /\ u <= w[m + 1]
    <3>1. PICK j \in 1 .. m + 1 : u = w[j]
      BY <1>2
    <3> QED
      BY <1>1, <3>1
  <2>3. Beacon!Min(R) = w[1] /\ Beacon!Max(R) = w[m + 1]
    BY <1>2, <2>1, <2>2, LeastIsMin
  <2> QED
    BY <2>3, Zenon DEF Beacon!Length
<1> QED
  BY <1>3, <1>4, <1>5, <1>6

LEMMA Listed ==
  ASSUME NEW m \in Nat, NEW f \in [1 .. m -> Nat]
  PROVE  f \in Seq(Nat) /\ Len(f) = m
OBVIOUS

\* The differences of times in order add up to the last less the first.
LEMMA DifferencesSum ==
  ASSUME NEW w \in Stamps, NEW m \in Nat, m + 1 = Len(w), NEW x, NEW s, Totals(s, x, m),
         \A i \in 1 .. m : x[i] = w[i + 1] - w[i]
  PROVE  s[m] = w[m + 1] - w[1]
<1> DEFINE T == {i \in Nat : i <= m => s[i] = w[i + 1] - w[1]}
<1>1. \A i \in 1 .. m + 1 : w[i] \in Nat
  BY DEF Stamps
<1>2. 0 \in T
  BY <1>1 DEF Totals
<1>3. ASSUME NEW i \in Nat, i \in T PROVE i + 1 \in T
  <2>1. SUFFICES ASSUME i + 1 <= m PROVE s[i + 1] = w[i + 1 + 1] - w[1]
    OBVIOUS
  <2>2. s[i + 1] = s[i] + x[i + 1] /\ s[i] = w[i + 1] - w[1] /\ x[i + 1] = w[i + 1 + 1] - w[i + 1]
    BY <1>3, <2>1 DEF Totals
  <2>3. w[i + 1 + 1] \in Nat /\ w[i + 1] \in Nat /\ w[1] \in Nat
    BY <1>1, <2>1
  <2> QED
    BY <2>2, <2>3
<1>4. m \in T
  <2> HIDE DEF T
  <2> QED
    BY <1>2, <1>3, SetInduction
<1> QED
  BY <1>4

\* What evaluate_intervals computes from times in order: m intervals x, of sum
\* s[m] and sum of squares q[m].
Evaluated(w, m, x, y, s, q) ==
  /\ x \in [1 .. m -> Nat] /\ Totals(s, x, m) /\ Totals(q, y, m)
  /\ \A i \in 1 .. m : y[i] = x[i] * x[i]
  /\ \A i \in 1 .. m : x[i] = w[i + 1] - w[i]
  /\ s[m] = w[m + 1] - w[1]
  /\ Beacon!Periodic(w) <=> m >= MinSamples /\ s[m] >= MinInterval * m /\ Steady(m, s[m], q[m])

LEMMA PeriodicRead ==
  ASSUME NEW w \in Stamps, NEW m \in Nat, m + 1 = Len(w)
  PROVE  \E x, y, s, q : Evaluated(w, m, x, y, s, q)
<1>1. ASSUME NEW i \in 1 .. m PROVE w[i] \in Nat /\ w[i + 1] \in Nat /\ w[i] < w[i + 1]
  <2>1. i \in 1 .. Len(w) /\ i + 1 \in 1 .. Len(w) /\ i < i + 1
    OBVIOUS
  <2>2. w \in Seq(Nat) /\ Increasing(w)
    BY DEF Stamps
  <2> QED
    BY <2>1, <2>2 DEF Increasing
<1>2. PICK x : x = Beacon!Deltas(w)
  OBVIOUS
<1>3. x \in [1 .. m -> Nat] /\ \A i \in 1 .. m : x[i] = w[i + 1] - w[i]
  <2>1. x = [i \in 1 .. m |-> Beacon!SatSub(w[i + 1], w[i])]
    <3>1. m = Len(w) - 1
      OBVIOUS
    <3> QED
      BY <1>2, <3>1 DEF Beacon!Deltas
  <2>2. ASSUME NEW i \in 1 .. m PROVE Beacon!SatSub(w[i + 1], w[i]) = w[i + 1] - w[i]
    BY <1>1 DEF Beacon!SatSub
  <2>3. \A i \in 1 .. m : w[i + 1] - w[i] \in Nat
    BY <1>1
  <2> QED
    BY <2>1, <2>2, <2>3
<1>4. x \in Seq(Nat) /\ Len(x) = m
  BY <1>3, Listed
<1>5. PICK y : y = [i \in 1 .. Len(x) |-> x[i] * x[i]]
  OBVIOUS
<1>6. y \in [1 .. m -> Nat] /\ \A i \in 1 .. m : y[i] = x[i] * x[i]
  <2>1. \A i \in 1 .. m : x[i] * x[i] \in Nat
    BY <1>3, Square
  <2> QED
    BY <1>4, <1>5, <2>1
<1>7. y \in Seq(Nat) /\ Len(y) = m
  BY <1>6, Listed
<1>8. PICK s : Totals(s, x, m) /\ Beacon!Sum(x) = s[m]
  BY <1>4, SumUnfolds
<1>9. PICK q : Totals(q, y, m) /\ Beacon!Sum(y) = q[m]
  BY <1>7, SumUnfolds
<1>10. s[m] = w[m + 1] - w[1]
  BY <1>3, <1>8, DifferencesSum
<1>11. Beacon!Spread(x) = m * q[m] - s[m] * s[m]
  <2>1. Beacon!Spread(x) = Len(x) * Beacon!Sum(y) - Beacon!Sum(x) * Beacon!Sum(x)
    BY <1>5, Zenon DEF Beacon!Spread
  <2> QED
    BY <1>4, <1>8, <1>9, <2>1, Zenon
<1>12. Beacon!Periodic(w) <=>
         /\ Len(x) >= MinSamples
         /\ Beacon!Sum(x) >= MinInterval * Len(x)
         /\ 10000 * Beacon!Spread(x) <= MaxCv * MaxCv * Beacon!Sum(x) * Beacon!Sum(x)
  BY <1>2 DEF Beacon!Periodic
<1>13. Beacon!Periodic(w) <=> m >= MinSamples /\ s[m] >= MinInterval * m /\ Steady(m, s[m], q[m])
  BY <1>4, <1>8, <1>11, <1>12 DEF Steady
<1>14. Evaluated(w, m, x, y, s, q)
  BY <1>3, <1>6, <1>8, <1>9, <1>10, <1>13 DEF Evaluated
<1> QED
  BY <1>14

\* What an alert says of the times at which its flow was heard, and what
\* promises one.
Regular(times) ==
  LET n == Beacon!Cardinality(Beacon!Gaps(times))
  IN  /\ Beacon!Judged(times)
      /\ \A t \in Beacon!Gaps(times) :
           LET off == n * Beacon!GapAfter(times, t) - Beacon!Length(times)
           IN  10000 * off * off <= n * MaxCv * MaxCv * Beacon!Length(times) * Beacon!Length(times)

Even(times) ==
  LET n == Beacon!Cardinality(Beacon!Gaps(times))
  IN  /\ Beacon!Judged(times)
      /\ \A t, u \in Beacon!Gaps(times) :
           100 * n * (Beacon!GapAfter(times, t) - Beacon!GapAfter(times, u)) <= 2 * MaxCv * Beacon!Length(times)

\* The same, of the intervals x, m in number and c in sum.
RegularOn(m, x, c) ==
  m >= MinSamples /\ c >= MinInterval * m /\ \A k \in 1 .. m : Close(m, c, x[k])

EvenOn(m, x, c) ==
  m >= MinSamples /\ c >= MinInterval * m /\ \A i, j \in 1 .. m : Near(m, c, x[i], x[j])

LEMMA ReadOnTimes ==
  ASSUME NEW w \in Stamps, NEW m \in Nat, m + 1 = Len(w), NEW x, NEW c,
         \A i \in 1 .. m : x[i] = w[i + 1] - w[i], c = w[m + 1] - w[1]
  PROVE  /\ Regular(TimesOf(w)) <=> RegularOn(m, x, c)
         /\ Even(TimesOf(w)) <=> EvenOn(m, x, c)
<1>1. PICK R, G : R = TimesOf(w) /\ G = {w[i] : i \in 1 .. m}
  OBVIOUS
<1>2. Beacon!Gaps(R) = G /\ Beacon!Cardinality(G) = m /\ Beacon!Length(R) = c
  BY <1>1, GapsRead
<1>3. \A i \in 1 .. m : Beacon!GapAfter(R, w[i]) = x[i]
  BY <1>1, GapsRead
<1>4. Beacon!Judged(R) <=> m >= MinSamples /\ c >= MinInterval * m
  BY <1>2, Zenon DEF Beacon!Judged
<1>5. Regular(R) <=>
        m >= MinSamples /\ c >= MinInterval * m /\ \A t \in G : Close(m, c, Beacon!GapAfter(R, t))
  BY <1>2, <1>4 DEF Regular, Close
<1>6. Even(R) <=>
        /\ m >= MinSamples /\ c >= MinInterval * m
        /\ \A t, u \in G : Near(m, c, Beacon!GapAfter(R, t), Beacon!GapAfter(R, u))
  BY <1>2, <1>4 DEF Even, Near
<1>7. (\A t \in G : Close(m, c, Beacon!GapAfter(R, t))) <=> \A k \in 1 .. m : Close(m, c, x[k])
  BY <1>1, <1>3, Zenon
<1>8. (\A t, u \in G : Near(m, c, Beacon!GapAfter(R, t), Beacon!GapAfter(R, u)))
        <=> \A i, j \in 1 .. m : Near(m, c, x[i], x[j])
  <2>1. ASSUME \A t, u \in G : Near(m, c, Beacon!GapAfter(R, t), Beacon!GapAfter(R, u)),
               NEW i \in 1 .. m, NEW j \in 1 .. m
        PROVE  Near(m, c, x[i], x[j])
    <3>1. w[i] \in G /\ w[j] \in G
      BY <1>1
    <3> QED
      BY <1>3, <2>1, <3>1, Zenon
  <2>2. ASSUME \A i, j \in 1 .. m : Near(m, c, x[i], x[j]), NEW t \in G, NEW u \in G
        PROVE  Near(m, c, Beacon!GapAfter(R, t), Beacon!GapAfter(R, u))
    <3>1. PICK i \in 1 .. m : t = w[i]
      BY <1>1
    <3>2. PICK j \in 1 .. m : u = w[j]
      BY <1>1
    <3> QED
      BY <1>3, <2>2, <3>1, <3>2, Zenon
  <2> QED
    BY <2>1, <2>2
<1>9. Regular(R) <=> RegularOn(m, x, c)
  BY <1>5, <1>7 DEF RegularOn
<1>10. Even(R) <=> EvenOn(m, x, c)
  BY <1>6, <1>8 DEF EvenOn
<1> QED
  BY <1>1, <1>9, <1>10

\* The rule's test holds of times that are even, and makes sure that they are
\* regular.
LEMMA PeriodicTimes ==
  ASSUME NEW w \in Stamps
  PROVE  /\ Beacon!Periodic(w) => Regular(TimesOf(w))
         /\ Even(TimesOf(w)) => Beacon!Periodic(w)
<1>1. PICK m \in Nat : m + 1 = Len(w)
  <2>1. Len(w) \in Nat /\ Len(w) # 0
    BY DEF Stamps
  <2>2. Len(w) - 1 \in Nat /\ (Len(w) - 1) + 1 = Len(w)
    BY <2>1
  <2> QED
    BY <2>2
<1>2. PICK x, y, s, q : Evaluated(w, m, x, y, s, q)
  BY <1>1, PeriodicRead
<1>3. /\ x \in [1 .. m -> Nat] /\ Totals(s, x, m) /\ Totals(q, y, m)
      /\ \A i \in 1 .. m : y[i] = x[i] * x[i]
      /\ \A i \in 1 .. m : x[i] = w[i + 1] - w[i]
      /\ s[m] = w[m + 1] - w[1]
  BY <1>2 DEF Evaluated
<1>4. PICK c \in Int : c = s[m]
  BY <1>1, <1>3 DEF Totals
<1>5. PICK r \in Int : r = q[m]
  BY <1>1, <1>3 DEF Totals
<1>6. /\ Regular(TimesOf(w)) <=> RegularOn(m, x, c)
      /\ Even(TimesOf(w)) <=> EvenOn(m, x, c)
  <2>1. m \in Nat /\ c = w[m + 1] - w[1] /\ \A i \in 1 .. m : x[i] = w[i + 1] - w[i]
    BY <1>1, <1>3, <1>4
  <2> QED
    BY <1>1, <2>1, ReadOnTimes
<1>7. Beacon!Periodic(w) <=> m >= MinSamples /\ c >= MinInterval * m /\ Steady(m, c, r)
  BY <1>2, <1>4, <1>5 DEF Evaluated
<1>8. ASSUME Beacon!Periodic(w) PROVE RegularOn(m, x, c)
  <2>1. \A k \in 1 .. m : Deviates(m, s[m], q[m], x[k])
    BY <1>1, <1>3, TermDeviates
  <2>2. ASSUME NEW k \in 1 .. m PROVE Close(m, c, x[k])
    <3>1. PICK t \in Int : t = x[k]
      BY <1>3
    <3>2. Steady(m, c, r) /\ Deviates(m, c, r, t)
      BY <1>4, <1>5, <1>7, <1>8, <2>1, <3>1
    <3>3. Close(m, c, t)
      BY <1>1, <1>4, <1>5, <3>1, <3>2, RegularIsEven
    <3> QED
      BY <3>1, <3>3
  <2> QED
    BY <1>7, <1>8, <2>2 DEF RegularOn
<1>9. ASSUME EvenOn(m, x, c) PROVE Beacon!Periodic(w)
  <2>1. m \in Nat \ {0} /\ 0 <= c
    <3>1. m # 0
      BY <1>9, BeaconAssumption DEF EvenOn
    <3>2. PICK a \in Nat : a = MinInterval * m
      BY <1>1, BeaconAssumption, Product
    <3>3. c >= a
      BY <1>9, <3>2 DEF EvenOn
    <3> QED
      BY <1>1, <1>4, <3>1, <3>2, <3>3
  <2>2. 0 <= s[m] /\ \A i, j \in 1 .. m : Near(m, s[m], x[i], x[j])
    BY <1>4, <1>9, <2>1 DEF EvenOn
  <2>3. Steady(m, s[m], q[m])
    BY <1>3, <2>1, <2>2, EvenIsRegular
  <2> QED
    BY <1>4, <1>5, <1>7, <1>9, <2>3 DEF EvenOn
<1> QED
  BY <1>6, <1>8, <1>9

-----------------------------------------------------------------------------
(***************************************************************************)
(* The timestamps on record are the latest times                           *)
(***************************************************************************)
Latest(times) == {t \in times : Cardinality({u \in times : u > t}) < MaxStamps}

\* What the rule has on record of the times at which a flow was heard.
OnRecord(times, w) ==
  /\ w \in Stamps /\ Len(w) <= MaxStamps
  /\ TimesOf(w) \subseteq times
  /\ \A t \in times : t \in TimesOf(w) \/ (t < w[1] /\ Len(w) = MaxStamps)

LEMMA RecordIsLatest ==
  ASSUME NEW times \in SUBSET (0 .. MaxTime), NEW w, OnRecord(times, w)
  PROVE  Latest(times) = TimesOf(w)
<1>1. /\ w \in Stamps /\ Len(w) <= MaxStamps /\ TimesOf(w) \subseteq times
      /\ \A t \in times : t \in TimesOf(w) \/ (t < w[1] /\ Len(w) = MaxStamps)
  BY DEF OnRecord
<1>2. PICK n \in Nat : n = Len(w) /\ n # 0
  BY <1>1 DEF Stamps
<1>3. /\ \A i \in 1 .. n : w[i] \in Nat
      /\ \A i, j \in 1 .. n : i < j => w[i] < w[j]
      /\ TimesOf(w) = {w[i] : i \in 1 .. n}
  BY <1>1, <1>2 DEF Stamps, Increasing, TimesOf
<1>4. MaxTime \in Nat /\ MaxStamps \in Nat
  BY BoundsAssumption, BeaconAssumption
<1>5. ASSUME NEW t \in TimesOf(w) PROVE t \in Latest(times)
  <2>1. PICK i \in 1 .. n : t = w[i]
    BY <1>3
  <2>2. {u \in times : u > t} = {w[j] : j \in i + 1 .. n}
    <3>1. ASSUME NEW u \in times, u > t PROVE \E j \in i + 1 .. n : u = w[j]
      <4>1. ~ (u < w[1])
        BY <1>2, <1>3, <2>1, <3>1
      <4>2. PICK j \in 1 .. n : u = w[j]
        BY <1>1, <1>3, <4>1
      <4>3. i < j
        BY <1>3, <2>1, <3>1, <4>2
      <4> QED
        BY <4>2, <4>3
    <3>2. ASSUME NEW j \in i + 1 .. n PROVE w[j] \in times /\ w[j] > t
      <4>1. j \in 1 .. n /\ i < j
        OBVIOUS
      <4> QED
        BY <1>1, <1>3, <2>1, <4>1
    <3> QED
      BY <3>1, <3>2
  <2>3. Cardinality({w[j] : j \in i + 1 .. n}) = n - (i + 1) + 1
    <3>1. i + 1 \in 1 .. Len(w) + 1 /\ n \in 0 .. Len(w) /\ i + 1 <= n + 1
      BY <1>2
    <3> QED
      BY <1>1, <3>1, TimesCounted
  <2>4. n - (i + 1) + 1 < MaxStamps
    BY <1>1, <1>2, <1>4
  <2>5. Cardinality({u \in times : u > t}) < MaxStamps
    BY <2>2, <2>3, <2>4
  <2> QED
    BY <1>1, <2>5 DEF Latest
<1>6. ASSUME NEW t \in times, t \notin TimesOf(w) PROVE t \notin Latest(times)
  <2>1. t < w[1] /\ n = MaxStamps
    BY <1>1, <1>2, <1>6
  <2> DEFINE U == {u \in times : u > t}
  <2>2. TimesOf(w) \subseteq U
    <3>1. ASSUME NEW i \in 1 .. n PROVE w[i] \in U
      <4>1. i = 1 \/ 1 < i
        OBVIOUS
      <4>2. w[i] >= w[1] /\ w[i] \in Nat /\ w[1] \in Nat
        BY <1>2, <1>3, <4>1
      <4>3. w[i] > t
        BY <2>1, <4>2
      <4> QED
        BY <1>1, <1>3, <4>3
    <3> QED
      BY <1>3, <3>1
  <2>3. IsFiniteSet(0 .. MaxTime)
    BY <1>4, FS_Interval
  <2>4. U \in SUBSET (0 .. MaxTime)
    OBVIOUS
  <2>5. IsFiniteSet(U)
    BY <2>3, <2>4, FS_Subset
  <2>6. Cardinality(TimesOf(w)) = n
    <3>1. 1 \in 1 .. Len(w) + 1 /\ n \in 0 .. Len(w) /\ 1 <= n + 1
      BY <1>2
    <3>2. Cardinality({w[i] : i \in 1 .. n}) = n - 1 + 1
      BY <1>1, <3>1, TimesCounted
    <3> QED
      BY <1>3, <3>2
  <2>7. Cardinality(U) \in Nat
    BY <2>5, FS_CardinalityType
  <2>8. n <= Cardinality(U)
    <3> HIDE DEF U
    <3> QED
      BY <2>2, <2>5, <2>6, FS_Subset
  <2>9. ~ (Cardinality(U) < MaxStamps)
    BY <1>4, <2>1, <2>7, <2>8
  <2> QED
    BY <2>9 DEF Latest
<1>7. Latest(times) \subseteq times
  BY DEF Latest
<1> QED
  BY <1>1, <1>5, <1>6, <1>7

\* A timestamp is put on record: the window moves on with it.
LEMMA RecordMoves ==
  ASSUME NEW times \in SUBSET (0 .. MaxTime), NEW ts \in 0 .. MaxTime, \A t \in times : t <= ts,
         NEW old, (old = <<>> /\ times = {}) \/ OnRecord(times, old),
         NEW new, new = (IF old # <<>> /\ old[Len(old)] = ts THEN old ELSE Append(old, ts))
  PROVE  OnRecord(times \cup {ts}, IF Len(new) > MaxStamps THEN Tail(new) ELSE new)
<1>1. MaxTime \in Nat /\ MaxStamps \in Nat \ {0}
  BY BoundsAssumption, BeaconAssumption
<1>2. CASE old = <<>> /\ times = {}
  <2>1. new = <<ts>> /\ Len(new) = 1 /\ new[1] = ts /\ new \in Seq(Nat) /\ new # <<>>
    BY <1>2
  <2>2. TimesOf(new) = {ts}
    BY <2>1 DEF TimesOf
  <2>3. Increasing(new)
    BY <2>1 DEF Increasing
  <2>4. ~ (Len(new) > MaxStamps) /\ Len(new) <= MaxStamps
    BY <1>1, <2>1
  <2>5. OnRecord({ts}, new)
    BY <2>1, <2>2, <2>3, <2>4 DEF OnRecord, Stamps
  <2> QED
    BY <1>2, <2>4, <2>5
<1>3. CASE OnRecord(times, old)
  <2>1. /\ old \in Stamps /\ Len(old) <= MaxStamps /\ TimesOf(old) \subseteq times
        /\ \A t \in times : t \in TimesOf(old) \/ (t < old[1] /\ Len(old) = MaxStamps)
    BY <1>3 DEF OnRecord
  <2>2. PICK n \in Nat : n = Len(old) /\ n # 0
    BY <2>1 DEF Stamps
  <2>3. /\ old \in Seq(Nat) /\ old # <<>>
        /\ \A i \in 1 .. n : old[i] \in Nat /\ old[i] \in times
        /\ \A i, j \in 1 .. n : i < j => old[i] < old[j]
        /\ TimesOf(old) = {old[i] : i \in 1 .. n}
    BY <2>1, <2>2 DEF Stamps, Increasing, TimesOf
  <2>4. CASE old[n] = ts
    <3>1. new = old /\ ts \in times /\ ~ (Len(new) > MaxStamps)
      BY <1>1, <2>1, <2>2, <2>3, <2>4
    <3>2. times \cup {ts} = times
      BY <3>1
    <3> QED
      BY <1>3, <3>1, <3>2
  <2>5. CASE old[n] # ts
    <3>1. new = Append(old, ts)
      BY <2>2, <2>5
    <3>2. /\ new \in Seq(Nat) /\ new # <<>> /\ Len(new) = n + 1 /\ new[n + 1] = ts
          /\ \A i \in 1 .. n : new[i] = old[i]
      BY <2>2, <2>3, <3>1
    <3>3. \A i \in 1 .. n : old[i] < ts
      <4>1. old[n] < ts
        BY <2>2, <2>3, <2>5
      <4>2. \A i \in 1 .. n : i = n \/ i < n
        OBVIOUS
      <4> QED
        BY <2>2, <2>3, <4>1, <4>2
    <3>4. ASSUME NEW i \in 1 .. n + 1, NEW j \in 1 .. n + 1, i < j PROVE new[i] < new[j]
      <4>1. i \in 1 .. n /\ (j \in 1 .. n \/ j = n + 1)
        BY <3>4
      <4>2. CASE j \in 1 .. n
        BY <2>3, <3>2, <3>4, <4>1, <4>2
      <4>3. CASE j = n + 1
        BY <3>2, <3>3, <4>1, <4>3
      <4> QED
        BY <4>1, <4>2, <4>3
    <3>5. CASE n < MaxStamps
      <4>1. ~ (Len(new) > MaxStamps) /\ Len(new) <= MaxStamps
        BY <1>1, <3>2, <3>5
      <4>2. Increasing(new)
        BY <3>2, <3>4 DEF Increasing
      <4>3. \A t \in times : \E i \in 1 .. n : t = old[i]
        BY <2>1, <2>2, <2>3, <3>5
      <4>4. TimesOf(new) = times \cup {ts}
        <5>1. \A t \in times : t \in TimesOf(new)
          BY <3>2, <4>3 DEF TimesOf
        <5>2. ts \in TimesOf(new)
          BY <3>2 DEF TimesOf
        <5>3. ASSUME NEW t \in TimesOf(new) PROVE t \in times \cup {ts}
          <6>1. PICK i \in 1 .. n + 1 : t = new[i]
            BY <3>2 DEF TimesOf
          <6>2. i \in 1 .. n \/ i = n + 1
            OBVIOUS
          <6> QED
            BY <2>3, <3>2, <6>1, <6>2
        <5> QED
          BY <5>1, <5>2, <5>3
      <4>5. OnRecord(times \cup {ts}, new)
        BY <3>2, <4>1, <4>2, <4>4 DEF OnRecord, Stamps
      <4> QED
        BY <4>1, <4>5
    <3>6. CASE n = MaxStamps
      <4>1. Len(new) > MaxStamps
        BY <1>1, <3>2, <3>6
      <4>2. PICK v : v = Tail(new)
        OBVIOUS
      <4>3. v \in Seq(Nat) /\ Len(v) = n /\ v # <<>> /\ \A i \in 1 .. n : v[i] = new[i + 1]
        BY <2>2, <3>2, <4>2
      <4>4. Increasing(v)
        <5>1. ASSUME NEW i \in 1 .. n, NEW j \in 1 .. n, i < j PROVE v[i] < v[j]
          <6>1. i + 1 \in 1 .. n + 1 /\ j + 1 \in 1 .. n + 1 /\ i + 1 < j + 1
            BY <5>1
          <6> QED
            BY <3>4, <4>3, <6>1
        <5> QED
          BY <4>3, <5>1 DEF Increasing
      <4>5. TimesOf(v) = {new[i + 1] : i \in 1 .. n}
        <5>1. TimesOf(v) = {v[i] : i \in 1 .. n}
          BY <4>3 DEF TimesOf
        <5>2. {v[i] : i \in 1 .. n} = {new[i + 1] : i \in 1 .. n}
          <6>1. \A i \in 1 .. n : v[i] = new[i + 1]
            BY <4>3
          <6> QED
            BY <6>1, Zenon
        <5> QED
          BY <5>1, <5>2
      <4>6. TimesOf(v) \subseteq times \cup {ts}
        <5>1. ASSUME NEW i \in 1 .. n PROVE new[i + 1] \in times \cup {ts}
          <6>1. i + 1 \in 1 .. n \/ i + 1 = n + 1
            OBVIOUS
          <6> QED
            BY <2>3, <3>2, <6>1
        <5> QED
          BY <4>5, <5>1
      <4>7. 1 \in 1 .. n + 1 /\ 2 \in 1 .. n + 1 /\ v[1] = new[2] /\ new[1] < new[2] /\ new[1] = old[1]
        BY <2>2, <3>2, <3>4, <4>3
      <4>8. ASSUME NEW t \in times \cup {ts} PROVE t \in TimesOf(v) \/ t < v[1]
        <5>1. CASE t \in times /\ t < old[1]
          <6>1. PICK a, b \in Nat : a = old[1] /\ b = v[1] /\ a < b
            BY <2>2, <2>3, <4>3, <4>7
          <6>2. t < b
            BY <5>1, <6>1
          <6> QED
            BY <6>1, <6>2
        <5>2. CASE \E i \in 1 .. n : t = old[i]
          <6>1. PICK i \in 1 .. n : t = old[i]
            BY <5>2
          <6>2. CASE i = 1
            BY <4>7, <6>1, <6>2
          <6>3. CASE i # 1
            <7>1. i - 1 \in 1 .. n /\ (i - 1) + 1 = i /\ new[i] = t
              BY <3>2, <6>1, <6>3
            <7> QED
              BY <4>5, <7>1
          <6> QED
            BY <6>2, <6>3
        <5>3. CASE t = ts
          <6>1. n \in 1 .. n /\ new[n + 1] = t
            BY <2>2, <3>2, <5>3
          <6> QED
            BY <4>5, <6>1
        <5> QED
          BY <2>1, <2>3, <5>1, <5>2, <5>3
      <4>9. OnRecord(times \cup {ts}, v)
        BY <1>1, <3>6, <4>3, <4>4, <4>6, <4>8 DEF OnRecord, Stamps
      <4> QED
        BY <4>1, <4>2, <4>9
    <3> QED
      BY <1>1, <2>1, <2>2, <3>5, <3>6
  <2> QED
    BY <2>4, <2>5
<1> QED
  BY <1>2, <1>3

-----------------------------------------------------------------------------
(***************************************************************************)
(* Regular traffic                                                         *)
(***************************************************************************)
HeardAt(h, flow)     == {x[2] : x \in {y \in h : y[1] = flow}}
Times(h, flow, last) == {x[2] : x \in {y \in h : y[1] = flow /\ y[2] <= last}}

LEMMA RecentTimes ==
  ASSUME NEW flow, NEW last
  PROVE  Beacon!Recent(flow, last) = Latest(Times(heard, flow, last))
<1> DEFINE T == Times(heard, flow, last)
<1>1. Beacon!Recent(flow, last) = {t \in T : Beacon!Cardinality({u \in T : u > t}) < MaxStamps}
  BY DEF Beacon!Recent, Times
<1>2. \A t : Beacon!Cardinality({u \in T : u > t}) = Cardinality({u \in T : u > t})
  BY SameCount
<1> QED
  BY <1>1, <1>2 DEF Latest

BeaconFlow ==
  {<<p.src, p.dst, p.port>> : p \in UNION {Traffic[name].packets : name \in DOMAIN Traffic}}

\* What one more packet of a flow adds to the times heard.
OneHeard(h, g, flow, ts) ==
  /\ g \in SUBSET (BeaconFlow \X (0 .. MaxTime))
  /\ HeardAt(h, flow) \in SUBSET (0 .. MaxTime) /\ \A t \in HeardAt(h, flow) : t <= ts
  /\ HeardAt(g, flow) = HeardAt(h, flow) \cup {ts}
  /\ \A f : f # flow => HeardAt(g, f) = HeardAt(h, f)
  /\ Times(g, flow, ts) = HeardAt(g, flow)
  /\ \A f, t : <<f, t>> \in h => Times(g, f, t) = Times(h, f, t)

\* The times of a flow up to a packet of its own stay what they were.
LEMMA HeardMoves ==
  ASSUME NEW h \in SUBSET (BeaconFlow \X (0 .. MaxTime)),
         NEW flow \in BeaconFlow, NEW ts \in 0 .. MaxTime, \A y \in h : y[2] <= ts
  PROVE  OneHeard(h, h \cup {<<flow, ts>>}, flow, ts)
<1>0. PICK g : g = h \cup {<<flow, ts>>}
  OBVIOUS
<1>1. \A y \in h : y = <<y[1], y[2]>> /\ y[1] \in BeaconFlow /\ y[2] \in 0 .. MaxTime
  OBVIOUS
<1>2. PICK new : new = <<flow, ts>> /\ new[1] = flow /\ new[2] = ts
  <2>1. <<flow, ts>>[1] = flow /\ <<flow, ts>>[2] = ts
    OBVIOUS
  <2> QED
    BY <2>1, Zenon
<1>3. g = h \cup {new} /\ new \in BeaconFlow \X (0 .. MaxTime)
  BY <1>0, <1>2
<1>4. g \in SUBSET (BeaconFlow \X (0 .. MaxTime))
  BY <1>3
<1>5. HeardAt(h, flow) \in SUBSET (0 .. MaxTime) /\ \A t \in HeardAt(h, flow) : t <= ts
  BY <1>1 DEF HeardAt
<1>6. HeardAt(g, flow) = HeardAt(h, flow) \cup {ts}
  BY <1>2, <1>3 DEF HeardAt
<1>7. ASSUME NEW f, f # flow PROVE HeardAt(g, f) = HeardAt(h, f)
  <2>1. {y \in g : y[1] = f} = {y \in h : y[1] = f}
    BY <1>2, <1>3, <1>7
  <2> QED
    BY <2>1 DEF HeardAt
<1>8. Times(g, flow, ts) = HeardAt(g, flow)
  <2>1. \A y \in g : y[2] <= ts
    BY <1>2, <1>3
  <2>2. {y \in g : y[1] = flow /\ y[2] <= ts} = {y \in g : y[1] = flow}
    BY <2>1
  <2> QED
    BY <2>2 DEF HeardAt, Times
<1>9. ASSUME NEW f, NEW t, <<f, t>> \in h PROVE Times(g, f, t) = Times(h, f, t)
  <2>1. t \in 0 .. MaxTime /\ t <= ts
    BY <1>9
  <2>2. ASSUME new[1] = f, new[2] <= t PROVE new \in h
    BY <1>2, <1>9, <2>1, <2>2
  <2>3. {y \in g : y[1] = f /\ y[2] <= t} = {y \in h : y[1] = f /\ y[2] <= t}
    BY <1>3, <2>2
  <2> QED
    BY <2>3 DEF Times
<1>10. OneHeard(h, g, flow, ts)
  BY <1>4, <1>5, <1>6, <1>7, <1>8, <1>9 DEF OneHeard
<1> QED
  BY <1>0, <1>10

\* The rule keeps the latest times of every flow, none later than the clock t,
\* and has alerted those that passed its test.
WindowsKept(h, windows, known, t) ==
  /\ h \in SUBSET (BeaconFlow \X (0 .. MaxTime))
  /\ t \in 0 .. MaxTime /\ \A y \in h : y[2] <= t
  /\ \A f : f \in DOMAIN windows <=> \E y \in h : y[1] = f
  /\ \A f \in DOMAIN windows :
       OnRecord(HeardAt(h, f), windows[f]) /\ (f \in known \/ ~ Beacon!Periodic(windows[f]))

\* Every alert is of a packet fed, whose flow had been regular by then.
AlertsRegular(h, a) ==
  /\ a \in Seq(BeaconAlert)
  /\ \A i \in 1 .. Len(a) :
       <<a[i].flow, a[i].ts>> \in h /\ Regular(Latest(Times(h, a[i].flow, a[i].ts)))

LEMMA AlertsStep ==
  ASSUME NEW h \in SUBSET (BeaconFlow \X (0 .. MaxTime)), NEW a, AlertsRegular(h, a),
         NEW flow \in BeaconFlow, NEW ts \in 0 .. MaxTime, \A y \in h : y[2] <= ts,
         NEW g, g = h \cup {<<flow, ts>>},
         NEW b, b = a \/ /\ b = Append(a, [flow |-> flow, ts |-> ts])
                         /\ [flow |-> flow, ts |-> ts] \in BeaconAlert
                         /\ Regular(Latest(Times(g, flow, ts)))
  PROVE  AlertsRegular(g, b)
<1>1. \A f, t : <<f, t>> \in h => Times(g, f, t) = Times(h, f, t)
  <2>1. OneHeard(h, h \cup {<<flow, ts>>}, flow, ts)
    BY HeardMoves
  <2>2. OneHeard(h, g, flow, ts)
    BY <2>1, Zenon
  <2> QED
    BY <2>2, Zenon DEF OneHeard
<1>2. /\ a \in Seq(BeaconAlert)
      /\ \A i \in 1 .. Len(a) :
           <<a[i].flow, a[i].ts>> \in h /\ Regular(Latest(Times(h, a[i].flow, a[i].ts)))
  BY DEF AlertsRegular
<1>3. \A i \in 1 .. Len(a) :
        <<a[i].flow, a[i].ts>> \in g /\ Regular(Latest(Times(g, a[i].flow, a[i].ts)))
  <2> SUFFICES ASSUME NEW i \in 1 .. Len(a)
               PROVE  <<a[i].flow, a[i].ts>> \in g /\ Regular(Latest(Times(g, a[i].flow, a[i].ts)))
    OBVIOUS
  <2>1. PICK f, t : f = a[i].flow /\ t = a[i].ts
    OBVIOUS
  <2>2. <<f, t>> \in h /\ Regular(Latest(Times(h, f, t)))
    BY <1>2, <2>1
  <2>3. Times(g, f, t) = Times(h, f, t)
    BY <1>1, <2>2
  <2> QED
    BY <2>1, <2>2, <2>3
<1>4. CASE b = a
  BY <1>2, <1>3, <1>4 DEF AlertsRegular
<1>5. CASE /\ b = Append(a, [flow |-> flow, ts |-> ts])
           /\ [flow |-> flow, ts |-> ts] \in BeaconAlert
           /\ Regular(Latest(Times(g, flow, ts)))
  <2>1. PICK x \in BeaconAlert : x = [flow |-> flow, ts |-> ts]
    BY <1>5
  <2>2. x.flow = flow /\ x.ts = ts
    BY <2>1
  <2>3. PICK m \in Nat : m = Len(a)
    BY <1>2
  <2>4. b \in Seq(BeaconAlert) /\ Len(b) = m + 1 /\ b[m + 1] = x /\ \A i \in 1 .. m : b[i] = a[i]
    BY <1>2, <1>5, <2>1, <2>3
  <2>5. ASSUME NEW i \in 1 .. m + 1
        PROVE  <<b[i].flow, b[i].ts>> \in g /\ Regular(Latest(Times(g, b[i].flow, b[i].ts)))
    <3>1. CASE i \in 1 .. m
      BY <1>3, <2>3, <2>4, <3>1
    <3>2. CASE i = m + 1
      <4>1. b[i].flow = flow /\ b[i].ts = ts
        BY <2>2, <2>4, <3>2
      <4> QED
        BY <1>5, <4>1
    <3> QED
      BY <3>1, <3>2
  <2> QED
    BY <2>4, <2>5 DEF AlertsRegular
<1> QED
  BY <1>4, <1>5

BeaconInv ==
  WindowsKept(heard, flows, alerted_flows, now) /\ AlertsRegular(heard, beacon_alerts)

LEMMA RegularityStep ==
  ASSUME BeaconInv, NEW flow \in BeaconFlow, NEW ts \in 0 .. MaxTime,
         [flow |-> flow, ts |-> ts] \in BeaconAlert, now <= ts, now' = ts,
         Beacon!FeedFlow(flow, ts)
  PROVE  BeaconInv'
<1>1. WindowsKept(heard, flows, alerted_flows, now) /\ AlertsRegular(heard, beacon_alerts)
  BY DEF BeaconInv
<1>2. PICK h, windows, known, a, t :
        /\ h = heard /\ windows = flows /\ known = alerted_flows /\ a = beacon_alerts /\ t = now
  OBVIOUS
<1>3. PICK old : old = (IF flow \in DOMAIN windows THEN windows[flow] ELSE <<>>)
  OBVIOUS
<1>4. PICK new : new = (IF old # <<>> /\ old[Len(old)] = ts THEN old ELSE Append(old, ts))
  OBVIOUS
<1>5. PICK w : w = (IF Len(new) > MaxStamps THEN Tail(new) ELSE new)
  OBVIOUS
<1>6. Beacon!Stamped(flow, ts) = w
  BY <1>2, <1>3, <1>4, <1>5, Zenon DEF Beacon!Stamped
<1>7. PICK g, later, more, b :
        /\ g = h \cup {<<flow, ts>>}
        /\ later = [f \in DOMAIN windows \cup {flow} |-> IF f = flow THEN w ELSE windows[f]]
        /\ more = alerted_flows' /\ b = beacon_alerts'
  OBVIOUS
<1>8. heard' = g /\ flows' = later
  BY <1>2, <1>6, <1>7 DEF Beacon!FeedFlow
<1>9. \/ /\ Beacon!Periodic(w) /\ more = known \cup {flow} /\ b = Append(a, [flow |-> flow, ts |-> ts])
      \/ /\ flow \in known \/ ~ Beacon!Periodic(w)
         /\ more = known /\ b = a
  BY <1>2, <1>6, <1>7 DEF Beacon!FeedFlow, Beacon!Fires
<1>10. WindowsKept(h, windows, known, t) /\ AlertsRegular(h, a) /\ t <= ts
  BY <1>1, <1>2
<1>11. known \subseteq more /\ (flow \in more \/ ~ Beacon!Periodic(w))
  BY <1>9
<1>12. WindowsKept(g, later, more, ts) /\ w \in Stamps /\ Latest(Times(g, flow, ts)) = TimesOf(w)
  <2>1. /\ h \in SUBSET (BeaconFlow \X (0 .. MaxTime))
        /\ t \in 0 .. MaxTime /\ \A y \in h : y[2] <= t
        /\ \A f : f \in DOMAIN windows <=> \E y \in h : y[1] = f
        /\ \A f \in DOMAIN windows :
             OnRecord(HeardAt(h, f), windows[f]) /\ (f \in known \/ ~ Beacon!Periodic(windows[f]))
    BY <1>10 DEF WindowsKept
  <2>2. \A y \in h : y[2] <= ts
    <3>1. \A y \in h : y[2] \in 0 .. MaxTime
      BY <2>1
    <3> QED
      BY <1>10, <2>1, <3>1
  <2>3. /\ g \in SUBSET (BeaconFlow \X (0 .. MaxTime))
        /\ HeardAt(h, flow) \in SUBSET (0 .. MaxTime) /\ \A u \in HeardAt(h, flow) : u <= ts
        /\ HeardAt(g, flow) = HeardAt(h, flow) \cup {ts}
        /\ \A f : f # flow => HeardAt(g, f) = HeardAt(h, f)
        /\ Times(g, flow, ts) = HeardAt(g, flow)
    <3>1. OneHeard(h, h \cup {<<flow, ts>>}, flow, ts)
      BY <2>1, <2>2, HeardMoves
    <3>2. OneHeard(h, g, flow, ts)
      BY <1>7, <3>1, Zenon
    <3> QED
      BY <3>2, Zenon DEF OneHeard
  <2>4. (old = <<>> /\ HeardAt(h, flow) = {}) \/ OnRecord(HeardAt(h, flow), old)
    <3>1. CASE flow \in DOMAIN windows
      BY <1>3, <2>1, <3>1
    <3>2. CASE flow \notin DOMAIN windows
      <4>1. HeardAt(h, flow) = {}
        BY <2>1, <3>2 DEF HeardAt
      <4> QED
        BY <1>3, <3>2, <4>1
    <3> QED
      BY <3>1, <3>2
  <2>5. OnRecord(HeardAt(h, flow) \cup {ts}, w)
    BY <1>4, <1>5, <2>3, <2>4, RecordMoves
  <2>6. OnRecord(HeardAt(g, flow), w)
    BY <2>3, <2>5
  <2>7. Latest(HeardAt(g, flow)) = TimesOf(w)
    <3>1. HeardAt(g, flow) \in SUBSET (0 .. MaxTime)
      BY <2>3
    <3> QED
      BY <2>6, <3>1, RecordIsLatest
  <2>8. \A y \in g : y[2] <= ts
    BY <1>7, <2>2
  <2>9. \A f : f \in DOMAIN later <=> \E y \in g : y[1] = f
    <3>1. DOMAIN later = DOMAIN windows \cup {flow}
      BY <1>7
    <3>2. PICK y \in g : y = <<flow, ts>> /\ y[1] = flow
      <4>1. <<flow, ts>> \in g /\ <<flow, ts>>[1] = flow
        BY <1>7
      <4> QED
        BY <4>1, Zenon
    <3>3. g = h \cup {y}
      BY <1>7, <3>2
    <3> QED
      BY <2>1, <3>1, <3>2, <3>3
  <2>10. ASSUME NEW f \in DOMAIN later
         PROVE  OnRecord(HeardAt(g, f), later[f]) /\ (f \in more \/ ~ Beacon!Periodic(later[f]))
    <3>1. CASE f = flow
      BY <1>7, <1>11, <2>6, <3>1
    <3>2. CASE f # flow
      <4>1. f \in DOMAIN windows /\ later[f] = windows[f]
        BY <1>7, <3>2
      <4> QED
        BY <1>11, <2>1, <2>3, <3>2, <4>1
    <3> QED
      BY <3>1, <3>2
  <2>11. w \in Stamps
    BY <2>6 DEF OnRecord
  <2>12. WindowsKept(g, later, more, ts)
    BY <2>3, <2>8, <2>9, <2>10, Zenon DEF WindowsKept
  <2>13. Latest(Times(g, flow, ts)) = TimesOf(w)
    BY <2>3, <2>7
  <2> QED
    BY <2>11, <2>12, <2>13
<1>13. Beacon!Periodic(w) => Regular(Latest(Times(g, flow, ts)))
  BY <1>12, PeriodicTimes
<1>14. h \in SUBSET (BeaconFlow \X (0 .. MaxTime)) /\ \A y \in h : y[2] <= ts
  <2>1. /\ h \in SUBSET (BeaconFlow \X (0 .. MaxTime))
        /\ t \in 0 .. MaxTime /\ \A y \in h : y[2] <= t
    BY <1>10 DEF WindowsKept
  <2>2. \A y \in h : y[2] \in 0 .. MaxTime
    BY <2>1
  <2> QED
    BY <1>10, <2>1, <2>2
<1>15. AlertsRegular(g, b)
  BY <1>7, <1>9, <1>10, <1>13, <1>14, AlertsStep
<1> QED
  BY <1>7, <1>8, <1>12, <1>15 DEF BeaconInv

LEMMA RegularityInvariant == EngineSpec => []BeaconInv
<1>1. EngineInit => BeaconInv
  <2> SUFFICES ASSUME EngineInit PROVE BeaconInv
    OBVIOUS
  <2>1. heard = {} /\ DOMAIN flows = {} /\ alerted_flows = {} /\ now = 0 /\ 0 \in 0 .. MaxTime
    BY BoundsAssumption DEF EngineInit, Init, Beacon!Init
  <2>2. WindowsKept(heard, flows, alerted_flows, now)
    BY <2>1 DEF WindowsKept
  <2>3. AlertsRegular(heard, beacon_alerts)
    BY DEF EngineInit, Beacon!Init, AlertsRegular
  <2> QED
    BY <2>2, <2>3 DEF BeaconInv
<1>2. capture \in DOMAIN Traffic /\ BeaconInv /\ [EngineNext]_engine_vars => BeaconInv'
  <2> SUFFICES ASSUME capture \in DOMAIN Traffic, BeaconInv, [EngineNext]_engine_vars
               PROVE  BeaconInv'
    OBVIOUS
  <2>1. ASSUME NEW p \in Traffic[capture].packets, NEW ts \in Traffic[capture].times, Feed(p, ts)
        PROVE  BeaconInv'
    <3>1. ts \in 0 .. MaxTime
      BY PacketType
    <3>2. now <= ts /\ now' = ts
      BY <2>1 DEF Feed, Scanned, FeedSyn, FeedOther
    <3>3. CASE p.kind \in Flowing
      <4>1. <<p.src, p.dst, p.port>> \in BeaconFlow
        BY DEF BeaconFlow
      <4>2. [flow |-> <<p.src, p.dst, p.port>>, ts |-> ts] \in BeaconAlert
        BY DEF BeaconAlert
      <4>3. Beacon!FeedFlow(<<p.src, p.dst, p.port>>, ts)
        BY <2>1, <3>3 DEF Feed, Others
      <4> QED
        BY <3>1, <3>2, <4>1, <4>2, <4>3, RegularityStep
    <3>4. CASE p.kind \notin Flowing
      <4>1. /\ heard' = heard /\ flows' = flows
            /\ alerted_flows' = alerted_flows /\ beacon_alerts' = beacon_alerts
        BY <2>1, <3>4 DEF Feed, Others, beacon_vars
      <4>2. PICK h, windows, known, t :
              h = heard /\ windows = flows /\ known = alerted_flows /\ t = now
        OBVIOUS
      <4>3. WindowsKept(h, windows, known, t)
        BY <4>2 DEF BeaconInv
      <4>4. WindowsKept(h, windows, known, ts)
        <5>1. \A y \in h : y[2] <= ts
          <6>1. \A y \in h : y[2] \in 0 .. MaxTime /\ y[2] <= t
            BY <4>3 DEF WindowsKept
          <6>2. t \in 0 .. MaxTime /\ t <= ts
            BY <3>2, <4>2, <4>3 DEF WindowsKept
          <6> QED
            BY <3>1, <6>1, <6>2
        <5> QED
          BY <3>1, <4>3, <5>1 DEF WindowsKept
      <4>5. WindowsKept(heard', flows', alerted_flows', now')
        BY <3>2, <4>1, <4>2, <4>4, Zenon
      <4>6. AlertsRegular(heard', beacon_alerts')
        BY <4>1 DEF BeaconInv
      <4> QED
        BY <4>5, <4>6 DEF BeaconInv
    <3> QED
      BY <3>3, <3>4
  <2>2. CASE UNCHANGED engine_vars
    BY <2>2 DEF BeaconInv, engine_vars, vars, beacon_vars
  <2> QED
    BY <2>1, <2>2 DEF EngineNext
<1> QED
  BY <1>1, <1>2, CaptureKept, PTL DEF EngineSpec

\* Within the engine, an alert of a beacon is true: up to it the flow had been
\* heard often enough, and at regular intervals.
THEOREM EngineBeaconsSound == EngineSpec => []BeaconsSound
<1>1. BeaconInv => BeaconsSound
  <2> SUFFICES ASSUME BeaconInv PROVE BeaconsSound
    OBVIOUS
  <2>1. ASSUME NEW i \in 1 .. Len(beacon_alerts)
        PROVE  Regular(Beacon!Recent(beacon_alerts[i].flow, beacon_alerts[i].ts))
    <3>1. Regular(Latest(Times(heard, beacon_alerts[i].flow, beacon_alerts[i].ts)))
      BY DEF BeaconInv, AlertsRegular
    <3> QED
      BY <3>1, RecentTimes
  <2> QED
    BY <2>1 DEF BeaconsSound, Beacon!BeaconsSound, Regular
<1> QED
  BY <1>1, RegularityInvariant, PTL

\* Numbers up to a bound have a greatest.
LEMMA GreatestNumber ==
  ASSUME NEW n \in Nat, NEW S \in SUBSET (0 .. n), S # {}
  PROVE  \E m \in S : \A y \in S : y <= m
<1> DEFINE R == {n - y : y \in S}
<1>1. R \in SUBSET Nat /\ R # {}
  <2>1. \A y \in S : n - y \in Nat
    OBVIOUS
  <2>2. PICK y : y \in S
    OBVIOUS
  <2>3. n - y \in R
    BY <2>2
  <2> QED
    BY <2>1, <2>3
<1>2. PICK r \in R : \A x \in R : ~ (x < r)
  BY <1>1, LeastNumber
<1>3. PICK m \in S : r = n - m
  OBVIOUS
<1>4. ASSUME NEW y \in S PROVE y <= m
  <2>1. ~ (n - y < n - m)
    BY <1>2, <1>3
  <2> QED
    BY <2>1
<1> QED
  BY <1>4

\* Within the engine, a flow whose latest intervals are close to each other is
\* alerted, whatever it was like before.
THEOREM EngineReportsBeacons == EngineSpec => []BeaconsDetected
<1>1. BeaconInv => BeaconsDetected
  <2> SUFFICES ASSUME BeaconInv PROVE BeaconsDetected
    OBVIOUS
  <2> DEFINE all  == {h[2] : h \in heard}
             last == Beacon!Max(all)
  <2>1. ASSUME NEW flow \in DOMAIN flows, Even(Beacon!Recent(flow, last))
        PROVE  flow \in alerted_flows
    <3>1. /\ heard \in SUBSET (BeaconFlow \X (0 .. MaxTime))
          /\ \E y \in heard : y[1] = flow
          /\ OnRecord(HeardAt(heard, flow), flows[flow])
          /\ flow \in alerted_flows \/ ~ Beacon!Periodic(flows[flow])
      BY DEF BeaconInv, WindowsKept
    <3>2. all \in SUBSET (0 .. MaxTime) /\ all # {}
      BY <3>1
    <3>3. PICK m \in all : \A t \in all : t <= m
      <4> HIDE DEF all
      <4> QED
        BY <3>2, BoundsAssumption, GreatestNumber
    <3>4. last = m
      <4>1. all \in SUBSET Nat
        BY <3>2
      <4> HIDE DEF all
      <4>2. Beacon!Max(all) = m
        BY <3>3, <4>1, LeastIsMin
      <4> QED
        BY <4>2
    <3>5. Times(heard, flow, last) = HeardAt(heard, flow)
      <4>1. \A y \in heard : y[2] <= last
        BY <3>3, <3>4
      <4> HIDE DEF last
      <4>2. {y \in heard : y[1] = flow /\ y[2] <= last} = {y \in heard : y[1] = flow}
        BY <4>1
      <4> QED
        BY <4>2 DEF Times, HeardAt
    <3>6. HeardAt(heard, flow) \in SUBSET (0 .. MaxTime)
      BY <3>1 DEF HeardAt
    <3>7. Beacon!Recent(flow, last) = TimesOf(flows[flow])
      <4> HIDE DEF last
      <4>1. Latest(HeardAt(heard, flow)) = TimesOf(flows[flow])
        BY <3>1, <3>6, RecordIsLatest
      <4> QED
        BY <3>5, <4>1, RecentTimes
    <3>8. flows[flow] \in Stamps
      BY <3>1 DEF OnRecord
    <3>9. Even(TimesOf(flows[flow]))
      BY <2>1, <3>7, Zenon
    <3> QED
      BY <3>1, <3>8, <3>9, PeriodicTimes
  <2> QED
    BY <2>1 DEF BeaconsDetected, Beacon!BeaconsDetected, Even
<1> QED
  BY <1>1, RegularityInvariant, PTL
=============================================================================
