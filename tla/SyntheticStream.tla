--------------------------- MODULE SyntheticStream ---------------------------
(***************************************************************************)
(* The synthetic traffic of a capture without a file (api/src/main.rs,     *)
(* capture_start) as its beaconing rule sees it: seven kinds of packets in *)
(* turn, the fifth and sixth being the check-ins of a C2 beacon with a     *)
(* clock of its own.                                                       *)
(***************************************************************************)
EXTENDS BeaconingRule

CONSTANT MaxSteps   \* bound: packets of the stream

VARIABLE step       \* packets made so far

stream_vars == <<vars, step>>

\* The destination, by its name and port, of each kind of packet; the ICMP echo
\* has no port and is no flow.
Kinds ==
  [k \in 0 .. 6 |->
     CASE k = 0      -> <<"web", 443>>
       [] k = 1      -> <<"resolver", 53>>
       [] k = 2      -> <<"intranet", 80>>
       [] k = 3      -> <<"tunnel", 53>>
       [] k \in 4 .. 5 -> <<"c2", 8443>>
       [] OTHER      -> <<"ping", 0>>]

Beacon == Kinds[4]

\* Seconds after base_ts: the stream's clock, and the check-ins' own, 100
\* seconds later.
Timestamp(n) == IF n % 7 \in {4, 5} THEN 100 + (n \div 2) * 4 ELSE n * 2

StreamInit == Init /\ step = 0

\* One turn of the loop: craft a packet, decode it, feed the engine.
NextPacket ==
  /\ step < MaxSteps
  /\ step' = step + 1
  /\ IF step' % 7 = 6
       THEN UNCHANGED vars
       ELSE FeedFlow(Kinds[step' % 7], Timestamp(step'))

StreamSpec == StreamInit /\ [][NextPacket]_stream_vars

-----------------------------------------------------------------------------
\* The stream shows what it is for ("including C2 Beaconing ... alerts in real
\* time"): after MaxSteps packets its beacon has been alerted.
BeaconIsAlerted == step = MaxSteps => Beacon \in alerted_flows
=============================================================================
