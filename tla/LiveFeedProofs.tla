--------------------------- MODULE LiveFeedProofs ---------------------------
(***************************************************************************)
(* Proofs about LiveFeed for any number of clients and publishers, any     *)
(* channel and socket capacity, and any number of events.                  *)
(***************************************************************************)
EXTENDS LiveFeed, SequenceTheorems, FiniteSetTheorems, TLAPS

\* The parts of the state a session's contents depend on.
SessionType ==
  /\ feed \in Seq({"live", "analyze"})
  /\ pc \in [Clients -> {"none", "subscribed", "greet", "recv", "send", "ended"}]
  /\ open \in [Clients -> BOOLEAN]
  /\ pos \in [Clients -> Nat] /\ base \in [Clients -> Nat]
  /\ sock \in [Clients -> Seq(Nat)] /\ got \in [Clients -> Seq(Nat)]

\* What is handed over is the greeting and the events after base, one by one.
InOrder(h, b) ==
  /\ h # <<>> => h[1] = 0
  /\ \A i \in 2 .. Len(h) : h[i] = b + i - 1

\* How much was handed over at each point of the handler.
Progress(c) ==
  /\ InOrder(Handed(c), base[c])
  /\ open[c] /\ pc[c] \in {"subscribed", "greet"} =>
       Handed(c) = <<>> /\ pos[c] = base[c]
  /\ open[c] /\ pc[c] = "recv" =>
       Handed(c) # <<>> /\ base[c] + Len(Handed(c)) = pos[c] + 1
  /\ open[c] /\ pc[c] = "send" =>
       Handed(c) # <<>> /\ base[c] + Len(Handed(c)) = pos[c]
  /\ pc[c] = "none" => ~ open[c]

SessionInv == SessionType /\ \A c \in Clients : Progress(c)

-----------------------------------------------------------------------------
LEMMA HandedType ==
  ASSUME SessionType, NEW c \in Clients
  PROVE  Handed(c) \in Seq(Nat) /\ Len(Handed(c)) = Len(got[c]) + Len(sock[c])
BY DEF SessionType, Handed

\* Sending appends to what is handed over.
LEMMA HandedAppend ==
  ASSUME NEW g \in Seq(Nat), NEW s \in Seq(Nat), NEW m \in Nat
  PROVE  g \o Append(s, m) = Append(g \o s, m)
OBVIOUS

LEMMA Longer ==
  ASSUME NEW h \in Seq(Nat), NEW m \in Nat
  PROVE  Append(h, m) # <<>> /\ Len(Append(h, m)) = Len(h) + 1
OBVIOUS

\* Reading moves the first message over and hands over nothing.
LEMMA HandedRead ==
  ASSUME NEW g \in Seq(Nat), NEW s \in Seq(Nat), s # <<>>
  PROVE  Append(g, Head(s)) \o Tail(s) = g \o s
<1> DEFINE l == Append(g, Head(s)) \o Tail(s)
           r == g \o s
<1>1. /\ Len(s) > 0 /\ Len(s) \in Nat /\ Len(g) \in Nat
      /\ Tail(s) \in Seq(Nat) /\ Len(Tail(s)) = Len(s) - 1
      /\ \A i \in 1 .. Len(s) - 1 : Tail(s)[i] = s[i + 1]
      /\ Head(s) = s[1] /\ Head(s) \in Nat
  OBVIOUS
<1>2. Append(g, Head(s)) \in Seq(Nat) /\ Len(Append(g, Head(s))) = Len(g) + 1
  BY <1>1
<1>3. l \in Seq(Nat) /\ r \in Seq(Nat) /\ Len(l) = Len(r)
  BY <1>1, <1>2
<1>4. ASSUME NEW i \in 1 .. Len(l) PROVE l[i] = r[i]
  BY <1>1, <1>2, <1>4
<1> HIDE DEF l, r
<1>5. l = r
  BY <1>3, <1>4, SeqEqual
<1> QED
  BY <1>5 DEF l, r

\* A client whose own variables a step leaves alone keeps its progress.
LEMMA Untouched ==
  ASSUME NEW c \in Clients, Progress(c),
         pc'[c] = pc[c], pos'[c] = pos[c], base'[c] = base[c],
         open'[c] = open[c], sock'[c] = sock[c], got'[c] = got[c]
  PROVE  Progress(c)'
BY DEF Progress, InOrder, Handed

\* Appending the right message to what was handed over keeps it in order.
LEMMA InOrderAppend ==
  ASSUME NEW h \in Seq(Nat), NEW b \in Nat, NEW m \in Nat, InOrder(h, b),
         m = IF h = <<>> THEN 0 ELSE b + Len(h)
  PROVE  InOrder(Append(h, m), b)
<1> DEFINE a == Append(h, m)
<1>1. /\ Len(h) \in Nat /\ Len(a) = Len(h) + 1 /\ a[Len(h) + 1] = m
      /\ \A i \in 1 .. Len(h) : a[i] = h[i]
      /\ h # <<>> => Len(h) > 0
      /\ h = <<>> => Len(h) = 0
  OBVIOUS
<1> HIDE DEF a
<1>2. a[1] = 0
  BY <1>1 DEF InOrder
<1>3. ASSUME NEW i \in 2 .. Len(a) PROVE a[i] = b + i - 1
  <2>1. CASE i = Len(h) + 1
    BY <1>1, <2>1
  <2>2. CASE i # Len(h) + 1
    BY <1>1, <2>2 DEF InOrder
  <2> QED
    BY <2>1, <2>2
<1>4. InOrder(a, b)
  BY <1>2, <1>3 DEF InOrder
<1> QED
  BY <1>4 DEF a

\* A prefix of what was handed over in order is in order.
LEMMA InOrderPrefix ==
  ASSUME NEW g \in Seq(Nat), NEW s \in Seq(Nat), NEW b \in Nat, InOrder(g \o s, b)
  PROVE  InOrder(g \o <<>>, b)
<1> DEFINE h == g \o s
           k == g \o <<>>
<1>1. /\ Len(g) \in Nat /\ Len(s) \in Nat
      /\ Len(h) = Len(g) + Len(s)
      /\ \A i \in 1 .. Len(g) : h[i] = g[i]
      /\ k = g
      /\ g # <<>> => Len(g) > 0
      /\ Len(h) > 0 => h # <<>>
  OBVIOUS
<1> HIDE DEF h, k
<1>2. InOrder(h, b)
  BY DEF h
<1>3. InOrder(k, b)
  BY <1>1, <1>2 DEF InOrder
<1> QED
  BY <1>3 DEF k

-----------------------------------------------------------------------------
LEMMA SessionTypeStep == SessionType /\ [Next]_vars => SessionType'
<1> SUFFICES ASSUME SessionType, [Next]_vars PROVE SessionType'
  OBVIOUS
<1> USE DEF SessionType
<1>1. ASSUME NEW p \in Publishers, SendLive(p) PROVE SessionType'
  BY <1>1 DEF SendLive, clientVars
<1>2. ASSUME NEW p \in Publishers, CountLive(p) PROVE SessionType'
  BY <1>2 DEF CountLive, clientVars
<1>3. CASE SendAnalyzed
  BY <1>3 DEF SendAnalyzed, clientVars
<1>4. ASSUME NEW c \in Clients, Subscribe(c) PROVE SessionType'
  BY <1>4 DEF Subscribe, Published
<1>5. ASSUME NEW c \in Clients, ReadStats(c) PROVE SessionType'
  BY <1>5 DEF ReadStats
<1>6. ASSUME NEW c \in Clients, Greet(c) PROVE SessionType'
  BY <1>6 DEF Greet
<1>7. ASSUME NEW c \in Clients, Recv(c) PROVE SessionType'
  BY <1>7 DEF Recv
<1>8. ASSUME NEW c \in Clients, RecvLagged(c) PROVE SessionType'
  BY <1>8 DEF RecvLagged
<1>9. ASSUME NEW c \in Clients, Send(c) PROVE SessionType'
  BY <1>9 DEF Send
<1>10. ASSUME NEW c \in Clients, SendFails(c) PROVE SessionType'
  BY <1>10 DEF SendFails
<1>11. ASSUME NEW c \in Clients, Read(c) PROVE SessionType'
  BY <1>11 DEF Read
<1>12. ASSUME NEW c \in Clients, Leave(c) PROVE SessionType'
  BY <1>12 DEF Leave
<1>13. ASSUME NEW c \in Clients, Closed(c) PROVE SessionType'
  BY <1>13 DEF Closed
<1>14. ASSUME NEW c \in Clients, Reconnect(c) PROVE SessionType'
  BY <1>14 DEF Reconnect
<1>15. CASE UNCHANGED vars
  BY <1>15 DEF vars
<1> QED
  BY <1>1, <1>2, <1>3, <1>4, <1>5, <1>6, <1>7, <1>8, <1>9, <1>10, <1>11,
     <1>12, <1>13, <1>14, <1>15 DEF Next, HandlerStep

\* A step of a client's handler or browser keeps that client's progress.
LEMMA OwnStep ==
  ASSUME SessionType, NEW c \in Clients, Progress(c),
         Subscribe(c) \/ HandlerStep(c) \/ Read(c) \/ Leave(c) \/ Closed(c) \/ Reconnect(c)
  PROVE  Progress(c)'
<1>t. /\ Handed(c) \in Seq(Nat) /\ Len(Handed(c)) \in Nat
      /\ got[c] \in Seq(Nat) /\ sock[c] \in Seq(Nat)
      /\ pos[c] \in Nat /\ base[c] \in Nat /\ open[c] \in BOOLEAN
  BY HandedType DEF SessionType
<1>1. CASE Subscribe(c)
  <2>1. /\ sock'[c] = <<>> /\ got'[c] = <<>> /\ pc'[c] = "subscribed"
        /\ pos'[c] = Published /\ base'[c] = Published
    BY <1>1 DEF Subscribe, SessionType
  <2>2. Handed(c)' = <<>>
    BY <2>1 DEF Handed
  <2> QED
    BY <2>1, <2>2 DEF Progress, InOrder
<1>2. CASE ReadStats(c)
  <2>1. Handed(c)' = Handed(c) /\ pc[c] = "subscribed" /\ pc'[c] = "greet"
    BY <1>2 DEF ReadStats, Handed, SessionType
  <2> QED
    BY <1>2, <2>1 DEF ReadStats, Progress
<1>3. CASE Greet(c)
  <2>1. pc[c] = "greet" /\ pc'[c] = "recv" /\ UNCHANGED <<pos, base, open, got>>
    BY <1>3 DEF Greet, SessionType
  <2>2. CASE open[c]
    <3>1. sock'[c] = Append(sock[c], 0) /\ got'[c] = got[c]
      BY <1>3, <2>2 DEF Greet, SessionType
    <3>2. Handed(c)' = Append(Handed(c), 0)
      <4>0. 0 \in Nat
        OBVIOUS
      <4>1. got[c] \o Append(sock[c], 0) = Append(got[c] \o sock[c], 0)
        BY <1>t, <4>0, HandedAppend, Zenon
      <4>2. Handed(c)' = got[c] \o Append(sock[c], 0)
        BY <3>1, Zenon DEF Handed
      <4> QED
        BY <4>1, <4>2, Zenon DEF Handed
    <3>3. Handed(c) = <<>> /\ pos[c] = base[c]
      BY <2>1, <2>2 DEF Progress
    <3>4. InOrder(Handed(c)', base[c])
      BY <1>t, <3>2, <3>3, InOrderAppend DEF Progress
    <3>5. Handed(c)' # <<>> /\ Len(Handed(c)') = 1
      BY <3>2, <3>3
    <3> QED
      BY <1>t, <2>1, <2>2, <3>3, <3>4, <3>5 DEF Progress
  <2>3. CASE ~ open[c]
    <3>1. Handed(c)' = Handed(c)
      BY <1>3, <2>1, <2>3 DEF Greet, Handed, SessionType
    <3> QED
      BY <2>1, <2>3, <3>1 DEF Progress
  <2> QED
    BY <2>2, <2>3
<1>4. CASE Recv(c)
  <2>1. /\ pc[c] = "recv" /\ pc'[c] = "send" /\ pos'[c] = pos[c] + 1
        /\ base' = base /\ open' = open /\ Handed(c)' = Handed(c)
    BY <1>4 DEF Recv, Handed, SessionType
  <2> QED
    BY <1>t, <2>1 DEF Progress
<1>5. CASE RecvLagged(c)
  <2>1. /\ pc'[c] = "ended" /\ base' = base /\ Handed(c)' = Handed(c)
    BY <1>5 DEF RecvLagged, Handed, SessionType
  <2> QED
    BY <2>1 DEF Progress
<1>6. CASE Send(c)
  <2>1. /\ pc[c] = "send" /\ pc'[c] = "recv" /\ open[c]
        /\ UNCHANGED <<pos, base, open>>
        /\ sock'[c] = Append(sock[c], pos[c]) /\ got'[c] = got[c]
    BY <1>6 DEF Send, SessionType
  <2>2. Handed(c)' = Append(Handed(c), pos[c])
    <3>1. got[c] \o Append(sock[c], pos[c]) = Append(got[c] \o sock[c], pos[c])
      BY <1>t, HandedAppend
    <3> QED
      BY <2>1, <3>1, Zenon DEF Handed
  <2>3. Handed(c) # <<>> /\ base[c] + Len(Handed(c)) = pos[c]
    BY <2>1 DEF Progress
  <2>4. InOrder(Handed(c)', base[c])
    BY <1>t, <2>2, <2>3, InOrderAppend DEF Progress
  <2>5. Handed(c)' # <<>> /\ Len(Handed(c)') = Len(Handed(c)) + 1
    BY <1>t, <2>2, Longer
  <2>6. base'[c] = base[c] /\ pos'[c] = pos[c] /\ base[c] + Len(Handed(c)') = pos[c] + 1
    <3>1. base[c] + (Len(Handed(c)) + 1) = pos[c] + 1
      <4> DEFINE n == Len(Handed(c))
      <4>1. n \in Nat /\ base[c] \in Nat /\ base[c] + n = pos[c]
        BY <1>t, <2>3, Zenon
      <4> HIDE DEF n
      <4>2. base[c] + (n + 1) = pos[c] + 1
        BY <4>1
      <4> QED
        BY <4>2 DEF n
    <3>2. base'[c] = base[c] /\ pos'[c] = pos[c]
      BY <2>1
    <3> QED
      BY <2>5, <3>1, <3>2, Zenon
  <2> QED
    BY <2>1, <2>4, <2>5, <2>6 DEF Progress
<1>7. CASE SendFails(c)
  <2>1. pc'[c] = "ended" /\ base' = base /\ Handed(c)' = Handed(c)
    BY <1>7 DEF SendFails, Handed, SessionType
  <2> QED
    BY <2>1 DEF Progress
<1>8. CASE Read(c)
  <2>1. /\ sock[c] # <<>> /\ UNCHANGED <<pc, pos, base, open>>
        /\ got'[c] = Append(got[c], Head(sock[c])) /\ sock'[c] = Tail(sock[c])
    BY <1>8 DEF Read, SessionType
  <2>2. Handed(c)' = Handed(c)
    BY <1>t, <2>1, HandedRead DEF Handed
  <2> QED
    BY <2>1, <2>2 DEF Progress
<1>9. CASE Leave(c)
  <2>1. /\ UNCHANGED <<pc, pos, base, got>> /\ sock'[c] = <<>> /\ ~ open'[c]
    BY <1>9 DEF Leave, SessionType
  <2>2. InOrder(Handed(c)', base[c])
    BY <1>t, <2>1, InOrderPrefix DEF Handed, Progress
  <2> QED
    BY <2>1, <2>2 DEF Progress
<1>10. CASE Closed(c)
  <2>1. pc[c] = "ended" /\ UNCHANGED <<pc, base, sock, got>>
    BY <1>10 DEF Closed
  <2> QED
    BY <2>1 DEF Progress, Handed
<1>11. CASE Reconnect(c)
  <2>1. pc'[c] = "none" /\ ~ open'[c] /\ UNCHANGED <<base, sock, got>>
    BY <1>11 DEF Reconnect, SessionType
  <2> QED
    BY <2>1 DEF Progress, Handed
<1> QED
  BY <1>1, <1>2, <1>3, <1>4, <1>5, <1>6, <1>7, <1>8, <1>9, <1>10, <1>11 DEF HandlerStep

\* A step of one client's handler or browser changes no other client's variables.
LEMMA OthersStand ==
  ASSUME SessionType, NEW c \in Clients, NEW d \in Clients, d # c,
         Subscribe(c) \/ HandlerStep(c) \/ Read(c) \/ Leave(c) \/ Closed(c) \/ Reconnect(c)
  PROVE  /\ pc'[d] = pc[d] /\ pos'[d] = pos[d] /\ base'[d] = base[d]
         /\ open'[d] = open[d] /\ sock'[d] = sock[d] /\ got'[d] = got[d]
<1> USE DEF SessionType
<1>1. CASE Subscribe(c)
  BY <1>1 DEF Subscribe
<1>2. CASE ReadStats(c) \/ Greet(c)
  BY <1>2 DEF ReadStats, Greet
<1>3. CASE Recv(c) \/ RecvLagged(c)
  BY <1>3 DEF Recv, RecvLagged
<1>4. CASE Send(c) \/ SendFails(c)
  BY <1>4 DEF Send, SendFails
<1>5. CASE Read(c) \/ Leave(c)
  BY <1>5 DEF Read, Leave
<1>6. CASE Closed(c) \/ Reconnect(c)
  BY <1>6 DEF Closed, Reconnect
<1> QED
  BY <1>1, <1>2, <1>3, <1>4, <1>5, <1>6 DEF HandlerStep

LEMMA SessionStep == SessionInv /\ [Next]_vars => SessionInv'
<1> SUFFICES ASSUME SessionInv, [Next]_vars PROVE SessionInv'
  OBVIOUS
<1>1. SessionType'
  BY SessionTypeStep DEF SessionInv
<1>2. ASSUME NEW d \in Clients PROVE Progress(d)'
  <2>1. ASSUME NEW c \in Clients,
               Subscribe(c) \/ HandlerStep(c) \/ Read(c) \/ Leave(c) \/ Closed(c) \/ Reconnect(c)
        PROVE  Progress(d)'
    <3>1. CASE c = d
      BY <2>1, <3>1, OwnStep DEF SessionInv
    <3>2. CASE c # d
      BY <2>1, <3>2, OthersStand, Untouched DEF SessionInv
    <3> QED
      BY <3>1, <3>2
  <2>2. CASE UNCHANGED clientVars
    BY <2>2, Untouched DEF SessionInv, clientVars
  <2>3. (\E p \in Publishers : SendLive(p) \/ CountLive(p)) \/ SendAnalyzed \/ UNCHANGED vars
          => UNCHANGED clientVars
    BY DEF SendLive, CountLive, SendAnalyzed, vars, clientVars
  <2> QED
    BY <2>1, <2>2, <2>3 DEF Next
<1> QED
  BY <1>1, <1>2 DEF SessionInv

LEMMA SessionInit == Init => SessionInv
<1> SUFFICES ASSUME Init PROVE SessionInv
  OBVIOUS
<1>1. SessionType
  BY DEF Init, SessionType
<1>2. ASSUME NEW c \in Clients PROVE Progress(c)
  <2>1. Handed(c) = <<>> /\ pc[c] = "none" /\ ~ open[c]
    BY DEF Init, Handed
  <2> QED
    BY <2>1 DEF Progress, InOrder
<1> QED
  BY <1>1, <1>2 DEF SessionInv

-----------------------------------------------------------------------------
\* Every session hands its browser the initial stats and then the events from
\* the subscription on, in order and without a gap: handle_ws_socket.
THEOREM SessionsWithoutGap == Spec => []NoSilentGap
<1>1. SessionInv => NoSilentGap
  BY DEF SessionInv, Progress, InOrder, NoSilentGap
<1> QED
  BY SessionInit, SessionStep, <1>1, PTL DEF Spec
-----------------------------------------------------------------------------
\* What every live event sent is accounted for: it is counted, or in the hand
\* of the publisher about to count it.
CoveredInv ==
  /\ counted \in Nat /\ snapshot \in [Clients -> Nat] /\ inhand \subseteq Publishers
  /\ counted + Cardinality(inhand) = LiveUpTo(Published)
  /\ \A c \in Clients : base[c] <= Published
  /\ SnapshotCovers

LEMMA LiveUpToType ==
  ASSUME NEW n \in Nat
  PROVE  LiveUpTo(n) \in Nat
<1>1. IsFiniteSet(1 .. n)
  BY FS_Interval
<1>2. IsFiniteSet({k \in 1 .. n : feed[k] = "live"})
  BY <1>1, FS_Subset
<1> QED
  BY <1>2, FS_CardinalityType DEF LiveUpTo

\* Sending appends, so what was sent before stays what it was.
LEMMA LiveUpToStands ==
  ASSUME NEW n \in Nat, feed \in Seq({"live", "analyze"}), n <= Len(feed),
         NEW e \in {"live", "analyze"}, feed' = Append(feed, e)
  PROVE  Cardinality({k \in 1 .. n : feed'[k] = "live"}) = LiveUpTo(n)
<1>1. \A k \in 1 .. n : feed'[k] = feed[k]
  OBVIOUS
<1>2. {k \in 1 .. n : feed'[k] = "live"} = {k \in 1 .. n : feed[k] = "live"}
  BY <1>1
<1> QED
  BY <1>2 DEF LiveUpTo

LEMMA LiveUpToGrows ==
  ASSUME feed \in Seq({"live", "analyze"}),
         NEW e \in {"live", "analyze"}, feed' = Append(feed, e)
  PROVE  LiveUpTo(Published)' = LiveUpTo(Published) + (IF e = "live" THEN 1 ELSE 0)
<1> DEFINE n == Len(feed)
           before == {k \in 1 .. n : feed[k] = "live"}
           after == {k \in 1 .. n + 1 : feed'[k] = "live"}
<1>1. /\ n \in Nat /\ Len(feed') = n + 1 /\ feed'[n + 1] = e
      /\ \A k \in 1 .. n : feed'[k] = feed[k]
  OBVIOUS
<1>2. after = IF e = "live" THEN before \cup {n + 1} ELSE before
  BY <1>1
<1>3. IsFiniteSet(before) /\ n + 1 \notin before
  <2>1. IsFiniteSet(1 .. n)
    BY <1>1, FS_Interval
  <2>2. IsFiniteSet(before)
    BY <2>1, FS_Subset
  <2>3. n + 1 \notin before
    BY <1>1
  <2> QED
    BY <2>2, <2>3
<1>4. Cardinality(before) \in Nat
  BY <1>3, FS_CardinalityType
<1>5. LiveUpTo(Published)' = Cardinality(after) /\ LiveUpTo(Published) = Cardinality(before)
  BY <1>1 DEF LiveUpTo, Published
<1> HIDE DEF n, before, after
<1>6. Cardinality(before \cup {n + 1}) = Cardinality(before) + 1
  BY <1>3, FS_AddElement
<1> QED
  BY <1>2, <1>4, <1>5, <1>6

\* The snapshot's guarantee is about what a step of a publisher leaves alone.
LEMMA CoveredSend ==
  ASSUME CoveredInv, SessionType,
         NEW e \in {"live", "analyze"}, feed' = Append(feed, e), UNCHANGED clientVars
  PROVE  /\ \A c \in Clients : base'[c] <= Published'
         /\ SnapshotCovers'
<1>1. Published \in Nat /\ Published' = Published + 1
  BY DEF Published, SessionType
<1>2. ASSUME NEW c \in Clients PROVE base'[c] <= Published'
  BY <1>1 DEF CoveredInv, SessionType, clientVars
<1>3. ASSUME NEW c \in Clients, pc'[c] \in {"greet", "recv", "send"}
      PROVE  LiveUpTo(base[c])' <= snapshot'[c] + Cardinality(Publishers)
  <2>1. PICK b \in Nat : b = base[c]
    BY DEF SessionType
  <2>2. b <= Len(feed)
    BY <2>1 DEF CoveredInv, Published
  <2>3. LiveUpTo(base[c])' = Cardinality({k \in 1 .. b : feed'[k] = "live"})
    BY <2>1 DEF clientVars, LiveUpTo
  <2>4. LiveUpTo(base[c])' = LiveUpTo(b)
    BY <2>2, <2>3, LiveUpToStands DEF SessionType
  <2>5. LiveUpTo(b) <= snapshot[c] + Cardinality(Publishers)
    BY <1>3, <2>1 DEF CoveredInv, SnapshotCovers, clientVars
  <2> QED
    BY <2>4, <2>5 DEF clientVars
<1> QED
  BY <1>2, <1>3 DEF SnapshotCovers

\* A step of a client that takes no new snapshot and no new base.
LEMMA CoveredKept ==
  ASSUME CoveredInv, UNCHANGED <<feed, counted, inhand, base, snapshot>>,
         \A c \in Clients : pc'[c] \in {"greet", "recv", "send"} =>
                              pc[c] \in {"greet", "recv", "send"}
  PROVE  CoveredInv'
<1>1. /\ counted' \in Nat /\ snapshot' \in [Clients -> Nat] /\ inhand' \subseteq Publishers
      /\ counted' + Cardinality(inhand') = LiveUpTo(Published)'
      /\ \A c \in Clients : base'[c] <= Published'
  BY DEF CoveredInv, LiveUpTo, Published
<1>2. SnapshotCovers'
  BY DEF CoveredInv, SnapshotCovers, LiveUpTo
<1> QED
  BY <1>1, <1>2 DEF CoveredInv

LEMMA CoveredStep == CoveredInv /\ SessionType /\ [Next]_vars => CoveredInv'
<1> SUFFICES ASSUME CoveredInv, SessionType, [Next]_vars PROVE CoveredInv'
  OBVIOUS
<1>f. IsFiniteSet(inhand) /\ Cardinality(inhand) \in Nat
      /\ Cardinality(Publishers) \in Nat /\ Cardinality(inhand) <= Cardinality(Publishers)
  BY PublishersAssumption, FS_Subset, FS_CardinalityType DEF CoveredInv
<1>n. Published \in Nat /\ LiveUpTo(Published) \in Nat /\ counted \in Nat
  BY LiveUpToType DEF SessionType, Published, CoveredInv
<1>1. ASSUME NEW p \in Publishers, SendLive(p) PROVE CoveredInv'
  <2>1. Cardinality(inhand \cup {p}) = Cardinality(inhand) + 1
    BY <1>1, <1>f, FS_AddElement DEF SendLive
  <2>2. LiveUpTo(Published)' = LiveUpTo(Published) + 1
    BY <1>1, LiveUpToGrows DEF SendLive, SessionType
  <2>3. /\ \A c \in Clients : base'[c] <= Published'
        /\ SnapshotCovers'
    BY <1>1, CoveredSend DEF SendLive
  <2>4. /\ counted' = counted /\ inhand' = inhand \cup {p} /\ snapshot' = snapshot
        /\ counted + Cardinality(inhand) = LiveUpTo(Published)
    BY <1>1 DEF SendLive, clientVars, CoveredInv
  <2>5. counted' + Cardinality(inhand') = LiveUpTo(Published)'
    BY <1>f, <1>n, <2>1, <2>2, <2>4
  <2> QED
    BY <2>3, <2>4, <2>5 DEF CoveredInv
<1>2. ASSUME NEW p \in Publishers, CountLive(p) PROVE CoveredInv'
  <2>1. Cardinality(inhand \ {p}) = Cardinality(inhand) - 1
    BY <1>2, <1>f, FS_RemoveElement DEF CountLive
  <2>2. /\ counted' = counted + 1 /\ inhand' = inhand \ {p} /\ UNCHANGED <<feed, clientVars>>
    BY <1>2 DEF CountLive
  <2>3. LiveUpTo(Published)' = LiveUpTo(Published) /\ SnapshotCovers'
    BY <2>2 DEF LiveUpTo, Published, SnapshotCovers, CoveredInv, clientVars
  <2>4. counted + Cardinality(inhand) = LiveUpTo(Published)
    BY DEF CoveredInv
  <2>5. counted' + Cardinality(inhand') = LiveUpTo(Published)'
    BY <1>f, <1>n, <2>1, <2>2, <2>3, <2>4
  <2>6. /\ \A c \in Clients : base'[c] <= Published'
        /\ snapshot' \in [Clients -> Nat] /\ inhand' \subseteq Publishers
    BY <2>2 DEF CoveredInv, clientVars, Published
  <2> QED
    BY <1>n, <2>2, <2>3, <2>5, <2>6 DEF CoveredInv
<1>3. CASE SendAnalyzed
  <2>1. LiveUpTo(Published)' = LiveUpTo(Published)
    BY <1>3, <1>n, LiveUpToGrows DEF SendAnalyzed, SessionType
  <2>2. /\ \A c \in Clients : base'[c] <= Published'
        /\ SnapshotCovers'
    BY <1>3, CoveredSend DEF SendAnalyzed
  <2>3. counted' = counted /\ inhand' = inhand /\ snapshot' = snapshot
    BY <1>3 DEF SendAnalyzed, clientVars
  <2> QED
    BY <2>1, <2>2, <2>3 DEF CoveredInv
<1>4. ASSUME NEW c \in Clients, Subscribe(c) PROVE CoveredInv'
  <2>1. /\ UNCHANGED <<feed, counted, inhand>>
        /\ pc' = [pc EXCEPT ![c] = "subscribed"]
        /\ base' = [base EXCEPT ![c] = Published]
        /\ snapshot' = [snapshot EXCEPT ![c] = 0]
    BY <1>4 DEF Subscribe
  <2>2. SnapshotCovers'
    BY <2>1 DEF CoveredInv, SnapshotCovers, LiveUpTo, SessionType
  <2>3. /\ counted' \in Nat /\ inhand' \subseteq Publishers
        /\ counted' + Cardinality(inhand') = LiveUpTo(Published)'
    BY <2>1 DEF CoveredInv, LiveUpTo, Published
  <2>4. snapshot' \in [Clients -> Nat] /\ \A d \in Clients : base'[d] <= Published'
    BY <1>n, <2>1 DEF CoveredInv, SessionType, Published
  <2> QED
    BY <2>2, <2>3, <2>4 DEF CoveredInv
<1>5. ASSUME NEW c \in Clients, ReadStats(c) PROVE CoveredInv'
  <2>1. /\ UNCHANGED <<feed, counted, inhand, base>>
        /\ pc' = [pc EXCEPT ![c] = "greet"]
        /\ snapshot' = [snapshot EXCEPT ![c] = counted]
    BY <1>5 DEF ReadStats
  <2>2. LiveUpTo(base[c]) <= counted + Cardinality(Publishers)
    <3>1. base[c] \in Nat /\ base[c] <= Published
      BY DEF SessionType, CoveredInv
    <3>2. LiveUpTo(base[c]) <= LiveUpTo(Published)
      <4>1. IsFiniteSet(1 .. Published)
        BY <1>n, FS_Interval
      <4>2. IsFiniteSet({k \in 1 .. Published : feed[k] = "live"})
        BY <4>1, FS_Subset
      <4>3. {k \in 1 .. base[c] : feed[k] = "live"} \subseteq {k \in 1 .. Published : feed[k] = "live"}
        BY <1>n, <3>1
      <4> QED
        BY <4>2, <4>3, FS_Subset DEF LiveUpTo
    <3>3. LiveUpTo(base[c]) \in Nat
      BY <3>1, LiveUpToType
    <3>4. counted + Cardinality(inhand) = LiveUpTo(Published)
      BY DEF CoveredInv
    <3> QED
      BY <1>f, <1>n, <3>2, <3>3, <3>4
  <2>3. SnapshotCovers'
    <3> SUFFICES ASSUME NEW d \in Clients, pc'[d] \in {"greet", "recv", "send"}
                 PROVE  LiveUpTo(base[d])' <= snapshot'[d] + Cardinality(Publishers)
      BY DEF SnapshotCovers
    <3>1. LiveUpTo(base[d])' = LiveUpTo(base[d])
      BY <2>1 DEF LiveUpTo
    <3>2. CASE d = c
      BY <2>1, <2>2, <3>1, <3>2 DEF CoveredInv
    <3>3. CASE d # c
      BY <2>1, <3>1, <3>3 DEF CoveredInv, SnapshotCovers, SessionType
    <3> QED
      BY <3>2, <3>3
  <2>4. /\ counted' \in Nat /\ inhand' \subseteq Publishers
        /\ counted' + Cardinality(inhand') = LiveUpTo(Published)'
        /\ snapshot' \in [Clients -> Nat] /\ \A d \in Clients : base'[d] <= Published'
    BY <2>1 DEF CoveredInv, LiveUpTo, Published
  <2> QED
    BY <2>3, <2>4 DEF CoveredInv
<1>6. ASSUME NEW c \in Clients,
             Greet(c) \/ Recv(c) \/ RecvLagged(c) \/ Send(c) \/ SendFails(c)
               \/ Read(c) \/ Leave(c) \/ Closed(c) \/ Reconnect(c)
      PROVE  CoveredInv'
  <2>1. UNCHANGED <<feed, counted, inhand, base, snapshot>>
    BY <1>6 DEF Greet, Recv, RecvLagged, Send, SendFails, Read, Leave, Closed, Reconnect
  <2>2. \A d \in Clients : pc'[d] \in {"greet", "recv", "send"} =>
                             pc[d] \in {"greet", "recv", "send"}
    BY <1>6 DEF Greet, Recv, RecvLagged, Send, SendFails, Read, Leave, Closed, Reconnect,
                SessionType
  <2> QED
    BY <2>1, <2>2, CoveredKept
<1>7. CASE UNCHANGED vars
  BY <1>7, CoveredKept DEF vars
<1> QED
  BY <1>1, <1>2, <1>3, <1>4, <1>5, <1>6, <1>7 DEF Next, HandlerStep

LEMMA CoveredInit == Init => CoveredInv
<1> SUFFICES ASSUME Init PROVE CoveredInv
  OBVIOUS
<1>1. Published = 0 /\ {k \in 1 .. 0 : feed[k] = "live"} = {}
  BY DEF Init, Published
<1>2. LiveUpTo(Published) = 0 /\ Cardinality(inhand) = 0
  BY <1>1, FS_EmptySet DEF LiveUpTo, Init
<1> QED
  BY <1>1, <1>2 DEF Init, CoveredInv, SnapshotCovers

\* Between them, the first message's count and the feed miss no packet but the
\* ones the capture tasks are about to count: handle_ws_socket reads live_stats
\* after it subscribed.
THEOREM NoPacketMissed == Spec => []SnapshotCovers
<1>1. SessionInv => SessionType
  BY DEF SessionInv
<1>2. CoveredInv => SnapshotCovers
  BY DEF CoveredInv
<1> QED
  BY SessionInit, SessionStep, CoveredInit, CoveredStep, <1>1, <1>2, PTL DEF Spec

-----------------------------------------------------------------------------
\* What a session has handed over never runs ahead of the feed.
Due(c) ==
  /\ pos[c] <= Published
  /\ base[c] + Len(Handed(c)) <= Published + 1

DueInv == \A c \in Clients : Due(c)

\* A client is due when its numbers after the step say so.
LEMMA DueBy ==
  ASSUME NEW d \in Clients, NEW p \in Nat, NEW b \in Nat, NEW h \in Nat, NEW n \in Nat,
         pos'[d] = p, base'[d] = b, Len(Handed(d))' = h, Published' = n,
         p <= n, b + h <= n + 1
  PROVE  Due(d)'
BY DEF Due

LEMMA DueStep == DueInv /\ SessionInv /\ [Next]_vars => DueInv'
<1> SUFFICES ASSUME DueInv, SessionInv, [Next]_vars, NEW d \in Clients PROVE Due(d)'
  BY DEF DueInv
<1>t. /\ SessionType /\ Published \in Nat
      /\ Handed(d) \in Seq(Nat) /\ Len(Handed(d)) = Len(got[d]) + Len(sock[d])
      /\ Len(got[d]) \in Nat /\ Len(sock[d]) \in Nat /\ Len(Handed(d)) \in Nat
      /\ pos[d] \in Nat /\ base[d] \in Nat
  BY HandedType DEF SessionInv, SessionType, Published
<1>h. SessionType' /\ Handed(d)' \in Seq(Nat) /\ Len(Handed(d))' = Len(got'[d]) + Len(sock'[d])
  <2>1. SessionType'
    BY SessionTypeStep, <1>t
  <2>2. got'[d] \in Seq(Nat) /\ sock'[d] \in Seq(Nat)
    BY <2>1 DEF SessionType
  <2> QED
    BY <2>1, <2>2, ConcatProperties DEF Handed
<1>p. PICK p \in Nat, b \in Nat, h \in Nat, g \in Nat, k \in Nat, n \in Nat :
        /\ p = pos[d] /\ b = base[d] /\ h = Len(Handed(d))
        /\ g = Len(got[d]) /\ k = Len(sock[d]) /\ n = Published
  BY <1>t
<1>d. p <= n /\ b + h <= n + 1 /\ h = g + k
  BY <1>p, <1>t DEF DueInv, Due
<1>1. ASSUME NEW m \in Nat, Published' = m, m >= n, pos'[d] = pos[d], base'[d] = base[d],
             got'[d] = got[d], sock'[d] = sock[d]
      PROVE  Due(d)'
  <2>1. Len(Handed(d))' = h
    BY <1>1, <1>p DEF Handed
  <2>2. p <= m /\ b + h <= m + 1
    BY <1>1, <1>d
  <2> QED
    BY <1>1, <1>p, <2>1, <2>2, DueBy
<1>2. CASE (\E q \in Publishers : SendLive(q) \/ CountLive(q)) \/ SendAnalyzed \/ UNCHANGED vars
  <2>1. Published' >= Published /\ Published' \in Nat
    BY <1>t, <1>2 DEF SendLive, CountLive, SendAnalyzed, vars, Published, SessionType
  <2> QED
    BY <1>1, <1>2, <1>p, <2>1 DEF SendLive, CountLive, SendAnalyzed, vars, clientVars
<1>3. ASSUME NEW c \in Clients, c # d,
             Subscribe(c) \/ HandlerStep(c) \/ Read(c) \/ Leave(c) \/ Closed(c) \/ Reconnect(c)
      PROVE  Due(d)'
  <2>1. /\ pos'[d] = pos[d] /\ base'[d] = base[d] /\ sock'[d] = sock[d] /\ got'[d] = got[d]
    BY <1>t, <1>3, OthersStand
  <2>2. Published' = Published
    BY <1>3 DEF Subscribe, HandlerStep, ReadStats, Greet, Recv, RecvLagged, Send, SendFails,
                Read, Leave, Closed, Reconnect, Published
  <2> QED
    BY <1>1, <1>p, <2>1, <2>2
<1>4. CASE Subscribe(d)
  <2>1. /\ Published' = n /\ pos'[d] = n /\ base'[d] = n
        /\ got'[d] = <<>> /\ sock'[d] = <<>>
    BY <1>4, <1>t, <1>p DEF Subscribe, Published, SessionType
  <2>2. Len(Handed(d))' = 0
    BY <1>h, <2>1
  <2>3. n <= n /\ n + 0 <= n + 1 /\ 0 \in Nat
    OBVIOUS
  <2> QED
    BY <2>1, <2>2, <2>3, DueBy
<1>5. CASE ReadStats(d) \/ RecvLagged(d) \/ SendFails(d) \/ Closed(d) \/ Reconnect(d)
  <2>1. /\ Published' = Published /\ pos'[d] = pos[d] /\ base'[d] = base[d]
        /\ got'[d] = got[d] /\ sock'[d] = sock[d]
    BY <1>5 DEF ReadStats, RecvLagged, SendFails, Closed, Reconnect, Published
  <2> QED
    BY <1>1, <1>p, <2>1
<1>6. CASE Greet(d)
  <2>1. /\ Published' = n /\ pos'[d] = p /\ base'[d] = b /\ got'[d] = got[d]
        /\ pc[d] = "greet"
    BY <1>6, <1>p DEF Greet, Published
  <2>2. CASE open[d]
    <3>1. Handed(d) = <<>> /\ p = b
      BY <1>p, <2>1, <2>2 DEF SessionInv, Progress
    <3>2. sock'[d] = Append(sock[d], 0)
      BY <1>6, <1>t, <2>2 DEF Greet, SessionType
    <3>3. Len(sock'[d]) = k + 1
      BY <1>t, <1>p, <3>2 DEF SessionType
    <3>4. h = 0
      BY <1>p, <3>1
    <3>5. Len(Handed(d))' = g + (k + 1)
      BY <1>h, <1>p, <2>1, <3>3
    <3>6. g + (k + 1) = 1 /\ b + 1 <= n + 1
      BY <1>d, <3>1, <3>4
    <3> QED
      BY <1>d, <2>1, <3>5, <3>6, DueBy
  <2>3. CASE ~ open[d]
    <3>1. sock'[d] = sock[d]
      BY <1>6, <1>t, <2>3 DEF Greet, SessionType
    <3> QED
      BY <1>1, <1>p, <2>1, <3>1
  <2> QED
    BY <2>2, <2>3
<1>7. CASE Recv(d)
  <2>1. /\ Published' = n /\ pos'[d] = p + 1 /\ base'[d] = b
        /\ got'[d] = got[d] /\ sock'[d] = sock[d] /\ p < n
    BY <1>7, <1>t, <1>p DEF Recv, Published, SessionType
  <2>2. Len(Handed(d))' = h
    BY <1>p, <2>1 DEF Handed
  <2>3. p + 1 \in Nat /\ p + 1 <= n
    BY <2>1
  <2> QED
    BY <1>d, <2>1, <2>2, <2>3, DueBy
<1>8. CASE Send(d)
  <2>1. /\ Published' = n /\ pos'[d] = p /\ base'[d] = b /\ got'[d] = got[d]
        /\ sock'[d] = Append(sock[d], pos[d]) /\ pc[d] = "send" /\ open[d]
    BY <1>8, <1>t, <1>p DEF Send, Published, SessionType
  <2>2. b + h = p
    BY <1>p, <2>1 DEF SessionInv, Progress
  <2>3. Len(sock'[d]) = k + 1
    BY <1>t, <1>p, <2>1 DEF SessionType
  <2>4. Len(Handed(d))' = g + (k + 1)
    BY <1>h, <1>p, <2>1, <2>3
  <2>5. g + (k + 1) \in Nat /\ b + (g + (k + 1)) <= n + 1
    BY <1>d, <2>2
  <2> QED
    BY <1>d, <2>1, <2>4, <2>5, DueBy
<1>9. CASE Read(d)
  <2>1. /\ Published' = n /\ pos'[d] = p /\ base'[d] = b /\ sock[d] # <<>>
        /\ got'[d] = Append(got[d], Head(sock[d])) /\ sock'[d] = Tail(sock[d])
    BY <1>9, <1>t, <1>p DEF Read, Published, SessionType
  <2>2. Len(Handed(d))' = h
    BY <1>t, <1>p, <2>1, HandedRead DEF Handed, SessionType
  <2> QED
    BY <1>d, <2>1, <2>2, DueBy
<1>10. CASE Leave(d)
  <2>1. /\ Published' = n /\ pos'[d] = p /\ base'[d] = b
        /\ got'[d] = got[d] /\ sock'[d] = <<>>
    BY <1>10, <1>t, <1>p DEF Leave, Published, SessionType
  <2>2. Len(Handed(d))' = g
    BY <1>h, <1>p, <2>1
  <2>3. b + g <= n + 1
    BY <1>d
  <2> QED
    BY <1>d, <2>1, <2>2, <2>3, DueBy
<1> QED
  BY <1>2, <1>3, <1>4, <1>5, <1>6, <1>7, <1>8, <1>9, <1>10 DEF Next, HandlerStep

LEMMA DueInit == Init => DueInv
BY DEF Init, DueInv, Due, Handed, Published

\* What OrderedFeed sees of a client: the messages after the greeting.
Seen(c) == SubSeq(got[c], 2, Len(got[c]))

LEMMA SeenType ==
  ASSUME NEW g \in Seq(Nat)
  PROVE  /\ SubSeq(g, 2, Len(g)) \in Seq(Nat)
         /\ Len(SubSeq(g, 2, Len(g))) = IF g = <<>> THEN 0 ELSE Len(g) - 1
<1>1. Len(g) \in Nat /\ (g = <<>> <=> Len(g) = 0) /\ \A i \in 2 .. Len(g) : g[i] \in Nat
  OBVIOUS
<1> QED
  BY <1>1, SubSeqProperties

\* A second or later message read is shown.
LEMMA SeenAppend ==
  ASSUME NEW g \in Seq(Nat), NEW m \in Nat
  PROVE  SubSeq(Append(g, m), 2, Len(Append(g, m))) =
           IF g = <<>> THEN <<>> ELSE Append(SubSeq(g, 2, Len(g)), m)
<1> DEFINE a == Append(g, m)
<1>1. PICK n \in Nat : n = Len(g)
  OBVIOUS
<1>2. /\ a \in Seq(Nat) /\ Len(a) = n + 1 /\ a[n + 1] = m
      /\ \A i \in 1 .. n : a[i] = g[i]
      /\ g = <<>> <=> n = 0
  BY <1>1
<1>3. (\A i \in 2 .. n : g[i] \in Nat) /\ (\A i \in 2 .. n + 1 : a[i] \in Nat)
  BY <1>1, <1>2
<1> HIDE DEF a
<1>4. CASE g = <<>>
  BY <1>2, <1>4, SubSeqEmpty DEF a
<1>5. CASE g # <<>>
  <2> DEFINE l == SubSeq(a, 2, n + 1)
             s == SubSeq(g, 2, n)
  <2>1. n >= 1 /\ n + 1 \in Int /\ n \in Int /\ 2 \in Int
    BY <1>2, <1>5
  <2>2. /\ l \in Seq(Nat) /\ Len(l) = IF 2 <= n + 1 THEN n + 1 - 2 + 1 ELSE 0
        /\ \A i \in 1 .. n + 1 - 2 + 1 : l[i] = a[2 + i - 1]
    BY <1>3, <2>1, SubSeqProperties
  <2>3. /\ s \in Seq(Nat) /\ Len(s) = IF 2 <= n THEN n - 2 + 1 ELSE 0
        /\ \A i \in 1 .. n - 2 + 1 : s[i] = g[2 + i - 1]
    BY <1>3, <2>1, SubSeqProperties
  <2> HIDE DEF l, s
  <2>4. Len(l) = n /\ Len(s) = n - 1
    BY <2>1, <2>2, <2>3
  <2>5. /\ Append(s, m) \in Seq(Nat) /\ Len(Append(s, m)) = n
        /\ Append(s, m)[n] = m /\ \A i \in 1 .. n - 1 : Append(s, m)[i] = s[i]
    BY <2>1, <2>3, <2>4
  <2>6. ASSUME NEW i \in 1 .. n PROVE l[i] = Append(s, m)[i]
    <3>1. l[i] = a[i + 1]
      BY <2>1, <2>2
    <3>2. CASE i = n
      BY <1>2, <2>5, <3>1, <3>2
    <3>3. CASE i # n
      <4>1. i \in 1 .. n - 1 /\ i + 1 \in 1 .. n
        BY <2>1, <3>3
      <4>2. s[i] = g[i + 1]
        BY <2>1, <2>3, <4>1
      <4> QED
        BY <1>2, <2>5, <3>1, <4>1, <4>2
    <3> QED
      BY <3>2, <3>3
  <2>7. l = Append(s, m)
    BY <2>2, <2>4, <2>5, <2>6, SeqEqual
  <2> QED
    BY <1>1, <1>2, <1>5, <2>7 DEF a, l, s
<1> QED
  BY <1>4, <1>5

\* Every step of the feed is a step of OrderedFeed, or none of its business.
LEMMA OrderedStep ==
  SessionInv /\ DueInv /\ [Next]_vars => [Ordered!Next]_(Ordered!vars)
<1> SUFFICES ASSUME SessionInv, DueInv, [Next]_vars
             PROVE  Ordered!Next \/ UNCHANGED Ordered!vars
  OBVIOUS
<1> DEFINE on == {c \in Clients : open[c]}
           seen == [c \in Clients |-> Seen(c)]
<1>v. Ordered!vars = <<Published, on, base, seen>>
  BY DEF Ordered!vars, Seen
<1>t. SessionType
  BY DEF SessionInv
<1>1. CASE (\E p \in Publishers : SendLive(p)) \/ SendAnalyzed
  <2>1. Published' = Published + 1 /\ UNCHANGED <<base, open, got>>
    BY <1>1, <1>t DEF SendLive, SendAnalyzed, clientVars, Published, SessionType
  <2>2. Ordered!Publish
    BY <2>1 DEF Ordered!Publish
  <2> QED
    BY <2>2 DEF Ordered!Next
<1>2. CASE (\E p \in Publishers : CountLive(p)) \/ UNCHANGED vars
  <2>1. UNCHANGED <<feed, base, open, got>>
    BY <1>2 DEF CountLive, clientVars, vars
  <2>2. Published' = Published /\ on' = on /\ seen' = seen /\ base' = base
    BY <2>1 DEF Published, Seen
  <2> QED
    BY <1>v, <2>2 DEF Ordered!vars, Seen
<1>3. ASSUME NEW c \in Clients, Subscribe(c) PROVE Ordered!Next
  <2>1. /\ Published' = Published /\ base' = [base EXCEPT ![c] = Published]
        /\ open' = [open EXCEPT ![c] = TRUE] /\ got' = [got EXCEPT ![c] = <<>>] /\ pc[c] = "none"
    BY <1>3 DEF Subscribe, Published
  <2>2. ~ open[c]
    BY <2>1 DEF SessionInv, Progress
  <2>3. on' = on \cup {c} /\ c \notin on
    BY <1>t, <2>1, <2>2 DEF SessionType
  <2>4. seen' = [seen EXCEPT ![c] = <<>>]
    <3>1. SubSeq(<<>>, 2, Len(<<>>)) = <<>>
      BY SubSeqEmpty
    <3>2. \A d \in Clients : got'[d] = IF d = c THEN <<>> ELSE got[d]
      BY <1>t, <2>1 DEF SessionType
    <3> QED
      BY <3>1, <3>2 DEF Seen
  <2>5. Ordered!Begin(c)
    BY <2>1, <2>3, <2>4 DEF Ordered!Begin, Seen
  <2> QED
    BY <2>5 DEF Ordered!Next
<1>4. ASSUME NEW c \in Clients, HandlerStep(c) \/ Reconnect(c) PROVE UNCHANGED Ordered!vars
  <2>1. UNCHANGED <<feed, base, open, got>>
    BY <1>4 DEF HandlerStep, ReadStats, Greet, Recv, RecvLagged, Send, SendFails, Reconnect
  <2>2. Published' = Published /\ on' = on /\ seen' = seen /\ base' = base
    BY <2>1 DEF Published, Seen
  <2> QED
    BY <1>v, <2>2 DEF Ordered!vars, Seen
<1>5. ASSUME NEW c \in Clients, Leave(c) \/ Closed(c) PROVE Ordered!Next
  <2>1. /\ Published' = Published /\ UNCHANGED <<base, got>> /\ open[c]
        /\ open' = [open EXCEPT ![c] = FALSE]
    BY <1>5 DEF Leave, Closed, Published
  <2>2. on' = on \ {c} /\ c \in on /\ seen' = seen
    BY <1>t, <2>1 DEF SessionType, Seen
  <2>3. Ordered!End(c)
    BY <2>1, <2>2 DEF Ordered!End, Seen
  <2> QED
    BY <2>3 DEF Ordered!Next
<1>6. ASSUME NEW c \in Clients, Read(c) PROVE Ordered!Next \/ UNCHANGED Ordered!vars
  <2> DEFINE m == Head(sock[c])
  <2>1. /\ Published' = Published /\ UNCHANGED <<base, open>> /\ open[c] /\ sock[c] # <<>>
        /\ got' = [got EXCEPT ![c] = Append(got[c], m)]
    BY <1>6 DEF Read, Published
  <2>2. /\ got[c] \in Seq(Nat) /\ sock[c] \in Seq(Nat) /\ base[c] \in Nat /\ Published \in Nat
        /\ m = sock[c][1] /\ m \in Nat /\ Len(sock[c]) >= 1 /\ Len(sock[c]) \in Nat
        /\ Len(got[c]) \in Nat
    BY <1>t, <2>1 DEF SessionType, Published
  <2> HIDE DEF m
  <2>3. \A d \in Clients : got'[d] = IF d = c THEN Append(got[c], m) ELSE got[d]
    BY <1>t, <2>1 DEF SessionType
  <2>4. on' = on
    BY <2>1
  <2>s. Seen(c)' = IF got[c] = <<>> THEN <<>> ELSE Append(Seen(c), m)
    <3>1. got'[c] = Append(got[c], m)
      BY <2>3
    <3>2. SubSeq(Append(got[c], m), 2, Len(Append(got[c], m))) =
            IF got[c] = <<>> THEN <<>> ELSE Append(SubSeq(got[c], 2, Len(got[c])), m)
      BY <2>2, SeenAppend
    <3> QED
      BY <3>1, <3>2, Zenon DEF Seen
  <2>5. CASE got[c] = <<>>
    <3>1. Len(<<>>) \in Int /\ Len(<<>>) < 2 /\ 2 \in Int
      OBVIOUS
    <3>2. Seen(c) = <<>>
      BY <2>5, <3>1, SubSeqEmpty DEF Seen
    <3>3. Seen(c)' = Seen(c)
      BY <2>5, <2>s, <3>2
    <3>4. seen' = seen
      BY <2>3, <3>3 DEF Seen
    <3> QED
      BY <1>v, <2>1, <2>4, <3>4 DEF Ordered!vars, Seen
  <2>6. CASE got[c] # <<>>
    <3>0. PICK b \in Nat, g \in Nat, k \in Nat, n \in Nat :
            b = base[c] /\ g = Len(got[c]) /\ k = Len(sock[c]) /\ n = Published
      BY <2>2
    <3>1. /\ Seen(c)' = Append(Seen(c), m)
          /\ Len(Seen(c)) = g - 1 /\ g >= 1 /\ k >= 1
      <4>1. Len(Seen(c)) = g - 1
        BY <2>2, <2>6, <3>0, SeenType DEF Seen
      <4>2. g >= 1
        BY <2>2, <2>6, <3>0
      <4> QED
        BY <2>2, <2>6, <2>s, <3>0, <4>1, <4>2
    <3>2. Len(Handed(c)) = g + k /\ Handed(c)[g + 1] = m
      <4>1. /\ Len(Handed(c)) = Len(got[c]) + Len(sock[c])
            /\ \A i \in 1 .. Len(got[c]) + Len(sock[c]) : Handed(c)[i] =
                 IF i <= Len(got[c]) THEN got[c][i] ELSE sock[c][i - Len(got[c])]
        BY <2>2, ConcatProperties, Zenon DEF Handed
      <4>2. g + 1 \in 1 .. g + k /\ ~ (g + 1 <= g) /\ (g + 1) - g = 1
        BY <3>1
      <4> QED
        BY <2>2, <3>0, <4>1, <4>2
    <3>3. m = b + g
      <4>1. g + 1 \in 2 .. Len(Handed(c))
        BY <3>1, <3>2
      <4>2. InOrder(Handed(c), b)
        BY <3>0 DEF SessionInv, Progress
      <4>3. Handed(c)[g + 1] = b + (g + 1) - 1
        BY <4>1, <4>2 DEF InOrder
      <4> QED
        BY <3>2, <4>3
    <3>4. b + Len(Seen(c)) < n
      <4>1. b + (g + k) <= n + 1
        BY <3>0, <3>2 DEF DueInv, Due
      <4>2. b + (g - 1) < n
        BY <3>1, <4>1
      <4> QED
        BY <3>1, <4>2
    <3>5. m = base[c] + Len(Seen(c)) + 1
      <4>1. b + g = b + (g - 1) + 1
        OBVIOUS
      <4> QED
        BY <3>0, <3>1, <3>3, <4>1
    <3>6. seen' = [seen EXCEPT ![c] = Append(@, base[c] + Len(@) + 1)]
      <4>1. \A d \in Clients : Seen(d)' = IF d = c THEN Append(Seen(c), m) ELSE Seen(d)
        BY <2>3, <3>1 DEF Seen
      <4>2. seen' = [d \in Clients |-> IF d = c THEN Append(Seen(c), m) ELSE Seen(d)]
        BY <4>1
      <4> QED
        BY <3>5, <4>2
    <3>7. Ordered!Show(c)
      BY <2>1, <2>4, <3>0, <3>4, <3>6 DEF Ordered!Show, Seen
    <3> QED
      BY <3>7 DEF Ordered!Next
  <2> QED
    BY <2>5, <2>6
<1> QED
  BY <1>1, <1>2, <1>3, <1>4, <1>5, <1>6 DEF Next

LEMMA OrderedInit == Init => Ordered!Init
<1> SUFFICES ASSUME Init PROVE Ordered!Init
  OBVIOUS
<1>1. SubSeq(<<>>, 2, Len(<<>>)) = <<>>
  BY SubSeqEmpty
<1> QED
  BY <1>1 DEF Init, Ordered!Init, Published

\* Whatever the channel and the sockets do, every dashboard sees what OrderedFeed
\* allows: no event skipped, repeated or out of order within a session.
THEOREM KeepsOrder == Spec => Ordered!SafeSpec
<1>1. SessionInv /\ DueInv /\ [Next]_vars => [Ordered!Next]_(Ordered!vars)
  BY OrderedStep
<1> QED
  BY SessionInit, SessionStep, DueInit, DueStep, OrderedInit, <1>1, PTL DEF Spec, Ordered!SafeSpec
=============================================================================
