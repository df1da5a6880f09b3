------------------------ MODULE CaptureControlProofs ------------------------
(***************************************************************************)
(* Proofs about CaptureControl for every number of handlers and tasks,     *)
(* files of any length and streams of any length.                          *)
(***************************************************************************)
EXTENDS CaptureControl, FiniteSetTheorems, TLAPS

\* The fields of live_stats and shown are numbers; so are the tasks' counts.
NumbersInv ==
  /\ live_stats \in Stats
  /\ shown \in Stats
  /\ DOMAIN task = Tasks
  /\ \A t \in Tasks : task[t] \in TaskState

Working == {"open", "loop", "alerts", "alerted", "count", "stats", "ending"}

\* What each property needs to be inductive: a task's tracker has no more
\* conversations than the packets it recorded, live_stats counts at least as
\* many as any one task, and shown is an earlier live_stats.
CaptureInv ==
  /\ NumbersInv
  /\ \A t \in Tasks :
       /\ task[t].counted <= live_stats.packets
       /\ task[t].convs <= task[t].counted
            + (IF task[t].pc \in {"alerts", "alerted", "count"} THEN 1 ELSE 0)
  /\ ConversationsBounded
  /\ shown.packets <= live_stats.packets /\ shown.alerts <= live_stats.alerts
  /\ StatusNotStale

LEMMA RequestType ==
  ASSUME NEW kind \in {"file", "missing", "synthetic"}, NEW n \in Nat
  PROVE  Request(kind, n) \in TaskState
BY BoundsAssumption DEF Request, TaskState, Pc

LEMMA UnbornType == Unborn \in TaskState
BY RequestType DEF Unborn, TaskState, Pc

LEMMA RequestsType == Requests \subseteq TaskState
BY RequestType, BoundsAssumption DEF Requests

LEMMA RequestsFresh ==
  ASSUME NEW req \in Requests
  PROVE  req.pc = "spawned" /\ req.counted = 0 /\ req.convs = 0
BY DEF Requests, Request

\* A step of a task that leaves the counters alone and goes on working.
LEMMA WorkingStep ==
  ASSUME CaptureInv, NEW t \in Tasks, NEW r \in TaskState,
         task' = [task EXCEPT ![t] = r],
         r.counted = task[t].counted,
         r.convs <= r.counted + (IF r.pc \in {"alerts", "alerted", "count"} THEN 1 ELSE 0),
         r.pc \in Working, task[t].pc \in Working,
         UNCHANGED <<live_stats, status, shown>>
  PROVE  CaptureInv'
BY DEF CaptureInv, NumbersInv, ConversationsBounded, StatusNotStale, Working

LEMMA CaptureInvariant == Spec => []CaptureInv
<1> USE BoundsAssumption, NoneAssumption
<1>1. Init => CaptureInv
  <2> SUFFICES ASSUME Init PROVE CaptureInv
    OBVIOUS
  <2>1. Unborn \in TaskState /\ Unborn.counted = 0 /\ Unborn.convs = 0 /\ Unborn.pc = "unborn"
    BY UnbornType DEF Unborn, Request
  <2>2. status # TRUE
    BY Zenon DEF Init
  <2>3. NumbersInv
    BY <2>1 DEF Init, NumbersInv, Stats
  <2>4. ASSUME NEW t \in Tasks
        PROVE  /\ task[t].counted <= live_stats.packets
               /\ task[t].convs <= task[t].counted
                    + (IF task[t].pc \in {"alerts", "alerted", "count"} THEN 1 ELSE 0)
    BY <2>1 DEF Init
  <2>5. /\ ConversationsBounded
        /\ shown.packets <= live_stats.packets /\ shown.alerts <= live_stats.alerts
    BY DEF Init, ConversationsBounded
  <2>6. StatusNotStale
    BY <2>2 DEF StatusNotStale
  <2> QED
    BY <2>3, <2>4, <2>5, <2>6 DEF CaptureInv
<1>2. CaptureInv /\ [Next]_vars => CaptureInv'
  <2> SUFFICES ASSUME CaptureInv, [Next]_vars PROVE CaptureInv'
    OBVIOUS
  <2>1. ASSUME NEW h \in Handlers, StartLoad(h) PROVE CaptureInv'
    BY <2>1 DEF StartLoad, CaptureInv, NumbersInv, ConversationsBounded, StatusNotStale
  <2>2. ASSUME NEW h \in Handlers, StartStore(h) PROVE CaptureInv'
    <3>1. PICK t \in Tasks, req \in Requests :
            task[t].pc = "unborn" /\ task' = [task EXCEPT ![t] = req]
      BY <2>2 DEF StartStore
    <3>2. req \in TaskState /\ req.pc = "spawned" /\ req.counted = 0 /\ req.convs = 0
      BY RequestsType, RequestsFresh
    <3>3. UNCHANGED <<live_stats, status, shown>>
      BY <2>2 DEF StartStore
    <3> QED
      BY <3>1, <3>2, <3>3 DEF CaptureInv, NumbersInv, ConversationsBounded, StatusNotStale, Stats
  <2>3. CASE Stop
    BY <2>3 DEF Stop, CaptureInv, NumbersInv, ConversationsBounded, StatusNotStale
  <2>4. ASSUME NEW t \in Tasks, TaskStep(t) PROVE CaptureInv'
    <3> DEFINE to(pc) == [task[t] EXCEPT !.pc = pc]
    <3>1. /\ task[t] \in TaskState
          /\ task[t].convs <= task[t].counted
               + (IF task[t].pc \in {"alerts", "alerted", "count"} THEN 1 ELSE 0)
      BY DEF CaptureInv, NumbersInv
    <3>2. ASSUME NEW pc \in Pc
          PROVE  /\ to(pc) \in TaskState /\ to(pc).pc = pc
                 /\ to(pc).counted = task[t].counted /\ to(pc).convs = task[t].convs
      BY <3>1 DEF TaskState
    <3>3. ASSUME NEW pc \in Pc, Goto(t, pc) PROVE task' = [task EXCEPT ![t] = to(pc)]
      BY <3>3 DEF Goto
    <3>4. CASE Announce(t)
      <4>1. task' = [task EXCEPT ![t] = to("open")]
        BY <3>3, <3>4 DEF Announce, Pc
      <4>2. /\ to("open") \in TaskState /\ to("open").pc = "open"
            /\ to("open").counted = task[t].counted /\ to("open").convs = task[t].convs
        BY <3>2 DEF Pc
      <4> HIDE DEF to
      <4> QED
        BY <3>1, <3>4, <4>1, <4>2
           DEF Announce, CaptureInv, NumbersInv, ConversationsBounded, StatusNotStale
    <3>5. CASE OpenFails(t)
      <4>1. task' = [task EXCEPT ![t] = to("ending")] /\ task[t].pc = "open"
        BY <3>3, <3>5 DEF OpenFails, Pc
      <4>2. /\ to("ending") \in TaskState /\ to("ending").pc = "ending"
            /\ to("ending").counted = task[t].counted /\ to("ending").convs = task[t].convs
        BY <3>2 DEF Pc
      <4> HIDE DEF to
      <4> QED
        BY <3>1, <3>5, <4>1, <4>2, WorkingStep DEF OpenFails, Working
    <3>6. CASE Opened(t)
      <4>1. task' = [task EXCEPT ![t] = to("loop")] /\ task[t].pc = "open"
        BY <3>3, <3>6 DEF Opened, Pc
      <4>2. /\ to("loop") \in TaskState /\ to("loop").pc = "loop"
            /\ to("loop").counted = task[t].counted /\ to("loop").convs = task[t].convs
        BY <3>2 DEF Pc
      <4> HIDE DEF to
      <4> QED
        BY <3>1, <3>6, <4>1, <4>2, WorkingStep DEF Opened, Working
    <3>7. CASE LoopEnds(t)
      <4>1. task' = [task EXCEPT ![t] = to("ending")] /\ task[t].pc = "loop"
        BY <3>3, <3>7 DEF LoopEnds, Pc
      <4>2. /\ to("ending") \in TaskState /\ to("ending").pc = "ending"
            /\ to("ending").counted = task[t].counted /\ to("ending").convs = task[t].convs
        BY <3>2 DEF Pc
      <4> HIDE DEF to
      <4> QED
        BY <3>1, <3>7, <4>1, <4>2, WorkingStep DEF LoopEnds, Working
    <3>8. CASE TakePacket(t)
      <4>1. PICK new \in 0 .. 1, n \in 0 .. MaxAlerts :
              task' = [task EXCEPT ![t] = Recorded(task[t], new, n)]
        BY <3>8 DEF TakePacket
      <4> DEFINE r == Recorded(task[t], new, n)
      <4>2. r = [task[t] EXCEPT !.pc = "alerts", !.convs = task[t].convs + new, !.pending = n,
                   !.left = IF task[t].kind = "file" THEN task[t].left - 1 ELSE task[t].left]
        BY DEF Recorded
      <4>3. /\ r \in TaskState /\ r.pc = "alerts"
            /\ r.counted = task[t].counted /\ r.convs <= r.counted + 1
        <5>1. /\ task[t].kind = "file" => task[t].left - 1 \in Nat
              /\ task[t].left \in Nat /\ task[t].convs \in Nat
              /\ task[t].convs + new \in Nat
              /\ task[t].convs <= task[t].counted /\ task[t].counted \in Nat
          BY <3>1, <3>8 DEF TakePacket, TaskState
        <5>2. r.counted = task[t].counted /\ r.convs = task[t].convs + new /\ r.pc = "alerts"
          BY <3>1, <4>2 DEF TaskState
        <5>3. r \in TaskState
          BY <3>1, <4>2, <5>1 DEF TaskState, Pc
        <5> HIDE DEF r
        <5> QED
          BY <4>1, <5>1, <5>2, <5>3
      <4>4. task[t].pc = "loop" /\ UNCHANGED <<live_stats, status, shown>>
        BY <3>8 DEF TakePacket
      <4> HIDE DEF r
      <4>5. task' = [task EXCEPT ![t] = r]
        BY <4>1 DEF r
      <4> QED
        BY <4>3, <4>4, <4>5, WorkingStep DEF Working
    <3>9. CASE SendAlert(t)
      <4> DEFINE r == [task[t] EXCEPT !.pc = "alerted", !.pending = @ - 1]
      <4>1. task' = [task EXCEPT ![t] = r]
        BY <3>9 DEF SendAlert
      <4>2. /\ r \in TaskState /\ r.pc = "alerted"
            /\ r.counted = task[t].counted /\ r.convs = task[t].convs
        <5>1. task[t].pending - 1 \in 0 .. MaxAlerts
          BY <3>1, <3>9 DEF SendAlert, TaskState
        <5> QED
          BY <3>1, <5>1 DEF TaskState, Pc
      <4>3. task[t].pc = "alerts" /\ UNCHANGED <<live_stats, status, shown>>
        BY <3>9 DEF SendAlert
      <4> HIDE DEF r
      <4> QED
        BY <3>1, <4>1, <4>2, <4>3, WorkingStep DEF Working
    <3>10. CASE CountAlert(t)
      <4>1. task' = [task EXCEPT ![t] = to("alerts")] /\ task[t].pc = "alerted"
        BY <3>3, <3>10 DEF CountAlert, Pc
      <4>2. /\ to("alerts") \in TaskState /\ to("alerts").pc = "alerts"
            /\ to("alerts").counted = task[t].counted /\ to("alerts").convs = task[t].convs
        BY <3>2 DEF Pc
      <4>3. /\ live_stats' \in Stats /\ live_stats'.packets = live_stats.packets
            /\ live_stats'.conversations = live_stats.conversations
            /\ live_stats'.alerts = live_stats.alerts + 1
            /\ UNCHANGED <<status, shown>>
        BY <3>10 DEF CountAlert, CaptureInv, NumbersInv, Stats
      <4> HIDE DEF to
      <4> QED
        BY <3>1, <4>1, <4>2, <4>3
           DEF CaptureInv, NumbersInv, ConversationsBounded, StatusNotStale, Stats
    <3>11. CASE AlertsDone(t)
      <4>1. task' = [task EXCEPT ![t] = to("count")] /\ task[t].pc = "alerts"
        BY <3>3, <3>11 DEF AlertsDone, Pc
      <4>2. /\ to("count") \in TaskState /\ to("count").pc = "count"
            /\ to("count").counted = task[t].counted /\ to("count").convs = task[t].convs
        BY <3>2 DEF Pc
      <4> HIDE DEF to
      <4> QED
        BY <3>1, <3>11, <4>1, <4>2, WorkingStep DEF AlertsDone, Working
    <3>12. CASE CountPacket(t)
      <4>1. PICK pc \in {"stats", "loop"} :
              task' = [task EXCEPT ![t] = [task[t] EXCEPT !.counted = @ + 1, !.pc = pc]]
        BY <3>12 DEF CountPacket
      <4> DEFINE r == [task[t] EXCEPT !.counted = @ + 1, !.pc = pc]
      <4>2. /\ r \in TaskState /\ r.pc = pc
            /\ r.counted = task[t].counted + 1 /\ r.convs = task[t].convs
        <5>1. task[t].counted + 1 \in Nat /\ pc \in Pc
          BY <3>1 DEF TaskState, Pc
        <5> QED
          BY <3>1, <5>1 DEF TaskState
      <4>3. /\ live_stats' \in Stats /\ live_stats'.packets = live_stats.packets + 1
            /\ live_stats'.conversations = task[t].convs
            /\ live_stats'.alerts = live_stats.alerts
            /\ task[t].pc = "count" /\ UNCHANGED <<status, shown>>
        BY <3>1, <3>12 DEF CountPacket, Counted, CaptureInv, NumbersInv, Stats, TaskState
      <4>4. task' = [task EXCEPT ![t] = r]
        BY <4>1
      <4>5. task[t].counted \in Nat /\ task[t].convs \in Nat /\ task[t].counted <= live_stats.packets
        BY <3>1 DEF TaskState, CaptureInv
      <4> HIDE DEF r
      <4>6. NumbersInv'
        BY <4>2, <4>3, <4>4 DEF CaptureInv, NumbersInv
      <4>7. ASSUME NEW u \in Tasks
            PROVE  /\ task'[u].counted <= live_stats'.packets
                   /\ task'[u].convs <= task'[u].counted
                        + (IF task'[u].pc \in {"alerts", "alerted", "count"} THEN 1 ELSE 0)
        <5>1. CASE u = t
          BY <3>1, <4>2, <4>3, <4>4, <4>5, <5>1 DEF CaptureInv, NumbersInv, Stats
        <5>2. CASE u # t
          <6>1. task'[u] = task[u] /\ task[u].counted \in Nat /\ live_stats.packets \in Nat
            BY <4>4, <5>2 DEF CaptureInv, NumbersInv, TaskState, Stats
          <6> QED
            BY <4>3, <6>1 DEF CaptureInv
        <5> QED
          BY <5>1, <5>2
      <4>8. ConversationsBounded'
        BY <3>1, <4>3, <4>5 DEF ConversationsBounded, CaptureInv, NumbersInv, Stats
      <4>9. shown'.packets <= live_stats'.packets /\ shown'.alerts <= live_stats'.alerts
        BY <4>3 DEF CaptureInv, NumbersInv, Stats
      <4>10. StatusNotStale'
        BY <4>2, <4>3, <4>4 DEF CaptureInv, NumbersInv, StatusNotStale
      <4> QED
        BY <4>6, <4>7, <4>8, <4>9, <4>10 DEF CaptureInv
    <3>13. CASE BroadcastStats(t)
      <4>1. task' = [task EXCEPT ![t] = to("loop")] /\ task[t].pc = "stats"
        BY <3>3, <3>13 DEF BroadcastStats, Pc
      <4>2. /\ to("loop") \in TaskState /\ to("loop").pc = "loop"
            /\ to("loop").counted = task[t].counted /\ to("loop").convs = task[t].convs
        BY <3>2 DEF Pc
      <4>3. shown' = live_stats /\ UNCHANGED <<live_stats, status>>
        BY <3>13 DEF BroadcastStats
      <4> HIDE DEF to
      <4> QED
        BY <3>1, <4>1, <4>2, <4>3
           DEF CaptureInv, NumbersInv, ConversationsBounded, StatusNotStale, Stats
    <3>14. CASE Finish(t)
      <4>1. task' = [task EXCEPT ![t] = to("done")] /\ task[t].pc = "ending"
        BY <3>3, <3>14 DEF Finish, Pc
      <4>2. /\ to("done") \in TaskState /\ to("done").pc = "done"
            /\ to("done").counted = task[t].counted /\ to("done").convs = task[t].convs
        BY <3>2 DEF Pc
      <4>3. status' = FALSE /\ UNCHANGED <<live_stats, shown>>
        BY <3>14 DEF Finish
      <4> HIDE DEF to
      <4> QED
        BY <3>1, <4>1, <4>2, <4>3
           DEF CaptureInv, NumbersInv, ConversationsBounded, StatusNotStale
    <3> QED
      BY <2>4, <3>4, <3>5, <3>6, <3>7, <3>8, <3>9, <3>10, <3>11, <3>12, <3>13, <3>14
         DEF TaskStep
  <2>5. CASE UNCHANGED vars
    BY <2>5 DEF vars, CaptureInv, NumbersInv, ConversationsBounded, StatusNotStale
  <2> QED
    BY <2>1, <2>2, <2>3, <2>4, <2>5 DEF Next
<1> QED
  BY <1>1, <1>2, PTL DEF Spec

\* A finished capture is never shown as running.
THEOREM StatusFresh == Spec => []StatusNotStale
BY CaptureInvariant, PTL DEF CaptureInv

\* live_stats never reports more conversations than packets.
THEOREM FewerConversations == Spec => []ConversationsBounded
BY CaptureInvariant, PTL DEF CaptureInv

\* The numbers of successive live Stats events never go down.
THEOREM ShownNeverFalls == Spec => ShownMonotone
<1>1. CaptureInv /\ [Next]_vars =>
        [shown'.packets >= shown.packets /\ shown'.alerts >= shown.alerts]_vars
  <2> SUFFICES ASSUME CaptureInv, Next
               PROVE shown'.packets >= shown.packets /\ shown'.alerts >= shown.alerts
    OBVIOUS
  <2>1. shown.packets \in Nat /\ shown.alerts \in Nat
    BY DEF CaptureInv, NumbersInv, Stats
  <2>2. shown' = shown \/ shown' = live_stats
    BY DEF Next, StartLoad, StartStore, Stop, TaskStep, Announce, OpenFails, Opened, LoopEnds,
           TakePacket, SendAlert, CountAlert, AlertsDone, CountPacket, BroadcastStats, Finish
  <2>3. live_stats.packets \in Nat /\ live_stats.alerts \in Nat
    BY DEF CaptureInv, NumbersInv, Stats
  <2> QED
    BY <2>1, <2>2, <2>3 DEF CaptureInv
<1> QED
  BY <1>1, CaptureInvariant, PTL DEF Spec, ShownMonotone

-----------------------------------------------------------------------------
(***************************************************************************)
(* The shared counters and what was broadcast                              *)
(***************************************************************************)
Sent == [packets : Nat, alerts : Nat]

\* The tasks whose packet is broadcast and not yet counted.
InHand == {"alerts", "alerted", "count"}

\* A task of record r has broadcast an alert that live_stats does not hold.
Owing(r) == r.pc = "alerted" \/ (r.kind = "missing" /\ r.pc \in {"ending", "done"})

\* Only a pcap that opened is read: its task is the only one to reach the loop.
Opens ==
  \A t \in Tasks :
    task[t].kind = "missing" => task[t].pc \in {"spawned", "open", "ending", "done"}

FollowInv == NumbersInv /\ sent \in Sent /\ Opens /\ StatsFollowFeed

LEMMA AtFinite == \A pcs : IsFiniteSet(At(pcs)) /\ Cardinality(At(pcs)) \in Nat
<1> TAKE pcs
<1>1. At(pcs) \subseteq Tasks
  BY DEF At
<1>2. IsFiniteSet(At(pcs))
  BY <1>1, TasksAssumption, FS_Subset
<1> QED
  BY <1>2, FS_CardinalityType

\* A step of one task moves that task only.
LEMMA AtMoves ==
  ASSUME NEW t \in Tasks, NEW pcs, \A u \in Tasks \ {t} : task'[u] = task[u]
  PROVE  /\ (task[t].pc \in pcs <=> task'[t].pc \in pcs) =>
              Cardinality(At(pcs)') = Cardinality(At(pcs))
         /\ task[t].pc \notin pcs /\ task'[t].pc \in pcs =>
              Cardinality(At(pcs)') = Cardinality(At(pcs)) + 1
         /\ task[t].pc \in pcs /\ task'[t].pc \notin pcs =>
              Cardinality(At(pcs)') + 1 = Cardinality(At(pcs))
<1> DEFINE S == {u \in Tasks : task[u].pc \in pcs}
           T == {u \in Tasks : task'[u].pc \in pcs}
<1>1. S = At(pcs) /\ T = At(pcs)'
  BY DEF At
<1>2. S \subseteq Tasks /\ T \subseteq Tasks
  OBVIOUS
<1>3. IsFiniteSet(S) /\ IsFiniteSet(T)
  BY <1>2, TasksAssumption, FS_Subset
<1>4. (task[t].pc \in pcs <=> task'[t].pc \in pcs) => S = T
  OBVIOUS
<1>5. task[t].pc \notin pcs /\ task'[t].pc \in pcs => T = S \cup {t} /\ t \notin S
  OBVIOUS
<1>6. task[t].pc \in pcs /\ task'[t].pc \notin pcs => S = T \cup {t} /\ t \notin T
  OBVIOUS
<1> HIDE DEF S, T
<1>7. t \notin S => Cardinality(S \cup {t}) = Cardinality(S) + 1
  BY <1>3, FS_AddElement
<1>8. t \notin T => Cardinality(T \cup {t}) = Cardinality(T) + 1
  BY <1>3, FS_AddElement
<1>9. /\ (task[t].pc \in pcs <=> task'[t].pc \in pcs) => Cardinality(T) = Cardinality(S)
      /\ task[t].pc \notin pcs /\ task'[t].pc \in pcs => Cardinality(T) = Cardinality(S) + 1
      /\ task[t].pc \in pcs /\ task'[t].pc \notin pcs => Cardinality(T) + 1 = Cardinality(S)
  BY <1>4, <1>5, <1>6, <1>7, <1>8, Zenon
<1> QED
  BY <1>1, <1>9, Zenon

\* The same of the tasks that owe an alert.
LEMMA UncountedMoves ==
  ASSUME NEW t \in Tasks, \A u \in Tasks \ {t} : task'[u] = task[u]
  PROVE  /\ IsFiniteSet(Uncounted) /\ IsFiniteSet(Uncounted')
         /\ (Owing(task[t]) <=> Owing(task'[t])) =>
              Cardinality(Uncounted') = Cardinality(Uncounted)
         /\ ~ Owing(task[t]) /\ Owing(task'[t]) =>
              Cardinality(Uncounted') = Cardinality(Uncounted) + 1
         /\ Owing(task[t]) /\ ~ Owing(task'[t]) =>
              Cardinality(Uncounted') + 1 = Cardinality(Uncounted)
<1> DEFINE S == {u \in Tasks : Owing(task[u])}
           T == {u \in Tasks : Owing(task'[u])}
<1>1. S = Uncounted /\ T = Uncounted'
  BY DEF Uncounted, Owing
<1>2. S \subseteq Tasks /\ T \subseteq Tasks
  OBVIOUS
<1>3. IsFiniteSet(S) /\ IsFiniteSet(T)
  BY <1>2, TasksAssumption, FS_Subset
<1>4. (Owing(task[t]) <=> Owing(task'[t])) => S = T
  OBVIOUS
<1>5. ~ Owing(task[t]) /\ Owing(task'[t]) => T = S \cup {t} /\ t \notin S
  OBVIOUS
<1>6. Owing(task[t]) /\ ~ Owing(task'[t]) => S = T \cup {t} /\ t \notin T
  OBVIOUS
<1> HIDE DEF S, T
<1>7. t \notin S => Cardinality(S \cup {t}) = Cardinality(S) + 1
  BY <1>3, FS_AddElement
<1>8. t \notin T => Cardinality(T \cup {t}) = Cardinality(T) + 1
  BY <1>3, FS_AddElement
<1>9. /\ (Owing(task[t]) <=> Owing(task'[t])) => Cardinality(T) = Cardinality(S)
      /\ ~ Owing(task[t]) /\ Owing(task'[t]) => Cardinality(T) = Cardinality(S) + 1
      /\ Owing(task[t]) /\ ~ Owing(task'[t]) => Cardinality(T) + 1 = Cardinality(S)
  BY <1>4, <1>5, <1>6, <1>7, <1>8, Zenon
<1> QED
  BY <1>1, <1>3, <1>9, Zenon

\* Where a step leaves its task, and what it counts.
LEMMA TaskMoves ==
  ASSUME NumbersInv, Opens, sent \in Sent, NEW t \in Tasks, TaskStep(t)
  PROVE  /\ \A u \in Tasks \ {t} : task'[u] = task[u]
         /\ sent' \in Sent
         /\ task'[t].kind = task[t].kind
         /\ task[t].kind = "missing" => task'[t].pc \in {"spawned", "open", "ending", "done"}
         /\ \/ /\ UNCHANGED <<live_stats, sent>>
               /\ task[t].pc \in InHand <=> task'[t].pc \in InHand
               /\ Owing(task[t]) <=> Owing(task'[t])
            \/ /\ OpenFails(t) /\ task[t].pc = "open" /\ task'[t].pc = "ending"
               /\ task[t].kind = "missing"
               /\ sent'.packets = sent.packets /\ sent'.alerts = sent.alerts + 1
               /\ live_stats' = live_stats
            \/ /\ TakePacket(t) /\ task[t].pc = "loop" /\ task'[t].pc = "alerts"
               /\ sent'.packets = sent.packets + 1 /\ sent'.alerts = sent.alerts
               /\ live_stats' = live_stats
            \/ /\ SendAlert(t) /\ task[t].pc = "alerts" /\ task'[t].pc = "alerted"
               /\ sent'.packets = sent.packets /\ sent'.alerts = sent.alerts + 1
               /\ live_stats' = live_stats
            \/ /\ CountAlert(t) /\ task[t].pc = "alerted" /\ task'[t].pc = "alerts"
               /\ live_stats'.packets = live_stats.packets
               /\ live_stats'.alerts = live_stats.alerts + 1
               /\ sent' = sent
            \/ /\ CountPacket(t) /\ task[t].pc = "count" /\ task'[t].pc \in {"stats", "loop"}
               /\ live_stats'.packets = live_stats.packets + 1
               /\ live_stats'.alerts = live_stats.alerts
               /\ sent' = sent
<1>0. /\ task[t] \in TaskState /\ DOMAIN task = Tasks /\ live_stats \in Stats
      /\ task[t].kind = "missing" => task[t].pc \in {"spawned", "open", "ending", "done"}
  BY DEF NumbersInv, Opens
<1>1. ASSUME NEW pc, Goto(t, pc)
      PROVE  /\ task'[t].pc = pc /\ task'[t].kind = task[t].kind
             /\ \A u \in Tasks \ {t} : task'[u] = task[u]
  BY <1>0, <1>1 DEF Goto, TaskState
<1>2. CASE \/ Announce(t) \/ Opened(t) \/ LoopEnds(t) \/ AlertsDone(t)
           \/ BroadcastStats(t) \/ Finish(t)
  <2>1. UNCHANGED <<live_stats, sent>>
    BY <1>2 DEF Announce, Opened, LoopEnds, AlertsDone, BroadcastStats, Finish
  <2>2. PICK old, new :
          /\ task[t].pc = old /\ Goto(t, new)
          /\ old \in InHand <=> new \in InHand
          /\ old # "alerted" /\ new # "alerted"
          /\ task[t].kind = "missing" =>
               /\ new \in {"spawned", "open", "ending", "done"}
               /\ old \in {"ending", "done"} <=> new \in {"ending", "done"}
    <3>1. CASE Announce(t)
      BY <3>1 DEF Announce, InHand
    <3>2. CASE Opened(t)
      BY <3>2 DEF Opened, InHand
    <3>3. CASE LoopEnds(t)
      BY <1>0, <3>3 DEF LoopEnds, InHand
    <3>4. CASE AlertsDone(t)
      BY <1>0, <3>4 DEF AlertsDone, InHand
    <3>5. CASE BroadcastStats(t)
      BY <1>0, <3>5 DEF BroadcastStats, InHand
    <3>6. CASE Finish(t)
      BY <3>6 DEF Finish, InHand
    <3> QED
      BY <1>2, <3>1, <3>2, <3>3, <3>4, <3>5, <3>6
  <2>3. /\ task'[t].pc = new /\ task'[t].kind = task[t].kind
        /\ \A u \in Tasks \ {t} : task'[u] = task[u]
    BY <1>1, <2>2
  <2>4. Owing(task[t]) <=> Owing(task'[t])
    BY <2>2, <2>3 DEF Owing
  <2>5. sent' \in Sent
    BY <2>1
  <2> QED
    BY <2>1, <2>2, <2>3, <2>4, <2>5
<1>3. CASE TakePacket(t)
  <2>1. PICK new \in 0 .. 1, n \in 0 .. MaxAlerts :
          task' = [task EXCEPT ![t] = Recorded(task[t], new, n)]
    BY <1>3 DEF TakePacket
  <2>2. Recorded(task[t], new, n).pc = "alerts" /\ Recorded(task[t], new, n).kind = task[t].kind
    BY <1>0 DEF Recorded, TaskState
  <2>3. /\ task'[t].pc = "alerts" /\ task'[t].kind = task[t].kind
        /\ \A u \in Tasks \ {t} : task'[u] = task[u]
    BY <1>0, <2>1, <2>2
  <2>4. /\ sent' \in Sent /\ sent'.packets = sent.packets + 1 /\ sent'.alerts = sent.alerts
    BY <1>3 DEF TakePacket, Sent
  <2>5. task[t].pc = "loop" /\ live_stats' = live_stats
    BY <1>3 DEF TakePacket
  <2> QED
    BY <1>0, <1>3, <2>3, <2>4, <2>5
<1>4. CASE SendAlert(t)
  <2>1. /\ task'[t].pc = "alerted" /\ task'[t].kind = task[t].kind
        /\ \A u \in Tasks \ {t} : task'[u] = task[u]
    BY <1>0, <1>4 DEF SendAlert, TaskState
  <2>2. /\ sent' \in Sent /\ sent'.packets = sent.packets /\ sent'.alerts = sent.alerts + 1
    BY <1>4 DEF SendAlert, Sent
  <2>3. task[t].pc = "alerts" /\ live_stats' = live_stats
    BY <1>4 DEF SendAlert
  <2> QED
    BY <1>0, <1>4, <2>1, <2>2, <2>3
<1>5. CASE CountAlert(t)
  <2>1. /\ task'[t].pc = "alerts" /\ task'[t].kind = task[t].kind
        /\ \A u \in Tasks \ {t} : task'[u] = task[u]
    BY <1>1, <1>5 DEF CountAlert
  <2>2. live_stats'.packets = live_stats.packets /\ live_stats'.alerts = live_stats.alerts + 1
    BY <1>0, <1>5 DEF CountAlert, Stats
  <2>3. task[t].pc = "alerted" /\ sent' = sent
    BY <1>5 DEF CountAlert
  <2> QED
    BY <1>0, <1>5, <2>1, <2>2, <2>3
<1>6. CASE CountPacket(t)
  <2>1. PICK pc \in {"stats", "loop"} :
          task' = [task EXCEPT ![t] = [task[t] EXCEPT !.counted = @ + 1, !.pc = pc]]
    BY <1>6 DEF CountPacket
  <2>2. /\ task'[t].pc \in {"stats", "loop"} /\ task'[t].kind = task[t].kind
        /\ \A u \in Tasks \ {t} : task'[u] = task[u]
    BY <1>0, <2>1 DEF TaskState
  <2>3. live_stats'.packets = live_stats.packets + 1 /\ live_stats'.alerts = live_stats.alerts
    BY <1>0, <1>6 DEF CountPacket, Counted, Stats
  <2>4. task[t].pc = "count" /\ sent' = sent
    BY <1>6 DEF CountPacket
  <2> QED
    BY <1>0, <1>6, <2>2, <2>3, <2>4
<1>7. CASE OpenFails(t)
  <2>1. /\ task'[t].pc = "ending" /\ task'[t].kind = task[t].kind
        /\ \A u \in Tasks \ {t} : task'[u] = task[u]
    BY <1>1, <1>7 DEF OpenFails
  <2>2. /\ sent' \in Sent /\ sent'.packets = sent.packets /\ sent'.alerts = sent.alerts + 1
    BY <1>7 DEF OpenFails, Sent
  <2>3. task[t].pc = "open" /\ task[t].kind = "missing" /\ live_stats' = live_stats
    BY <1>7 DEF OpenFails
  <2> QED
    BY <1>7, <2>1, <2>2, <2>3
<1> QED
  BY <1>2, <1>3, <1>4, <1>5, <1>6, <1>7 DEF TaskStep

LEMMA FollowStep == FollowInv /\ NumbersInv' /\ [Next]_vars => FollowInv'
<1> SUFFICES ASSUME FollowInv, NumbersInv', [Next]_vars PROVE sent' \in Sent /\ Opens' /\ StatsFollowFeed'
  BY DEF FollowInv
<1>1. PICK b \in Nat, c \in Nat, newb \in Nat, newc \in Nat :
        /\ b = Cardinality(At(InHand)) /\ newb = Cardinality(At(InHand)')
        /\ c = Cardinality(Uncounted) /\ newc = Cardinality(Uncounted')
  <2>1. \A pcs : Cardinality(At(pcs)') \in Nat
    <3> TAKE pcs
    <3>1. At(pcs)' \subseteq Tasks
      BY DEF At
    <3>2. IsFiniteSet(At(pcs)')
      BY <3>1, TasksAssumption, FS_Subset
    <3> QED
      BY <3>2, FS_CardinalityType
  <2>2. Uncounted \subseteq Tasks /\ Uncounted' \subseteq Tasks
    BY DEF Uncounted
  <2>3. IsFiniteSet(Uncounted) /\ IsFiniteSet(Uncounted')
    BY <2>2, TasksAssumption, FS_Subset
  <2>4. Cardinality(Uncounted) \in Nat /\ Cardinality(Uncounted') \in Nat
    BY <2>3, FS_CardinalityType
  <2> QED
    BY <2>1, <2>4, AtFinite
<1>2. /\ live_stats \in Stats /\ live_stats' \in Stats /\ sent \in Sent
      /\ live_stats.packets + b = sent.packets /\ live_stats.alerts + c = sent.alerts
  BY <1>1 DEF FollowInv, NumbersInv, StatsFollowFeed, InHand
<1>3. SUFFICES /\ sent' \in Sent /\ Opens'
               /\ live_stats'.packets + newb = sent'.packets
               /\ live_stats'.alerts + newc = sent'.alerts
  BY <1>1 DEF StatsFollowFeed, InHand
<1>4. CASE Stop \/ (\E h \in Handlers : StartLoad(h) \/ StartStore(h)) \/ UNCHANGED vars
  <2>1. UNCHANGED <<live_stats, sent>>
    BY <1>4 DEF Stop, StartLoad, StartStore, vars
  <2>2. newb = b /\ newc = c /\ Opens'
    <3>1. CASE task' = task
      BY <1>1, <3>1 DEF At, Uncounted, FollowInv, Opens
    <3>2. ASSUME NEW h \in Handlers, StartStore(h) PROVE newb = b /\ newc = c /\ Opens'
      <4>1. PICK t \in Tasks, req \in Requests :
              task[t].pc = "unborn" /\ task' = [task EXCEPT ![t] = req]
        BY <3>2 DEF StartStore
      <4>2. req.pc = "spawned"
        BY RequestsFresh
      <4>3. task'[t].pc = "spawned" /\ \A u \in Tasks \ {t} : task'[u] = task[u]
        BY <4>1, <4>2 DEF FollowInv, NumbersInv
      <4>4. /\ task[t].pc \in InHand <=> task'[t].pc \in InHand
            /\ ~ Owing(task[t]) /\ ~ Owing(task'[t])
        BY <4>1, <4>3 DEF InHand, Owing
      <4>5. newb = b
        BY <1>1, <4>3, <4>4, AtMoves
      <4>6. newc = c
        BY <1>1, <4>3, <4>4, UncountedMoves
      <4>7. Opens'
        BY <4>3 DEF FollowInv, Opens
      <4> QED
        BY <4>5, <4>6, <4>7
    <3> QED
      BY <1>4, <3>1, <3>2 DEF Stop, StartLoad, vars
  <2> QED
    BY <1>2, <2>1, <2>2
<1>5. ASSUME NEW t \in Tasks, TaskStep(t)
      PROVE  /\ sent' \in Sent /\ Opens'
             /\ live_stats'.packets + newb = sent'.packets
             /\ live_stats'.alerts + newc = sent'.alerts
  <2>1. (\A u \in Tasks \ {t} : task'[u] = task[u]) /\ sent' \in Sent /\ Opens'
    BY <1>2, <1>5, TaskMoves DEF FollowInv, Opens
  <2>2. /\ (task[t].pc \in InHand <=> task'[t].pc \in InHand) => newb = b
        /\ task[t].pc \notin InHand /\ task'[t].pc \in InHand => newb = b + 1
        /\ task[t].pc \in InHand /\ task'[t].pc \notin InHand => newb + 1 = b
    BY <1>1, <2>1, AtMoves
  <2>3. /\ (Owing(task[t]) <=> Owing(task'[t])) => newc = c
        /\ ~ Owing(task[t]) /\ Owing(task'[t]) => newc = c + 1
        /\ Owing(task[t]) /\ ~ Owing(task'[t]) => newc + 1 = c
    BY <1>1, <2>1, UncountedMoves
  <2>4. PICK p \in Nat, a \in Nat, newp \in Nat, newa \in Nat,
             sp \in Nat, sa \in Nat, newsp \in Nat, newsa \in Nat :
          /\ p = live_stats.packets /\ a = live_stats.alerts
          /\ newp = live_stats'.packets /\ newa = live_stats'.alerts
          /\ sp = sent.packets /\ sa = sent.alerts
          /\ newsp = sent'.packets /\ newsa = sent'.alerts
    BY <1>2, <2>1 DEF Stats, Sent
  <2>5. p + b = sp /\ a + c = sa
    BY <1>2, <2>4
  <2>6. newp + newb = newsp /\ newa + newc = newsa
    <3>1. CASE /\ UNCHANGED <<live_stats, sent>>
               /\ task[t].pc \in InHand <=> task'[t].pc \in InHand
               /\ Owing(task[t]) <=> Owing(task'[t])
      <4>1. newb = b /\ newc = c
        BY <2>2, <2>3, <3>1
      <4> QED
        BY <2>4, <2>5, <3>1, <4>1
    <3>2. CASE /\ task[t].pc = "loop" /\ task'[t].pc = "alerts"
               /\ sent'.packets = sent.packets + 1 /\ sent'.alerts = sent.alerts
               /\ live_stats' = live_stats
      <4>1. newb = b + 1 /\ newc = c
        BY <2>2, <2>3, <3>2 DEF InHand, Owing
      <4>2. newp = p /\ newa = a /\ newsp = sp + 1 /\ newsa = sa
        BY <2>4, <3>2
      <4> QED
        BY <2>5, <4>1, <4>2
    <3>3. CASE /\ task[t].pc = "alerts" /\ task'[t].pc = "alerted"
               /\ sent'.packets = sent.packets /\ sent'.alerts = sent.alerts + 1
               /\ live_stats' = live_stats
      <4>1. newb = b /\ newc = c + 1
        BY <2>2, <2>3, <3>3 DEF InHand, Owing
      <4>2. newp = p /\ newa = a /\ newsp = sp /\ newsa = sa + 1
        BY <2>4, <3>3
      <4> QED
        BY <2>5, <4>1, <4>2
    <3>4. CASE /\ task[t].pc = "alerted" /\ task'[t].pc = "alerts"
               /\ live_stats'.packets = live_stats.packets
               /\ live_stats'.alerts = live_stats.alerts + 1
               /\ sent' = sent
      <4>1. newb = b /\ newc + 1 = c
        BY <2>2, <2>3, <3>4 DEF InHand, Owing
      <4>2. newp = p /\ newa = a + 1 /\ newsp = sp /\ newsa = sa
        BY <2>4, <3>4
      <4> QED
        BY <2>5, <4>1, <4>2
    <3>5. CASE /\ task[t].pc = "count" /\ task'[t].pc \in {"stats", "loop"}
               /\ live_stats'.packets = live_stats.packets + 1
               /\ live_stats'.alerts = live_stats.alerts
               /\ sent' = sent
      <4>1. newb + 1 = b /\ newc = c
        BY <2>2, <2>3, <3>5 DEF InHand, Owing
      <4>2. newp = p + 1 /\ newa = a /\ newsp = sp /\ newsa = sa
        BY <2>4, <3>5
      <4> QED
        BY <2>5, <4>1, <4>2
    <3>6. CASE /\ task[t].pc = "open" /\ task'[t].pc = "ending"
               /\ task[t].kind = "missing" /\ task'[t].kind = "missing"
               /\ sent'.packets = sent.packets /\ sent'.alerts = sent.alerts + 1
               /\ live_stats' = live_stats
      <4>1. newb = b /\ newc = c + 1
        BY <2>2, <2>3, <3>6 DEF InHand, Owing
      <4>2. newp = p /\ newa = a /\ newsp = sp /\ newsa = sa + 1
        BY <2>4, <3>6
      <4> QED
        BY <2>5, <4>1, <4>2
    <3> QED
      BY <1>2, <1>5, <3>1, <3>2, <3>3, <3>4, <3>5, <3>6, TaskMoves DEF FollowInv
  <2> QED
    BY <2>1, <2>4, <2>6
<1> QED
  BY <1>4, <1>5 DEF Next

\* The shared packet counter lags what was broadcast by exactly the packets in
\* hand, the alert counter by the alerts in hand and by one alert for each
\* capture whose pcap did not open: no update of capture tasks that run side by
\* side is lost or made twice.
THEOREM StatsFollow == Spec => []StatsFollowFeed
<1>1. Init => FollowInv
  <2> SUFFICES ASSUME Init PROVE FollowInv
    OBVIOUS
  <2>1. NumbersInv
    BY UnbornType DEF Init, NumbersInv, Stats
  <2>2. \A t \in Tasks : task[t].pc = "unborn" /\ task[t].kind = "synthetic"
    BY DEF Init, Unborn, Request
  <2>3. At(InHand) = {} /\ Uncounted = {} /\ Opens
    BY <2>2 DEF At, InHand, Uncounted, Opens
  <2>4. Cardinality(At(InHand)) = 0 /\ Cardinality(Uncounted) = 0
    BY <2>3, FS_EmptySet
  <2>5. StatsFollowFeed
    BY <2>4 DEF Init, StatsFollowFeed, InHand
  <2> QED
    BY <2>1, <2>3, <2>5 DEF Init, FollowInv, Sent
<1>2. CaptureInv => NumbersInv
  BY DEF CaptureInv
<1>3. FollowInv => StatsFollowFeed
  BY DEF FollowInv
<1> QED
  BY <1>1, <1>2, <1>3, FollowStep, CaptureInvariant, PTL DEF Spec
=============================================================================
