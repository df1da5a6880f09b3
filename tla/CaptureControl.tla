--------------------------- MODULE CaptureControl ---------------------------
(***************************************************************************)
(* Starting, running and stopping live captures (api/src/main.rs,          *)
(* capture_start, the task it spawns, capture_stop), with the live_stats   *)
(* counters and the Status and Stats events the tasks broadcast.           *)
(*                                                                         *)
(* Handlers and tasks run on the threads of the tokio runtime: any two     *)
(* steps of different ones interleave.  A section under live_stats' lock   *)
(* has no await in it, so it is one step.  What a packet or an alert says  *)
(* is left out; a task sleeps between two packets at pc "loop".            *)
(***************************************************************************)
EXTENDS Integers, FiniteSets, FiniteSetsExt

CONSTANTS
  Handlers,    \* concurrent calls of capture_start
  Tasks,       \* bound: the tasks spawned
  None,        \* no Status event yet
  FileLengths, \* packets a pcap holds before its end or a read error
  MaxSteps,    \* bound: packets of one synthetic stream
  MaxAlerts,   \* bound: alerts the engine raises for one packet
  StatsEvery   \* a synthetic stream broadcasts Stats every so many packets (5)

ASSUME NoneAssumption   == None \notin BOOLEAN
ASSUME TasksAssumption  == IsFiniteSet(Tasks)
ASSUME BoundsAssumption == /\ FileLengths \subseteq Nat /\ MaxSteps \in Nat
                           /\ MaxAlerts \in Nat /\ StatsEvery \in Nat \ {0}

VARIABLES
  is_capturing, \* AppState.is_capturing
  live_stats,   \* AppState.live_stats
  loaded,       \* the handlers that read is_capturing = false and go on
  task,         \* the spawned tasks' locals
  status,       \* `capturing` of the last Status event broadcast
  shown,        \* the last Stats event broadcast by a capture task
  sent          \* Packet and Alert events broadcast so far (history)

vars == <<is_capturing, live_stats, loaded, task, status, shown, sent>>

Pc == {"unborn", "spawned", "open", "loop", "alerts", "alerted", "count", "stats",
       "ending", "done"}

\* kind: "file", "missing" (a pcap that does not open) or "synthetic" (a request
\* without path); left: packets still in the file; convs: conversations of the task's own tracker; counted: packets
\* it has added to live_stats (`step` of a synthetic stream); pending: alerts
\* of the current packet still to be sent.
TaskState ==
  [pc : Pc, kind : {"file", "missing", "synthetic"}, left : Nat,
   convs : Nat, counted : Nat, pending : 0 .. MaxAlerts]

Request(kind, length) ==
  [pc |-> "spawned", kind |-> kind, left |-> length, convs |-> 0, counted |-> 0, pending |-> 0]

Unborn == [Request("synthetic", 0) EXCEPT !.pc = "unborn"]

\* The requests: a pcap that opens, one that does not, and no path.
Requests ==
  {Request("file", n) : n \in FileLengths} \cup {Request("missing", 0), Request("synthetic", 0)}

Active(t) == task[t].pc \notin {"unborn", "done"}

Init ==
  /\ is_capturing = FALSE
  /\ live_stats = [packets |-> 0, conversations |-> 0, alerts |-> 0]
  /\ loaded = {}
  /\ task = [t \in Tasks |-> Unborn]
  /\ status = None
  /\ shown = [packets |-> 0, conversations |-> 0, alerts |-> 0]
  /\ sent = [packets |-> 0, alerts |-> 0]

(***************************************************************************)
(* capture_start and capture_stop.                                         *)
(***************************************************************************)

\* The check of capture_start; with is_capturing set it answers
\* "already_running" and changes nothing.
StartLoad(h) ==
  /\ h \notin loaded
  /\ ~ is_capturing
  /\ \E t \in Tasks : task[t].pc = "unborn"
  /\ loaded' = loaded \cup {h}
  /\ UNCHANGED <<is_capturing, live_stats, task, status, shown, sent>>

\* The store and the spawn that follow it.
StartStore(h) ==
  /\ h \in loaded
  /\ loaded' = loaded \ {h}
  /\ is_capturing' = TRUE
  /\ \E t \in Tasks, req \in Requests :
       task[t].pc = "unborn" /\ task' = [task EXCEPT ![t] = req]
  /\ UNCHANGED <<live_stats, status, shown, sent>>

Stop ==
  /\ is_capturing' = FALSE
  /\ UNCHANGED <<live_stats, loaded, task, status, shown, sent>>

(***************************************************************************)
(* The capture task.                                                       *)
(***************************************************************************)
Goto(t, pc) == task' = [task EXCEPT ![t].pc = pc]

Announce(t) ==
  /\ task[t].pc = "spawned"
  /\ Goto(t, "open")
  /\ status' = TRUE
  /\ UNCHANGED <<is_capturing, live_stats, loaded, shown, sent>>

\* A pcap that does not open: one capture_error alert is broadcast, which no
\* step adds to live_stats, and the task ends.
OpenFails(t) ==
  /\ task[t].pc = "open"
  /\ task[t].kind = "missing"
  /\ Goto(t, "ending")
  /\ sent' = [sent EXCEPT !.alerts = @ + 1]
  /\ UNCHANGED <<is_capturing, live_stats, loaded, status, shown>>

Opened(t) ==
  /\ task[t].pc = "open"
  /\ task[t].kind # "missing"
  /\ Goto(t, "loop")
  /\ UNCHANGED <<is_capturing, live_stats, loaded, status, shown, sent>>

\* Mutant of LoopEnds: a file is read to its end whatever the flag says.
LoopEnds_FileOnly(t) ==
  /\ task[t].pc = "loop"
  /\ task[t].kind = "file" /\ task[t].left = 0
  /\ Goto(t, "ending")
  /\ UNCHANGED <<is_capturing, live_stats, loaded, status, shown, sent>>

\* Mutant of LoopEnds: the end of the file is only noticed by a stop.
LoopEnds_StopOnly(t) ==
  /\ task[t].pc = "loop"
  /\ ~ is_capturing
  /\ Goto(t, "ending")
  /\ UNCHANGED <<is_capturing, live_stats, loaded, status, shown, sent>>

\* The file has no packet left, or the flag is down.
LoopEnds(t) ==
  /\ task[t].pc = "loop"
  /\ (task[t].kind = "file" /\ task[t].left = 0) \/ ~ is_capturing
  /\ Goto(t, "ending")
  /\ UNCHANGED <<is_capturing, live_stats, loaded, status, shown, sent>>

\* Mutant of Recorded: the tracker keys a packet's two directions apart.
Recorded_Two(r, new, n) ==
  [r EXCEPT !.pc = "alerts", !.convs = @ + 2 * new, !.pending = n,
            !.left = IF r.kind = "file" THEN @ - 1 ELSE @]

\* A task whose packet opened `new` conversations and raised n alerts.
Recorded(r, new, n) ==
  [r EXCEPT !.pc = "alerts", !.convs = @ + new, !.pending = n,
            !.left = IF r.kind = "file" THEN @ - 1 ELSE @]

\* One packet is taken, recorded and broadcast, and the engine is fed.
TakePacket(t) ==
  /\ task[t].pc = "loop"
  /\ is_capturing
  /\ task[t].kind = "file" => task[t].left > 0
  /\ task[t].kind = "synthetic" => task[t].counted < MaxSteps
  /\ \E new \in 0 .. 1, n \in 0 .. MaxAlerts : task' = [task EXCEPT ![t] = Recorded(@, new, n)]
  /\ sent' = [sent EXCEPT !.packets = @ + 1]
  /\ UNCHANGED <<is_capturing, live_stats, loaded, status, shown>>

SendAlert(t) ==
  /\ task[t].pc = "alerts"
  /\ task[t].pending > 0
  /\ task' = [task EXCEPT ![t].pc = "alerted", ![t].pending = @ - 1]
  /\ sent' = [sent EXCEPT !.alerts = @ + 1]
  /\ UNCHANGED <<is_capturing, live_stats, loaded, status, shown>>

CountAlert(t) ==
  /\ task[t].pc = "alerted"
  /\ Goto(t, "alerts")
  /\ live_stats' = [live_stats EXCEPT !.alerts = @ + 1]
  /\ UNCHANGED <<is_capturing, loaded, status, shown, sent>>

AlertsDone(t) ==
  /\ task[t].pc = "alerts"
  /\ task[t].pending = 0
  /\ Goto(t, "count")
  /\ UNCHANGED <<is_capturing, live_stats, loaded, status, shown, sent>>

\* Mutant of Counted: packets is set to the task's own number.
Counted_OwnNumber(stats, r) ==
  [stats EXCEPT !.packets = r.counted + 1, !.conversations = r.convs]

\* live_stats after a task counts its current packet.
Counted(stats, r) ==
  [stats EXCEPT !.packets = @ + 1, !.conversations = r.convs]

CountPacket(t) ==
  /\ task[t].pc = "count"
  /\ live_stats' = Counted(live_stats, task[t])
  /\ task' = [task EXCEPT ![t].counted = @ + 1,
                          ![t].pc = IF /\ task[t].kind = "synthetic"
                                       /\ (task[t].counted + 1) % StatsEvery = 0
                                      THEN "stats" ELSE "loop"]
  /\ UNCHANGED <<is_capturing, loaded, status, shown, sent>>

\* Mutant of BroadcastStats: the counters start again after each event.
BroadcastStats_Resets(t) ==
  /\ task[t].pc = "stats"
  /\ Goto(t, "loop")
  /\ shown' = live_stats
  /\ live_stats' = [live_stats EXCEPT !.packets = 0]
  /\ UNCHANGED <<is_capturing, loaded, status, sent>>

\* Every StatsEvery packets the counters are sent, under their read lock.
BroadcastStats(t) ==
  /\ task[t].pc = "stats"
  /\ Goto(t, "loop")
  /\ shown' = live_stats
  /\ UNCHANGED <<is_capturing, live_stats, loaded, status, sent>>

\* Mutant of Finish: the task ends without the closing Status event.
Finish_Silent(t) ==
  /\ task[t].pc = "ending"
  /\ Goto(t, "done")
  /\ UNCHANGED <<is_capturing, live_stats, loaded, status, shown, sent>>

Finish(t) ==
  /\ task[t].pc = "ending"
  /\ Goto(t, "done")
  /\ status' = FALSE
  /\ UNCHANGED <<is_capturing, live_stats, loaded, shown, sent>>

TaskStep(t) ==
  \/ Announce(t) \/ OpenFails(t) \/ Opened(t) \/ LoopEnds(t) \/ TakePacket(t)
  \/ SendAlert(t) \/ CountAlert(t) \/ AlertsDone(t) \/ CountPacket(t)
  \/ BroadcastStats(t) \/ Finish(t)

Next ==
  \/ \E h \in Handlers : StartLoad(h) \/ StartStore(h)
  \/ Stop
  \/ \E t \in Tasks : TaskStep(t)

\* The runtime keeps polling a spawned task, and its sleeps end.
Spec == Init /\ [][Next]_vars /\ \A t \in Tasks : WF_vars(TaskStep(t))

-----------------------------------------------------------------------------
(***************************************************************************)
(* Properties                                                              *)
(***************************************************************************)

Stats == [packets : Nat, conversations : Nat, alerts : Nat]

At(pcs) == {t \in Tasks : task[t].pc \in pcs}

\* The tasks that broadcast an alert live_stats does not hold: one that counts
\* it next, and one whose pcap did not open, which never counts it.
Uncounted ==
  {t \in Tasks : \/ task[t].pc = "alerted"
                 \/ task[t].kind = "missing" /\ task[t].pc \in {"ending", "done"}}

\* No update of the shared counters is lost and none is made twice, however
\* many tasks run.  live_stats.packets lags the feed by the packets in hand;
\* live_stats.alerts lags it by the alerts in hand and, for ever, by the one
\* capture_error alert of each capture whose pcap did not open.
StatsFollowFeed ==
  /\ live_stats.packets + Cardinality(At({"alerts", "alerted", "count"})) = sent.packets
  /\ live_stats.alerts + Cardinality(Uncounted) = sent.alerts

\* live_stats never reports more conversations than packets, although the
\* conversations are those of whichever task counted last.
ConversationsBounded == live_stats.conversations <= live_stats.packets

\* The packet and alert numbers of the Stats events the capture tasks send
\* never go down, also when two tasks send them in turn.  Their conversations
\* do, and /analyze sends Stats of its own file on the same channel (LiveFeed).
ShownMonotone ==
  [][shown'.packets >= shown.packets /\ shown'.alerts >= shown.alerts]_vars

\* When the last Status event says "capturing", a task that announced itself
\* has not ended.  The converse is not so: the end of one of two captures
\* broadcasts "stopped" while the other still runs.
StatusNotStale ==
  status = TRUE => \E t \in Tasks : task[t].pc \notin {"unborn", "spawned", "done"}

\* Once stopped for good, every capture task comes to its end.
StopEventuallyHalts ==
  <>[](~ is_capturing) => <>[](\A t \in Tasks : ~ Active(t))

\* The replay of a file ends without anybody stopping it, also when the file
\* does not open or breaks off.
FileCaptureEnds ==
  \A t \in Tasks :
    (task[t].pc = "spawned" /\ task[t].kind # "synthetic") ~> task[t].pc = "done"

\* At most one capture runs: capture_start refuses a second one ("Live capture
\* feed is already running"), capture_stop ends the first ("halted").
SingleCapture == \A t, u \in Tasks : Active(t) /\ Active(u) => t = u

=============================================================================
