------------------------------ MODULE LiveFeed ------------------------------
(***************************************************************************)
(* The WebSocket live feed (api/src/main.rs, handle_ws_socket) between the *)
(* broadcast channel the capture tasks and /analyze send to and the        *)
(* browsers (api/static/index.html, connectWebSocket).                     *)
(*                                                                         *)
(* The n-th event sent is the number n.  The channel keeps the last Cap    *)
(* events; a receiver that falls further behind gets an error, which ends  *)
(* the handler's loop.  The socket holds SockCap messages: a send waits    *)
(* for room and fails once the browser is gone.                            *)
(***************************************************************************)
EXTENDS Integers, Sequences, FiniteSets, FiniteSetsExt

CONSTANTS
  Clients,    \* browsers
  Publishers, \* capture tasks
  Cap,        \* capacity of the broadcast channel (2048)
  SockCap,    \* messages a socket holds before send waits
  MaxEvents   \* bound: events sent

ASSUME CapAssumption        == Cap \in Nat \ {0} /\ SockCap \in Nat \ {0}
ASSUME BoundsAssumption     == MaxEvents \in Nat
ASSUME PublishersAssumption == IsFiniteSet(Publishers)

VARIABLES
  feed,      \* the events sent to the channel: "live" or "analyze" (history)
  counted,   \* live_stats.packets
  inhand,    \* the publishers between sending a packet and counting it
  pc,        \* where each client's handler is
  pos,       \* the handler's receiver: the last event it received or skipped
  base,      \* events sent before the client subscribed (history)
  snapshot,  \* the stats the handler read for its first message
  open,      \* the browser's side of the socket is open
  sock,      \* messages in the socket; 0 is the initial Stats
  got        \* messages the browser received in this session (history)

vars == <<feed, counted, inhand, pc, pos, base, snapshot, open, sock, got>>

clientVars == <<pc, pos, base, snapshot, open, sock, got>>

\* Events sent so far.
Published == Len(feed)

Init ==
  /\ feed = <<>>
  /\ counted = 0
  /\ inhand = {}
  /\ pc = [c \in Clients |-> "none"]
  /\ pos = [c \in Clients |-> 0]
  /\ base = [c \in Clients |-> 0]
  /\ snapshot = [c \in Clients |-> 0]
  /\ open = [c \in Clients |-> FALSE]
  /\ sock = [c \in Clients |-> <<>>]
  /\ got = [c \in Clients |-> <<>>]

(***************************************************************************)
(* Publishers.  A capture task sends a packet's event and counts it later; *)
(* /analyze sends events that live_stats never counts.                     *)
(***************************************************************************)
SendLive(p) ==
  /\ Published < MaxEvents
  /\ p \notin inhand
  /\ feed' = Append(feed, "live")
  /\ inhand' = inhand \cup {p}
  /\ UNCHANGED <<counted, clientVars>>

CountLive(p) ==
  /\ p \in inhand
  /\ counted' = counted + 1
  /\ inhand' = inhand \ {p}
  /\ UNCHANGED <<feed, clientVars>>

SendAnalyzed ==
  /\ Published < MaxEvents
  /\ feed' = Append(feed, "analyze")
  /\ UNCHANGED <<counted, inhand, clientVars>>

(***************************************************************************)
(* The handler of one connection.                                          *)
(***************************************************************************)

\* Mutant of Subscribe: the receiver starts at the oldest event kept.
Subscribe_Oldest(c) ==
  /\ pc[c] = "none"
  /\ pc' = [pc EXCEPT ![c] = "subscribed"]
  /\ open' = [open EXCEPT ![c] = TRUE]
  /\ pos' = [pos EXCEPT ![c] = Max({0, Published - Cap})]
  /\ base' = [base EXCEPT ![c] = Published]
  /\ sock' = [sock EXCEPT ![c] = <<>>]
  /\ got' = [got EXCEPT ![c] = <<>>]
  /\ snapshot' = [snapshot EXCEPT ![c] = 0]
  /\ UNCHANGED <<feed, counted, inhand>>

\* A browser connects and its handler subscribes.
Subscribe(c) ==
  /\ pc[c] = "none"
  /\ pc' = [pc EXCEPT ![c] = "subscribed"]
  /\ open' = [open EXCEPT ![c] = TRUE]
  /\ pos' = [pos EXCEPT ![c] = Published]
  /\ base' = [base EXCEPT ![c] = Published]
  /\ sock' = [sock EXCEPT ![c] = <<>>]
  /\ got' = [got EXCEPT ![c] = <<>>]
  /\ snapshot' = [snapshot EXCEPT ![c] = 0]
  /\ UNCHANGED <<feed, counted, inhand>>

\* live_stats is read only after the subscription.
ReadStats(c) ==
  /\ pc[c] = "subscribed"
  /\ pc' = [pc EXCEPT ![c] = "greet"]
  /\ snapshot' = [snapshot EXCEPT ![c] = counted]
  /\ UNCHANGED <<feed, counted, inhand, pos, base, open, sock, got>>

HasRoom(c) == Len(sock[c]) < SockCap

\* Mutant of Greet: the handler subscribes only after its first message.
Greet_Subscribes(c) ==
  /\ pc[c] = "greet"
  /\ open[c] => HasRoom(c)
  /\ pc' = [pc EXCEPT ![c] = "recv"]
  /\ sock' = [sock EXCEPT ![c] = IF open[c] THEN Append(@, 0) ELSE @]
  /\ pos' = [pos EXCEPT ![c] = Published]
  /\ base' = [base EXCEPT ![c] = Published]
  /\ UNCHANGED <<feed, counted, inhand, snapshot, open, got>>

\* The initial Stats is sent; a failure to send it is ignored.
Greet(c) ==
  /\ pc[c] = "greet"
  /\ open[c] => HasRoom(c)
  /\ pc' = [pc EXCEPT ![c] = "recv"]
  /\ sock' = [sock EXCEPT ![c] = IF open[c] THEN Append(@, 0) ELSE @]
  /\ UNCHANGED <<feed, counted, inhand, pos, base, snapshot, open, got>>

Lagged(c) == Published - pos[c] > Cap

\* Mutant of Recv: a lagging receiver goes on with the oldest event kept.
Recv_SkipsLag(c) ==
  /\ pc[c] = "recv"
  /\ pos[c] < Published
  /\ pos' = [pos EXCEPT ![c] = IF Lagged(c) THEN Published - Cap + 1 ELSE @ + 1]
  /\ pc' = [pc EXCEPT ![c] = "send"]
  /\ UNCHANGED <<feed, counted, inhand, base, snapshot, open, sock, got>>

\* recv gives the next event.
Recv(c) ==
  /\ pc[c] = "recv"
  /\ pos[c] < Published
  /\ ~ Lagged(c)
  /\ pos' = [pos EXCEPT ![c] = @ + 1]
  /\ pc' = [pc EXCEPT ![c] = "send"]
  /\ UNCHANGED <<feed, counted, inhand, base, snapshot, open, sock, got>>

\* Mutant of RecvLagged: the handler waits instead of ending.
RecvLagged_Waits(c) ==
  /\ pc[c] = "recv"
  /\ Lagged(c)
  /\ pc' = [pc EXCEPT ![c] = "recv"]
  /\ UNCHANGED <<feed, counted, inhand, pos, base, snapshot, open, sock, got>>

\* recv gives Err(Lagged): the loop ends, and with it the connection.
RecvLagged(c) ==
  /\ pc[c] = "recv"
  /\ Lagged(c)
  /\ pc' = [pc EXCEPT ![c] = "ended"]
  /\ UNCHANGED <<feed, counted, inhand, pos, base, snapshot, open, sock, got>>

Send(c) ==
  /\ pc[c] = "send"
  /\ open[c]
  /\ HasRoom(c)
  /\ sock' = [sock EXCEPT ![c] = Append(@, pos[c])]
  /\ pc' = [pc EXCEPT ![c] = "recv"]
  /\ UNCHANGED <<feed, counted, inhand, pos, base, snapshot, open, got>>

\* Mutant of SendFails: a failed send is ignored like the first one's.
SendFails_Ignored(c) ==
  /\ pc[c] = "send"
  /\ ~ open[c]
  /\ pc' = [pc EXCEPT ![c] = "recv"]
  /\ UNCHANGED <<feed, counted, inhand, pos, base, snapshot, open, sock, got>>

\* The browser is gone: send returns an error and the loop ends.
SendFails(c) ==
  /\ pc[c] = "send"
  /\ ~ open[c]
  /\ pc' = [pc EXCEPT ![c] = "ended"]
  /\ UNCHANGED <<feed, counted, inhand, pos, base, snapshot, open, sock, got>>

HandlerStep(c) ==
  \/ ReadStats(c) \/ Greet(c) \/ Recv(c) \/ RecvLagged(c) \/ Send(c) \/ SendFails(c)

(***************************************************************************)
(* The browser.                                                            *)
(***************************************************************************)

\* onmessage; what is in the socket still arrives after the handler's end.
Read(c) ==
  /\ open[c]
  /\ sock[c] # <<>>
  /\ got' = [got EXCEPT ![c] = Append(@, Head(sock[c]))]
  /\ sock' = [sock EXCEPT ![c] = Tail(sock[c])]
  /\ UNCHANGED <<feed, counted, inhand, pc, pos, base, snapshot, open>>

\* The user leaves; what was under way is lost.
Leave(c) ==
  /\ open[c]
  /\ open' = [open EXCEPT ![c] = FALSE]
  /\ sock' = [sock EXCEPT ![c] = <<>>]
  /\ UNCHANGED <<feed, counted, inhand, pc, pos, base, snapshot, got>>

\* onclose, after the last message of a connection the handler ended.
Closed(c) ==
  /\ open[c]
  /\ pc[c] = "ended"
  /\ sock[c] = <<>>
  /\ open' = [open EXCEPT ![c] = FALSE]
  /\ UNCHANGED <<feed, counted, inhand, pc, pos, base, snapshot, sock, got>>

\* Two seconds after onclose the browser connects again.
Reconnect(c) ==
  /\ ~ open[c]
  /\ pc[c] = "ended"
  /\ pc' = [pc EXCEPT ![c] = "none"]
  /\ UNCHANGED <<feed, counted, inhand, pos, base, snapshot, open, sock, got>>

Next ==
  \/ \E p \in Publishers : SendLive(p) \/ CountLive(p)
  \/ SendAnalyzed
  \/ \E c \in Clients :
       \/ Subscribe(c) \/ HandlerStep(c)
       \/ Read(c) \/ Leave(c) \/ Closed(c) \/ Reconnect(c)

\* The runtime polls handlers that can go on, and a browser that stays open
\* reads its socket.
Spec ==
  /\ Init /\ [][Next]_vars
  /\ \A c \in Clients : WF_vars(HandlerStep(c)) /\ WF_vars(Read(c)) /\ WF_vars(Closed(c))

-----------------------------------------------------------------------------
(***************************************************************************)
(* Properties                                                              *)
(***************************************************************************)

\* What one session's browser received or will find in its socket.
Handed(c) == got[c] \o sock[c]

\* A session is never silently incomplete: its browser gets the initial stats
\* and then the events from its subscription on, in order and without a gap,
\* even when the handler fell behind (it then ends instead of skipping).
NoSilentGap ==
  \A c \in Clients :
    /\ Handed(c) # <<>> => Handed(c)[1] = 0
    /\ \A i \in 2 .. Len(Handed(c)) : Handed(c)[i] = base[c] + i - 1

\* The live packets among the first n events.
LiveUpTo(n) == Cardinality({k \in 1 .. n : feed[k] = "live"})

\* No packet falls between the snapshot and the feed: the first message's
\* count covers the packets sent before the subscription, but for at most one
\* per capture task that was about to count it.
SnapshotCovers ==
  \A c \in Clients :
    pc[c] \in {"greet", "recv", "send"} =>
      LiveUpTo(base[c]) <= snapshot[c] + Cardinality(Publishers)

\* An event a session still owes its browser.
Owed(c, e) ==
  /\ open[c]
  /\ base[c] < e /\ e <= Published
  /\ \A i \in 1 .. Len(got[c]) : got[c][i] # e

\* A browser that stays gets every event sent after it connected, or sees its
\* session end.
DeliveredOrEnded == \A c \in Clients, e \in 1 .. MaxEvents : Owed(c, e) ~> ~ Owed(c, e)

\* A handler whose browser left ends once there is an event to send to it.
DeadSessionEnds ==
  \A c \in Clients :
    (~ open[c] /\ pc[c] = "recv" /\ pos[c] < Published) ~> pc[c] = "ended"

Ordered == INSTANCE OrderedFeed WITH
  tail <- Published,
  on   <- {c \in Clients : open[c]},
  base <- base,
  seen <- [c \in Clients |-> SubSeq(got[c], 2, Len(got[c]))] \* all but the greeting

\* The feed keeps OrderedFeed's promise.
ImplementsOrderedFeed == Ordered!Spec
=============================================================================
