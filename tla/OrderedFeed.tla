---------------------------- MODULE OrderedFeed ----------------------------
(***************************************************************************)
(* What /ws/live promises a dashboard, whatever the channel and the socket *)
(* in between do: from the moment a session begins, every event published  *)
(* is shown once, in order and without a gap, until the session ends.      *)
(***************************************************************************)
EXTENDS Naturals, Sequences

CONSTANT Clients

VARIABLES
  tail,  \* events published so far; event n is the n-th
  on,    \* the clients with a session
  base,  \* events published before the client's session began
  seen   \* events the client was shown in its session

vars == <<tail, on, base, seen>>

Init ==
  /\ tail = 0
  /\ on = {}
  /\ base = [c \in Clients |-> 0]
  /\ seen = [c \in Clients |-> <<>>]

Publish ==
  /\ tail' = tail + 1
  /\ UNCHANGED <<on, base, seen>>

Begin(c) ==
  /\ c \notin on
  /\ on' = on \cup {c}
  /\ base' = [base EXCEPT ![c] = tail]
  /\ seen' = [seen EXCEPT ![c] = <<>>]
  /\ UNCHANGED tail

Show(c) ==
  /\ c \in on
  /\ base[c] + Len(seen[c]) < tail
  /\ seen' = [seen EXCEPT ![c] = Append(@, base[c] + Len(@) + 1)]
  /\ UNCHANGED <<tail, on, base>>

End(c) ==
  /\ c \in on
  /\ on' = on \ {c}
  /\ UNCHANGED <<tail, base, seen>>

Next == Publish \/ \E c \in Clients : Begin(c) \/ Show(c) \/ End(c)

\* Nothing is skipped, repeated or shown out of order.
SafeSpec == Init /\ [][Next]_vars

\* A session in which an event is due shows it or ends.
Spec ==
  /\ SafeSpec
  /\ \A c \in Clients :
       WF_vars(c \in on /\ base[c] + Len(seen[c]) < tail /\ (Show(c) \/ End(c)))
=============================================================================
