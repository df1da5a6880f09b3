---------------------------- MODULE ArpSpoofRule ----------------------------
(***************************************************************************)
(* The ARP spoofing rule of `ndap-detect` (crates/detect/src/lib.rs,       *)
(* ArpSpoofRule::on_packet): the MAC addresses that claimed each IPv4      *)
(* address as their own, and the pairs already alerted.                    *)
(***************************************************************************)
EXTENDS Naturals, Sequences, FiniteSets

CONSTANTS
  IPs,      \* IPv4 addresses
  Macs,     \* MAC addresses
  MaxFed    \* bound: ARP packets fed

VARIABLES
  ip_to_macs,     \* ArpSpoofRule.ip_to_macs; {} for an address without entry
  alerted_pairs,  \* ArpSpoofRule.alerted_pairs
  alerts,         \* the alerts returned, in order: pair and number of MACs
  fed             \* the <<sender_ip, sender_mac>> fed so far, in order (history)

vars == <<ip_to_macs, alerted_pairs, alerts, fed>>

Pair == IPs \X Macs

Init ==
  /\ ip_to_macs = [ip \in IPs |-> {}]
  /\ alerted_pairs = {}
  /\ alerts = <<>>
  /\ fed = <<>>

\* More than one MAC claims the address, this one included.
Contested(ip, mac) == Cardinality(ip_to_macs[ip] \cup {mac}) > 1

\* This pair was not alerted yet.
Conflict(ip, mac) == Contested(ip, mac) /\ <<ip, mac>> \notin alerted_pairs

\* Mutant of Pairs: the pair is inserted before the MACs are counted.
Pairs_InsertFirst(ip, mac) == alerted_pairs \cup {<<ip, mac>>}

\* The pair is inserted only once its address is contested.
Pairs(ip, mac) ==
  IF Contested(ip, mac) THEN alerted_pairs \cup {<<ip, mac>>} ELSE alerted_pairs

Alert(ip, mac) ==
  [ip |-> ip, mac |-> mac, count |-> Cardinality(ip_to_macs[ip] \cup {mac})]

\* on_packet of an ARP packet, request or reply alike.
FeedArp(ip, mac) ==
  /\ Len(fed) < MaxFed
  /\ fed' = Append(fed, <<ip, mac>>)
  /\ ip_to_macs' = [ip_to_macs EXCEPT ![ip] = @ \cup {mac}]
  /\ alerted_pairs' = Pairs(ip, mac)
  /\ alerts' = IF Conflict(ip, mac) THEN Append(alerts, Alert(ip, mac)) ELSE alerts

Next == \E ip \in IPs, mac \in Macs : FeedArp(ip, mac)

Spec == Init /\ [][Next]_vars

-----------------------------------------------------------------------------
(***************************************************************************)
(* Properties                                                              *)
(***************************************************************************)

\* The rule's tables hold addresses, and an alert counts at least two MACs.
TypeOK ==
  /\ ip_to_macs \in [IPs -> SUBSET Macs]
  /\ alerted_pairs \subseteq Pair
  /\ alerts \in Seq([ip : IPs, mac : Macs, count : Nat \ {0, 1}])
  /\ fed \in Seq(Pair)

\* An alert names every MAC that claims an address another MAC claimed before,
\* the first owner's too once it speaks again, although the table of pairs that
\* keeps alerts from being repeated is looked up on each of its claims: at most
\* the claimant never heard after the conflict began goes without an alert.
ConflictAlerted ==
  \A i, j \in 1 .. Len(fed) :
    i < j /\ fed[i][1] = fed[j][1] /\ fed[i][2] # fed[j][2] =>
      \E k \in 1 .. Len(alerts) : <<alerts[k].ip, alerts[k].mac>> = fed[j]

\* No false alarm: an alerted pair was claimed, and so was its address by
\* another MAC.
AlertSound ==
  \A i \in 1 .. Len(alerts) :
    \E j, k \in 1 .. Len(fed) :
      /\ fed[j] = <<alerts[i].ip, alerts[i].mac>>
      /\ fed[k][1] = alerts[i].ip
      /\ fed[k][2] # alerts[i].mac

\* However often the packets repeat, a pair is alerted once.
AlertedOnce ==
  \A i, j \in 1 .. Len(alerts) :
    alerts[i].ip = alerts[j].ip /\ alerts[i].mac = alerts[j].mac => i = j
=============================================================================
