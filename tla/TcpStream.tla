----------------------------- MODULE TcpStream -----------------------------
(***************************************************************************)
(* One direction of a TCP conversation as `ndap-flow` reassembles it       *)
(* (crates/flow/src/lib.rs, struct TcpStream and its method push).         *)
(*                                                                         *)
(* The sender's byte stream is the interval 0 .. StreamLen-1 and a byte is *)
(* its offset in it, so a payload is the run of offsets it carries.  A run *)
(* travels with the sequence number of its first byte, counted from the    *)
(* sender's initial number modulo SeqMod (2^32 on the wire).  The capture  *)
(* may lose, repeat and reorder segments and the sender may retransmit     *)
(* with other segment boundaries; Lag bounds how far behind or ahead of    *)
(* the newest captured byte a segment may start.                           *)
(***************************************************************************)
EXTENDS Integers, Sequences

CONSTANTS
  SeqMod,     \* number of sequence numbers: 2^32 in the code (u32)
  StreamLen,  \* bytes the sender sends; may exceed SeqMod
  MaxSeg,     \* longest payload of a segment
  Lag,        \* reach of reordering and retransmission, in bytes
  None        \* Option::None

ASSUME SeqModAssumption    == SeqMod \in Nat \ {0}
ASSUME StreamLenAssumption == StreamLen \in Nat
ASSUME MaxSegAssumption    == MaxSeg \in Nat /\ MaxSeg < SeqMod
ASSUME LagAssumption       == Lag \in Nat
ASSUME NoneAssumption      == None \notin Nat

VARIABLES
  isn,           \* the sender's initial sequence number (environment)
  high,          \* one past the newest byte captured so far (environment)
  next_seq,      \* TcpStream.next_seq
  reassembled,   \* TcpStream.reassembled, as the runs appended to it
  out_of_order,  \* TcpStream.out_of_order: sequence number -> run
  next           \* the drain loop's local `next`; None outside the loop

vars == <<isn, high, next_seq, reassembled, out_of_order, next>>

Numbers == 0 .. SeqMod - 1

\* The payloads a segment may carry; a bare ACK carries the empty one.
Run == [off : 0 .. StreamLen, len : 0 .. MaxSeg]

End(run) == run.off + run.len

WrappingAdd(a, b) == (a + b) % SeqMod

\* The sequence number the sender gives the byte at offset off.
WireSeq(off) == (isn + off) % SeqMod

CanBeCaptured(run) ==
  /\ End(run) <= StreamLen
  /\ run.off <= high + Lag
  /\ run.off + Lag >= high

Init ==
  /\ isn \in Numbers
  /\ high = 0
  /\ next_seq = None
  /\ reassembled = <<>>
  /\ out_of_order = [s \in {} |-> None]
  /\ next = None

Store(s, run) ==
  [k \in DOMAIN out_of_order \cup {s} |-> IF k = s THEN run ELSE out_of_order[k]]

(***************************************************************************)
(* push(seq, payload): the four ways the method treats a captured segment. *)
(***************************************************************************)
Captured(run) ==
  /\ next = None
  /\ CanBeCaptured(run)
  /\ high' = IF End(run) > high THEN End(run) ELSE high
  /\ UNCHANGED isn

\* An empty payload returns before the stream is looked at.
PushEmpty(run) ==
  /\ Captured(run)
  /\ run.len = 0
  /\ UNCHANGED <<next_seq, reassembled, out_of_order, next>>

\* Mutant of PushFirst: the first segment's own number stays the expected one.
PushFirst_SeqOnly(run) ==
  /\ Captured(run)
  /\ run.len > 0
  /\ next_seq = None
  /\ next_seq' = WireSeq(run.off)
  /\ reassembled' = Append(reassembled, run)
  /\ UNCHANGED <<out_of_order, next>>

\* The first payload of the direction starts the stream wherever it is.
PushFirst(run) ==
  /\ Captured(run)
  /\ run.len > 0
  /\ next_seq = None
  /\ next_seq' = WrappingAdd(WireSeq(run.off), run.len)
  /\ reassembled' = Append(reassembled, run)
  /\ UNCHANGED <<out_of_order, next>>

\* Mutant of PushExpected: the buffer is not drained after the append.
PushExpected_NoDrain(run) ==
  /\ Captured(run)
  /\ run.len > 0
  /\ next_seq = WireSeq(run.off)
  /\ reassembled' = Append(reassembled, run)
  /\ next_seq' = WrappingAdd(WireSeq(run.off), run.len)
  /\ UNCHANGED <<out_of_order, next>>

\* The expected segment is appended; `next_seq` waits for the drain loop.
PushExpected(run) ==
  /\ Captured(run)
  /\ run.len > 0
  /\ next_seq = WireSeq(run.off)
  /\ reassembled' = Append(reassembled, run)
  /\ next' = WrappingAdd(WireSeq(run.off), run.len)
  /\ UNCHANGED <<next_seq, out_of_order>>

\* Anything else is buffered under its number, over what was there.
PushOther(run) ==
  /\ Captured(run)
  /\ run.len > 0
  /\ next_seq # None
  /\ next_seq # WireSeq(run.off)
  /\ out_of_order' = Store(WireSeq(run.off), run)
  /\ UNCHANGED <<next_seq, reassembled, next>>

(***************************************************************************)
(* The drain loop of the same call.  While `next` is set no segment can be *)
(* pushed, so the loop always runs to its end before the next one.         *)
(***************************************************************************)
Drain ==
  /\ next # None
  /\ next \in DOMAIN out_of_order
  /\ reassembled' = Append(reassembled, out_of_order[next])
  /\ next' = WrappingAdd(next, out_of_order[next].len)
  /\ out_of_order' = [k \in DOMAIN out_of_order \ {next} |-> out_of_order[k]]
  /\ UNCHANGED <<isn, high, next_seq>>

\* Mutant of DrainEnd: the loop runs until the buffer is empty.
DrainEnd_WhenEmpty ==
  /\ next # None
  /\ DOMAIN out_of_order = {}
  /\ next_seq' = next
  /\ next' = None
  /\ UNCHANGED <<isn, high, reassembled, out_of_order>>

DrainEnd ==
  /\ next # None
  /\ next \notin DOMAIN out_of_order
  /\ next_seq' = next
  /\ next' = None
  /\ UNCHANGED <<isn, high, reassembled, out_of_order>>

Next ==
  \/ \E run \in Run :
       \/ PushEmpty(run)
       \/ PushFirst(run)
       \/ PushExpected(run)
       \/ PushOther(run)
  \/ Drain
  \/ DrainEnd

Spec == Init /\ [][Next]_vars /\ WF_vars(Drain) /\ WF_vars(DrainEnd)

-----------------------------------------------------------------------------
(***************************************************************************)
(* Properties                                                              *)
(***************************************************************************)

\* The fields keep the types Rust gives them, and only sequence numbers key
\* the out-of-order map.
TypeOK ==
  /\ isn \in Numbers
  /\ high \in 0 .. StreamLen
  /\ next_seq \in Numbers \cup {None}
  /\ reassembled \in Seq(Run)
  /\ DOMAIN out_of_order \subseteq Numbers
  /\ \A s \in DOMAIN out_of_order : out_of_order[s] \in Run
  /\ next \in Numbers \cup {None}

\* `push` only ever extends `reassembled` by the bytes that follow the ones
\* already there: the reassembled data is one gap-free, repeat-free piece of
\* the sender's stream, whatever was lost, repeated or reordered.
Contiguous ==
  \A i \in 1 .. Len(reassembled) - 1 : End(reassembled[i]) = reassembled[i + 1].off

\* Once a call has returned, no buffered segment is the expected one: the
\* drain loop leaves nothing behind that it could append.
DrainedDry == next = None => next_seq \notin DOMAIN out_of_order

\* One past the last byte reassembled.
Reached == End(reassembled[Len(reassembled)])

\* Once a call has returned, no buffered segment holds the byte the stream is
\* waiting for (crates/flow/README.md: "automatic contiguous segment
\* draining").
GapIsNotBuffered ==
  next = None /\ next_seq # None =>
    \A s \in DOMAIN out_of_order :
      ~ (out_of_order[s].off <= Reached /\ Reached < End(out_of_order[s]))

\* The loop in `push` ends: every call returns.
PushReturns == next # None ~> next = None
=============================================================================
