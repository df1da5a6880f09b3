-------------------------- MODULE TcpStreamProofs --------------------------
(***************************************************************************)
(* Proofs about TcpStream for every value of its constants.                *)
(***************************************************************************)
EXTENDS TcpStream, TLAPS

-----------------------------------------------------------------------------
(***************************************************************************)
(* Arithmetic of sequence numbers.                                         *)
(***************************************************************************)

LEMMA ModRange ==
  ASSUME NEW x \in Nat
  PROVE  x % SeqMod \in Numbers
BY SeqModAssumption DEF Numbers

LEMMA ModSmall ==
  ASSUME NEW x \in Nat, x < SeqMod
  PROVE  x % SeqMod = x
BY SeqModAssumption

LEMMA ModOnce ==
  ASSUME NEW x \in Nat, SeqMod <= x, x < 2 * SeqMod
  PROVE  x % SeqMod = x - SeqMod
BY SeqModAssumption

\* The stream is shorter than the sequence space: no number is used twice.
NoWrap == StreamLen < SeqMod

\* Without wraparound a sequence number names one offset of the stream.
LEMMA WireSeqInjective ==
  ASSUME NoWrap, isn \in Numbers,
         NEW a \in 0 .. StreamLen, NEW b \in 0 .. StreamLen,
         WireSeq(a) = WireSeq(b)
  PROVE  a = b
<1> USE SeqModAssumption, StreamLenAssumption DEF Numbers
<1>1. isn + a \in Nat /\ isn + a < 2 * SeqMod /\ isn + b \in Nat /\ isn + b < 2 * SeqMod
  BY DEF NoWrap
<1>2. (isn + a) % SeqMod = IF isn + a < SeqMod THEN isn + a ELSE isn + a - SeqMod
  BY <1>1, ModSmall, ModOnce
<1>3. (isn + b) % SeqMod = IF isn + b < SeqMod THEN isn + b ELSE isn + b - SeqMod
  BY <1>1, ModSmall, ModOnce
<1>4. (isn + a) % SeqMod = (isn + b) % SeqMod
  BY DEF WireSeq
<1> QED
  BY <1>2, <1>3, <1>4 DEF NoWrap

\* Adding a length to a byte's number gives the number that many bytes on.
LEMMA WireSeqAdvance ==
  ASSUME NoWrap, isn \in Numbers, NEW a \in Nat, NEW n \in Nat, a + n <= StreamLen
  PROVE  WrappingAdd(WireSeq(a), n) = WireSeq(a + n)
<1> USE SeqModAssumption, StreamLenAssumption DEF Numbers
<1>1. isn + a \in Nat /\ isn + a + n \in Nat /\ isn + (a + n) < 2 * SeqMod
  BY DEF NoWrap
<1>2. CASE isn + a < SeqMod
  <2>1. WireSeq(a) = isn + a
    BY <1>1, <1>2, ModSmall DEF WireSeq
  <2> QED
    BY <2>1 DEF WrappingAdd, WireSeq
<1>3. CASE SeqMod <= isn + a
  <2>1. WireSeq(a) = isn + a - SeqMod
    BY <1>1, <1>3, ModOnce DEF WireSeq, NoWrap
  <2>2. /\ isn + a - SeqMod + n \in Nat
        /\ isn + a - SeqMod + n < SeqMod
    BY <1>1, <1>3 DEF NoWrap
  <2>3. (isn + a - SeqMod + n) % SeqMod = isn + a - SeqMod + n
    BY <2>2, ModSmall
  <2>4. (isn + (a + n)) % SeqMod = isn + (a + n) - SeqMod
    BY <1>1, <1>3, ModOnce
  <2> QED
    BY <2>1, <2>3, <2>4 DEF WrappingAdd, WireSeq
<1> QED
  BY <1>1, <1>2, <1>3

-----------------------------------------------------------------------------
(***************************************************************************)
(* Type correctness, and what a returned call leaves in the buffer, for    *)
(* streams of any length.                                                  *)
(***************************************************************************)

AllAssumptions ==
  /\ SeqMod \in Nat \ {0}
  /\ StreamLen \in Nat
  /\ MaxSeg \in Nat
  /\ None \notin Nat

LEMMA Assumptions == AllAssumptions
BY SeqModAssumption, StreamLenAssumption, MaxSegAssumption, NoneAssumption
   DEF AllAssumptions

LEMMA WireSeqType ==
  ASSUME isn \in Numbers, NEW a \in Nat
  PROVE  WireSeq(a) \in Numbers
BY Assumptions, ModRange, isn + a \in Nat DEF WireSeq, Numbers, AllAssumptions

LEMMA WrappingAddType ==
  ASSUME NEW s \in Numbers, NEW n \in Nat
  PROVE  WrappingAdd(s, n) \in Numbers
BY Assumptions, ModRange, s + n \in Nat DEF WrappingAdd, Numbers, AllAssumptions

\* `push` keeps every field of a stream in its type.
THEOREM TypeCorrect == Spec => []TypeOK
<1> USE Assumptions DEF AllAssumptions
<1>1. Init => TypeOK
  BY DEF Init, TypeOK, Numbers
<1>2. TypeOK /\ [Next]_vars => TypeOK'
  <2> SUFFICES ASSUME TypeOK, [Next]_vars PROVE TypeOK'
    OBVIOUS
  <2> USE DEF TypeOK
  <2>1. ASSUME NEW run \in Run, Captured(run) PROVE isn' \in Numbers /\ high' \in 0 .. StreamLen
    BY <2>1 DEF Captured, CanBeCaptured, End, Run
  <2>2. ASSUME NEW run \in Run
        PROVE  /\ WireSeq(run.off) \in Numbers
               /\ WrappingAdd(WireSeq(run.off), run.len) \in Numbers
    BY WireSeqType, WrappingAddType DEF Run
  <2>3. ASSUME NEW run \in Run, PushEmpty(run) PROVE TypeOK'
    BY <2>1, <2>3 DEF PushEmpty, Captured
  <2>4. ASSUME NEW run \in Run, PushFirst(run) PROVE TypeOK'
    BY <2>1, <2>2, <2>4 DEF PushFirst, Captured
  <2>5. ASSUME NEW run \in Run, PushExpected(run) PROVE TypeOK'
    BY <2>1, <2>2, <2>5 DEF PushExpected, Captured
  <2>6. ASSUME NEW run \in Run, PushOther(run) PROVE TypeOK'
    BY <2>1, <2>2, <2>6 DEF PushOther, Captured, Store
  <2>7. CASE Drain
    <3>1. out_of_order[next] \in Run /\ next \in Numbers
      BY <2>7 DEF Drain
    <3>2. WrappingAdd(next, out_of_order[next].len) \in Numbers
      BY <3>1, WrappingAddType DEF Run
    <3> QED
      BY <2>7, <3>1, <3>2 DEF Drain
  <2>8. CASE DrainEnd
    BY <2>8 DEF DrainEnd
  <2>9. CASE UNCHANGED vars
    BY <2>9 DEF vars
  <2> QED
    BY <2>3, <2>4, <2>5, <2>6, <2>7, <2>8, <2>9 DEF Next
<1> QED
  BY <1>1, <1>2, PTL DEF Spec

\* Nothing is buffered before the stream has started.
BufferNeedsStream == next_seq = None => DOMAIN out_of_order = {}

\* DrainedDry is inductive together with BufferNeedsStream: the first segment
\* of a stream finds an empty buffer.
DryInv == TypeOK /\ DrainedDry /\ BufferNeedsStream /\ (next_seq = None => next = None)

\* The drain loop leaves no expected segment behind, whatever is captured.
THEOREM DrainsDry == Spec => []DrainedDry
<1> USE Assumptions DEF AllAssumptions
<1>1. Init => DryInv
  BY DEF Init, DryInv, TypeOK, DrainedDry, BufferNeedsStream, Numbers
<1>2. DryInv /\ TypeOK' /\ [Next]_vars => DryInv'
  <2> SUFFICES ASSUME DryInv, TypeOK', [Next]_vars PROVE DryInv'
    OBVIOUS
  <2> USE DEF DryInv, DrainedDry, BufferNeedsStream
  <2>1. None \notin Numbers
    BY DEF Numbers
  <2>2. ASSUME NEW run \in Run
        PROVE  TypeOK => WrappingAdd(WireSeq(run.off), run.len) \in Numbers
    BY WireSeqType, WrappingAddType DEF Run, TypeOK
  <2>3. ASSUME NEW run \in Run, PushEmpty(run) PROVE DryInv'
    BY <2>3 DEF PushEmpty
  <2>4. ASSUME NEW run \in Run, PushFirst(run) PROVE DryInv'
    BY <2>1, <2>2, <2>4 DEF PushFirst
  <2>5. ASSUME NEW run \in Run, PushExpected(run) PROVE DryInv'
    <3>1. WireSeq(run.off) \in Numbers
      BY WireSeqType DEF Run, TypeOK
    <3>2. next_seq' # None /\ next' # None
      BY <2>1, <2>2, <2>5, <3>1 DEF PushExpected
    <3> QED
      BY <3>2
  <2>6. ASSUME NEW run \in Run, PushOther(run) PROVE DryInv'
    BY <2>6 DEF PushOther, Store
  <2>7. CASE Drain
    <3>1. out_of_order[next] \in Run /\ next \in Numbers
      BY <2>7 DEF Drain, TypeOK
    <3>2. next' \in Numbers
      BY <2>7, <3>1, WrappingAddType DEF Drain, Run
    <3>3. next_seq' # None
      BY <2>7 DEF Drain
    <3> QED
      BY <2>1, <3>2, <3>3
  <2>8. CASE DrainEnd
    BY <2>1, <2>8 DEF DrainEnd, TypeOK
  <2>9. CASE UNCHANGED vars
    BY <2>9 DEF vars
  <2> QED
    BY <2>3, <2>4, <2>5, <2>6, <2>7, <2>8, <2>9 DEF Next
<1>3. DryInv => DrainedDry
  BY DEF DryInv
<1> QED
  BY <1>1, <1>2, <1>3, TypeCorrect, PTL DEF Spec

-----------------------------------------------------------------------------
(***************************************************************************)
(* In-order reassembly, for a stream shorter than the sequence space.      *)
(***************************************************************************)

\* Every buffered run is kept under its own sequence number and is not empty.
BufferInv ==
  \A s \in DOMAIN out_of_order :
    /\ s = WireSeq(out_of_order[s].off)
    /\ End(out_of_order[s]) <= StreamLen
    /\ out_of_order[s].len > 0

\* What the stream expects is the byte after the last one reassembled: in
\* next_seq between calls, in the loop's local inside a call.
CursorInv ==
  /\ next_seq = None <=> reassembled = <<>>
  /\ next_seq = None => next = None
  /\ reassembled # <<>> => Reached \in 0 .. StreamLen
  /\ reassembled # <<>> /\ next = None => next_seq = WireSeq(Reached)
  /\ next # None => next = WireSeq(Reached)

OrderInv == TypeOK /\ BufferNeedsStream /\ BufferInv /\ CursorInv /\ Contiguous

\* Appending a run that starts where the stream stops keeps it contiguous.
LEMMA AppendContiguous ==
  ASSUME reassembled \in Seq(Run), Contiguous, NEW run \in Run,
         reassembled # <<>> => Reached = run.off,
         reassembled' = Append(reassembled, run)
  PROVE  Contiguous' /\ Reached' = End(run) /\ reassembled' # <<>>
<1>1. /\ Len(reassembled') = Len(reassembled) + 1
      /\ reassembled'[Len(reassembled) + 1] = run
      /\ \A i \in 1 .. Len(reassembled) : reassembled'[i] = reassembled[i]
      /\ Len(reassembled) \in Nat
  OBVIOUS
<1>2. reassembled # <<>> => Len(reassembled) > 0
  OBVIOUS
<1>3. ASSUME NEW i \in 1 .. Len(reassembled') - 1
      PROVE  End(reassembled'[i]) = reassembled'[i + 1].off
  <2>1. CASE i = Len(reassembled)
    BY <1>1, <2>1 DEF Reached
  <2>2. CASE i < Len(reassembled)
    BY <1>1, <2>2 DEF Contiguous
  <2> QED
    BY <1>1, <2>1, <2>2
<1> QED
  BY <1>1, <1>3 DEF Contiguous, Reached

\* For every stream of fewer than SeqMod bytes, `push` only ever extends the
\* reassembled data by the bytes that follow it.
THEOREM ReassemblesInOrder == ASSUME NoWrap PROVE Spec => []Contiguous
<1> USE Assumptions DEF AllAssumptions
<1>1. Init => OrderInv
  <2> SUFFICES ASSUME Init PROVE OrderInv
    OBVIOUS
  <2>1. TypeOK
    BY DEF Init, TypeOK, Numbers
  <2> QED
    BY <2>1 DEF Init, OrderInv, BufferNeedsStream, BufferInv, CursorInv, Contiguous
<1>2. OrderInv /\ TypeOK' /\ [Next]_vars => OrderInv'
  <2> SUFFICES ASSUME OrderInv, TypeOK', [Next]_vars PROVE OrderInv'
    OBVIOUS
  <2> USE DEF OrderInv
  <2>1. None \notin Numbers /\ isn \in Numbers
    BY DEF Numbers, TypeOK
  <2>2. ASSUME NEW run \in Run, Captured(run)
        PROVE  /\ isn' = isn /\ next = None
               /\ run.off \in 0 .. StreamLen /\ run.len \in Nat /\ End(run) \in 0 .. StreamLen
               /\ WireSeq(run.off) \in Numbers
               /\ WrappingAdd(WireSeq(run.off), run.len) = WireSeq(End(run))
               /\ WireSeq(End(run)) \in Numbers
    <3>1. /\ run.off \in 0 .. StreamLen /\ run.len \in Nat /\ End(run) \in 0 .. StreamLen
      BY <2>2 DEF Captured, CanBeCaptured, End, Run
    <3> QED
      BY <2>1, <2>2, <3>1, WireSeqType, WireSeqAdvance DEF Captured, End
  <2>3. ASSUME NEW run \in Run, PushEmpty(run) PROVE OrderInv'
    BY <2>3 DEF PushEmpty, Captured, BufferNeedsStream, BufferInv, CursorInv, Contiguous,
                Reached, WireSeq
  <2>4. ASSUME NEW run \in Run, PushFirst(run) PROVE OrderInv'
    <3>1. Captured(run) /\ reassembled = <<>> /\ DOMAIN out_of_order = {}
      BY <2>4 DEF PushFirst, CursorInv, BufferNeedsStream
    <3>2. Contiguous' /\ Reached' = End(run) /\ reassembled' # <<>>
      BY <2>4, <3>1, AppendContiguous DEF PushFirst, TypeOK
    <3>3. CursorInv'
      BY <2>1, <2>2, <2>4, <3>1, <3>2 DEF PushFirst, CursorInv, WireSeq
    <3>4. BufferInv' /\ BufferNeedsStream'
      BY <2>4, <3>1 DEF PushFirst, BufferInv, BufferNeedsStream
    <3> QED
      BY <3>2, <3>3, <3>4
  <2>5. ASSUME NEW run \in Run, PushExpected(run) PROVE OrderInv'
    <3>1. Captured(run) /\ next_seq # None /\ reassembled # <<>>
      BY <2>1, <2>2, <2>5 DEF PushExpected, CursorInv
    <3>2. Reached = run.off
      BY <2>1, <2>2, <2>5, <3>1, WireSeqInjective DEF PushExpected, CursorInv
    <3>3. Contiguous' /\ Reached' = End(run) /\ reassembled' # <<>>
      BY <2>5, <3>2, AppendContiguous DEF PushExpected, TypeOK
    <3>4. CursorInv'
      BY <2>1, <2>2, <2>5, <3>1, <3>3 DEF PushExpected, CursorInv, WireSeq
    <3>5. BufferInv' /\ BufferNeedsStream'
      BY <2>2, <2>5, <3>1 DEF PushExpected, BufferInv, BufferNeedsStream, WireSeq
    <3> QED
      BY <3>3, <3>4, <3>5
  <2>6. ASSUME NEW run \in Run, PushOther(run) PROVE OrderInv'
    <3>1. Captured(run)
      BY <2>6 DEF PushOther
    <3>2. CursorInv' /\ Contiguous' /\ BufferNeedsStream'
      BY <2>2, <2>6, <3>1 DEF PushOther, CursorInv, Contiguous, BufferNeedsStream, Reached, WireSeq
    <3>3. End(run) <= StreamLen /\ run.len > 0
      BY <2>6, <3>1 DEF PushOther, Captured, CanBeCaptured
    <3>4. BufferInv'
      BY <2>2, <2>6, <3>1, <3>3 DEF PushOther, BufferInv, Store, WireSeq
    <3> QED
      BY <3>2, <3>4
  <2>7. CASE Drain
    <3> DEFINE run == out_of_order[next]
    <3>1. run \in Run /\ next \in Numbers /\ next_seq # None /\ reassembled # <<>>
      BY <2>1, <2>7 DEF Drain, TypeOK, CursorInv
    <3>2. /\ run.off \in 0 .. StreamLen /\ run.len \in Nat /\ End(run) \in 0 .. StreamLen
          /\ next = WireSeq(run.off)
      BY <2>7, <3>1 DEF Drain, BufferInv, Run, End
    <3>3. Reached = run.off
      BY <2>1, <2>7, <3>1, <3>2, WireSeqInjective DEF Drain, CursorInv
    <3>4. next' = WireSeq(End(run)) /\ WireSeq(End(run)) \in Numbers
      BY <2>1, <2>7, <3>2, WireSeqAdvance, WireSeqType DEF Drain, End
    <3>5. Contiguous' /\ Reached' = End(run) /\ reassembled' # <<>>
      BY <2>7, <3>1, <3>3, AppendContiguous DEF Drain, TypeOK
    <3>6. CursorInv'
      BY <2>1, <2>7, <3>1, <3>2, <3>4, <3>5 DEF Drain, CursorInv, WireSeq
    <3>7. BufferInv' /\ BufferNeedsStream'
      BY <2>7, <3>1 DEF Drain, BufferInv, BufferNeedsStream, WireSeq
    <3> QED
      BY <3>5, <3>6, <3>7
  <2>8. CASE DrainEnd
    <3>1. next \in Numbers /\ next_seq # None /\ next' = None /\ next_seq' = next
      BY <2>8 DEF DrainEnd, TypeOK, CursorInv
    <3>2. Reached' = Reached
      BY <2>8 DEF DrainEnd, Reached
    <3>3. CursorInv'
      BY <2>1, <2>8, <3>1, <3>2 DEF DrainEnd, CursorInv, WireSeq
    <3>4. BufferInv' /\ BufferNeedsStream' /\ Contiguous'
      BY <2>1, <2>8, <3>1 DEF DrainEnd, BufferInv, BufferNeedsStream, Contiguous, WireSeq
    <3> QED
      BY <3>3, <3>4
  <2>9. CASE UNCHANGED vars
    BY <2>9 DEF vars, BufferNeedsStream, BufferInv, CursorInv, Contiguous, Reached, WireSeq
  <2> QED
    BY <2>3, <2>4, <2>5, <2>6, <2>7, <2>8, <2>9 DEF Next
<1>3. OrderInv => Contiguous
  BY DEF OrderInv
<1> QED
  BY <1>1, <1>2, <1>3, TypeCorrect, PTL DEF Spec
=============================================================================
