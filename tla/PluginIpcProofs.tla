-------------------------- MODULE PluginIpcProofs --------------------------
(***************************************************************************)
(* Proofs about PluginIpc, for pipes of any size, lines of any length, any *)
(* number of calls and of lines the rule prints.                           *)
(***************************************************************************)
EXTENDS PluginIpc, SequenceTheorems, TLAPS

Chunk == [of : Nat, alerts : BOOLEAN, left : Nat]

\* One call that returned alerts.
Entry == [call : Nat, of : Nat]

TypeInv ==
  /\ pc \in {"idle", "write", "read", "dropped"} /\ calls \in Nat
  /\ pending \in Seq(Chunk) /\ line \in Chunk \cup {None} /\ returned \in Seq(Entry)
  /\ to \in Seq(Chunk) /\ from \in Seq(Chunk) /\ out \in Seq(Chunk)
  /\ plugin \in {"reading", "rule", "writing", "hung", "dead"} /\ current \in Nat
  /\ raised \subseteq Nat /\ printed \in Nat
  /\ pc = "write" <=> pending # <<>>
  /\ plugin = "writing" => out # <<>>

\* What is under way to the plugin, and back to the engine.
Requests == to \o pending
Answers  == from \o out

\* The call that reads the next line, and the packet the plugin answers next.
Upcoming   == IF pc \in {"write", "read"} THEN calls ELSE calls + 1
NextAnswer == IF plugin \in {"rule", "hung"} THEN current ELSE current + 1

\* The packets under way are the ones after cur, up to n, in order.
InSequence(q, cur, n) ==
  /\ \A i \in 1 .. Len(q) : cur < q[i].of /\ q[i].of <= n
  /\ \A i, j \in 1 .. Len(q) : i < j /\ q[i].left = 0 => q[i].of < q[j].of

RequestInv ==
  /\ current <= calls
  /\ plugin \in {"rule", "hung"} => current > 0
  /\ plugin # "dead" => InSequence(Requests, current, calls)

\* f gives each chunk the number of its line, that is of the call that will
\* read it: from up on, growing from line to line, and ahead of the packet the
\* line is about by what was printed at most.
Numbered(q, f, up, prints) ==
  /\ f \in [1 .. Len(q) -> Nat]
  /\ \A i \in 1 .. Len(q) : up <= f[i] /\ (q[i].alerts => f[i] <= q[i].of + prints)
  /\ \A i, j \in 1 .. Len(q) : i < j /\ q[i].left = 0 =>
       f[i] < f[j] /\ (q[i].alerts /\ q[j].alerts => q[i].of < q[j].of)

\* What is under way is about packets before next.
Below(q, f, next, prints) ==
  \A i \in 1 .. Len(q) : f[i] < next + prints /\ q[i].of < next

\* Such numbers exist.
Placed(q, up, next, prints) ==
  \E f \in [1 .. Len(q) -> Nat] : Numbered(q, f, up, prints) /\ Below(q, f, next, prints)

\* What is under way is about packets fed, and was not returned before.
Fresh(q, rets, n) ==
  \A i \in 1 .. Len(q) :
    /\ q[i].of <= n
    /\ q[i].alerts => \A k \in 1 .. Len(rets) : rets[k].of < q[i].of

\* The engine may still read what is under way.
Readable == plugin # "dead" \/ pc = "read"

AnswerInv ==
  Readable =>
    /\ Fresh(Answers, returned, calls)
    /\ \E f \in [1 .. Len(Answers) -> Nat] :
         /\ Numbered(Answers, f, Upcoming, printed)
         /\ plugin # "dead" => Below(Answers, f, NextAnswer, printed)

\* The engine is not ahead of the plugin.
PaceInv ==
  plugin # "dead" =>
    /\ Upcoming <= NextAnswer + printed
    /\ \A k \in 1 .. Len(returned) : returned[k].of < NextAnswer

\* The line begun is the current call's.
LineInv ==
  line # None =>
    /\ pc = "read" /\ line.of <= calls
    /\ line.alerts => /\ calls <= line.of + printed
                      /\ \A k \in 1 .. Len(returned) : returned[k].of < line.of

Ending(n, c) == c.of = n /\ c.alerts /\ c.left = 0

\* The alerts raised and not yet returned are under way as long as the plugin
\* lives; without prints a crash leaves at most the last ones.
RaisedInv ==
  /\ \A n \in raised : n <= current
  /\ plugin # "dead" =>
       \A n \in raised \ Reported : \E i \in 1 .. Len(Answers) : Ending(n, Answers[i])
  /\ plugin = "dead" /\ printed = 0 => \A n \in raised \ Reported : \A m \in raised : m <= n

PluginInv ==
  /\ TypeInv
  /\ AnswersFollowPackets
  /\ RequestInv /\ AnswerInv /\ PaceInv /\ LineInv /\ RaisedInv

-----------------------------------------------------------------------------
(***************************************************************************)
(* Lines and pipes                                                         *)
(***************************************************************************)
LEMMA ChunkFields ==
  ASSUME NEW c \in Chunk
  PROVE  c.of \in Nat /\ c.alerts \in BOOLEAN /\ c.left \in Nat
BY DEF Chunk

LEMMA ChunkBuilt ==
  ASSUME NEW n \in Nat, NEW a \in BOOLEAN, NEW l \in Nat
  PROVE  LET c == [of |-> n, alerts |-> a, left |-> l]
         IN  c \in Chunk /\ c.of = n /\ c.alerts = a /\ c.left = l
BY DEF Chunk

LEMMA ElementFields ==
  ASSUME NEW q \in Seq(Chunk), NEW i \in 1 .. Len(q)
  PROVE  q[i] \in Chunk /\ q[i].of \in Nat /\ q[i].alerts \in BOOLEAN /\ q[i].left \in Nat
<1>1. q[i] \in Chunk
  BY ElementOfSeq
<1> QED
  BY <1>1, ChunkFields

\* r is q and a line about packet n.
Extends(r, q, n, a) ==
  /\ Len(q) < Len(r)
  /\ \A i \in 1 .. Len(q) : r[i] = q[i]
  /\ \A i \in Len(q) + 1 .. Len(r) :
       r[i].of = n /\ r[i].alerts = a /\ (r[i].left = 0 <=> i = Len(r))

\* r is q without its first chunk.
Shortens(r, q) ==
  /\ Len(q) = Len(r) + 1
  /\ \A i \in 1 .. Len(r) : r[i] = q[i + 1]

LEMMA LineType ==
  ASSUME NEW n \in Nat, NEW a \in BOOLEAN, NEW size \in 1 .. MaxChunks
  PROVE  /\ Line(n, a, size) \in Seq(Chunk) /\ Len(Line(n, a, size)) = size
         /\ \A i \in 1 .. size :
              /\ Line(n, a, size)[i].of = n /\ Line(n, a, size)[i].alerts = a
              /\ Line(n, a, size)[i].left = 0 <=> i = size
<1> DEFINE e(i) == [of |-> n, alerts |-> a, left |-> size - i]
<1>0. size \in Nat
  BY PipeAssumption
<1>1. ASSUME NEW i \in 1 .. size
      PROVE  e(i) \in Chunk /\ e(i).of = n /\ e(i).alerts = a /\ (e(i).left = 0 <=> i = size)
  <2>1. size - i \in Nat /\ (size - i = 0 <=> i = size)
    BY <1>0
  <2> QED
    BY <2>1, ChunkBuilt
<1> HIDE DEF e
<1>2. Line(n, a, size) = [i \in 1 .. size |-> e(i)]
  BY DEF Line, e
<1>3. [i \in 1 .. size |-> e(i)] \in [1 .. size -> Chunk]
  BY <1>1
<1>4. Line(n, a, size) \in Seq(Chunk) /\ Len(Line(n, a, size)) = size
  BY <1>0, <1>2, <1>3
<1> QED
  BY <1>1, <1>2, <1>4

LEMMA LineIsSeq ==
  ASSUME NEW n \in Nat, NEW a \in BOOLEAN, NEW size \in 1 .. MaxChunks
  PROVE  Line(n, a, size) \in Seq(Chunk) /\ Len(Line(n, a, size)) = size
BY LineType

LEMMA LineExtends ==
  ASSUME NEW q \in Seq(Chunk), NEW n \in Nat, NEW a \in BOOLEAN, NEW size \in 1 .. MaxChunks
  PROVE  /\ q \o Line(n, a, size) \in Seq(Chunk)
         /\ Extends(q \o Line(n, a, size), q, n, a)
<1> DEFINE l == Line(n, a, size)
<1>1. /\ l \in Seq(Chunk) /\ Len(l) = size
      /\ \A i \in 1 .. size : l[i].of = n /\ l[i].alerts = a /\ (l[i].left = 0 <=> i = size)
  BY LineType
<1> HIDE DEF l
<1> DEFINE r == q \o l
<1>2. /\ r \in Seq(Chunk) /\ Len(r) = Len(q) + Len(l)
      /\ \A i \in 1 .. Len(q) + Len(l) : r[i] = IF i <= Len(q) THEN q[i] ELSE l[i - Len(q)]
  BY <1>1, ConcatProperties
<1> HIDE DEF r
<1>3. PICK k \in Nat, s \in Nat \ {0} : k = Len(q) /\ s = size /\ Len(r) = k + s
  BY <1>1, <1>2, PipeAssumption, LenProperties
<1>4. ASSUME NEW i \in k + 1 .. k + s
      PROVE  r[i].of = n /\ r[i].alerts = a /\ (r[i].left = 0 <=> i = k + s)
  <2>1. i \in 1 .. k + s /\ ~ (i <= k) /\ i - k \in 1 .. s /\ (i - k = s <=> i = k + s)
    BY <1>3
  <2>2. r[i] = l[i - k]
    BY <1>1, <1>2, <1>3, <2>1
  <2> QED
    BY <1>1, <1>3, <2>1, <2>2
<1>5. \A i \in 1 .. k : r[i] = q[i]
  BY <1>1, <1>2, <1>3
<1>6. Extends(r, q, n, a)
  BY <1>3, <1>4, <1>5 DEF Extends
<1> QED
  BY <1>2, <1>6 DEF r, l

\* A chunk that moves from one pipe's writer to the pipe stays where it is in
\* what is under way.
LEMMA Moved ==
  ASSUME NEW p \in Seq(Chunk), NEW s \in Seq(Chunk), s # <<>>
  PROVE  Append(p, Head(s)) \o Tail(s) = p \o s
<1>1. /\ Len(s) > 0 /\ Len(s) \in Nat /\ Len(p) \in Nat
      /\ Tail(s) \in Seq(Chunk) /\ Len(Tail(s)) = Len(s) - 1
      /\ \A i \in 1 .. Len(s) - 1 : Tail(s)[i] = s[i + 1]
      /\ Head(s) = s[1] /\ Head(s) \in Chunk
  BY ElementOfSeq
<1> DEFINE h == Append(p, Head(s))
           t == Tail(s)
<1>2. /\ h \in Seq(Chunk) /\ Len(h) = Len(p) + 1 /\ h[Len(p) + 1] = s[1]
      /\ \A i \in 1 .. Len(p) : h[i] = p[i]
  BY <1>1
<1>t. t \in Seq(Chunk) /\ Len(t) = Len(s) - 1 /\ \A i \in 1 .. Len(s) - 1 : t[i] = s[i + 1]
  BY <1>1
<1> HIDE DEF h, t
<1> DEFINE l == h \o t
           r == p \o s
<1>3. /\ l \in Seq(Chunk) /\ Len(l) = Len(h) + Len(t)
      /\ \A i \in 1 .. Len(h) + Len(t) : l[i] = IF i <= Len(h) THEN h[i] ELSE t[i - Len(h)]
  BY <1>2, <1>t, ConcatProperties
<1>4. /\ r \in Seq(Chunk) /\ Len(r) = Len(p) + Len(s)
      /\ \A i \in 1 .. Len(p) + Len(s) : r[i] = IF i <= Len(p) THEN p[i] ELSE s[i - Len(p)]
  BY ConcatProperties
<1> HIDE DEF l, r
<1>5. PICK m \in Nat, k \in Nat : m = Len(p) /\ k = Len(t) /\ Len(h) = m + 1 /\ Len(s) = k + 1
  <2>1. Len(p) \in Nat /\ Len(s) \in Nat /\ Len(s) > 0
    BY <1>1
  <2> QED
    BY <1>2, <1>t, <2>1
<1>6. ASSUME NEW i \in 1 .. m + (k + 1) PROVE l[i] = r[i]
  <2>1. CASE i <= m
    BY <1>2, <1>3, <1>4, <1>5, <2>1
  <2>2. CASE i = m + 1
    <3>1. l[i] = h[i] /\ r[i] = s[i - m] /\ i - m = 1
      BY <1>3, <1>4, <1>5, <2>2
    <3> QED
      BY <1>2, <1>5, <2>2, <3>1
  <2>3. CASE i > m + 1
    <3>1. l[i] = t[i - (m + 1)] /\ r[i] = s[i - m]
      BY <1>3, <1>4, <1>5, <2>3
    <3>2. i - (m + 1) \in 1 .. k /\ i - (m + 1) + 1 = i - m
      BY <2>3
    <3>3. t[i - (m + 1)] = s[i - (m + 1) + 1]
      BY <1>t, <1>5, <3>2
    <3> QED
      BY <3>1, <3>2, <3>3
  <2> QED
    BY <1>5, <2>1, <2>2, <2>3
<1>7. l = r
  <2>1. Len(l) = m + (k + 1) /\ Len(r) = m + (k + 1)
    BY <1>3, <1>4, <1>5
  <2> QED
    BY <1>3, <1>4, <1>6, <2>1, SeqEqual
<1> QED
  BY <1>7 DEF l, r, h, t

\* Reading a pipe takes the first chunk off what is under way.
LEMMA TailShortens ==
  ASSUME NEW p \in Seq(Chunk), NEW s \in Seq(Chunk), p # <<>>
  PROVE  /\ p \o s \in Seq(Chunk) /\ Tail(p) \o s \in Seq(Chunk)
         /\ Shortens(Tail(p) \o s, p \o s) /\ Head(p) = (p \o s)[1] /\ Head(p) \in Chunk
<1> DEFINE t == Tail(p)
<1>1. /\ Len(p) > 0 /\ Len(p) \in Nat /\ Len(s) \in Nat /\ Head(p) = p[1] /\ Head(p) \in Chunk
      /\ t \in Seq(Chunk) /\ Len(t) = Len(p) - 1
      /\ \A i \in 1 .. Len(p) - 1 : t[i] = p[i + 1]
  BY ElementOfSeq
<1> HIDE DEF t
<1> DEFINE l == t \o s
           r == p \o s
<1>2. /\ l \in Seq(Chunk) /\ Len(l) = Len(t) + Len(s)
      /\ \A i \in 1 .. Len(t) + Len(s) : l[i] = IF i <= Len(t) THEN t[i] ELSE s[i - Len(t)]
  BY <1>1, ConcatProperties
<1>3. /\ r \in Seq(Chunk) /\ Len(r) = Len(p) + Len(s)
      /\ \A i \in 1 .. Len(p) + Len(s) : r[i] = IF i <= Len(p) THEN p[i] ELSE s[i - Len(p)]
  BY ConcatProperties
<1> HIDE DEF l, r
<1>4. PICK m \in Nat, k \in Nat : m = Len(t) /\ k = Len(s) /\ Len(p) = m + 1
  BY <1>1
<1>5. ASSUME NEW i \in 1 .. m + k PROVE l[i] = r[i + 1]
  <2>0. i + 1 \in 1 .. (m + 1) + k
    OBVIOUS
  <2>1. CASE i <= m
    <3>1. l[i] = t[i] /\ r[i + 1] = p[i + 1]
      BY <1>2, <1>3, <1>4, <2>0, <2>1
    <3> QED
      BY <1>1, <1>4, <2>1, <3>1
  <2>2. CASE i > m
    <3>1. l[i] = s[i - m] /\ r[i + 1] = s[(i + 1) - (m + 1)]
      BY <1>2, <1>3, <1>4, <2>0, <2>2
    <3>2. (i + 1) - (m + 1) = i - m
      OBVIOUS
    <3> QED
      BY <3>1, <3>2
  <2> QED
    BY <2>1, <2>2
<1>6. Len(l) = m + k /\ Len(r) = (m + k) + 1
  BY <1>2, <1>3, <1>4
<1>7. Shortens(l, r)
  BY <1>5, <1>6 DEF Shortens
<1>8. r[1] = p[1]
  BY <1>3, <1>4
<1> QED
  BY <1>1, <1>2, <1>3, <1>7, <1>8 DEF l, r, t

-----------------------------------------------------------------------------
(***************************************************************************)
(* What a line more, or a chunk less, does to what is under way            *)
(***************************************************************************)
LEMMA RequestsExtend ==
  ASSUME NEW q \in Seq(Chunk), NEW r \in Seq(Chunk), NEW cur \in Nat, NEW n \in Nat,
         cur <= n, InSequence(q, cur, n), Extends(r, q, n + 1, FALSE)
  PROVE  InSequence(r, cur, n + 1)
<1>1. PICK k \in Nat, m \in Nat : k = Len(q) /\ m = Len(r)
  BY LenProperties
<1>2. ASSUME NEW i \in 1 .. m
      PROVE  IF i <= k THEN r[i] = q[i] /\ i \in 1 .. Len(q) /\ q[i].of \in Nat
                       ELSE r[i].of = n + 1 /\ (r[i].left = 0 <=> i = m)
  <2>1. CASE i <= k
    <3>1. i \in 1 .. Len(q)
      BY <1>1, <2>1
    <3> QED
      BY <2>1, <3>1, ElementFields DEF Extends
  <2>2. CASE ~ (i <= k)
    <3>1. i \in Len(q) + 1 .. Len(r)
      BY <1>1, <2>2
    <3> QED
      BY <1>1, <2>2, <3>1 DEF Extends
  <2> QED
    BY <2>1, <2>2
<1>3. ASSUME NEW i \in 1 .. m PROVE cur < r[i].of /\ r[i].of <= n + 1
  <2>1. CASE i <= k
    <3>1. cur < q[i].of /\ q[i].of <= n /\ q[i].of \in Nat /\ r[i] = q[i]
      BY <1>2, <2>1 DEF InSequence
    <3> QED
      BY <3>1
  <2>2. CASE ~ (i <= k)
    BY <1>2, <2>2
  <2> QED
    BY <2>1, <2>2
<1>4. ASSUME NEW i \in 1 .. m, NEW j \in 1 .. m, i < j, r[i].left = 0
      PROVE  r[i].of < r[j].of
  <2>0. i <= k
    BY <1>2, <1>4
  <2>1. CASE j <= k
    BY <1>2, <1>4, <2>0, <2>1 DEF InSequence
  <2>2. CASE ~ (j <= k)
    <3>1. q[i].of <= n /\ q[i].of \in Nat /\ r[i] = q[i] /\ r[j].of = n + 1
      BY <1>2, <2>0, <2>2 DEF InSequence
    <3> QED
      BY <3>1
  <2> QED
    BY <2>1, <2>2
<1> QED
  BY <1>1, <1>3, <1>4 DEF InSequence

LEMMA RequestsShorten ==
  ASSUME NEW q \in Seq(Chunk), NEW r \in Seq(Chunk), NEW cur \in Nat, NEW n \in Nat,
         InSequence(q, cur, n), Shortens(r, q)
  PROVE  /\ cur < q[1].of /\ q[1].of <= n
         /\ InSequence(r, cur, n)
         /\ q[1].left = 0 => InSequence(r, q[1].of, n)
<1>1. PICK m \in Nat : m = Len(r) /\ Len(q) = m + 1
  BY LenProperties DEF Shortens
<1>2. ASSUME NEW i \in 1 .. m PROVE r[i] = q[i + 1] /\ i + 1 \in 1 .. Len(q) /\ 1 < i + 1
  BY <1>1 DEF Shortens
<1>3. 1 \in 1 .. Len(q)
  BY <1>1
<1>4. cur < q[1].of /\ q[1].of <= n
  BY <1>3 DEF InSequence
<1>5. ASSUME NEW i \in 1 .. m, NEW j \in 1 .. m, i < j, r[i].left = 0
      PROVE  r[i].of < r[j].of
  <2>1. i + 1 < j + 1
    BY <1>5
  <2> QED
    BY <1>2, <1>5, <2>1 DEF InSequence
<1>6. \A i \in 1 .. m : cur < r[i].of /\ r[i].of <= n
  BY <1>2 DEF InSequence
<1>7. q[1].left = 0 => \A i \in 1 .. m : q[1].of < r[i].of
  BY <1>2, <1>3 DEF InSequence
<1> QED
  BY <1>1, <1>4, <1>5, <1>6, <1>7 DEF InSequence

\* A line about n can follow what is under way before next, and next moves on.
Follows(n, a, up, prints, next, newprints, newnext, rets, last) ==
  /\ up <= next + prints /\ next + prints < newnext + newprints
  /\ prints <= newprints /\ next <= newnext /\ n <= last /\ n < newnext
  /\ a => /\ next + prints <= n + newprints /\ next <= n
          /\ \A k \in 1 .. Len(rets) : rets[k].of < n

\* The line the plugin appends gets the next number.
LEMMA AnswersExtend ==
  ASSUME NEW q \in Seq(Chunk), NEW r \in Seq(Chunk), NEW n \in Nat, NEW a \in BOOLEAN,
         NEW f, NEW up \in Nat, NEW prints \in Nat, NEW newprints \in Nat,
         NEW next \in Nat, NEW newnext \in Nat, NEW rets, NEW last \in Nat,
         Follows(n, a, up, prints, next, newprints, newnext, rets, last),
         Numbered(q, f, up, prints), Below(q, f, next, prints), Fresh(q, rets, last),
         Extends(r, q, n, a)
  PROVE  Fresh(r, rets, last) /\ Placed(r, up, newnext, newprints)
<1>n. PICK number \in Nat : number = next + prints
  OBVIOUS
<1>0. /\ up <= number /\ number < newnext + newprints
      /\ prints <= newprints /\ next <= newnext /\ n <= last /\ n < newnext
      /\ a => /\ number <= n + newprints /\ next <= n
              /\ \A k \in 1 .. Len(rets) : rets[k].of < n
  BY <1>n DEF Follows
<1>p. prints <= newprints /\ next <= newnext
  BY <1>0
<1>1. PICK k \in Nat, m \in Nat : k = Len(q) /\ m = Len(r) /\ k < m
  BY LenProperties DEF Extends
<1> DEFINE g == [i \in 1 .. m |-> IF i <= k THEN f[i] ELSE number]
<1>2. ASSUME NEW i \in 1 .. m, i <= k
      PROVE  /\ r[i] = q[i] /\ i \in 1 .. Len(q) /\ q[i].of \in Nat /\ q[i].alerts \in BOOLEAN
             /\ g[i] = f[i] /\ f[i] \in Nat
  <2>1. i \in 1 .. Len(q)
    BY <1>1, <1>2
  <2> QED
    BY <1>1, <1>2, <2>1, ElementFields DEF Extends, Numbered
<1>3. ASSUME NEW i \in 1 .. m, ~ (i <= k)
      PROVE  /\ r[i].of = n /\ r[i].alerts = a /\ (r[i].left = 0 <=> i = m)
             /\ g[i] = number
  BY <1>1, <1>3 DEF Extends
<1>g. g \in [1 .. m -> Nat]
  BY <1>2, <1>3
<1> HIDE DEF g
<1>4. ASSUME NEW i \in 1 .. m
      PROVE  /\ up <= g[i] /\ (r[i].alerts => g[i] <= r[i].of + newprints)
             /\ g[i] < newnext + newprints /\ r[i].of < newnext
             /\ r[i].of <= last
             /\ r[i].alerts => \A j \in 1 .. Len(rets) : rets[j].of < r[i].of
  <2>1. CASE i <= k
    <3>1. /\ up <= f[i] /\ (q[i].alerts => f[i] <= q[i].of + prints)
          /\ f[i] < next + prints /\ q[i].of < next /\ q[i].of <= last
          /\ q[i].alerts => \A j \in 1 .. Len(rets) : rets[j].of < q[i].of
      BY <1>2, <2>1 DEF Numbered, Below, Fresh
    <3>0. PICK x \in Nat, o \in Nat : x = f[i] /\ o = q[i].of
      BY <1>2, <2>1
    <3>2. x < newnext + newprints /\ o < newnext
      <4>1. x < next + prints /\ o < next
        BY <3>0, <3>1
      <4> QED
        BY <1>p, <4>1
    <3>3. q[i].alerts => x <= o + newprints
      <4>1. q[i].alerts => x <= o + prints
        BY <3>0, <3>1
      <4> QED
        BY <1>p, <4>1
    <3> QED
      BY <1>2, <2>1, <3>0, <3>1, <3>2, <3>3
  <2>2. CASE ~ (i <= k)
    BY <1>0, <1>3, <2>2
  <2> QED
    BY <2>1, <2>2
<1>5. ASSUME NEW i \in 1 .. m, NEW j \in 1 .. m, i < j, r[i].left = 0
      PROVE  g[i] < g[j] /\ (r[i].alerts /\ r[j].alerts => r[i].of < r[j].of)
  <2>0. i <= k
    BY <1>3, <1>5
  <2>1. CASE j <= k
    BY <1>2, <1>5, <2>0, <2>1 DEF Numbered
  <2>2. CASE ~ (j <= k)
    <3>1. f[i] < next + prints /\ q[i].of < next /\ f[i] \in Nat /\ q[i].of \in Nat
      BY <1>2, <2>0 DEF Below
    <3>2. g[i] = f[i] /\ g[j] = number /\ r[i] = q[i] /\ r[j].of = n /\ r[j].alerts = a
      BY <1>2, <1>3, <2>0, <2>2
    <3>3. f[i] < number /\ (r[j].alerts => q[i].of < n)
      <4>1. r[j].alerts => next <= n
        BY <1>0, <3>2
      <4>2. PICK x \in Nat, o \in Nat : x = f[i] /\ o = q[i].of
        BY <3>1
      <4>3. x < number /\ o < next
        BY <1>n, <3>1, <4>2
      <4>4. next <= n => o < n
        BY <4>3
      <4> QED
        BY <4>1, <4>2, <4>3, <4>4
    <3> QED
      BY <3>2, <3>3
  <2> QED
    BY <2>1, <2>2
<1>6. Numbered(r, g, up, newprints) /\ Below(r, g, newnext, newprints) /\ Fresh(r, rets, last)
  BY <1>1, <1>g, <1>4, <1>5 DEF Numbered, Below, Fresh
<1> QED
  BY <1>1, <1>g, <1>6 DEF Placed

\* What is left after a chunk is read.
LEMMA AnswersShorten ==
  ASSUME NEW q \in Seq(Chunk), NEW r \in Seq(Chunk), NEW f, NEW up \in Nat, NEW prints \in Nat,
         Numbered(q, f, up, prints), Shortens(r, q)
  PROVE  /\ f[1] \in Nat /\ up <= f[1] /\ (q[1].alerts => f[1] <= q[1].of + prints)
         /\ \E g \in [1 .. Len(r) -> Nat] :
              /\ Numbered(r, g, IF q[1].left = 0 THEN up + 1 ELSE up, prints)
              /\ \A next : Below(q, f, next, prints) => Below(r, g, next, prints)
<1>1. PICK m \in Nat : m = Len(r) /\ Len(q) = m + 1
  BY LenProperties DEF Shortens
<1> DEFINE g == [i \in 1 .. m |-> f[i + 1]]
<1>2. ASSUME NEW i \in 1 .. m
      PROVE  /\ r[i] = q[i + 1] /\ i + 1 \in 1 .. Len(q) /\ 1 < i + 1
             /\ g[i] = f[i + 1] /\ f[i + 1] \in Nat
  <2>1. i + 1 \in 1 .. Len(q) /\ 1 < i + 1
    BY <1>1
  <2>2. f[i + 1] \in Nat
    BY <2>1 DEF Numbered
  <2> QED
    BY <1>1, <2>1, <2>2 DEF Shortens
<1>3. 1 \in 1 .. Len(q)
  BY <1>1
<1>4. f[1] \in Nat /\ up <= f[1] /\ (q[1].alerts => f[1] <= q[1].of + prints)
  BY <1>3 DEF Numbered
<1>g. g \in [1 .. m -> Nat]
  BY <1>2
<1> HIDE DEF g
<1>5. ASSUME NEW i \in 1 .. m
      PROVE  up <= g[i] /\ (r[i].alerts => g[i] <= r[i].of + prints)
  BY <1>2 DEF Numbered
<1>6. ASSUME q[1].left = 0, NEW i \in 1 .. m PROVE up + 1 <= g[i]
  <2>1. f[1] < f[i + 1]
    BY <1>2, <1>3, <1>6 DEF Numbered
  <2> QED
    BY <1>2, <1>4, <2>1
<1>7. ASSUME NEW i \in 1 .. m, NEW j \in 1 .. m, i < j, r[i].left = 0
      PROVE  g[i] < g[j] /\ (r[i].alerts /\ r[j].alerts => r[i].of < r[j].of)
  <2>1. i + 1 < j + 1
    BY <1>7
  <2> QED
    BY <1>2, <1>7, <2>1 DEF Numbered
<1>8. Numbered(r, g, IF q[1].left = 0 THEN up + 1 ELSE up, prints)
  BY <1>1, <1>g, <1>5, <1>6, <1>7 DEF Numbered
<1>9. ASSUME NEW next, Below(q, f, next, prints) PROVE Below(r, g, next, prints)
  BY <1>1, <1>2, <1>9 DEF Below
<1> QED
  BY <1>1, <1>4, <1>g, <1>8, <1>9

-----------------------------------------------------------------------------
(***************************************************************************)
(* The steps                                                               *)
(***************************************************************************)
LEMMA EntryBuilt ==
  ASSUME NEW k \in Nat, NEW n \in Nat
  PROVE  [call |-> k, of |-> n] \in Entry
BY DEF Entry

LEMMA EntryFields ==
  ASSUME TypeInv, NEW i \in 1 .. Len(returned)
  PROVE  returned[i] \in Entry /\ returned[i].of \in Nat /\ returned[i].call \in Nat
<1>1. returned[i] \in Entry
  BY ElementOfSeq DEF TypeInv
<1> QED
  BY <1>1 DEF Entry

\* A line that parsed leaves the returned alerts well formed.
LEMMA ReturnType ==
  ASSUME TypeInv, NEW c \in Chunk, Return(c)
  PROVE  returned' \in Seq(Entry) /\ line' = None /\ pc' = "idle"
<1>1. c.of \in Nat
  BY ChunkFields
<1>2. [call |-> calls, of |-> c.of] \in Entry
  BY <1>1, EntryBuilt DEF TypeInv
<1> QED
  BY <1>2 DEF Return, TypeInv

LEMMA TypeStep == TypeInv /\ [Next]_vars => TypeInv'
<1> SUFFICES ASSUME TypeInv, [Next]_vars PROVE TypeInv'
  OBVIOUS
<1>p. MaxChunks \in Nat /\ MaxChunks > 0
  BY PipeAssumption
<1>1. CASE Feed
  <2>1. PICK size \in 1 .. MaxChunks : pending' = Line(calls + 1, FALSE, size)
    BY <1>1 DEF Feed
  <2>2. calls + 1 \in Nat /\ FALSE \in BOOLEAN
    BY DEF TypeInv
  <2>3. pending' \in Seq(Chunk) /\ Len(pending') = size
    <3>1. /\ Line(calls + 1, FALSE, size) \in Seq(Chunk)
          /\ Len(Line(calls + 1, FALSE, size)) = size
      BY <2>2, LineIsSeq
    <3> QED
      BY <2>1, <3>1, Zenon
  <2>4. pending' # <<>>
    BY <1>p, <2>3
  <2> QED
    BY <1>1, <2>2, <2>3, <2>4 DEF Feed, TypeInv, process
<1>2. CASE WriteChunk
  <2>1. pending # <<>> /\ to' = Append(to, Head(pending)) /\ pending' = Tail(pending)
    BY <1>2 DEF WriteChunk, TypeInv
  <2>2. Head(pending) \in Chunk /\ pending' \in Seq(Chunk)
    BY <2>1, HeadTailProperties DEF TypeInv
  <2>3. to' \in Seq(Chunk)
    BY <2>1, <2>2, AppendProperties DEF TypeInv
  <2> QED
    BY <1>2, <2>2, <2>3 DEF WriteChunk, TypeInv, process
<1>3. CASE WriteFails \/ Drop
  <2>1. CASE WriteFails
    <3>1. <<>> \in Seq(Chunk)
      OBVIOUS
    <3> QED
      BY <2>1, <3>1 DEF WriteFails, TypeInv, process
  <2>2. CASE Drop
    BY <2>2 DEF Drop, TypeInv
  <2> QED
    BY <1>3, <2>1, <2>2
<1>4. CASE ReadChunk
  <2>1. Head(from) \in Chunk /\ from' \in Seq(Chunk)
    BY <1>4, HeadTailProperties DEF ReadChunk, TypeInv
  <2>2. CASE Head(from).left = 0
    <3>1. returned' \in Seq(Entry) /\ line' = None /\ pc' = "idle"
      BY <1>4, <2>1, <2>2, ReturnType DEF ReadChunk
    <3> QED
      BY <1>4, <2>1, <3>1 DEF ReadChunk, TypeInv, process
  <2>3. CASE Head(from).left # 0
    BY <1>4, <2>1, <2>3 DEF ReadChunk, TypeInv, process
  <2> QED
    BY <2>2, <2>3
<1>5. CASE ReadEof
  <2>1. CASE line # None /\ Return(line)
    <3>1. returned' \in Seq(Entry) /\ line' = None /\ pc' = "idle"
      BY <2>1, ReturnType DEF TypeInv
    <3> QED
      BY <1>5, <3>1 DEF ReadEof, TypeInv, process
  <2>2. CASE line' = None /\ pc' = "idle" /\ UNCHANGED returned
    BY <1>5, <2>2 DEF ReadEof, TypeInv, process
  <2> QED
    BY <1>5, <2>1, <2>2 DEF ReadEof
<1>6. CASE PluginRead
  <2>1. Head(to) \in Chunk /\ to' \in Seq(Chunk)
    BY <1>6, HeadTailProperties DEF PluginRead, TypeInv
  <2>2. Head(to).of \in Nat
    BY <2>1, ChunkFields
  <2> QED
    BY <1>6, <2>1, <2>2 DEF PluginRead, TypeInv, engine
<1>7. CASE RulePrints
  <2>1. 0 \in Nat /\ FALSE \in BOOLEAN /\ 1 \in 1 .. MaxChunks
    BY <1>p
  <2>2. out \o Line(0, FALSE, 1) \in Seq(Chunk)
    BY <2>1, LineExtends DEF TypeInv
  <2>3. /\ out' \in Seq(Chunk) /\ plugin' = "rule" /\ printed' = printed + 1
        /\ UNCHANGED <<pc, calls, pending, line, returned, to, from, current, raised>>
    BY <1>7, <2>2 DEF RulePrints, engine
  <2> HIDE DEF Line
  <2> QED
    BY <2>3 DEF TypeInv
<1>8. CASE RuleReturns
  <2>1. PICK size \in 1 .. MaxChunks, a \in BOOLEAN :
          /\ out' = out \o Line(current, a, size)
          /\ raised' = raised \/ raised' = raised \cup {current}
    BY <1>8 DEF RuleReturns
  <2>2. out' \in Seq(Chunk) /\ Len(out) < Len(out')
    BY <2>1, LineExtends DEF TypeInv, Extends
  <2>3. out' # <<>>
    <3>1. Len(out) \in Nat
      BY LenProperties DEF TypeInv
    <3> QED
      BY <2>2, <3>1
  <2>4. raised' \subseteq Nat
    BY <2>1 DEF TypeInv
  <2> QED
    BY <1>8, <2>2, <2>3, <2>4 DEF RuleReturns, TypeInv, engine
<1>9. CASE PluginWrite
  <2>1. out # <<>> /\ from' = Append(from, Head(out)) /\ out' = Tail(out)
    BY <1>9 DEF PluginWrite, TypeInv
  <2>2. Head(out) \in Chunk /\ out' \in Seq(Chunk)
    BY <2>1, HeadTailProperties DEF TypeInv
  <2>3. from' \in Seq(Chunk)
    BY <2>1, <2>2, AppendProperties DEF TypeInv
  <2> QED
    BY <1>9, <2>2, <2>3 DEF PluginWrite, TypeInv, engine
<1>10. CASE Hang \/ Crash
  <2>1. <<>> \in Seq(Chunk)
    OBVIOUS
  <2>2. /\ plugin' \in {"hung", "dead"} /\ to' \in Seq(Chunk) /\ out' \in Seq(Chunk)
        /\ UNCHANGED <<pc, calls, pending, line, returned, from, current, raised, printed>>
    BY <1>10, <2>1 DEF Hang, Crash, TypeInv, engine
  <2> QED
    BY <2>2 DEF TypeInv
<1>11. CASE UNCHANGED vars
  BY <1>11 DEF vars, engine, process, TypeInv
<1> QED
  BY <1>1, <1>2, <1>3, <1>4, <1>5, <1>6, <1>7, <1>8, <1>9, <1>10, <1>11
     DEF Next, CallStep, PluginStep

\* What is under way, as sequences of chunks.
LEMMA UnderWayType ==
  ASSUME TypeInv
  PROVE  Requests \in Seq(Chunk) /\ Answers \in Seq(Chunk)
BY ConcatProperties DEF TypeInv, Requests, Answers

LEMMA RequestStep == TypeInv /\ RequestInv /\ [Next]_vars => RequestInv'
<1> SUFFICES ASSUME TypeInv, RequestInv, [Next]_vars PROVE RequestInv'
  OBVIOUS
<1>1. CASE Feed
  <2>1. PICK size \in 1 .. MaxChunks : pending' = Line(calls + 1, FALSE, size)
    BY <1>1 DEF Feed
  <2>2. /\ calls + 1 \in Nat /\ calls \in Nat /\ current \in Nat /\ FALSE \in BOOLEAN
        /\ to \in Seq(Chunk) /\ pending = <<>>
    BY <1>1 DEF TypeInv, Feed
  <2>3. Requests = to
    BY <2>2, ConcatEmptySeq DEF Requests
  <2>4. Requests' = to \o Line(calls + 1, FALSE, size)
    BY <1>1, <2>1 DEF Feed, Requests
  <2>5. Requests' \in Seq(Chunk) /\ Extends(Requests', to, calls + 1, FALSE)
    BY <2>2, <2>4, LineExtends
  <2>6. /\ calls' = calls + 1 /\ current' = current /\ plugin' = plugin /\ current <= calls
    BY <1>1 DEF Feed, process, RequestInv
  <2>7. plugin # "dead" => InSequence(Requests', current, calls + 1)
    BY <2>2, <2>3, <2>5, <2>6, RequestsExtend DEF RequestInv
  <2>8. current <= calls + 1
    BY <2>2, <2>6
  <2> QED
    BY <2>6, <2>7, <2>8 DEF RequestInv
<1>2. CASE WriteChunk
  <2>1. /\ pending # <<>> /\ to' = Append(to, Head(pending)) /\ pending' = Tail(pending)
        /\ UNCHANGED <<calls, plugin, current>>
    BY <1>2 DEF WriteChunk, TypeInv, process
  <2>2. Requests' = Requests
    BY <2>1, Moved DEF TypeInv, Requests
  <2> QED
    BY <2>1, <2>2 DEF RequestInv
<1>3. CASE WriteFails \/ ReadEof \/ Drop \/ Crash
  BY <1>3 DEF WriteFails, ReadEof, Drop, Crash, RequestInv, engine, process
<1>4. CASE ReadChunk \/ RulePrints \/ RuleReturns \/ PluginWrite \/ Hang \/ UNCHANGED vars
  <2>1. /\ UNCHANGED <<calls, current, to, pending>>
        /\ plugin' # "dead" => plugin # "dead"
        /\ plugin' \in {"rule", "hung"} => plugin \in {"rule", "hung"}
    BY <1>4 DEF ReadChunk, RulePrints, RuleReturns, PluginWrite, Hang, vars, engine, process
  <2> QED
    BY <2>1 DEF RequestInv, Requests
<1>5. CASE PluginRead
  <2>1. /\ to # <<>> /\ to' = Tail(to) /\ plugin = "reading" /\ UNCHANGED <<calls, pending>>
        /\ IF Head(to).left = 0 THEN plugin' = "rule" /\ current' = Head(to).of
                                ELSE UNCHANGED <<plugin, current>>
    BY <1>5 DEF PluginRead, engine
  <2>2. /\ Requests' \in Seq(Chunk) /\ Shortens(Requests', Requests)
        /\ Head(to) = Requests[1] /\ Head(to) \in Chunk
    BY <2>1, TailShortens DEF TypeInv, Requests
  <2>3. /\ current < Requests[1].of /\ Requests[1].of <= calls
        /\ InSequence(Requests', current, calls)
        /\ Requests[1].left = 0 => InSequence(Requests', Requests[1].of, calls)
    BY <2>1, <2>2, UnderWayType, RequestsShorten DEF RequestInv, TypeInv
  <2>4. Requests[1].of \in Nat /\ current \in Nat
    BY <2>2, ChunkFields DEF TypeInv
  <2>5. CASE Head(to).left = 0
    <3>1. current' = Requests[1].of /\ current' <= calls' /\ current' > 0 /\ calls' = calls
      BY <2>1, <2>2, <2>3, <2>4, <2>5
    <3> QED
      BY <2>2, <2>3, <2>5, <3>1 DEF RequestInv
  <2>6. CASE Head(to).left # 0
    BY <2>1, <2>2, <2>3, <2>6 DEF RequestInv
  <2> QED
    BY <2>5, <2>6
<1> QED
  BY <1>1, <1>2, <1>3, <1>4, <1>5 DEF Next, CallStep, PluginStep

\* What the engine has returned, and may still return.
ReturnInv == AnswersFollowPackets /\ AnswerInv /\ PaceInv /\ LineInv

LEMMA CountsType ==
  /\ TypeInv => NextAnswer \in Nat /\ Upcoming \in Nat
  /\ TypeInv' => NextAnswer' \in Nat /\ Upcoming' \in Nat
<1>1. TypeInv => calls \in Nat /\ current \in Nat
  BY DEF TypeInv
<1>2. TypeInv' => calls' \in Nat /\ current' \in Nat
  BY DEF TypeInv
<1> QED
  BY <1>1, <1>2 DEF NextAnswer, Upcoming

\* A step that changes nothing of what is under way to the engine.
LEMMA Quiet ==
  ASSUME TypeInv, TypeInv', ReturnInv,
         UNCHANGED <<Answers, returned, printed, line>>,
         Readable' => Readable /\ Upcoming' = Upcoming,
         plugin' # "dead" => plugin # "dead" /\ NextAnswer' >= NextAnswer,
         line # None => pc' = pc /\ calls' = calls,
         calls' >= calls
  PROVE  ReturnInv'
<1>t. /\ Answers \in Seq(Chunk) /\ calls \in Nat /\ calls' \in Nat /\ printed \in Nat
      /\ NextAnswer \in Nat /\ NextAnswer' \in Nat /\ Upcoming \in Nat
  BY UnderWayType, CountsType DEF TypeInv
<1>1. AnswersFollowPackets'
  BY DEF ReturnInv, AnswersFollowPackets
<1>2. AnswerInv'
  <2> SUFFICES ASSUME Readable'
               PROVE  /\ Fresh(Answers, returned, calls')
                      /\ \E f \in [1 .. Len(Answers) -> Nat] :
                           /\ Numbered(Answers, f, Upcoming, printed)
                           /\ plugin' # "dead" => Below(Answers, f, NextAnswer', printed)
    BY DEF AnswerInv
  <2>1. PICK f \in [1 .. Len(Answers) -> Nat] :
          /\ Numbered(Answers, f, Upcoming, printed)
          /\ plugin # "dead" => Below(Answers, f, NextAnswer, printed)
    BY DEF ReturnInv, AnswerInv
  <2>2. Fresh(Answers, returned, calls)
    BY DEF ReturnInv, AnswerInv
  <2>3. ASSUME NEW i \in 1 .. Len(Answers) PROVE Answers[i].of \in Nat /\ f[i] \in Nat
    BY <1>t, ElementFields
  <2>4. Fresh(Answers, returned, calls')
    BY <1>t, <2>2, <2>3 DEF Fresh
  <2>5. ASSUME plugin' # "dead" PROVE Below(Answers, f, NextAnswer', printed)
    <3> SUFFICES ASSUME NEW i \in 1 .. Len(Answers)
                 PROVE  f[i] < NextAnswer' + printed /\ Answers[i].of < NextAnswer'
      BY DEF Below
    <3>1. f[i] < NextAnswer + printed /\ Answers[i].of < NextAnswer /\ NextAnswer' >= NextAnswer
      BY <2>1, <2>5 DEF Below
    <3>2. PICK m \in Nat, n \in Nat, x \in Nat, o \in Nat :
            m = NextAnswer /\ n = NextAnswer' /\ x = f[i] /\ o = Answers[i].of
      BY <1>t, <2>3
    <3>3. x < m + printed /\ o < m /\ n >= m /\ printed \in Nat
      BY <1>t, <3>1, <3>2
    <3>4. x < n + printed /\ o < n
      BY <3>3
    <3> QED
      BY <3>2, <3>4
  <2> QED
    BY <2>1, <2>4, <2>5
<1>3. PaceInv'
  <2> SUFFICES ASSUME plugin' # "dead"
               PROVE  /\ Upcoming' <= NextAnswer' + printed'
                      /\ \A k \in 1 .. Len(returned') : returned'[k].of < NextAnswer'
    BY DEF PaceInv
  <2>1. /\ Upcoming' = Upcoming /\ NextAnswer' >= NextAnswer
        /\ Upcoming <= NextAnswer + printed
        /\ \A k \in 1 .. Len(returned) : returned[k].of < NextAnswer
    BY DEF Readable, ReturnInv, PaceInv
  <2>2. Upcoming' <= NextAnswer' + printed'
    <3>1. PICK u \in Nat, m \in Nat, n \in Nat :
            u = Upcoming /\ m = NextAnswer /\ n = NextAnswer'
      BY <1>t
    <3>2. u <= m + printed /\ n >= m
      BY <2>1, <3>1
    <3>3. u <= n + printed
      BY <1>t, <3>2
    <3> QED
      BY <2>1, <3>1, <3>3
  <2>3. \A k \in 1 .. Len(returned) : returned[k].of \in Nat
    BY EntryFields
  <2> QED
    BY <1>t, <2>1, <2>2, <2>3
<1>4. LineInv'
  <2>1. line # None => line.of \in Nat
    BY ChunkFields DEF TypeInv
  <2> QED
    BY <1>t, <2>1 DEF ReturnInv, LineInv
<1> QED
  BY <1>1, <1>2, <1>3, <1>4 DEF ReturnInv

\* Returning the alerts of the current call's line.
LEMMA ReturnsInOrder ==
  ASSUME TypeInv, AnswersFollowPackets, NEW c \in Chunk, Return(c),
         printed' = printed,
         c.alerts => /\ c.of <= calls /\ calls <= c.of + printed
                     /\ \A k \in 1 .. Len(returned) : returned[k].of < c.of
  PROVE  AnswersFollowPackets'
<1>0. c.of \in Nat /\ calls \in Nat
  BY ChunkFields DEF TypeInv
<1>1. CASE ~ c.alerts
  BY <1>1 DEF Return, AnswersFollowPackets
<1>2. CASE c.alerts
  <2> DEFINE e == [call |-> calls, of |-> c.of]
  <2>1. returned' = Append(returned, e) /\ returned \in Seq(Entry) /\ e \in Entry
    BY <1>0, <1>2, EntryBuilt DEF Return, TypeInv
  <2>2. e.call = calls /\ e.of = c.of
    OBVIOUS
  <2> HIDE DEF e
  <2>3. PICK m \in Nat : m = Len(returned)
    BY <2>1, LenProperties
  <2>4. /\ Len(returned') = m + 1 /\ returned'[m + 1] = e
        /\ \A i \in 1 .. m : returned'[i] = returned[i]
    BY <2>1, <2>3, AppendProperties
  <2> SUFFICES ASSUME NEW i \in 1 .. m + 1
               PROVE  /\ returned'[i].of <= returned'[i].call
                      /\ returned'[i].call <= returned'[i].of + printed
                      /\ \A j \in 1 .. i - 1 : returned'[j].of < returned'[i].of
    BY <2>4 DEF AnswersFollowPackets
  <2>5. CASE i = m + 1
    <3>1. \A j \in 1 .. i - 1 : j \in 1 .. m
      BY <2>5
    <3> QED
      BY <1>2, <2>2, <2>3, <2>4, <2>5, <3>1
  <2>6. CASE i # m + 1
    <3>1. i \in 1 .. m /\ \A j \in 1 .. i - 1 : j \in 1 .. m
      BY <2>6
    <3> QED
      BY <2>3, <2>4, <3>1 DEF AnswersFollowPackets
  <2> QED
    BY <2>5, <2>6
<1> QED
  BY <1>1, <1>2

\* What remains under way is about later packets than the line just returned.
LEMMA FreshReturn ==
  ASSUME TypeInv, NEW q \in Seq(Chunk), NEW r \in Seq(Chunk), NEW f, NEW up \in Nat,
         Numbered(q, f, up, printed), Fresh(q, returned, calls), Shortens(r, q),
         q[1] \in Chunk, q[1].left = 0, Return(q[1])
  PROVE  Fresh(r, returned', calls)
<1>1. PICK m \in Nat : m = Len(r) /\ Len(q) = m + 1
  BY LenProperties DEF Shortens
<1>2. PICK n \in Nat : n = Len(returned)
  BY LenProperties DEF TypeInv
<1> SUFFICES ASSUME NEW i \in 1 .. m
             PROVE  /\ r[i].of <= calls
                    /\ r[i].alerts => \A k \in 1 .. Len(returned') : returned'[k].of < r[i].of
  BY <1>1 DEF Fresh
<1>3. /\ r[i] = q[i + 1] /\ 1 \in 1 .. Len(q) /\ i + 1 \in 1 .. Len(q) /\ 1 < i + 1
  BY <1>1 DEF Shortens
<1>4. /\ r[i].of <= calls
      /\ r[i].alerts => \A k \in 1 .. n : returned[k].of < r[i].of
  BY <1>2, <1>3 DEF Fresh
<1>5. q[1].alerts /\ r[i].alerts => q[1].of < r[i].of
  BY <1>3 DEF Numbered
<1>6. CASE ~ q[1].alerts
  BY <1>2, <1>4, <1>6 DEF Return
<1>7. CASE q[1].alerts
  <2> DEFINE e == [call |-> calls, of |-> q[1].of]
  <2>1. returned' = Append(returned, e) /\ returned \in Seq(Entry) /\ e \in Entry /\ e.of = q[1].of
    BY <1>7, ChunkFields, EntryBuilt DEF Return, TypeInv
  <2> HIDE DEF e
  <2>2. /\ Len(returned') = n + 1 /\ returned'[n + 1] = e
        /\ \A k \in 1 .. n : returned'[k] = returned[k]
    BY <1>2, <2>1, AppendProperties
  <2>3. ASSUME NEW k \in 1 .. n + 1, r[i].alerts PROVE returned'[k].of < r[i].of
    <3>1. CASE k = n + 1
      BY <1>5, <1>7, <2>1, <2>2, <2>3, <3>1
    <3>2. CASE k # n + 1
      <4>1. k \in 1 .. n
        BY <3>2
      <4> QED
        BY <1>4, <2>2, <2>3, <4>1
    <3> QED
      BY <3>1, <3>2
  <2> QED
    BY <1>4, <2>2, <2>3
<1> QED
  BY <1>6, <1>7

\* The engine reads a chunk, the last of its line or not.
LEMMA ReadStep ==
  ASSUME TypeInv, ReturnInv, ReadChunk
  PROVE  ReturnInv'
<1> DEFINE c == Answers[1]
<1>1. /\ pc = "read" /\ from # <<>> /\ from' = Tail(from)
      /\ UNCHANGED <<calls, pending, to, plugin, current, out, raised, printed>>
  BY DEF ReadChunk, process
<1>2. /\ Answers \in Seq(Chunk) /\ Answers' \in Seq(Chunk) /\ Shortens(Answers', Answers)
      /\ Head(from) = c /\ c \in Chunk
  BY <1>1, TailShortens DEF TypeInv, Answers
<1>3. /\ calls \in Nat /\ printed \in Nat /\ Upcoming = calls /\ c.of \in Nat
  BY <1>1, <1>2, ChunkFields DEF TypeInv, Upcoming
<1>4. Fresh(Answers, returned, calls)
  BY <1>1 DEF ReturnInv, AnswerInv, Readable
<1>5. PICK f \in [1 .. Len(Answers) -> Nat] :
        /\ Numbered(Answers, f, calls, printed)
        /\ plugin # "dead" => Below(Answers, f, NextAnswer, printed)
  BY <1>1, <1>3 DEF ReturnInv, AnswerInv, Readable
<1>6. /\ f[1] \in Nat /\ calls <= f[1] /\ (c.alerts => f[1] <= c.of + printed)
      /\ \E g \in [1 .. Len(Answers') -> Nat] :
           /\ Numbered(Answers', g, IF c.left = 0 THEN calls + 1 ELSE calls, printed)
           /\ \A next : Below(Answers, f, next, printed) => Below(Answers', g, next, printed)
  BY <1>2, <1>3, <1>5, AnswersShorten
<1>7. /\ 1 \in 1 .. Len(Answers) /\ c.of <= calls
      /\ c.alerts => \A k \in 1 .. Len(returned) : returned[k].of < c.of
  <2>1. 1 \in 1 .. Len(Answers)
    <3>1. Len(Answers') \in Nat
      BY <1>2, LenProperties
    <3> QED
      BY <1>2, <3>1 DEF Shortens
  <2> QED
    BY <1>4, <2>1 DEF Fresh
<1>8. c.alerts => calls <= c.of + printed
  BY <1>3, <1>6
<1>9. NextAnswer' = NextAnswer /\ NextAnswer \in Nat
  BY <1>1, CountsType DEF NextAnswer
<1> HIDE DEF c
<1>10. PICK g \in [1 .. Len(Answers') -> Nat] :
         /\ Numbered(Answers', g, IF c.left = 0 THEN calls + 1 ELSE calls, printed)
         /\ \A next : Below(Answers, f, next, printed) => Below(Answers', g, next, printed)
  BY <1>6
<1>11. plugin' # "dead" => Below(Answers', g, NextAnswer', printed')
  BY <1>1, <1>5, <1>9, <1>10
<1>12. CASE c.left = 0
  <2>1. Return(c)
    BY <1>2, <1>12 DEF ReadChunk
  <2>2. pc' = "idle" /\ line' = None /\ Upcoming' = calls + 1
    BY <1>1, <2>1 DEF Return, Upcoming
  <2>3. AnswersFollowPackets'
    BY <1>1, <1>2, <1>7, <1>8, <2>1, ReturnsInOrder DEF ReturnInv
  <2>4. Fresh(Answers', returned', calls')
    BY <1>1, <1>2, <1>3, <1>4, <1>5, <1>12, <2>1, FreshReturn DEF c
  <2>5. AnswerInv'
    BY <1>1, <1>10, <1>11, <1>12, <2>2, <2>4 DEF AnswerInv
  <2>6. ASSUME plugin' # "dead" PROVE Upcoming' <= NextAnswer' + printed'
    <3>1. f[1] < NextAnswer + printed
      BY <1>1, <1>5, <1>7, <2>6 DEF Below
    <3>2. PICK x \in Nat, m \in Nat : x = f[1] /\ m = NextAnswer
      BY <1>6, <1>9
    <3>3. calls <= x /\ x < m + printed
      BY <1>6, <3>1, <3>2
    <3>4. calls + 1 <= m + printed
      BY <1>3, <3>3
    <3> QED
      BY <1>1, <1>9, <2>2, <3>2, <3>4
  <2>7. ASSUME plugin' # "dead", NEW k \in 1 .. Len(returned')
        PROVE  returned'[k].of < NextAnswer'
    <3>1. /\ c.of < NextAnswer
          /\ \A j \in 1 .. Len(returned) : returned[j].of < NextAnswer
      BY <1>1, <1>5, <1>7, <2>7 DEF Below, ReturnInv, PaceInv, c
    <3>2. CASE ~ c.alerts
      BY <1>9, <2>1, <2>7, <3>1, <3>2 DEF Return
    <3>3. CASE c.alerts
      <4> DEFINE e == [call |-> calls, of |-> c.of]
      <4>1. returned' = Append(returned, e) /\ returned \in Seq(Entry) /\ e \in Entry /\ e.of = c.of
        BY <1>3, <2>1, <3>3, EntryBuilt DEF Return, TypeInv
      <4> HIDE DEF e
      <4>2. PICK n \in Nat : n = Len(returned)
        BY <4>1, LenProperties
      <4>3. /\ Len(returned') = n + 1 /\ returned'[n + 1] = e
            /\ \A j \in 1 .. n : returned'[j] = returned[j]
        BY <4>1, <4>2, AppendProperties
      <4>4. CASE k = n + 1
        BY <1>9, <3>1, <4>1, <4>3, <4>4
      <4>5. CASE k # n + 1
        <5>1. k \in 1 .. n
          BY <2>7, <4>3, <4>5
        <5> QED
          BY <1>9, <3>1, <4>2, <4>3, <5>1
      <4> QED
        BY <4>4, <4>5
    <3> QED
      BY <3>2, <3>3
  <2>8. PaceInv'
    BY <2>6, <2>7 DEF PaceInv
  <2> QED
    BY <2>2, <2>3, <2>5, <2>8 DEF ReturnInv, LineInv
<1>13. CASE c.left # 0
  <2>1. line' = c /\ UNCHANGED <<pc, returned>>
    BY <1>2, <1>13 DEF ReadChunk
  <2>2. AnswersFollowPackets'
    BY <1>1, <2>1 DEF ReturnInv, AnswersFollowPackets
  <2>3. Upcoming' = calls
    BY <1>1, <2>1 DEF Upcoming
  <2>4. Fresh(Answers', returned', calls')
    <3>1. PICK m \in Nat : m = Len(Answers') /\ Len(Answers) = m + 1
      BY <1>2, LenProperties DEF Shortens
    <3>2. ASSUME NEW i \in 1 .. m PROVE Answers'[i] = Answers[i + 1] /\ i + 1 \in 1 .. Len(Answers)
      BY <1>2, <3>1 DEF Shortens
    <3> QED
      BY <1>1, <1>4, <2>1, <3>1, <3>2 DEF Fresh
  <2>5. AnswerInv'
    BY <1>1, <1>10, <1>11, <1>13, <2>3, <2>4 DEF AnswerInv
  <2>6. PaceInv'
    BY <1>1, <1>3, <1>9, <2>1, <2>3 DEF ReturnInv, PaceInv
  <2>7. LineInv'
    BY <1>1, <1>7, <1>8, <2>1 DEF LineInv
  <2> QED
    BY <2>2, <2>5, <2>6, <2>7 DEF ReturnInv
<1> QED
  BY <1>12, <1>13

\* The plugin appends a line: the rule's own, or the answer.
LEMMA LineStep ==
  ASSUME TypeInv, RequestInv, ReturnInv, NEW n \in Nat, NEW a \in BOOLEAN,
         plugin = "rule", UNCHANGED <<engine, to, from, current>>,
         out' \in Seq(Chunk), Extends(Answers', Answers, n, a),
         \/ n = 0 /\ a = FALSE /\ printed' = printed + 1 /\ plugin' = "rule"
         \/ n = current /\ printed' = printed /\ plugin' = "writing"
  PROVE  ReturnInv'
<1>1. /\ Answers \in Seq(Chunk) /\ Answers' \in Seq(Chunk)
  BY UnderWayType, ConcatProperties DEF TypeInv, Answers, engine
<1>2. /\ calls \in Nat /\ printed \in Nat /\ current \in Nat /\ current > 0 /\ current <= calls
      /\ printed' \in Nat /\ printed <= printed' /\ calls' = calls
  BY DEF TypeInv, RequestInv, engine
<1>3. /\ NextAnswer = current /\ NextAnswer' = (IF plugin' = "rule" THEN current ELSE current + 1)
      /\ Upcoming' = Upcoming /\ Upcoming \in Nat
  BY CountsType DEF NextAnswer, Upcoming, engine
<1>4. /\ Upcoming <= current + printed
      /\ \A k \in 1 .. Len(returned) : returned[k].of < current
  BY <1>3 DEF ReturnInv, PaceInv
<1>5. Fresh(Answers, returned, calls)
  BY DEF ReturnInv, AnswerInv, Readable
<1>6. PICK f \in [1 .. Len(Answers) -> Nat] :
        Numbered(Answers, f, Upcoming, printed) /\ Below(Answers, f, current, printed)
  BY <1>3 DEF ReturnInv, AnswerInv, Readable
<1>7. /\ NextAnswer' \in Nat /\ current <= NextAnswer' /\ n <= calls /\ n < NextAnswer'
      /\ current + printed \in Nat /\ current + printed < NextAnswer' + printed'
      /\ a => current + printed <= n + printed' /\ current <= n
  <2>1. CASE n = 0 /\ a = FALSE /\ printed' = printed + 1 /\ plugin' = "rule"
    BY <1>2, <1>3, <2>1
  <2>2. CASE n = current /\ printed' = printed /\ plugin' = "writing"
    BY <1>2, <1>3, <2>2
  <2> QED
    BY <2>1, <2>2
<1>8. a => \A k \in 1 .. Len(returned) : returned[k].of < n
  BY <1>2, <1>4
<1>9. /\ Fresh(Answers', returned, calls)
      /\ \E g \in [1 .. Len(Answers') -> Nat] :
           Numbered(Answers', g, Upcoming, printed') /\ Below(Answers', g, NextAnswer', printed')
  <2>1. PICK q \in Seq(Chunk), r \in Seq(Chunk), up \in Nat, rets \in Seq(Entry) :
          q = Answers /\ r = Answers' /\ up = Upcoming /\ rets = returned
    BY <1>1, <1>3 DEF TypeInv
  <2>2. PICK next \in Nat, m \in Nat, prints \in Nat, cur \in Nat, last \in Nat :
          next = NextAnswer' /\ m = printed' /\ prints = printed /\ cur = current /\ last = calls
    BY <1>2, <1>7
  <2>3. /\ Numbered(q, f, up, prints) /\ Below(q, f, cur, prints) /\ Fresh(q, rets, last)
        /\ Extends(r, q, n, a)
    BY <1>5, <1>6, <2>1, <2>2
  <2>4. Follows(n, a, up, prints, cur, m, next, rets, last)
    BY <1>2, <1>4, <1>7, <1>8, <2>1, <2>2 DEF Follows
  <2>6. Fresh(r, rets, last) /\ Placed(r, up, next, m)
    BY <2>3, <2>4, AnswersExtend
  <2> QED
    BY <2>1, <2>2, <2>6 DEF Placed
<1>10. AnswersFollowPackets'
  <2> SUFFICES ASSUME NEW i \in 1 .. Len(returned)
               PROVE  /\ returned[i].of <= returned[i].call
                      /\ returned[i].call <= returned[i].of + printed'
                      /\ \A j \in 1 .. i - 1 : returned[j].of < returned[i].of
    BY DEF AnswersFollowPackets, engine
  <2>1. /\ returned[i].of <= returned[i].call
        /\ returned[i].call <= returned[i].of + printed
        /\ \A j \in 1 .. i - 1 : returned[j].of < returned[i].of
    BY DEF ReturnInv, AnswersFollowPackets
  <2>2. returned[i].of \in Nat /\ returned[i].call \in Nat
    BY EntryFields
  <2>3. returned[i].call <= returned[i].of + printed'
    <3>1. PICK c \in Nat, o \in Nat, p \in Nat, newp \in Nat :
            c = returned[i].call /\ o = returned[i].of /\ p = printed /\ newp = printed'
      BY <1>2, <2>2
    <3>2. c <= o + p /\ p <= newp
      BY <1>2, <2>1, <3>1
    <3>3. c <= o + newp
      BY <3>2
    <3> QED
      BY <3>1, <3>3
  <2> QED
    BY <2>1, <2>3
<1>11. AnswerInv'
  BY <1>2, <1>3, <1>9 DEF AnswerInv, engine
<1>12. PaceInv'
  <2>1. returned' = returned /\ \A k \in 1 .. Len(returned) : returned[k].of \in Nat
    BY EntryFields DEF engine
  <2>2. Upcoming <= NextAnswer' + printed'
    BY <1>2, <1>3, <1>4, <1>7
  <2>3. ASSUME NEW k \in 1 .. Len(returned) PROVE returned[k].of < NextAnswer'
    <3>1. PICK o \in Nat, next \in Nat : o = returned[k].of /\ next = NextAnswer'
      BY <1>7, <2>1
    <3>2. o < current /\ current <= next
      BY <1>4, <1>7, <3>1
    <3>3. o < next
      BY <1>2, <3>2
    <3> QED
      BY <3>1, <3>3
  <2> QED
    BY <1>3, <2>1, <2>2, <2>3, Zenon DEF PaceInv
<1>13. LineInv'
  <2>1. line # None => line.of \in Nat
    BY ChunkFields DEF TypeInv
  <2> QED
    BY <1>2, <2>1 DEF ReturnInv, LineInv, engine
<1> QED
  BY <1>10, <1>11, <1>12, <1>13 DEF ReturnInv

\* The process dies: what it has written stays readable.
LEMMA CrashStep ==
  ASSUME TypeInv, ReturnInv, Crash
  PROVE  ReturnInv'
<1>1. /\ plugin # "dead" /\ plugin' = "dead" /\ out' = <<>>
      /\ UNCHANGED <<pc, calls, line, returned, from, printed>>
  BY DEF Crash, engine
<1>2. Answers' = from /\ from \in Seq(Chunk) /\ out \in Seq(Chunk)
  BY <1>1, ConcatEmptySeq DEF TypeInv, Answers
<1>3. PICK k \in Nat, m \in Nat : k = Len(from) /\ m = Len(Answers) /\ k <= m
  BY <1>2, ConcatProperties, LenProperties DEF Answers
<1>4. \A i \in 1 .. k : from[i] = Answers[i] /\ i \in 1 .. Len(Answers)
  <2>1. ASSUME NEW i \in 1 .. k PROVE i \in 1 .. Len(from) + Len(out) /\ i <= Len(from)
    <3>1. Len(from) + Len(out) = m
      BY <1>2, <1>3, ConcatProperties DEF Answers
    <3> QED
      BY <1>3, <3>1
  <2> QED
    BY <1>2, <1>3, <2>1, ConcatProperties DEF Answers
<1>5. AnswersFollowPackets' /\ PaceInv' /\ LineInv'
  BY <1>1 DEF ReturnInv, AnswersFollowPackets, PaceInv, LineInv
<1>6. AnswerInv'
  <2> SUFFICES ASSUME Readable'
               PROVE  /\ Fresh(from, returned, calls)
                      /\ \E g \in [1 .. Len(from) -> Nat] : Numbered(from, g, Upcoming, printed)
    BY <1>1, <1>2 DEF AnswerInv, Upcoming
  <2>1. PICK f \in [1 .. m -> Nat] : Numbered(Answers, f, Upcoming, printed)
    BY <1>1, <1>3 DEF ReturnInv, AnswerInv, Readable
  <2>2. Fresh(Answers, returned, calls)
    BY <1>1 DEF ReturnInv, AnswerInv, Readable
  <2> DEFINE g == [i \in 1 .. k |-> f[i]]
  <2>3. g \in [1 .. k -> Nat] /\ \A i \in 1 .. k : g[i] = f[i]
    BY <1>3
  <2> HIDE DEF g
  <2>4. Numbered(from, g, Upcoming, printed)
    BY <1>3, <1>4, <2>1, <2>3 DEF Numbered
  <2>5. Fresh(from, returned, calls)
    BY <1>3, <1>4, <2>2 DEF Fresh
  <2> QED
    BY <1>3, <2>3, <2>4, <2>5
<1> QED
  BY <1>5, <1>6 DEF ReturnInv

\* The plugin appends a line to what it has to write.
LEMMA Appended ==
  ASSUME TypeInv, NEW n \in Nat, NEW a \in BOOLEAN, NEW size \in 1 .. MaxChunks,
         out' = out \o Line(n, a, size), from' = from
  PROVE  out' \in Seq(Chunk) /\ Extends(Answers', Answers, n, a)
<1>1. out \in Seq(Chunk) /\ from \in Seq(Chunk) /\ Answers \in Seq(Chunk)
  BY UnderWayType DEF TypeInv
<1>2. out' \in Seq(Chunk)
  BY <1>1, LineExtends
<1>3. Answers' = Answers \o Line(n, a, size)
  <2> DEFINE l == Line(n, a, size)
  <2>1. l \in Seq(Chunk)
    BY LineIsSeq
  <2> HIDE DEF l
  <2>2. (from \o out) \o l = from \o (out \o l)
    <3>1. ASSUME NEW p \in Seq(Chunk), NEW q \in Seq(Chunk), NEW r \in Seq(Chunk)
          PROVE  (p \o q) \o r = p \o (q \o r)
      OBVIOUS
    <3> QED
      BY <1>1, <2>1, <3>1, Zenon
  <2> QED
    BY <2>2 DEF Answers, l
<1>4. ASSUME NEW q \in Seq(Chunk) PROVE Extends(q \o Line(n, a, size), q, n, a)
  BY LineExtends
<1>5. Extends(Answers \o Line(n, a, size), Answers, n, a)
  BY <1>1, <1>4
<1> QED
  BY <1>2, <1>3, <1>5, Zenon

LEMMA ReturnStep == TypeInv /\ TypeInv' /\ RequestInv /\ ReturnInv /\ [Next]_vars => ReturnInv'
<1> SUFFICES ASSUME TypeInv, TypeInv', RequestInv, ReturnInv, [Next]_vars PROVE ReturnInv'
  OBVIOUS
<1>l. line # None => pc = "read"
  BY DEF ReturnInv, LineInv
<1>n. /\ calls \in Nat /\ current \in Nat /\ NextAnswer \in Nat /\ NextAnswer' \in Nat
      /\ calls' \in Nat
  BY CountsType DEF TypeInv
<1>1. CASE Feed \/ WriteFails \/ Drop \/ Hang \/ UNCHANGED vars
  <2>1. UNCHANGED <<Answers, returned, printed, line>>
    BY <1>1 DEF Feed, WriteFails, Drop, Hang, vars, engine, process, Answers
  <2>2. Readable' => Readable /\ Upcoming' = Upcoming
    <3>1. CASE Feed
      BY <1>n, <3>1 DEF Feed, process, Readable, Upcoming
    <3>2. CASE WriteFails \/ Drop
      BY <3>2 DEF WriteFails, Drop, process, Readable
    <3>3. CASE Hang \/ UNCHANGED vars
      <4>1. UNCHANGED <<pc, calls>> /\ (plugin' # "dead" => plugin # "dead")
        BY <3>3 DEF Hang, vars, engine, process
      <4> QED
        BY <4>1 DEF Readable, Upcoming
    <3> QED
      BY <1>1, <3>1, <3>2, <3>3
  <2>3. plugin' # "dead" => plugin # "dead" /\ NextAnswer' = NextAnswer
    <3>1. /\ UNCHANGED current
          /\ \/ plugin' = plugin
             \/ plugin' = "dead"
             \/ plugin = "rule" /\ plugin' = "hung"
      <4>1. CASE Feed \/ WriteFails \/ UNCHANGED vars
        BY <4>1 DEF Feed, WriteFails, vars, process
      <4>2. CASE Drop \/ Hang
        BY <4>2 DEF Drop, Hang
      <4> QED
        BY <1>1, <4>1, <4>2
    <3> QED
      BY <3>1 DEF NextAnswer
  <2>4. calls' >= calls /\ (line # None => pc' = pc /\ calls' = calls)
    <3>1. CASE Feed
      BY <1>l, <1>n, <3>1 DEF Feed
    <3>2. CASE WriteFails \/ Drop
      BY <1>l, <1>n, <3>2 DEF WriteFails, Drop
    <3>3. CASE Hang \/ UNCHANGED vars
      BY <1>n, <3>3 DEF Hang, vars, engine
    <3> QED
      BY <1>1, <3>1, <3>2, <3>3
  <2>5. plugin' # "dead" => plugin # "dead" /\ NextAnswer' >= NextAnswer
    BY <1>n, <2>3
  <2> QED
    BY <2>1, <2>2, <2>4, <2>5, Quiet
<1>2. CASE WriteChunk
  <2>1. UNCHANGED <<Answers, returned, printed, line, calls, plugin, current>>
    BY <1>2 DEF WriteChunk, process, Answers
  <2>2. /\ pc = "write" /\ pc' \in {"write", "read"} /\ plugin # "dead"
    BY <1>2 DEF WriteChunk
  <2>3. Readable /\ Upcoming' = Upcoming /\ NextAnswer' = NextAnswer
    BY <2>1, <2>2 DEF Readable, Upcoming, NextAnswer
  <2>4. NextAnswer' >= NextAnswer /\ calls' >= calls /\ line = None
    BY <1>l, <1>n, <2>1, <2>2, <2>3
  <2> QED
    BY <2>1, <2>2, <2>3, <2>4, Quiet
<1>3. CASE PluginWrite
  <2>1. /\ plugin = "writing" /\ plugin' \in {"reading", "writing"} /\ out # <<>>
        /\ from' = Append(from, Head(out)) /\ out' = Tail(out)
        /\ UNCHANGED <<pc, calls, line, returned, current, printed>>
    BY <1>3 DEF PluginWrite, TypeInv, engine
  <2>2. Answers' = Answers
    BY <2>1, Moved DEF TypeInv, Answers
  <2>3. Readable /\ Upcoming' = Upcoming /\ NextAnswer' = NextAnswer
    BY <2>1 DEF Readable, Upcoming, NextAnswer
  <2>4. NextAnswer' >= NextAnswer /\ calls' >= calls
    BY <1>n, <2>1, <2>3
  <2> QED
    BY <2>1, <2>2, <2>3, <2>4, Quiet
<1>4. CASE PluginRead
  <2>1. /\ to # <<>> /\ plugin = "reading"
        /\ IF Head(to).left = 0 THEN plugin' = "rule" /\ current' = Head(to).of
                                ELSE UNCHANGED <<plugin, current>>
        /\ UNCHANGED <<pc, calls, line, returned, from, out, printed>>
    BY <1>4 DEF PluginRead, engine
  <2>2. Head(to) = Requests[1] /\ Head(to) \in Chunk /\ 1 \in 1 .. Len(Requests)
    <3>1. Len(Requests) > 0 /\ Len(Requests) \in Nat
      <4>1. Shortens(Tail(to) \o pending, Requests) /\ Tail(to) \o pending \in Seq(Chunk)
        BY <2>1, TailShortens DEF TypeInv, Requests
      <4>2. PICK k \in Nat : k = Len(Tail(to) \o pending)
        BY <4>1, LenProperties
      <4> QED
        BY <4>1, <4>2 DEF Shortens
    <3> QED
      BY <2>1, <3>1, TailShortens DEF TypeInv, Requests
  <2>3. current < Head(to).of /\ Head(to).of \in Nat
    BY <2>1, <2>2, ChunkFields DEF RequestInv, InSequence
  <2>4. Readable /\ Upcoming' = Upcoming /\ plugin' # "dead" /\ Answers' = Answers
    BY <2>1 DEF Readable, Upcoming, Answers
  <2>5. NextAnswer' >= NextAnswer
    BY <1>n, <2>1, <2>3 DEF NextAnswer
  <2>6. calls' >= calls
    BY <1>n, <2>1
  <2> QED
    BY <2>1, <2>4, <2>5, <2>6, Quiet
<1>5. CASE ReadEof
  <2>1. pc = "read" /\ plugin = "dead" /\ UNCHANGED <<plugin, printed, calls>>
    BY <1>5 DEF ReadEof, process
  <2>2. pc' = "idle" /\ line' = None
    BY <1>5 DEF ReadEof, Return
  <2>3. AnswerInv' /\ PaceInv' /\ LineInv'
    BY <2>1, <2>2 DEF AnswerInv, Readable, PaceInv, LineInv
  <2>4. CASE line # None /\ Return(line)
    <3>1. line \in Chunk
      BY <2>4 DEF TypeInv
    <3>2. line.alerts => /\ line.of <= calls /\ calls <= line.of + printed
                         /\ \A k \in 1 .. Len(returned) : returned[k].of < line.of
      BY <2>4 DEF ReturnInv, LineInv
    <3>3. AnswersFollowPackets'
      BY <2>1, <2>4, <3>1, <3>2, ReturnsInOrder DEF ReturnInv
    <3> QED
      BY <2>3, <3>3 DEF ReturnInv
  <2>5. CASE UNCHANGED returned
    <3>1. AnswersFollowPackets'
      BY <2>1, <2>5 DEF ReturnInv, AnswersFollowPackets
    <3> QED
      BY <2>3, <3>1 DEF ReturnInv
  <2> QED
    BY <1>5, <2>4, <2>5 DEF ReadEof
<1>6. CASE RulePrints
  <2>0. 0 \in Nat /\ FALSE \in BOOLEAN /\ 1 \in 1 .. MaxChunks
    BY PipeAssumption
  <2>1. /\ plugin = "rule" /\ plugin' = "rule" /\ printed' = printed + 1
        /\ UNCHANGED <<engine, to, from, current>> /\ out' = out \o Line(0, FALSE, 1)
    BY <1>6 DEF RulePrints
  <2>2. out' \in Seq(Chunk) /\ Extends(Answers', Answers, 0, FALSE)
    BY <2>0, <2>1, Appended
  <2> QED
    BY <2>0, <2>1, <2>2, LineStep
<1>7. CASE RuleReturns
  <2>1. PICK size \in 1 .. MaxChunks, a \in BOOLEAN : out' = out \o Line(current, a, size)
    BY <1>7 DEF RuleReturns
  <2>2. /\ plugin = "rule" /\ plugin' = "writing" /\ printed' = printed
        /\ UNCHANGED <<engine, to, from, current>>
    BY <1>7 DEF RuleReturns
  <2>3. out' \in Seq(Chunk) /\ Extends(Answers', Answers, current, a)
    BY <1>n, <2>1, <2>2, Appended
  <2> QED
    BY <1>n, <2>2, <2>3, LineStep
<1> QED
  BY <1>1, <1>2, <1>3, <1>4, <1>5, <1>6, <1>7, ReadStep, CrashStep DEF Next, CallStep, PluginStep

\* Returning a line keeps what was reported, and reports its packet's alerts.
LEMMA ReportedGrows ==
  ASSUME TypeInv, NEW c \in Chunk, Return(c)
  PROVE  Reported \subseteq Reported' /\ (c.alerts => c.of \in Reported')
<1>1. CASE ~ c.alerts
  BY <1>1 DEF Return, Reported
<1>2. CASE c.alerts
  <2> DEFINE e == [call |-> calls, of |-> c.of]
  <2>1. returned' = Append(returned, e) /\ returned \in Seq(Entry) /\ e \in Entry /\ e.of = c.of
    BY <1>2, ChunkFields, EntryBuilt DEF Return, TypeInv
  <2> HIDE DEF e
  <2>2. PICK m \in Nat : m = Len(returned)
    BY <2>1, LenProperties
  <2>3. /\ Len(returned') = m + 1 /\ returned'[m + 1] = e
        /\ \A i \in 1 .. m : returned'[i] = returned[i]
    BY <2>1, <2>2, AppendProperties
  <2>4. Reported' = {returned'[i].of : i \in 1 .. m + 1}
    BY <2>3 DEF Reported
  <2>5. c.of \in Reported'
    BY <2>1, <2>3, <2>4
  <2>6. ASSUME NEW i \in 1 .. m PROVE returned[i].of \in Reported'
    <3>1. returned'[i] = returned[i] /\ i \in 1 .. m + 1
      BY <2>3
    <3> QED
      BY <2>4, <3>1
  <2> QED
    BY <2>2, <2>5, <2>6 DEF Reported
<1> QED
  BY <1>1, <1>2

\* A step that raises nothing and loses no alert under way.
LEMMA RaisedKept ==
  ASSUME TypeInv, TypeInv', RaisedInv, UNCHANGED raised,
         current <= current', printed' = 0 => printed = 0, Reported \subseteq Reported',
         plugin = "dead" <=> plugin' = "dead",
         \A n \in raised \ Reported', i \in 1 .. Len(Answers) :
           Ending(n, Answers[i]) => \E j \in 1 .. Len(Answers') : Ending(n, Answers'[j])
  PROVE  RaisedInv'
<1>1. \A n \in raised : n \in Nat /\ n <= current
  BY DEF TypeInv, RaisedInv
<1>2. \A n \in raised : n <= current'
  <2>1. current \in Nat /\ current' \in Nat
    BY DEF TypeInv
  <2> QED
    BY <1>1, <2>1
<1>3. ASSUME plugin' # "dead", NEW n \in raised \ Reported'
      PROVE  \E i \in 1 .. Len(Answers') : Ending(n, Answers'[i])
  <2>1. PICK i \in 1 .. Len(Answers) : Ending(n, Answers[i])
    BY <1>3 DEF RaisedInv
  <2> QED
    BY <2>1
<1>4. plugin' = "dead" /\ printed' = 0 => \A n \in raised \ Reported' : \A m \in raised : m <= n
  BY DEF RaisedInv
<1> QED
  BY <1>2, <1>3, <1>4 DEF RaisedInv

\* Without prints, an alert under way is about the last packet raised.
LEMMA LastOnly ==
  ASSUME TypeInv, RequestInv, AnswerInv, plugin # "dead", printed = 0,
         NEW i \in 1 .. Len(Answers), NEW n \in Nat, Ending(n, Answers[i])
  PROVE  Upcoming <= n
<1>1. PICK f \in [1 .. Len(Answers) -> Nat] : Numbered(Answers, f, Upcoming, printed)
  BY DEF AnswerInv, Readable
<1>2. Upcoming <= f[i] /\ f[i] <= Answers[i].of + printed /\ Answers[i].of = n
  BY <1>1 DEF Numbered, Ending
<1>3. PICK x \in Nat, u \in Nat : x = f[i] /\ u = Upcoming
  BY CountsType
<1>4. u <= x /\ x <= n + 0
  BY <1>2, <1>3
<1> QED
  BY <1>3, <1>4

LEMMA RaisedStep ==
  TypeInv /\ TypeInv' /\ RequestInv /\ RequestInv' /\ AnswerInv /\ RaisedInv /\ [Next]_vars
    => RaisedInv'
<1> SUFFICES ASSUME TypeInv, TypeInv', RequestInv, RequestInv', AnswerInv, RaisedInv, [Next]_vars
             PROVE  RaisedInv'
  OBVIOUS
<1>n. current \in Nat /\ current' \in Nat /\ calls \in Nat /\ printed \in Nat /\ raised \subseteq Nat
  BY DEF TypeInv
<1>1. CASE Feed \/ WriteChunk \/ WriteFails \/ PluginRead \/ PluginWrite \/ Hang \/ UNCHANGED vars
  <2>1. /\ UNCHANGED <<raised, printed, returned>>
        /\ plugin = "dead" <=> plugin' = "dead"
    <3>1. CASE Feed \/ WriteChunk \/ WriteFails \/ UNCHANGED vars
      BY <3>1 DEF Feed, WriteChunk, WriteFails, vars, engine, process
    <3>2. CASE PluginRead \/ PluginWrite \/ Hang
      BY <3>2 DEF PluginRead, PluginWrite, Hang, engine
    <3> QED
      BY <1>1, <3>1, <3>2
  <2>2. Answers' = Answers
    <3>1. CASE PluginWrite
      <4>1. out # <<>> /\ from' = Append(from, Head(out)) /\ out' = Tail(out)
        BY <3>1 DEF PluginWrite, TypeInv
      <4> QED
        BY <4>1, Moved DEF TypeInv, Answers
    <3>2. CASE Feed \/ WriteChunk \/ WriteFails \/ PluginRead \/ Hang \/ UNCHANGED vars
      <4>1. UNCHANGED <<from, out>>
        BY <3>2 DEF Feed, WriteChunk, WriteFails, PluginRead, Hang, vars, process
      <4> QED
        BY <4>1 DEF Answers
    <3> QED
      BY <1>1, <3>1, <3>2
  <2>3. current <= current'
    <3>1. CASE PluginRead
      <4>1. CASE Head(to).left = 0
        <5>1. /\ to # <<>> /\ plugin # "dead" /\ current' = Head(to).of
          BY <3>1, <4>1 DEF PluginRead
        <5>2. /\ Shortens(Tail(to) \o pending, Requests) /\ Head(to) = Requests[1]
              /\ Tail(to) \o pending \in Seq(Chunk) /\ Head(to) \in Chunk
          BY <5>1, TailShortens DEF TypeInv, Requests
        <5>3. current < Requests[1].of /\ Requests[1].of \in Nat
          BY <1>n, <5>1, <5>2, UnderWayType, RequestsShorten, ChunkFields DEF RequestInv
        <5> QED
          BY <1>n, <5>1, <5>2, <5>3
      <4>2. CASE Head(to).left # 0
        BY <1>n, <3>1, <4>2 DEF PluginRead
      <4> QED
        BY <4>1, <4>2
    <3>2. CASE Feed \/ WriteChunk \/ WriteFails \/ PluginWrite \/ Hang \/ UNCHANGED vars
      <4>1. current' = current
        BY <3>2 DEF Feed, WriteChunk, WriteFails, PluginWrite, Hang, vars, process
      <4> QED
        BY <1>n, <4>1
    <3> QED
      BY <1>1, <3>1, <3>2
  <2>4. Reported' = Reported
    BY <2>1 DEF Reported
  <2> QED
    BY <2>1, <2>2, <2>3, <2>4, RaisedKept
<1>2. CASE ReadChunk
  <2>1. /\ from # <<>> /\ from' = Tail(from)
        /\ UNCHANGED <<plugin, current, out, raised, printed>>
    BY <1>2 DEF ReadChunk, process
  <2>2. /\ Answers \in Seq(Chunk) /\ Answers' \in Seq(Chunk) /\ Shortens(Answers', Answers)
        /\ Head(from) = Answers[1] /\ Head(from) \in Chunk
    BY <2>1, TailShortens DEF TypeInv, Answers
  <2>3. /\ Reported \subseteq Reported'
        /\ Head(from).left = 0 /\ Head(from).alerts => Head(from).of \in Reported'
    <3>1. CASE Head(from).left = 0
      BY <1>2, <2>2, <3>1, ReportedGrows DEF ReadChunk
    <3>2. CASE Head(from).left # 0
      BY <1>2, <3>2 DEF ReadChunk, Reported
    <3> QED
      BY <3>1, <3>2
  <2>4. PICK m \in Nat : m = Len(Answers') /\ Len(Answers) = m + 1
    BY <2>2, LenProperties DEF Shortens
  <2>5. ASSUME NEW n \in raised \ Reported', NEW i \in 1 .. m + 1, Ending(n, Answers[i])
        PROVE  \E j \in 1 .. m : Ending(n, Answers'[j])
    <3>1. i # 1
      BY <2>2, <2>3, <2>5 DEF Ending
    <3>2. i - 1 \in 1 .. m /\ (i - 1) + 1 = i
      BY <3>1
    <3>3. Answers'[i - 1] = Answers[i]
      BY <2>2, <2>4, <3>2 DEF Shortens
    <3> QED
      BY <2>5, <3>2, <3>3
  <2>6. current <= current' /\ (printed' = 0 => printed = 0) /\ raised' = raised
    BY <1>n, <2>1
  <2> QED
    BY <2>1, <2>3, <2>4, <2>5, <2>6, RaisedKept
<1>3. CASE ReadEof
  <2>1. UNCHANGED <<from, out, plugin, current, raised, printed>>
    BY <1>3 DEF ReadEof, process
  <2>2. Reported \subseteq Reported'
    <3>1. CASE line # None /\ Return(line)
      BY <3>1, ReportedGrows DEF TypeInv
    <3>2. CASE UNCHANGED returned
      BY <3>2 DEF Reported
    <3> QED
      BY <1>3, <3>1, <3>2 DEF ReadEof
  <2>3. Answers' = Answers
    BY <2>1 DEF Answers
  <2>4. current <= current'
    BY <1>n, <2>1
  <2> QED
    BY <2>1, <2>2, <2>3, <2>4, RaisedKept
<1>4. CASE Drop \/ Crash
  <2>1. plugin' = "dead" /\ UNCHANGED <<returned, current, raised, printed>>
    BY <1>4 DEF Drop, Crash, engine
  <2>2. Reported' = Reported
    BY <2>1 DEF Reported
  <2>3. ASSUME printed = 0, NEW n \in raised \ Reported, NEW m \in raised PROVE m <= n
    <3>1. CASE plugin = "dead"
      BY <2>3, <3>1 DEF RaisedInv
    <3>2. CASE plugin # "dead"
      <4>1. PICK i \in 1 .. Len(Answers) : Ending(n, Answers[i])
        BY <3>2 DEF RaisedInv
      <4>2. Upcoming <= n /\ n \in Nat /\ m \in Nat
        BY <1>n, <2>3, <3>2, <4>1, LastOnly
      <4>3. PICK u \in Nat : u = Upcoming /\ calls <= u
        BY <1>n DEF Upcoming
      <4>4. m <= current /\ current <= calls
        BY DEF RaisedInv, RequestInv
      <4>5. u <= n
        BY <4>2, <4>3
      <4> QED
        BY <1>n, <4>2, <4>3, <4>4, <4>5
    <3> QED
      BY <3>1, <3>2
  <2> QED
    BY <2>1, <2>2, <2>3 DEF RaisedInv
<1>5. CASE RulePrints
  <2>1. /\ plugin = "rule" /\ plugin' = "rule" /\ printed' = printed + 1
        /\ UNCHANGED <<from, current, returned, raised>> /\ out' = out \o Line(0, FALSE, 1)
    BY <1>5 DEF RulePrints, engine
  <2>2. 0 \in Nat /\ FALSE \in BOOLEAN /\ 1 \in 1 .. MaxChunks
    BY PipeAssumption
  <2>3. Extends(Answers', Answers, 0, FALSE)
    BY <2>1, <2>2, Appended
  <2>4. Reported' = Reported
    BY <2>1 DEF Reported
  <2>5. \A i \in 1 .. Len(Answers) : i \in 1 .. Len(Answers') /\ Answers'[i] = Answers[i]
    <3>1. PICK k \in Nat, m \in Nat : k = Len(Answers) /\ m = Len(Answers') /\ k < m
      BY <2>3, UnderWayType, LenProperties, ConcatProperties DEF Extends, Answers, TypeInv
    <3> QED
      BY <2>3, <3>1 DEF Extends
  <2>6. current <= current' /\ printed' # 0
    BY <1>n, <2>1
  <2> QED
    BY <2>1, <2>4, <2>5, <2>6, RaisedKept
<1>6. CASE RuleReturns
  <2>0. PICK size \in 1 .. MaxChunks :
          \/ out' = out \o Line(current, FALSE, size) /\ raised' = raised
          \/ out' = out \o Line(current, TRUE, size) /\ raised' = raised \cup {current}
    BY <1>6 DEF RuleReturns
  <2>1. PICK a \in BOOLEAN :
          /\ out' = out \o Line(current, a, size)
          /\ raised' = raised \/ (a = TRUE /\ raised' = raised \cup {current})
    <3>1. FALSE \in BOOLEAN /\ TRUE \in BOOLEAN
      OBVIOUS
    <3> QED
      BY <2>0, <3>1, Zenon
  <2>2. /\ plugin = "rule" /\ plugin' = "writing"
        /\ UNCHANGED <<returned, from, current>>
    BY <1>6 DEF RuleReturns, engine
  <2>3. Extends(Answers', Answers, current, a)
    BY <1>n, <2>1, <2>2, Appended
  <2>4. PICK k \in Nat, m \in Nat : k = Len(Answers) /\ m = Len(Answers') /\ k < m
    BY <2>3, UnderWayType, LenProperties, ConcatProperties DEF Extends, Answers, TypeInv
  <2>5. \A i \in 1 .. k : i \in 1 .. m /\ Answers'[i] = Answers[i]
    BY <2>3, <2>4 DEF Extends
  <2>6. Reported' = Reported
    BY <2>2 DEF Reported
  <2>7. ASSUME NEW n \in raised \ Reported PROVE \E i \in 1 .. m : Ending(n, Answers'[i])
    <3>1. PICK i \in 1 .. k : Ending(n, Answers[i])
      BY <2>2, <2>4 DEF RaisedInv
    <3> QED
      BY <2>5, <3>1
  <2>8. ASSUME a = TRUE PROVE \E i \in 1 .. m : Ending(current, Answers'[i])
    <3>1. m \in 1 .. m /\ m \in k + 1 .. m
      BY <2>4
    <3>2. Ending(current, Answers'[m])
      BY <2>3, <2>4, <2>8, <3>1 DEF Extends, Ending
    <3> QED
      BY <3>1, <3>2
  <2>9. \A n \in raised' : n <= current
    <3>1. \A n \in raised : n <= current
      BY DEF RaisedInv
    <3>2. raised' \subseteq raised \cup {current}
      BY <2>1
    <3> QED
      BY <1>n, <3>1, <3>2
  <2>10. ASSUME NEW n \in raised' \ Reported'
         PROVE  \E i \in 1 .. Len(Answers') : Ending(n, Answers'[i])
    BY <2>1, <2>4, <2>6, <2>7, <2>8
  <2> QED
    BY <2>2, <2>9, <2>10 DEF RaisedInv
<1> QED
  BY <1>1, <1>2, <1>3, <1>4, <1>5, <1>6 DEF Next, CallStep, PluginStep

-----------------------------------------------------------------------------
(***************************************************************************)
(* The theorems                                                            *)
(***************************************************************************)
LEMMA PluginInvInit == Init => PluginInv
<1> SUFFICES ASSUME Init PROVE PluginInv
  OBVIOUS
<1>0. /\ pc = "idle" /\ calls = 0 /\ pending = <<>> /\ line = None /\ returned = <<>>
      /\ to = <<>> /\ from = <<>>
      /\ plugin = "reading" /\ current = 0 /\ out = <<>> /\ raised = {} /\ printed = 0
  BY DEF Init
<1>1. TypeInv
  <2>1. <<>> \in Seq(Chunk) /\ <<>> \in Seq(Entry)
    OBVIOUS
  <2> QED
    BY <1>0, <2>1 DEF TypeInv
<1>2. Requests = <<>> /\ Answers = <<>> /\ Len(Requests) = 0 /\ Len(Answers) = 0
  BY <1>0, ConcatEmptySeq DEF Requests, Answers
<1>3. AnswersFollowPackets
  BY <1>0 DEF AnswersFollowPackets
<1>4. RequestInv
  BY <1>0, <1>2 DEF RequestInv, InSequence
<1>5. AnswerInv
  <2> DEFINE f == [i \in 1 .. 0 |-> 0]
  <2>1. f \in [1 .. 0 -> Nat] /\ 1 .. 0 = {}
    OBVIOUS
  <2> HIDE DEF f
  <2>2. Numbered(Answers, f, Upcoming, printed) /\ Below(Answers, f, NextAnswer, printed)
    BY <1>2, <2>1 DEF Numbered, Below
  <2>3. Fresh(Answers, returned, calls)
    BY <1>2 DEF Fresh
  <2> QED
    BY <1>2, <2>1, <2>2, <2>3 DEF AnswerInv
<1>6. PaceInv
  BY <1>0 DEF PaceInv, Upcoming, NextAnswer
<1>7. LineInv /\ RaisedInv
  BY <1>0 DEF LineInv, RaisedInv
<1> QED
  BY <1>1, <1>3, <1>4, <1>5, <1>6, <1>7 DEF PluginInv

LEMMA PluginInvStep == PluginInv /\ [Next]_vars => PluginInv'
<1> SUFFICES ASSUME PluginInv, [Next]_vars PROVE PluginInv'
  OBVIOUS
<1>1. /\ TypeInv /\ RequestInv /\ ReturnInv /\ AnswerInv /\ RaisedInv
  BY DEF PluginInv, ReturnInv
<1>2. TypeInv' /\ RequestInv'
  BY <1>1, TypeStep, RequestStep
<1>3. ReturnInv' /\ RaisedInv'
  BY <1>1, <1>2, ReturnStep, RaisedStep
<1> QED
  BY <1>2, <1>3 DEF PluginInv, ReturnInv

LEMMA PluginInvWithholdsNothing == PluginInv => NothingWithheld
<1> SUFFICES ASSUME PluginInv, pc = "idle", printed = 0, NEW n \in raised \ Reported
             PROVE  plugin = "dead" /\ \A m \in raised : m <= n
  BY DEF NothingWithheld
<1>1. plugin = "dead"
  <2> SUFFICES ASSUME plugin # "dead" PROVE FALSE
    OBVIOUS
  <2>1. PICK i \in 1 .. Len(Answers) : Ending(n, Answers[i])
    BY DEF PluginInv, RaisedInv
  <2>2. calls \in Nat /\ current \in Nat /\ n \in Nat /\ Upcoming = calls + 1
    BY DEF PluginInv, TypeInv, Upcoming
  <2>3. Upcoming <= n
    BY <2>1, <2>2, LastOnly DEF PluginInv
  <2>4. n <= current /\ current <= calls
    BY DEF PluginInv, RaisedInv, RequestInv
  <2> QED
    BY <2>2, <2>3, <2>4
<1> QED
  BY <1>1 DEF PluginInv, RaisedInv

LEMMA PluginInvariant == Spec => []PluginInv
BY PluginInvInit, PluginInvStep, PTL DEF Spec

\* What each end of the two pipes holds, for lines and pipes of any length.
THEOREM TypeCorrect == Spec => []TypeInv
<1>1. PluginInv => TypeInv
  BY DEF PluginInv
<1> QED
  BY <1>1, PluginInvariant, PTL

\* The alerts on_packet returns come in packet order, each packet's at most
\* once, and at most as many packets late as the rule printed lines, wherever
\* the plugin crashes, hangs or is dropped.
THEOREM AnswersInPacketOrder == Spec => []AnswersFollowPackets
<1>1. PluginInv => AnswersFollowPackets
  BY DEF PluginInv
<1> QED
  BY <1>1, PluginInvariant, PTL

\* Between calls no alert the rule raised is still under way, as long as the
\* rule prints nothing; a crash costs at most the last packet raised.
THEOREM NoneWithheld == Spec => []NothingWithheld
BY PluginInvariant, PluginInvWithholdsNothing, PTL
=============================================================================
