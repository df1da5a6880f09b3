------------------------- MODULE FileAnalysisProofs -------------------------
(***************************************************************************)
(* Proofs about FileAnalysis and the FlowTracker inside it, for every set  *)
(* of addresses, ports, packets and timestamps and captures of any length; *)
(* and about the decoder, for every frame.                                 *)
(***************************************************************************)
EXTENDS FileAnalysis, FiniteSetTheorems, WellFoundedInduction, TLAPS

-----------------------------------------------------------------------------
(***************************************************************************)
(* Induction over numbers                                                  *)
(***************************************************************************)
\* Every set of numbers has a least one.
LEMMA LeastNumber ==
  ASSUME NEW S \in SUBSET Nat, S # {}
  PROVE  \E n \in S : \A m \in S : ~ (m < n)
<1> DEFINE R == OpToRel(<, Nat)
<1>1. IsWellFoundedOn(R, Nat)
  BY NatLessThanWellFounded
<1>2. \A x, y \in Nat : <<x, y>> \in R <=> x < y
  BY DEF OpToRel
<1> HIDE DEF R
<1>3. PICK n \in S : \A m \in S : ~ (<<m, n>> \in R)
  BY <1>1, WFMin
<1>4. ASSUME NEW m \in S PROVE ~ (m < n)
  <2>1. m \in Nat /\ n \in Nat /\ ~ (<<m, n>> \in R)
    BY <1>3
  <2> QED
    BY <1>2, <2>1, Zenon
<1> QED
  BY <1>4

\* Induction over a set of numbers.
LEMMA SetInduction ==
  ASSUME NEW S, 0 \in S, \A n \in Nat : n \in S => n + 1 \in S
  PROVE  \A n \in Nat : n \in S
<1> DEFINE T == Nat \ S
<1>1. SUFFICES ASSUME T # {} PROVE FALSE
  OBVIOUS
<1>2. PICK n \in T : \A m \in T : ~ (m < n)
  BY <1>1, LeastNumber
<1>3. n \in Nat /\ n # 0
  OBVIOUS
<1>4. n - 1 \in Nat /\ n - 1 < n
  BY <1>3
<1>5. n - 1 \in S
  BY <1>2, <1>4
<1>6. (n - 1) + 1 \in S
  BY <1>4, <1>5
<1> QED
  BY <1>3, <1>6

-----------------------------------------------------------------------------
(***************************************************************************)
(* Sums: SumFunction, which takes a function's values in an order of its own *)
(***************************************************************************)
Pick(s) == CHOOSE x \in s : TRUE

LEMMA PickIn ==
  ASSUME NEW s, s # {}
  PROVE  Pick(s) \in s
BY DEF Pick

\* f adds up g over the subsets of its domain, element by element.
AddsAt(f, g, s) == f[s] = IF s = {} THEN 0 ELSE g[Pick(s)] + f[s \ {Pick(s)}]

\* A smaller set is one element away.
LEMMA PickedOff ==
  ASSUME NEW S, IsFiniteSet(S), NEW s \in SUBSET S, NEW x \in s, NEW n \in Nat,
         Cardinality(s) <= n + 1
  PROVE  s \ {x} \in SUBSET S /\ Cardinality(s \ {x}) <= n
<1>1. IsFiniteSet(s)
  BY FS_Subset
<1>2. Cardinality(s) \in Nat /\ Cardinality(s \ {x}) = Cardinality(s) - 1
  BY <1>1, FS_RemoveElement, FS_CardinalityType
<1> QED
  BY <1>2

LEMMA NothingLeft ==
  ASSUME NEW S, IsFiniteSet(S), NEW s \in SUBSET S, Cardinality(s) <= 0
  PROVE  s = {}
<1>1. IsFiniteSet(s)
  BY FS_Subset
<1>2. Cardinality(s) \in Nat
  BY <1>1, FS_CardinalityType
<1> QED
  BY <1>1, <1>2, FS_EmptySet

LEMMA SumExists ==
  ASSUME NEW S, IsFiniteSet(S), NEW g \in [S -> Nat]
  PROVE  \E f \in [SUBSET S -> Nat] : \A s \in SUBSET S : AddsAt(f, g, s)
<1> DEFINE Upto(f, n) == \A s \in SUBSET S : Cardinality(s) <= n => AddsAt(f, g, s)
           N == {n \in Nat : \E f \in [SUBSET S -> Nat] : Upto(f, n)}
           next(f) == [s \in SUBSET S |-> IF s = {} THEN 0 ELSE g[Pick(s)] + f[s \ {Pick(s)}]]
<1>1. ASSUME NEW f \in [SUBSET S -> Nat] PROVE next(f) \in [SUBSET S -> Nat]
  <2>1. ASSUME NEW s \in SUBSET S, s # {} PROVE g[Pick(s)] + f[s \ {Pick(s)}] \in Nat
    <3>1. Pick(s) \in S /\ s \ {Pick(s)} \in SUBSET S
      BY <2>1, PickIn
    <3>2. PICK a \in Nat, b \in Nat : g[Pick(s)] = a /\ f[s \ {Pick(s)}] = b
      BY <3>1
    <3> QED
      BY <3>2
  <2> QED
    BY <2>1
<1>2. 0 \in N
  <2>1. PICK f \in [SUBSET S -> Nat] : f = [s \in SUBSET S |-> 0]
    OBVIOUS
  <2>2. ASSUME NEW s \in SUBSET S, Cardinality(s) <= 0 PROVE AddsAt(f, g, s)
    <3>1. s = {}
      BY <2>2, NothingLeft
    <3> QED
      BY <2>1, <3>1 DEF AddsAt
  <2> QED
    BY <2>2
<1>3. ASSUME NEW n \in Nat, n \in N PROVE n + 1 \in N
  <2>1. PICK f \in [SUBSET S -> Nat] : Upto(f, n)
    BY <1>3
  <2>2. PICK h \in [SUBSET S -> Nat] : h = next(f)
    BY <1>1
  <2>3. ASSUME NEW s \in SUBSET S, Cardinality(s) <= n PROVE h[s] = f[s]
    BY <2>1, <2>2, <2>3 DEF AddsAt
  <2>4. ASSUME NEW s \in SUBSET S, Cardinality(s) <= n + 1 PROVE AddsAt(h, g, s)
    <3>1. CASE s = {}
      BY <2>2, <3>1 DEF AddsAt
    <3>2. CASE s # {}
      <4>1. Pick(s) \in s
        BY <3>2, PickIn
      <4>2. s \ {Pick(s)} \in SUBSET S /\ Cardinality(s \ {Pick(s)}) <= n
        BY <2>4, <4>1, PickedOff
      <4>3. h[s \ {Pick(s)}] = f[s \ {Pick(s)}]
        BY <2>3, <4>2
      <4>4. h[s] = g[Pick(s)] + f[s \ {Pick(s)}]
        BY <2>2, <3>2
      <4> QED
        BY <3>2, <4>3, <4>4, Zenon DEF AddsAt
    <3> QED
      BY <3>1, <3>2
  <2> QED
    BY <2>4
<1>4. Cardinality(S) \in Nat
  BY FS_CardinalityType
<1>5. Cardinality(S) \in N
  <2> HIDE DEF N
  <2> QED
    BY <1>2, <1>3, <1>4, SetInduction
<1>6. PICK f \in [SUBSET S -> Nat] : Upto(f, Cardinality(S))
  BY <1>5
<1>7. ASSUME NEW s \in SUBSET S PROVE Cardinality(s) <= Cardinality(S)
  BY FS_Subset
<1> QED
  BY <1>6, <1>7

\* What SumFunction computes.
LEMMA SumUnfolds ==
  ASSUME NEW S, IsFiniteSet(S), NEW g \in [S -> Nat]
  PROVE  \E f : /\ \A s \in SUBSET S : AddsAt(f, g, s) 
                /\ SumFunction(g) = f[S]
<1> DEFINE F(f) == f = [s \in SUBSET S |-> IF s = {} THEN 0 ELSE g[Pick(s)] + f[s \ {Pick(s)}]]
           f == CHOOSE f : F(f)
<1>1. PICK e \in [SUBSET S -> Nat] : \A s \in SUBSET S : AddsAt(e, g, s)
  BY SumExists
<1>2. F(e)
  BY <1>1 DEF AddsAt
<1>3. F(f)
  BY <1>2, Zenon
<1>4. SumFunction(g) = f[S]
  <2>1. DOMAIN g = S
    OBVIOUS
  <2> QED
    BY <2>1, Zenon DEF SumFunction, SumFunctionOnSet, FoldFunctionOnSet, MapThenFoldSet, Pick
<1> HIDE DEF f
<1>5. \A s \in SUBSET S : AddsAt(f, g, s)
  BY <1>3 DEF AddsAt
<1> QED
  BY <1>4, <1>5

\* The order in which a sum is taken does not matter.
LEMMA SumSplits ==
  ASSUME NEW S, IsFiniteSet(S), NEW g \in [S -> Nat],
         NEW f, \A s \in SUBSET S : AddsAt(f, g, s)
  PROVE  \A s \in SUBSET S : f[s] \in Nat /\ \A x \in s : f[s] = g[x] + f[s \ {x}]
<1> DEFINE Splits(s) == f[s] \in Nat /\ \A x \in s : f[s] = g[x] + f[s \ {x}]
           N == {n \in Nat : \A s \in SUBSET S : Cardinality(s) <= n => Splits(s)}
<1>1. 0 \in N
  <2>1. ASSUME NEW s \in SUBSET S, Cardinality(s) <= 0 PROVE Splits(s)
    <3>1. s = {}
      BY <2>1, NothingLeft
    <3>2. AddsAt(f, g, s)
      OBVIOUS
    <3> QED
      BY <3>1, <3>2 DEF AddsAt
  <2> QED
    BY <2>1
<1>2. ASSUME NEW n \in Nat, n \in N PROVE n + 1 \in N
  <2>0. ASSUME NEW s \in SUBSET S, NEW c \in s, Cardinality(s) <= n + 1
        PROVE  s \ {c} \in SUBSET S /\ Cardinality(s \ {c}) <= n /\ Splits(s \ {c})
    <3>1. s \ {c} \in SUBSET S /\ Cardinality(s \ {c}) <= n
      BY <2>0, PickedOff
    <3> QED
      BY <1>2, <3>1
  <2>1. ASSUME NEW s \in SUBSET S, Cardinality(s) <= n + 1 PROVE Splits(s)
    <3>1. CASE s = {}
      <4>1. AddsAt(f, g, s)
        OBVIOUS
      <4> QED
        BY <3>1, <4>1 DEF AddsAt
    <3>2. CASE s # {}
      <4>1. PICK c \in s : f[s] = g[c] + f[s \ {c}]
        <5>1. Pick(s) \in s
          BY <3>2, PickIn
        <5>2. AddsAt(f, g, s)
          OBVIOUS
        <5> QED
          BY <3>2, <5>1, <5>2 DEF AddsAt
      <4>2. Splits(s \ {c}) /\ s \ {c} \in SUBSET S /\ Cardinality(s \ {c}) <= n
        BY <2>0, <2>1
      <4>3. PICK gc \in Nat : gc = g[c]
        OBVIOUS
      <4>4. f[s] \in Nat
        BY <4>1, <4>2, <4>3
      <4>5. ASSUME NEW x \in s, x # c PROVE f[s] = g[x] + f[s \ {x}]
        <5>1. /\ Splits(s \ {x}) /\ s \ {x} \in SUBSET S
          BY <2>0, <2>1
        <5>2. x \in s \ {c} /\ c \in s \ {x} /\ (s \ {c}) \ {x} = (s \ {x}) \ {c}
          BY <4>5
        <5>3. f[s \ {c}] = g[x] + f[(s \ {c}) \ {x}]
          BY <4>2, <5>2
        <5>4. f[s \ {x}] = g[c] + f[(s \ {c}) \ {x}]
          BY <5>1, <5>2
        <5>5. PICK gx \in Nat : gx = g[x]
          OBVIOUS
        <5>6. Cardinality(s \ {c}) <= (n - 1) + 1 /\ IsFiniteSet(s \ {c})
          BY <4>2, FS_Subset
        <5>7. f[(s \ {c}) \ {x}] \in Nat
          <6>1. Cardinality((s \ {c}) \ {x}) <= Cardinality(s \ {c})
            BY <5>6, FS_Subset
          <6>2. Cardinality((s \ {c}) \ {x}) \in Nat /\ Cardinality(s \ {c}) \in Nat
            BY <5>6, FS_Subset, FS_CardinalityType
          <6>3. Cardinality((s \ {c}) \ {x}) <= n
            BY <4>2, <6>1, <6>2
          <6> QED
            BY <1>2, <4>2, <6>3
        <5>8. PICK r \in Nat : r = f[(s \ {c}) \ {x}]
          BY <5>7
        <5> QED
          BY <4>1, <4>3, <5>3, <5>4, <5>5, <5>8
      <4> QED
        BY <4>1, <4>4, <4>5
    <3> QED
      BY <3>1, <3>2
  <2> QED
    BY <2>1
<1>3. Cardinality(S) \in Nat
  BY FS_CardinalityType
<1>4. Cardinality(S) \in N
  <2> HIDE DEF N
  <2> QED
    BY <1>1, <1>2, <1>3, SetInduction
<1>5. ASSUME NEW s \in SUBSET S PROVE Cardinality(s) <= Cardinality(S)
  BY FS_Subset
<1> QED
  BY <1>4, <1>5

\* Sums of the same numbers are equal.
LEMMA SumAgrees ==
  ASSUME NEW S, IsFiniteSet(S), NEW g, NEW f, \A s \in SUBSET S : AddsAt(f, g, s),
         NEW h, NEW e, \A s \in SUBSET S : AddsAt(e, h, s),
         \A x \in S : g[x] = h[x]
  PROVE  f[S] = e[S]
<1> DEFINE N == {n \in Nat : \A s \in SUBSET S : Cardinality(s) <= n => f[s] = e[s]}
<1>1. 0 \in N
  <2>1. ASSUME NEW s \in SUBSET S, Cardinality(s) <= 0 PROVE f[s] = e[s]
    <3>1. s = {}
      BY <2>1, NothingLeft
    <3>2. AddsAt(f, g, s) /\ AddsAt(e, h, s)
      OBVIOUS
    <3> QED
      BY <3>1, <3>2 DEF AddsAt
  <2> QED
    BY <2>1
<1>2. ASSUME NEW n \in Nat, n \in N PROVE n + 1 \in N
  <2>1. ASSUME NEW s \in SUBSET S, Cardinality(s) <= n + 1 PROVE f[s] = e[s]
    <3>1. AddsAt(f, g, s) /\ AddsAt(e, h, s)
      OBVIOUS
    <3>2. CASE s = {}
      BY <3>1, <3>2 DEF AddsAt
    <3>3. CASE s # {}
      <4>1. Pick(s) \in s
        BY <3>3, PickIn
      <4>2. s \ {Pick(s)} \in SUBSET S /\ Cardinality(s \ {Pick(s)}) <= n
        BY <2>1, <4>1, PickedOff
      <4>3. f[s \ {Pick(s)}] = e[s \ {Pick(s)}] /\ g[Pick(s)] = h[Pick(s)]
        BY <1>2, <4>1, <4>2
      <4> QED
        BY <3>1, <3>3, <4>3, Zenon DEF AddsAt
    <3> QED
      BY <3>2, <3>3
  <2> QED
    BY <2>1
<1>3. Cardinality(S) \in Nat
  BY FS_CardinalityType
<1>4. Cardinality(S) \in N
  <2> HIDE DEF N
  <2> QED
    BY <1>1, <1>2, <1>3, SetInduction
<1> QED
  BY <1>3, <1>4

\* h is g, which is over S, and one more number at x.
OneMore(S, T, x, g, h) ==
  /\ x \in T /\ S = T \ {x}
  /\ g \in [S -> Nat] /\ h \in [T -> Nat]
  /\ \A y \in S : h[y] = g[y]

LEMMA SumAdds ==
  ASSUME NEW T, IsFiniteSet(T), NEW S, NEW x, NEW g, NEW h, OneMore(S, T, x, g, h)
  PROVE  SumFunction(h) = SumFunction(g) + h[x] /\ SumFunction(g) \in Nat
<1>0. /\ x \in T /\ S = T \ {x} /\ \A y \in S : h[y] = g[y]
      /\ g \in [S -> Nat] /\ h \in [T -> Nat]
  BY DEF OneMore
<1>1. IsFiniteSet(S)
  BY <1>0, FS_RemoveElement
<1>2. PICK f : (\A s \in SUBSET S : AddsAt(f, g, s)) /\ SumFunction(g) = f[S]
  BY <1>0, <1>1, SumUnfolds
<1>3. PICK e : (\A s \in SUBSET T : AddsAt(e, h, s)) /\ SumFunction(h) = e[T]
  BY <1>0, SumUnfolds
<1>4. e[T] = h[x] + e[T \ {x}] /\ e[T \ {x}] \in Nat
  <2>1. h \in [T -> Nat] /\ x \in T
    BY <1>0
  <2>2. \A s \in SUBSET T : e[s] \in Nat /\ \A y \in s : e[s] = h[y] + e[s \ {y}]
    BY <1>3, <2>1, SumSplits
  <2> QED
    BY <2>1, <2>2
<1>5. T \ {x} = S /\ \A s \in SUBSET S : AddsAt(e, h, s)
  BY <1>0, <1>3
<1>6. f[S] = e[S]
  BY <1>0, <1>1, <1>2, <1>5, SumAgrees
<1>7. PICK b \in Nat : b = h[x]
  BY <1>0
<1>8. e[S] = SumFunction(g) /\ e[S] \in Nat /\ e[T] = h[x] + e[S] /\ SumFunction(h) = e[T]
  BY <1>2, <1>3, <1>4, <1>5, <1>6
<1>9. PICK a \in Nat : a = e[S]
  BY <1>8
<1> QED
  BY <1>7, <1>8, <1>9

\* Another number in place of one.
LEMMA SumChanges ==
  ASSUME NEW S, IsFiniteSet(S), NEW g \in [S -> Nat], NEW h \in [S -> Nat], NEW x \in S,
         \A y \in S \ {x} : h[y] = g[y]
  PROVE  SumFunction(h) + g[x] = SumFunction(g) + h[x] /\ SumFunction(g) \in Nat /\ SumFunction(h) \in Nat
<1>1. PICK f : (\A s \in SUBSET S : AddsAt(f, g, s)) /\ SumFunction(g) = f[S]
  BY SumUnfolds
<1>2. PICK e : (\A s \in SUBSET S : AddsAt(e, h, s)) /\ SumFunction(h) = e[S]
  BY SumUnfolds
<1>3. f[S] = g[x] + f[S \ {x}] /\ f[S] \in Nat /\ f[S \ {x}] \in Nat
  <2>1. \A s \in SUBSET S : f[s] \in Nat /\ \A y \in s : f[s] = g[y] + f[s \ {y}]
    BY <1>1, SumSplits
  <2> QED
    BY <2>1
<1>4. e[S] = h[x] + e[S \ {x}] /\ e[S] \in Nat /\ e[S \ {x}] \in Nat
  <2>1. \A s \in SUBSET S : e[s] \in Nat /\ \A y \in s : e[s] = h[y] + e[s \ {y}]
    BY <1>2, SumSplits
  <2> QED
    BY <2>1
<1>5. f[S \ {x}] = e[S \ {x}]
  <2>1. IsFiniteSet(S \ {x})
    BY FS_RemoveElement
  <2>2. (\A s \in SUBSET (S \ {x}) : AddsAt(f, g, s)) /\ (\A s \in SUBSET (S \ {x}) : AddsAt(e, h, s))
    BY <1>1, <1>2
  <2> QED
    BY <2>1, <2>2, SumAgrees
<1>6. PICK a \in Nat, b \in Nat : a = g[x] /\ b = h[x]
  OBVIOUS
<1> QED
  BY <1>1, <1>2, <1>3, <1>4, <1>5, <1>6

LEMMA SumOfNone ==
  ASSUME NEW g \in [{} -> Nat]
  PROVE  SumFunction(g) = 0
<1>1. IsFiniteSet({})
  BY FS_EmptySet
<1>2. PICK f : (\A s \in SUBSET {} : AddsAt(f, g, s)) /\ SumFunction(g) = f[{}]
  BY <1>1, SumUnfolds
<1>3. AddsAt(f, g, {})
  BY <1>2
<1> QED
  BY <1>2, <1>3 DEF AddsAt

\* h is g, which is over S, with n more at x.
Raised(S, T, x, n, g, h) ==
  /\ T = S \cup {x}
  /\ g \in [S -> Nat] /\ h \in [T -> Nat]
  /\ \A y \in S : y # x => h[y] = g[y]
  /\ h[x] = n + IF x \in S THEN g[x] ELSE 0

LEMMA SumRaised ==
  ASSUME NEW S, IsFiniteSet(S), NEW T, NEW x, NEW n \in Nat, NEW g, NEW h, Raised(S, T, x, n, g, h)
  PROVE  SumFunction(h) = SumFunction(g) + n /\ SumFunction(g) \in Nat
<1>1. /\ T = S \cup {x} /\ \A y \in S : y # x => h[y] = g[y]
      /\ g \in [S -> Nat] /\ h \in [T -> Nat]
      /\ h[x] = n + IF x \in S THEN g[x] ELSE 0
  BY DEF Raised
<1>2. CASE x \in S
  <2>1. T = S
    BY <1>1, <1>2
  <2>2. \A y \in S \ {x} : h[y] = g[y]
    BY <1>1
  <2>3. g \in [S -> Nat] /\ h \in [S -> Nat]
    BY <1>1, <2>1
  <2>4. /\ SumFunction(h) + g[x] = SumFunction(g) + h[x]
        /\ SumFunction(g) \in Nat /\ SumFunction(h) \in Nat
    BY <1>2, <2>2, <2>3, SumChanges
  <2>5. PICK a \in Nat : a = g[x]
    BY <1>2, <2>3
  <2> QED
    BY <1>1, <1>2, <2>4, <2>5
<1>3. CASE x \notin S
  <2>1. OneMore(S, T, x, g, h)
    <3>1. S = T \ {x} /\ x \in T
      BY <1>1, <1>3
    <3> QED
      BY <1>1, <3>1 DEF OneMore
  <2>2. IsFiniteSet(T)
    BY <1>1, FS_AddElement
  <2>3. SumFunction(h) = SumFunction(g) + h[x] /\ SumFunction(g) \in Nat
    BY <2>1, <2>2, SumAdds
  <2> QED
    BY <1>1, <1>3, <2>3
<1> QED
  BY <1>2, <1>3

LEMMA SumType ==
  ASSUME NEW S, IsFiniteSet(S), NEW g \in [S -> Nat]
  PROVE  SumFunction(g) \in Nat
<1>1. PICK f : (\A s \in SUBSET S : AddsAt(f, g, s)) /\ SumFunction(g) = f[S]
  BY SumUnfolds
<1>2. \A s \in SUBSET S : f[s] \in Nat /\ \A y \in s : f[s] = g[y] + f[s \ {y}]
  BY <1>1, SumSplits
<1> QED
  BY <1>1, <1>2

-----------------------------------------------------------------------------
(***************************************************************************)
(* FlowTracker: conversations and streams                                  *)
(***************************************************************************)
\* An endpoint is its address and its port.
LEMMA EndpointEquality ==
  ASSUME NEW a \in Endpoint, NEW b \in Endpoint, a.ip = b.ip, a.port = b.port
  PROVE  a = b
BY DEF Endpoint

LEMMA AtMostAntisymmetric ==
  ASSUME NEW a \in Endpoint, NEW b \in Endpoint, AtMost(a, b), AtMost(b, a)
  PROVE  a = b
<1>1. a.ip \in Nat /\ b.ip \in Nat /\ a.port \in Nat /\ b.port \in Nat
  BY NumbersAssumption DEF Endpoint
<1>2. a.ip = b.ip /\ a.port = b.port
  BY <1>1 DEF AtMost
<1> QED
  BY <1>2, EndpointEquality

LEMMA AtMostTotal ==
  ASSUME NEW a \in Endpoint, NEW b \in Endpoint
  PROVE  AtMost(a, b) \/ AtMost(b, a)
<1>1. a.ip \in Nat /\ b.ip \in Nat /\ a.port \in Nat /\ b.port \in Nat
  BY NumbersAssumption DEF Endpoint
<1> QED
  BY <1>1 DEF AtMost

LEMMA ReverseType ==
  ASSUME NEW t \in FiveTuple
  PROVE  Reverse(t) \in FiveTuple /\ Reverse(Reverse(t)) = t
BY DEF FiveTuple, Reverse

\* A canonical tuple has its endpoints in order, and canonical is idempotent.
LEMMA CanonicalOrdered ==
  ASSUME NEW t \in FiveTuple
  PROVE  /\ Canonical(t) \in FiveTuple
         /\ AtMost(Canonical(t).src, Canonical(t).dst)
<1>1. t.src \in Endpoint /\ t.dst \in Endpoint
  BY DEF FiveTuple
<1>2. AtMost(t.src, t.dst) \/ AtMost(t.dst, t.src)
  BY <1>1, AtMostTotal
<1>3. Reverse(t).src = t.dst /\ Reverse(t).dst = t.src
  BY DEF Reverse
<1> QED
  BY <1>2, <1>3, ReverseType DEF Canonical

LEMMA ReverseOfSame ==
  ASSUME NEW t \in FiveTuple, t.src = t.dst
  PROVE  Reverse(t) = t
BY DEF FiveTuple, Reverse

\* canonical does not depend on the direction of the tuple it is given.
THEOREM CanonicalIgnoresDirection ==
  ASSUME NEW t \in FiveTuple
  PROVE  Canonical(Reverse(t)) = Canonical(t)
<1>1. t.src \in Endpoint /\ t.dst \in Endpoint
  BY DEF FiveTuple
<1>2. Reverse(t).src = t.dst /\ Reverse(t).dst = t.src
  BY DEF Reverse
<1>3. CASE AtMost(t.src, t.dst) /\ AtMost(t.dst, t.src)
  <2>1. t.src = t.dst
    BY <1>1, <1>3, AtMostAntisymmetric
  <2> QED
    BY <2>1, ReverseOfSame
<1>4. CASE ~ AtMost(t.src, t.dst) \/ ~ AtMost(t.dst, t.src)
  BY <1>1, <1>2, <1>4, AtMostTotal, ReverseType DEF Canonical
<1> QED
  BY <1>3, <1>4

-----------------------------------------------------------------------------
LEMMA TupleType ==
  ASSUME NEW p \in Packets, HasTuple(p)
  PROVE  TupleOf(p) \in FiveTuple
<1>1. p \in DecodedPacket
  BY PacketsAssumption
<1>2. /\ p.src \in Endpoint /\ p.dst \in Endpoint /\ p.proto \in Protocols
      /\ p.l4 \in {"tcp", "udp", "icmp", "other"}
  BY <1>1 DEF DecodedPacket
<1>3. TCP \in Protocols /\ UDP \in Protocols
  BY ProtocolAssumption
<1>4. [ip |-> p.src.ip, port |-> 0] \in Endpoint /\ [ip |-> p.dst.ip, port |-> 0] \in Endpoint
  BY <1>2, NumbersAssumption DEF Endpoint
<1>5. CASE p.l4 = "tcp"
  BY <1>2, <1>3, <1>5 DEF TupleOf, FiveTuple
<1>6. CASE p.l4 = "udp"
  BY <1>2, <1>3, <1>6 DEF TupleOf, FiveTuple
<1>7. CASE p.l4 = "icmp"
  BY <1>2, <1>7 DEF TupleOf, FiveTuple
<1>8. CASE p.l4 = "other"
  BY <1>2, <1>4, <1>8 DEF TupleOf, FiveTuple
<1> QED
  BY <1>2, <1>5, <1>6, <1>7, <1>8

\* The keys of both tables are canonical tuples.
KeysCanonical ==
  /\ \A k \in DOMAIN conversations : k \in FiveTuple /\ AtMost(k.src, k.dst)
  /\ \A k \in DOMAIN tcp_streams :
       /\ k \in FiveTuple /\ AtMost(k.src, k.dst)
       /\ tcp_streams[k] = [ab |-> tcp_streams[k].ab, ba |-> tcp_streams[k].ba]
       /\ tcp_streams[k].ab \in Seq(Endpoint) /\ tcp_streams[k].ba \in Seq(Endpoint)

FlowInv == KeysCanonical /\ StreamPurity

\* The direction record chooses is the sender's.
LEMMA ForwardIsSender ==
  ASSUME NEW t \in FiveTuple
  PROVE  IF Forward(t, Canonical(t)) THEN Canonical(t).src = t.src
                                     ELSE Canonical(t).dst = t.src
<1>1. t.src \in Endpoint /\ t.dst \in Endpoint
  BY DEF FiveTuple
<1>2. Canonical(t) = t \/ Canonical(t) = Reverse(t)
  BY DEF Canonical
<1>3. Reverse(t).src = t.dst /\ Reverse(t).dst = t.src
  BY DEF Reverse
<1>4. Canonical(t).src \in Endpoint
  BY <1>1, <1>2, <1>3
<1> QED
  BY <1>1, <1>2, <1>3, <1>4, EndpointEquality DEF Forward

LEMMA FlowInvariant == Spec => []FlowInv
<1>1. Init => FlowInv
  BY DEF Init, FlowInv, KeysCanonical, StreamPurity
<1>2. FlowInv /\ [Next]_vars => FlowInv'
  <2> SUFFICES ASSUME FlowInv, [Next]_vars PROVE FlowInv'
    OBVIOUS
  <2>1. ASSUME NEW p \in Packets, NEW ts \in Times, RecordNothing(p, ts) PROVE FlowInv'
    BY <2>1 DEF RecordNothing, FlowInv, KeysCanonical, StreamPurity
  <2>2. ASSUME NEW p \in Packets, NEW ts \in Times, Record(p, ts) PROVE FlowInv'
    <3> DEFINE t   == TupleOf(p)
               key == Canonical(t)
               old == EntryOr(tcp_streams, key, [ab |-> <<>>, ba |-> <<>>])
               new == Pushed(old, Forward(t, key), t.src)
    <3>1. t \in FiveTuple
      BY <2>2, TupleType DEF Record
    <3>2. key \in FiveTuple /\ AtMost(key.src, key.dst)
      BY <3>1, CanonicalOrdered
    <3>3. t.src \in Endpoint
      BY <3>1 DEF FiveTuple
    <3>4. DOMAIN conversations' = DOMAIN conversations \cup {key}
      BY <2>2 DEF Record, Put
    <3>5. CASE p.l4 # "tcp"
      <4>1. tcp_streams' = tcp_streams
        BY <2>2, <3>5 DEF Record
      <4> QED
        BY <3>2, <3>4, <4>1 DEF FlowInv, KeysCanonical, StreamPurity
    <3>6. CASE p.l4 = "tcp"
      <4>1. tcp_streams' = Put(tcp_streams, key, new)
        BY <2>2, <3>6 DEF Record
      <4>2. /\ old = [ab |-> old.ab, ba |-> old.ba]
            /\ old.ab \in Seq(Endpoint) /\ old.ba \in Seq(Endpoint)
            /\ \A i \in 1 .. Len(old.ab) : old.ab[i] = key.src
            /\ \A i \in 1 .. Len(old.ba) : old.ba[i] = key.dst
        <5>1. CASE key \in DOMAIN tcp_streams
          <6>1. old = tcp_streams[key]
            BY <5>1 DEF EntryOr
          <6> QED
            BY <5>1, <6>1 DEF FlowInv, KeysCanonical, StreamPurity
        <5>2. CASE key \notin DOMAIN tcp_streams
          <6>1. PICK none \in Seq(Endpoint) : none = <<>>
            <7>1. <<>> \in Seq(Endpoint)
              OBVIOUS
            <7> QED
              BY <7>1, Zenon
          <6>2. Len(none) = 0
            BY <6>1
          <6>3. old = [ab |-> none, ba |-> none]
            BY <5>2, <6>1 DEF EntryOr
          <6> HIDE DEF old, key
          <6> QED
            BY <6>2, <6>3
        <5> QED
          BY <5>1, <5>2
      <4>3. /\ new = [ab |-> new.ab, ba |-> new.ba]
            /\ new.ab \in Seq(Endpoint) /\ new.ba \in Seq(Endpoint)
            /\ \A i \in 1 .. Len(new.ab) : new.ab[i] = key.src
            /\ \A i \in 1 .. Len(new.ba) : new.ba[i] = key.dst
        <5> HIDE DEF old, key, t
        <5>1. CASE Forward(t, key)
          <6>1. t.src = key.src
            BY <3>1, <5>1, ForwardIsSender DEF key
          <6>2. new.ab = Append(old.ab, t.src) /\ new.ba = old.ba
                /\ new = [ab |-> new.ab, ba |-> new.ba]
            BY <4>2, <5>1 DEF Pushed
          <6> QED
            BY <3>3, <4>2, <6>1, <6>2
        <5>2. CASE ~ Forward(t, key)
          <6>1. t.src = key.dst
            BY <3>1, <5>2, ForwardIsSender DEF key
          <6>2. new.ba = Append(old.ba, t.src) /\ new.ab = old.ab
                /\ new = [ab |-> new.ab, ba |-> new.ba]
            BY <4>2, <5>2 DEF Pushed
          <6> QED
            BY <3>3, <4>2, <6>1, <6>2
        <5> QED
          BY <5>1, <5>2
      <4> HIDE DEF new, old, key
      <4>4. KeysCanonical'
        BY <3>2, <3>4, <4>1, <4>3 DEF FlowInv, KeysCanonical, Put
      <4>5. StreamPurity'
        BY <4>1, <4>3 DEF FlowInv, StreamPurity, Put
      <4> QED
        BY <4>4, <4>5 DEF FlowInv
    <3> QED
      BY <3>5, <3>6
  <2>3. CASE UNCHANGED vars
    BY <2>3 DEF vars, FlowInv, KeysCanonical, StreamPurity
  <2> QED
    BY <2>1, <2>2, <2>3 DEF Next
<1> QED
  BY <1>1, <1>2, PTL DEF Spec

\* The two directions of a conversation never sit in two buckets.
THEOREM OneBucket == Spec => []OneBucketPerConversation
<1>1. FlowInv => OneBucketPerConversation
  <2> SUFFICES ASSUME FlowInv, NEW k \in DOMAIN conversations,
                      Reverse(k) \in DOMAIN conversations
               PROVE  Reverse(k) = k
    BY DEF OneBucketPerConversation
  <2>1. k \in FiveTuple /\ AtMost(k.src, k.dst) /\ AtMost(Reverse(k).src, Reverse(k).dst)
    BY DEF FlowInv, KeysCanonical
  <2>2. k.src \in Endpoint /\ k.dst \in Endpoint
    BY <2>1 DEF FiveTuple
  <2>3. k.src = k.dst
    BY <2>1, <2>2, AtMostAntisymmetric DEF Reverse
  <2> QED
    BY <2>1, <2>3, ReverseOfSame
<1> QED
  BY <1>1, FlowInvariant, PTL

\* Reassembly never mixes the payloads of the two sides of a conversation.
THEOREM StreamsPure == Spec => []StreamPurity
<1>1. FlowInv => StreamPurity
  BY DEF FlowInv
<1> QED
  BY <1>1, FlowInvariant, PTL

-----------------------------------------------------------------------------
(***************************************************************************)
(* The totals of a conversation                                            *)
(***************************************************************************)
Entry == [pkt : Packets, ts : Times]

\* An entry of q that belongs to the conversation with key k.
Belongs(e, k) == HasTuple(e.pkt) /\ TupleOf(e.pkt) \in {k, Reverse(k)}

EntriesIn(q, k) == {i \in 1 .. Len(q) : Belongs(q[i], k)}

Lengths(q, k) == [i \in EntriesIn(q, k) |-> q[i].pkt.len]

\* The counters that q's entries add up to.
Totals(stats, q, k) ==
  /\ stats.packets = Cardinality(EntriesIn(q, k))
  /\ stats.bytes = SumFunction(Lengths(q, k))
  /\ stats.first_seen = {q[Min(EntriesIn(q, k))].ts}
  /\ stats.last_seen = {q[Max(EntriesIn(q, k))].ts}

\* A packet belongs to the conversation it is recorded under and no other.
LEMMA BelongsToKey ==
  ASSUME NEW e \in Entry, NEW k \in FiveTuple, AtMost(k.src, k.dst), HasTuple(e.pkt)
  PROVE  Belongs(e, k) <=> Canonical(TupleOf(e.pkt)) = k
<1> DEFINE t == TupleOf(e.pkt)
<1>1. t \in FiveTuple /\ e.pkt \in Packets
  BY TupleType DEF Entry
<1>2. Canonical(t) \in {t, Reverse(t)} /\ Reverse(Reverse(t)) = t /\ Reverse(Reverse(k)) = k
  BY <1>1, ReverseType DEF Canonical
<1>3. ASSUME Canonical(t) = k PROVE t \in {k, Reverse(k)}
  BY <1>2, <1>3
<1>4. ASSUME t = k PROVE Canonical(t) = k
  BY <1>4 DEF Canonical
<1>5. ASSUME t = Reverse(k) PROVE Canonical(t) = k
  <2>1. Canonical(k) = k
    BY DEF Canonical
  <2>2. Canonical(Reverse(k)) = Canonical(k)
    BY CanonicalIgnoresDirection
  <2> QED
    BY <1>5, <2>1, <2>2
<1> HIDE DEF t
<1>6. Belongs(e, k) <=> t \in {k, Reverse(k)}
  BY DEF Belongs, t
<1> QED
  BY <1>3, <1>4, <1>5, <1>6 DEF t

LEMMA EntriesFinite ==
  ASSUME NEW q \in Seq(Entry), NEW k
  PROVE  /\ IsFiniteSet(EntriesIn(q, k)) /\ Cardinality(EntriesIn(q, k)) \in Nat
         /\ EntriesIn(q, k) \subseteq Nat /\ Lengths(q, k) \in [EntriesIn(q, k) -> Nat]
<1>1. IsFiniteSet(1 .. Len(q)) /\ EntriesIn(q, k) \subseteq 1 .. Len(q)
  BY FS_Interval DEF EntriesIn
<1>2. IsFiniteSet(EntriesIn(q, k))
  BY <1>1, FS_Subset
<1>3. ASSUME NEW i \in EntriesIn(q, k) PROVE q[i].pkt.len \in Nat
  <2>1. q[i] \in Entry
    BY <1>1
  <2>2. q[i].pkt \in DecodedPacket
    BY <2>1, PacketsAssumption DEF Entry
  <2> QED
    BY <2>2, BoundsAssumption DEF DecodedPacket
<1> QED
  BY <1>1, <1>2, <1>3, FS_CardinalityType DEF Lengths

\* The log q with e at its end.
Grown(q, e, r) == r = Append(q, e)

\* The entries after one more.
LEMMA EntryAppended ==
  ASSUME NEW q \in Seq(Entry), NEW e \in Entry, NEW r, Grown(q, e, r), NEW k
  PROVE  /\ r \in Seq(Entry) /\ Len(r) = Len(q) + 1 /\ r[Len(q) + 1] = e
         /\ \A i \in 1 .. Len(q) : r[i] = q[i]
         /\ ~ Belongs(e, k) => EntriesIn(r, k) = EntriesIn(q, k)
         /\ Belongs(e, k) => EntriesIn(r, k) = EntriesIn(q, k) \cup {Len(q) + 1}
<1>1. /\ r \in Seq(Entry) /\ Len(r) = Len(q) + 1 /\ r[Len(q) + 1] = e
      /\ \A i \in 1 .. Len(q) : r[i] = q[i]
  BY DEF Grown
<1>2. 1 .. Len(r) = (1 .. Len(q)) \cup {Len(q) + 1}
  BY <1>1
<1>3. ~ Belongs(e, k) => EntriesIn(r, k) = EntriesIn(q, k)
  BY <1>1, <1>2 DEF EntriesIn
<1>4. Belongs(e, k) => EntriesIn(r, k) = EntriesIn(q, k) \cup {Len(q) + 1}
  BY <1>1, <1>2 DEF EntriesIn
<1> QED
  BY <1>1, <1>3, <1>4

\* The first and the last of some positions.
LEMMA EndsOf ==
  ASSUME NEW n \in Nat, NEW S \in SUBSET (1 .. n), S # {}
  PROVE  Min(S) \in S /\ Max(S) \in S /\ \A y \in S : Min(S) <= y /\ y <= Max(S)
<1>1. PICK a \in S : \A y \in S : ~ (y < a)
  <2>1. S \in SUBSET Nat
    OBVIOUS
  <2> QED
    BY <2>1, LeastNumber
<1>2. PICK b \in S : \A y \in S : y <= b
  <2> DEFINE D == {m \in Nat : n - m \in S}
  <2>1. D # {}
    <3>1. PICK x \in S : x \in 1 .. n
      OBVIOUS
    <3>2. n - x \in Nat /\ n - (n - x) = x
      BY <3>1
    <3> QED
      BY <3>2
  <2>2. PICK d \in D : \A m \in D : ~ (m < d)
    BY <2>1, LeastNumber
  <2>3. ASSUME NEW y \in S PROVE y <= n - d
    <3>1. n - y \in Nat /\ n - (n - y) = y
      OBVIOUS
    <3>2. n - y \in D
      BY <3>1
    <3> QED
      BY <2>2, <3>1, <3>2
  <2> QED
    BY <2>2, <2>3
<1>3. a \in S /\ \A y \in S : a <= y
  BY <1>1
<1>4. Min(S) \in S /\ \A y \in S : Min(S) <= y
  BY <1>3 DEF Min
<1>5. b \in S /\ \A y \in S : b >= y
  BY <1>2
<1>6. Max(S) \in S /\ \A y \in S : Max(S) >= y
  BY <1>5 DEF Max
<1> QED
  BY <1>4, <1>6

Extended(S, T, n) == T = S \cup {n + 1}

LEMMA EndsMore ==
  ASSUME NEW n \in Nat, NEW S \in SUBSET (1 .. n), NEW T, Extended(S, T, n)
  PROVE  /\ Max(T) = n + 1
         /\ S # {} => Min(T) = Min(S)
         /\ S = {} => Min(T) = n + 1
<1>1. PICK m \in Nat : m = n + 1
  OBVIOUS
<1>2. T \in SUBSET (1 .. m) /\ T # {} /\ m \in T
  BY <1>1 DEF Extended
<1>3. Min(T) \in T /\ Max(T) \in T /\ \A y \in T : Min(T) <= y /\ y <= Max(T)
  BY <1>2, EndsOf
<1>4. Max(T) = m
  <2>1. PICK b \in 1 .. m : b = Max(T)
    BY <1>2, <1>3
  <2>2. m <= b
    BY <1>2, <1>3, <2>1
  <2> QED
    BY <2>1, <2>2
<1>5. ASSUME S # {} PROVE Min(T) = Min(S)
  <2>1. Min(S) \in S /\ \A y \in S : Min(S) <= y
    BY <1>5, EndsOf
  <2>2. PICK a \in 1 .. n : a = Min(S)
    BY <2>1
  <2>3. PICK b \in T : b = Min(T)
    BY <1>3
  <2>4. a \in T /\ b <= a
    BY <1>3, <2>1, <2>2, <2>3 DEF Extended
  <2>5. b \in S /\ a <= b
    BY <1>1, <2>1, <2>2, <2>3, <2>4 DEF Extended
  <2> QED
    BY <2>2, <2>3, <2>4, <2>5
<1>6. ASSUME S = {} PROVE Min(T) = m
  BY <1>1, <1>3, <1>6 DEF Extended
<1> QED
  BY <1>1, <1>4, <1>5, <1>6

\* Other conversations keep their totals.
LEMMA TotalsKept ==
  ASSUME NEW q \in Seq(Entry), NEW e \in Entry, NEW r, Grown(q, e, r), NEW k,
         ~ Belongs(e, k), NEW stats, Totals(stats, q, k), EntriesIn(q, k) # {}
  PROVE  Totals(stats, r, k)
<1>1. EntriesIn(r, k) = EntriesIn(q, k) /\ \A i \in 1 .. Len(q) : r[i] = q[i]
  BY EntryAppended
<1>2. Lengths(r, k) = Lengths(q, k)
  BY <1>1 DEF Lengths, EntriesIn
<1>3. Min(EntriesIn(q, k)) \in EntriesIn(q, k) /\ Max(EntriesIn(q, k)) \in EntriesIn(q, k)
  <2>1. Len(q) \in Nat /\ EntriesIn(q, k) \in SUBSET (1 .. Len(q))
    BY DEF EntriesIn
  <2> QED
    BY <2>1, EndsOf
<1>4. /\ r[Min(EntriesIn(q, k))] = q[Min(EntriesIn(q, k))]
      /\ r[Max(EntriesIn(q, k))] = q[Max(EntriesIn(q, k))]
  BY <1>1, <1>3 DEF EntriesIn
<1> QED
  BY <1>1, <1>2, <1>4, Zenon DEF Totals

\* The conversation of a packet gets it into its totals.
LEMMA TotalsCounted ==
  ASSUME NEW q \in Seq(Entry), NEW e \in Entry, NEW r, Grown(q, e, r), NEW k,
         Belongs(e, k), NEW stats,
         \/ EntriesIn(q, k) # {} /\ Totals(stats, q, k)
         \/ EntriesIn(q, k) = {} /\ stats = Default
  PROVE  Totals(Counted(stats, e.pkt, e.ts), r, k)
<1> DEFINE S == EntriesIn(q, k)
           T == EntriesIn(r, k)
           n == Len(q)
           c == Counted(stats, e.pkt, e.ts)
<1>1. /\ r \in Seq(Entry) /\ r[n + 1] = e /\ T = S \cup {n + 1}
      /\ \A i \in 1 .. n : r[i] = q[i]
  BY EntryAppended
<1>2. n \in Nat /\ S \in SUBSET (1 .. n) /\ n + 1 \notin S
  BY DEF EntriesIn
<1>3. /\ IsFiniteSet(S) /\ Cardinality(S) \in Nat /\ Lengths(q, k) \in [S -> Nat]
      /\ IsFiniteSet(T) /\ Lengths(r, k) \in [T -> Nat]
  BY <1>1, EntriesFinite
<1>4. Cardinality(T) = Cardinality(S) + 1
  BY <1>1, <1>2, <1>3, FS_AddElement
<1>5. SumFunction(Lengths(r, k)) = SumFunction(Lengths(q, k)) + e.pkt.len
  <2>1. S = T \ {n + 1} /\ n + 1 \in T
    BY <1>1, <1>2
  <2>2. \A i \in S : Lengths(r, k)[i] = Lengths(q, k)[i]
    BY <1>1, <1>2, <2>1 DEF Lengths
  <2>3. Lengths(r, k)[n + 1] = e.pkt.len
    BY <1>1, <2>1 DEF Lengths
  <2>4. PICK x \in T : x = n + 1
    BY <2>1
  <2>5. PICK g \in [S -> Nat], h \in [T -> Nat] : g = Lengths(q, k) /\ h = Lengths(r, k)
    BY <1>3
  <2> HIDE DEF S, T
  <2>6. OneMore(S, T, x, g, h)
    BY <2>1, <2>2, <2>4, <2>5 DEF OneMore
  <2>7. SumFunction(h) = SumFunction(g) + h[x]
    BY <1>3, <2>6, SumAdds
  <2> QED
    BY <2>3, <2>4, <2>5, <2>7
<1>6. Max(T) = n + 1 /\ (S # {} => Min(T) = Min(S)) /\ (S = {} => Min(T) = n + 1)
  <2>1. n \in Nat /\ S \in SUBSET (1 .. n)
    BY <1>2
  <2>2. Extended(S, T, n)
    BY <1>1 DEF Extended
  <2> HIDE DEF S, T, n
  <2> QED
    BY <2>1, <2>2, EndsMore
<1>7. /\ c.packets = stats.packets + 1 /\ c.bytes = stats.bytes + e.pkt.len
      /\ c.first_seen = IF stats.first_seen = {} THEN {e.ts} ELSE stats.first_seen
      /\ c.last_seen = {e.ts}
  BY DEF Counted
<1>8. stats.packets = Cardinality(S) /\ stats.bytes = SumFunction(Lengths(q, k))
  <2>1. CASE S # {}
    BY <2>1 DEF Totals
  <2>2. CASE S = {}
    <3>1. Cardinality(S) = 0
      BY <2>2, FS_EmptySet
    <3>2. SumFunction(Lengths(q, k)) = 0
      BY <1>3, <2>2, SumOfNone
    <3> QED
      BY <2>2, <3>1, <3>2 DEF Default
  <2> QED
    BY <2>1, <2>2
<1>9. r[Max(T)].ts = e.ts
  BY <1>1, <1>6
<1>10. c.first_seen = {r[Min(T)].ts}
  <2>1. CASE S # {}
    <3>1. stats.first_seen = {q[Min(S)].ts}
      BY <2>1 DEF Totals
    <3>2. Min(S) \in S
      BY <1>2, <2>1, EndsOf
    <3>3. r[Min(T)] = q[Min(S)]
      BY <1>1, <1>2, <1>6, <2>1, <3>2
    <3> QED
      BY <1>7, <3>1, <3>3
  <2>2. CASE S = {}
    <3>1. stats.first_seen = {}
      BY <2>2 DEF Default
    <3> QED
      BY <1>1, <1>6, <1>7, <2>2, <3>1
  <2> QED
    BY <2>1, <2>2
<1> HIDE DEF c
<1>11. Totals(c, r, k)
  <2>1. c.packets = Cardinality(T) /\ c.bytes = SumFunction(Lengths(r, k))
    BY <1>4, <1>5, <1>7, <1>8
  <2> QED
    BY <1>7, <1>9, <1>10, <2>1 DEF Totals
<1> QED
  BY <1>11 DEF c

-----------------------------------------------------------------------------
\* Every conversation has the totals of its packets, of which there are some,
\* and every packet with a tuple a conversation.
TotalsInv ==
  /\ log \in Seq(Entry)
  /\ \A k \in DOMAIN conversations :
       EntriesIn(log, k) # {} /\ Totals(conversations[k], log, k)
  /\ \A i \in 1 .. Len(log) :
       HasTuple(log[i].pkt) => Canonical(TupleOf(log[i].pkt)) \in DOMAIN conversations

LEMMA TotalsInvStep == FlowInv /\ TotalsInv /\ [Next]_vars => TotalsInv'
<1> SUFFICES ASSUME FlowInv, TotalsInv, [Next]_vars PROVE TotalsInv'
  OBVIOUS
<1>1. CASE UNCHANGED vars
  BY <1>1 DEF TotalsInv, vars
<1>2. ASSUME NEW p \in Packets, NEW ts \in Times, RecordNothing(p, ts) \/ Record(p, ts)
      PROVE  TotalsInv'
  <2>1. PICK e \in Entry : e = [pkt |-> p, ts |-> ts]
    BY DEF Entry
  <2>2. PICK q \in Seq(Entry) : q = log
    BY DEF TotalsInv
  <2>3. PICK r : r = log' /\ Grown(q, e, r)
    BY <1>2, <2>1, <2>2 DEF RecordNothing, Record, Arrives, Grown
  <2>4. /\ r \in Seq(Entry) /\ Len(r) = Len(q) + 1 /\ r[Len(q) + 1] = e
        /\ \A i \in 1 .. Len(q) : r[i] = q[i]
    BY <2>3, EntryAppended
  <2>5. e.pkt = p /\ e.ts = ts
    BY <2>1
  <2>6. CASE RecordNothing(p, ts)
    <3>1. conversations' = conversations /\ ~ HasTuple(p)
      BY <2>6 DEF RecordNothing
    <3>2. ASSUME NEW k \in DOMAIN conversations
          PROVE  EntriesIn(r, k) # {} /\ Totals(conversations[k], r, k)
      <4>1. ~ Belongs(e, k)
        BY <2>5, <3>1 DEF Belongs
      <4>2. EntriesIn(q, k) # {} /\ Totals(conversations[k], q, k)
        BY <2>2 DEF TotalsInv
      <4> QED
        BY <2>3, <4>1, <4>2, EntryAppended, TotalsKept
    <3>3. ASSUME NEW i \in 1 .. Len(r), HasTuple(r[i].pkt)
          PROVE  Canonical(TupleOf(r[i].pkt)) \in DOMAIN conversations
      <4>1. i \in 1 .. Len(q) /\ r[i] = log[i]
        BY <2>2, <2>4, <2>5, <3>1, <3>3
      <4> QED
        BY <2>2, <3>3, <4>1 DEF TotalsInv
    <3> QED
      BY <2>3, <2>4, <3>1, <3>2, <3>3 DEF TotalsInv
  <2>7. CASE Record(p, ts)
    <3> DEFINE stats(k) == EntryOr(conversations, k, Default)
    <3>1. PICK key : key = Canonical(TupleOf(p))
      OBVIOUS
    <3>2. /\ HasTuple(p)
          /\ DOMAIN conversations' = DOMAIN conversations \cup {key}
          /\ conversations'[key] = Counted(stats(key), p, ts)
          /\ \A k \in DOMAIN conversations : k # key => conversations'[k] = conversations[k]
      BY <2>7, <3>1 DEF Record, Put
    <3>3. key \in FiveTuple /\ AtMost(key.src, key.dst)
      BY <3>1, <3>2, TupleType, CanonicalOrdered
    <3>4. ASSUME NEW k \in FiveTuple, AtMost(k.src, k.dst)
          PROVE  Belongs(e, k) <=> key = k
      BY <2>5, <3>1, <3>2, <3>4, BelongsToKey
    <3>5. \/ EntriesIn(q, key) # {} /\ Totals(stats(key), q, key)
          \/ EntriesIn(q, key) = {} /\ stats(key) = Default
      <4>1. CASE key \in DOMAIN conversations
        BY <2>2, <4>1 DEF TotalsInv, EntryOr
      <4>2. CASE key \notin DOMAIN conversations
        <5>1. ASSUME NEW i \in EntriesIn(q, key) PROVE FALSE
          <6>1. i \in 1 .. Len(q) /\ q[i] \in Entry /\ Belongs(q[i], key)
            BY DEF EntriesIn
          <6>2. HasTuple(q[i].pkt) /\ Canonical(TupleOf(q[i].pkt)) = key
            BY <3>3, <6>1, BelongsToKey DEF Belongs
          <6> QED
            BY <2>2, <4>2, <6>1, <6>2 DEF TotalsInv
        <5> QED
          BY <4>2, <5>1 DEF EntryOr
      <4> QED
        BY <4>1, <4>2
    <3>6. EntriesIn(r, key) # {} /\ Totals(conversations'[key], r, key)
      <4>1. Belongs(e, key)
        BY <3>3, <3>4
      <4>2. Totals(Counted(stats(key), e.pkt, e.ts), r, key)
        BY <2>3, <3>5, <4>1, TotalsCounted
      <4>3. EntriesIn(r, key) # {}
        <5>1. EntriesIn(r, key) = EntriesIn(q, key) \cup {Len(q) + 1}
          BY <2>3, <4>1, EntryAppended
        <5> QED
          BY <5>1
      <4> QED
        BY <2>5, <3>2, <4>2, <4>3
    <3>7. ASSUME NEW k \in DOMAIN conversations, k # key
          PROVE  EntriesIn(r, k) # {} /\ Totals(conversations'[k], r, k)
      <4>1. k \in FiveTuple /\ AtMost(k.src, k.dst)
        BY DEF FlowInv, KeysCanonical
      <4>2. ~ Belongs(e, k)
        BY <3>4, <3>7, <4>1
      <4>3. EntriesIn(q, k) # {} /\ Totals(conversations[k], q, k)
        BY <2>2 DEF TotalsInv
      <4> QED
        BY <2>3, <3>2, <3>7, <4>2, <4>3, EntryAppended, TotalsKept
    <3>8. ASSUME NEW i \in 1 .. Len(r), HasTuple(r[i].pkt)
          PROVE  Canonical(TupleOf(r[i].pkt)) \in DOMAIN conversations'
      <4>1. CASE i = Len(q) + 1
        BY <2>4, <2>5, <3>1, <3>2, <4>1
      <4>2. CASE i # Len(q) + 1
        <5>1. i \in 1 .. Len(q) /\ r[i] = log[i]
          BY <2>2, <2>4, <4>2
        <5> QED
          BY <2>2, <3>2, <3>8, <5>1 DEF TotalsInv
      <4> QED
        BY <4>1, <4>2
    <3> QED
      BY <2>3, <2>4, <3>2, <3>6, <3>7, <3>8 DEF TotalsInv
  <2> QED
    BY <1>2, <2>6, <2>7
<1> QED
  BY <1>1, <1>2 DEF Next

\* A bucket's counters are those of all packets of both directions.
THEOREM TotalsAddUp == Spec => []ConversationTotals
<1>1. Init => TotalsInv
  BY DEF Init, TotalsInv
<1>2. TotalsInv => ConversationTotals
  <2> SUFFICES ASSUME TotalsInv, NEW k \in DOMAIN conversations
               PROVE  Totals(conversations[k], log, k)
    BY Zenon DEF ConversationTotals, Totals, Entries, EntriesIn, Belongs, Lengths
  <2> QED
    BY DEF TotalsInv
<1> QED
  BY <1>1, <1>2, TotalsInvStep, FlowInvariant, PTL DEF Spec

-----------------------------------------------------------------------------
(***************************************************************************)
(* WireDecoder, and the pass over a capture                                *)
(***************************************************************************)
\* A transport header that is accepted takes its bytes off the slice's front,
\* as many in a longer slice as in a shorter one.
LEMMA TransportFront ==
  ASSUME NEW f \in Frame, NEW g \in Frame, f.proto = g.proto, f.off = g.off,
         NEW l3, NEW from \in Nat, NEW short \in Nat, NEW long \in Nat,
         from <= short, short <= long
  PROVE  \/ Transport(g, l3, from, short) = NoHeader(l3)
         \/ \E l4 \in {"icmp", "tcp", "udp", "other"}, s \in from .. short :
              /\ Transport(g, l3, from, short) = Decoded(l3, l4, s, short)
              /\ Transport(f, l3, from, long) = Decoded(l3, l4, s, long)
<1>1. CASE f.proto \in {1, 58}
  <2>1. CASE short - from >= 8
    <3>1. /\ Transport(g, l3, from, short) = Decoded(l3, "icmp", from + 8, short)
          /\ Transport(f, l3, from, long) = Decoded(l3, "icmp", from + 8, long)
      BY <1>1, <2>1 DEF Transport, Refused, IcmpAccepts, TcpAccepts, UdpAccepts
    <3> QED
      BY <2>1, <3>1
  <2>2. CASE ~ (short - from >= 8)
    BY <1>1, <2>2 DEF Transport, Refused, IcmpAccepts, TcpAccepts, UdpAccepts
  <2> QED
    BY <2>1, <2>2
<1>2. CASE f.proto = 6
  <2>0. f.off \in Nat
    BY DEF Frame
  <2>1. CASE short - from >= 20 /\ f.off >= 20 /\ short - from >= f.off
    <3>1. long - from >= 20 /\ long - from >= f.off
      BY <2>0, <2>1
    <3>2. /\ Transport(g, l3, from, short) = Decoded(l3, "tcp", from + f.off, short)
          /\ Transport(f, l3, from, long) = Decoded(l3, "tcp", from + f.off, long)
      BY <1>2, <2>1, <3>1 DEF Transport, Refused, IcmpAccepts, TcpAccepts, UdpAccepts
    <3>3. from + f.off \in from .. short
      BY <2>0, <2>1
    <3> QED
      BY <3>2, <3>3
  <2>2. CASE ~ (short - from >= 20 /\ f.off >= 20 /\ short - from >= f.off)
    BY <1>2, <2>2 DEF Transport, Refused, IcmpAccepts, TcpAccepts, UdpAccepts
  <2> QED
    BY <2>1, <2>2
<1>3. CASE f.proto = 17
  <2>1. CASE short - from >= 8
    <3>1. /\ Transport(g, l3, from, short) = Decoded(l3, "udp", from + 8, short)
          /\ Transport(f, l3, from, long) = Decoded(l3, "udp", from + 8, long)
      BY <1>3, <2>1 DEF Transport, Refused, IcmpAccepts, TcpAccepts, UdpAccepts
    <3> QED
      BY <2>1, <3>1
  <2>2. CASE ~ (short - from >= 8)
    BY <1>3, <2>2 DEF Transport, Refused, IcmpAccepts, TcpAccepts, UdpAccepts
  <2> QED
    BY <2>1, <2>2
<1>4. CASE f.proto \notin {1, 58, 6, 17}
  <2>1. /\ Transport(g, l3, from, short) = Decoded(l3, "other", from, short)
        /\ Transport(f, l3, from, long) = Decoded(l3, "other", from, long)
    BY <1>4 DEF Transport, Refused, IcmpAccepts, TcpAccepts, UdpAccepts
  <2> QED
    BY <2>1
<1> QED
  BY <1>1, <1>2, <1>3, <1>4

\* In particular what is found lies within the slice.
LEMMA TransportWithin ==
  ASSUME NEW f \in Frame, NEW l3, NEW from \in Nat, NEW to \in Nat, from <= to
  PROVE  \/ Transport(f, l3, from, to) = NoHeader(l3)
         \/ \E l4 \in {"icmp", "tcp", "udp", "other"}, s \in from .. to :
              Transport(f, l3, from, to) = Decoded(l3, l4, s, to)
<1>1. to <= to
  OBVIOUS
<1>2. \/ Transport(f, l3, from, to) = NoHeader(l3)
      \/ \E l4 \in {"icmp", "tcp", "udp", "other"}, s \in from .. to :
           /\ Transport(f, l3, from, to) = Decoded(l3, l4, s, to)
           /\ Transport(f, l3, from, to) = Decoded(l3, l4, s, to)
  BY <1>1, TransportFront
<1> QED
  BY <1>2

\* A shorter slice gives nothing or what the longer one gives, cut short.
LEMMA TransportCut ==
  ASSUME NEW f \in Frame, NEW g \in Frame, f.proto = g.proto, f.off = g.off,
         NEW l3, NEW from \in Nat, NEW short \in Nat, NEW long \in Nat,
         from <= short, short <= long,
         NEW d, NEW e, d = Transport(g, l3, from, short), e = Transport(f, l3, from, long),
         e.l3 = l3
  PROVE  /\ d.l3 \in {"none", e.l3} /\ d.l4 \in {"none", e.l4}
         /\ d.from # d.to => d.from = e.from /\ d.to <= e.to
<1>1. \/ d = NoHeader(l3)
      \/ \E l4 \in {"icmp", "tcp", "udp", "other"}, s \in from .. short :
           d = Decoded(l3, l4, s, short) /\ e = Decoded(l3, l4, s, long)
  BY TransportFront
<1>2. CASE d = NoHeader(l3)
  BY <1>2 DEF NoHeader, Decoded
<1>3. CASE \E l4 \in {"icmp", "tcp", "udp", "other"}, s \in from .. short :
             d = Decoded(l3, l4, s, short) /\ e = Decoded(l3, l4, s, long)
  BY <1>3 DEF Decoded
<1> QED
  BY <1>1, <1>2, <1>3

\* What decode_packet does, one case per line.
LEMMA DecodeCases ==
  ASSUME NEW f \in Frame
  PROVE  /\ f.n < 14 => Decode(f) = Decoded("none", "none", 0, f.n)
         /\ f.n >= 14 /\ f.ethertype = "ipv4" /\ Ipv4Accepts(f, f.n - 14) =>
              Decode(f) = Transport(f, "ipv4", 14 + f.ihl, Ipv4End(f))
         /\ f.n >= 14 /\ f.ethertype = "ipv4" /\ ~ Ipv4Accepts(f, f.n - 14) =>
              Decode(f) = NoHeader("none")
         /\ f.n >= 54 /\ f.ethertype = "ipv6" => Decode(f) = Transport(f, "ipv6", 54, f.n)
         /\ f.n >= 14 /\ f.n < 54 /\ f.ethertype = "ipv6" => Decode(f) = NoHeader("none")
         /\ f.n >= 42 /\ f.ethertype = "arp" => Decode(f) = NoHeader("arp")
         /\ f.n >= 14 /\ f.n < 42 /\ f.ethertype = "arp" => Decode(f) = NoHeader("none")
         /\ f.n >= 14 /\ f.ethertype = "other" => Decode(f) = Decoded("other", "none", 14, f.n)
<1>1. f.n \in Nat
  BY DEF Frame
<1> QED
  BY <1>1 DEF Decode, EthernetAccepts, Ipv6Accepts, ArpAccepts, EthernetLen, ArpLen, Ipv6Len, Ipv4End

\* The slice decode_ipv4 returns starts after the header and ends within the
\* datagram and the frame.
LEMMA Ipv4Slice ==
  ASSUME NEW f \in Frame, f.n >= 14, Ipv4Accepts(f, f.n - 14)
  PROVE  /\ 14 + f.ihl \in Nat /\ Ipv4End(f) \in Nat
         /\ 14 + f.ihl <= Ipv4End(f) /\ Ipv4End(f) <= f.n /\ Ipv4End(f) <= 14 + f.total
BY DEF Frame, Ipv4Accepts, Ipv4End, EthernetLen

\* The fields of what the decoder finds.
LEMMA Fields ==
  ASSUME NEW l3, NEW l4, NEW from, NEW to
  PROVE  /\ Decoded(l3, l4, from, to).l3 = l3 /\ Decoded(l3, l4, from, to).l4 = l4
         /\ Decoded(l3, l4, from, to).from = from /\ Decoded(l3, l4, from, to).to = to
         /\ NoHeader(l3) = Decoded(l3, "none", 0, 0)
BY DEF Decoded, NoHeader

\* No frame makes the decoder slice out of range or count padding as payload.
THEOREM EverySliceInRange == ASSUME NEW f \in Frame PROVE SliceInRange(f)
<1>0. f.n \in Nat /\ f.total \in Nat /\ f.ihl \in Nat /\ f.ethertype \in {"ipv4", "ipv6", "arp", "other"}
  BY DEF Frame
<1>1. CASE f.n >= 14 /\ f.ethertype = "ipv4" /\ Ipv4Accepts(f, f.n - 14)
  <2>1. Decode(f) = Transport(f, "ipv4", 14 + f.ihl, Ipv4End(f))
    BY <1>1, DecodeCases
  <2>2. /\ 14 + f.ihl \in Nat /\ Ipv4End(f) \in Nat
        /\ 14 + f.ihl <= Ipv4End(f) /\ Ipv4End(f) <= f.n /\ Ipv4End(f) <= 14 + f.total
    BY <1>1, Ipv4Slice
  <2>3. CASE Decode(f) = NoHeader("ipv4")
    BY <1>0, <2>3, Fields DEF SliceInRange, EthernetLen
  <2>4. CASE \E l4 \in {"icmp", "tcp", "udp", "other"}, s \in 14 + f.ihl .. Ipv4End(f) :
               Decode(f) = Decoded("ipv4", l4, s, Ipv4End(f))
    <3>1. PICK l4 \in {"icmp", "tcp", "udp", "other"}, s \in 14 + f.ihl .. Ipv4End(f) :
            Decode(f) = Decoded("ipv4", l4, s, Ipv4End(f))
      BY <2>4
    <3> QED
      BY <1>0, <2>2, <3>1, Fields DEF SliceInRange, EthernetLen
  <2>5. \/ Transport(f, "ipv4", 14 + f.ihl, Ipv4End(f)) = NoHeader("ipv4")
        \/ \E l4 \in {"icmp", "tcp", "udp", "other"}, s \in 14 + f.ihl .. Ipv4End(f) :
             Transport(f, "ipv4", 14 + f.ihl, Ipv4End(f)) = Decoded("ipv4", l4, s, Ipv4End(f))
    BY <2>2, TransportWithin
  <2> QED
    BY <2>1, <2>3, <2>4, <2>5
<1>2. CASE f.n >= 54 /\ f.ethertype = "ipv6"
  <2>1. Decode(f) = Transport(f, "ipv6", 54, f.n)
    BY <1>2, DecodeCases
  <2>2. CASE Decode(f) = NoHeader("ipv6")
    BY <1>0, <2>2, Fields DEF SliceInRange, EthernetLen
  <2>3. CASE \E l4 \in {"icmp", "tcp", "udp", "other"}, s \in 54 .. f.n :
               Decode(f) = Decoded("ipv6", l4, s, f.n)
    <3>1. PICK l4 \in {"icmp", "tcp", "udp", "other"}, s \in 54 .. f.n :
            Decode(f) = Decoded("ipv6", l4, s, f.n)
      BY <2>3
    <3> QED
      BY <1>0, <3>1, Fields DEF SliceInRange, EthernetLen
  <2>4. 54 \in Nat /\ 54 <= f.n
    BY <1>2
  <2>5. \/ Transport(f, "ipv6", 54, f.n) = NoHeader("ipv6")
        \/ \E l4 \in {"icmp", "tcp", "udp", "other"}, s \in 54 .. f.n :
             Transport(f, "ipv6", 54, f.n) = Decoded("ipv6", l4, s, f.n)
    BY <1>0, <2>4, TransportWithin
  <2> QED
    BY <2>1, <2>2, <2>3, <2>5
<1>3. CASE \/ f.n < 14 \/ f.ethertype \in {"arp", "other"}
           \/ f.ethertype = "ipv6" /\ f.n < 54
           \/ f.ethertype = "ipv4" /\ ~ Ipv4Accepts(f, f.n - 14)
  <2>1. \E l3 \in {"none", "arp", "other"} : \E from \in 0 .. f.n :
          \/ Decode(f) = Decoded(l3, "none", from, f.n)
          \/ Decode(f) = NoHeader(l3)
    BY <1>0, <1>3, DecodeCases
  <2>2. PICK l3 \in {"none", "arp", "other"}, from \in 0 .. f.n :
          \/ Decode(f) = Decoded(l3, "none", from, f.n)
          \/ Decode(f) = NoHeader(l3)
    BY <2>1
  <2> QED
    BY <1>0, <2>2, Fields DEF SliceInRange
<1> QED
  BY <1>0, <1>1, <1>2, <1>3

\* No snapshot length makes the decoder read what the whole frame does not say.
THEOREM EveryCutOnlyLoses ==
  ASSUME NEW f \in Frame, NEW m \in Nat PROVE CutOnlyLoses(f, m)
<1> SUFFICES ASSUME 14 <= m, m <= f.n
             PROVE  LET d == Decode(Cut(f, m))
                        e == Decode(f)
                    IN  /\ d.l3 \in {"none", e.l3} /\ d.l4 \in {"none", e.l4}
                        /\ d.from # d.to => d.from = e.from /\ d.to <= e.to
  BY DEF CutOnlyLoses, EthernetLen
<1> DEFINE g == Cut(f, m)
           d == Decode(g)
           e == Decode(f)
<1>0. /\ f.n \in Nat /\ f.total \in Nat /\ f.ihl \in Nat
      /\ f.ethertype \in {"ipv4", "ipv6", "arp", "other"}
  BY DEF Frame
<1>1. /\ g \in Frame /\ g.n = m /\ g.ethertype = f.ethertype /\ g.ihl = f.ihl
      /\ g.total = f.total /\ g.proto = f.proto /\ g.off = f.off
  BY DEF Cut, Frame
<1> HIDE DEF g
<1>2. ASSUME NEW l3, NEW from \in Nat, NEW short \in Nat, NEW long \in Nat,
             from <= short, short <= long,
             d = Transport(g, l3, from, short), e = Transport(f, l3, from, long),
             e.l3 = l3
      PROVE  /\ d.l3 \in {"none", e.l3} /\ d.l4 \in {"none", e.l4}
             /\ d.from # d.to => d.from = e.from /\ d.to <= e.to
  <2>1. f.proto = g.proto /\ f.off = g.off /\ g \in Frame
    BY <1>1
  <2> HIDE DEF d, e
  <2> QED
    BY <1>2, <2>1, TransportCut
<1>3. ASSUME NEW l3, NEW from \in Nat, NEW to \in Nat, from <= to
      PROVE  Transport(f, l3, from, to).l3 = l3
  BY <1>3, TransportWithin, Fields
<1>4. CASE d = NoHeader("none")
  BY <1>4, Fields DEF g
<1>5. CASE f.ethertype = "ipv4" /\ Ipv4Accepts(g, m - 14)
  <2>1. Ipv4Accepts(f, f.n - 14)
    BY <1>0, <1>1, <1>5 DEF Ipv4Accepts
  <2>2. /\ 14 + g.ihl \in Nat /\ Ipv4End(g) \in Nat /\ 14 + g.ihl <= Ipv4End(g)
    BY <1>1, <1>5, Ipv4Slice
  <2>3. Ipv4End(f) \in Nat
    BY <1>0, <2>1, Ipv4Slice
  <2>4. Ipv4End(g) <= Ipv4End(f)
    BY <1>0, <1>1 DEF Ipv4End, EthernetLen
  <2>5. d = Transport(g, "ipv4", 14 + g.ihl, Ipv4End(g))
    BY <1>1, <1>5, DecodeCases
  <2>6. e = Transport(f, "ipv4", 14 + g.ihl, Ipv4End(f))
    BY <1>0, <1>1, <1>5, <2>1, DecodeCases
  <2>7. e.l3 = "ipv4"
    BY <1>3, <2>2, <2>3, <2>4, <2>6
  <2> QED
    BY <1>2, <2>2, <2>3, <2>4, <2>5, <2>6, <2>7 DEF g
<1>6. CASE f.ethertype = "ipv6" /\ m >= 54
  <2>1. d = Transport(g, "ipv6", 54, m) /\ e = Transport(f, "ipv6", 54, f.n)
    BY <1>0, <1>1, <1>6, DecodeCases
  <2>2. e.l3 = "ipv6"
    BY <1>0, <1>3, <1>6, <2>1
  <2> QED
    BY <1>0, <1>2, <1>6, <2>1, <2>2 DEF g
<1>7. CASE f.ethertype = "arp" /\ m >= 42
  <2>1. d = NoHeader("arp") /\ e = NoHeader("arp")
    BY <1>0, <1>1, <1>7, DecodeCases
  <2> QED
    BY <2>1, Fields DEF g
<1>8. CASE f.ethertype = "other"
  <2>1. d = Decoded("other", "none", 14, m) /\ e = Decoded("other", "none", 14, f.n)
    BY <1>0, <1>1, <1>8, DecodeCases
  <2> QED
    BY <2>1, Fields DEF g
<1>9. \/ d = NoHeader("none")
      \/ f.ethertype = "ipv4" /\ Ipv4Accepts(g, m - 14)
      \/ f.ethertype = "ipv6" /\ m >= 54
      \/ f.ethertype = "arp" /\ m >= 42
      \/ f.ethertype = "other"
  BY <1>0, <1>1, DecodeCases
<1> QED
  BY <1>4, <1>5, <1>6, <1>7, <1>8, <1>9

\* The frames read, and those that may come, are frames.
FramesInv == capture \subseteq Frames /\ frames \in Seq(Frames)

LEMMA FramesAreFrames == FileSpec => []FramesInv
<1>1. FileInit => FramesInv
  BY FramesAssumption DEF FileInit, FramesInv
<1>2. FramesInv /\ [FileNext]_file_vars => FramesInv'
  <2> SUFFICES ASSUME FramesInv, [FileNext]_file_vars PROVE FramesInv'
    OBVIOUS
  <2>1. ASSUME NEW f \in capture, NEW ts \in Times, NEW n \in 0 .. MaxAlerts, ReadPacket(f, ts, n)
        PROVE  FramesInv'
    BY <2>1 DEF FramesInv, ReadPacket
  <2>2. CASE UNCHANGED <<capture, frames>>
    BY <2>2 DEF FramesInv
  <2> QED
    BY <2>1, <2>2 DEF FileNext, Open, OpenFails, ReadEnd, LiveEnd, Leave, file_vars
<1> QED
  BY <1>1, <1>2, PTL DEF FileSpec

\* To the conversation table a pass is a run of FlowTracker: each turn of the
\* loop is one call of record, and nothing else touches it.
THEOREM PassIsTracked == FileSpec => Spec
<1>1. FileInit => Init
  BY DEF FileInit
<1>2. FramesInv /\ [FileNext]_file_vars => [Next]_vars
  <2> SUFFICES ASSUME FramesInv, [FileNext]_file_vars PROVE [Next]_vars
    OBVIOUS
  <2>1. ASSUME NEW f \in capture, NEW ts \in Times, NEW n \in 0 .. MaxAlerts, ReadPacket(f, ts, n)
        PROVE  Next
    <3>1. ToTracker(f) \in Packets
      BY TrackerAssumption DEF FramesInv
    <3>2. RecordNothing(ToTracker(f), ts) \/ Record(ToTracker(f), ts)
      BY <2>1 DEF ReadPacket
    <3> QED
      BY <3>1, <3>2 DEF Next
  <2>2. CASE UNCHANGED vars
    BY <2>2
  <2> QED
    BY <2>1, <2>2 DEF FileNext, Open, OpenFails, ReadEnd, LiveEnd, Leave, file_vars
<1> QED
  BY <1>1, <1>2, FramesAreFrames, PTL DEF FileSpec, Spec

\* In every pass over every capture no conversation has two buckets.
THEOREM PassKeepsBuckets == FileSpec => []OneBucketPerConversation
BY PassIsTracked, OneBucket, PTL

\* In every pass over every capture no stream mixes two senders' payloads.
THEOREM PassKeepsStreams == FileSpec => []StreamPurity
BY PassIsTracked, StreamsPure, PTL

\* No pass over any capture slices out of range or counts padding as payload.
THEOREM PassSlicesInRange == FileSpec => []SlicesInRange
<1>1. FramesInv => SlicesInRange
  <2> SUFFICES ASSUME FramesInv, NEW i \in 1 .. Len(frames) PROVE SliceInRange(frames[i].wire)
    BY DEF SlicesInRange
  <2>1. frames[i] \in Frames
    BY DEF FramesInv
  <2>2. frames[i].wire \in Frame
    BY <2>1, FramesAssumption DEF FrameFields
  <2> QED
    BY <2>2, EverySliceInRange
<1> QED
  BY <1>1, FramesAreFrames, PTL

\* Whatever the snapshot length, truncation only loses.
THEOREM PassSurvivesTruncation == FileSpec => []TruncationOnlyLoses
<1>1. FramesInv => TruncationOnlyLoses
  <2> SUFFICES ASSUME FramesInv, NEW i \in 1 .. Len(frames), NEW m \in SnapLengths
               PROVE  CutOnlyLoses(frames[i].wire, m)
    BY DEF TruncationOnlyLoses
  <2>1. frames[i] \in Frames
    BY DEF FramesInv
  <2>2. frames[i].wire \in Frame /\ m \in Nat
    BY <2>1, FramesAssumption, SnapAssumption DEF FrameFields
  <2> QED
    BY <2>2, EveryCutOnlyLoses
<1> QED
  BY <1>1, FramesAreFrames, PTL

-----------------------------------------------------------------------------
(***************************************************************************)
(* The live feed and the answer                                            *)
(***************************************************************************)
Event == {"packet", "alert", "stats"}

\* How often event occurs in q.
Occurs(q, event) == Cardinality({i \in 1 .. Len(q) : q[i] = event})

LEMMA OccursType ==
  ASSUME NEW q \in Seq(Event), NEW event
  PROVE  Occurs(q, event) \in Nat /\ IsFiniteSet({i \in 1 .. Len(q) : q[i] = event})
<1>1. IsFiniteSet(1 .. Len(q))
  BY FS_Interval
<1> QED
  BY <1>1, FS_Subset, FS_CardinalityType DEF Occurs

LEMMA OccursEmpty ==
  ASSUME NEW event
  PROVE  Occurs(<<>>, event) = 0
<1>1. {i \in 1 .. Len(<<>>) : <<>>[i] = event} = {}
  OBVIOUS
<1> QED
  BY <1>1, FS_EmptySet DEF Occurs

\* r is q and n times x.
Lengthened(q, r, x, n) ==
  /\ Len(r) = Len(q) + n
  /\ \A i \in 1 .. Len(q) : r[i] = q[i]
  /\ \A i \in Len(q) + 1 .. Len(q) + n : r[i] = x

\* n more events are n more occurrences of that event, and no other's.
LEMMA OccursMore ==
  ASSUME NEW q \in Seq(Event), NEW x \in Event, NEW n \in Nat, NEW event,
         NEW r \in Seq(Event), Lengthened(q, r, x, n)
  PROVE  Occurs(r, event) = Occurs(q, event) + IF x = event THEN n ELSE 0
<1> DEFINE S == {i \in 1 .. Len(q) : q[i] = event}
           T == {i \in 1 .. Len(r) : r[i] = event}
           more == Len(q) + 1 .. Len(q) + n
<1>2. /\ Len(r) = Len(q) + n
      /\ \A i \in 1 .. Len(q) : r[i] = q[i]
      /\ \A i \in more : r[i] = x
  BY DEF Lengthened
<1>3. IsFiniteSet(more) /\ Cardinality(more) = n
  <2>1. PICK l \in Nat : l = Len(q)
    OBVIOUS
  <2>2. IsFiniteSet(l + 1 .. l + n) /\ Cardinality(l + 1 .. l + n) = n
    BY FS_Interval
  <2> QED
    BY <2>1, <2>2
<1>4. CASE x = event
  <2>1. T = S \cup more
    BY <1>2, <1>4
  <2>2. S \cap more = {}
    OBVIOUS
  <2>3. IsFiniteSet(S) /\ Cardinality(S) \in Nat
    BY OccursType DEF Occurs
  <2>4. Cardinality(T) = Cardinality(S) + Cardinality(more) - Cardinality(S \cap more)
    BY <1>3, <2>1, <2>3, FS_Union
  <2>5. Cardinality(S \cap more) = 0
    BY <2>2, FS_EmptySet
  <2>6. Occurs(q, event) = Cardinality(S) /\ Occurs(r, event) = Cardinality(T)
    BY DEF Occurs
  <2> HIDE DEF S, T, more
  <2> QED
    BY <1>3, <1>4, <2>3, <2>4, <2>5, <2>6
<1>5. CASE x # event
  <2>1. T = S
    BY <1>2, <1>5
  <2>2. Occurs(q, event) \in Nat
    BY OccursType
  <2>3. Occurs(r, event) = Occurs(q, event)
    BY <2>1, Zenon DEF Occurs
  <2> QED
    BY <1>5, <2>2, <2>3
<1> QED
  BY <1>4, <1>5

LEMMA OccursNext ==
  ASSUME NEW q \in Seq(Event), NEW x \in Event, NEW event
  PROVE  Occurs(Append(q, x), event) = Occurs(q, event) + IF x = event THEN 1 ELSE 0
<1>1. PICK n \in Nat : n = 1
  OBVIOUS
<1>2. Append(q, x) \in Seq(Event)
  OBVIOUS
<1>3. PICK r \in Seq(Event) : r = Append(q, x)
  BY <1>2, Zenon
<1>4. Lengthened(q, r, x, n)
  BY <1>1, <1>3 DEF Lengthened
<1>5. Occurs(r, event) = Occurs(q, event) + IF x = event THEN n ELSE 0
  BY <1>4, OccursMore
<1> QED
  BY <1>1, <1>3, <1>5

\* The feed after a turn of the loop: a packet and n alerts more.
AfterTurn(q, n) == q \o <<"packet">> \o [i \in 1 .. n |-> "alert"]

LEMMA TurnSent ==
  ASSUME NEW q \in Seq(Event), NEW n \in Nat,
         NEW r, r = AfterTurn(q, n)
  PROVE  /\ r \in Seq(Event)
         /\ Occurs(r, "packet") = Occurs(q, "packet") + 1
         /\ Occurs(r, "alert") = Occurs(q, "alert") + n
         /\ Occurs(r, "stats") = Occurs(q, "stats")
<1>1. PICK p \in Seq(Event) : p = Append(q, "packet")
  <2>1. Append(q, "packet") \in Seq(Event)
    BY DEF Event
  <2> QED
    BY <2>1, Zenon
<1>2. r = p \o [i \in 1 .. n |-> "alert"]
  BY <1>1 DEF AfterTurn
<1>3. "alert" \in Event /\ "packet" \in Event
  BY DEF Event
<1>4. PICK t \in Seq(Event) :
        t = [i \in 1 .. n |-> "alert"] /\ Len(t) = n /\ \A i \in 1 .. n : t[i] = "alert"
  <2>1. [i \in 1 .. n |-> "alert"] \in Seq(Event) /\ Len([i \in 1 .. n |-> "alert"]) = n
    BY <1>3
  <2> QED
    BY <2>1
<1>5. r \in Seq(Event) /\ Lengthened(p, r, "alert", n)
  <2>1. r = p \o t
    BY <1>2, <1>4
  <2> QED
    BY <1>4, <2>1 DEF Lengthened
<1>6. /\ Occurs(p, "packet") = Occurs(q, "packet") + 1
      /\ Occurs(p, "alert") = Occurs(q, "alert") + 0
      /\ Occurs(p, "stats") = Occurs(q, "stats") + 0
  BY <1>1, <1>3, OccursNext
<1>7. \A event : Occurs(r, event) = Occurs(p, event) + IF "alert" = event THEN n ELSE 0
  BY <1>3, <1>5, OccursMore
<1>8. /\ Occurs(q, "packet") \in Nat /\ Occurs(q, "alert") \in Nat /\ Occurs(q, "stats") \in Nat
      /\ Occurs(p, "packet") \in Nat /\ Occurs(p, "alert") \in Nat /\ Occurs(p, "stats") \in Nat
  BY OccursType
<1>9. Occurs(r, "packet") = Occurs(q, "packet") + 1
  BY <1>6, <1>7, <1>8
<1>10. Occurs(r, "alert") = Occurs(q, "alert") + n
  BY <1>6, <1>7, <1>8
<1>11. Occurs(r, "stats") = Occurs(q, "stats")
  BY <1>6, <1>7, <1>8
<1> QED
  BY <1>5, <1>9, <1>10, <1>11

\* As long as the loop runs the server has sent what it counted; the answer
\* says the same and the totals are the last event.  A conversation takes a
\* packet.
FeedInv ==
  /\ phase \in {"closed", "reading", "answered", "failed"}
  /\ packets \in Nat /\ alerts \in Nat
  /\ feed \in Seq(Event)
  /\ IsFiniteSet(DOMAIN conversations) /\ Cardinality(DOMAIN conversations) <= packets
  /\ mode = "api" =>
       /\ Occurs(feed, "packet") = packets
       /\ phase \in {"closed", "reading"} =>
            Occurs(feed, "stats") = 0 /\ Occurs(feed, "alert") = alerts
       /\ AnswerMatchesFeed

LEMMA SentOccurs == \A event : Sent(event) = Occurs(feed, event)
BY DEF Sent, Occurs

LEMMA FeedInvInit == FileInit => FeedInv
<1> SUFFICES ASSUME FileInit PROVE FeedInv
  OBVIOUS
<1>1. /\ phase = "closed" /\ packets = 0 /\ alerts = 0 /\ feed = <<>> /\ feed \in Seq(Event)
      /\ DOMAIN conversations = {}
  BY DEF FileInit, Init
<1>2. \A event : Occurs(feed, event) = 0
  BY <1>1, OccursEmpty
<1> QED
  BY <1>1, <1>2, FS_EmptySet DEF FeedInv, AnswerMatchesFeed

\* A packet adds at most one conversation.
LEMMA OneConversation ==
  ASSUME NEW p, NEW ts, RecordNothing(p, ts) \/ Record(p, ts),
         IsFiniteSet(DOMAIN conversations), NEW n \in Nat,
         Cardinality(DOMAIN conversations) <= n
  PROVE  /\ IsFiniteSet(DOMAIN conversations)'
         /\ Cardinality(DOMAIN conversations)' <= n + 1
<1>1. CASE RecordNothing(p, ts)
  BY <1>1, FS_CardinalityType DEF RecordNothing
<1>2. CASE Record(p, ts)
  <2>1. PICK key : (DOMAIN conversations)' = DOMAIN conversations \cup {key}
    BY <1>2 DEF Record, Put
  <2>2. Cardinality(DOMAIN conversations) \in Nat
    BY FS_CardinalityType
  <2>3. /\ IsFiniteSet(DOMAIN conversations \cup {key})
        /\ \/ Cardinality(DOMAIN conversations \cup {key}) = Cardinality(DOMAIN conversations)
           \/ Cardinality(DOMAIN conversations \cup {key}) = Cardinality(DOMAIN conversations) + 1
    BY FS_AddElement
  <2>4. Cardinality(DOMAIN conversations \cup {key}) <= n + 1
    BY <2>2, <2>3
  <2> QED
    BY <2>1, <2>3, <2>4
<1> QED
  BY <1>1, <1>2

\* What the last event and the answer say.
LEMMA Concluded ==
  ASSUME FeedInv, phase \in {"closed", "reading"}, phase' \in {"answered", "failed"},
         NEW n \in Nat, Conclude(n), mode = "api", n = alerts + IF phase' = "failed" THEN 1 ELSE 0,
         UNCHANGED <<conversations, mode, packets>>
  PROVE  FeedInv'
<1>1. feed \in Seq(Event) /\ "stats" \in Event /\ alerts \in Nat /\ packets \in Nat
  BY DEF FeedInv, Event
<1>2. feed' = Append(feed, "stats") /\ feed' \in Seq(Event)
  BY <1>1 DEF Conclude
<1>3. feed' # <<>> /\ feed'[Len(feed')] = "stats"
  BY <1>1, <1>2
<1>4. /\ Occurs(feed', "packet") = Occurs(feed, "packet") + 0
      /\ Occurs(feed', "alert") = Occurs(feed, "alert") + 0
      /\ Occurs(feed', "stats") = Occurs(feed, "stats") + 1
  BY <1>1, <1>2, OccursNext
<1>5. Occurs(feed, "packet") = packets /\ Occurs(feed, "alert") = alerts /\ Occurs(feed, "stats") = 0
  BY DEF FeedInv
<1>6. /\ Occurs(feed', "packet") = packets /\ Occurs(feed', "alert") = alerts
      /\ Occurs(feed', "stats") = 1
  BY <1>1, <1>4, <1>5
<1>7. /\ alerts' = n /\ answer'.packets = packets /\ answer'.alerts = n
      /\ answer'.conversations = Cardinality(DOMAIN conversations)
  BY DEF Conclude
<1>8. /\ Sent("packet")' = packets /\ Sent("alert")' = alerts /\ Sent("stats")' = 1
  BY <1>6 DEF Sent, Occurs
<1>9. Cardinality(DOMAIN conversations) <= packets /\ IsFiniteSet(DOMAIN conversations)
  BY DEF FeedInv
<1>10. AnswerMatchesFeed'
  BY <1>3, <1>7, <1>8, <1>9 DEF AnswerMatchesFeed
<1> QED
  BY <1>1, <1>2, <1>6, <1>7, <1>9, <1>10 DEF FeedInv

LEMMA FeedInvStep == FeedInv /\ FramesInv /\ mode' = mode /\ [FileNext]_file_vars => FeedInv'
<1> SUFFICES ASSUME FeedInv, FramesInv, mode' = mode, [FileNext]_file_vars PROVE FeedInv'
  OBVIOUS
<1>1. ASSUME NEW f \in capture, NEW ts \in Times, NEW n \in 0 .. MaxAlerts, ReadPacket(f, ts, n)
      PROVE  FeedInv'
  <2>1. phase = "reading" /\ phase' = "reading" /\ n \in Nat
    BY <1>1, SnapAssumption DEF ReadPacket
  <2>2. packets' = packets + 1 /\ alerts' = alerts + n
    BY <1>1 DEF ReadPacket
  <2>3. IsFiniteSet(DOMAIN conversations)' /\ Cardinality(DOMAIN conversations)' <= packets + 1
    BY <1>1, OneConversation DEF ReadPacket, FeedInv
  <2>4. AnswerMatchesFeed'
    BY <2>1 DEF AnswerMatchesFeed
  <2>5. packets \in Nat /\ alerts \in Nat /\ feed \in Seq(Event)
    BY DEF FeedInv
  <2>6. CASE mode = "api"
    <3>1. feed' = AfterTurn(feed, n)
      BY <1>1, <2>6 DEF ReadPacket, AfterTurn
    <3>2. /\ feed' \in Seq(Event)
          /\ Occurs(feed', "packet") = Occurs(feed, "packet") + 1
          /\ Occurs(feed', "alert") = Occurs(feed, "alert") + n
          /\ Occurs(feed', "stats") = Occurs(feed, "stats")
      BY <2>1, <2>5, <3>1, TurnSent
    <3>3. Occurs(feed, "packet") = packets /\ Occurs(feed, "alert") = alerts /\ Occurs(feed, "stats") = 0
      BY <2>1, <2>6 DEF FeedInv
    <3>4. /\ Occurs(feed', "packet") = packets' /\ Occurs(feed', "alert") = alerts'
          /\ Occurs(feed', "stats") = 0
      BY <2>2, <3>2, <3>3
    <3> QED
      BY <2>1, <2>2, <2>3, <2>4, <2>5, <3>2, <3>4 DEF FeedInv
  <2>7. CASE mode # "api"
    <3>1. feed' = feed
      BY <1>1, <2>7 DEF ReadPacket
    <3> QED
      BY <2>1, <2>2, <2>3, <2>4, <2>5, <2>7, <3>1 DEF FeedInv
  <2> QED
    BY <2>6, <2>7
<1>2. CASE Open
  <2>1. UNCHANGED <<conversations, mode, packets, alerts, feed, answer>> /\ phase' = "reading"
        /\ phase = "closed"
    BY <1>2 DEF Open, vars, tallies
  <2> QED
    BY <2>1 DEF FeedInv, AnswerMatchesFeed
<1>3. CASE mode = "api" /\ (OpenFails \/ Leave)
  <2>1. UNCHANGED <<conversations, mode, packets>>
    BY <1>3 DEF OpenFails, Leave, vars
  <2>2. CASE OpenFails
    BY <1>3, <2>1, <2>2, Concluded DEF OpenFails, FeedInv
  <2>3. CASE Leave
    BY <1>3, <2>1, <2>3, Concluded DEF Leave, FeedInv
  <2> QED
    BY <1>3, <2>2, <2>3
<1>4. CASE mode # "api" /\ (OpenFails \/ Leave)
  <2>1. UNCHANGED <<conversations, mode, packets, alerts, feed>> /\ phase' \in {"answered", "failed"}
    BY <1>4 DEF OpenFails, Leave, vars, Conclude
  <2> QED
    BY <1>4, <2>1 DEF FeedInv
<1>5. CASE UNCHANGED file_vars
  <2>1. UNCHANGED <<conversations, mode, packets, alerts, feed, answer, phase>>
    BY <1>5 DEF file_vars, vars, tallies
  <2> QED
    BY <2>1 DEF FeedInv, AnswerMatchesFeed, Sent
<1> QED
  BY <1>1, <1>2, <1>3, <1>4, <1>5 DEF FileNext, ReadEnd, LiveEnd

\* Whoever watches an analysis sees what its answer says, with the totals last.
THEOREM FeedMatchesAnswer == FileSpec => []AnswerMatchesFeed
<1>1. [FileNext]_file_vars => mode' = mode
  BY DEF FileNext, Open, OpenFails, ReadPacket, ReadEnd, LiveEnd, Leave, file_vars
<1>2. FeedInv /\ FramesInv => AnswerMatchesFeed
  BY DEF FeedInv, AnswerMatchesFeed
<1> QED
  BY <1>1, <1>2, FeedInvInit, FeedInvStep, FramesAreFrames, PTL DEF FileSpec

-----------------------------------------------------------------------------
(***************************************************************************)
(* The tallies of protocols and the tables                                 *)
(***************************************************************************)
One(p) == IF p THEN 1 ELSE 0

\* How many of three layers have a name.
HitsOf(q, name) == Cardinality({i \in 1 .. 3 : q[i] = name})

LEMMA Hits ==
  ASSUME NEW q, NEW name
  PROVE  HitsOf(q, name) = One(q[1] = name) + One(q[2] = name) + One(q[3] = name)
<1> DEFINE S(n) == {i \in 1 .. n : q[i] = name}
<1>2. IsFiniteSet(S(0)) /\ Cardinality(S(0)) = 0
  <2>1. S(0) = {}
    OBVIOUS
  <2> QED
    BY <2>1, FS_EmptySet
<1>3. ASSUME NEW n \in 0 .. 2, IsFiniteSet(S(n)), Cardinality(S(n)) \in Nat
      PROVE  /\ IsFiniteSet(S(n + 1)) /\ Cardinality(S(n + 1)) \in Nat
             /\ Cardinality(S(n + 1)) = Cardinality(S(n)) + One(q[n + 1] = name)
  <2>1. CASE q[n + 1] = name
    <3>1. S(n + 1) = S(n) \cup {n + 1} /\ n + 1 \notin S(n)
      BY <2>1
    <3>2. IsFiniteSet(S(n + 1)) /\ Cardinality(S(n + 1)) = Cardinality(S(n)) + 1
      <4> HIDE DEF S
      <4> QED
        BY <1>3, <3>1, FS_AddElement
    <3>3. One(q[n + 1] = name) = 1
      BY <2>1 DEF One
    <3> HIDE DEF S
    <3> QED
      BY <1>3, <3>2, <3>3
  <2>2. CASE q[n + 1] # name
    <3>1. S(n + 1) = S(n)
      BY <2>2
    <3>2. One(q[n + 1] = name) = 0
      BY <2>2 DEF One
    <3> HIDE DEF S
    <3> QED
      BY <1>3, <3>1, <3>2
  <2> QED
    BY <2>1, <2>2
<1> HIDE DEF S
<1>4. /\ IsFiniteSet(S(1)) /\ Cardinality(S(1)) \in Nat
      /\ Cardinality(S(1)) = One(q[1] = name)
  <2>1. /\ IsFiniteSet(S(0 + 1)) /\ Cardinality(S(0 + 1)) \in Nat
        /\ Cardinality(S(0 + 1)) = Cardinality(S(0)) + One(q[0 + 1] = name)
    BY <1>2, <1>3
  <2> QED
    BY <1>2, <2>1 DEF One
<1>5. /\ IsFiniteSet(S(2)) /\ Cardinality(S(2)) \in Nat
      /\ Cardinality(S(2)) = Cardinality(S(1)) + One(q[2] = name)
  <2>1. /\ IsFiniteSet(S(1 + 1)) /\ Cardinality(S(1 + 1)) \in Nat
        /\ Cardinality(S(1 + 1)) = Cardinality(S(1)) + One(q[1 + 1] = name)
    BY <1>3, <1>4
  <2> QED
    BY <2>1
<1>6. Cardinality(S(3)) = Cardinality(S(2)) + One(q[3] = name)
  <2>1. Cardinality(S(2 + 1)) = Cardinality(S(2)) + One(q[2 + 1] = name)
    BY <1>3, <1>5
  <2> QED
    BY <2>1
<1>7. Cardinality(S(3)) = One(q[1] = name) + One(q[2] = name) + One(q[3] = name)
  BY <1>4, <1>5, <1>6
<1> QED
  BY <1>7 DEF S, HitsOf

\* The layers a frame is counted under.
Layer3(f) == Decode(f.wire).l3
Layer4(f) == Decode(f.wire).l4
Layer7(f) == Layers(f)[3]

LEMMA LayersOf ==
  ASSUME NEW f \in Frames
  PROVE  /\ Layers(f) = <<Layer3(f), Layer4(f), Layer7(f)>>
         /\ Layer3(f) \in {"none", "arp", "ipv4", "ipv6", "other"}
         /\ Layer4(f) \in {"none", "tcp", "udp", "icmp", "other"}
         /\ Layer4(f) # "none" => Layer3(f) \in {"ipv4", "ipv6"}
         /\ Layer7(f) \in {"none", "dns", "http", "icmp"}
         /\ Layer7(f) = "icmp" <=> Layer4(f) = "icmp"
         /\ Layer7(f) \in {"dns", "http"} => Layer4(f) \in {"tcp", "udp"}
<1>1. f \in FrameFields /\ f.wire \in Frame /\ f.app.is \in {"dns", "http", "none"}
  BY FramesAssumption DEF FrameFields
<1>2. PICK w \in Frame : w = f.wire
  BY <1>1
<1>3. PICK d : d = Decode(w)
  OBVIOUS
<1>4. /\ d.l3 \in {"none", "arp", "ipv4", "ipv6", "other"}
      /\ d.l4 \in {"none", "tcp", "udp", "icmp", "other"}
      /\ d.l4 # "none" => d.l3 \in {"ipv4", "ipv6"}
  <2>1. ASSUME NEW l3, NEW from, NEW to
        PROVE  /\ Transport(w, l3, from, to).l3 = l3
               /\ Transport(w, l3, from, to).l4 \in {"none", "tcp", "udp", "icmp", "other"}
    BY DEF Transport, Decoded, Refused, NoHeader
  <2>2. \/ d = Decoded("none", "none", 0, w.n)
        \/ d = Transport(w, "ipv4", 14 + w.ihl, Ipv4End(w))
        \/ d = Transport(w, "ipv6", 54, w.n)
        \/ d = NoHeader("none") \/ d = NoHeader("arp")
        \/ d = Decoded("other", "none", 14, w.n)
    <3>1. w.n \in Nat /\ w.ethertype \in {"ipv4", "ipv6", "arp", "other"}
      BY DEF Frame
    <3> QED
      BY <1>3, <3>1, DecodeCases
  <2> QED
    BY <2>1, <2>2, Fields
<1>5. Layers(f) = <<d.l3, d.l4, Layer7(f)>> /\ Layer3(f) = d.l3 /\ Layer4(f) = d.l4
  BY <1>2, <1>3 DEF Layers, Layer3, Layer4, Layer7
<1>6. PICK s, t, n : Layer7(f) = Dissected(d.l4, s, t, f.app, n)
  BY <1>2, <1>3 DEF Layers, Layer7
<1>7. \/ d.l4 = "icmp" /\ Layer7(f) = "icmp"
      \/ d.l4 \in {"tcp", "udp"} /\ Layer7(f) = f.app.is
      \/ d.l4 # "icmp" /\ Layer7(f) = "none"
  BY <1>6 DEF Dissected
<1> QED
  BY <1>1, <1>4, <1>5, <1>7

\* A turn's tallies.
LEMMA TurnTallied ==
  ASSUME NEW f \in Frames, protocols \in [ProtocolNames -> Nat]
  PROVE  \A name \in ProtocolNames :
           /\ protocols[name] \in Nat
           /\ Tallied(f)[name] = protocols[name] + One(Layer3(f) = name) + One(Layer4(f) = name)
                                   + One(Layer7(f) = name)
           /\ Tallied(f)[name] \in Nat
<1> SUFFICES ASSUME NEW name \in ProtocolNames
             PROVE  /\ protocols[name] \in Nat
                    /\ Tallied(f)[name] = protocols[name] + One(Layer3(f) = name)
                                            + One(Layer4(f) = name) + One(Layer7(f) = name)
                    /\ Tallied(f)[name] \in Nat
  OBVIOUS
<1>1. Layers(f) = <<Layer3(f), Layer4(f), Layer7(f)>>
  BY LayersOf
<1>2. Cardinality({i \in 1 .. 3 : Layers(f)[i] = name}) =
        One(Layer3(f) = name) + One(Layer4(f) = name) + One(Layer7(f) = name)
  <2>1. PICK q : q = Layers(f)
    OBVIOUS
  <2>2. q[1] = Layer3(f) /\ q[2] = Layer4(f) /\ q[3] = Layer7(f)
    BY <1>1, <2>1
  <2>3. HitsOf(q, name) = One(Layer3(f) = name) + One(Layer4(f) = name) + One(Layer7(f) = name)
    BY <2>2, Hits, Zenon
  <2> QED
    BY <2>1, <2>3, Zenon DEF HitsOf
<1>3. Tallied(f)[name] = protocols[name] + Cardinality({i \in 1 .. 3 : Layers(f)[i] = name})
  BY DEF Tallied
<1>4. PICK x \in Nat : x = protocols[name]
  OBVIOUS
<1>5. PICK a \in {0, 1}, b \in {0, 1}, c \in {0, 1} :
        a = One(Layer3(f) = name) /\ b = One(Layer4(f) = name) /\ c = One(Layer7(f) = name)
  BY DEF One
<1> QED
  BY <1>2, <1>3, <1>4, <1>5

\* The tallies of packets and bytes are numbers, those of protocols agree with
\* the tables.
TallyInv ==
  /\ protocols \in [ProtocolNames -> Nat] /\ packets \in Nat
  /\ IsFiniteSet(DOMAIN conversations) /\ IsFiniteSet(DOMAIN tcp_streams)
  /\ \A k \in DOMAIN conversations : conversations[k].packets \in Nat
  /\ TalliesMatchTables

PacketsOf(c) == [k \in DOMAIN c |-> c[k].packets]
PushedTo(t) == [k \in DOMAIN t |-> Len(t[k].ab) + Len(t[k].ba)]

\* record counts a packet in its conversation.
LEMMA ConversationCounts ==
  ASSUME NEW p, NEW ts, Record(p, ts), TallyInv
  PROVE  /\ IsFiniteSet(DOMAIN conversations)'
         /\ \A k \in DOMAIN conversations' : conversations'[k].packets \in Nat
         /\ SumFunction(PacketsOf(conversations')) = SumFunction(PacketsOf(conversations)) + 1
<1> DEFINE stats(k) == EntryOr(conversations, k, Default)
<1>1. PICK key : key = Canonical(TupleOf(p))
  OBVIOUS
<1>2. PICK c, d : c = conversations /\ d = conversations'
  OBVIOUS
<1>3. /\ DOMAIN d = DOMAIN c \cup {key}
      /\ d[key] = Counted(stats(key), p, ts)
      /\ \A k \in DOMAIN c : k # key => d[k] = c[k]
  BY <1>1, <1>2 DEF Record, Put
<1>4. d[key].packets = stats(key).packets + 1
  BY <1>3 DEF Counted
<1>5. \A k \in DOMAIN c : c[k].packets \in Nat
  BY <1>2 DEF TallyInv
<1>6. stats(key).packets = IF key \in DOMAIN c THEN c[key].packets ELSE 0
  BY <1>2 DEF EntryOr, Default
<1>7. \A k \in DOMAIN d : d[k].packets \in Nat
  BY <1>3, <1>4, <1>5, <1>6
<1>8. Raised(DOMAIN c, DOMAIN d, key, 1, PacketsOf(c), PacketsOf(d))
  <2>1. PacketsOf(c) \in [DOMAIN c -> Nat] /\ PacketsOf(d) \in [DOMAIN d -> Nat]
    BY <1>5, <1>7 DEF PacketsOf
  <2>2. \A k \in DOMAIN c : k # key => PacketsOf(d)[k] = PacketsOf(c)[k]
    BY <1>3 DEF PacketsOf
  <2>3. PacketsOf(d)[key] = 1 + IF key \in DOMAIN c THEN PacketsOf(c)[key] ELSE 0
    BY <1>3, <1>4, <1>5, <1>6 DEF PacketsOf
  <2> QED
    BY <1>3, <2>1, <2>2, <2>3 DEF Raised
<1>9. IsFiniteSet(DOMAIN c)
  BY <1>2 DEF TallyInv
<1>10. IsFiniteSet(DOMAIN d)
  BY <1>3, <1>9, FS_AddElement
<1>11. SumFunction(PacketsOf(d)) = SumFunction(PacketsOf(c)) + 1
  BY <1>8, <1>9, SumRaised
<1> QED
  BY <1>2, <1>7, <1>10, <1>11

Directions(s, ab, ba) == s = [ab |-> ab, ba |-> ba]

\* push lengthens one of a stream's two directions.
LEMMA PushedOne ==
  ASSUME NEW ab \in Seq(Endpoint), NEW ba \in Seq(Endpoint), NEW sender \in Endpoint, NEW forward,
         NEW s, Directions(s, ab, ba)
  PROVE  \E x, y \in Seq(Endpoint) :
           /\ Pushed(s, forward, sender) = [ab |-> x, ba |-> y]
           /\ Len(x) + Len(y) = (Len(ab) + Len(ba)) + 1
<1>1. Append(ab, sender) \in Seq(Endpoint) /\ Append(ba, sender) \in Seq(Endpoint)
  OBVIOUS
<1>2. PICK x \in Seq(Endpoint), y \in Seq(Endpoint) : x = Append(ab, sender) /\ y = Append(ba, sender)
  BY <1>1, Zenon
<1>3. Len(x) = Len(ab) + 1 /\ Len(y) = Len(ba) + 1
  BY <1>2
<1>4. CASE forward
  <2>1. Pushed(s, forward, sender) = [ab |-> x, ba |-> ba]
    BY <1>2, <1>4 DEF Pushed, Directions
  <2>2. Len(x) + Len(ba) = (Len(ab) + Len(ba)) + 1
    BY <1>3
  <2> QED
    BY <2>1, <2>2
<1>5. CASE ~ forward
  <2>1. Pushed(s, forward, sender) = [ab |-> ab, ba |-> y]
    BY <1>2, <1>5 DEF Pushed, Directions
  <2>2. Len(ab) + Len(y) = (Len(ab) + Len(ba)) + 1
    BY <1>3
  <2> QED
    BY <2>1, <2>2
<1> QED
  BY <1>4, <1>5

\* record pushes a TCP packet to one stream of its conversation.
LEMMA StreamCounts ==
  ASSUME NEW p \in Packets, NEW ts, Record(p, ts), TallyInv, FlowInv
  PROVE  /\ IsFiniteSet(DOMAIN tcp_streams)'
         /\ SumFunction(PushedTo(tcp_streams')) = SumFunction(PushedTo(tcp_streams)) + One(p.l4 = "tcp")
<1> DEFINE empty == [ab |-> <<>>, ba |-> <<>>]
           old(k) == EntryOr(tcp_streams, k, empty)
<1>1. PICK key, forward, sender :
        /\ key = Canonical(TupleOf(p)) /\ forward = Forward(TupleOf(p), key)
        /\ sender = TupleOf(p).src
  OBVIOUS
<1>2. PICK c, d : c = tcp_streams /\ d = tcp_streams'
  OBVIOUS
<1>3. IsFiniteSet(DOMAIN c)
  BY <1>2 DEF TallyInv
<1>4. \A k \in DOMAIN c : /\ c[k] = [ab |-> c[k].ab, ba |-> c[k].ba]
                          /\ c[k].ab \in Seq(Endpoint) /\ c[k].ba \in Seq(Endpoint)
  BY <1>2 DEF FlowInv, KeysCanonical
<1>5. PushedTo(c) \in [DOMAIN c -> Nat]
  <2>1. ASSUME NEW k \in DOMAIN c PROVE Len(c[k].ab) + Len(c[k].ba) \in Nat
    <3>1. PICK x \in Seq(Endpoint), y \in Seq(Endpoint) : x = c[k].ab /\ y = c[k].ba
      BY <1>4
    <3>2. Len(x) + Len(y) \in Nat
      OBVIOUS
    <3> QED
      BY <3>1, <3>2, Zenon
  <2> QED
    BY <2>1 DEF PushedTo
<1>6. CASE p.l4 # "tcp"
  <2>1. d = c
    BY <1>2, <1>6 DEF Record
  <2>2. SumFunction(PushedTo(c)) \in Nat
    BY <1>3, <1>5, SumType
  <2> QED
    BY <1>2, <1>3, <1>6, <2>1, <2>2 DEF One
<1>7. CASE p.l4 = "tcp"
  <2>1. /\ DOMAIN d = DOMAIN c \cup {key}
        /\ d[key] = Pushed(old(key), forward, sender)
        /\ \A k \in DOMAIN c : k # key => d[k] = c[k]
    BY <1>1, <1>2, <1>7 DEF Record, Put
  <2>2. sender \in Endpoint
    <3>1. HasTuple(p)
      BY DEF Record
    <3>2. TupleOf(p) \in FiveTuple
      BY <3>1, TupleType
    <3> QED
      BY <1>1, <3>2 DEF FiveTuple
  <2>3. PICK ab \in Seq(Endpoint), ba \in Seq(Endpoint) :
          /\ old(key) = [ab |-> ab, ba |-> ba]
          /\ Len(ab) + Len(ba) = IF key \in DOMAIN c THEN PushedTo(c)[key] ELSE 0
    <3>1. CASE key \in DOMAIN c
      <4>1. PICK ab \in Seq(Endpoint), ba \in Seq(Endpoint) : ab = c[key].ab /\ ba = c[key].ba
        BY <1>4, <3>1
      <4>2. old(key) = [ab |-> ab, ba |-> ba]
        BY <1>2, <1>4, <3>1, <4>1 DEF EntryOr
      <4>3. PushedTo(c)[key] = Len(ab) + Len(ba)
        BY <3>1, <4>1 DEF PushedTo
      <4> QED
        BY <3>1, <4>2, <4>3
    <3>2. CASE key \notin DOMAIN c
      <4>1. old(key) = empty
        BY <1>2, <3>2 DEF EntryOr
      <4>2. PICK x \in Seq(Endpoint) : x = <<>>
        <5>1. <<>> \in Seq(Endpoint)
          OBVIOUS
        <5> QED
          BY <5>1, Zenon
      <4>3. Len(x) + Len(x) = 0
        BY <4>2
      <4>4. old(key) = [ab |-> x, ba |-> x]
        BY <4>1, <4>2
      <4> QED
        BY <3>2, <4>3, <4>4
    <3> QED
      BY <3>1, <3>2
  <2>4. PushedTo(d)[key] = 1 + IF key \in DOMAIN c THEN PushedTo(c)[key] ELSE 0
    <3>1. PushedTo(d)[key] = Len(d[key].ab) + Len(d[key].ba)
      BY <2>1 DEF PushedTo
    <3>2. Len(d[key].ab) + Len(d[key].ba) = (Len(ab) + Len(ba)) + 1
      <4>1. PICK s : s = old(key) /\ Directions(s, ab, ba)
        BY <2>3 DEF Directions
      <4>2. PICK x, y \in Seq(Endpoint) :
              /\ Pushed(s, forward, sender) = [ab |-> x, ba |-> y]
              /\ Len(x) + Len(y) = (Len(ab) + Len(ba)) + 1
        <5>1. ab \in Seq(Endpoint) /\ ba \in Seq(Endpoint)
          BY <2>3
        <5>2. Directions(s, ab, ba)
          BY <4>1
        <5> QED
          BY <2>2, <5>1, <5>2, PushedOne
      <4>3. d[key].ab = x /\ d[key].ba = y
        BY <2>1, <4>1, <4>2
      <4> QED
        BY <4>2, <4>3, Zenon
    <3>3. PICK l \in Nat : l = Len(ab) + Len(ba)
      <4>1. PICK a \in Nat, b \in Nat : a = Len(ab) /\ b = Len(ba)
        OBVIOUS
      <4> QED
        BY <4>1
    <3>4. PushedTo(d)[key] = l + 1 /\ l = IF key \in DOMAIN c THEN PushedTo(c)[key] ELSE 0
      BY <2>3, <3>1, <3>2, <3>3, Zenon
    <3> QED
      BY <3>3, <3>4
  <2>5. \A k \in DOMAIN c : k # key => PushedTo(d)[k] = PushedTo(c)[k]
    BY <2>1 DEF PushedTo
  <2>6. PushedTo(d) \in [DOMAIN d -> Nat]
    <3>1. PushedTo(d)[key] \in Nat
      BY <1>5, <2>4
    <3>2. \A k \in DOMAIN d : PushedTo(d)[k] \in Nat
      BY <1>5, <2>1, <2>5, <3>1
    <3> QED
      BY <3>2 DEF PushedTo
  <2>7. Raised(DOMAIN c, DOMAIN d, key, 1, PushedTo(c), PushedTo(d))
    BY <1>5, <2>1, <2>4, <2>5, <2>6 DEF Raised
  <2>8. SumFunction(PushedTo(d)) = SumFunction(PushedTo(c)) + 1
    BY <1>3, <2>7, SumRaised
  <2>9. IsFiniteSet(DOMAIN d)
    BY <1>3, <2>1, FS_AddElement
  <2> QED
    BY <1>2, <1>7, <2>8, <2>9 DEF One
<1> QED
  BY <1>6, <1>7

\* What a turn of the loop does to the protocols of a frame whose layers are
\* known.
LEMMA TurnKeepsTallies ==
  ASSUME NEW f \in Frames, TallyInv, NEW n \in {0, 1}, NEW m \in {0, 1},
         n = One(Layer3(f) \in {"ipv4", "ipv6"}), m = One(Layer4(f) = "tcp"),
         protocols' = Tallied(f), packets' = packets + 1,
         SumFunction(PacketsOf(conversations')) = SumFunction(PacketsOf(conversations)) + n,
         SumFunction(PushedTo(tcp_streams')) = SumFunction(PushedTo(tcp_streams)) + m
  PROVE  protocols' \in [ProtocolNames -> Nat] /\ packets' \in Nat /\ TalliesMatchTables'
<1>1. protocols \in [ProtocolNames -> Nat] /\ packets \in Nat /\ TalliesMatchTables
  BY DEF TallyInv
<1>2. PICK p, q : p = protocols /\ q = protocols'
  OBVIOUS
<1>3. \A name \in ProtocolNames :
        /\ p[name] \in Nat /\ q[name] \in Nat
        /\ q[name] = p[name] + One(Layer3(f) = name) + One(Layer4(f) = name) + One(Layer7(f) = name)
  BY <1>1, <1>2, TurnTallied
<1>4. q \in [ProtocolNames -> Nat]
  <2>1. q = [name \in ProtocolNames |-> q[name]]
    BY <1>2 DEF Tallied
  <2> QED
    BY <1>3, <2>1
<1>5. /\ Layer3(f) \in {"none", "arp", "ipv4", "ipv6", "other"}
      /\ Layer4(f) \in {"none", "tcp", "udp", "icmp", "other"}
      /\ Layer4(f) # "none" => Layer3(f) \in {"ipv4", "ipv6"}
      /\ Layer7(f) \in {"none", "dns", "http", "icmp"}
      /\ Layer7(f) = "icmp" <=> Layer4(f) = "icmp"
      /\ Layer7(f) \in {"dns", "http"} => Layer4(f) \in {"tcp", "udp"}
  BY LayersOf
<1>6. /\ q["ipv4"] = p["ipv4"] + One(Layer3(f) = "ipv4") /\ q["ipv6"] = p["ipv6"] + One(Layer3(f) = "ipv6")
      /\ q["arp"] = p["arp"] + One(Layer3(f) = "arp")
  BY <1>3, <1>5 DEF One, ProtocolNames
<1>7. /\ q["tcp"] = p["tcp"] + One(Layer4(f) = "tcp") /\ q["udp"] = p["udp"] + One(Layer4(f) = "udp")
      /\ q["icmp"] = p["icmp"] + 2 * One(Layer4(f) = "icmp")
  BY <1>3, <1>5 DEF One, ProtocolNames
<1>8. q["dns"] = p["dns"] + One(Layer7(f) = "dns") /\ q["http"] = p["http"] + One(Layer7(f) = "http")
  BY <1>3, <1>5 DEF One, ProtocolNames
<1>9. /\ p["ipv4"] + p["ipv6"] = SumFunction(PacketsOf(conversations))
      /\ p["tcp"] = SumFunction(PushedTo(tcp_streams))
      /\ p["dns"] + p["http"] <= p["tcp"] + p["udp"]
      /\ 2 * (p["tcp"] + p["udp"]) + p["icmp"] <= 2 * packets
      /\ p["ipv4"] + p["ipv6"] + p["arp"] <= packets
  BY <1>1, <1>2, Zenon DEF TalliesMatchTables, PacketsOf, PushedTo
<1>10. PICK ip4 \in Nat, ip6 \in Nat, arp \in Nat, tcp \in Nat, udp \in Nat, icmp \in Nat,
            dns \in Nat, http \in Nat, all \in Nat :
         /\ ip4 = p["ipv4"] /\ ip6 = p["ipv6"] /\ arp = p["arp"] /\ tcp = p["tcp"]
         /\ udp = p["udp"] /\ icmp = p["icmp"] /\ dns = p["dns"] /\ http = p["http"]
         /\ all = packets
  BY <1>1, <1>3 DEF ProtocolNames
<1>11. /\ q["ipv4"] + q["ipv6"] = (ip4 + ip6) + n
       /\ q["ipv4"] + q["ipv6"] + q["arp"] <= all + 1
  BY <1>5, <1>6, <1>9, <1>10 DEF One
<1>12. /\ q["tcp"] = tcp + m
       /\ q["dns"] + q["http"] <= q["tcp"] + q["udp"]
  BY <1>5, <1>7, <1>8, <1>9, <1>10 DEF One
<1>13. 2 * (q["tcp"] + q["udp"]) + q["icmp"] <= 2 * (all + 1)
  BY <1>5, <1>7, <1>9, <1>10 DEF One
<1>14. packets' = all + 1
  BY <1>10
<1>15. /\ q["ipv4"] + q["ipv6"] = SumFunction(PacketsOf(conversations'))
       /\ q["tcp"] = SumFunction(PushedTo(tcp_streams'))
  BY <1>9, <1>10, <1>11, <1>12
<1>16. TalliesMatchTables'
  BY <1>2, <1>11, <1>12, <1>13, <1>14, <1>15, Zenon DEF TalliesMatchTables, PacketsOf, PushedTo
<1> QED
  BY <1>2, <1>4, <1>14, <1>16

LEMMA TallyInvInit == FileInit => TallyInv
<1> SUFFICES ASSUME FileInit PROVE TallyInv
  OBVIOUS
<1>1. /\ DOMAIN conversations = {} /\ DOMAIN tcp_streams = {} /\ packets = 0
      /\ protocols = [name \in ProtocolNames |-> 0]
  BY DEF FileInit, Init
<1>2. SumFunction(PacketsOf(conversations)) = 0
  <2>1. PacketsOf(conversations) \in [{} -> Nat]
    BY <1>1 DEF PacketsOf
  <2> QED
    BY <2>1, SumOfNone
<1>3. SumFunction(PushedTo(tcp_streams)) = 0
  <2>1. PushedTo(tcp_streams) \in [{} -> Nat]
    BY <1>1 DEF PushedTo
  <2> QED
    BY <2>1, SumOfNone
<1>4. \A name \in ProtocolNames : protocols[name] = 0
  BY <1>1
<1>5. /\ protocols["ipv4"] + protocols["ipv6"] = 0 /\ protocols["tcp"] = 0
      /\ protocols["dns"] + protocols["http"] <= protocols["tcp"] + protocols["udp"]
      /\ 2 * (protocols["tcp"] + protocols["udp"]) + protocols["icmp"] <= 2 * packets
      /\ protocols["ipv4"] + protocols["ipv6"] + protocols["arp"] <= packets
  BY <1>1, <1>4 DEF ProtocolNames
<1>6. TalliesMatchTables
  BY <1>2, <1>3, <1>5, Zenon DEF TalliesMatchTables, PacketsOf, PushedTo
<1> QED
  BY <1>1, <1>6, FS_EmptySet DEF TallyInv

LEMMA TallyInvStep == TallyInv /\ FlowInv /\ FramesInv /\ [FileNext]_file_vars => TallyInv'
<1> SUFFICES ASSUME TallyInv, FlowInv, FramesInv, [FileNext]_file_vars PROVE TallyInv'
  OBVIOUS
<1>1. ASSUME NEW f \in capture, NEW ts \in Times, NEW n \in 0 .. MaxAlerts, ReadPacket(f, ts, n)
      PROVE  TallyInv'
  <2>1. f \in Frames /\ ToTracker(f) \in Packets
    BY TrackerAssumption DEF FramesInv
  <2>2. protocols' = Tallied(f) /\ packets' = packets + 1
    BY <1>1 DEF ReadPacket
  <2>3. HasTuple(ToTracker(f)) <=> Layer3(f) \in {"ipv4", "ipv6"}
    BY DEF HasTuple, ToTracker, Layer3
  <2>4. ToTracker(f).l4 = "tcp" <=> Layer4(f) = "tcp"
    BY DEF ToTracker, Layer4
  <2>5. PICK a \in {0, 1}, b \in {0, 1} :
          a = One(Layer3(f) \in {"ipv4", "ipv6"}) /\ b = One(Layer4(f) = "tcp")
    BY DEF One
  <2>6. PICK p \in Packets : p = ToTracker(f)
    BY <2>1
  <2>7. /\ (IsFiniteSet(DOMAIN conversations) /\ IsFiniteSet(DOMAIN tcp_streams))'
        /\ \A k \in DOMAIN conversations' : conversations'[k].packets \in Nat
        /\ SumFunction(PacketsOf(conversations')) = SumFunction(PacketsOf(conversations)) + a
        /\ SumFunction(PushedTo(tcp_streams')) = SumFunction(PushedTo(tcp_streams)) + b
    <3>1. CASE RecordNothing(p, ts)
      <4>1. UNCHANGED <<conversations, tcp_streams>> /\ ~ HasTuple(p)
        BY <3>1 DEF RecordNothing
      <4>2. a = 0
        BY <2>3, <2>5, <2>6, <4>1 DEF One
      <4>3. b = 0
        <5>1. Layer4(f) = "none"
          BY <2>1, <2>3, <2>6, <4>1, LayersOf
        <5> QED
          BY <2>5, <5>1 DEF One
      <4>4. SumFunction(PacketsOf(conversations)) \in Int /\ SumFunction(PushedTo(tcp_streams)) \in Int
        <5>1. /\ protocols["ipv4"] \in Nat /\ protocols["ipv6"] \in Nat /\ protocols["tcp"] \in Nat
          BY DEF TallyInv, ProtocolNames
        <5>2. /\ SumFunction(PacketsOf(conversations)) = protocols["ipv4"] + protocols["ipv6"]
              /\ SumFunction(PushedTo(tcp_streams)) = protocols["tcp"]
          BY Zenon DEF TallyInv, TalliesMatchTables, PacketsOf, PushedTo
        <5> QED
          BY <5>1, <5>2
      <4>5. /\ SumFunction(PacketsOf(conversations')) = SumFunction(PacketsOf(conversations))
            /\ SumFunction(PushedTo(tcp_streams')) = SumFunction(PushedTo(tcp_streams))
        BY <4>1, Zenon
      <4>6. /\ SumFunction(PacketsOf(conversations')) = SumFunction(PacketsOf(conversations)) + a
            /\ SumFunction(PushedTo(tcp_streams')) = SumFunction(PushedTo(tcp_streams)) + b
        BY <4>2, <4>3, <4>4, <4>5
      <4> QED
        BY <4>1, <4>6 DEF TallyInv
    <3>2. CASE Record(p, ts)
      <4>1. HasTuple(p)
        BY <3>2 DEF Record
      <4>2. a = 1
        BY <2>3, <2>5, <2>6, <4>1 DEF One
      <4>3. b = One(p.l4 = "tcp")
        BY <2>4, <2>5, <2>6 DEF One
      <4>4. /\ IsFiniteSet(DOMAIN conversations)'
            /\ \A k \in DOMAIN conversations' : conversations'[k].packets \in Nat
            /\ SumFunction(PacketsOf(conversations')) = SumFunction(PacketsOf(conversations)) + 1
        BY <3>2, ConversationCounts
      <4>5. /\ IsFiniteSet(DOMAIN tcp_streams)'
            /\ SumFunction(PushedTo(tcp_streams'))
                 = SumFunction(PushedTo(tcp_streams)) + One(p.l4 = "tcp")
        BY <3>2, StreamCounts
      <4> QED
        BY <4>2, <4>3, <4>4, <4>5
    <3> QED
      BY <1>1, <2>6, <3>1, <3>2 DEF ReadPacket
  <2>8. protocols' \in [ProtocolNames -> Nat] /\ packets' \in Nat /\ TalliesMatchTables'
    BY <2>1, <2>2, <2>5, <2>7, TurnKeepsTallies
  <2> QED
    BY <2>7, <2>8 DEF TallyInv
<1>2. CASE UNCHANGED <<conversations, tcp_streams, protocols, packets>>
  BY <1>2 DEF TallyInv, TalliesMatchTables
<1>3. Open \/ OpenFails \/ Leave \/ UNCHANGED file_vars
        => UNCHANGED <<conversations, tcp_streams, protocols, packets>>
  BY DEF Open, OpenFails, Leave, file_vars, vars, tallies
<1> QED
  BY <1>1, <1>2, <1>3 DEF FileNext, ReadEnd, LiveEnd

\* In every pass over every capture the counters of protocols and the tables of
\* conversations and streams agree.
THEOREM TalliesAgree == FileSpec => []TalliesMatchTables
<1>1. TallyInv => TalliesMatchTables
  BY DEF TallyInv
<1>2. FileSpec => []FlowInv
  BY PassIsTracked, FlowInvariant, PTL
<1> QED
  BY <1>1, <1>2, TallyInvInit, TallyInvStep, FramesAreFrames, PTL DEF FileSpec

\* In every pass over every capture a bucket's counters are those of its packets.
THEOREM PassKeepsTotals == FileSpec => []ConversationTotals
BY PassIsTracked, TotalsAddUp, PTL
=============================================================================
