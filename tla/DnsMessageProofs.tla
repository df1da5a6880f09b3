-------------------------- MODULE DnsMessageProofs --------------------------
(***************************************************************************)
(* Proofs about the DNS parser for messages of any length, any limit of    *)
(* jumps and any counts in the header.                                     *)
(***************************************************************************)
EXTENDS DnsMessage, FiniteSetTheorems, WellFoundedInduction, TLAPS

Offsets == Seq(Nat)

Locals == [curr_pos : Nat, jumped : BOOLEAN, jumps : Nat, labels : Offsets, own : BOOLEAN]

Parsing == [kind : {"question", "record"}, from : Nat, to : Nat,
            name : Offsets, shown : Offsets \cup {None}]

TypeInv ==
  /\ data \in Seq(Bytes)
  /\ want \in Seq({"question", "record"})
  /\ pos \in Nat
  /\ stage \in {"item", "name", "fields", "rdata"}
  /\ name \in Locals \cup {None}
  /\ items \in Seq(Parsing)
  /\ result \in {"parsing", "ok", "error"}

\* The items lie side by side, and all but the last are known not to be empty.
Chained(its) ==
  \A i \in 1 .. Len(its) :
    /\ its[i].from = IF i = 1 THEN HeaderLen ELSE its[i - 1].to
    /\ i < Len(its) => its[i].from < its[i].to

\* The cursor and the item that is being parsed, stage by stage: an item's name
\* has moved the cursor by the time it ends, whatever it points at.
StageInv(item) ==
  CASE stage = "item"   -> name = None /\ item.from < item.to /\ pos = item.to
    [] stage = "name"   -> /\ item.from <= pos
                           /\ name # None => name.own
                           /\ name # None /\ ~ name.jumped => pos = name.curr_pos
                           /\ name # None /\ name.jumped => item.from < pos
    [] stage = "fields" -> name = None /\ item.from < pos
    [] stage = "rdata"  -> /\ name # None => ~ name.own
                           /\ item.from < pos /\ result = "parsing"

DnsInv ==
  /\ TypeInv
  /\ Chained(items)
  /\ items = <<>> => stage = "item" /\ name = None /\ pos = HeaderLen
  /\ items # <<>> => StageInv(items[Len(items)])
  /\ stage # "item" => want # <<>>
  /\ result # "error" => pos <= Size

LEMMA ByteType ==
  ASSUME TypeInv, NEW p \in Nat, p < Size
  PROVE  Byte(p) \in Nat
<1>1. p + 1 \in 1 .. Len(data)
  BY DEF TypeInv, Size
<1>2. data[p + 1] \in Bytes
  BY <1>1 DEF TypeInv
<1> QED
  BY <1>2, BytesAssumption DEF Byte

\* What the code does to the last item when its name or the item itself ends.
Named(its, labels, p)   == [its EXCEPT ![Len(its)].name = labels, ![Len(its)].to = p]
Finished(its, p, shown) == [its EXCEPT ![Len(its)].to = p, ![Len(its)].shown = shown]

\* Only its end, its name and what is shown of it change.
LEMMA LastChanges ==
  ASSUME NEW its \in Seq(Parsing), its # <<>>, Chained(its), NEW p \in Nat,
         NEW labels \in Offsets, NEW shown \in Offsets \cup {None},
         NEW new, new = Named(its, labels, p) \/ new = Finished(its, p, shown)
  PROVE  /\ new \in Seq(Parsing) /\ new # <<>> /\ Chained(new) /\ Len(new) = Len(its)
         /\ new[Len(its)].from = its[Len(its)].from /\ new[Len(its)].to = p
<1>1. PICK n \in Nat : n = Len(its) /\ n \in 1 .. n
  OBVIOUS
<1>2. its[n] \in Parsing
  BY <1>1
<1>3. PICK x \in Parsing : x.from = its[n].from /\ x.to = p /\ new = [its EXCEPT ![n] = x]
  <2>1. CASE new = Named(its, labels, p)
    <3>1. [its[n] EXCEPT !.name = labels, !.to = p] \in Parsing
      BY <1>2 DEF Parsing
    <3>2. new = [its EXCEPT ![n] = [its[n] EXCEPT !.name = labels, !.to = p]]
      BY <1>1, <2>1 DEF Named
    <3> QED
      BY <1>2, <3>1, <3>2 DEF Parsing
  <2>2. CASE new = Finished(its, p, shown)
    <3>1. [its[n] EXCEPT !.to = p, !.shown = shown] \in Parsing
      BY <1>2 DEF Parsing
    <3>2. new = [its EXCEPT ![n] = [its[n] EXCEPT !.to = p, !.shown = shown]]
      BY <1>1, <2>2 DEF Finished
    <3> QED
      BY <1>2, <3>1, <3>2 DEF Parsing
  <2> QED
    BY <2>1, <2>2
<1>4. /\ new \in Seq(Parsing) /\ Len(new) = n /\ new[n] = x
      /\ \A i \in 1 .. n : i # n => new[i] = its[i]
  BY <1>1, <1>3
<1>5. Chained(new)
  <2> SUFFICES ASSUME NEW i \in 1 .. n
               PROVE  /\ new[i].from = IF i = 1 THEN HeaderLen ELSE new[i - 1].to
                      /\ i < n => new[i].from < new[i].to
    BY <1>4 DEF Chained
  <2>1. new[i].from = its[i].from
    BY <1>3, <1>4
  <2>2. i # 1 => new[i - 1] = its[i - 1]
    BY <1>1, <1>4
  <2>3. i < n => new[i] = its[i]
    BY <1>4
  <2> QED
    BY <1>1, <2>1, <2>2, <2>3 DEF Chained
<1> QED
  BY <1>1, <1>3, <1>4, <1>5

\* A new item starts where the one before it ended.
LEMMA ItemStarts ==
  ASSUME NEW its \in Seq(Parsing), Chained(its), NEW x \in Parsing,
         its = <<>> => x.from = HeaderLen,
         its # <<>> => its[Len(its)].from < its[Len(its)].to /\ x.from = its[Len(its)].to
  PROVE  /\ Append(its, x) \in Seq(Parsing) /\ Append(its, x) # <<>> /\ Chained(Append(its, x))
         /\ Append(its, x)[Len(Append(its, x))] = x
<1>0. PICK new : new = Append(its, x)
  OBVIOUS
<1>1. PICK n \in Nat : n = Len(its)
  OBVIOUS
<1>2. /\ new \in Seq(Parsing) /\ Len(new) = n + 1 /\ new[n + 1] = x
      /\ \A i \in 1 .. n : new[i] = its[i]
  BY <1>0, <1>1
<1>3. Chained(new)
  <2> SUFFICES ASSUME NEW i \in 1 .. n + 1
               PROVE  /\ new[i].from = IF i = 1 THEN HeaderLen ELSE new[i - 1].to
                      /\ i < n + 1 => new[i].from < new[i].to
    BY <1>2 DEF Chained
  <2>1. CASE i \in 1 .. n
    <3>1. new[i] = its[i] /\ (i # 1 => new[i - 1] = its[i - 1])
      BY <1>2, <2>1
    <3>2. its[i].from = IF i = 1 THEN HeaderLen ELSE its[i - 1].to
      BY <1>1, <2>1 DEF Chained
    <3>3. its[i].from < its[i].to
      <4>1. CASE i = n
        BY <1>1, <2>1, <4>1
      <4>2. CASE i # n
        BY <1>1, <2>1, <4>2 DEF Chained
      <4> QED
        BY <4>1, <4>2
    <3> QED
      BY <3>1, <3>2, <3>3
  <2>2. CASE i = n + 1
    <3>1. CASE its = <<>>
      <4>1. n = 0 /\ x.from = HeaderLen
        BY <1>1, <3>1
      <4>2. i = 1 /\ new[1] = x
        BY <1>2, <2>2, <4>1
      <4> QED
        BY <2>2, <4>1, <4>2
    <3>2. CASE its # <<>>
      <4>1. n # 0
        BY <1>1, <3>2
      <4>2. i # 1 /\ i - 1 = n /\ new[n] = its[n]
        BY <1>1, <1>2, <2>2, <4>1
      <4> QED
        BY <1>1, <1>2, <2>2, <3>2, <4>2
    <3> QED
      BY <3>1, <3>2
  <2> QED
    BY <2>1, <2>2
<1> QED
  BY <1>0, <1>2, <1>3

-----------------------------------------------------------------------------
(***************************************************************************)
(* The steps                                                               *)
(***************************************************************************)
LEMMA DnsInvInit == Init => DnsInv
<1> SUFFICES ASSUME Init PROVE DnsInv
  OBVIOUS
<1> USE DEF Init
<1>1. TypeInv
  <2>1. data \in Seq(Bytes) /\ want \in Seq({"question", "record"})
    BY InputAssumption
  <2>2. pos \in Nat /\ items \in Seq(Parsing)
    BY LimitsAssumption
  <2> QED
    BY <2>1, <2>2 DEF TypeInv
<1>2. Chained(items)
  BY DEF Chained
<1>3. result # "error" => pos <= Size
  <2>1. PICK n \in Nat : n = Size
    BY <1>1 DEF TypeInv, Size
  <2> QED
    BY <2>1, LimitsAssumption
<1> QED
  BY <1>1, <1>2, <1>3 DEF DnsInv

\* A step that leaves the items and the cursor alone, and gives up.
LEMMA FailStep ==
  ASSUME DnsInv, Fail, stage # "rdata"
  PROVE  DnsInv'
<1> USE DEF DnsInv, Fail
<1>1. TypeInv'
  BY DEF TypeInv
<1>2. Chained(items)' /\ Size' = Size
  BY DEF Chained, Size
<1>3. items' # <<>> => StageInv(items[Len(items)])'
  BY DEF StageInv, TypeInv
<1> QED
  BY <1>1, <1>2, <1>3

\* The item ends at the cursor.
LEMMA EndStep ==
  ASSUME DnsInv, items # <<>>, result = "parsing", want # <<>>,
         NEW shown \in Offsets \cup {None},
         EndItem(pos', shown), pos' \in Nat, items[Len(items)].from < pos', pos' <= Size,
         name' = None, UNCHANGED <<data, result>>
  PROVE  DnsInv'
<1>1. items \in Seq(Parsing) /\ Chained(items)
  BY DEF DnsInv, TypeInv
<1>2. items' = Finished(items, pos', shown)
  BY DEF EndItem, Finished
<1>3. /\ items' \in Seq(Parsing) /\ items' # <<>> /\ Chained(items') /\ Len(items') = Len(items)
      /\ items'[Len(items)].from = items[Len(items)].from /\ items'[Len(items)].to = pos'
  <2>1. PICK new : new = items'
    OBVIOUS
  <2>2. <<>> \in Offsets
    BY DEF Offsets
  <2>3. /\ new \in Seq(Parsing) /\ new # <<>> /\ Chained(new) /\ Len(new) = Len(items)
        /\ new[Len(items)].from = items[Len(items)].from /\ new[Len(items)].to = pos'
    BY <1>1, <1>2, <2>1, <2>2, LastChanges
  <2> QED
    BY <2>1, <2>3
<1>4. want' \in Seq({"question", "record"}) /\ stage' = "item"
  BY DEF EndItem, DnsInv, TypeInv
<1>5. TypeInv'
  BY <1>3, <1>4 DEF DnsInv, TypeInv
<1>6. StageInv(items[Len(items)])'
  BY <1>3, <1>4 DEF StageInv
<1>7. Size' = Size
  BY DEF Size
<1> QED
  BY <1>3, <1>4, <1>5, <1>6, <1>7 DEF DnsInv, Chained

\* read_name starts at p.
LEMMA ReadingType ==
  ASSUME NEW p \in Nat, NEW own \in BOOLEAN
  PROVE  /\ Reading(p, own) \in Locals
         /\ Reading(p, own).curr_pos = p /\ Reading(p, own).jumped = FALSE
         /\ Reading(p, own).own = own
<1>1. <<>> \in Offsets
  BY DEF Offsets
<1> QED
  BY <1>1 DEF Reading, Locals

LEMMA StartStep ==
  ASSUME DnsInv, StartItem
  PROVE  DnsInv'
<1>1. PICK x : x = Item(<<>>)
  OBVIOUS
<1>2. x \in Parsing /\ x.from = pos
  <2>1. <<>> \in Offsets
    BY DEF Offsets
  <2>2. Head(want) \in {"question", "record"} /\ pos \in Nat
    BY DEF StartItem, DnsInv, TypeInv
  <2> QED
    BY <1>1, <2>1, <2>2 DEF Item, Parsing
<1>3. items \in Seq(Parsing) /\ Chained(items)
  BY DEF DnsInv, TypeInv
<1>4. /\ items = <<>> => x.from = HeaderLen
      /\ items # <<>> => items[Len(items)].from < items[Len(items)].to /\ x.from = items[Len(items)].to
  BY <1>2 DEF DnsInv, StageInv, StartItem
<1>5. PICK new : new = Append(items, x)
  OBVIOUS
<1>6. new \in Seq(Parsing) /\ new # <<>> /\ Chained(new) /\ new[Len(new)] = x
  BY <1>2, <1>3, <1>4, <1>5, ItemStarts
<1>7. items' = new
  BY <1>1, <1>5 DEF StartItem
<1>8. /\ name' \in Locals /\ name'.curr_pos = pos /\ name'.jumped = FALSE /\ name'.own = TRUE
  BY ReadingType DEF StartItem, DnsInv, TypeInv
<1>9. TypeInv'
  BY <1>6, <1>7, <1>8 DEF StartItem, DnsInv, TypeInv
<1>10. StageInv(items[Len(items)])'
  <2>1. pos' = pos /\ stage' = "name" /\ pos \in Nat
    BY DEF StartItem, DnsInv, TypeInv
  <2>2. items'[Len(items')].from = pos'
    BY <1>2, <1>6, <1>7, <2>1
  <2> QED
    BY <1>8, <2>1, <2>2 DEF StageInv
<1>11. Size' = Size
  BY DEF Size, StartItem
<1> QED
  BY <1>6, <1>7, <1>9, <1>10, <1>11 DEF DnsInv, Chained, StartItem

\* Locals and cursor of the name at work.
LEMMA NameAtWork ==
  ASSUME DnsInv, InName
  PROVE  /\ name \in Locals /\ At \in Nat /\ items # <<>> /\ stage \in {"name", "rdata"}
         /\ want # <<>> /\ pos \in Nat /\ pos <= Size /\ Size \in Nat
         /\ items[Len(items)].from \in Nat
         /\ name.own \in BOOLEAN /\ name.jumped \in BOOLEAN
         /\ stage = "name" => /\ name.own /\ items[Len(items)].from <= pos
                              /\ ~ name.jumped => pos = At
                              /\ name.jumped => items[Len(items)].from < pos
         /\ stage = "rdata" => ~ name.own /\ items[Len(items)].from < pos
<1>1. name \in Locals /\ name # None
  BY DEF DnsInv, TypeInv, InName
<1>2. At \in Nat /\ name.own \in BOOLEAN /\ name.jumped \in BOOLEAN
  BY <1>1 DEF Locals, At
<1>3. items # <<>>
  BY <1>1 DEF DnsInv
<1>4. PICK x \in Parsing : x = items[Len(items)] /\ StageInv(x)
  BY <1>3 DEF DnsInv, TypeInv
<1>5. x.from \in Nat /\ stage \in {"name", "rdata"}
  BY <1>1, <1>4 DEF Parsing, StageInv, DnsInv, TypeInv
<1>6. Size \in Nat /\ pos \in Nat /\ pos <= Size /\ want # <<>>
  BY <1>5 DEF DnsInv, TypeInv, Size, InName
<1>7. stage = "name" => /\ name.own /\ x.from <= pos
                        /\ ~ name.jumped => pos = At
                        /\ name.jumped => x.from < pos
  BY <1>1, <1>4 DEF StageInv, At
<1>8. stage = "rdata" => ~ name.own /\ x.from < pos
  BY <1>1, <1>4 DEF StageInv
<1> QED
  BY <1>1, <1>2, <1>3, <1>4, <1>5, <1>6, <1>7, <1>8

\* A label or a pointer: the name goes on at another place.
LEMMA NameGoesOn ==
  ASSUME DnsInv, InName, NEW p \in Nat, At < p, p <= Size, pos' = MoveCursor(p),
         name' \in Locals, name'.own = name.own,
         \/ name'.jumped = name.jumped /\ name'.curr_pos = p
         \/ name'.jumped = TRUE,
         UNCHANGED <<data, want, stage, items, result>>
  PROVE  DnsInv'
<1>1. PICK x \in Nat : x = items[Len(items)].from
  BY NameAtWork
<1>2. Size' = Size /\ Size \in Nat
  BY NameAtWork DEF Size
<1>3. CASE stage = "name"
  <2>1. CASE name.jumped
    <3>1. pos' = pos
      BY <2>1 DEF MoveCursor
    <3>2. x < pos /\ name.own /\ name'.jumped
      BY <1>1, <1>3, <2>1, NameAtWork
    <3>3. StageInv(items[Len(items)])'
      BY <1>1, <1>3, <3>1, <3>2, NameAtWork DEF StageInv
    <3>4. TypeInv'
      BY <3>1 DEF DnsInv, TypeInv
    <3> QED
      BY <1>2, <3>1, <3>3, <3>4, NameAtWork DEF DnsInv, Chained
  <2>2. CASE ~ name.jumped
    <3>1. pos' = p /\ name.own
      BY <1>3, <2>2, NameAtWork DEF MoveCursor
    <3>2. x <= At
      BY <1>1, <1>3, <2>2, NameAtWork
    <3>3. At \in Nat
      BY NameAtWork
    <3>4. x < p
      BY <3>2, <3>3
    <3>5. StageInv(items[Len(items)])'
      BY <1>1, <1>3, <2>2, <3>1, <3>4 DEF StageInv
    <3>6. TypeInv'
      BY <3>1 DEF DnsInv, TypeInv
    <3> QED
      BY <1>2, <3>1, <3>5, <3>6, NameAtWork DEF DnsInv, Chained
  <2> QED
    BY <2>1, <2>2
<1>4. CASE stage = "rdata"
  <2>1. pos' = pos /\ ~ name.own
    BY <1>4, NameAtWork DEF MoveCursor
  <2>2. StageInv(items[Len(items)])'
    BY <1>4, <2>1, NameAtWork DEF StageInv, InName
  <2>3. TypeInv'
    BY <2>1 DEF DnsInv, TypeInv
  <2> QED
    BY <1>2, <2>1, <2>2, <2>3, NameAtWork DEF DnsInv, Chained
<1> QED
  BY <1>3, <1>4, NameAtWork

LEMMA LabelStep ==
  ASSUME DnsInv, NameLabel
  PROVE  DnsInv'
<1>1. InName /\ IsLabel(At)
  BY DEF NameLabel
<1>2. At \in Nat /\ name \in Locals /\ Size \in Nat
  BY <1>1, NameAtWork
<1>3. At < Size /\ Byte(At) \in Nat /\ At + 1 + Byte(At) <= Size
  BY <1>1, <1>2, ByteType DEF IsLabel, DnsInv
<1>4. PICK p \in Nat : p = At + 1 + Byte(At) /\ At < p /\ p <= Size
  BY <1>2, <1>3
<1>5. pos' = MoveCursor(p)
  BY <1>4, Zenon DEF NameLabel
<1>6. name' \in Locals /\ name'.own = name.own /\ name'.jumped = name.jumped /\ name'.curr_pos = p
  <2>1. Append(name.labels, At) \in Offsets
    BY <1>2 DEF Locals, Offsets
  <2>2. name' = [name EXCEPT !.labels = Append(name.labels, At), !.curr_pos = p]
    BY <1>4 DEF NameLabel
  <2> QED
    BY <1>2, <2>1, <2>2 DEF Locals
<1> QED
  BY <1>1, <1>4, <1>5, <1>6, NameGoesOn DEF NameLabel

LEMMA PointerStep ==
  ASSUME DnsInv, NamePointer
  PROVE  DnsInv'
<1>1. InName /\ IsPointer(At)
  BY DEF NamePointer
<1>2. At \in Nat /\ name \in Locals /\ Size \in Nat
  BY <1>1, NameAtWork
<1>3. At + 1 < Size /\ Byte(At + 1) \in Nat
  BY <1>1, <1>2, ByteType DEF IsPointer, DnsInv
<1>4. PICK p \in Nat : p = At + 2 /\ At < p /\ p <= Size
  BY <1>2, <1>3
<1>5. pos' = MoveCursor(p)
  BY <1>4, Zenon DEF NamePointer
<1>6. name' \in Locals /\ name'.own = name.own /\ name'.jumped = TRUE
  <2>1. name.jumps + 1 \in Nat
    BY <1>2 DEF Locals
  <2>2. name' = [name EXCEPT !.jumped = TRUE, !.jumps = name.jumps + 1, !.curr_pos = Byte(At + 1)]
    BY DEF NamePointer
  <2> QED
    BY <1>2, <1>3, <2>1, <2>2 DEF Locals
<1> QED
  BY <1>1, <1>4, <1>5, <1>6, NameGoesOn DEF NamePointer

\* The name of the item itself ends.
LEMMA OwnNameEnds ==
  ASSUME DnsInv, NameEnd, name.own
  PROVE  DnsInv'
<1>1. InName /\ IsEnd(At)
  BY DEF NameEnd
<1>2. stage = "name" /\ items # <<>> /\ At \in Nat /\ name \in Locals /\ pos \in Nat /\ Size \in Nat
  BY <1>1, NameAtWork
<1>3. PICK x \in Nat : x = items[Len(items)].from
  BY <1>1, NameAtWork
<1>4. At < Size /\ At + 1 \in Nat
  BY <1>1, <1>2 DEF IsEnd
<1>5. pos' \in Nat /\ x < pos' /\ pos' <= Size
  <2>1. CASE name.jumped
    <3>1. pos' = pos
      BY <2>1 DEF NameEnd, MoveCursor
    <3>2. x < pos /\ pos <= Size
      BY <1>1, <1>2, <1>3, <2>1, NameAtWork
    <3> QED
      BY <1>2, <3>1, <3>2
  <2>2. CASE ~ name.jumped
    <3>1. pos' = At + 1
      BY <2>2 DEF NameEnd, MoveCursor
    <3>2. x <= At
      BY <1>1, <1>2, <1>3, <2>2, NameAtWork
    <3> QED
      BY <1>2, <1>4, <3>1, <3>2
  <2> QED
    BY <2>1, <2>2
<1>6. PICK new : new = items'
  OBVIOUS
<1>7. new = Named(items, name.labels, pos')
  BY <1>6 DEF NameEnd, Named
<1>8. /\ new \in Seq(Parsing) /\ new # <<>> /\ Chained(new) /\ Len(new) = Len(items)
      /\ new[Len(items)].from = x
  <2>1. items \in Seq(Parsing) /\ Chained(items) /\ name.labels \in Offsets /\ <<>> \in Offsets
    BY <1>2 DEF DnsInv, TypeInv, Locals, Offsets
  <2> QED
    BY <1>2, <1>3, <1>5, <1>7, <2>1, LastChanges
<1>9. TypeInv'
  BY <1>5, <1>6, <1>8 DEF NameEnd, DnsInv, TypeInv
<1>10. StageInv(items[Len(items)])'
  <2>1. stage' = "fields" /\ name' = None /\ items'[Len(items')].from = x
    BY <1>6, <1>8 DEF NameEnd
  <2> QED
    BY <1>5, <2>1 DEF StageInv
<1>11. Size' = Size
  BY DEF Size, NameEnd
<1>12. want' # <<>>
  BY <1>1, NameAtWork DEF NameEnd
<1> QED
  BY <1>5, <1>6, <1>8, <1>9, <1>10, <1>11, <1>12 DEF DnsInv, Chained

\* A name in RDATA ends, or does not parse.
LEMMA RdataEnds ==
  ASSUME DnsInv, InName, ~ name.own, NEW shown \in Offsets \cup {None},
         EndItem(pos, shown), pos' = pos, name' = None, UNCHANGED <<data, result>>
  PROVE  DnsInv'
<1>1. /\ stage = "rdata" /\ items # <<>> /\ want # <<>> /\ pos \in Nat /\ pos <= Size
      /\ items[Len(items)].from < pos
  BY NameAtWork
<1>2. result = "parsing"
  BY DEF InName
<1>3. EndItem(pos', shown)
  BY Zenon
<1> QED
  BY <1>1, <1>2, <1>3, EndStep

LEMMA NameEndStep ==
  ASSUME DnsInv, NameEnd
  PROVE  DnsInv'
<1>1. CASE name.own
  BY <1>1, OwnNameEnds
<1>2. CASE ~ name.own
  <2>1. InName /\ name \in Locals
    BY NameAtWork DEF NameEnd
  <2>2. name.labels \in Offsets \cup {None}
    BY <2>1 DEF Locals
  <2>3. pos' = pos /\ EndItem(pos, name.labels) /\ name' = None /\ UNCHANGED <<data, result>>
    BY <1>2 DEF NameEnd, MoveCursor
  <2> QED
    BY <1>2, <2>1, <2>2, <2>3, RdataEnds
<1> QED
  BY <1>1, <1>2

\* The fields behind a name.
LEMMA AtFields ==
  ASSUME DnsInv, stage = "fields"
  PROVE  /\ items # <<>> /\ want # <<>> /\ name = None /\ items[Len(items)].from < pos
         /\ items[Len(items)].from \in Nat /\ pos \in Nat /\ Size \in Nat
<1>1. items # <<>> /\ want # <<>> /\ pos \in Nat /\ Size \in Nat
  BY DEF DnsInv, TypeInv, Size
<1>2. PICK x \in Parsing : x = items[Len(items)] /\ StageInv(x)
  BY <1>1 DEF DnsInv, TypeInv
<1> QED
  BY <1>1, <1>2 DEF StageInv, Parsing

LEMMA QuestionStep ==
  ASSUME DnsInv, QuestionFields
  PROVE  DnsInv'
<1>1. /\ items # <<>> /\ want # <<>> /\ name = None
      /\ items[Len(items)].from < pos /\ items[Len(items)].from \in Nat /\ pos \in Nat
  BY AtFields DEF QuestionFields
<1>2. pos' = pos + 1 /\ pos + 1 <= Size /\ result = "parsing" /\ name' = name /\ EndItem(pos', None)
      /\ UNCHANGED <<data, result>>
  BY DEF QuestionFields
<1>3. pos' \in Nat /\ items[Len(items)].from < pos' /\ pos' <= Size
  BY <1>1, <1>2
<1> QED
  BY <1>1, <1>2, <1>3, EndStep

LEMMA RecordStep ==
  ASSUME DnsInv, RecordFields
  PROVE  DnsInv'
<1>1. /\ items # <<>> /\ want # <<>> /\ name = None
      /\ items[Len(items)].from < pos /\ items[Len(items)].from \in Nat /\ pos \in Nat /\ Size \in Nat
  BY AtFields DEF RecordFields
<1>2. pos + 2 <= Size /\ result = "parsing" /\ UNCHANGED <<data, result>>
  BY DEF RecordFields
<1>3. PICK d \in Nat : d = Byte(pos + 1)
  <2>1. pos + 1 \in Nat /\ pos + 1 < Size
    BY <1>1, <1>2
  <2> QED
    BY <2>1, ByteType DEF DnsInv
<1>4. pos' = pos + 2 + d /\ pos + 2 + d <= Size
  BY <1>3, Zenon DEF RecordFields
<1>5. pos' \in Nat /\ items[Len(items)].from < pos' /\ pos' <= Size
  BY <1>1, <1>4
<1>6. CASE Byte(pos) \notin NameTypes
  <2>1. EndItem(pos', None) /\ name' = name
    BY <1>6 DEF RecordFields
  <2> QED
    BY <1>1, <1>2, <1>5, <2>1, EndStep
<1>7. CASE Byte(pos) \in NameTypes
  <2>1. name' = Reading(pos' - d, FALSE) /\ stage' = "rdata" /\ UNCHANGED <<want, items>>
    BY <1>3, <1>7 DEF RecordFields
  <2>2. pos' - d \in Nat
    BY <1>1, <1>3, <1>4
  <2>3. name' \in Locals /\ name'.own = FALSE
    BY <2>1, <2>2, ReadingType
  <2>4. TypeInv'
    BY <1>2, <1>5, <2>1, <2>3 DEF DnsInv, TypeInv
  <2>5. StageInv(items[Len(items)])'
    BY <1>2, <1>5, <2>1, <2>3 DEF StageInv
  <2>6. Size' = Size
    BY <1>2 DEF Size
  <2> QED
    BY <1>1, <1>5, <2>1, <2>4, <2>5, <2>6 DEF DnsInv, Chained
<1> QED
  BY <1>6, <1>7

LEMMA DnsInvariant == Spec => []DnsInv
<1>1. DnsInv /\ [Next]_vars => DnsInv'
  <2> SUFFICES ASSUME DnsInv, [Next]_vars PROVE DnsInv'
    OBVIOUS
  <2>1. CASE StartItem
    BY <2>1, StartStep
  <2>2. CASE Parsed
    <3>1. Size' = Size /\ UNCHANGED <<data, want, pos, stage, name, items>> /\ result' = "ok"
      BY <2>2 DEF Parsed, Size
    <3>2. TypeInv'
      BY <3>1 DEF DnsInv, TypeInv
    <3>3. items' # <<>> => StageInv(items[Len(items)])'
      BY <2>2, <3>1 DEF Parsed, DnsInv, StageInv
    <3>4. pos' <= Size'
      BY <2>2, <3>1 DEF Parsed, DnsInv
    <3> QED
      BY <2>2, <3>1, <3>2, <3>3, <3>4 DEF DnsInv, Chained
  <2>3. CASE QuestionFields
    BY <2>3, QuestionStep
  <2>4. CASE RecordFields
    BY <2>4, RecordStep
  <2>5. CASE FieldsFail
    BY <2>5, FailStep DEF FieldsFail
  <2>6. CASE NameEnd
    BY <2>6, NameEndStep
  <2>7. CASE NamePointer
    BY <2>7, PointerStep
  <2>8. CASE NameLabel
    BY <2>8, LabelStep
  <2>9. CASE RdataNameFails
    <3>1. InName /\ ~ name.own /\ EndItem(pos, None) /\ pos' = pos /\ name' = None
          /\ UNCHANGED <<data, result>>
      BY <2>9 DEF RdataNameFails
    <3> QED
      BY <3>1, RdataEnds
  <2>10. CASE NameFails
    <3>1. InName /\ name.own /\ Fail
      BY <2>10 DEF NameFails
    <3>2. stage # "rdata"
      BY <3>1, NameAtWork
    <3> QED
      BY <3>1, <3>2, FailStep
  <2>11. CASE UNCHANGED vars
    <3>1. Size' = Size /\ TypeInv'
      BY <2>11 DEF vars, Size, DnsInv, TypeInv
    <3> QED
      BY <2>11, <3>1 DEF vars, DnsInv, Chained, StageInv
  <2> QED
    BY <2>1, <2>2, <2>3, <2>4, <2>5, <2>6, <2>7, <2>8, <2>9, <2>10, <2>11 DEF Next
<1> QED
  BY <1>1, DnsInvInit, PTL DEF Spec

\* For messages of any length and headers of any counts: the items lie side by
\* side, each at least a byte, and parsing never leaves the message
\* (parse_dns, read_record and read_name).
THEOREM ItemsSideBySide == Spec => []ItemsTile
<1>1. DnsInv => ItemsTile
  <2> SUFFICES ASSUME DnsInv PROVE ItemsTile
    OBVIOUS
  <2>1. ASSUME stage = "item"
        PROVE  /\ \A i \in 1 .. Len(items) :
                    /\ items[i].from = IF i = 1 THEN HeaderLen ELSE items[i - 1].to
                    /\ items[i].from < items[i].to
               /\ pos = IF items = <<>> THEN HeaderLen ELSE Last(items).to
    <3>1. CASE items = <<>>
      BY <3>1 DEF DnsInv
    <3>2. CASE items # <<>>
      <4>1. items[Len(items)].from < items[Len(items)].to /\ pos = items[Len(items)].to
        BY <2>1, <3>2 DEF DnsInv, StageInv
      <4>2. ASSUME NEW i \in 1 .. Len(items)
            PROVE  /\ items[i].from = IF i = 1 THEN HeaderLen ELSE items[i - 1].to
                   /\ items[i].from < items[i].to
        <5>1. i = Len(items) \/ i < Len(items)
          BY DEF DnsInv, TypeInv
        <5> QED
          BY <4>1, <5>1 DEF DnsInv, Chained
      <4> QED
        BY <3>2, <4>1, <4>2 DEF Last
    <3> QED
      BY <3>1, <3>2
  <2>2. stage = "rdata" => result = "parsing"
    <3> SUFFICES ASSUME stage = "rdata" PROVE result = "parsing"
      OBVIOUS
    <3>1. items # <<>>
      BY DEF DnsInv
    <3> QED
      BY <3>1 DEF DnsInv, StageInv
  <2> QED
    BY <2>1, <2>2 DEF ItemsTile, DnsInv
<1> QED
  BY <1>1, DnsInvariant, PTL

-----------------------------------------------------------------------------
(***************************************************************************)
(* Induction and loops, as in DetectionEngineProofs                        *)
(***************************************************************************)
\* A set of numbers has a least one.
LEMMA LeastNumber ==
  ASSUME NEW S \in SUBSET Nat, S # {}
  PROVE  \E n \in S : \A m \in S : ~ (m < n)
<1> DEFINE R == OpToRel(<, Nat)
<1>1. IsWellFoundedOn(R, Nat)
  BY NatLessThanWellFounded
<1>2. \A x, y \in Nat : <<x, y>> \in R <=> x < y
  BY DEF OpToRel
<1> HIDE DEF R
<1>3. PICK n \in S : \A m \in S : ~ (<<m, n>> \in R)
  BY <1>1, WFMin
<1>4. ASSUME NEW m \in S PROVE ~ (m < n)
  <2>1. m \in Nat /\ n \in Nat /\ ~ (<<m, n>> \in R)
    BY <1>3
  <2> QED
    BY <1>2, <2>1, Zenon
<1> QED
  BY <1>4

\* Induction over a set of numbers.
LEMMA SetInduction ==
  ASSUME NEW S, 0 \in S, \A n \in Nat : n \in S => n + 1 \in S
  PROVE  \A n \in Nat : n \in S
<1> DEFINE T == Nat \ S
<1>1. SUFFICES ASSUME T # {} PROVE FALSE
  OBVIOUS
<1>2. PICK n \in T : \A m \in T : ~ (m < n)
  BY <1>1, LeastNumber
<1>3. n \in Nat /\ n # 0
  OBVIOUS
<1>4. n - 1 \in Nat /\ n - 1 < n
  BY <1>3
<1>5. n - 1 \in S
  BY <1>2, <1>4
<1>6. (n - 1) + 1 \in S
  BY <1>4, <1>5
<1> QED
  BY <1>3, <1>6

\* step takes a value and a number to the next value.
IsStep(step, S) == step \in [S \X Nat -> S]

\* g takes the numbers up to n to what the steps lead to from s0.
Iterates(g, n, S, s0, step) ==
  /\ g \in [0 .. n -> S]
  /\ g[0] = s0
  /\ \A i \in 1 .. n : g[i] = step[<<g[i - 1], i>>]

\* Steps from s0 have a function that follows them: what a loop computes.
LEMMA Recursion ==
  ASSUME NEW S, NEW n \in Nat, NEW s0 \in S, NEW step, IsStep(step, S)
  PROVE  \E g : Iterates(g, n, S, s0, step)
<1> USE DEF IsStep
<1> DEFINE Ok(g, m) == g[0] = s0 /\ \A i \in 1 .. m : g[i] = step[<<g[i - 1], i>>]
           T == {m \in Nat : \E g \in [0 .. m -> S] : Ok(g, m)}
<1>1. 0 \in T
  <2>1. [i \in 0 .. 0 |-> s0] \in [0 .. 0 -> S] /\ Ok([i \in 0 .. 0 |-> s0], 0)
    OBVIOUS
  <2> QED
    BY <2>1
<1>2. ASSUME NEW m \in Nat, m \in T PROVE m + 1 \in T
  <2>1. PICK g \in [0 .. m -> S] : Ok(g, m)
    BY <1>2
  <2> DEFINE h == [i \in 0 .. m + 1 |-> IF i = m + 1 THEN step[<<g[m], m + 1>>] ELSE g[i]]
  <2>2. h \in [0 .. m + 1 -> S]
    OBVIOUS
  <2>3. Ok(h, m + 1)
    <3>1. h[0] = s0
      BY <2>1
    <3>2. ASSUME NEW i \in 1 .. m + 1 PROVE h[i] = step[<<h[i - 1], i>>]
      <4>1. CASE i = m + 1
        <5>1. h[m] = g[m] /\ (m + 1) - 1 = m
          OBVIOUS
        <5>2. h[m + 1] = step[<<g[m], m + 1>>]
          OBVIOUS
        <5> QED
          BY <4>1, <5>1, <5>2, Zenon
      <4>2. CASE i # m + 1
        <5>1. h[i] = g[i] /\ h[i - 1] = g[i - 1] /\ i \in 1 .. m
          BY <4>2
        <5> QED
          BY <2>1, <5>1
      <4> QED
        BY <4>1, <4>2
    <3> QED
      BY <3>1, <3>2
  <2>4. m + 1 \in Nat
    OBVIOUS
  <2> HIDE DEF Ok, h
  <2> QED
    BY <2>2, <2>3, <2>4
<1>3. n \in T
  <2> HIDE DEF T
  <2> QED
    BY <1>1, <1>2, SetInduction
<1> QED
  BY <1>3 DEF Iterates

-----------------------------------------------------------------------------
(***************************************************************************)
(* What is on the wire, said of the bytes D                                *)
(***************************************************************************)
EndAt(D, p)     == p < Len(D) /\ D[p + 1] = 0
LabelAt(D, p)   == p < Len(D) /\ D[p + 1] \notin {0, Pointer} /\ p + 1 + D[p + 1] <= Len(D)
PointerAt(D, p) == p + 1 < Len(D) /\ D[p + 1] = Pointer /\ D[p + 1 + 1] < Len(D)

LEMMA OnData ==
  ASSUME NEW p
  PROVE  /\ IsEnd(p) <=> EndAt(data, p)
         /\ IsLabel(p) <=> LabelAt(data, p)
         /\ IsPointer(p) <=> PointerAt(data, p)
BY DEF IsEnd, IsLabel, IsPointer, Byte, Size, EndAt, LabelAt, PointerAt

Steps(D) == (MaxJumps + 1) * Len(D)

\* Walk and Labels up to each of their steps.
Go(D, start) ==
  LET go[i \in 0 .. Steps(D)] ==
        IF i = 0 THEN <<start>>
        ELSE LET walk == go[i - 1]
                 p    == Last(walk)
             IN  CASE LabelAt(D, p)   -> Append(walk, p + 1 + D[p + 1])
                   [] PointerAt(D, p) -> Append(walk, D[p + 1 + 1])
                   [] OTHER           -> walk
  IN  go

Upto(D, walk) ==
  LET upto[i \in 0 .. Len(walk)] ==
        CASE i = 0 -> <<>>
          [] i > 0 /\ LabelAt(D, walk[i]) -> Append(upto[i - 1], walk[i])
          [] OTHER -> upto[i - 1]
  IN  upto

WalkOn(D, start) == Go(D, start)[Steps(D)]

LEMMA WalkOnData == ASSUME NEW start PROVE Walk(start) = WalkOn(data, start)
BY Zenon DEF Walk, WalkOn, Go, Steps, IsLabel, IsPointer, Byte, Size, LabelAt, PointerAt

LEMMA LabelsOnData == ASSUME NEW walk PROVE Labels(walk) = Upto(data, walk)[Len(walk)]
BY Zenon DEF Labels, Upto, IsLabel, Byte, Size, LabelAt

\* A walk's places follow from one another.
Leads(D, p, q) ==
  \/ LabelAt(D, p) /\ q = p + 1 + D[p + 1]
  \/ PointerAt(D, p) /\ q = D[p + 1 + 1]

GoesOn(D, p) == LabelAt(D, p) \/ PointerAt(D, p)

Paths == {w \in Seq(Nat) : w # <<>>}

\* The places of k steps from start, or of fewer if there is nothing to follow.
IsPath(D, w, start, k) ==
  /\ w \in Paths /\ w[1] = start
  /\ \A i \in 1 .. Len(w) - 1 : Leads(D, w[i], w[i + 1])
  /\ Len(w) = k + 1 \/ ~ GoesOn(D, w[Len(w)])

Move(D, w) ==
  LET p == Last(w)
  IN  CASE LabelAt(D, p)   -> Append(w, p + 1 + D[p + 1])
        [] PointerAt(D, p) -> Append(w, D[p + 1 + 1])
        [] OTHER           -> w

LEMMA LeadsType ==
  ASSUME NEW D \in Seq(Bytes), NEW p \in Nat, NEW q, Leads(D, p, q)
  PROVE  q \in Nat
<1>1. CASE LabelAt(D, p) /\ q = p + 1 + D[p + 1]
  <2>1. p + 1 \in 1 .. Len(D)
    BY <1>1 DEF LabelAt
  <2>2. D[p + 1] \in Bytes
    BY <2>1
  <2>3. D[p + 1] \in Nat
    BY <2>2, BytesAssumption
  <2> QED
    BY <1>1, <2>3
<1>2. CASE PointerAt(D, p) /\ q = D[p + 1 + 1]
  <2>1. p + 1 + 1 \in 1 .. Len(D)
    BY <1>2 DEF PointerAt
  <2>2. D[p + 1 + 1] \in Bytes
    BY <2>1
  <2> QED
    BY <1>2, <2>2, BytesAssumption
<1> QED
  BY <1>1, <1>2 DEF Leads

\* A label is no pointer.
LEMMA OneLead ==
  ASSUME NEW D, NEW p, NEW q, NEW r, Leads(D, p, q), Leads(D, p, r)
  PROVE  q = r
BY DEF Leads, LabelAt, PointerAt

LEMMA MoveLeads ==
  ASSUME NEW D \in Seq(Bytes), NEW w \in Paths
  PROVE  /\ Move(D, w) \in Paths
         /\ GoesOn(D, w[Len(w)]) => \E q \in Nat : Leads(D, w[Len(w)], q) /\ Move(D, w) = Append(w, q)
         /\ ~ GoesOn(D, w[Len(w)]) => Move(D, w) = w
<1>1. PICK p \in Nat : p = w[Len(w)]
  BY DEF Paths
<1>2. CASE LabelAt(D, p)
  <2>1. PICK q : q = p + 1 + D[p + 1]
    OBVIOUS
  <2>2. Leads(D, p, q)
    BY <1>2, <2>1 DEF Leads
  <2>3. q \in Nat
    BY <2>2, LeadsType
  <2>4. Move(D, w) = Append(w, q)
    BY <1>1, <1>2, <2>1 DEF Move, Last, LabelAt, PointerAt
  <2>5. Append(w, q) \in Paths
    BY <2>3 DEF Paths
  <2> QED
    BY <1>1, <1>2, <2>2, <2>3, <2>4, <2>5 DEF GoesOn
<1>3. CASE PointerAt(D, p)
  <2>1. PICK q : q = D[p + 1 + 1]
    OBVIOUS
  <2>2. Leads(D, p, q)
    BY <1>3, <2>1 DEF Leads
  <2>3. q \in Nat
    BY <2>2, LeadsType
  <2>4. Move(D, w) = Append(w, q)
    BY <1>1, <1>3, <2>1 DEF Move, Last, LabelAt, PointerAt
  <2>5. Append(w, q) \in Paths
    BY <2>3 DEF Paths
  <2> QED
    BY <1>1, <1>3, <2>2, <2>3, <2>4, <2>5 DEF GoesOn
<1>4. CASE ~ LabelAt(D, p) /\ ~ PointerAt(D, p)
  <2>1. Move(D, w) = w
    BY <1>1, <1>4 DEF Move, Last
  <2> QED
    BY <1>1, <1>4, <2>1 DEF GoesOn
<1> QED
  BY <1>2, <1>3, <1>4

LEMMA Appended ==
  ASSUME NEW w \in Seq(Nat), NEW q \in Nat
  PROVE  /\ Append(w, q) \in Seq(Nat) /\ Len(Append(w, q)) = Len(w) + 1
         /\ Append(w, q)[Len(w) + 1] = q
         /\ \A i \in 1 .. Len(w) : Append(w, q)[i] = w[i]
OBVIOUS

LEMMA PathGrows ==
  ASSUME NEW D \in Seq(Bytes), NEW w, NEW start, NEW k \in Nat, IsPath(D, w, start, k)
  PROVE  IsPath(D, Move(D, w), start, k + 1)
<1>1. w \in Paths /\ w[1] = start /\ \A i \in 1 .. Len(w) - 1 : Leads(D, w[i], w[i + 1])
  BY DEF IsPath
<1>2. CASE GoesOn(D, w[Len(w)])
  <2>1. PICK q \in Nat : Leads(D, w[Len(w)], q) /\ Move(D, w) = Append(w, q)
    BY <1>1, <1>2, MoveLeads
  <2>2. PICK n \in Nat : n = Len(w) /\ n = k + 1 /\ n > 0
    BY <1>1, <1>2 DEF IsPath, Paths
  <2>3. PICK v : v = Append(w, q)
    OBVIOUS
  <2>4. v \in Seq(Nat) /\ Len(v) = n + 1 /\ v[n + 1] = q /\ \A i \in 1 .. n : v[i] = w[i]
    <3>1. w \in Seq(Nat)
      BY <1>1 DEF Paths
    <3>2. /\ v \in Seq(Nat) /\ Len(v) = Len(w) + 1 /\ v[Len(w) + 1] = q
          /\ \A i \in 1 .. Len(w) : v[i] = w[i]
      BY <2>3, <3>1, Appended
    <3> QED
      BY <2>2, <3>2, Zenon
  <2>5. ASSUME NEW i \in 1 .. n PROVE Leads(D, v[i], v[i + 1])
    <3>1. CASE i = n
      BY <2>1, <2>2, <2>4, <3>1
    <3>2. CASE i # n
      <4>1. i \in 1 .. n - 1 /\ i + 1 \in 1 .. n
        BY <2>2, <3>2
      <4>2. Leads(D, w[i], w[i + 1]) /\ v[i] = w[i] /\ v[i + 1] = w[i + 1]
        BY <1>1, <2>2, <2>4, <4>1
      <4> QED
        BY <4>2
    <3> QED
      BY <3>1, <3>2
  <2>6. v \in Paths /\ v[1] = start
    BY <1>1, <2>2, <2>4 DEF Paths
  <2>7. IsPath(D, v, start, k + 1)
    BY <2>2, <2>4, <2>5, <2>6 DEF IsPath
  <2> QED
    BY <2>1, <2>3, <2>7
<1>3. CASE ~ GoesOn(D, w[Len(w)])
  <2>1. Move(D, w) = w
    BY <1>1, <1>3, MoveLeads
  <2> QED
    BY <1>1, <1>3, <2>1 DEF IsPath
<1> QED
  BY <1>2, <1>3

\* The walk of the property is a path of Steps(D) steps.
LEMMA WalkIsPath ==
  ASSUME NEW D \in Seq(Bytes), NEW start \in Nat
  PROVE  IsPath(D, WalkOn(D, start), start, Steps(D)) /\ Steps(D) \in Nat
<1> DEFINE f == CHOOSE f : f = [i \in 0 .. Steps(D) |->
                  IF i = 0 THEN <<start>>
                  ELSE CASE LabelAt(D, Last(f[i - 1]))   -> Append(f[i - 1], Last(f[i - 1]) + 1 + D[Last(f[i - 1]) + 1])
                         [] PointerAt(D, Last(f[i - 1])) -> Append(f[i - 1], D[Last(f[i - 1]) + 1 + 1])
                         [] OTHER                        -> f[i - 1]]
<1>1. WalkOn(D, start) = f[Steps(D)]
  BY Zenon DEF WalkOn, Go
<1>2. PICK n \in Nat : n = Steps(D)
  <2>1. Len(D) \in Nat /\ MaxJumps + 1 \in Nat
    BY LimitsAssumption
  <2> QED
    BY <2>1 DEF Steps
<1>3. PICK g \in [0 .. n -> Paths] : g[0] = <<start>> /\ \A i \in 1 .. n : g[i] = Move(D, g[i - 1])
  <2> DEFINE step == [q \in Paths \X Nat |-> Move(D, q[1])]
  <2>1. IsStep(step, Paths)
    <3>1. \A q \in Paths \X Nat : Move(D, q[1]) \in Paths
      BY MoveLeads
    <3> QED
      BY <3>1 DEF IsStep
  <2>2. \A w \in Paths, i \in Nat : step[<<w, i>>] = Move(D, w)
    OBVIOUS
  <2> HIDE DEF step
  <2>3. <<start>> \in Paths
    BY DEF Paths
  <2>4. PICK g : Iterates(g, n, Paths, <<start>>, step)
    BY <1>2, <2>1, <2>3, Recursion
  <2>5. g \in [0 .. n -> Paths] /\ g[0] = <<start>>
    BY <2>4 DEF Iterates
  <2>6. ASSUME NEW i \in 1 .. n PROVE g[i] = Move(D, g[i - 1])
    <3>1. i - 1 \in 0 .. n /\ i \in Nat
      BY <1>2
    <3>2. g[i - 1] \in Paths
      BY <2>5, <3>1
    <3>3. g[i] = step[<<g[i - 1], i>>]
      BY <2>4 DEF Iterates
    <3> QED
      BY <2>2, <3>1, <3>2, <3>3
  <2> QED
    BY <2>5, <2>6
<1>4. f = [i \in 0 .. Steps(D) |->
            IF i = 0 THEN <<start>>
            ELSE CASE LabelAt(D, Last(f[i - 1]))   -> Append(f[i - 1], Last(f[i - 1]) + 1 + D[Last(f[i - 1]) + 1])
                   [] PointerAt(D, Last(f[i - 1])) -> Append(f[i - 1], D[Last(f[i - 1]) + 1 + 1])
                   [] OTHER                        -> f[i - 1]]
  <2>1. g = [i \in 0 .. Steps(D) |->
              IF i = 0 THEN <<start>>
              ELSE CASE LabelAt(D, Last(g[i - 1]))   -> Append(g[i - 1], Last(g[i - 1]) + 1 + D[Last(g[i - 1]) + 1])
                     [] PointerAt(D, Last(g[i - 1])) -> Append(g[i - 1], D[Last(g[i - 1]) + 1 + 1])
                     [] OTHER                        -> g[i - 1]]
    <3>1. ASSUME NEW i \in 0 .. n
          PROVE  g[i] = IF i = 0 THEN <<start>>
                        ELSE CASE LabelAt(D, Last(g[i - 1]))   -> Append(g[i - 1], Last(g[i - 1]) + 1 + D[Last(g[i - 1]) + 1])
                               [] PointerAt(D, Last(g[i - 1])) -> Append(g[i - 1], D[Last(g[i - 1]) + 1 + 1])
                               [] OTHER                        -> g[i - 1]
      <4>1. CASE i = 0
        BY <1>3, <4>1
      <4>2. CASE i # 0
        <5>1. g[i] = Move(D, g[i - 1])
          BY <1>2, <1>3, <4>2
        <5> QED
          BY <4>2, <5>1, Zenon DEF Move
      <4> QED
        BY <4>1, <4>2
    <3> QED
      BY <1>2, <1>3, <3>1
  <2> QED
    BY <2>1
<1>5. f[0] = <<start>> /\ \A i \in 1 .. n : f[i] = Move(D, f[i - 1])
  <2> HIDE DEF f
  <2>1. f[0] = <<start>>
    BY <1>2, <1>4
  <2>2. ASSUME NEW i \in 1 .. n PROVE f[i] = Move(D, f[i - 1])
    <3>1. i \in 0 .. Steps(D) /\ i # 0
      BY <1>2
    <3> QED
      BY <1>4, <3>1, Zenon DEF Move
  <2> QED
    BY <2>1, <2>2
<1> HIDE DEF f
<1> DEFINE T == {k \in Nat : k <= n => IsPath(D, f[k], start, k)}
<1>6. 0 \in T
  <2>1. IsPath(D, <<start>>, start, 0)
    BY DEF IsPath, Paths
  <2> QED
    BY <1>5, <2>1
<1>7. ASSUME NEW k \in Nat, k \in T PROVE k + 1 \in T
  <2>1. CASE k + 1 <= n
    <3>1. IsPath(D, f[k], start, k) /\ f[k + 1] = Move(D, f[k])
      <4>1. k + 1 \in 1 .. n /\ (k + 1) - 1 = k /\ k <= n
        BY <1>2, <2>1
      <4> QED
        BY <1>5, <1>7, <4>1
    <3>2. IsPath(D, f[k + 1], start, k + 1)
      BY <3>1, PathGrows
    <3> QED
      BY <3>2
  <2> QED
    BY <2>1
<1>8. n \in T
  <2> HIDE DEF T
  <2> QED
    BY <1>2, <1>6, <1>7, SetInduction
<1> QED
  BY <1>1, <1>2, <1>8

LEMMA UptoFacts ==
  ASSUME NEW D, NEW w \in Seq(Nat)
  PROVE  /\ Upto(D, w)[0] = <<>>
         /\ \A i \in 1 .. Len(w) :
              Upto(D, w)[i] = IF LabelAt(D, w[i]) THEN Append(Upto(D, w)[i - 1], w[i])
                                                  ELSE Upto(D, w)[i - 1]
<1> DEFINE f == CHOOSE f : f = [i \in 0 .. Len(w) |->
                  CASE i = 0 -> <<>>
                    [] i > 0 /\ LabelAt(D, w[i]) -> Append(f[i - 1], w[i])
                    [] OTHER -> f[i - 1]]
           Extend(s, i) == IF LabelAt(D, w[i]) THEN Append(s, w[i]) ELSE s
<1>1. Upto(D, w) = f
  BY Zenon DEF Upto
<1>2. PICK n \in Nat : n = Len(w)
  OBVIOUS
<1>3. PICK g \in [0 .. n -> Offsets] : g[0] = <<>> /\ \A i \in 1 .. n : g[i] = Extend(g[i - 1], i)
  <2> DEFINE step == [q \in Offsets \X Nat |-> IF q[2] \in 1 .. n THEN Extend(q[1], q[2]) ELSE q[1]]
  <2>1. IsStep(step, Offsets)
    <3>1. ASSUME NEW q \in Offsets \X Nat
          PROVE  (IF q[2] \in 1 .. n THEN Extend(q[1], q[2]) ELSE q[1]) \in Offsets
      <4>1. CASE q[2] \in 1 .. n
        <5>1. w[q[2]] \in Nat
          BY <1>2, <4>1
        <5> QED
          BY <4>1, <5>1 DEF Offsets
      <4> QED
        BY <4>1
    <3> QED
      BY <3>1 DEF IsStep
  <2>2. ASSUME NEW s \in Offsets, NEW i \in 1 .. n PROVE step[<<s, i>>] = Extend(s, i)
    OBVIOUS
  <2> HIDE DEF step, Extend
  <2>3. <<>> \in Offsets
    BY DEF Offsets
  <2>4. PICK g : Iterates(g, n, Offsets, <<>>, step)
    BY <1>2, <2>1, <2>3, Recursion
  <2>5. g \in [0 .. n -> Offsets] /\ g[0] = <<>>
    BY <2>4 DEF Iterates
  <2>6. ASSUME NEW i \in 1 .. n PROVE g[i] = Extend(g[i - 1], i)
    <3>1. i - 1 \in 0 .. n
      BY <1>2
    <3>2. g[i - 1] \in Offsets
      BY <2>5, <3>1
    <3>3. g[i] = step[<<g[i - 1], i>>]
      BY <2>4 DEF Iterates
    <3> QED
      BY <2>2, <3>2, <3>3
  <2> QED
    BY <2>5, <2>6
<1>4. f = [i \in 0 .. Len(w) |->
            CASE i = 0 -> <<>>
              [] i > 0 /\ LabelAt(D, w[i]) -> Append(f[i - 1], w[i])
              [] OTHER -> f[i - 1]]
  <2>1. g = [i \in 0 .. Len(w) |->
              CASE i = 0 -> <<>>
                [] i > 0 /\ LabelAt(D, w[i]) -> Append(g[i - 1], w[i])
                [] OTHER -> g[i - 1]]
    <3>1. ASSUME NEW i \in 0 .. n
          PROVE  g[i] = CASE i = 0 -> <<>>
                          [] i > 0 /\ LabelAt(D, w[i]) -> Append(g[i - 1], w[i])
                          [] OTHER -> g[i - 1]
      <4>1. CASE i = 0
        BY <1>3, <4>1
      <4>2. CASE i # 0
        <5>1. i \in 1 .. n /\ i > 0
          BY <1>2, <4>2
        <5>2. g[i] = Extend(g[i - 1], i)
          BY <1>3, <5>1, Zenon
        <5> QED
          BY <4>2, <5>1, <5>2
      <4> QED
        BY <4>1, <4>2
    <3> QED
      BY <1>2, <1>3, <3>1
  <2> QED
    BY <2>1
<1> HIDE DEF f
<1>5. f[0] = <<>>
  BY <1>2, <1>4
<1>6. ASSUME NEW i \in 1 .. n PROVE f[i] = Extend(f[i - 1], i)
  <2>1. i \in 0 .. Len(w) /\ i # 0 /\ i > 0
    BY <1>2
  <2> QED
    BY <1>4, <2>1
<1> QED
  BY <1>1, <1>2, <1>5, <1>6

\* The pointers among the first i places.
PointersTo(D, w, i) == Cardinality({j \in 1 .. i : PointerAt(D, w[j])})

LEMMA PointersFinite ==
  ASSUME NEW D, NEW w, NEW i \in Nat
  PROVE  /\ IsFiniteSet({j \in 1 .. i : PointerAt(D, w[j])})
         /\ PointersTo(D, w, i) \in Nat
<1>1. IsFiniteSet(1 .. i)
  BY FS_Interval
<1>2. IsFiniteSet({j \in 1 .. i : PointerAt(D, w[j])})
  BY <1>1, FS_Subset
<1> QED
  BY <1>2, FS_CardinalityType DEF PointersTo

LEMMA PointersCounted ==
  ASSUME NEW D, NEW w, NEW i \in Nat, NEW k \in Nat
  PROVE  /\ PointersTo(D, w, 0) = 0
         /\ PointerAt(D, w[i + 1]) => PointersTo(D, w, i + 1) = PointersTo(D, w, i) + 1
         /\ ~ PointerAt(D, w[i + 1]) => PointersTo(D, w, i + 1) = PointersTo(D, w, i)
         /\ i <= k => PointersTo(D, w, i) <= PointersTo(D, w, k)
<1> DEFINE P(n) == {j \in 1 .. n : PointerAt(D, w[j])}
<1>1. PointersTo(D, w, 0) = 0
  <2>1. P(0) = {}
    OBVIOUS
  <2> QED
    BY <2>1, FS_EmptySet DEF PointersTo
<1>2. ASSUME PointerAt(D, w[i + 1]) PROVE PointersTo(D, w, i + 1) = PointersTo(D, w, i) + 1
  <2>1. P(i + 1) = P(i) \cup {i + 1} /\ i + 1 \notin P(i)
    BY <1>2
  <2>2. IsFiniteSet(P(i))
    BY PointersFinite
  <2> HIDE DEF P
  <2>3. Cardinality(P(i) \cup {i + 1}) = Cardinality(P(i)) + 1
    BY <2>1, <2>2, FS_AddElement
  <2>4. Cardinality(P(i + 1)) = Cardinality(P(i)) + 1
    BY <2>1, <2>3, Zenon
  <2> QED
    BY <2>4 DEF PointersTo, P
<1>3. ASSUME ~ PointerAt(D, w[i + 1]) PROVE PointersTo(D, w, i + 1) = PointersTo(D, w, i)
  <2>1. P(i + 1) = P(i)
    BY <1>3
  <2> QED
    BY <2>1, Zenon DEF PointersTo
<1>4. ASSUME i <= k PROVE PointersTo(D, w, i) <= PointersTo(D, w, k)
  <2>1. P(i) \subseteq P(k)
    BY <1>4
  <2>2. IsFiniteSet(P(k))
    BY PointersFinite
  <2> HIDE DEF P
  <2>3. Cardinality(P(i)) <= Cardinality(P(k))
    BY <2>1, <2>2, FS_Subset
  <2> QED
    BY <2>3 DEF PointersTo, P
<1> QED
  BY <1>1, <1>2, <1>3, <1>4

-----------------------------------------------------------------------------
(***************************************************************************)
(* read_name on the walk                                                   *)
(***************************************************************************)
\* The name's own bytes end at the j-th place.
OwnPlace(D, w, j) == ~ LabelAt(D, w[j]) /\ \A i \in 1 .. j - 1 : LabelAt(D, w[i])

\* read_name's locals r and the cursor p, at the m-th place of the walk w.  The
\* jumps and the offset bound how far it has come.
ReaderIn(D, w, r, p, m) ==
  /\ m \in 1 .. Len(w)
  /\ r \in Locals
  /\ r.curr_pos = w[m] /\ r.curr_pos <= Len(D)
  /\ r.labels = Upto(D, w)[m - 1]
  /\ r.jumps = PointersTo(D, w, m - 1) /\ r.jumps <= MaxJumps
  /\ m - 1 <= r.jumps * Len(D) + r.curr_pos
  /\ r.jumped => \E j \in 1 .. m - 1 : OwnPlace(D, w, j) /\ PointerAt(D, w[j]) /\ p = w[j] + 2
  /\ ~ r.jumped => \A j \in 1 .. m - 1 : LabelAt(D, w[j])

LEMMA StepsLeft ==
  ASSUME NEW a \in Nat, NEW b \in Nat, NEW c \in Nat, NEW l \in Nat, NEW k \in Nat,
         k <= a * l + c, c < l, a <= b
  PROVE  k < (b + 1) * l
<1>1. PICK d \in Nat : d = b - a
  OBVIOUS
<1>2. b = a + d
  BY <1>1
<1>3. (a + d + 1) * l = a * l + d * l + l
  OBVIOUS
<1>4. d * l \in Nat /\ a * l \in Nat
  OBVIOUS
<1> QED
  BY <1>2, <1>3, <1>4

\* The walk of the property is long enough for the reader.
LEMMA StaysInside ==
  ASSUME NEW D \in Seq(Bytes), NEW start \in Nat, NEW w, IsPath(D, w, start, Steps(D)),
         NEW r, NEW p, NEW m, ReaderIn(D, w, r, p, m), GoesOn(D, r.curr_pos)
  PROVE  /\ m \in 1 .. Len(w) - 1 /\ m + 1 \in 1 .. Len(w) /\ Leads(D, r.curr_pos, w[m + 1])
         /\ r.curr_pos < Len(D)
<1>1. w \in Seq(Nat) /\ m \in 1 .. Len(w) /\ r.curr_pos = w[m]
  BY DEF IsPath, Paths, ReaderIn
<1>2. PICK l \in Nat, c \in Nat, a \in Nat, k \in Nat, n \in Nat :
        l = Len(D) /\ c = r.curr_pos /\ a = r.jumps /\ k = m - 1 /\ n = Len(w)
  <2>1. r.curr_pos \in Nat /\ r.jumps \in Nat
    BY DEF ReaderIn, Locals
  <2>2. m - 1 \in Nat /\ Len(w) \in Nat /\ Len(D) \in Nat
    BY <1>1
  <2> QED
    BY <2>1, <2>2
<1>3. c < l
  BY <1>2 DEF GoesOn, LabelAt, PointerAt
<1>4. k <= a * l + c /\ a <= MaxJumps
  BY <1>2 DEF ReaderIn
<1>5. k < (MaxJumps + 1) * l
  BY <1>3, <1>4, StepsLeft, LimitsAssumption
<1>6. m # n
  <2> SUFFICES ASSUME m = n PROVE FALSE
    OBVIOUS
  <2>1. GoesOn(D, w[Len(w)])
    BY <1>1, <1>2
  <2>2. n = Steps(D) + 1
    BY <1>2, <2>1 DEF IsPath
  <2>3. Steps(D) = (MaxJumps + 1) * l
    BY <1>2 DEF Steps
  <2>4. Steps(D) \in Nat
    BY WalkIsPath
  <2>5. k = Steps(D)
    BY <1>2, <2>2, <2>4
  <2> QED
    BY <1>5, <2>3, <2>4, <2>5
<1>7. m \in 1 .. n - 1 /\ m + 1 \in 1 .. n
  BY <1>1, <1>2, <1>6
<1> QED
  BY <1>1, <1>2, <1>3, <1>7 DEF IsPath

LEMMA ReaderStarts ==
  ASSUME NEW D \in Seq(Bytes), NEW start \in Nat, start <= Len(D), NEW p,
         NEW w, IsPath(D, w, start, Steps(D))
  PROVE  ReaderIn(D, w, Reading(start, TRUE), p, 1)
<1>1. w \in Seq(Nat) /\ w # <<>> /\ w[1] = start
  BY DEF IsPath, Paths
<1>2. PICK r \in Locals : r = Reading(start, TRUE)
  BY ReadingType
<1>3. r.curr_pos = start /\ r.jumped = FALSE /\ r.labels = <<>> /\ r.jumps = 0
  BY <1>2 DEF Reading
<1>4. Upto(D, w)[0] = <<>> /\ PointersTo(D, w, 0) = 0 /\ 1 - 1 = 0
  BY <1>1, UptoFacts, PointersCounted
<1>5. 1 \in 1 .. Len(w)
  BY <1>1
<1>6. 0 <= 0 * Len(D) + start /\ 0 <= MaxJumps
  BY LimitsAssumption
<1>7. \A j \in 1 .. 1 - 1 : LabelAt(D, w[j])
  OBVIOUS
<1> QED
  BY <1>1, <1>2, <1>3, <1>4, <1>5, <1>6, <1>7 DEF ReaderIn

LEMMA ReaderAtLabel ==
  ASSUME NEW D \in Seq(Bytes), NEW start \in Nat, NEW w, IsPath(D, w, start, Steps(D)),
         NEW r, NEW p, NEW m, ReaderIn(D, w, r, p, m), LabelAt(D, r.curr_pos),
         NEW s \in Locals, NEW q,
         s.curr_pos = r.curr_pos + 1 + D[r.curr_pos + 1],
         s.labels = Append(r.labels, r.curr_pos),
         s.jumps = r.jumps, s.jumped = r.jumped, r.jumped => q = p
  PROVE  ReaderIn(D, w, s, q, m + 1)
<1>1. /\ m \in 1 .. Len(w) - 1 /\ m + 1 \in 1 .. Len(w) /\ Leads(D, r.curr_pos, w[m + 1])
      /\ w \in Seq(Nat) /\ r.curr_pos = w[m]
  BY StaysInside DEF GoesOn, IsPath, Paths, ReaderIn
<1>2. PICK x : x = s.curr_pos
  OBVIOUS
<1>3. Leads(D, r.curr_pos, x)
  BY <1>2 DEF Leads
<1>4. s.curr_pos = w[m + 1]
  BY <1>1, <1>2, <1>3, OneLead
<1>5. PICK k \in Nat : k = m - 1 /\ k + 1 = m /\ (m + 1) - 1 = m /\ m \in Nat /\ m \in 1 .. Len(w)
  BY <1>1
<1>6. ~ PointerAt(D, w[m])
  BY <1>1 DEF LabelAt, PointerAt
<1>7. PointersTo(D, w, m) = PointersTo(D, w, m - 1)
  BY <1>5, <1>6, PointersCounted
<1>8. Upto(D, w)[m] = Append(Upto(D, w)[m - 1], w[m])
  BY <1>1, <1>5, UptoFacts
<1>9. r.curr_pos \in Nat /\ s.curr_pos \in Nat /\ r.jumps \in Nat
  BY DEF ReaderIn, Locals
<1>10. s.curr_pos <= Len(D) /\ r.curr_pos + 1 <= s.curr_pos
  <2>1. r.curr_pos + 1 \in 1 .. Len(D)
    BY <1>9 DEF LabelAt
  <2>2. D[r.curr_pos + 1] \in Bytes
    BY <2>1
  <2>3. D[r.curr_pos + 1] \in Nat
    BY <2>2, BytesAssumption
  <2> QED
    BY <1>9, <2>3 DEF LabelAt
<1>11. m <= s.jumps * Len(D) + s.curr_pos
  <2>1. PICK z \in Nat : z = r.jumps * Len(D)
    BY <1>9
  <2>2. m - 1 <= z + r.curr_pos
    BY <2>1 DEF ReaderIn
  <2>3. m <= z + s.curr_pos
    BY <1>5, <1>9, <1>10, <2>2
  <2> QED
    BY <2>1, <2>3
<1>12. s.jumped => \E j \in 1 .. m : OwnPlace(D, w, j) /\ PointerAt(D, w[j]) /\ q = w[j] + 2
  <2> SUFFICES ASSUME s.jumped
               PROVE  \E j \in 1 .. m : OwnPlace(D, w, j) /\ PointerAt(D, w[j]) /\ q = w[j] + 2
    OBVIOUS
  <2>1. PICK j \in 1 .. m - 1 : OwnPlace(D, w, j) /\ PointerAt(D, w[j]) /\ p = w[j] + 2
    BY DEF ReaderIn
  <2>2. j \in 1 .. m
    BY <1>5
  <2> QED
    BY <2>1, <2>2
<1>13. ~ s.jumped => \A j \in 1 .. m : LabelAt(D, w[j])
  <2> SUFFICES ASSUME ~ s.jumped, NEW j \in 1 .. m PROVE LabelAt(D, w[j])
    OBVIOUS
  <2>1. j \in 1 .. m - 1 \/ j = m
    BY <1>5
  <2> QED
    BY <1>1, <2>1 DEF ReaderIn
<1>14. r.labels = Upto(D, w)[m - 1] /\ r.jumps = PointersTo(D, w, m - 1) /\ r.jumps <= MaxJumps
  BY DEF ReaderIn
<1>15. s.labels = Upto(D, w)[m] /\ s.jumps = PointersTo(D, w, m) /\ s.jumps <= MaxJumps
  BY <1>1, <1>7, <1>8, <1>14, Zenon
<1> QED
  BY <1>1, <1>4, <1>5, <1>10, <1>11, <1>12, <1>13, <1>15 DEF ReaderIn

LEMMA ReaderAtPointer ==
  ASSUME NEW D \in Seq(Bytes), NEW start \in Nat, NEW w, IsPath(D, w, start, Steps(D)),
         NEW r, NEW p, NEW m, ReaderIn(D, w, r, p, m), PointerAt(D, r.curr_pos),
         r.jumps < MaxJumps, NEW s \in Locals, NEW q,
         s.curr_pos = D[r.curr_pos + 1 + 1], s.labels = r.labels,
         s.jumps = r.jumps + 1, s.jumped = TRUE,
         q = IF r.jumped THEN p ELSE r.curr_pos + 2
  PROVE  ReaderIn(D, w, s, q, m + 1)
<1>1. /\ m \in 1 .. Len(w) - 1 /\ m + 1 \in 1 .. Len(w) /\ Leads(D, r.curr_pos, w[m + 1])
      /\ w \in Seq(Nat) /\ r.curr_pos = w[m]
  BY StaysInside DEF GoesOn, IsPath, Paths, ReaderIn
<1>2. PICK x : x = s.curr_pos
  OBVIOUS
<1>3. Leads(D, r.curr_pos, x)
  BY <1>2 DEF Leads
<1>4. s.curr_pos = w[m + 1]
  BY <1>1, <1>2, <1>3, OneLead
<1>5. PICK k \in Nat : k = m - 1 /\ k + 1 = m /\ (m + 1) - 1 = m /\ m \in Nat /\ m \in 1 .. Len(w)
  BY <1>1
<1>6. PointerAt(D, w[m]) /\ ~ LabelAt(D, w[m])
  BY <1>1 DEF LabelAt, PointerAt
<1>7. PointersTo(D, w, m) = PointersTo(D, w, m - 1) + 1
  BY <1>5, <1>6, PointersCounted
<1>8. Upto(D, w)[m] = Upto(D, w)[m - 1]
  BY <1>1, <1>5, <1>6, UptoFacts
<1>9. r.curr_pos \in Nat /\ s.curr_pos \in Nat /\ r.jumps \in Nat
  BY DEF ReaderIn, Locals
<1>10. s.curr_pos <= Len(D) /\ r.curr_pos + 1 <= Len(D)
  BY <1>9 DEF PointerAt
<1>11. m <= s.jumps * Len(D) + s.curr_pos
  <2>1. PICK z \in Nat, l \in Nat : l = Len(D) /\ z = r.jumps * l
    <3>1. Len(D) \in Nat
      OBVIOUS
    <3>2. r.jumps * Len(D) \in Nat
      BY <1>9, <3>1
    <3> QED
      BY <3>1, <3>2
  <2>2. m - 1 <= z + r.curr_pos
    BY <2>1 DEF ReaderIn
  <2>3. m <= z + l
    <3>1. PICK c \in Nat, n \in Nat : c = r.curr_pos /\ n = m
      BY <1>5, <1>9
    <3>2. n - 1 <= z + c /\ c + 1 <= l
      BY <1>10, <2>1, <2>2, <3>1
    <3>3. n <= z + l
      BY <3>2
    <3> QED
      BY <3>1, <3>3
  <2>4. s.jumps * l = z + l
    <3>1. (r.jumps + 1) * l = r.jumps * l + l
      BY <1>9, <2>1
    <3> QED
      BY <2>1, <3>1
  <2>5. m <= s.jumps * l + s.curr_pos
    <3>1. PICK c \in Nat, n \in Nat, y \in Nat : c = s.curr_pos /\ n = m /\ y = z + l
      BY <1>5, <1>9
    <3>2. n <= y + c
      BY <2>3, <3>1
    <3> QED
      BY <2>4, <3>1, <3>2
  <2> QED
    BY <2>1, <2>5
<1>12. \E j \in 1 .. m : OwnPlace(D, w, j) /\ PointerAt(D, w[j]) /\ q = w[j] + 2
  <2>1. CASE r.jumped
    <3>1. PICK j \in 1 .. m - 1 : OwnPlace(D, w, j) /\ PointerAt(D, w[j]) /\ p = w[j] + 2
      BY <2>1 DEF ReaderIn
    <3>2. j \in 1 .. m /\ q = p
      BY <1>5, <2>1
    <3> QED
      BY <3>1, <3>2
  <2>2. CASE ~ r.jumped
    <3>1. \A i \in 1 .. m - 1 : LabelAt(D, w[i])
      BY <2>2 DEF ReaderIn
    <3>2. OwnPlace(D, w, m) /\ q = w[m] + 2 /\ m \in 1 .. m
      BY <1>1, <1>5, <1>6, <2>2, <3>1 DEF OwnPlace
    <3> QED
      BY <1>6, <3>2
  <2> QED
    BY <2>1, <2>2
<1>13. r.labels = Upto(D, w)[m - 1] /\ r.jumps = PointersTo(D, w, m - 1)
  BY DEF ReaderIn
<1>14. s.labels = Upto(D, w)[m] /\ s.jumps = PointersTo(D, w, m)
  BY <1>1, <1>7, <1>8, <1>13, Zenon
<1>15. s.jumps <= MaxJumps
  BY <1>9, LimitsAssumption
<1> QED
  BY <1>1, <1>4, <1>5, <1>10, <1>11, <1>12, <1>14, <1>15 DEF ReaderIn

\* At the root label the reader is at the end of the walk.
LEMMA ReaderAtEnd ==
  ASSUME NEW D \in Seq(Bytes), NEW start \in Nat, NEW w, IsPath(D, w, start, Steps(D)),
         NEW r, NEW p, NEW m, ReaderIn(D, w, r, p, m), EndAt(D, r.curr_pos)
  PROVE  /\ EndAt(D, w[Len(w)]) /\ PointersTo(D, w, Len(w)) <= MaxJumps
         /\ r.labels = Upto(D, w)[Len(w)]
         /\ \E j \in 1 .. Len(w) :
              /\ OwnPlace(D, w, j)
              /\ (IF r.jumped THEN p ELSE r.curr_pos + 1)
                   = IF PointerAt(D, w[j]) THEN w[j] + 2 ELSE w[j] + 1
<1>1. /\ m \in 1 .. Len(w) /\ w \in Seq(Nat) /\ r.curr_pos = w[m]
      /\ \A i \in 1 .. Len(w) - 1 : Leads(D, w[i], w[i + 1])
  BY DEF IsPath, Paths, ReaderIn
<1>2. ~ LabelAt(D, w[m]) /\ ~ PointerAt(D, w[m])
  BY <1>1, BytesAssumption DEF EndAt, LabelAt, PointerAt
<1>3. m = Len(w)
  <2>1. m \notin 1 .. Len(w) - 1
    BY <1>1, <1>2 DEF Leads
  <2> QED
    BY <1>1, <2>1
<1>4. PICK k \in Nat : k = m - 1 /\ k + 1 = m
  BY <1>1
<1>5. PointersTo(D, w, m) = PointersTo(D, w, m - 1)
  BY <1>2, <1>4, PointersCounted
<1>6. Upto(D, w)[m] = Upto(D, w)[m - 1]
  BY <1>1, <1>2, UptoFacts
<1>7. r.labels = Upto(D, w)[m - 1] /\ r.jumps = PointersTo(D, w, m - 1) /\ r.jumps <= MaxJumps
  BY DEF ReaderIn
<1>8. CASE r.jumped
  <2>1. PICK j \in 1 .. m - 1 : OwnPlace(D, w, j) /\ PointerAt(D, w[j]) /\ p = w[j] + 2
    BY <1>8 DEF ReaderIn
  <2>2. j \in 1 .. Len(w)
    BY <1>1, <1>3
  <2> QED
    BY <1>1, <1>3, <1>5, <1>6, <1>7, <1>8, <2>1, <2>2
<1>9. CASE ~ r.jumped
  <2>1. \A i \in 1 .. m - 1 : LabelAt(D, w[i])
    BY <1>9 DEF ReaderIn
  <2>2. OwnPlace(D, w, m)
    BY <1>2, <2>1 DEF OwnPlace
  <2> QED
    BY <1>1, <1>2, <1>3, <1>5, <1>6, <1>7, <1>9, <2>2
<1> QED
  BY <1>8, <1>9

\* Where the reader cannot go on, the name is not legal.
LEMMA ReaderStuck ==
  ASSUME NEW D \in Seq(Bytes), NEW start \in Nat, NEW w, IsPath(D, w, start, Steps(D)),
         NEW r, NEW p, NEW m, ReaderIn(D, w, r, p, m),
         ~ EndAt(D, r.curr_pos), ~ LabelAt(D, r.curr_pos),
         ~ (PointerAt(D, r.curr_pos) /\ r.jumps < MaxJumps)
  PROVE  ~ (EndAt(D, w[Len(w)]) /\ PointersTo(D, w, Len(w)) <= MaxJumps)
<1>1. /\ m \in 1 .. Len(w) /\ w \in Seq(Nat) /\ r.curr_pos = w[m]
      /\ \A i \in 1 .. Len(w) - 1 : Leads(D, w[i], w[i + 1])
      /\ r.jumps = PointersTo(D, w, m - 1) /\ r.jumps <= MaxJumps /\ r.jumps \in Nat
  BY DEF IsPath, Paths, ReaderIn, Locals
<1>2. CASE PointerAt(D, w[m])
  <2>0. PICK n \in Nat : n = Len(w)
    BY <1>1
  <2>1. PICK k \in Nat : k = m - 1 /\ k + 1 = m /\ n = Len(w) /\ m <= n /\ m \in Nat
    BY <1>1, <2>0
  <2>2. PointersTo(D, w, m) = r.jumps + 1
    BY <1>1, <1>2, <2>1, PointersCounted
  <2>3. r.jumps + 1 > MaxJumps
    BY <1>1, <1>2, LimitsAssumption
  <2>4. PointersTo(D, w, m) <= PointersTo(D, w, n)
    BY <2>1, PointersCounted
  <2>5. PointersTo(D, w, n) \in Nat
    BY <2>1, PointersFinite
  <2>6. ~ (PointersTo(D, w, n) <= MaxJumps)
    BY <1>1, <2>2, <2>3, <2>4, <2>5, LimitsAssumption
  <2> QED
    BY <2>1, <2>6
<1>3. CASE ~ PointerAt(D, w[m])
  <2>1. m \notin 1 .. Len(w) - 1
    BY <1>1, <1>3 DEF Leads
  <2>2. m = Len(w)
    BY <1>1, <2>1
  <2> QED
    BY <1>1, <2>2
<1> QED
  BY <1>2, <1>3

-----------------------------------------------------------------------------
(***************************************************************************)
(* Names match the wire                                                    *)
(***************************************************************************)
LegalOn(D, w) == EndAt(D, w[Len(w)]) /\ PointersTo(D, w, Len(w)) <= MaxJumps

\* What was read, and where parsing goes on, are the walk's.
ReadOn(D, w, item) ==
  /\ LegalOn(D, w)
  /\ item.name = Upto(D, w)[Len(w)]
  /\ \E j \in 1 .. Len(w) :
       OwnPlace(D, w, j) /\ item.to = IF PointerAt(D, w[j]) THEN w[j] + 2 ELSE w[j] + 1

NameOn(D, item, w, st, res, r, p) ==
  /\ st = "name" /\ res = "parsing" /\ r # None => \E m : ReaderIn(D, w, r, p, m)
  /\ st = "fields" => ReadOn(D, w, item)
  /\ st = "name" /\ res = "error" => ~ LegalOn(D, w)

NamesInv ==
  items # <<>> =>
    NameOn(data, items[Len(items)], WalkOn(data, items[Len(items)].from), stage, result, name, pos)

\* The name at work, its walk and its reader.
LEMMA ReaderAtWork ==
  ASSUME DnsInv, NamesInv, InName, stage = "name"
  PROVE  \E start \in Nat : \E w, m :
           /\ start = items[Len(items)].from /\ w = WalkOn(data, start)
           /\ IsPath(data, w, start, Steps(data)) /\ ReaderIn(data, w, name, pos, m)
<1>1. items # <<>> /\ items[Len(items)].from \in Nat /\ data \in Seq(Bytes)
  BY NameAtWork DEF DnsInv, TypeInv
<1>2. PICK start \in Nat : start = items[Len(items)].from
  BY <1>1
<1>3. PICK w : w = WalkOn(data, start)
  OBVIOUS
<1>4. IsPath(data, w, start, Steps(data))
  BY <1>1, <1>3, WalkIsPath
<1>5. NameOn(data, items[Len(items)], w, stage, result, name, pos)
  BY <1>1, <1>2, <1>3 DEF NamesInv
<1>6. \E m : ReaderIn(data, w, name, pos, m)
  BY <1>5 DEF NameOn, InName
<1>7. PICK m : ReaderIn(data, w, name, pos, m)
  BY <1>6
<1> QED
  BY <1>2, <1>3, <1>4, <1>7

\* The same item's name is still being read.
LEMMA SameName ==
  ASSUME DnsInv, InName, stage = "name", NEW w, NEW m, w = WalkOn(data, items[Len(items)].from),
         ReaderIn(data, w, name', pos', m), UNCHANGED <<data, stage, items, result>>
  PROVE  NamesInv'
<1>1. NameOn(data, items[Len(items)], w, stage, result, name', pos')
  BY DEF NameOn, InName
<1> QED
  BY <1>1 DEF NamesInv

LEMMA NamesStart ==
  ASSUME DnsInv, StartItem
  PROVE  NamesInv'
<1>0. Item(<<>>).from = pos
  BY DEF Item
<1>1. PICK x : x = Item(<<>>) /\ x.from = pos
  BY <1>0
<1>2. items \in Seq(Parsing) /\ data \in Seq(Bytes) /\ pos \in Nat /\ pos <= Len(data)
  BY DEF StartItem, DnsInv, TypeInv, Size
<1>3. items'[Len(items')] = x
  <2>1. x \in Parsing
    <3>1. <<>> \in Offsets
      BY DEF Offsets
    <3>2. Head(want) \in {"question", "record"}
      BY DEF StartItem, DnsInv, TypeInv
    <3> QED
      BY <1>1, <1>2, <3>1, <3>2 DEF Item, Parsing
  <2>2. PICK new : new = Append(items, x)
    OBVIOUS
  <2>3. new[Len(new)] = x
    BY <1>2, <2>1, <2>2
  <2>4. items' = new
    BY <1>1, <2>2 DEF StartItem
  <2> QED
    BY <2>3, <2>4
<1>4. PICK w : w = WalkOn(data, pos)
  OBVIOUS
<1>5. IsPath(data, w, pos, Steps(data))
  BY <1>2, <1>4, WalkIsPath
<1>6. ReaderIn(data, w, Reading(pos, TRUE), pos, 1)
  BY <1>2, <1>5, ReaderStarts
<1>7. data' = data /\ pos' = pos /\ name' = Reading(pos, TRUE) /\ stage' = "name" /\ result' = result
      /\ result = "parsing"
  BY DEF StartItem
<1>8. NameOn(data, x, w, "name", "parsing", Reading(pos, TRUE), pos)
  BY <1>6 DEF NameOn
<1> QED
  BY <1>1, <1>3, <1>4, <1>7, <1>8 DEF NamesInv

LEMMA NamesLabel ==
  ASSUME DnsInv, NamesInv, NameLabel, stage = "name"
  PROVE  NamesInv'
<1>1. InName /\ IsLabel(At) /\ name \in Locals /\ name.own /\ data \in Seq(Bytes)
  BY NameAtWork DEF NameLabel, DnsInv, TypeInv
<1>2. PICK w, m, start :
        /\ start \in Nat
        /\ start = items[Len(items)].from /\ w = WalkOn(data, start)
        /\ IsPath(data, w, start, Steps(data)) /\ ReaderIn(data, w, name, pos, m)
  BY <1>1, ReaderAtWork
<1>3. LabelAt(data, name.curr_pos)
  BY <1>1, OnData DEF At
<1>4. name' \in Locals /\ name' = [name EXCEPT !.labels = Append(name.labels, name.curr_pos),
                                              !.curr_pos = name.curr_pos + 1 + data[name.curr_pos + 1]]
  <2>1. DnsInv'
    BY LabelStep
  <2>2. name' = [name EXCEPT !.labels = Append(name.labels, name.curr_pos),
                             !.curr_pos = name.curr_pos + 1 + data[name.curr_pos + 1]]
    BY DEF NameLabel, At, Byte
  <2>3. name'.labels \in Offsets /\ name'.curr_pos \in Nat
    <3>1. At \in Nat /\ At < Size
      BY <1>1, NameAtWork DEF IsLabel
    <3>2. Byte(At) \in Nat
      BY <3>1, ByteType DEF DnsInv
    <3>3. name.curr_pos \in Nat /\ data[name.curr_pos + 1] \in Nat /\ name.labels \in Seq(Nat)
      BY <1>1, <3>1, <3>2 DEF At, Byte, Locals, Offsets
    <3> QED
      BY <1>1, <2>2, <3>3 DEF Locals, Offsets
  <2> QED
    BY <1>1, <2>2, <2>3 DEF Locals
<1>5. /\ name'.curr_pos = name.curr_pos + 1 + data[name.curr_pos + 1]
      /\ name'.labels = Append(name.labels, name.curr_pos)
      /\ name'.jumps = name.jumps /\ name'.jumped = name.jumped
  BY <1>1, <1>4 DEF Locals
<1>6. name.jumped => pos' = pos
  BY DEF NameLabel, MoveCursor
<1>7. ReaderIn(data, w, name', pos', m + 1)
  BY <1>1, <1>2, <1>3, <1>4, <1>5, <1>6, ReaderAtLabel
<1> QED
  BY <1>1, <1>2, <1>7, SameName DEF NameLabel

LEMMA NamesPointer ==
  ASSUME DnsInv, NamesInv, NamePointer, stage = "name"
  PROVE  NamesInv'
<1>1. InName /\ IsPointer(At) /\ name \in Locals /\ name.own /\ data \in Seq(Bytes)
      /\ name.jumps < MaxJumps
  BY NameAtWork DEF NamePointer, DnsInv, TypeInv
<1>2. PICK w, m, start :
        /\ start \in Nat
        /\ start = items[Len(items)].from /\ w = WalkOn(data, start)
        /\ IsPath(data, w, start, Steps(data)) /\ ReaderIn(data, w, name, pos, m)
  BY <1>1, ReaderAtWork
<1>3. PointerAt(data, name.curr_pos)
  BY <1>1, OnData DEF At
<1>4. name' = [name EXCEPT !.jumped = TRUE, !.jumps = name.jumps + 1,
                           !.curr_pos = data[name.curr_pos + 1 + 1]]
  BY DEF NamePointer, At, Byte
<1>5. name' \in Locals
  <2>1. At \in Nat /\ At + 1 \in Nat /\ At + 1 < Size
    BY <1>1, NameAtWork DEF IsPointer
  <2>2. Byte(At + 1) \in Nat
    BY <2>1, ByteType DEF DnsInv
  <2>3. data[name.curr_pos + 1 + 1] \in Nat /\ name.jumps + 1 \in Nat
    BY <1>1, <2>2 DEF At, Byte, Locals
  <2> QED
    BY <1>1, <1>4, <2>3 DEF Locals
<1>6. /\ name'.curr_pos = data[name.curr_pos + 1 + 1] /\ name'.labels = name.labels
      /\ name'.jumps = name.jumps + 1 /\ name'.jumped = TRUE
  BY <1>1, <1>4 DEF Locals
<1>7. pos' = IF name.jumped THEN pos ELSE name.curr_pos + 2
  BY <1>1 DEF NamePointer, MoveCursor, At
<1>8. ReaderIn(data, w, name', pos', m + 1)
  BY <1>1, <1>2, <1>3, <1>5, <1>6, <1>7, ReaderAtPointer
<1> QED
  BY <1>1, <1>2, <1>8, SameName DEF NamePointer

LEMMA NamesEnd ==
  ASSUME DnsInv, NamesInv, NameEnd, stage = "name"
  PROVE  NamesInv'
<1>1. InName /\ IsEnd(At) /\ name \in Locals /\ name.own /\ data \in Seq(Bytes)
      /\ items \in Seq(Parsing) /\ items # <<>>
  BY NameAtWork DEF NameEnd, DnsInv, TypeInv
<1>2. PICK w, m, start :
        /\ start \in Nat
        /\ start = items[Len(items)].from /\ w = WalkOn(data, start)
        /\ IsPath(data, w, start, Steps(data)) /\ ReaderIn(data, w, name, pos, m)
  BY <1>1, ReaderAtWork
<1>3. EndAt(data, name.curr_pos)
  BY <1>1, OnData DEF At
<1>4. pos' = IF name.jumped THEN pos ELSE name.curr_pos + 1
  BY <1>1 DEF NameEnd, MoveCursor, At
<1>5. /\ LegalOn(data, w) /\ name.labels = Upto(data, w)[Len(w)]
      /\ \E j \in 1 .. Len(w) :
           OwnPlace(data, w, j) /\ pos' = IF PointerAt(data, w[j]) THEN w[j] + 2 ELSE w[j] + 1
  BY <1>1, <1>2, <1>3, <1>4, ReaderAtEnd DEF LegalOn
<1>6. PICK n \in Nat : n = Len(items) /\ n \in 1 .. n
  BY <1>1
<1>7. PICK x : x = [items[n] EXCEPT !.name = name.labels, !.to = pos']
  OBVIOUS
<1>8. items[n] \in Parsing
  BY <1>1, <1>6
<1>9. x.from = start /\ x.name = name.labels /\ x.to = pos'
  BY <1>2, <1>6, <1>7, <1>8 DEF Parsing
<1>10. Len(items') = n /\ items'[n] = x
  <2>1. items' = [items EXCEPT ![n] = x]
    BY <1>1, <1>6, <1>7 DEF NameEnd
  <2> QED
    BY <1>1, <1>6, <2>1
<1>11. ReadOn(data, w, x)
  BY <1>5, <1>9 DEF ReadOn
<1>12. stage' = "fields" /\ data' = data
  BY <1>1 DEF NameEnd
<1>13. NameOn(data, x, w, "fields", result', name', pos')
  BY <1>11 DEF NameOn
<1> QED
  BY <1>2, <1>9, <1>10, <1>12, <1>13 DEF NamesInv

LEMMA NamesFail ==
  ASSUME DnsInv, NamesInv, NameFails
  PROVE  NamesInv'
<1>1. InName /\ NameBad /\ name.own /\ Fail /\ data \in Seq(Bytes)
  BY DEF NameFails, DnsInv, TypeInv
<1>2. stage = "name"
  BY <1>1, NameAtWork
<1>3. PICK w, m, start :
        /\ start \in Nat
        /\ start = items[Len(items)].from /\ w = WalkOn(data, start)
        /\ IsPath(data, w, start, Steps(data)) /\ ReaderIn(data, w, name, pos, m)
  BY <1>1, <1>2, ReaderAtWork
<1>4. /\ ~ EndAt(data, name.curr_pos) /\ ~ LabelAt(data, name.curr_pos)
      /\ ~ (PointerAt(data, name.curr_pos) /\ name.jumps < MaxJumps)
  BY <1>1, OnData DEF NameBad, At
<1>5. ~ LegalOn(data, w)
  BY <1>1, <1>3, <1>4, ReaderStuck DEF LegalOn
<1>6. NameOn(data, items[Len(items)], w, "name", "error", name, pos)
  BY <1>5 DEF NameOn
<1> QED
  BY <1>1, <1>2, <1>3, <1>6 DEF NamesInv, Fail

LEMMA NamesInvariant == Spec => []NamesInv
<1>1. Init => NamesInv
  BY DEF Init, NamesInv
<1>2. DnsInv /\ NamesInv /\ [Next]_vars => NamesInv'
  <2> SUFFICES ASSUME DnsInv, NamesInv, [Next]_vars PROVE NamesInv'
    OBVIOUS
  <2>1. CASE StartItem
    BY <2>1, NamesStart
  <2>2. CASE stage' \in {"item", "rdata"}
    BY <2>2 DEF NamesInv, NameOn
  <2>3. CASE FieldsFail
    <3>1. stage = "fields" /\ Fail
      BY <2>3 DEF FieldsFail
    <3> QED
      BY <3>1 DEF NamesInv, NameOn, Fail
  <2>4. CASE NameEnd
    <3>1. stage \in {"name", "rdata"}
      BY <2>4, NameAtWork DEF NameEnd
    <3>2. CASE stage = "rdata"
      <4>1. ~ name.own
        BY <2>4, <3>2, NameAtWork DEF NameEnd
      <4>2. stage' = "item"
        BY <2>4, <4>1 DEF NameEnd, EndItem
      <4> QED
        BY <2>2, <4>2
    <3> QED
      BY <2>4, <3>1, <3>2, NamesEnd
  <2>5. CASE NamePointer
    <3>1. stage \in {"name", "rdata"} /\ stage' = stage
      BY <2>5, NameAtWork DEF NamePointer
    <3> QED
      BY <2>2, <2>5, <3>1, NamesPointer
  <2>6. CASE NameLabel
    <3>1. stage \in {"name", "rdata"} /\ stage' = stage
      BY <2>6, NameAtWork DEF NameLabel
    <3> QED
      BY <2>2, <2>6, <3>1, NamesLabel
  <2>7. CASE NameFails
    BY <2>7, NamesFail
  <2>8. CASE Parsed \/ QuestionFields \/ RecordFields \/ RdataNameFails
    <3>1. stage' \in {"item", "rdata"}
      BY <2>8 DEF Parsed, QuestionFields, RecordFields, RdataNameFails, EndItem
    <3> QED
      BY <2>2, <3>1
  <2>9. CASE UNCHANGED vars
    BY <2>9 DEF vars, NamesInv
  <2> QED
    BY <2>1, <2>3, <2>4, <2>5, <2>6, <2>7, <2>8, <2>9 DEF Next
<1> QED
  BY <1>1, <1>2, DnsInvariant, PTL DEF Spec

\* For messages of any length, any limit of jumps and any bytes: a name is read
\* if and only if its walk ends within the limit, it is the walk's labels, and
\* parsing goes on behind the name's own bytes (read_name).
THEOREM NamesAreOnTheWire == Spec => []NamesMatchWire
<1>1. DnsInv /\ NamesInv => NamesMatchWire
  <2> SUFFICES ASSUME DnsInv, NamesInv, items # <<>>
               PROVE  LET item == Last(items) IN
                        /\ stage = "fields" =>
                             /\ Legal(item.from) /\ item.name = Labels(Walk(item.from))
                             /\ item.to = OwnEnd(item.from)
                        /\ result = "error" /\ stage = "name" => ~ Legal(item.from)
    BY DEF NamesMatchWire
  <2>1. PICK item \in Parsing : item = Last(items) /\ item = items[Len(items)]
    BY DEF DnsInv, TypeInv, Last
  <2>2. PICK w : w = WalkOn(data, item.from)
    OBVIOUS
  <2>3. NameOn(data, item, w, stage, result, name, pos)
    BY <2>1, <2>2 DEF NamesInv
  <2>4. w = Walk(item.from)
    BY <2>2, WalkOnData
  <2>5. Legal(item.from) <=> LegalOn(data, w)
    <3>1. {i \in 1 .. Len(w) : IsPointer(w[i])} = {i \in 1 .. Len(w) : PointerAt(data, w[i])}
      BY OnData
    <3>2. Pointers(w) = PointersTo(data, w, Len(w))
      BY <3>1, Zenon DEF Pointers, PointersTo
    <3>3. IsEnd(Last(w)) <=> EndAt(data, w[Len(w)])
      BY OnData DEF Last
    <3> QED
      BY <2>4, <3>2, <3>3 DEF Legal, LegalOn
  <2>6. Labels(Walk(item.from)) = Upto(data, w)[Len(w)]
    BY <2>4, LabelsOnData
  <2>7. ASSUME NEW j \in 1 .. Len(w), OwnPlace(data, w, j), w \in Seq(Nat)
        PROVE  OwnEnd(item.from) = IF PointerAt(data, w[j]) THEN w[j] + 2 ELSE w[j] + 1
    <3> DEFINE walk     == Walk(item.from)
               First(i) == ~ IsLabel(walk[i]) /\ \A k \in 1 .. i - 1 : IsLabel(walk[k])
    <3>1. First(j)
      BY <2>4, <2>7, OnData DEF OwnPlace
    <3>2. ASSUME NEW i \in 1 .. Len(walk), First(i) PROVE i = j
      <4>1. ~ (i < j)
        BY <3>1, <3>2
      <4>2. ~ (j < i)
        BY <3>1, <3>2
      <4> QED
        BY <4>1, <4>2
    <3>3. j \in 1 .. Len(walk)
      BY <2>4, <2>7
    <3>4. (CHOOSE i \in 1 .. Len(walk) : First(i)) = j
      BY <3>1, <3>2, <3>3
    <3>5. OwnEnd(item.from) = IF IsPointer(walk[j]) THEN walk[j] + 2 ELSE walk[j] + 1
      <4> DEFINE n == CHOOSE i \in 1 .. Len(walk) : First(i)
      <4>1. OwnEnd(item.from) = IF IsPointer(walk[n]) THEN walk[n] + 2 ELSE walk[n] + 1
        BY Zenon DEF OwnEnd
      <4> QED
        BY <3>4, <4>1, Zenon
    <3> QED
      BY <2>4, <3>5, OnData
  <2>8. ASSUME stage = "fields" PROVE item.to = OwnEnd(item.from)
    <3>1. w \in Seq(Nat)
      <4>1. data \in Seq(Bytes) /\ item.from \in Nat
        BY DEF DnsInv, TypeInv, Parsing
      <4> QED
        BY <2>2, <4>1, WalkIsPath DEF IsPath, Paths
    <3>2. PICK j \in 1 .. Len(w) :
            OwnPlace(data, w, j) /\ item.to = IF PointerAt(data, w[j]) THEN w[j] + 2 ELSE w[j] + 1
      BY <2>3, <2>8 DEF NameOn, ReadOn
    <3> QED
      BY <2>7, <3>1, <3>2
  <2> QED
    BY <2>1, <2>3, <2>5, <2>6, <2>8 DEF NameOn, ReadOn
<1> QED
  BY <1>1, DnsInvariant, NamesInvariant, PTL
=============================================================================
