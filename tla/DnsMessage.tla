----------------------------- MODULE DnsMessage -----------------------------
(***************************************************************************)
(* Parsing a DNS message (crates/protocol/src/dns.rs: parse_dns,           *)
(* read_record and DnsCursor::read_name with its compression pointers).    *)
(*                                                                         *)
(* A message is a sequence of bytes, and offsets count from 0 as in the    *)
(* code.  Fields are shortened: the header to HeaderLen bytes, whose       *)
(* counts are given by `want`; type and class of a question to one byte,   *)
(* type, class and TTL of a record to one byte, rdlength to one byte.  A   *)
(* pointer is the byte Pointer and an offset.  A label is its position;    *)
(* how text and addresses are shown is left out.                           *)
(***************************************************************************)
EXTENDS Integers, Sequences, FiniteSets, SequencesExt

CONSTANTS
  Bytes,      \* byte values
  Pointer,    \* a byte with its two high bits set (0xC0)
  NameTypes,  \* record types whose RDATA is a name: CNAME, NS, PTR
  Messages,   \* the messages to be parsed
  Counts,     \* the sections a header may announce
  HeaderLen,  \* bytes of the header (12)
  MaxJumps,   \* MAX_JUMPS (10)
  None        \* no name is being read; RDATA that is not shown as a name

ASSUME BytesAssumption  == Bytes \subseteq Nat /\ Pointer \in Bytes \ {0}
ASSUME InputAssumption  == Messages \subseteq Seq(Bytes) /\ Counts \subseteq Seq({"question", "record"})
ASSUME LimitsAssumption == HeaderLen \in Nat /\ MaxJumps \in Nat

VARIABLES
  data,   \* the payload
  want,   \* the items still to be parsed
  pos,    \* DnsCursor.pos
  stage,  \* what parse_dns does next with the current item
  name,   \* read_name's locals, or None
  items,  \* the questions and records parsed: their offsets and names
  result  \* "parsing", "ok" or "error"

vars == <<data, want, pos, stage, name, items, result>>

Size == Len(data)

\* self.data[p]
Byte(p) == data[p + 1]

\* read_name's locals at its start; `own`: it reads at the message's cursor and
\* not at a cursor of its own.
Reading(start, own) ==
  [curr_pos |-> start, jumped |-> FALSE, jumps |-> 0, labels |-> <<>>, own |-> own]

Init ==
  /\ data \in Messages
  /\ want \in Counts
  /\ pos = HeaderLen
  /\ stage = "item"
  /\ name = None
  /\ items = <<>>
  /\ result = IF Size < HeaderLen THEN "error" ELSE "parsing"

Fail ==
  /\ result' = "error"
  /\ UNCHANGED <<data, want, pos, stage, name, items>>

\* The item that is being parsed starts where the one before it ended.
Item(labels) == [kind |-> Head(want), from |-> pos, to |-> pos, name |-> labels, shown |-> None]

(***************************************************************************)
(* parse_dns: questions, answers, authorities, additionals.                *)
(***************************************************************************)
StartItem ==
  /\ result = "parsing" /\ stage = "item" /\ want # <<>>
  /\ name' = Reading(pos, TRUE)
  /\ items' = Append(items, Item(<<>>))
  /\ stage' = "name"
  /\ UNCHANGED <<data, want, pos, result>>

Parsed ==
  /\ result = "parsing" /\ stage = "item" /\ want = <<>>
  /\ result' = "ok"
  /\ UNCHANGED <<data, want, pos, stage, name, items>>

\* The current item ends at offset p, and its RDATA is shown as the name `shown`.
EndItem(p, shown) ==
  /\ items' = [items EXCEPT ![Len(items)].to = p, ![Len(items)].shown = shown]
  /\ want' = Tail(want)
  /\ stage' = "item"

QuestionFields ==
  /\ result = "parsing" /\ stage = "fields" /\ Head(want) = "question"
  /\ pos + 1 <= Size
  /\ pos' = pos + 1
  /\ EndItem(pos', None)
  /\ UNCHANGED <<data, name, result>>

\* read_record after the name: RDATA that is a name is read by a cursor of its
\* own, which starts at the RDATA.
RecordFields ==
  /\ result = "parsing" /\ stage = "fields" /\ Head(want) = "record"
  /\ pos + 2 <= Size
  /\ LET rdlength == Byte(pos + 1) IN
       /\ pos + 2 + rdlength <= Size
       /\ pos' = pos + 2 + rdlength
       /\ IF Byte(pos) \in NameTypes
            THEN /\ name' = Reading(pos' - rdlength, FALSE)
                 /\ stage' = "rdata"
                 /\ UNCHANGED <<want, items>>
            ELSE /\ EndItem(pos', None)
                 /\ UNCHANGED name
  /\ UNCHANGED <<data, result>>

\* A read past the end.
FieldsFail ==
  /\ result = "parsing" /\ stage = "fields"
  /\ \/ Head(want) = "question" /\ pos + 1 > Size
     \/ Head(want) = "record" /\ pos + 2 > Size
     \/ Head(want) = "record" /\ pos + 2 <= Size /\ pos + 2 + Byte(pos + 1) > Size
  /\ Fail

(***************************************************************************)
(* read_name, one action per way through its loop.                         *)
(***************************************************************************)
\* What read_name finds at offset p and can follow: the root label, a label,
\* which is any other length byte, also one of 64 to 191, a pointer.
IsEnd(p)     == p < Size /\ Byte(p) = 0
IsLabel(p)   == p < Size /\ Byte(p) \notin {0, Pointer} /\ p + 1 + Byte(p) <= Size
IsPointer(p) == p + 1 < Size /\ Byte(p) = Pointer /\ Byte(p + 1) < Size

At == name.curr_pos

InName == result = "parsing" /\ name # None

\* Mutant of MoveCursor: the cursor follows the pointers.
MoveCursor_Follows(p) == IF name.own THEN p ELSE pos

\* Mutant of MoveCursor: a name in RDATA is read with the message's cursor.
MoveCursor_Shared(p) == IF ~ name.jumped THEN p ELSE pos

\* The cursor follows read_name up to its first pointer.
MoveCursor(p) == IF name.own /\ ~ name.jumped THEN p ELSE pos

NameEnd ==
  /\ InName
  /\ IsEnd(At)
  /\ pos' = MoveCursor(At + 1)
  /\ name' = None
  /\ IF name.own
       THEN /\ items' = [items EXCEPT ![Len(items)].name = name.labels,
                                      ![Len(items)].to = pos']
            /\ stage' = "fields"
            /\ UNCHANGED want
       ELSE EndItem(pos, name.labels)
  /\ UNCHANGED <<data, result>>

\* Mutant of NamePointer: the jumps are not counted.
NamePointer_Uncounted ==
  /\ InName
  /\ IsPointer(At)
  /\ pos' = MoveCursor(At + 2)
  /\ name' = [name EXCEPT !.jumped = TRUE, !.curr_pos = Byte(At + 1)]
  /\ UNCHANGED <<data, want, stage, items, result>>

NamePointer ==
  /\ InName
  /\ IsPointer(At)
  /\ name.jumps < MaxJumps
  /\ pos' = MoveCursor(At + 2)
  /\ name' = [name EXCEPT !.jumped = TRUE, !.jumps = @ + 1, !.curr_pos = Byte(At + 1)]
  /\ UNCHANGED <<data, want, stage, items, result>>

NameLabel ==
  /\ InName
  /\ IsLabel(At)
  /\ pos' = MoveCursor(At + 1 + Byte(At))
  /\ name' = [name EXCEPT !.labels = Append(@, At), !.curr_pos = At + 1 + Byte(At)]
  /\ UNCHANGED <<data, want, stage, items, result>>

\* UnexpectedEof, InvalidLabel and PointerLoop.
NameBad ==
  ~ (IsEnd(At) \/ IsLabel(At) \/ (IsPointer(At) /\ name.jumps < MaxJumps))

\* RDATA whose name does not parse is shown in hex.
RdataNameFails ==
  /\ InName /\ NameBad /\ ~ name.own
  /\ name' = None
  /\ EndItem(pos, None)
  /\ UNCHANGED <<data, pos, result>>

NameFails == InName /\ NameBad /\ name.own /\ Fail

Next ==
  \/ StartItem \/ Parsed \/ QuestionFields \/ RecordFields \/ FieldsFail
  \/ NameEnd \/ NamePointer \/ NameLabel \/ RdataNameFails \/ NameFails

Spec == Init /\ [][Next]_vars /\ WF_vars(Next)

-----------------------------------------------------------------------------
(***************************************************************************)
(* Properties                                                              *)
(***************************************************************************)

(***************************************************************************)
(* What a name is on the wire: the places its reader visits, label by      *)
(* label and pointer by pointer, without the locals and without a cursor.  *)
(***************************************************************************)
\* The walk from start, as long as a legal name's can be.
Walk(start) ==
  LET n == (MaxJumps + 1) * Size
      go[i \in 0 .. n] ==
        IF i = 0 THEN <<start>>
        ELSE LET walk == go[i - 1]
                 p    == Last(walk)
             IN  CASE IsLabel(p)   -> Append(walk, p + 1 + Byte(p))
                   [] IsPointer(p) -> Append(walk, Byte(p + 1))
                   [] OTHER        -> walk
  IN  go[n]

Pointers(walk) == Cardinality({i \in 1 .. Len(walk) : IsPointer(walk[i])})

Labels(walk) ==
  LET upto[i \in 0 .. Len(walk)] ==
        CASE i = 0 -> <<>>
          [] i > 0 /\ IsLabel(walk[i]) -> Append(upto[i - 1], walk[i])
          [] OTHER -> upto[i - 1]
  IN  upto[Len(walk)]

\* The name at start ends, after at most MaxJumps pointers.
Legal(start) == IsEnd(Last(Walk(start))) /\ Pointers(Walk(start)) <= MaxJumps

\* Where the name's own bytes end: after its first pointer, or its last label.
OwnEnd(start) ==
  LET walk == Walk(start)
      n    == CHOOSE i \in 1 .. Len(walk) :
                /\ ~ IsLabel(walk[i])
                /\ \A j \in 1 .. i - 1 : IsLabel(walk[j])
  IN  IF IsPointer(walk[n]) THEN walk[n] + 2 ELSE walk[n] + 1

\* A name is read if and only if the walk over its labels and pointers ends
\* within MAX_JUMPS jumps, it is the labels on that walk, and parsing goes on
\* behind the name's own bytes, wherever its pointers led (read_name).
NamesMatchWire ==
  items # <<>> =>
    LET item == Last(items) IN
      /\ stage = "fields" =>
           /\ Legal(item.from) /\ item.name = Labels(Walk(item.from))
           /\ item.to = OwnEnd(item.from)
      /\ result = "error" /\ stage = "name" => ~ Legal(item.from)

\* The items parsed lie side by side from the header on, none of them empty and
\* all within the message, so no count in a header yields more items than there
\* are bytes; a name in RDATA neither moves the cursor nor ends the parse.
ItemsTile ==
  /\ stage = "item" =>
       /\ \A i \in 1 .. Len(items) :
            /\ items[i].from = IF i = 1 THEN HeaderLen ELSE items[i - 1].to
            /\ items[i].from < items[i].to
       /\ pos = IF items = <<>> THEN HeaderLen ELSE Last(items).to
  /\ result # "error" => pos <= Size
  /\ stage = "rdata" => result = "parsing"

\* Parsing ends for every message, whatever its pointers point at.
ParseReturns == <>(result # "parsing")
=============================================================================
