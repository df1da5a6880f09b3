----------------------------- MODULE PluginIpc -----------------------------
(***************************************************************************)
(* A Python plugin as a detection rule: the engine's end of the two pipes  *)
(* (crates/detect/src/python_plugin.rs, PythonPluginRule) and the          *)
(* plugin's (plugins/python-sdk/ndap_plugin.py, run_plugin).               *)
(*                                                                         *)
(* One call of on_packet writes one line and reads one line back.  A line  *)
(* travels in chunks, and a pipe holds at most PipeCap of them.  The       *)
(* packet of call n is n; what it says is left out.  The plugin's rule may *)
(* print, hang or crash.                                                   *)
(***************************************************************************)
EXTENDS Integers, Sequences, FiniteSets

CONSTANTS
  MaxCalls,   \* bound: packets fed
  MaxChunks,  \* longest line, in chunks
  PipeCap,    \* chunks a pipe holds
  MaxPrints,  \* bound: lines the rule prints to stdout itself
  None        \* no line begun

ASSUME BoundsAssumption == MaxCalls \in Nat /\ MaxPrints \in Nat
ASSUME PipeAssumption   == MaxChunks \in Nat \ {0} /\ PipeCap \in Nat \ {0}
ASSUME NoneAssumption   == None \notin [of : Nat, alerts : BOOLEAN, left : Nat]

VARIABLES
  pc,        \* the engine: outside on_packet, writing, reading, or dropped
  calls,     \* calls of on_packet so far: the number of the current packet
  pending,   \* chunks the current call still has to write
  line,      \* response_line: the last chunk read of it, or None
  returned,  \* the calls that returned alerts, with the packet they are about
  to,        \* the plugin's stdin pipe
  from,      \* the plugin's stdout pipe
  plugin,    \* where run_plugin is: reading stdin, in the rule, writing; hung, dead
  current,   \* the packet run_plugin has read
  out,       \* what the plugin still has to write before it reads on
  raised,    \* packets the rule raised well-formed alerts for (history)
  printed    \* lines the rule printed (history)

engine  == <<pc, calls, pending, line, returned>>
process == <<plugin, current, out, raised, printed>>
vars    == <<engine, to, from, process>>

\* The chunks of a line about packet n; left counts the chunks after this one.
Line(n, alerts, size) ==
  [i \in 1 .. size |-> [of |-> n, alerts |-> alerts, left |-> size - i]]

\* spawn and from_command: both pipes are empty.
Init ==
  /\ pc = "idle" /\ calls = 0 /\ pending = <<>> /\ line = None /\ returned = <<>>
  /\ to = <<>> /\ from = <<>>
  /\ plugin = "reading" /\ current = 0 /\ out = <<>> /\ raised = {} /\ printed = 0

HasRoom(pipe) == Len(pipe) < PipeCap

(***************************************************************************)
(* on_packet in the engine.                                                *)
(***************************************************************************)
Feed ==
  /\ pc = "idle"
  /\ calls < MaxCalls
  /\ calls' = calls + 1
  /\ \E size \in 1 .. MaxChunks : pending' = Line(calls', FALSE, size)
  /\ pc' = "write"
  /\ UNCHANGED <<line, returned, to, from, process>>

WriteChunk ==
  /\ pc = "write"
  /\ plugin # "dead"
  /\ HasRoom(to)
  /\ to' = Append(to, Head(pending))
  /\ pending' = Tail(pending)
  /\ pc' = IF pending' = <<>> THEN "read" ELSE "write"
  /\ UNCHANGED <<calls, line, returned, from, process>>

\* The plugin is gone: the write or the flush fails and the call returns.
WriteFails ==
  /\ pc = "write"
  /\ plugin = "dead"
  /\ pending' = <<>>
  /\ pc' = "idle"
  /\ UNCHANGED <<calls, line, returned, to, from, process>>

\* The call returns the alerts of a line that parsed, under the current packet.
Return(chunk) ==
  /\ returned' = IF chunk.alerts THEN Append(returned, [call |-> calls, of |-> chunk.of])
                                 ELSE returned
  /\ line' = None
  /\ pc' = "idle"

\* Mutant of ReadChunk: what is there is taken for the whole line.
ReadChunk_NotTheLine ==
  /\ pc = "read"
  /\ from # <<>>
  /\ from' = Tail(from)
  /\ Return([Head(from) EXCEPT !.alerts = @ /\ Head(from).left = 0])
  /\ UNCHANGED <<calls, pending, to, process>>

\* read_line goes on to the line's end.
ReadChunk ==
  /\ pc = "read"
  /\ from # <<>>
  /\ from' = Tail(from)
  /\ IF Head(from).left = 0
       THEN Return(Head(from))
       ELSE line' = Head(from) /\ UNCHANGED <<pc, returned>>
  /\ UNCHANGED <<calls, pending, to, process>>

\* End of file: what was read of the line parses only if nothing but its
\* newline is missing.
ReadEof ==
  /\ pc = "read"
  /\ from = <<>>
  /\ plugin = "dead"
  /\ \/ line # None /\ line.left = 1 /\ Return(line)
     \/ line' = None /\ pc' = "idle" /\ UNCHANGED returned
  /\ UNCHANGED <<calls, pending, to, from, process>>

\* drop kills the child and waits for it.
Drop ==
  /\ pc = "idle"
  /\ pc' = "dropped"
  /\ plugin' = "dead"
  /\ UNCHANGED <<calls, pending, line, returned, to, from, current, out, raised, printed>>

(***************************************************************************)
(* run_plugin in the plugin.                                               *)
(***************************************************************************)
PluginRead ==
  /\ plugin = "reading"
  /\ to # <<>>
  /\ to' = Tail(to)
  /\ IF Head(to).left = 0
       THEN plugin' = "rule" /\ current' = Head(to).of
       ELSE UNCHANGED <<plugin, current>>
  /\ UNCHANGED <<engine, from, out, raised, printed>>

\* The rule prints a line of its own, which is written before the answer.
RulePrints ==
  /\ plugin = "rule"
  /\ printed < MaxPrints
  /\ printed' = printed + 1
  /\ out' = out \o Line(0, FALSE, 1)
  /\ UNCHANGED <<engine, to, from, plugin, current, raised>>

\* Mutant of RuleReturns: an exception in the rule is not answered.
RuleReturns_RaisesSilently ==
  /\ plugin = "rule"
  /\ \E size \in 1 .. MaxChunks :
       \/ out' = out /\ UNCHANGED raised
       \/ out' = out \o Line(current, TRUE, size) /\ raised' = raised \cup {current}
  /\ plugin' = IF out' = <<>> THEN "reading" ELSE "writing"
  /\ UNCHANGED <<engine, to, from, current, printed>>

\* The answer, flushed: no alerts (or the error of an exception), alerts that
\* do not parse as PluginResponse, or alerts.
RuleReturns ==
  /\ plugin = "rule"
  /\ \E size \in 1 .. MaxChunks :
       \/ out' = out \o Line(current, FALSE, size) /\ UNCHANGED raised
       \/ out' = out \o Line(current, TRUE, size) /\ raised' = raised \cup {current}
  /\ plugin' = "writing"
  /\ UNCHANGED <<engine, to, from, current, printed>>

PluginWrite ==
  /\ plugin = "writing"
  /\ HasRoom(from)
  /\ from' = Append(from, Head(out))
  /\ out' = Tail(out)
  /\ plugin' = IF out' = <<>> THEN "reading" ELSE "writing"
  /\ UNCHANGED <<engine, to, current, raised, printed>>

\* The rule never returns.
Hang ==
  /\ plugin = "rule"
  /\ plugin' = "hung"
  /\ UNCHANGED <<engine, to, from, current, out, raised, printed>>

\* The process dies, also of an answer json.dumps refuses; what it has written
\* can still be read.
Crash ==
  /\ plugin # "dead"
  /\ plugin' = "dead"
  /\ to' = <<>>
  /\ out' = <<>>
  /\ UNCHANGED <<engine, from, current, raised, printed>>

CallStep   == WriteChunk \/ WriteFails \/ ReadChunk \/ ReadEof
PluginStep == PluginRead \/ RuleReturns \/ PluginWrite

Next ==
  \/ Feed \/ CallStep \/ Drop
  \/ PluginStep \/ RulePrints \/ Hang \/ Crash

\* Both processes run, and a rule that does not hang returns.
Spec == Init /\ [][Next]_vars /\ WF_vars(CallStep) /\ WF_vars(PluginStep)

-----------------------------------------------------------------------------
(***************************************************************************)
(* Properties                                                              *)
(***************************************************************************)

\* Alerts come back in packet order, each at most once, and with the call of
\* their own packet as long as the rule prints nothing: every line it prints
\* shifts the later answers by at most one packet, for good.
AnswersFollowPackets ==
  \A i \in 1 .. Len(returned) :
    LET r == returned[i] IN
      /\ r.of <= r.call /\ r.call <= r.of + printed
      /\ \A j \in 1 .. i - 1 : returned[j].of < r.of

\* The packets whose alerts were returned.
Reported == {returned[i].of : i \in 1 .. Len(returned)}

\* When a call is over, every alert the rule raised has been returned; a crash
\* costs at most the packet the plugin was answering.
NothingWithheld ==
  pc = "idle" /\ printed = 0 =>
    \A n \in raised \ Reported : plugin = "dead" /\ \A m \in raised : m <= n

\* Every call returns, also when the plugin crashes at any point: only a rule
\* that hangs or prints can keep the engine waiting.
CallReturns ==
  pc \in {"write", "read"} ~> (pc = "idle" \/ plugin = "hung" \/ printed > 0)
=============================================================================
