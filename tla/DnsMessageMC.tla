---------------------------- MODULE DnsMessageMC ----------------------------
(***************************************************************************)
(* DnsMessage for TLC: all messages of MsgLen bytes whose header reads,    *)
(* to a pointer that leads there, as the length of a label of one byte.    *)
(***************************************************************************)
EXTENDS DnsMessage

CONSTANT MsgLen

MCBytes    == {0, 1, 2, 3, Pointer}
MCMessages == {m \in [1 .. MsgLen -> MCBytes] : m[1] = 1}
MCCounts   == {<<"question", "record">>, <<"record", "record">>}
=============================================================================
