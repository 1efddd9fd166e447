------------------------------ MODULE HomaNet ------------------------------
(***************************************************************************)
(* What every part of the Homa transport agrees on: the messages that the   *)
(* applications of the hosts send, how a message is cut into packets, and   *)
(* the packets and grants that are on the network.                          *)
(*                                                                          *)
(* Bytes are small numbers: the properties depend on how the sizes compare  *)
(* with one another and never on their magnitude.  A message is a number;   *)
(* messages of one host are created in the order of their numbers, which    *)
(* therefore stand for msgCreationTime and msgId in every tie-break.        *)
(***************************************************************************)
EXTENDS Integers, FiniteSets

CONSTANTS
  Host,           \* The hosts; each runs one HomaTransport.
  Msg,            \* The messages the applications will send.
  MsgSrc,         \* MsgSrc[m] is the host that sends m,
  MsgDst,         \* MsgDst[m] is the host that receives it,
  MsgSize,        \* and MsgSize[m] is its length in bytes.
  ReqBytes,       \* defaultReqBytes: bytes carried by the request packet.
  UnschedBytes,   \* defaultUnschedBytes: bytes sent without grant after it.
  MaxUnschedData, \* maxUnschedPktDataBytes: data of one unscheduled packet.
  GrantMax        \* grantMaxBytes: bytes that one grant asks for.

ASSUME MsgAssumption ==
  /\ Msg \subseteq Nat
  /\ MsgSrc \in [Msg -> Host]
  /\ MsgDst \in [Msg -> Host]
  /\ MsgSize \in [Msg -> Nat \ {0}]

ASSUME SizeAssumption ==
  /\ ReqBytes \in Nat
  /\ UnschedBytes \in Nat
  /\ MaxUnschedData \in Nat \ {0}
  /\ GrantMax \in Nat \ {0}

\* A simulation ends: its applications send finitely many messages.
ASSUME FiniteAssumption == IsFiniteSet(Msg)

Lesser(a, b) == IF a <= b THEN a ELSE b

-----------------------------------------------------------------------------
(* A data packet is [msg, type, first, len]: it carries the bytes           *)
(* first .. first + len - 1 of msg.  A grant is [msg, first, len].          *)

PktType == {"REQUEST", "UNSCHED_DATA", "SCHED_DATA"}
Pkt == [msg : Msg, type : PktType, first : Nat, len : Nat]
Grant == [msg : Msg, first : Nat, len : Nat]

BytesOf(p) == p.first .. (p.first + p.len - 1)

\* The unscheduled part of a message: the request packet and the packets
\* that follow it before any grant is needed.
ReqPart(m) == Lesser(ReqBytes, MsgSize[m])
UnschedPart(m) == Lesser(MsgSize[m] - ReqPart(m), UnschedBytes)

\* Slip: the request packet is forgotten in the sum.
TotalUnschedNoReq(m) == UnschedPart(m)

TotalUnsched(m) == ReqPart(m) + UnschedPart(m)

ReqPkt(m) == [msg |-> m, type |-> "REQUEST", first |-> 0, len |-> ReqPart(m)]

UnschedPkt(m, k) ==
  [msg |-> m, type |-> "UNSCHED_DATA", first |-> ReqPart(m) + k * MaxUnschedData,
   len |-> Lesser(MaxUnschedData, UnschedPart(m) - k * MaxUnschedData)]

ReqUnschedDataPkts(m) ==
  {ReqPkt(m)} \cup
  {UnschedPkt(m, k) : k \in {i \in 0 .. UnschedPart(m) :
                                i * MaxUnschedData < UnschedPart(m)}}
=============================================================================
