--------------------------- MODULE HomaTransport ---------------------------
(***************************************************************************)
(* HomaTransport: on every host a SendController (HomaSender) and a         *)
(* ReceiveScheduler (HomaScheduler) that share one NIC, and a network that  *)
(* delivers data packets and grants in any order and may lose some of them. *)
(* An event is one call of HomaTransport::handleMessage, which runs to its  *)
(* end: a packet, a message from the application, or a timer of the host.   *)
(***************************************************************************)
EXTENDS HomaScheduler

CONSTANTS
  Self,         \* any one of the hosts, see ReceiverRefined
  MaxDrops      \* bound: the network loses at most so many packets and grants

VARIABLES
  outbndMsg, outbndMsgSet, bytesLeftToSend, bytesNeedGrant, sendTimer,
  outGrantQueue, pktsSent, grantNet,   \* of HomaSender
  rx,                                  \* per host, the record of HomaScheduler
  arrived,                             \* the data packets that have arrived
  dropped                              \* the packets and grants that were lost

senderVars == <<outbndMsg, outbndMsgSet, bytesLeftToSend, bytesNeedGrant,
                sendTimer, outGrantQueue, pktsSent, grantNet>>
vars == <<senderVars, rx, arrived, dropped>>

-----------------------------------------------------------------------------
(* The two halves of the transport.                                         *)

\* How many bytes of m its receiver has let go.
Offered ==
  [m \in Msg |->
     LET in == rx[MsgDst[m]].inbnd[m]
     IN IF in.open THEN MsgSize[m] - in.bytesToGrant
        ELSE IF rx[MsgDst[m]].delivered[m] > 0 THEN MsgSize[m]
        ELSE TotalUnsched(m)]

Sender == INSTANCE HomaSender WITH offered <- Offered

\* The packets that host h has still to receive: those of the messages to come,
\* those that are ready or on the network, and those for which a grant is on
\* its way.  What was lost counts as still to come, and so do the messages to
\* other hosts, for which the record of h has room as well.
ToArrive(h) ==
  UNION {IF MsgDst[m] # h \/ outbndMsg[m].status = "new" THEN ReqUnschedDataPkts(m)
         ELSE {p \in outbndMsg[m].txPkts \cup (pktsSent \ arrived) : p.msg = m}
              \cup {SchedPktFor(g) : g \in {x \in Sender!Outstanding : x.msg = m}} : m \in Msg}

Receiver == INSTANCE HomaReceiver WITH rx <- rx[Self], toArrive <- ToArrive(Self)

-----------------------------------------------------------------------------
Running == \A h \in Host : rx[h].failed = {}

Init ==
  /\ Sender!SenderInit
  /\ rx = [h \in Host |-> InitReceiver]
  /\ arrived = {}
  /\ dropped = {}

\* handleMessage: a message from the application, a grant, or sendTimer.
AppSend(m) == Sender!AppSend(m) /\ UNCHANGED <<rx, arrived, dropped>>
ReceiveGrant(g) == Sender!ReceiveGrant(g) /\ UNCHANGED <<rx, arrived, dropped>>
SendTimer(h) == Sender!SendTimer(h) /\ UNCHANGED <<rx, arrived, dropped>>

\* Slip: the grants go out at once, past the SendController.
LeaveReceiverAtOnce(h, r) ==
  /\ rx' = [rx EXCEPT ![h] = [r EXCEPT !.grants = {}]]
  /\ grantNet' = grantNet \cup r.grants
  /\ UNCHANGED <<outbndMsg, outbndMsgSet, bytesLeftToSend, bytesNeedGrant, sendTimer,
                 outGrantQueue, pktsSent>>

\* An event leaves the receiver of h as r and hands its grants to the
\* SendController.
LeaveReceiver(h, r) ==
  /\ rx' = [rx EXCEPT ![h] = [r EXCEPT !.grants = {}]]
  /\ Sender!SendOrQueueGrants(h, r.grants)

OnTheWay == pktsSent \ (arrived \cup dropped)
GrantsOnTheWay == grantNet \ dropped

\* handleMessage: a data packet.
ReceivePkt(p) ==
  LET h == MsgDst[p.msg]
  IN /\ LeaveReceiver(h, ProcessReceivedPkt(rx[h], p))
     /\ arrived' = arrived \cup {p}
     /\ UNCHANGED dropped

\* handleMessage: the timers of the ReceiveScheduler.
GrantTimer(h, s) ==
  /\ rx[h].timer[s]
  /\ LeaveReceiver(h, ProcessGrantTimer(rx[h], s))
  /\ UNCHANGED <<arrived, dropped>>

BwUtilTimer(h) ==
  /\ rx[h].bwTimer
  /\ LeaveReceiver(h, HandleBwUtilTimer(rx[h]))
  /\ UNCHANGED <<arrived, dropped>>

\* The network loses a data packet or a grant: a queue of a switch is full, or
\* a mimic predicts a drop.  The transport never learns of it: what is lost
\* stays among what was sent.
Lose(d) ==
  /\ Cardinality(dropped) < MaxDrops
  /\ dropped' = dropped \cup {d}
  /\ UNCHANGED <<senderVars, rx, arrived>>

Event ==
  \/ \E g \in GrantsOnTheWay : ReceiveGrant(g)
  \/ \E h \in Host : SendTimer(h)
  \/ \E p \in OnTheWay : ReceivePkt(p)
  \/ \E h, s \in Host : GrantTimer(h, s)
  \/ \E h \in Host : BwUtilTimer(h)

Next ==
  Running /\ \/ Event
             \/ \E m \in Msg : AppSend(m)
             \/ \E d \in OnTheWay \cup GrantsOnTheWay : Lose(d)

\* The simulation kernel executes some event while there is one; nothing
\* obliges an application to send.
EventPending ==
  Running /\ \/ GrantsOnTheWay # {} \/ OnTheWay # {}
             \/ \E h \in Host : \/ sendTimer[h] \/ rx[h].bwTimer
                                \/ \E s \in Host : rx[h].timer[s]

Fairness == []<>~EventPending \/ []<><<Next>>_vars

Spec == Init /\ [][Next]_vars
FairSpec == Spec /\ Fairness

-----------------------------------------------------------------------------
(* Properties.                                                              *)

\* The packets that arrived or were lost had been sent; the state of the two
\* halves is typed in HomaSender and HomaReceiver.
TypeOK ==
  /\ arrived \subseteq pktsSent
  /\ dropped \subseteq pktsSent \cup grantNet
  /\ arrived \cap dropped = {}

Delivered == [m \in Msg |-> rx[MsgDst[m]].delivered[m]]

Promise == INSTANCE MessageDelivery WITH
             sent <- {m \in Msg : outbndMsg[m].status # "new"},
             delivered <- Delivered

\* The transport implements MessageDelivery: every message that is sent is
\* delivered exactly once, on a network that loses nothing.
DeliversAll == Promise!FairSpec

\* Losses or not, it never breaks that promise: at every step it accepts one
\* message, or delivers one that was sent and was not delivered before, or
\* neither.
DeliversAtMostOnce == Promise!Spec

\* A message is delivered only once and only when every byte of it has arrived,
\* whatever was lost and in whatever order the rest came, and no assertion of
\* the receiver fails on the way.
DeliveredComplete ==
  /\ Running
  /\ \A m \in Msg : Delivered[m] > 0 =>
       /\ Delivered[m] = 1
       /\ UNION {BytesOf(p) : p \in {q \in arrived : q.msg = m}} = 0 .. MsgSize[m] - 1

\* The receivers let bytes go as HomaSender assumes of them, so that what is
\* checked and proved of HomaSender holds of the transport.
SenderRefined == Sender!Spec

\* And the senders and the network answer a host as HomaReceiver assumes, so that
\* what is checked and proved of HomaReceiver holds of every host: Self is any one.
ReceiverRefined == Receiver!Spec

\* A loss hurts only the receiver that lost something: the messages to every
\* other host are still delivered.
LossIsLocal ==
  \A m \in Msg :
    (outbndMsg[m].status # "new") ~>
      (Delivered[m] = 1 \/ \E d \in dropped : MsgDst[d.msg] = MsgDst[m])
=============================================================================
