----------------------------- MODULE HomaSender -----------------------------
(***************************************************************************)
(* HomaTransport::SendController, the half of the transport that owns the   *)
(* NIC of its host.  It cuts the messages of the application into packets,  *)
(* answers each grant that arrives with one scheduled packet, and transmits *)
(* one packet at a time, the grants of its own receiver first and then the  *)
(* message with the fewest remaining bytes (SenderScheme SRBF, the scheme   *)
(* of the shipped configuration).                                           *)
(*                                                                          *)
(* The receivers are abstracted to what a sender relies on: once a packet   *)
(* of a message has left its sender, its receiver may at any moment issue   *)
(* the next grant of that message, alone or together with the next grants   *)
(* of other messages (ReceiverGrants).  HomaTransport shows that they do no *)
(* more than that.                                                          *)
(***************************************************************************)
EXTENDS HomaNet, FiniteSetsExt

VARIABLES
  outbndMsg,       \* OutboundMessage of each message, see OutboundMessage below
  outbndMsgSet,    \* per host, the ready messages, each with the key it was
                   \* filed under: std::set does not notice a key that changes
  bytesLeftToSend, \* per host, bytes of started messages not yet transmitted
  bytesNeedGrant,  \* per host, bytes of started messages not yet scheduled
  sendTimer,       \* per host, is sendTimer scheduled (the NIC is busy)?
  outGrantQueue,   \* grants of the local receiver that wait for the NIC
  pktsSent,        \* every data packet handed to the network so far
  grantNet,        \* the grants on the network
  offered          \* offered[m]: the bytes of m that its receiver let go, the
                   \* unscheduled ones included

hostVars == <<outbndMsgSet, bytesLeftToSend, bytesNeedGrant>>
nicVars == <<sendTimer, outGrantQueue>>
netVars == <<pktsSent, grantNet>>
senderVars == <<outbndMsg, outbndMsgSet, bytesLeftToSend, bytesNeedGrant,
                sendTimer, outGrantQueue, pktsSent, grantNet>>
vars == <<senderVars, offered>>

\* status is "active" while the message is in outboundMsgMap.
OutboundMessage ==
  [status : {"new", "active", "done"}, bytesToSched : Nat, bytesLeft : Int,
   txPkts : SUBSET Pkt]

Started(m) == outbndMsg[m].status # "new"
Active(m) == outbndMsg[m].status = "active"

-----------------------------------------------------------------------------
(* The orders in which the controller picks what to send.                   *)

\* Slip: the controller serves the messages first come, first served.
FirstMsgByAge(e, ready) == \A o \in ready : e[2] <= o[2]

\* OutbndMsgSorter: fewest bytes left, then the older message.
FirstMsg(e, ready) ==
  \A o \in ready : e[1] < o[1] \/ (e[1] = o[1] /\ e[2] <= o[2])

\* OutbndPktSorter: lowest first byte.  Only an empty request packet shares
\* its first byte with another packet, and it is pushed before that one.
FirstPkt(p, pkts) ==
  \A q \in pkts : p.first < q.first \/ (p.first = q.first /\ p.len <= q.len)

\* The entry under which outbndMsgSet files m now.
Entry(m, out) == <<out[m].bytesLeft, m>>

\* Slips: the message is filed again whether or not it has a packet ready, or
\* it is never filed again.
RefiledAlways(m, out) ==
  IF out[m].bytesLeft > 0 THEN {Entry(m, out)} ELSE {}

RefiledNever(m, out) == {}

\* After its transmission a message is filed again while it has a packet ready.
Refiled(m, out) ==
  IF out[m].bytesLeft > 0 /\ out[m].txPkts # {} THEN {Entry(m, out)} ELSE {}

-----------------------------------------------------------------------------
\* The state after the start event of every transport, which comes before
\* every other event and only opens the socket.
SenderInit ==
  /\ outbndMsg = [m \in Msg |-> [status |-> "new", bytesToSched |-> 0,
                                 bytesLeft |-> 0, txPkts |-> {}]]
  /\ outbndMsgSet = [h \in Host |-> {}]
  /\ bytesLeftToSend = [h \in Host |-> 0]
  /\ bytesNeedGrant = [h \in Host |-> 0]
  /\ sendTimer = [h \in Host |-> FALSE]
  /\ outGrantQueue = [h \in Host |-> {}]
  /\ pktsSent = {}
  /\ grantNet = {}

\* Transmit the first packet of the first message of the set ready.  The
\* operands are what the calling handler has made of the fields so far.
TransmitData(h, ready, out, total) ==
  \E e \in ready : \E p \in out[e[2]].txPkts :
    LET m == e[2]
        left == out[m].bytesLeft - p.len
        sent == [out EXCEPT ![m].txPkts = @ \ {p}, ![m].bytesLeft = left,
                            ![m].status = IF left <= 0 THEN "done" ELSE @]
    IN /\ FirstMsg(e, ready)
       /\ FirstPkt(p, out[m].txPkts)
       /\ outbndMsg' = sent
       /\ outbndMsgSet' =
            [outbndMsgSet EXCEPT ![h] = (ready \ {e}) \cup Refiled(m, sent)]
       /\ bytesLeftToSend' = [bytesLeftToSend EXCEPT ![h] = total - p.len]
       /\ sendTimer' = [sendTimer EXCEPT ![h] = TRUE]
       /\ pktsSent' = pktsSent \cup {p}

\* Slip: the packet is always left to the timer.
SendOrQueueNoKick(h, ready, out, total) ==
  /\ outbndMsg' = out
  /\ outbndMsgSet' = [outbndMsgSet EXCEPT ![h] = ready]
  /\ bytesLeftToSend' = [bytesLeftToSend EXCEPT ![h] = total]
  /\ UNCHANGED <<sendTimer, pktsSent>>

\* sendOrQueue(NULL): a packet has become ready.  Leave it to the timer when
\* the NIC is busy, transmit it at once when the NIC is idle.
SendOrQueueData(h, ready, out, total) ==
  \/ /\ sendTimer[h]
     /\ outbndMsg' = out
     /\ outbndMsgSet' = [outbndMsgSet EXCEPT ![h] = ready]
     /\ bytesLeftToSend' = [bytesLeftToSend EXCEPT ![h] = total]
     /\ UNCHANGED <<sendTimer, pktsSent>>
  \/ /\ ~sendTimer[h]
     /\ TransmitData(h, ready, out, total)

\* processSendMsgFromApp.
AppSend(m) ==
  LET h == MsgSrc[m]
      needGrant == MsgSize[m] - TotalUnsched(m)
      out == [outbndMsg EXCEPT ![m] =
                [status |-> "active", bytesToSched |-> needGrant,
                 bytesLeft |-> MsgSize[m], txPkts |-> ReqUnschedDataPkts(m)]]
  IN /\ ~Started(m)
     /\ \A k \in Msg : k < m /\ MsgSrc[k] = h => Started(k)
     /\ SendOrQueueData(h, outbndMsgSet[h] \cup {Entry(m, out)}, out,
                        bytesLeftToSend[h] + MsgSize[m])
     /\ bytesNeedGrant' = [bytesNeedGrant EXCEPT ![h] = @ + needGrant]
     /\ UNCHANGED <<outGrantQueue, grantNet>>

\* Slip: the sender ignores the offset of the grant and schedules its next byte.
SchedPktInOrder(g) ==
  [msg |-> g.msg, type |-> "SCHED_DATA",
   first |-> MsgSize[g.msg] - outbndMsg[g.msg].bytesToSched,
   len |-> Lesser(g.len, outbndMsg[g.msg].bytesToSched)]

\* prepareSchedPkt: the data packet that answers grant g.
SchedPkt(g) ==
  [msg |-> g.msg, type |-> "SCHED_DATA", first |-> g.first,
   len |-> Lesser(g.len, outbndMsg[g.msg].bytesToSched)]

\* processReceivedGrant.  A grant for a message that has left outboundMsgMap
\* would end the simulation (GrantsFindWork says there is none).
ReceiveGrant(g) ==
  LET m == g.msg
      h == MsgSrc[m]
      p == SchedPkt(g)
      out == [outbndMsg EXCEPT ![m].txPkts = @ \cup {p},
                               ![m].bytesToSched = @ - p.len]
  IN /\ g \in grantNet
     /\ Active(m)
     /\ grantNet' = grantNet \ {g}
     /\ bytesNeedGrant' = [bytesNeedGrant EXCEPT ![h] = @ - p.len]
     /\ SendOrQueueData(h, (outbndMsgSet[h] \ {Entry(m, outbndMsg)})
                              \cup {Entry(m, out)},
                        out, bytesLeftToSend[h])
     /\ UNCHANGED outGrantQueue

\* sendOrQueue(sendTimer): the NIC has gone idle.  Queued grants go first;
\* among them the one created first, which this untimed model leaves open.
SendTimer(h) ==
  /\ sendTimer[h]
  /\ \/ \E g \in outGrantQueue[h] :
          /\ outGrantQueue' = [outGrantQueue EXCEPT ![h] = @ \ {g}]
          /\ grantNet' = grantNet \cup {g}
          /\ UNCHANGED <<outbndMsg, hostVars, sendTimer, pktsSent>>
     \/ /\ outGrantQueue[h] = {}
        /\ outbndMsgSet[h] # {}
        /\ TransmitData(h, outbndMsgSet[h], outbndMsg, bytesLeftToSend[h])
        /\ UNCHANGED <<bytesNeedGrant, outGrantQueue, grantNet>>
     \/ /\ outGrantQueue[h] = {}
        /\ outbndMsgSet[h] = {}
        /\ sendTimer' = [sendTimer EXCEPT ![h] = FALSE]
        /\ UNCHANGED <<outbndMsg, hostVars, outGrantQueue, netVars>>

\* sendOrQueue(grant), once for each of the grants that one event of the local
\* receiver emits: all of them wait when the NIC is busy, else one goes out.
SendOrQueueGrants(h, grants) ==
  /\ \/ /\ grants = {} \/ sendTimer[h]
        /\ outGrantQueue' = [outGrantQueue EXCEPT ![h] = @ \cup grants]
        /\ UNCHANGED <<grantNet, sendTimer>>
     \/ /\ ~sendTimer[h]
        /\ \E g \in grants :
             /\ grantNet' = grantNet \cup {g}
             /\ outGrantQueue' = [outGrantQueue EXCEPT ![h] = @ \cup (grants \ {g})]
             /\ sendTimer' = [sendTimer EXCEPT ![h] = TRUE]
  /\ UNCHANGED <<outbndMsg, hostVars, pktsSent>>

-----------------------------------------------------------------------------
(* The receivers, as the senders see them.                                  *)

\* Slips: the grant always asks for a full packet, or for what will be left
\* after it.
NextGrantFull(m, first) == [msg |-> m, first |-> first, len |-> GrantMax]

NextGrantAfter(m, first) ==
  [msg |-> m, first |-> first, len |-> Lesser(GrantMax, MsgSize[m] - first - GrantMax)]

\* prepareGrant: the grant that asks for the bytes of m from byte first on.
NextGrant(m, first) ==
  [msg |-> m, first |-> first, len |-> Lesser(GrantMax, MsgSize[m] - first)]

NeedsGrant(m) == /\ \E p \in pktsSent : p.msg = m
                 /\ offered[m] < MsgSize[m]

\* One event of receiver h issues the next grant of each of the messages granted.
ReceiverGrants(h, granted) ==
  /\ \A m \in granted : MsgDst[m] = h /\ NeedsGrant(m)
  /\ SendOrQueueGrants(h, {NextGrant(m, offered[m]) : m \in granted})
  /\ offered' = [m \in Msg |->
                   IF m \in granted THEN offered[m] + NextGrant(m, offered[m]).len
                                    ELSE offered[m]]

Init == SenderInit /\ offered = [m \in Msg |-> TotalUnsched(m)]

SenderNext ==
  \/ \E m \in Msg : AppSend(m)
  \/ \E g \in grantNet : ReceiveGrant(g)
  \/ \E h \in Host : SendTimer(h)

Next ==
  \/ SenderNext /\ UNCHANGED offered
  \/ \E h \in Host : \E granted \in (SUBSET Msg) \ {{}} : ReceiverGrants(h, granted)

\* The simulation kernel fires every scheduled timer and delivers every grant,
\* and a Homa receiver grants every message in the end.  Nothing obliges an
\* application to send.
Fairness ==
  /\ \A h \in Host : WF_vars(SendTimer(h) /\ UNCHANGED offered)
  /\ \A m \in Msg : WF_vars(\E g \in grantNet :
                              g.msg = m /\ ReceiveGrant(g) /\ UNCHANGED offered)
  /\ \A m \in Msg : WF_vars(\E granted \in SUBSET Msg :
                              m \in granted /\ ReceiverGrants(MsgDst[m], granted))

Spec == Init /\ [][Next]_vars
FairSpec == Spec /\ Fairness

-----------------------------------------------------------------------------
(* Properties.                                                              *)

\* Type correctness of the SendController's fields; the byte counters are
\* unsigned in the code; that they never go below zero is in ByteAccounting.
TypeOK ==
  /\ outbndMsg \in [Msg -> OutboundMessage]
  /\ outbndMsgSet \in [Host -> SUBSET (Int \X Msg)]
  /\ bytesLeftToSend \in [Host -> Int]
  /\ bytesNeedGrant \in [Host -> Int]
  /\ sendTimer \in [Host -> BOOLEAN]
  /\ outGrantQueue \in [Host -> SUBSET Grant]
  /\ pktsSent \subseteq Pkt
  /\ grantNet \subseteq Grant
  /\ offered \in [Msg -> Nat]

\* Nothing waits for a NIC that no timer will wake: an idle timer means that
\* no grant and no message is queued.  sendOrQueue asserts it twice, and a
\* message that broke it would never be sent.
IdleMeansDrained ==
  \A h \in Host : ~sendTimer[h] => /\ outGrantQueue[h] = {}
                                            /\ outbndMsgSet[h] = {}

\* The entries of the messages of h that have a packet ready.
ReadySet(h, out) ==
  {Entry(m, out) : m \in {k \in Msg : /\ MsgSrc[k] = h
                                      /\ out[k].status = "active"
                                      /\ out[k].txPkts # {}}}

\* outbndMsgSet holds exactly the messages with a packet ready, each under its
\* current bytesLeft: a message that is missing is never sent, and one filed
\* under an old key breaks the order of the std::set and cannot be erased.
ReadySetExact == \A h \in Host : outbndMsgSet[h] = ReadySet(h, outbndMsg)

Outstanding == grantNet \cup UNION {outGrantQueue[h] : h \in Host}

\* A grant finds its message in outboundMsgMap with at least the granted bytes
\* unscheduled, however the grants of a message overtake each other:
\* outboundMsgMap.at would throw, ASSERT(bytesToSched > 0) would fail, and a
\* grant cut short by std::min would leave bytes that nobody sends.
GrantsFindWork ==
  \A g \in Outstanding : /\ Active(g.msg)
                          /\ g.len > 0
                          /\ outbndMsg[g.msg].bytesToSched >= g.len

\* The parts into which the bytes of m that its receiver let go are divided.
Pieces(m) == {p \in pktsSent \cup outbndMsg[m].txPkts \cup Outstanding : p.msg = m}

\* Every byte is transmitted exactly once: the packets sent, the packets ready
\* and the grants on their way never overlap, a packet ready has not been
\* sent, and together they are the bytes the receiver let go.
EveryByteOnce ==
  \A m \in Msg : Started(m) =>
    /\ outbndMsg[m].txPkts \cap pktsSent = {}
    /\ \A p, q \in Pieces(m) : p # q => BytesOf(p) \cap BytesOf(q) = {}
    /\ UNION {BytesOf(p) : p \in Pieces(m)} = 0 .. (offered[m] - 1)

SentBytes(m) == MapThenSumSet(LAMBDA p : p.len, {p \in pktsSent : p.msg = m})

\* The counters of a message and of its controller always agree with what has
\* been transmitted and granted (so none of them wraps below zero), and a
\* message leaves outboundMsgMap exactly when its last byte is transmitted.
ByteAccounting ==
  /\ \A m \in Msg : Started(m) =>
       LET o == outbndMsg[m]
           granted == {g \in Outstanding : g.msg = m}
       IN /\ o.bytesLeft = MsgSize[m] - SentBytes(m)
          /\ o.bytesToSched = MsgSize[m] - offered[m]
                               + MapThenSumSet(LAMBDA g : g.len, granted)
          /\ o.status = "done" <=> o.bytesLeft = 0
  /\ \A h \in Host :
       LET mine == {m \in Msg : MsgSrc[m] = h}
       IN /\ bytesLeftToSend[h] =
                MapThenSumSet(LAMBDA m : outbndMsg[m].bytesLeft, mine)
          /\ bytesNeedGrant[h] =
                MapThenSumSet(LAMBDA m : outbndMsg[m].bytesToSched, mine)

\* A data packet is transmitted only when no grant waits for the NIC, it comes
\* from the ready message with the fewest bytes left (SRBF), and it is the
\* lowest ready packet of its message.
SendOrder ==
  [][\A p \in pktsSent' \ pktsSent :
       LET h == MsgSrc[p.msg]
       IN /\ outGrantQueue[h] = {}
          /\ \A k \in Msg :
               MsgSrc[k] = h /\ outbndMsg[k].txPkts # {} =>
                 outbndMsg'[p.msg].bytesLeft + p.len <= outbndMsg[k].bytesLeft
          /\ \A q \in outbndMsg'[p.msg].txPkts : p.first <= q.first]_vars

\* Every message the application hands over is transmitted completely, if its
\* receiver goes on granting it and no grant is lost.
AllTransmitted ==
  \A m \in Msg : Started(m) ~> outbndMsg[m].status = "done"
=============================================================================
