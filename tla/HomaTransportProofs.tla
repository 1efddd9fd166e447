------------------------ MODULE HomaTransportProofs ------------------------
(***************************************************************************)
(* The composition of HomaTransport: on every host the sender is one of     *)
(* HomaSender and the receiver one of HomaReceiver, so that what is proved  *)
(* of each half holds of the two together.                                  *)
(***************************************************************************)
EXTENDS HomaTransport, HomaSchedulerProofs

\* The theorems about the senders, whose receivers have let go Offered
SP == INSTANCE HomaSenderProofs WITH offered <- Offered

-----------------------------------------------------------------------------
(* HomaTransport and the theorems have each their instance of HomaSender:   *)
(* their definitions are the same.                                          *)

LEMMA SameFinite == SP!IsFiniteSet(Msg)
BY FiniteAssumption DEF IsFiniteSet, SP!IsFiniteSet

LEMMA SameParts ==
  ASSUME NEW m
  PROVE  /\ SP!ReqPart(m) = ReqPart(m) /\ SP!UnschedPart(m) = UnschedPart(m)
         /\ SP!TotalUnsched(m) = TotalUnsched(m)
         /\ SP!ReqUnschedDataPkts(m) = ReqUnschedDataPkts(m)
         /\ Sender!TotalUnsched(m) = TotalUnsched(m)
         /\ Sender!ReqUnschedDataPkts(m) = ReqUnschedDataPkts(m)
<1>1. /\ SP!ReqPart(m) = ReqPart(m) /\ SP!UnschedPart(m) = UnschedPart(m)
      /\ Sender!ReqPart(m) = ReqPart(m) /\ Sender!UnschedPart(m) = UnschedPart(m)
  BY DEF SP!ReqPart, SP!UnschedPart, SP!Lesser, Sender!ReqPart, Sender!UnschedPart, Sender!Lesser,
         ReqPart, UnschedPart, Lesser
<1>2. \A a, b : SP!Lesser(a, b) = Lesser(a, b) /\ Sender!Lesser(a, b) = Lesser(a, b)
  BY DEF SP!Lesser, Sender!Lesser, Lesser
<1>3. /\ SP!ReqPkt(m) = ReqPkt(m) /\ Sender!ReqPkt(m) = ReqPkt(m)
      /\ \A k : SP!UnschedPkt(m, k) = UnschedPkt(m, k) /\ Sender!UnschedPkt(m, k) = UnschedPkt(m, k)
  BY <1>1, <1>2 DEF SP!ReqPkt, Sender!ReqPkt, ReqPkt, SP!UnschedPkt, Sender!UnschedPkt, UnschedPkt
<1> QED BY <1>1, <1>3 DEF SP!TotalUnsched, Sender!TotalUnsched, TotalUnsched,
      SP!ReqUnschedDataPkts, Sender!ReqUnschedDataPkts, ReqUnschedDataPkts

LEMMA SameTransmit ==
  ASSUME NEW h, NEW ready, NEW out, NEW total
  PROVE  Sender!TransmitData(h, ready, out, total) <=> SP!TransmitData(h, ready, out, total)
BY Zenon DEF Sender!TransmitData, SP!TransmitData, Sender!FirstMsg, SP!FirstMsg,
   Sender!FirstPkt, SP!FirstPkt, Sender!Refiled, SP!Refiled, Sender!Entry, SP!Entry

LEMMA SameQueue ==
  ASSUME NEW h, NEW ready, NEW out, NEW total
  PROVE  Sender!SendOrQueueData(h, ready, out, total)
           <=> SP!SendOrQueueData(h, ready, out, total)
<1>1. Sender!TransmitData(h, ready, out, total) <=> SP!TransmitData(h, ready, out, total)
  BY SameTransmit
<1> DEFINE queued == /\ sendTimer[h]
                     /\ outbndMsg' = out
                     /\ outbndMsgSet' = [outbndMsgSet EXCEPT ![h] = ready]
                     /\ bytesLeftToSend' = [bytesLeftToSend EXCEPT ![h] = total]
                     /\ UNCHANGED <<sendTimer, pktsSent>>
<1>2. Sender!SendOrQueueData(h, ready, out, total)
        <=> queued \/ (~sendTimer[h] /\ Sender!TransmitData(h, ready, out, total))
  BY Zenon DEF Sender!SendOrQueueData
<1>3. SP!SendOrQueueData(h, ready, out, total)
        <=> queued \/ (~sendTimer[h] /\ SP!TransmitData(h, ready, out, total))
  BY Zenon DEF SP!SendOrQueueData
<1> QED BY <1>1, <1>2, <1>3

LEMMA SameAppSend ==
  ASSUME NEW m
  PROVE  Sender!AppSend(m) <=> SP!AppSend(m)
BY SameParts, SameQueue DEF Sender!AppSend, SP!AppSend, Sender!Started, SP!Started,
   Sender!Entry, SP!Entry

LEMMA SameReceiveGrant ==
  ASSUME NEW g
  PROVE  Sender!ReceiveGrant(g) <=> SP!ReceiveGrant(g)
<1>1. Sender!SchedPkt(g) = SP!SchedPkt(g)
  BY DEF Sender!SchedPkt, SP!SchedPkt, Sender!Lesser, SP!Lesser
<1> QED BY <1>1, SameQueue DEF Sender!ReceiveGrant, SP!ReceiveGrant, Sender!Active, SP!Active,
   Sender!Entry, SP!Entry

LEMMA SameSendTimer ==
  ASSUME NEW h
  PROVE  Sender!SendTimer(h) <=> SP!SendTimer(h)
<1>1. Sender!TransmitData(h, outbndMsgSet[h], outbndMsg, bytesLeftToSend[h])
        <=> SP!TransmitData(h, outbndMsgSet[h], outbndMsg, bytesLeftToSend[h])
  BY SameTransmit
<1> QED BY <1>1, Zenon DEF Sender!SendTimer, SP!SendTimer, Sender!hostVars, SP!hostVars,
   Sender!netVars, SP!netVars

LEMMA SameGrants ==
  /\ \A h, grants : Sender!SendOrQueueGrants(h, grants) <=> SP!SendOrQueueGrants(h, grants)
  /\ Sender!Outstanding = SP!Outstanding
  /\ \A m, first : Sender!NextGrant(m, first) = SP!NextGrant(m, first)
  /\ \A m : Sender!NeedsGrant(m) <=> SP!NeedsGrant(m)
BY DEF Sender!SendOrQueueGrants, SP!SendOrQueueGrants, Sender!hostVars, SP!hostVars,
   Sender!Outstanding, SP!Outstanding, Sender!NextGrant, SP!NextGrant, Sender!Lesser, SP!Lesser,
   Sender!NeedsGrant, SP!NeedsGrant

LEMMA SameReceiverGrants ==
  ASSUME NEW h, NEW granted
  PROVE  Sender!ReceiverGrants(h, granted) <=> SP!ReceiverGrants(h, granted)
BY SameGrants DEF Sender!ReceiverGrants, SP!ReceiverGrants

LEMMA SameVars == Sender!vars = SP!vars
BY DEF Sender!vars, SP!vars, Sender!senderVars, SP!senderVars

LEMMA SameNext == Sender!Next <=> SP!Next
BY SameAppSend, SameReceiveGrant, SameSendTimer, SameReceiverGrants
   DEF Sender!Next, SP!Next, Sender!SenderNext, SP!SenderNext

LEMMA SameInit == Sender!Init <=> SP!Init
BY SameParts DEF Sender!Init, SP!Init, Sender!SenderInit, SP!SenderInit

-----------------------------------------------------------------------------
(* HomaTransport and the Receiver it is seen as have each their copy of       *)
(* HomaScheduler and HomaNet: the definitions are the same, from the          *)
(* operators of the library up to the events.                                 *)

LEMMA SameLibrary ==
  /\ \A f, i, x : Receiver!InsertAt(f, i, x) = InsertAt(f, i, x)
  /\ \A f, i : Receiver!RemoveAt(f, i) = RemoveAt(f, i)
  /\ \A S : Receiver!Cardinality(S) = Cardinality(S)
BY DEF Receiver!InsertAt, InsertAt, Receiver!RemoveAt, RemoveAt, Receiver!Cardinality, Cardinality

LEMMA SameBasics ==
  /\ \A a, b : Receiver!Lesser(a, b) = Lesser(a, b)
  /\ \A type : Receiver!PktHdr(type) = PktHdr(type)
  /\ \A g : Receiver!SchedPktFor(g) = SchedPktFor(g)
  /\ Receiver!NoMessage = NoMessage
  /\ Receiver!InitReceiver = InitReceiver
  /\ \A r, cond, label : Receiver!Require(r, cond, label) = Require(r, cond, label)
  /\ \A r, cur : Receiver!Settled(r, cur) = Settled(r, cur)
BY DEF Receiver!Lesser, Lesser, Receiver!PktHdr, PktHdr, Receiver!SchedPktFor,
   SchedPktFor, Receiver!NoMessage, NoMessage, Receiver!InitReceiver, InitReceiver,
   Receiver!Require, Require, Receiver!Settled, Settled

LEMMA SameUnsched ==
  /\ \A m : Receiver!ReqPart(m) = ReqPart(m)
  /\ \A m : Receiver!UnschedPart(m) = UnschedPart(m)
BY SameBasics DEF Receiver!ReqPart, ReqPart, Receiver!UnschedPart, UnschedPart

LEMMA SameWire ==
  /\ \A m : Receiver!TotalUnsched(m) = TotalUnsched(m)
  /\ \A n, hdr : Receiver!OnWire(n, hdr) = OnWire(n, hdr)
BY SameUnsched DEF Receiver!TotalUnsched, TotalUnsched, Receiver!OnWire, OnWire

LEMMA SamePrios ==
  /\ \A p : Receiver!PktOnWire(p) = PktOnWire(p)
  /\ \A bytesToGrant : Receiver!SchedPktPrio(bytesToGrant) = SchedPktPrio(bytesToGrant)
  /\ \A sInd : Receiver!PrioForMesg(sInd) = PrioForMesg(sInd)
BY SameBasics, SameWire DEF Receiver!PktOnWire, PktOnWire, Receiver!SchedPktPrio,
   SchedPktPrio, Receiver!PrioForMesg, PrioForMesg

LEMMA SameTests ==
  /\ \A r, m, k : Receiver!Better(r, m, k) = Better(r, m, k)
  /\ \A r, s : Receiver!Top(r, s) = Top(r, s)
  /\ \A r, s, m : Receiver!Filed(r, s, m) = Filed(r, s, m)
  /\ \A r, s : Receiver!Listed(r, s) = Listed(r, s)
  /\ \A r, s : Receiver!IndexOf(r, s) = IndexOf(r, s)
  /\ \A in : Receiver!WindowFull(in) = WindowFull(in)
  /\ \A in : Receiver!Complete(in) = Complete(in)
  /\ \A at : Receiver!InRange(at) = InRange(at)
  /\ \A cur : Receiver!SlotIsFree(cur) = SlotIsFree(cur)
  /\ \A r : Receiver!Oversubscribed(r) = Oversubscribed(r)
BY DEF Receiver!Better, Better, Receiver!Top, Top, Receiver!Filed, Filed,
   Receiver!Listed, Listed, Receiver!IndexOf, IndexOf, Receiver!WindowFull, WindowFull,
   Receiver!Complete, Complete, Receiver!InRange, InRange, Receiver!SlotIsFree,
   SlotIsFree, Receiver!Oversubscribed, Oversubscribed

LEMMA SameCounts ==
  /\ \A r, s : Receiver!RemovedFrom(r, s) = RemovedFrom(r, s)
  /\ \A r : Receiver!SetBwTimer(r) = SetBwTimer(r)
  /\ \A r, s, m : Receiver!FiledBefore(r, s, m) = FiledBefore(r, s, m)
  /\ \A r, num, head : Receiver!LeftShift(r, num, head) = LeftShift(r, num, head)
  /\ \A r : Receiver!RecordOversub(r) = RecordOversub(r)
  /\ \A r : Receiver!MarkOversub(r) = MarkOversub(r)
  /\ \A in, p : Receiver!Answered(in, p) = Answered(in, p)
BY SameTests, SameLibrary, SameBasics DEF Receiver!RemovedFrom, RemovedFrom,
   Receiver!SetBwTimer, SetBwTimer, Receiver!FiledBefore, FiledBefore,
   Receiver!LeftShift, LeftShift, Receiver!RecordOversub, RecordOversub,
   Receiver!MarkOversub, MarkOversub, Receiver!Answered, Answered

LEMMA SameFileMesg == \A r, s, m : Receiver!FileMesg(r, s, m) = FileMesg(r, s, m)
BY SameCounts, SameLibrary DEF Receiver!FileMesg, FileMesg

LEMMA SameUnfileMesg == \A r, s, m : Receiver!UnfileMesg(r, s, m) = UnfileMesg(r, s, m)
BY SameBasics, SameTests, SameLibrary DEF Receiver!UnfileMesg, UnfileMesg

LEMMA SameFiling ==
  /\ \A r, s : Receiver!Ahead(r, s) = Ahead(r, s)
  /\ \A in, p : Receiver!Unanswered(in, p) = Unanswered(in, p)
BY SameCounts, SameTests, SameLibrary DEF Receiver!Ahead, Ahead, Receiver!Unanswered, Unanswered

LEMMA SameRemoveIth == \A r, i : Receiver!RemoveIth(r, i) = RemoveIth(r, i)
BY SameBasics, SameLibrary DEF Receiver!RemoveIth, RemoveIth

LEMMA SameInsPoint == \A r, s : Receiver!InsPoint(r, s) = InsPoint(r, s)
BY SameCounts, SameFiling DEF Receiver!InsPoint, InsPoint

LEMMA SameListing ==
  /\ \A r, s : Receiver!RemoveSender(r, s) = RemoveSender(r, s)
  /\ \A r, s : Receiver!InsertSender(r, s) = InsertSender(r, s)
BY SameBasics, SameTests, SameRemoveIth, SameInsPoint, SameLibrary DEF Receiver!RemoveSender,
   RemoveSender, Receiver!InsertSender, InsertSender

LEMMA SameGrant ==
  /\ \A r, s : Receiver!GrantSize(r, s) = GrantSize(r, s)
  /\ \A inbnd, rest : Receiver!GrantsAgain(inbnd, rest) = GrantsAgain(inbnd, rest)
BY SameBasics, SameTests DEF Receiver!GrantSize, GrantSize, Receiver!GrantsAgain,
   GrantsAgain

LEMMA SameGrantOf == \A r, s : Receiver!GrantOf(r, s) = GrantOf(r, s)
BY SameTests, SameGrant DEF Receiver!GrantOf, GrantOf

LEMMA SameGranted == \A r, s : Receiver!Granted(r, s) = Granted(r, s)
BY SameWire, SameTests, SameGrant, SameGrantOf DEF Receiver!Granted, Granted

LEMMA SameRest ==
  /\ \A r, s : Receiver!InbndGranted(r, s) = InbndGranted(r, s)
  /\ \A r, s : Receiver!Rest(r, s) = Rest(r, s)
  /\ \A r, s, prio : Receiver!GrantPrio(r, s, prio) = GrantPrio(r, s, prio)
BY SameTests, SameGranted, SameBasics, SamePrios DEF Receiver!InbndGranted,
   InbndGranted, Receiver!Rest, Rest, Receiver!GrantPrio, GrantPrio

LEMMA SameGranting == \A r, s, prio : Receiver!Granting(r, s, prio) = Granting(r, s, prio)
<1> SUFFICES ASSUME NEW r, NEW s, NEW prio
             PROVE  Receiver!Granting(r, s, prio) = Granting(r, s, prio)
  OBVIOUS
<1>1. /\ Receiver!InbndGranted(r, s) = InbndGranted(r, s) /\ Receiver!Rest(r, s) = Rest(r, s)
      /\ Receiver!GrantPrio(r, s, prio) = GrantPrio(r, s, prio)
      /\ Receiver!OnWire(Receiver!GrantSize(r, s), SchedHdr) = OnWire(GrantSize(r, s), SchedHdr)
      /\ Receiver!GrantOf(r, s) = GrantOf(r, s)
  BY SameWire, SameGrant, SameGrantOf, SameRest
<1>2. Receiver!GrantsAgain(Receiver!InbndGranted(r, s), Receiver!Rest(r, s))
        = GrantsAgain(InbndGranted(r, s), Rest(r, s))
  BY <1>1, SameGrant
<1> QED BY <1>1, <1>2 DEF Receiver!Granting, Granting

LEMMA SameSending == \A r, s, prio : Receiver!SendAndScheduleGrant(r, s, prio) = SendAndScheduleGrant(r, s, prio)
BY SameBasics, SameTests, SameRest, SameGranting DEF Receiver!SendAndScheduleGrant,
   SendAndScheduleGrant

LEMMA SameSendFirst == \A r, s, at : Receiver!SendFirst(r, s, at) = SendFirst(r, s, at)
BY SamePrios, SameRemoveIth, SameInsPoint, SameSending DEF Receiver!SendFirst, SendFirst

LEMMA SameGrantAt == \A r, cur, ind : Receiver!GrantAt(r, cur, ind) = GrantAt(r, cur, ind)
<1> SUFFICES ASSUME NEW r, NEW cur, NEW ind
             PROVE  Receiver!GrantAt(r, cur, ind) = GrantAt(r, cur, ind)
  OBVIOUS
<1> DEFINE i == ind - r.headIdx + 1
           s == r.senders[i]
           sent == SendAndScheduleGrant(RemoveIth(r, i), s, PrioForMesg(ind))
<1>1. /\ Receiver!Settled(Receiver!Require(r, FALSE, "removeAt: no sender to grant"), cur)
           = Settled(Require(r, FALSE, "removeAt: no sender to grant"), cur)
      /\ Receiver!SendAndScheduleGrant(Receiver!RemoveIth(r, i), s, Receiver!PrioForMesg(ind)) = sent
  BY SamePrios, SameBasics, SameRemoveIth, SameInsPoint, SameSending
<1>2. Receiver!InsPoint(sent, s) = InsPoint(sent, s)
  BY SameRemoveIth, SameInsPoint
<1> QED BY <1>1, <1>2 DEF Receiver!GrantAt, GrantAt

LEMMA SamePassOn == \A st : Receiver!PassOn(st) = PassOn(st)
BY SameBasics, SameTests, SameListing, SameGrantAt DEF Receiver!PassOn, PassOn

LEMMA SameGrantSent == \A st : Receiver!HandleGrantSent(st) = HandleGrantSent(st)
BY SameBasics, SamePassOn, SameLibrary DEF Receiver!HandleGrantSent, HandleGrantSent

LEMMA SameGrantSender == \A r, s, at : Receiver!GrantSender(r, s, at) = GrantSender(r, s, at)
BY SameSendFirst, SameGrantSent DEF Receiver!GrantSender, GrantSender

LEMMA SameArrivals ==
  /\ \A m : Receiver!Opened(m) = Opened(m)
  /\ \A in, p : Receiver!Filled(in, p) = Filled(in, p)
  /\ \A r, p : Receiver!PendingBytesArrived(r, p) = PendingBytesArrived(r, p)
  /\ \A r, m : Receiver!HandleMesgRecvCompletion(r, m) = HandleMesgRecvCompletion(r, m)
BY SameWire, SamePrios, SameCounts, SameFiling DEF Receiver!Opened, Opened,
   Receiver!Filled, Filled, Receiver!PendingBytesArrived, PendingBytesArrived,
   Receiver!HandleMesgRecvCompletion, HandleMesgRecvCompletion

LEMMA SameOpening ==
  /\ \A r, p : Receiver!OpenMessage(r, p) = OpenMessage(r, p)
  /\ \A r, p : Receiver!FillinRxBytes(r, p) = FillinRxBytes(r, p)
BY SameBasics, SameWire, SameArrivals, SameCounts DEF Receiver!OpenMessage, OpenMessage,
   Receiver!FillinRxBytes, FillinRxBytes

LEMMA SameHandleInboundPkt == \A r, p : Receiver!HandleInboundPkt(r, p) = HandleInboundPkt(r, p)
<1> SUFFICES ASSUME NEW r, NEW p
             PROVE  Receiver!HandleInboundPkt(r, p) = HandleInboundPkt(r, p)
  OBVIOUS
<1> DEFINE m == p.msg
           s == MsgSrc[m]
           filled == FillinRxBytes(IF r.inbnd[m].open THEN UnfileMesg(PendingBytesArrived(r, p), s, m)
                                                      ELSE OpenMessage(r, p), p)
           done == [filled EXCEPT !.inbnd[m] = NoMessage, !.delivered[m] = @ + 1]
           cond == filled.inbnd[m].bytesToGrant = 0 /\ filled.inbnd[m].inflightGrants = {}
<1>1. Receiver!FillinRxBytes(IF r.inbnd[m].open
                               THEN Receiver!UnfileMesg(Receiver!PendingBytesArrived(r, p), s, m)
                               ELSE Receiver!OpenMessage(r, p), p) = filled
  BY SameUnfileMesg, SameOpening, SameArrivals
<1>2. /\ Receiver!NoMessage = NoMessage /\ Receiver!Complete(filled.inbnd[m]) = Complete(filled.inbnd[m])
      /\ Receiver!FileMesg(filled, s, m) = FileMesg(filled, s, m)
      /\ Receiver!Require(done, cond, "handleInboundPkt: complete but granted")
           = Require(done, cond, "handleInboundPkt: complete but granted")
  BY SameBasics, SameTests, SameFileMesg
<1> DEFINE end == IF Complete(filled.inbnd[m])
                    THEN Require(done, cond, "handleInboundPkt: complete but granted")
                  ELSE IF filled.inbnd[m].bytesToGrant = 0 THEN filled ELSE FileMesg(filled, s, m)
<1>3. HandleInboundPkt(r, p) = end
  BY Zenon DEF HandleInboundPkt
<1>4. Receiver!HandleInboundPkt(r, p) = end
  <2> HIDE DEF filled
  <2> QED BY <1>1, <1>2 DEF Receiver!HandleInboundPkt
<1> HIDE DEF end
<1> QED BY <1>3, <1>4

LEMMA SameHandlePktArrival == \A r, old, cur : Receiver!HandlePktArrival(r, old, cur) = HandlePktArrival(r, old, cur)
<1> SUFFICES ASSUME NEW r, NEW old, NEW cur
             PROVE  Receiver!HandlePktArrival(r, old, cur) = HandlePktArrival(r, old, cur)
  OBVIOUS
<1> DEFINE wasGranted == old.sInd >= 0 /\ old.sInd < old.numToGrant + old.headIdx
           last == cur.headIdx + Lesser(cur.numSenders, cur.numToGrant) - 1
           check == Require(r, wasGranted => InRange(old), "handlePktArrival: invalid old position")
<1>1. /\ Receiver!InRange(old) = InRange(old)
      /\ cur.headIdx + Receiver!Lesser(cur.numSenders, cur.numToGrant) - 1 = last
  BY SameTests, SameBasics
<1>2. Receiver!Require(r, wasGranted => Receiver!InRange(old), "handlePktArrival: invalid old position") = check
  BY <1>1, SameBasics
<1>3. /\ Receiver!GrantAt(check, cur, last) = GrantAt(check, cur, last)
      /\ Receiver!Settled(r, cur) = Settled(r, cur)
      /\ Receiver!GrantAt(Receiver!InsertSender(check, cur.s), cur, last) = GrantAt(InsertSender(check, cur.s), cur, last)
      /\ Receiver!Settled(Receiver!InsertSender(r, cur.s), cur) = Settled(InsertSender(r, cur.s), cur)
      /\ Receiver!SendFirst(r, cur.s, cur) = SendFirst(r, cur.s, cur)
  BY SameBasics, SameListing, SameGrantAt, SameSendFirst
<1> QED BY <1>1, <1>2, <1>3, SameGrantSent DEF Receiver!HandlePktArrival, HandlePktArrival

LEMMA SameReceived == \A r0, p : Receiver!ProcessReceivedPkt(r0, p) = ProcessReceivedPkt(r0, p)
BY SameCounts, SameRemoveIth, SameInsPoint, SameListing, SameArrivals, SameHandleInboundPkt,
   SameHandlePktArrival DEF Receiver!ProcessReceivedPkt, ProcessReceivedPkt

LEMMA SameProcessGrantTimer == \A r0, s : Receiver!ProcessGrantTimer(r0, s) = ProcessGrantTimer(r0, s)
<1> SUFFICES ASSUME NEW r0, NEW s
             PROVE  Receiver!ProcessGrantTimer(r0, s) = ProcessGrantTimer(r0, s)
  OBVIOUS
<1> DEFINE r1 == RemoveSender([r0 EXCEPT !.timer[s] = FALSE], s)
           at == InsPoint(r1, s)
           r2 == IF at.sInd < 0 THEN r1
                 ELSE IF at.sInd - at.headIdx >= r1.numToGrant THEN InsertSender(r1, s)
                 ELSE GrantSender(r1, s, at)
<1>1. Receiver!RemoveSender([r0 EXCEPT !.timer[s] = FALSE], s) = r1
  BY SameListing
<1>2. Receiver!InsPoint(r1, s) = at
  BY SameRemoveIth, SameInsPoint
<1>3. Receiver!InsertSender(r1, s) = InsertSender(r1, s) /\ Receiver!GrantSender(r1, s, at) = GrantSender(r1, s, at)
  BY SameListing, SameGrantSender
<1> DEFINE end(x) == IF x.oversub = "in" /\ ~Oversubscribed(x) THEN [x EXCEPT !.oversub = "ended"] ELSE x
<1>4. ProcessGrantTimer(r0, s) = end(r2)
  BY Zenon DEF ProcessGrantTimer
<1>5. \A x : (IF x.oversub = "in" /\ ~Receiver!Oversubscribed(x) THEN [x EXCEPT !.oversub = "ended"] ELSE x) = end(x)
  BY SameTests
<1>6. Receiver!ProcessGrantTimer(r0, s) = end(r2)
  <2> HIDE DEF r1, at, end
  <2> QED BY <1>1, <1>2, <1>3, <1>5 DEF Receiver!ProcessGrantTimer
<1> QED BY <1>4, <1>6

LEMMA SameReqUnsched == \A m : Receiver!ReqUnschedDataPkts(m) = ReqUnschedDataPkts(m)
<1>1. \A m : Receiver!ReqPkt(m) = ReqPkt(m)
  BY SameUnsched DEF Receiver!ReqPkt, ReqPkt
<1>2. \A m, k : Receiver!UnschedPkt(m, k) = UnschedPkt(m, k)
  BY SameUnsched, SameBasics DEF Receiver!UnschedPkt, UnschedPkt
<1> QED BY <1>1, <1>2, SameUnsched DEF Receiver!ReqUnschedDataPkts, ReqUnschedDataPkts

-----------------------------------------------------------------------------
(* What a host has still to receive.                                        *)

\* The packets of message m that host h has still to receive
Expected(h, m) ==
  IF MsgDst[m] # h THEN ReqUnschedDataPkts(m)
  ELSE SP!Coming(m, outbndMsg[m], pktsSent, SP!Outstanding, arrived)

LEMMA SameBytesOf == \A p : SP!BytesOf(p) = BytesOf(p) /\ SP!SchedPktFor(p) = SchedPktFor(p)
BY DEF SP!BytesOf, BytesOf, SP!SchedPktFor, SchedPktFor

LEMMA ToArriveIs ==
  ASSUME NEW h
  PROVE  ToArrive(h) = UNION {Expected(h, m) : m \in Msg}
<1>1. Sender!Outstanding = SP!Outstanding
  BY SameGrants
<1>2. \A m \in Msg :
        Expected(h, m) =
          IF MsgDst[m] # h \/ outbndMsg[m].status = "new" THEN ReqUnschedDataPkts(m)
          ELSE {p \in outbndMsg[m].txPkts \cup (pktsSent \ arrived) : p.msg = m}
               \cup {SchedPktFor(g) : g \in {x \in Sender!Outstanding : x.msg = m}}
  BY <1>1, SameParts, SameBytesOf DEF Expected, SP!Coming
<1> QED BY <1>2 DEF ToArrive

LEMMA ToArriveNextIs ==
  ASSUME NEW h
  PROVE  ToArrive(h)' = UNION {Expected(h, m)' : m \in Msg}
<1>1. Sender!Outstanding' = SP!Outstanding'
  BY DEF Sender!Outstanding, SP!Outstanding
<1>2. \A m \in Msg :
        Expected(h, m)' =
          IF MsgDst[m] # h \/ outbndMsg'[m].status = "new" THEN ReqUnschedDataPkts(m)
          ELSE {p \in outbndMsg'[m].txPkts \cup (pktsSent' \ arrived') : p.msg = m}
               \cup {SchedPktFor(g) : g \in {x \in Sender!Outstanding' : x.msg = m}}
  BY <1>1, SameParts, SameBytesOf DEF Expected, SP!Coming
<1> QED BY <1>2 DEF ToArrive

\* They all belong to message m.
LEMMA ExpectedOf ==
  ASSUME NEW h, NEW m \in Msg, NEW p \in Expected(h, m), Countable
  PROVE  p.msg = m
<1>1. \A x \in ReqUnschedDataPkts(m) : x.msg = m
  BY UnschedLens
<1>2. \A g : SchedPktFor(g).msg = g.msg
  BY DEF SchedPktFor
<1> QED BY <1>1, <1>2, SameParts, SameBytesOf DEF Expected, SP!Coming

LEMMA ToArriveOf ==
  ASSUME NEW h, NEW m \in Msg, Countable
  PROVE  PktsOf(ToArrive(h), m) = Expected(h, m)
BY ToArriveIs, ExpectedOf DEF PktsOf

\* How many bytes of m its receiver has let go
LEMMA OfferedIs ==
  /\ Offered = [m \in Msg |-> LetGo(rx[MsgDst[m]], m)]
  /\ Offered' = [m \in Msg |-> LetGo(rx'[MsgDst[m]], m)]
BY DEF Offered, LetGo

-----------------------------------------------------------------------------
(* The invariant: that of the senders, and of every host what is proved of  *)
(* one receiver.                                                            *)

SInv == SP!Inv /\ SP!ByteInv /\ SP!CleanInv

\* Host h lists and counts as HomaReceiver says; what is open there was sent to it.
Serves(h, sent, r, A) ==
  /\ r \in Sound(A) /\ r.grants = {}
  /\ r \in Lined({}, NumToKeepGranted) /\ Marked(r)
  /\ \A m \in Msg : r.inbnd[m].open => MsgDst[m] = h /\ \E p \in sent : p.msg = m

RInv ==
  /\ rx \in [Host -> Receivers]
  /\ \A h \in Host : Serves(h, pktsSent, rx[h], ToArrive(h))

JInv == SInv /\ RInv /\ TypeOK

LEMMA InitJInv ==
  ASSUME Countable, Init
  PROVE  JInv
<1>1. SP!Init
  <2>1. \A m \in Msg : MsgDst[m] \in Host
    BY MsgAssumption
  <2>2. Offered = [m \in Msg |-> TotalUnsched(m)]
    BY <2>1 DEF Init, Offered, InitReceiver, NoMessage
  <2>3. Sender!Init
    BY <2>2, SameParts DEF Init, Sender!Init
  <2> QED BY <2>3, SameInit
<1>2. SInv
  BY <1>1, SP!InitInv, SP!InitBytes, SP!InitClean, SameFinite, MsgAssumption, SizeAssumption,
     FiniteAssumption, WireAssumption, SchedAssumption DEF SInv
<1>3. ASSUME NEW h \in Host
      PROVE  Serves(h, pktsSent, rx[h], ToArrive(h)) /\ rx[h] \in Receivers
  <2>1. rx[h] = InitReceiver
    BY DEF Init
  <2>2. \A m \in Msg : Expected(h, m) = ReqUnschedDataPkts(m)
    BY SameParts DEF Expected, SP!Coming, Init, Sender!SenderInit
  <2>3. ToArrive(h) = UNION {ReqUnschedDataPkts(m) : m \in Msg}
    BY <2>2, ToArriveIs
  <2>4. InitReceiver \in Sound(ToArrive(h)) /\ InitReceiver.grants = {}
    BY <2>3, InitSound, InitFiles
  <2>5. InitReceiver \in Lined({}, NumToKeepGranted) /\ Marked(InitReceiver)
    BY InitLined
  <2>6. \A m \in Msg : ~InitReceiver.inbnd[m].open
    BY DEF InitReceiver, NoMessage
  <2>7. InitReceiver \in Receivers
    BY <2>4 DEF Sound, Filers
  <2> QED BY <2>1, <2>4, <2>5, <2>6, <2>7 DEF Serves
<1>4. RInv
  <2>1. rx = [h \in Host |-> InitReceiver]
    BY DEF Init
  <2>2. rx \in [Host -> Receivers]
    BY <1>3, <2>1
  <2> QED BY <1>3, <2>2 DEF RInv
<1>5. TypeOK
  BY DEF TypeOK, Init
<1> QED BY <1>2, <1>4, <1>5 DEF JInv

-----------------------------------------------------------------------------
(* The steps of the senders and of the network.                             *)

LEMMA NextSInv ==
  ASSUME SInv, SP!Next \/ UNCHANGED SP!vars
  PROVE  SInv'
<1>1. [SP!Next]_SP!vars
  OBVIOUS
<1> QED BY <1>1, SP!NextInv, SP!NextBytes, SP!NextClean, SameFinite, MsgAssumption, SizeAssumption,
     FiniteAssumption, WireAssumption, SchedAssumption DEF SInv

LEMMA SenderFacts ==
  ASSUME SInv
  PROVE  /\ outbndMsg \in [Msg -> SP!OutboundMessage] /\ outGrantQueue \in [Host -> SUBSET Grant]
         /\ sendTimer \in [Host -> BOOLEAN]
         /\ pktsSent \subseteq Pkt /\ grantNet \subseteq Grant
<1>1. SP!Pkt = Pkt /\ SP!Grant = Grant
  BY DEF SP!Pkt, Pkt, SP!Grant, Grant, SP!PktType, PktType
<1> QED BY <1>1 DEF SInv, SP!Inv, SP!TypeOK

\* What was lost never arrives, as a packet is no grant.
LEMMA PktNoGrant ==
  ASSUME NEW d, d \in Pkt, d \in Grant
  PROVE  FALSE
<1>1. "type" \in DOMAIN d
  BY DEF Pkt
<1>2. "type" \notin DOMAIN d
  BY DEF Grant
<1> QED BY <1>1, <1>2

\* A step of a sender moves packets on their way to the receivers, and no
\* more: the receivers go on expecting what they did.
LEMMA SenderStep ==
  ASSUME Countable, JInv, Sender!SenderNext, UNCHANGED <<rx, arrived, dropped>>,
         dropped \cap grantNet \subseteq grantNet'
  PROVE  JInv' /\ Sender!Next /\ \A h \in Host : ToArrive(h)' = ToArrive(h)
<1>1. UNCHANGED Offered
  BY DEF Offered
<1>2. Sender!Next /\ SP!Next /\ SP!SenderNext
  BY <1>1, SameNext, SameAppSend, SameReceiveGrant, SameSendTimer
     DEF Sender!Next, Sender!SenderNext, SP!SenderNext
<1>3. SInv'
  BY <1>2, NextSInv DEF JInv
<1>4. \A m \in Msg :
        /\ SP!Coming(m, outbndMsg'[m], pktsSent', SP!Outstanding', arrived) =
             SP!Coming(m, outbndMsg[m], pktsSent, SP!Outstanding, arrived)
        /\ pktsSent \subseteq pktsSent'
  BY <1>2, SP!SenderComing, SameFinite, MsgAssumption, SizeAssumption, FiniteAssumption,
     WireAssumption, SchedAssumption DEF JInv, SInv, TypeOK
<1>5. ASSUME NEW h \in Host
      PROVE  ToArrive(h)' = ToArrive(h)
  <2>1. \A m \in Msg : Expected(h, m)' = Expected(h, m)
    BY <1>4 DEF Expected
  <2> QED BY <2>1, ToArriveIs, ToArriveNextIs
<1>6. pktsSent \subseteq pktsSent'
  <2>1. ASSUME NEW h, NEW ready, NEW out, NEW total, SP!TransmitData(h, ready, out, total)
        PROVE  pktsSent \subseteq pktsSent'
    <3>1. \E p : pktsSent' = pktsSent \cup {p}
      BY <2>1, Zenon DEF SP!TransmitData
    <3> QED BY <3>1
  <2>2. ASSUME NEW h, NEW ready, NEW out, NEW total, SP!SendOrQueueData(h, ready, out, total)
        PROVE  pktsSent \subseteq pktsSent'
    <3>1. (UNCHANGED <<sendTimer, pktsSent>>) \/ SP!TransmitData(h, ready, out, total)
      BY <2>2, Zenon DEF SP!SendOrQueueData
    <3> QED BY <2>1, <3>1
  <2>3. \A m \in Msg : SP!AppSend(m) => pktsSent \subseteq pktsSent'
    BY <2>2, Zenon DEF SP!AppSend
  <2>4. \A g \in grantNet : SP!ReceiveGrant(g) => pktsSent \subseteq pktsSent'
    BY <2>2, Zenon DEF SP!ReceiveGrant
  <2>5. ASSUME NEW h \in Host, SP!SendTimer(h)
        PROVE  pktsSent \subseteq pktsSent'
    <3>1. \/ UNCHANGED pktsSent
          \/ SP!TransmitData(h, outbndMsgSet[h], outbndMsg, bytesLeftToSend[h])
      BY <2>5, Zenon DEF SP!SendTimer, SP!netVars
    <3> QED BY <2>1, <3>1
  <2> QED BY <1>2, <2>3, <2>4, <2>5 DEF SP!SenderNext
<1>7. RInv'
  <2>1. \A h \in Host : Serves(h, pktsSent', rx[h], ToArrive(h))
    BY <1>6 DEF JInv, RInv, Serves
  <2> QED BY <2>1, <1>5 DEF JInv, RInv
<1>8. TypeOK'
  BY <1>6 DEF JInv, TypeOK
<1> QED BY <1>2, <1>3, <1>5, <1>7, <1>8 DEF JInv

LEMMA StillJInv ==
  ASSUME JInv, UNCHANGED <<senderVars, rx, arrived>>, TypeOK'
  PROVE  JInv' /\ UNCHANGED Sender!vars /\ \A h \in Host : ToArrive(h)' = ToArrive(h)
<1>1. UNCHANGED <<outbndMsg, outbndMsgSet, bytesLeftToSend, bytesNeedGrant, sendTimer,
                  outGrantQueue, pktsSent, grantNet, rx, arrived>>
  BY DEF senderVars
<1>2. UNCHANGED SP!vars /\ UNCHANGED Sender!vars
  BY <1>1 DEF SP!vars, SP!senderVars, Sender!vars, Sender!senderVars, Offered
<1>3. SInv'
  BY <1>2, NextSInv DEF JInv
<1>4. ASSUME NEW h \in Host
      PROVE  ToArrive(h)' = ToArrive(h)
  BY <1>1 DEF ToArrive, Sender!Outstanding
<1>5. RInv'
  <2>1. \A h \in Host : Serves(h, pktsSent', rx'[h], ToArrive(h)')
    BY <1>1, <1>4 DEF JInv, RInv
  <2> QED BY <1>1, <2>1 DEF JInv, RInv
<1> QED BY <1>2, <1>3, <1>4, <1>5 DEF JInv

LEMMA LoseStep ==
  ASSUME JInv, NEW d \in OnTheWay \cup GrantsOnTheWay, Lose(d)
  PROVE  JInv' /\ UNCHANGED Sender!vars /\ \A h \in Host : ToArrive(h)' = ToArrive(h)
<1>1. UNCHANGED <<senderVars, rx, arrived>> /\ dropped' = dropped \cup {d}
  BY DEF Lose
<1>2. d \notin arrived
  <2>1. CASE d \in OnTheWay
    BY <2>1 DEF OnTheWay
  <2>2. CASE d \in GrantsOnTheWay
    <3>1. d \in Grant /\ arrived \subseteq Pkt
      BY <2>2, SenderFacts DEF GrantsOnTheWay, JInv, TypeOK
    <3> QED BY <3>1, PktNoGrant
  <2> QED BY <2>1, <2>2
<1>3. d \in pktsSent \cup grantNet
  BY DEF OnTheWay, GrantsOnTheWay
<1>4. pktsSent' = pktsSent /\ grantNet' = grantNet /\ arrived' = arrived
  BY <1>1 DEF senderVars
<1>5. TypeOK'
  BY <1>1, <1>2, <1>3, <1>4 DEF JInv, TypeOK
<1> QED BY <1>1, <1>5, StillJInv

-----------------------------------------------------------------------------
(* The steps of the receivers.                                              *)

\* The grants of an event are the next ones of messages that need them.
LEMMA GrantsAreNext ==
  ASSUME JInv, NEW h \in Host, NEW q \in Receivers, LeaveReceiver(h, q), Offers(rx[h], q),
         \A m \in Msg : q.inbnd[m].open => MsgDst[m] = h /\ \E p \in pktsSent : p.msg = m
  PROVE  /\ SP!ReceiverGrants(h, {g.msg : g \in q.grants})
         /\ q.grants = {SP!NextGrant(m, Offered[m]) : m \in {g.msg : g \in q.grants}}
<1> DEFINE granted == {g.msg : g \in q.grants}
           r == rx[h]
<1>1. rx' = [rx EXCEPT ![h] = [q EXCEPT !.grants = {}]] /\ Sender!SendOrQueueGrants(h, q.grants)
  BY DEF LeaveReceiver
<1>2. rx \in [Host -> Receivers]
  BY DEF JInv, RInv
<1>3. Offered = [m \in Msg |-> LetGo(rx[MsgDst[m]], m)] /\ Offered' = [m \in Msg |-> LetGo(rx'[MsgDst[m]], m)]
  BY OfferedIs
<1>4. \A m \in Msg : MsgDst[m] \in Host
  BY MsgAssumption
<1>5. \A g \in q.grants : /\ g.msg \in Msg /\ MsgDst[g.msg] = h /\ SP!NeedsGrant(g.msg)
                          /\ g = SP!NextGrant(g.msg, Offered[g.msg])
  <2> SUFFICES ASSUME NEW g \in q.grants
               PROVE  /\ g.msg \in Msg /\ MsgDst[g.msg] = h /\ SP!NeedsGrant(g.msg)
                      /\ g = SP!NextGrant(g.msg, Offered[g.msg])
    OBVIOUS
  <2>1. /\ g.msg \in Msg /\ q.inbnd[g.msg].open /\ LetGo(r, g.msg) < MsgSize[g.msg]
        /\ g = [msg |-> g.msg, first |-> LetGo(r, g.msg),
                len |-> Lesser(GrantMax, MsgSize[g.msg] - LetGo(r, g.msg))]
    BY DEF Offers
  <2>2. MsgDst[g.msg] = h /\ \E p \in pktsSent : p.msg = g.msg
    BY <2>1
  <2>3. Offered[g.msg] = LetGo(r, g.msg)
    BY <1>3, <2>1, <2>2
  <2> QED BY <2>1, <2>2, <2>3 DEF SP!NeedsGrant, SP!NextGrant, SP!Lesser, Lesser
<1>6. q.grants = {SP!NextGrant(m, Offered[m]) : m \in granted}
  BY <1>5
<1>7. SP!SendOrQueueGrants(h, {SP!NextGrant(m, Offered[m]) : m \in granted})
  BY <1>1, <1>6, SameGrants
<1>8. Offered' = [m \in Msg |-> IF m \in granted THEN Offered[m] + SP!NextGrant(m, Offered[m]).len
                                                 ELSE Offered[m]]
  <2>1. ASSUME NEW m \in Msg
        PROVE  Offered'[m] = IF m \in granted THEN Offered[m] + SP!NextGrant(m, Offered[m]).len
                                              ELSE Offered[m]
    <3>1. Offered'[m] = LetGo(rx'[MsgDst[m]], m) /\ Offered[m] = LetGo(rx[MsgDst[m]], m)
      BY <1>3
    <3>2. CASE MsgDst[m] # h
      <4>1. rx'[MsgDst[m]] = rx[MsgDst[m]] /\ m \notin granted
        BY <1>1, <1>2, <1>4, <1>5, <3>2
      <4> QED BY <3>1, <4>1
    <3>3. CASE MsgDst[m] = h
      <4>1. LetGo(rx'[h], m) = LetGo(q, m)
        BY <1>1, <1>2 DEF LetGo, Receivers
      <4>2. CASE m \notin granted
        <5>1. LetGo(q, m) = LetGo(r, m)
          BY <4>2 DEF Offers
        <5> QED BY <3>1, <3>3, <4>1, <4>2, <5>1
      <4>3. CASE m \in granted
        <5>1. PICK g \in q.grants : g.msg = m
          BY <4>3
        <5>2. LetGo(q, m) = LetGo(r, m) + g.len
          BY <5>1 DEF Offers
        <5>3. g = SP!NextGrant(m, Offered[m])
          BY <1>5, <5>1
        <5> QED BY <3>1, <3>3, <4>1, <4>3, <5>2, <5>3
      <4> QED BY <4>2, <4>3
    <3> QED BY <3>2, <3>3
  <2> HIDE DEF granted
  <2> QED BY <1>3, <2>1
<1> QED BY <1>5, <1>6, <1>7, <1>8 DEF SP!ReceiverGrants

\* What comes of an event of host h: the packets came arrive, and grants of the
\* receiver join those on their way.
Changes(h, came, grants) ==
  /\ SP!Outstanding' = SP!Outstanding \cup grants
  /\ UNCHANGED <<outbndMsg, pktsSent>>
  /\ arrived' = arrived \cup came
  /\ came \subseteq pktsSent /\ \A p \in came : MsgDst[p.msg] = h
  /\ \A g \in grants : g.msg \in Msg /\ MsgDst[g.msg] = h /\ outbndMsg[g.msg].status # "new"

LEMMA SentNotComing ==
  ASSUME SInv, NEW p \in pktsSent
  PROVE  /\ p.msg \in Msg /\ outbndMsg[p.msg].status # "new"
         /\ p \notin outbndMsg[p.msg].txPkts
         /\ \A g \in SP!Outstanding : p # SchedPktFor(g)
BY SP!SentParts, SameBytesOf, SameFinite, MsgAssumption, SizeAssumption, FiniteAssumption,
   WireAssumption, SchedAssumption DEF SInv

\* Every host expects the packets of its new grants, and no more those that came.
LEMMA ExpectedStep ==
  ASSUME Countable, SInv, NEW h, NEW came, NEW grants, Changes(h, came, grants),
         NEW k, NEW m \in Msg
  PROVE  Expected(k, m)' =
           IF k = h THEN (Expected(h, m) \ came) \cup {SchedPktFor(g) : g \in {x \in grants : x.msg = m}}
                    ELSE Expected(k, m)
<1> DEFINE ours == {SchedPktFor(g) : g \in {x \in grants : x.msg = m}}
           old == {p \in outbndMsg[m].txPkts \cup (pktsSent \ arrived) : p.msg = m}
                    \cup {SchedPktFor(g) : g \in {x \in SP!Outstanding : x.msg = m}}
           new == {p \in outbndMsg[m].txPkts \cup (pktsSent \ arrived') : p.msg = m}
                    \cup {SchedPktFor(g) : g \in {x \in SP!Outstanding' : x.msg = m}}
<1>1. /\ Expected(k, m) = IF MsgDst[m] # k \/ outbndMsg[m].status = "new"
                            THEN ReqUnschedDataPkts(m) ELSE old
      /\ Expected(k, m)' = IF MsgDst[m] # k \/ outbndMsg[m].status = "new"
                             THEN ReqUnschedDataPkts(m) ELSE new
  BY SameParts, SameBytesOf DEF Expected, SP!Coming, Changes
<1>2. \A p \in came : p.msg \in Msg /\ outbndMsg[p.msg].status # "new" /\ MsgDst[p.msg] = h
  BY SentNotComing DEF Changes
<1>3. \A p \in Expected(k, m) : p.msg = m
  BY ExpectedOf
<1>4. CASE MsgDst[m] # h \/ outbndMsg[m].status = "new"
  <2>1. (\A p \in came : p.msg # m) /\ (\A g \in grants : g.msg # m)
    BY <1>2, <1>4 DEF Changes
  <2>2. ours = {} /\ Expected(k, m) \cap came = {}
    BY <2>1, <1>3
  <2>3. new = old
    BY <2>1 DEF Changes
  <2> QED BY <1>1, <2>2, <2>3
<1>5. CASE MsgDst[m] = h /\ outbndMsg[m].status # "new"
  <2>1. CASE k # h
    BY <1>1, <1>5, <2>1
  <2>2. CASE k = h
    <3>1. \A p \in came : /\ p.msg = m => p \notin outbndMsg[m].txPkts
                          /\ \A g \in SP!Outstanding : p # SchedPktFor(g)
      BY SentNotComing DEF Changes
    <3>2. new = (old \ came) \cup ours
      <4>1. \A g : SchedPktFor(g) \in came => g \notin SP!Outstanding
        BY <3>1
      <4> QED BY <3>1, <4>1 DEF Changes
    <3> HIDE DEF new, old, ours
    <3> QED BY <1>1, <1>5, <2>2, <3>2 DEF ours
  <2> QED BY <2>1, <2>2
<1> QED BY <1>4, <1>5

LEMMA ToArriveStep ==
  ASSUME Countable, SInv, NEW h \in Host, NEW came, NEW grants, Changes(h, came, grants)
  PROVE  /\ ToArrive(h)' = (ToArrive(h) \ came) \cup {SchedPktFor(g) : g \in grants}
         /\ \A k \in Host \ {h} : ToArrive(k)' = ToArrive(k)
<1>1. \A m \in Msg :
        Expected(h, m)' = (Expected(h, m) \ came) \cup {SchedPktFor(g) : g \in {x \in grants : x.msg = m}}
  BY ExpectedStep
<1>2. \A k \in Host \ {h} : \A m \in Msg : Expected(k, m)' = Expected(k, m)
  BY ExpectedStep
<1>3. \A g \in grants : g.msg \in Msg
  BY DEF Changes
<1>4. /\ ToArrive(h) = UNION {Expected(h, m) : m \in Msg}
      /\ ToArrive(h)' = UNION {Expected(h, m)' : m \in Msg}
  BY ToArriveIs, ToArriveNextIs
<1>5. ToArrive(h)' = (ToArrive(h) \ came) \cup {SchedPktFor(g) : g \in grants}
  <2>1. ASSUME NEW p
        PROVE  p \in ToArrive(h)' <=> p \in (ToArrive(h) \ came) \cup {SchedPktFor(g) : g \in grants}
    <3>1. p \in ToArrive(h)' <=> \E m \in Msg : p \in Expected(h, m)'
      BY <1>4
    <3>2. p \in ToArrive(h) <=> \E m \in Msg : p \in Expected(h, m)
      BY <1>4
    <3> QED BY <1>1, <1>3, <3>1, <3>2
  <2> QED BY <2>1
<1>6. ASSUME NEW k \in Host \ {h}
      PROVE  ToArrive(k)' = ToArrive(k)
  BY <1>2, ToArriveIs, ToArriveNextIs
<1> QED BY <1>5, <1>6

\* An event of the receiver of h, which leaves it as q.
LEMMA LeaveStep ==
  ASSUME Countable, JInv, NEW h \in Host, NEW q, LeaveReceiver(h, q), Offers(rx[h], q),
         NEW came, came \subseteq OnTheWay, \A p \in came : MsgDst[p.msg] = h,
         arrived' = arrived \cup came, UNCHANGED dropped,
         q \in Sound(ToArrive(h) \ came), q \in Lined({}, NumToKeepGranted), Marked(q),
         \A m \in Msg : q.inbnd[m].open => rx[h].inbnd[m].open \/ \E p \in came : m = p.msg
  PROVE  /\ JInv' /\ (Sender!Next \/ UNCHANGED Sender!vars)
         /\ ToArrive(h)' = (ToArrive(h) \ came) \cup Ours(q)
         /\ \A k \in Host \ {h} : ToArrive(k)' = ToArrive(k)
<1> DEFINE granted == {g.msg : g \in q.grants}
<1>1. q \in Filers /\ q \in Receivers
  BY DEF Sound, Filers
<1>2. \A m \in Msg : q.inbnd[m].open => MsgDst[m] = h /\ \E p \in pktsSent : p.msg = m
  BY DEF JInv, RInv, Serves, OnTheWay
<1>3. /\ SP!ReceiverGrants(h, granted) /\ granted \in SUBSET Msg
      /\ q.grants = {SP!NextGrant(m, Offered[m]) : m \in granted}
  <2>1. granted \in SUBSET Msg
    BY DEF Offers
  <2> QED BY <1>1, <1>2, <2>1, GrantsAreNext
<1>4. SP!Next \/ UNCHANGED SP!vars
  <2>1. CASE granted # {}
    <3> HIDE DEF granted
    <3>1. granted \in (SUBSET Msg) \ {{}}
      BY <1>3, <2>1
    <3>2. \E k \in Host : \E G \in (SUBSET Msg) \ {{}} : SP!ReceiverGrants(k, G)
      BY <1>3, <3>1
    <3> QED BY <3>2, Zenon DEF SP!Next
  <2>2. CASE granted = {}
    <3>1. Sender!SendOrQueueGrants(h, {})
      BY <2>2 DEF LeaveReceiver
    <3>2. outGrantQueue \in [Host -> SUBSET Grant]
      BY SenderFacts DEF JInv
    <3>3. UNCHANGED <<outbndMsg, outbndMsgSet, bytesLeftToSend, bytesNeedGrant, sendTimer,
                      outGrantQueue, pktsSent, grantNet>>
      BY <3>1, <3>2 DEF Sender!SendOrQueueGrants, Sender!hostVars
    <3>4. Offered' = [m \in Msg |-> Offered[m]]
      BY <1>3, <2>2 DEF SP!ReceiverGrants
    <3>5. Offered = [m \in Msg |-> Offered[m]]
      BY OfferedIs
    <3> QED BY <3>3, <3>4, <3>5 DEF SP!vars, SP!senderVars
  <2> QED BY <2>1, <2>2
<1>5. SInv /\ SInv'
  BY <1>4, NextSInv DEF JInv
<1>6. SP!Outstanding' = SP!Outstanding \cup q.grants /\ UNCHANGED <<outbndMsg, pktsSent>>
  <2> HIDE DEF granted
  <2> QED BY <1>3, <1>5, SP!ReceiverGrantsPlaced, SameFinite, MsgAssumption, SizeAssumption,
     FiniteAssumption, WireAssumption, SchedAssumption DEF SInv
<1>7. Changes(h, came, q.grants)
  <2>1. \A g \in q.grants : g.msg \in Msg /\ MsgDst[g.msg] = h /\ outbndMsg[g.msg].status # "new"
    <3> SUFFICES ASSUME NEW g \in q.grants
                 PROVE  g.msg \in Msg /\ MsgDst[g.msg] = h /\ outbndMsg[g.msg].status # "new"
      OBVIOUS
    <3>1. g.msg \in Msg /\ MsgDst[g.msg] = h /\ \E p \in pktsSent : p.msg = g.msg
      BY <1>2 DEF Offers
    <3> QED BY <1>5, <3>1, SentNotComing
  <2> QED BY <1>6, <2>1 DEF Changes, OnTheWay
<1>8. /\ ToArrive(h)' = (ToArrive(h) \ came) \cup Ours(q)
      /\ \A k \in Host \ {h} : ToArrive(k)' = ToArrive(k)
  BY <1>5, <1>7, ToArriveStep DEF Ours
<1>9. RInv'
  <2> DEFINE r == [q EXCEPT !.grants = {}]
  <2>1. rx \in [Host -> Receivers] /\ rx' = [rx EXCEPT ![h] = r]
    BY DEF JInv, RInv, LeaveReceiver
  <2>2. r \in Sound(ToArrive(h)') /\ r.grants = {}
    BY <1>8, LeaveSound DEF Pending
  <2>3. r \in Lined({}, NumToKeepGranted) /\ Marked(r)
    BY LeaveLined
  <2>4. r.inbnd = q.inbnd /\ r \in Receivers
    BY <1>1, <2>2 DEF Receivers, Sound, Filers
  <2> HIDE DEF r
  <2>5. Serves(h, pktsSent', r, ToArrive(h)')
    BY <1>2, <1>6, <2>2, <2>3, <2>4 DEF Serves
  <2>6. \A k \in Host \ {h} : Serves(k, pktsSent', rx[k], ToArrive(k)')
    BY <1>6, <1>8 DEF JInv, RInv
  <2>7. \A k \in Host : rx'[k] = IF k = h THEN r ELSE rx[k]
    BY <2>1
  <2>8. rx' \in [Host -> Receivers]
    BY <2>1, <2>4
  <2>9. \A k \in Host : Serves(k, pktsSent', rx'[k], ToArrive(k)')
    BY <2>5, <2>6, <2>7
  <2> QED BY <2>8, <2>9 DEF RInv
<1>10. TypeOK'
  <2>1. grantNet \subseteq grantNet'
    <3>1. Sender!SendOrQueueGrants(h, q.grants)
      BY DEF LeaveReceiver
    <3> QED BY <3>1 DEF Sender!SendOrQueueGrants
  <2>2. pktsSent' = pktsSent
    BY <1>6
  <2> QED BY <2>1, <2>2 DEF JInv, TypeOK, OnTheWay
<1>11. Sender!Next \/ UNCHANGED Sender!vars
  <2>1. UNCHANGED SP!vars => UNCHANGED Sender!vars
    BY DEF SP!vars, SP!senderVars, Sender!vars, Sender!senderVars
  <2> QED BY <1>4, <2>1, SameNext
<1> QED BY <1>5, <1>8, <1>9, <1>10, <1>11 DEF JInv

\* A data packet arrives.
LEMMA ReceivePktStep ==
  ASSUME Countable, ~LinkCheck, JInv, NEW p \in OnTheWay, ReceivePkt(p)
  PROVE  LET h == MsgDst[p.msg]
             q == ProcessReceivedPkt(rx[h], p)
         IN /\ JInv' /\ (Sender!Next \/ UNCHANGED Sender!vars)
            /\ h \in Host /\ p \in ToArrive(h)
            /\ ToArrive(h)' = (ToArrive(h) \ {p}) \cup Ours(q)
            /\ \A k \in Host \ {h} : ToArrive(k)' = ToArrive(k)
<1> DEFINE h == MsgDst[p.msg]
           r == rx[h]
           q == ProcessReceivedPkt(r, p)
<1>1. p \in pktsSent /\ p \notin arrived /\ SInv
  BY DEF OnTheWay, JInv
<1>2. p.msg \in Msg /\ h \in Host /\ outbndMsg[p.msg].status # "new"
  BY <1>1, SentNotComing, MsgAssumption
<1>3. p \in ToArrive(h)
  <2>1. p \in Expected(h, p.msg)
    BY <1>1, <1>2 DEF Expected, SP!Coming
  <2> QED BY <1>2, <2>1, ToArriveIs
<1>4. /\ r \in Sound(ToArrive(h)) /\ r.grants = {}
      /\ r \in Lined({}, NumToKeepGranted) /\ Marked(r)
  BY <1>2 DEF JInv, RInv, Serves
<1>5. LeaveReceiver(h, q) /\ arrived' = arrived \cup {p} /\ UNCHANGED dropped
  BY DEF ReceivePkt
<1> HIDE DEF q, r
<1>6. q \in Sound(ToArrive(h) \ {p})
  BY <1>3, <1>4, ArrivalSound DEF q
<1>7. q \in Lined({}, NumToKeepGranted) /\ Marked(q)
  BY <1>3, <1>4, ArrivalLined DEF q
<1>8. Offers(r, q) /\ \A m \in Msg : q.inbnd[m].open => r.inbnd[m].open \/ m = p.msg
  BY <1>3, <1>4, ArrivalOffers DEF q
<1>9. {p} \subseteq OnTheWay /\ \A x \in {p} : MsgDst[x.msg] = h
  OBVIOUS
<1>10. \A m \in Msg : q.inbnd[m].open => rx[h].inbnd[m].open \/ \E x \in {p} : m = x.msg
  BY <1>8 DEF r
<1>11. Offers(rx[h], q)
  BY <1>8 DEF r
<1> HIDE DEF h
<1>12. /\ JInv' /\ (Sender!Next \/ UNCHANGED Sender!vars)
       /\ ToArrive(h)' = (ToArrive(h) \ {p}) \cup Ours(q)
       /\ \A k \in Host \ {h} : ToArrive(k)' = ToArrive(k)
  BY <1>2, <1>5, <1>6, <1>7, <1>9, <1>10, <1>11, LeaveStep
<1> QED BY <1>2, <1>3, <1>12 DEF h, q, r

\* A timer of a sender fires at a receiver.
LEMMA GrantTimerStep ==
  ASSUME Countable, JInv, NEW h \in Host, NEW s \in Host, GrantTimer(h, s)
  PROVE  LET q == ProcessGrantTimer(rx[h], s)
         IN /\ JInv' /\ (Sender!Next \/ UNCHANGED Sender!vars)
            /\ ToArrive(h)' = ToArrive(h) \cup Ours(q)
            /\ \A k \in Host \ {h} : ToArrive(k)' = ToArrive(k)
<1> DEFINE r == rx[h]
           A == ToArrive(h)
           q == ProcessGrantTimer(r, s)
<1>1. /\ r \in Sound(A) /\ r.grants = {}
      /\ r \in Lined({}, NumToKeepGranted) /\ Marked(r)
  BY DEF JInv, RInv, Serves
<1>2. LeaveReceiver(h, q) /\ UNCHANGED <<arrived, dropped>>
  BY DEF GrantTimer
<1> HIDE DEF q, r, A
<1>3. q \in Sound(A)
  <2> DEFINE G == Sound(A)
  <2>1. Closed(G)
    BY SoundClosed
  <2> HIDE DEF G
  <2>2. q \in G
    BY <1>1, <2>1, ProcessGrantTimerIn DEF G, q
  <2> QED BY <2>2 DEF G
<1>4. q \in Lined({}, NumToKeepGranted) /\ Marked(q)
  BY <1>1, ProcessGrantTimerLined DEF q
<1>5. Offers(r, q) /\ \A m \in Msg : q.inbnd[m].open => r.inbnd[m].open
  BY <1>1, TimerOffers DEF q
<1> DEFINE none == {}
<1>6. q \in Sound(ToArrive(h) \ none)
  BY <1>3 DEF A
<1>7. /\ Offers(rx[h], q)
      /\ \A m \in Msg : q.inbnd[m].open => rx[h].inbnd[m].open \/ \E x \in none : m = x.msg
  BY <1>5 DEF r
<1>8. /\ arrived' = arrived \cup none /\ UNCHANGED dropped
      /\ none \subseteq OnTheWay /\ \A x \in none : MsgDst[x.msg] = h
  BY <1>2
<1> HIDE DEF none
<1>9. /\ JInv' /\ (Sender!Next \/ UNCHANGED Sender!vars)
      /\ ToArrive(h)' = (ToArrive(h) \ none) \cup Ours(q)
      /\ \A k \in Host \ {h} : ToArrive(k)' = ToArrive(k)
  BY <1>2, <1>4, <1>6, <1>7, <1>8, LeaveStep
<1> QED BY <1>9 DEF q, r, none

\* The bandwidth check is off, and its timer is never set.
LEMMA NoBwUtilTimer ==
  ASSUME JInv, NEW h \in Host
  PROVE  ~BwUtilTimer(h)
BY LinedData DEF JInv, RInv, Serves, BwUtilTimer

-----------------------------------------------------------------------------
(* Every step keeps the invariant and is one of HomaSender.                 *)

LEMMA NextJInv ==
  ASSUME Countable, ~LinkCheck, JInv, [Next]_vars
  PROVE  JInv' /\ (Sender!Next \/ UNCHANGED Sender!vars)
<1>1. ASSUME Sender!SenderNext, UNCHANGED <<rx, arrived, dropped>>,
             dropped \cap grantNet \subseteq grantNet'
      PROVE  JInv' /\ (Sender!Next \/ UNCHANGED Sender!vars)
  BY <1>1, SenderStep
<1>2. ASSUME NEW m \in Msg, AppSend(m)
      PROVE  JInv' /\ (Sender!Next \/ UNCHANGED Sender!vars)
  <2>1. Sender!AppSend(m) /\ UNCHANGED <<rx, arrived, dropped>>
    BY <1>2 DEF AppSend
  <2>2. grantNet' = grantNet
    BY <2>1, Zenon DEF Sender!AppSend
  <2> QED BY <1>1, <2>1, <2>2 DEF Sender!SenderNext
<1>3. ASSUME NEW g \in GrantsOnTheWay, ReceiveGrant(g)
      PROVE  JInv' /\ (Sender!Next \/ UNCHANGED Sender!vars)
  <2>1. Sender!ReceiveGrant(g) /\ UNCHANGED <<rx, arrived, dropped>>
    BY <1>3 DEF ReceiveGrant
  <2>2. grantNet' = grantNet \ {g}
    BY <2>1, Zenon DEF Sender!ReceiveGrant
  <2>3. g \in grantNet /\ g \notin dropped
    BY DEF GrantsOnTheWay
  <2> QED BY <1>1, <2>1, <2>2, <2>3 DEF Sender!SenderNext
<1>4. ASSUME NEW h \in Host, SendTimer(h)
      PROVE  JInv' /\ (Sender!Next \/ UNCHANGED Sender!vars)
  <2>1. Sender!SendTimer(h) /\ UNCHANGED <<rx, arrived, dropped>>
    BY <1>4 DEF SendTimer
  <2>2. grantNet' = grantNet \/ \E g : grantNet' = grantNet \cup {g}
    BY <2>1, Zenon DEF Sender!SendTimer, Sender!netVars
  <2> QED BY <1>1, <2>1, <2>2 DEF Sender!SenderNext
<1>5. ASSUME NEW p \in OnTheWay, ReceivePkt(p)
      PROVE  JInv' /\ (Sender!Next \/ UNCHANGED Sender!vars)
  BY <1>5, ReceivePktStep
<1>6. ASSUME NEW h \in Host, NEW s \in Host, GrantTimer(h, s)
      PROVE  JInv' /\ (Sender!Next \/ UNCHANGED Sender!vars)
  BY <1>6, GrantTimerStep
<1>7. ASSUME NEW h \in Host, BwUtilTimer(h)
      PROVE  JInv' /\ (Sender!Next \/ UNCHANGED Sender!vars)
  BY <1>7, NoBwUtilTimer
<1>8. ASSUME NEW d \in OnTheWay \cup GrantsOnTheWay, Lose(d)
      PROVE  JInv' /\ (Sender!Next \/ UNCHANGED Sender!vars)
  BY <1>8, LoseStep
<1>9. CASE UNCHANGED vars
  <2>1. UNCHANGED <<senderVars, rx, arrived, dropped>>
    BY <1>9 DEF vars
  <2>2. TypeOK'
    BY <2>1 DEF JInv, TypeOK, senderVars
  <2> QED BY <2>1, <2>2, StillJInv
<1> QED BY <1>2, <1>3, <1>4, <1>5, <1>6, <1>7, <1>8, <1>9 DEF Next, Event

LEMMA AlwaysJInv ==
  ASSUME Countable, ~LinkCheck
  PROVE  Spec => []JInv
<1>1. Init => JInv
  BY InitJInv
<1>2. JInv /\ [Next]_vars => JInv'
  BY NextJInv
<1> QED BY <1>1, <1>2, PTL DEF Spec

\* The packets that arrived or were lost were sent, and nothing arrives that
\* was lost: handleMessage is given what a sender put on the network, in a run
\* with request data, countable messages and the bandwidth check off.
THEOREM NetworkIsTyped ==
  ASSUME Countable, ~LinkCheck
  PROVE  Spec => []TypeOK
<1>1. JInv => TypeOK
  BY DEF JInv
<1> QED BY <1>1, AlwaysJInv, PTL

\* Every message is handed to the application at most once, and only when each
\* of its bytes has arrived in a packet, whatever the network lost and in
\* whatever order it delivered the rest; and no assertion of a ReceiveScheduler
\* fails, whatever the senders of the other hosts do.
THEOREM DeliveredIsComplete ==
  ASSUME Countable, ~LinkCheck
  PROVE  Spec => []DeliveredComplete
<1>1. ASSUME JInv
      PROVE  DeliveredComplete
  <2>1. ASSUME NEW h \in Host
        PROVE  rx[h].failed = {}
    BY <1>1 DEF JInv, RInv, Serves, Lined
  <2>2. ASSUME NEW m \in Msg, Delivered[m] > 0
        PROVE  /\ Delivered[m] = 1
               /\ UNION {BytesOf(p) : p \in {q \in arrived : q.msg = m}} = 0 .. MsgSize[m] - 1
    <3> DEFINE h == MsgDst[m]
               r == rx[h]
               A == ToArrive(h)
    <3>1. h \in Host
      BY MsgAssumption
    <3>2. Delivered[m] = r.delivered[m] /\ Offered[m] = LetGo(r, m)
      BY OfferedIs DEF Delivered
    <3>3. r \in Sound(A) /\ r.grants = {}
      BY <1>1, <3>1 DEF JInv, RInv, Serves
    <3>4. PktsOf(A, m) = Expected(h, m)
      BY ToArriveOf
    <3> HIDE DEF r, A
    <3>5. MesgData(r.inbnd[m], r.delivered[m], m, PktsOf(A, m))
      <4>1. Pending(r, A) = A
        BY <3>3 DEF Pending, Ours
      <4> QED BY <3>3, <4>1 DEF Sound, DataOf
    <3>6. ~r.inbnd[m].open /\ r.delivered[m] = 1 /\ PktsOf(A, m) = {}
      BY <2>2, <3>2, <3>5 DEF MesgData
    <3>7. Offered[m] = MsgSize[m]
      BY <3>2, <3>6 DEF LetGo
    <3>8. SP!Coming(m, outbndMsg[m], pktsSent, SP!Outstanding, arrived) = {}
      BY <3>4, <3>6 DEF Expected
    <3>9. arrived \in SUBSET pktsSent /\ SP!Inv /\ SP!ByteInv
      BY <1>1 DEF JInv, SInv, TypeOK
    <3>10. UNION {SP!BytesOf(p) : p \in {q \in arrived : q.msg = m}} = 0 .. MsgSize[m] - 1
      BY <3>7, <3>8, <3>9, SP!AllArrived, SameFinite, MsgAssumption, SizeAssumption,
         FiniteAssumption, WireAssumption, SchedAssumption
    <3> QED BY <3>2, <3>6, <3>10, SameBytesOf
  <2> QED BY <2>1, <2>2 DEF DeliveredComplete, Running
<1> QED BY <1>1, AlwaysJInv, PTL

\* The transport implements HomaSender: its receivers grant the next bytes of
\* messages that need them and never more, so that the theorems about the
\* SendController hold of the transport, losses included.
THEOREM SenderIsRefined ==
  ASSUME Countable, ~LinkCheck
  PROVE  Spec => SenderRefined
<1>1. Init => Sender!Init
  <2>1. \A m \in Msg : MsgDst[m] \in Host
    BY MsgAssumption
  <2> QED BY <2>1, SameParts DEF Init, Sender!Init, Offered, InitReceiver, NoMessage
<1>2. JInv /\ [Next]_vars => [Sender!Next]_Sender!vars
  BY NextJInv
<1> QED BY <1>1, <1>2, AlwaysJInv, PTL DEF Spec, SenderRefined, Sender!Spec

-----------------------------------------------------------------------------
(* Every step is one of HomaReceiver at Self, or nothing for it.             *)

LEMMA ReceiverInit ==
  ASSUME Countable, Self \in Host, Init
  PROVE  Receiver!Init
<1>1. rx[Self] = InitReceiver
  BY DEF Init
<1>2. \A m \in Msg : Expected(Self, m) = ReqUnschedDataPkts(m)
  BY SameParts DEF Expected, SP!Coming, Init, Sender!SenderInit
<1>3. ToArrive(Self) = UNION {ReqUnschedDataPkts(m) : m \in Msg}
  BY <1>2, ToArriveIs
<1>4. Receiver!InitReceiver = InitReceiver
  BY SameBasics
<1> QED BY <1>1, <1>3, <1>4, SameReqUnsched DEF Receiver!Init

\* What leaves Self alone.
LEMMA ReceiverSkips ==
  ASSUME rx'[Self] = rx[Self], ToArrive(Self)' = ToArrive(Self)
  PROVE  UNCHANGED Receiver!vars
BY DEF Receiver!vars

\* An event of another host
LEMMA OtherHost ==
  ASSUME JInv, Self \in Host, NEW h \in Host, h # Self, NEW q, LeaveReceiver(h, q),
         \A k \in Host \ {h} : ToArrive(k)' = ToArrive(k)
  PROVE  UNCHANGED Receiver!vars
<1>1. rx'[Self] = rx[Self]
  BY DEF LeaveReceiver, JInv, RInv
<1> QED BY <1>1, ReceiverSkips

LEMMA ReceiverArrival ==
  ASSUME Countable, ~LinkCheck, JInv, Running, Self \in Host, NEW p \in OnTheWay, ReceivePkt(p)
  PROVE  Receiver!Next \/ UNCHANGED Receiver!vars
<1> DEFINE h == MsgDst[p.msg]
           q == ProcessReceivedPkt(rx[h], p)
<1>1. /\ h \in Host /\ p \in ToArrive(h)
      /\ ToArrive(h)' = (ToArrive(h) \ {p}) \cup Ours(q)
      /\ \A k \in Host \ {h} : ToArrive(k)' = ToArrive(k)
  BY ReceivePktStep
<1>2. LeaveReceiver(h, q)
  BY DEF ReceivePkt
<1>3. CASE h # Self
  BY <1>1, <1>2, <1>3, OtherHost
<1>4. ASSUME h = Self
      PROVE  Receiver!PktArrives(p) /\ p \in ToArrive(Self)
  <2>1. Receiver!ProcessReceivedPkt(rx[Self], p) = q
    BY <1>4, SameReceived
  <2>2. \A g : Receiver!SchedPktFor(g) = SchedPktFor(g)
    BY SameBasics
  <2>3. Receiver!Running
    BY <1>1, <1>4 DEF Running, Receiver!Running
  <2> HIDE DEF q
  <2>4. rx'[Self] = [q EXCEPT !.grants = {}]
    BY <1>2, <1>4 DEF LeaveReceiver, JInv, RInv
  <2>5. ToArrive(Self)' = (ToArrive(Self) \ {p}) \cup {SchedPktFor(g) : g \in q.grants}
    BY <1>1, <1>4 DEF Ours
  <2>6. p \in ToArrive(Self)
    BY <1>1, <1>4
  <2> QED BY <2>1, <2>2, <2>3, <2>4, <2>5, <2>6 DEF Receiver!PktArrives
<1> QED BY <1>3, <1>4 DEF Receiver!Next

LEMMA ReceiverTimer ==
  ASSUME Countable, JInv, Running, Self \in Host, NEW h \in Host, NEW s \in Host, GrantTimer(h, s)
  PROVE  Receiver!Next \/ UNCHANGED Receiver!vars
<1> DEFINE q == ProcessGrantTimer(rx[h], s)
<1>1. /\ ToArrive(h)' = ToArrive(h) \cup Ours(q)
      /\ \A k \in Host \ {h} : ToArrive(k)' = ToArrive(k)
  BY GrantTimerStep
<1>2. LeaveReceiver(h, q) /\ rx[h].timer[s]
  BY DEF GrantTimer
<1>3. CASE h # Self
  BY <1>1, <1>2, <1>3, OtherHost
<1>4. ASSUME h = Self
      PROVE  Receiver!GrantTimer(s)
  <2>1. Receiver!ProcessGrantTimer(rx[Self], s) = q
    BY <1>4, SameProcessGrantTimer
  <2>2. \A g : Receiver!SchedPktFor(g) = SchedPktFor(g)
    BY SameBasics
  <2>3. Receiver!Running
    BY <1>4 DEF Running, Receiver!Running
  <2> HIDE DEF q
  <2>4. rx'[Self] = [q EXCEPT !.grants = {}]
    BY <1>2, <1>4 DEF LeaveReceiver, JInv, RInv
  <2>5. ToArrive(Self)' = ToArrive(Self) \cup {SchedPktFor(g) : g \in q.grants}
    BY <1>1, <1>4 DEF Ours
  <2>6. Receiver!Leave(q)
    BY <2>2, <2>4, <2>5 DEF Receiver!Leave
  <2>7. rx[Self].timer[s]
    BY <1>2, <1>4
  <2> QED BY <2>1, <2>3, <2>6, <2>7 DEF Receiver!GrantTimer
<1> QED BY <1>3, <1>4 DEF Receiver!Next

LEMMA ReceiverSteps ==
  ASSUME Countable, ~LinkCheck, JInv, Self \in Host, [Next]_vars
  PROVE  Receiver!Next \/ UNCHANGED Receiver!vars
<1>1. ASSUME Sender!SenderNext, UNCHANGED <<rx, arrived, dropped>>,
             dropped \cap grantNet \subseteq grantNet'
      PROVE  UNCHANGED Receiver!vars
  BY <1>1, SenderStep, ReceiverSkips
<1>2. ASSUME NEW m \in Msg, AppSend(m)
      PROVE  UNCHANGED Receiver!vars
  <2>1. Sender!AppSend(m) /\ UNCHANGED <<rx, arrived, dropped>>
    BY <1>2 DEF AppSend
  <2>2. grantNet' = grantNet
    BY <2>1, Zenon DEF Sender!AppSend
  <2> QED BY <1>1, <2>1, <2>2 DEF Sender!SenderNext
<1>3. ASSUME NEW g \in GrantsOnTheWay, ReceiveGrant(g)
      PROVE  UNCHANGED Receiver!vars
  <2>1. Sender!ReceiveGrant(g) /\ UNCHANGED <<rx, arrived, dropped>>
    BY <1>3 DEF ReceiveGrant
  <2>2. grantNet' = grantNet \ {g}
    BY <2>1, Zenon DEF Sender!ReceiveGrant
  <2>3. g \in grantNet /\ g \notin dropped
    BY DEF GrantsOnTheWay
  <2> QED BY <1>1, <2>1, <2>2, <2>3 DEF Sender!SenderNext
<1>4. ASSUME NEW h \in Host, SendTimer(h)
      PROVE  UNCHANGED Receiver!vars
  <2>1. Sender!SendTimer(h) /\ UNCHANGED <<rx, arrived, dropped>>
    BY <1>4 DEF SendTimer
  <2>2. grantNet' = grantNet \/ \E g : grantNet' = grantNet \cup {g}
    BY <2>1, Zenon DEF Sender!SendTimer, Sender!netVars
  <2> QED BY <1>1, <2>1, <2>2 DEF Sender!SenderNext
<1>5. ASSUME NEW d \in OnTheWay \cup GrantsOnTheWay, Lose(d)
      PROVE  UNCHANGED Receiver!vars
  <2>1. rx' = rx /\ \A h \in Host : ToArrive(h)' = ToArrive(h)
    BY <1>5, LoseStep DEF Lose
  <2> QED BY <2>1, ReceiverSkips
<1>6. CASE UNCHANGED vars
  <2>1. UNCHANGED <<senderVars, rx, arrived, dropped>>
    BY <1>6 DEF vars
  <2>2. TypeOK'
    BY <2>1 DEF JInv, TypeOK, senderVars
  <2> QED BY <2>1, <2>2, StillJInv, ReceiverSkips
<1>7. ASSUME NEW h \in Host
      PROVE  ~BwUtilTimer(h)
  BY NoBwUtilTimer
<1> QED BY <1>2, <1>3, <1>4, <1>5, <1>6, <1>7, ReceiverArrival, ReceiverTimer DEF Next, Event

\* The transport implements HomaReceiver at every host: the packets on their
\* way to it, those its senders hold ready and those that answer its grants
\* are all that it waits for, so that the theorems about a ReceiveScheduler hold
\* of each of them in the transport, with losses and with other receivers.
THEOREM ReceiverIsRefined ==
  ASSUME Countable, ~LinkCheck, Self \in Host
  PROVE  Spec => ReceiverRefined
<1>1. Init => Receiver!Init
  BY ReceiverInit
<1>2. JInv /\ [Next]_vars => [Receiver!Next]_Receiver!vars
  BY ReceiverSteps
<1> QED BY <1>1, <1>2, AlwaysJInv, PTL DEF Spec, ReceiverRefined, Receiver!Spec

-----------------------------------------------------------------------------
(* Every step is one of MessageDelivery, or nothing for the applications.    *)

Underway == {m \in Msg : outbndMsg[m].status # "new"}

LEMMA PromiseSkips ==
  ASSUME Underway' = Underway, rx' = rx
  PROVE  UNCHANGED Promise!vars
BY DEF Promise!vars, Underway, Delivered

LEMMA PromiseArrival ==
  ASSUME Countable, ~LinkCheck, JInv, DeliveredComplete', NEW p \in OnTheWay, ReceivePkt(p)
  PROVE  Promise!Next \/ UNCHANGED Promise!vars
<1> DEFINE h == MsgDst[p.msg]
           q == ProcessReceivedPkt(rx[h], p)
           m == p.msg
<1>1. h \in Host /\ m \in Msg /\ m \in Underway /\ p \in Pkt
  <2>1. p \in pktsSent /\ SInv
    BY DEF OnTheWay, JInv
  <2> QED BY <2>1, SenderFacts, SentNotComing, MsgAssumption DEF Underway
<1>2. LeaveReceiver(h, q)
  BY DEF ReceivePkt
<1>3. rx[h] \in Filers /\ rx \in [Host -> Receivers]
  BY <1>1 DEF JInv, RInv, Serves, Lined
<1>4. q.delivered = rx[h].delivered \/ q.delivered = [rx[h].delivered EXCEPT ![m] = @ + 1]
  BY <1>1, <1>3, ArrivalDelivers
<1> HIDE DEF q
<1>5. Underway' = Underway
  <2>1. Sender!SendOrQueueGrants(h, q.grants)
    BY <1>2 DEF LeaveReceiver
  <2> QED BY <2>1 DEF Sender!SendOrQueueGrants, Underway
<1>6. \A k \in Host : rx'[k].delivered = IF k = h THEN q.delivered ELSE rx[k].delivered
  <2>1. rx' = [rx EXCEPT ![h] = [q EXCEPT !.grants = {}]]
    BY <1>2 DEF LeaveReceiver
  <2>2. [q EXCEPT !.grants = {}].delivered = q.delivered
    <3>1. q \in Receivers
      BY <1>1, <1>3, ArrivalFiles DEF q, Filers
    <3> QED BY <3>1 DEF Receivers
  <2> QED BY <1>3, <2>1, <2>2
<1>7. \A k \in Msg : MsgDst[k] \in Host
  BY MsgAssumption
<1>8. rx[h].delivered \in [Msg -> Nat]
  BY <1>1, <1>3 DEF Receivers, Deliveries
<1>9. CASE q.delivered = rx[h].delivered
  <2>1. Delivered' = Delivered
    BY <1>6, <1>7, <1>9 DEF Delivered
  <2> QED BY <1>5, <2>1 DEF Promise!vars, Underway
<1>10. CASE q.delivered = [rx[h].delivered EXCEPT ![m] = @ + 1]
  <2>1. ASSUME NEW k \in Msg
        PROVE  Delivered'[k] = IF k = m THEN Delivered[m] + 1 ELSE Delivered[k]
    BY <1>1, <1>6, <1>7, <1>8, <1>10 DEF Delivered
  <2>2. Delivered[m] \in Nat
    BY <1>1, <1>8 DEF Delivered
  <2>3. Delivered'[m] > 0 => Delivered'[m] = 1
    BY <1>1 DEF DeliveredComplete
  <2>4. Delivered[m] = 0 /\ Delivered'[m] = 1
    BY <1>1, <2>1, <2>2, <2>3
  <2>5. Delivered' = [Delivered EXCEPT ![m] = 1]
    <3>1. /\ Delivered = [k \in Msg |-> Delivered[k]]
          /\ Delivered' = [k \in Msg |-> Delivered'[k]]
      BY DEF Delivered
    <3> HIDE DEF m
    <3> QED BY <1>1, <2>1, <2>4, <3>1
  <2>6. Promise!Deliver(m)
    BY <1>1, <1>5, <2>4, <2>5 DEF Promise!Deliver, Underway
  <2> QED BY <1>1, <2>6 DEF Promise!Next
<1> QED BY <1>4, <1>9, <1>10

LEMMA PromiseTimer ==
  ASSUME JInv, NEW h \in Host, NEW s \in Host, GrantTimer(h, s)
  PROVE  UNCHANGED Promise!vars
<1> DEFINE q == ProcessGrantTimer(rx[h], s)
<1>1. LeaveReceiver(h, q)
  BY DEF GrantTimer
<1>2. rx[h] \in Filers /\ rx \in [Host -> Receivers]
  BY DEF JInv, RInv, Serves, Lined
<1>3. q.delivered = rx[h].delivered
  BY <1>2, TimerDelivers
<1>4. q \in Receivers
  BY <1>2, FilersClosed, ProcessGrantTimerIn DEF Filers
<1> HIDE DEF q
<1>5. Underway' = Underway
  <2>1. Sender!SendOrQueueGrants(h, q.grants)
    BY <1>1 DEF LeaveReceiver
  <2> QED BY <2>1 DEF Sender!SendOrQueueGrants, Underway
<1>6. \A k \in Host : rx'[k].delivered = rx[k].delivered
  <2>1. rx' = [rx EXCEPT ![h] = [q EXCEPT !.grants = {}]]
    BY <1>1 DEF LeaveReceiver
  <2>2. [q EXCEPT !.grants = {}].delivered = q.delivered
    BY <1>4 DEF Receivers
  <2> QED BY <1>2, <1>3, <2>1, <2>2
<1>7. Delivered' = Delivered
  BY <1>6, MsgAssumption DEF Delivered
<1> QED BY <1>5, <1>7 DEF Promise!vars, Underway

LEMMA PromiseSteps ==
  ASSUME Countable, ~LinkCheck, JInv, DeliveredComplete', [Next]_vars
  PROVE  Promise!Next \/ UNCHANGED Promise!vars
<1> USE MsgAssumption, SizeAssumption, FiniteAssumption, WireAssumption, SchedAssumption, SameFinite
<1>1. Underway = SP!StartedOf(outbndMsg) /\ Underway' = SP!StartedOf(outbndMsg')
  BY DEF Underway, SP!StartedOf
<1>2. SP!Inv /\ SP!ByteInv
  BY DEF JInv, SInv
<1>3. ASSUME NEW m \in Msg, AppSend(m)
      PROVE  Promise!Next
  <2>1. Sender!AppSend(m) /\ UNCHANGED <<rx, arrived, dropped>>
    BY <1>3 DEF AppSend
  <2>2. SP!AppSend(m)
    BY <2>1, SameAppSend
  <2>3. m \notin Underway /\ Underway' = Underway \cup {m}
    BY <1>1, <1>2, <2>2, SP!AppSendStarts
  <2>4. Delivered' = Delivered
    BY <2>1 DEF Delivered
  <2>5. Promise!Send(m)
    BY <2>3, <2>4 DEF Promise!Send, Underway
  <2> QED BY <2>5 DEF Promise!Next
<1>4. ASSUME NEW g \in GrantsOnTheWay, ReceiveGrant(g)
      PROVE  UNCHANGED Promise!vars
  <2>1. Sender!ReceiveGrant(g) /\ UNCHANGED <<rx, arrived, dropped>>
    BY <1>4 DEF ReceiveGrant
  <2>2. SP!ReceiveGrant(g) /\ g \in grantNet
    BY <2>1, SameReceiveGrant DEF GrantsOnTheWay
  <2>3. Underway' = Underway
    BY <1>1, <1>2, <2>2, SP!ReceiveGrantStarts
  <2> QED BY <2>1, <2>3, PromiseSkips
<1>5. ASSUME NEW h \in Host, SendTimer(h)
      PROVE  UNCHANGED Promise!vars
  <2>1. Sender!SendTimer(h) /\ UNCHANGED <<rx, arrived, dropped>>
    BY <1>5 DEF SendTimer
  <2>2. SP!SendTimer(h)
    BY <2>1, SameSendTimer
  <2>3. Underway' = Underway
    BY <1>1, <1>2, <2>2, SP!SendTimerStarts
  <2> QED BY <2>1, <2>3, PromiseSkips
<1>6. ASSUME NEW d \in OnTheWay \cup GrantsOnTheWay, Lose(d)
      PROVE  UNCHANGED Promise!vars
  BY <1>6, PromiseSkips DEF Lose, senderVars, Underway
<1>7. CASE UNCHANGED vars
  BY <1>7, PromiseSkips DEF vars, senderVars, Underway
<1>8. ASSUME NEW h \in Host
      PROVE  ~BwUtilTimer(h)
  BY NoBwUtilTimer
<1> QED BY <1>3, <1>4, <1>5, <1>6, <1>7, <1>8, PromiseArrival, PromiseTimer DEF Next, Event

\* The transport keeps the promise of MessageDelivery whatever the network
\* loses: an application is handed a message only if one sent it, at most once,
\* and two applications never in one event.
THEOREM PromiseIsKept ==
  ASSUME Countable, ~LinkCheck
  PROVE  Spec => DeliversAtMostOnce
<1>1. Init => Promise!Init
  <2>1. \A m \in Msg : MsgDst[m] \in Host
    BY MsgAssumption
  <2> QED BY <2>1 DEF Init, Promise!Init, Sender!SenderInit, Delivered, InitReceiver
<1>2. JInv /\ DeliveredComplete' /\ [Next]_vars => [Promise!Next]_Promise!vars
  BY PromiseSteps
<1>3. Spec => []DeliveredComplete
  BY DeliveredIsComplete
<1> QED BY <1>1, <1>2, <1>3, AlwaysJInv, PTL DEF Spec, DeliversAtMostOnce, Promise!Spec
=============================================================================
