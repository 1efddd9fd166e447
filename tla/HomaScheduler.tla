--------------------------- MODULE HomaScheduler ---------------------------
(***************************************************************************)
(* HomaTransport::ReceiveScheduler, the half of the transport that decides   *)
(* which senders of a host may send scheduled bytes.  A handler is a         *)
(* function from the record of one receiver to the record it leaves, built  *)
(* from the calls the code makes in the order it makes them:                *)
(*                                                                          *)
(*   inbnd      InboundMessage of each message, see NoMessage               *)
(*   toGrant    SenderState::mesgsToGrant of each sender, best first        *)
(*   timer      is SenderState::grantTimer scheduled?                       *)
(*   lastPrio   SenderState::lastGrantPrio                                  *)
(*   lastIdx    SenderState::lastIdx                                        *)
(*   senders    SchedSenders::senders after its headIdx leading NULLs       *)
(*   headIdx, numToGrant   of SchedSenders                                  *)
(*   oversub    "in" an oversubscription period, "ended" but not recorded   *)
(*              yet, or "none" (inOversubPeriod and oversubPeriodStop)      *)
(*   bwTimer    is schedBwUtilTimer scheduled?                              *)
(*   inflightUnsched, inflightSched   inflightUnschedBytes and ...SchedBytes *)
(*   delivered  how often each message was handed to the application        *)
(*   grants     what this event hands to SendController::sendOrQueue        *)
(*   failed     the assertions that failed and the errors that were thrown  *)
(***************************************************************************)
EXTENDS HomaNet, FiniteSetsExt, SequencesExt

CONSTANTS
  MaxEthPayload,    \* MAX_ETHERNET_PAYLOAD_BYTES
  MinEthPayload,    \* MIN_ETHERNET_PAYLOAD_BYTES
  EthOverhead,      \* Ethernet header, CRC, preamble and inter-packet gap
  UnschedHdr,       \* Homa, IP and UDP headers of an unscheduled packet
  SchedHdr,         \* the same of a scheduled packet
  Word,             \* the byte counters of a message are integers mod Word
  MaxOutstanding,   \* maxOutstandingRecvBytes
  BoostTail,        \* boostTailBytesPrio
  AllPrio,          \* allPrio
  SchedPrios,       \* adaptiveSchedPrioLevels
  NumToKeepGranted, \* numSendersToKeepGranted
  LinkCheck         \* is linkCheckBytes >= 0, the bandwidth check enabled?

ASSUME WireAssumption ==
  /\ MaxEthPayload \in Nat /\ MinEthPayload \in 0 .. MaxEthPayload /\ EthOverhead \in Nat
  /\ UnschedHdr \in 1 .. MaxEthPayload - 1 /\ SchedHdr \in 1 .. MaxEthPayload - 1
  /\ MaxUnschedData = MaxEthPayload - UnschedHdr
  \* HomaTransport::initialize cuts grantMaxBytes down to one packet.
  /\ GrantMax <= MaxEthPayload - SchedHdr
  /\ Word \in Nat \ {0}

ASSUME SchedAssumption ==
  /\ MaxOutstanding \in Nat \ {0} /\ BoostTail \in Nat
  /\ AllPrio \in Nat \ {0}
  /\ NumToKeepGranted \in Nat \ {0}
  /\ SchedPrios \in Nat /\ NumToKeepGranted <= SchedPrios /\ SchedPrios <= AllPrio
  /\ LinkCheck \in BOOLEAN

-----------------------------------------------------------------------------
(* Bytes on the wire and priorities.                                        *)

\* HomaPkt::getBytesOnWire for n data bytes sent in packets with headers hdr.
OnWire(n, hdr) ==
  LET cap == MaxEthPayload - hdr
      full == n \div cap
      partial == n % cap
      short == IF partial + hdr < MinEthPayload THEN MinEthPayload ELSE partial + hdr
  IN full * (MaxEthPayload + EthOverhead)
     + (IF full > 0 /\ partial = 0 THEN 0 ELSE short + EthOverhead)

PktHdr(type) == IF type = "SCHED_DATA" THEN SchedHdr ELSE UnschedHdr
PktOnWire(p) == OnWire(p.len, PktHdr(p.type))

\* PriorityResolver::getSchedPktPrio, with one priority for all the
\* unscheduled packets (prioResolverPrioLevels = 1): the last bytes of a
\* message are sent at that priority, the others at the lowest one.
SchedPktPrio(bytesToGrant) ==
  IF OnWire(bytesToGrant, SchedHdr) < BoostTail THEN 0 ELSE AllPrio - 1

\* SchedSenders::getPrioForMesg.
PrioForMesg(sInd) == Lesser(AllPrio - 1, sInd + AllPrio - SchedPrios)

-----------------------------------------------------------------------------
(* The record of a receiver.                                                *)

NoMessage ==
  [open |-> FALSE, bytesToGrant |-> 0, bytesToReceive |-> 0,
   totalBytesInFlight |-> 0, inflightGrants |-> {}]

InitReceiver ==
  [inbnd |-> [m \in Msg |-> NoMessage],
   toGrant |-> [s \in Host |-> <<>>],
   timer |-> [s \in Host |-> FALSE],
   lastPrio |-> [s \in Host |-> AllPrio],
   lastIdx |-> [s \in Host |-> SchedPrios],
   senders |-> <<>>, headIdx |-> SchedPrios, numToGrant |-> NumToKeepGranted,
   oversub |-> "ended", bwTimer |-> FALSE,
   inflightUnsched |-> 0, inflightSched |-> 0,
   delivered |-> [m \in Msg |-> 0], grants |-> {}, failed |-> {}]

\* ASSERT(cond), or a throw unless cond.
Require(r, cond, label) == IF cond THEN r ELSE [r EXCEPT !.failed = @ \cup {label}]

\* Slip: the shortest message comes first, however much of it is granted.
BetterBySize(r, m, k) == MsgSize[m] < MsgSize[k] \/ (MsgSize[m] = MsgSize[k] /\ m < k)

\* InboundMessage::CompareBytesToGrant.
Better(r, m, k) ==
  LET a == r.inbnd[m].bytesToGrant
      b == r.inbnd[k].bytesToGrant
  IN \/ a < b
     \/ a = b /\ MsgSize[m] < MsgSize[k]
     \/ a = b /\ MsgSize[m] = MsgSize[k] /\ m < k

Top(r, s) == Head(r.toGrant[s])

\* Where message m is in mesgsToGrant of s.
Filed(r, s, m) == {i \in DOMAIN r.toGrant[s] : r.toGrant[s][i] = m}

\* How many messages of mesgsToGrant come before m?
FiledBefore(r, s, m) == Cardinality({i \in DOMAIN r.toGrant[s] : Better(r, r.toGrant[s][i], m)})

\* std::set insert and erase on mesgsToGrant.
FileMesg(r, s, m) == [r EXCEPT !.toGrant[s] = InsertAt(@, FiledBefore(r, s, m) + 1, m)]

UnfileMesg(r, s, m) ==
  IF Filed(r, s, m) = {}
    THEN Require(r, r.inbnd[m].bytesToGrant = 0, "mesgsToGrant: nothing erased")
    ELSE [r EXCEPT !.toGrant[s] = RemoveAt(@, CHOOSE i \in Filed(r, s, m) : TRUE)]

-----------------------------------------------------------------------------
(* SchedSenders: the list of the senders that wait for grants.              *)

Listed(r, s) == \E i \in DOMAIN r.senders : r.senders[i] = s
IndexOf(r, s) == CHOOSE i \in DOMAIN r.senders : r.senders[i] = s

\* Take out the i-th sender.  The room of the first one is left empty while
\* the senders that remain to be granted fit behind it.
RemoveIth(r, i) ==
  LET ind == r.headIdx + i - 1
      granted == Lesser(Len(r.senders) - 1, r.numToGrant)
      leaveRoom == i = 1 /\ ind + granted < SchedPrios
  IN [r EXCEPT !.senders = RemoveAt(@, i),
               !.headIdx = IF leaveRoom THEN @ + 1 ELSE @,
               !.lastIdx[r.senders[i]] = ind]

\* SchedSenders::remove, and the index it returns.
RemoveSender(r, s) ==
  IF r.senders = <<>>
    THEN Require([r EXCEPT !.headIdx = SchedPrios], r.toGrant[s] = <<>>, "remove: empty list")
  ELSE IF r.toGrant[s] = <<>> THEN r
  ELSE IF ~Listed(r, s) THEN Require(r, FALSE, "remove: unlisted sender")
  ELSE RemoveIth(r, IndexOf(r, s))

RemovedFrom(r, s) ==
  IF r.senders = <<>> \/ r.toGrant[s] = <<>> \/ ~Listed(r, s)
    THEN -1
    ELSE r.headIdx + IndexOf(r, s) - 1

\* Slip: a sender is listed behind all those that came before it.
AheadByAge(r, s) == Len(r.senders)

\* How many senders of the list come before s?
Ahead(r, s) ==
  Cardinality({i \in DOMAIN r.senders : ~Better(r, Top(r, s), Top(r, r.senders[i]))})

\* Slip: the list is never moved.
LeftShiftNone(r, num, head) == 0

\* By how much a list of num senders that starts at head is moved to lower
\* indices, so that those kept granted get the scheduled priorities.
LeftShift(r, num, head) ==
  Lesser(num, Lesser(r.numToGrant, SchedPrios)) - (SchedPrios - head)

\* SchedSenders::insPoint: the SchedState as if s, which is not in the list,
\* were inserted.
InsPoint(r, s) ==
  LET before == Ahead(r, s)
      useRoom == before = 0 /\ r.headIdx > 0 /\ r.headIdx # r.lastIdx[s]
      head == IF useRoom THEN r.headIdx - 1 ELSE r.headIdx
      num == Len(r.senders) + 1
      shift == LeftShift(r, num, head)
      newHead == IF shift > 0 THEN head - shift ELSE head
  IN IF r.toGrant[s] = <<>>
       THEN [s |-> s, sInd |-> -1, headIdx |-> r.headIdx, numSenders |-> num - 1,
             numToGrant |-> r.numToGrant]
       ELSE [s |-> s, sInd |-> newHead + before, headIdx |-> newHead,
             numSenders |-> num, numToGrant |-> r.numToGrant]

\* SchedSenders::insert.
InsertSender(r, s) ==
  IF r.toGrant[s] = <<>> THEN Require(r, FALSE, "insert: nothing to grant")
  ELSE LET at == InsPoint(r, s)
       IN Require([r EXCEPT !.senders = InsertAt(@, at.sInd - at.headIdx + 1, s),
                            !.headIdx = at.headIdx],
                  at.headIdx >= 0 /\ at.headIdx <= r.headIdx, "insert: no room")

\* Is the sender of a SchedState among those that are kept granted?
InRange(at) == at.sInd >= at.headIdx /\ at.sInd < at.headIdx + at.numToGrant

-----------------------------------------------------------------------------
(* Grants.                                                                  *)

\* Slip: a window that is just full counts as open.
WindowFullLate(in) == in.totalBytesInFlight > MaxOutstanding

\* Is there no room for one more grant of this message?
WindowFull(in) == in.totalBytesInFlight >= MaxOutstanding

\* Slip: after a grant the timer is left to the next packet of the message.
GrantsAgainNever(inbnd, rest) == FALSE

\* Is grantTimer scheduled after a grant that left rest in mesgsToGrant?
GrantsAgain(inbnd, rest) == rest # <<>> /\ ~WindowFull(inbnd[Head(rest)])

\* InboundMessage::prepareGrant for the top message of sender s: the grant,
\* and what addPendingGrantedBytes makes of the message.
GrantSize(r, s) == Lesser(r.inbnd[Top(r, s)].bytesToGrant, GrantMax)

GrantOf(r, s) ==
  [msg |-> Top(r, s), first |-> MsgSize[Top(r, s)] - r.inbnd[Top(r, s)].bytesToGrant,
   len |-> GrantSize(r, s)]

\* The data packet that a sender answers a grant with
SchedPktFor(g) ==
  [msg |-> g.msg, type |-> "SCHED_DATA", first |-> g.first, len |-> g.len]

Granted(r, s) ==
  [r.inbnd[Top(r, s)] EXCEPT
     !.bytesToGrant = @ - GrantSize(r, s),
     !.totalBytesInFlight = (@ + OnWire(GrantSize(r, s), SchedHdr)) % Word,
     !.inflightGrants = @ \cup {<<GrantOf(r, s).first, GrantSize(r, s)>>}]

InbndGranted(r, s) == [r.inbnd EXCEPT ![Top(r, s)] = Granted(r, s)]

\* mesgsToGrant after the grant
Rest(r, s) == IF Granted(r, s).bytesToGrant > 0 THEN r.toGrant[s] ELSE Tail(r.toGrant[s])

\* The priority asked for, unless the last bytes of the message get a better one
GrantPrio(r, s, prio) == Lesser(prio, SchedPktPrio(r.inbnd[Top(r, s)].bytesToGrant))

Granting(r, s, prio) ==
  [r EXCEPT !.inbnd = InbndGranted(r, s),
            !.toGrant[s] = Rest(r, s),
            !.timer[s] = GrantsAgain(InbndGranted(r, s), Rest(r, s)),
            !.lastPrio[s] = GrantPrio(r, s, prio),
            !.inflightSched = @ + OnWire(GrantSize(r, s), SchedHdr),
            !.grants = @ \cup {GrantOf(r, s)}]

\* SenderState::sendAndScheduleGrant.
SendAndScheduleGrant(r, s, prio) ==
  IF r.toGrant[s] = <<>>
    THEN Require(r, FALSE, "sendAndScheduleGrant: nothing to grant")
  ELSE IF r.timer[s] /\ r.lastPrio[s] <= GrantPrio(r, s, prio) THEN r
  ELSE IF WindowFull(r.inbnd[Top(r, s)]) THEN [r EXCEPT !.timer[s] = FALSE]
  ELSE Granting(r, s, prio)

\* A scheduler in the middle of an event: its record, the SchedStates old and
\* cur that the handlers pass on, and whether handleGrantSentEvent has still
\* to run for them.
Settled(r, cur) == [r |-> r, old |-> cur, cur |-> cur, going |-> FALSE]

\* Grant the sender at index ind, which is the last that is kept granted.
GrantAt(r, cur, ind) ==
  LET i == ind - r.headIdx + 1
  IN IF i \notin DOMAIN r.senders
       THEN Settled(Require(r, FALSE, "removeAt: no sender to grant"), cur)
       ELSE LET s == r.senders[i]
                sent == SendAndScheduleGrant(RemoveIth(r, i), s, PrioForMesg(ind))
            IN [r |-> sent, old |-> [cur EXCEPT !.s = s, !.sInd = ind],
                cur |-> InsPoint(sent, s), going |-> TRUE]

\* Slips: nobody asks whether another sender waits for the slot, or only a
\* sender that still has bytes to be granted passes its slot on.
SlotIsFreeIfLeft(cur) == cur.sInd < 0 \/ cur.sInd >= cur.numToGrant + cur.headIdx

SlotIsFreeIfWaiting(cur) ==
  cur.sInd >= cur.numToGrant + cur.headIdx /\ cur.numSenders >= cur.numToGrant

\* Has the sender just granted left a slot that another sender waits for?
SlotIsFree(cur) ==
  /\ cur.sInd < 0 \/ cur.sInd >= cur.numToGrant + cur.headIdx
  /\ cur.numSenders >= cur.numToGrant

\* One call of handleGrantSentEvent: list the sender that was granted again
\* and, when the grant took it out of range, pass the slot on.
PassOn(st) ==
  LET r == Require(st.r, InRange(st.old), "handleGrantSent: old out of range")
      cur == st.cur
      back == IF cur.sInd >= 0 THEN InsertSender(r, cur.s) ELSE r
  IN IF ~st.going THEN st
     ELSE IF st.old.sInd = cur.sInd
       THEN Settled(InsertSender(Require(r, InRange(cur), "handleGrantSent: cur out of range"),
                            cur.s), cur)
     ELSE IF cur.sInd >= 0 /\ cur.sInd < cur.headIdx
       THEN Settled(Require(r, FALSE, "handleGrantSent: invalid position"), cur)
     ELSE IF SlotIsFree(cur) THEN GrantAt(back, cur, cur.headIdx + cur.numToGrant - 1)
     ELSE Settled(back, cur)

\* handleGrantSentEvent calls itself once for every message whose last grant
\* it has just sent, so Cardinality(Msg) + 1 calls are enough.
HandleGrantSent(st) ==
  LET calls == Cardinality(Msg) + 1
      after[n \in 0 .. calls] == IF n = 0 THEN st ELSE PassOn(after[n - 1])
  IN Require(after[calls].r, ~after[calls].going, "handleGrantSent: unbounded")

\* Sender s, which was taken out of the list and would be at at, is granted.
SendFirst(r, s, at) ==
  LET sent == SendAndScheduleGrant(r, s, PrioForMesg(at.sInd))
  IN [r |-> sent, old |-> at, cur |-> InsPoint(sent, s), going |-> TRUE]

GrantSender(r, s, at) == HandleGrantSent(SendFirst(r, s, at))

-----------------------------------------------------------------------------
(* Packet arrival.                                                          *)

\* The InboundMessage that is constructed from the first packet of m.
Opened(m) ==
  [open |-> TRUE, bytesToGrant |-> MsgSize[m] - TotalUnsched(m),
   bytesToReceive |-> MsgSize[m],
   totalBytesInFlight |-> OnWire(TotalUnsched(m), UnschedHdr) % Word,
   inflightGrants |-> {<<0, TotalUnsched(m)>>}]

OpenMessage(r, p) ==
  LET others == TotalUnsched(p.msg) - p.len
  IN Require([r EXCEPT !.inbnd[p.msg] = Opened(p.msg),
                       !.inflightUnsched =
                          IF others > 0 THEN @ + OnWire(others, UnschedHdr) ELSE @],
             p.type # "SCHED_DATA", "handleInboundPkt: unknown message")

\* The entries of inflightGrants that packet p answers, and what is left of
\* them: the unscheduled bytes of a message are one entry.
Answered(in, p) ==
  IF p.type = "SCHED_DATA" THEN {<<p.first, p.len>>} ELSE {g \in in.inflightGrants : g[1] = 0}

Unanswered(in, p) ==
  IF p.type = "SCHED_DATA" THEN {}
  ELSE {<<0, g[2] - p.len>> : g \in {x \in Answered(in, p) : x[2] > p.len}}

\* Slip: a packet is taken for all the bytes of the entry that it answers.
FilledWhole(in, p) ==
  LET len == MapThenSumSet(LAMBDA g : g[2], Answered(in, p))
  IN [in EXCEPT !.bytesToReceive = (@ - len) % Word,
                !.totalBytesInFlight = (@ - PktOnWire(p)) % Word,
                !.inflightGrants = @ \ Answered(in, p)]

\* InboundMessage::fillinRxBytes.
Filled(in, p) ==
  [in EXCEPT !.bytesToReceive = (@ - p.len) % Word,
             !.totalBytesInFlight = (@ - PktOnWire(p)) % Word,
             !.inflightGrants = (@ \ Answered(in, p)) \cup Unanswered(in, p)]

FillinRxBytes(r, p) ==
  LET in == r.inbnd[p.msg]
      match == Answered(in, p)
  IN Require([r EXCEPT !.inbnd[p.msg] = Filled(in, p)],
             match # {} /\ match \subseteq in.inflightGrants
               /\ \A g \in match : g[2] >= p.len, "fillinRxBytes: not in flight")

\* Slip: every packet is taken off the scheduled bytes.
PendingBytesArrivedSched(r, p) == [r EXCEPT !.inflightSched = @ - PktOnWire(p)]

\* ReceiveScheduler::pendingBytesArrived.
PendingBytesArrived(r, p) ==
  IF p.type = "SCHED_DATA" THEN [r EXCEPT !.inflightSched = @ - PktOnWire(p)]
                           ELSE [r EXCEPT !.inflightUnsched = @ - PktOnWire(p)]

\* Slip: a message is complete when all of it is granted.
CompleteIfGranted(in) == in.bytesToGrant = 0

Complete(in) == in.bytesToReceive = 0

\* SenderState::handleInboundPkt: account for the packet, then hand a complete
\* message to the application or file the message again.
HandleInboundPkt(r, p) ==
  LET m == p.msg
      s == MsgSrc[m]
      known == r.inbnd[m].open
      filled == FillinRxBytes(IF known THEN UnfileMesg(PendingBytesArrived(r, p), s, m)
                                       ELSE OpenMessage(r, p), p)
      in == filled.inbnd[m]
  IN IF Complete(in)
       THEN Require([filled EXCEPT !.inbnd[m] = NoMessage, !.delivered[m] = @ + 1],
                    in.bytesToGrant = 0 /\ in.inflightGrants = {},
                    "handleInboundPkt: complete but granted")
     ELSE IF in.bytesToGrant = 0 THEN filled
     ELSE FileMesg(filled, s, m)

\* Slip: the overcommitment is given back with every message.
HandleMesgRecvCompletionAlways(r, m) ==
  IF r.inbnd[m].open THEN r ELSE [r EXCEPT !.numToGrant = @ - 1]

\* handleMesgRecvCompletionEvent: a scheduled message that completes gives
\* back the overcommitment that the bandwidth check added.
HandleMesgRecvCompletion(r, m) ==
  IF /\ ~r.inbnd[m].open
     /\ MsgSize[m] > TotalUnsched(m)
     /\ r.numToGrant # NumToKeepGranted
    THEN [r EXCEPT !.numToGrant = @ - 1]
    ELSE r

\* handlePktArrivalEvent, for the sender of the packet, which was taken out of
\* the list at old and belongs at cur.  Where no grant is sent the event is
\* Settled, and HandleGrantSent leaves it alone.
HandlePktArrival(r, old, cur) ==
  LET last == cur.headIdx + Lesser(cur.numSenders, cur.numToGrant) - 1
      wasGranted == old.sInd >= 0 /\ old.sInd < old.numToGrant + old.headIdx
      check == Require(r, wasGranted => InRange(old), "handlePktArrival: invalid old position")
      st == IF cur.sInd < 0
              THEN IF wasGranted THEN GrantAt(check, cur, last) ELSE Settled(r, cur)
            ELSE IF cur.sInd >= cur.headIdx + cur.numToGrant
              THEN IF wasGranted THEN GrantAt(InsertSender(check, cur.s), cur, last)
                                 ELSE Settled(InsertSender(r, cur.s), cur)
            ELSE SendFirst(r, cur.s, cur)
  IN HandleGrantSent(st)

\* The oversubscription period, before and after a packet is handled.
Oversubscribed(r) == Len(r.senders) > r.numToGrant

RecordOversub(r) ==
  IF Oversubscribed(r) THEN Require(r, r.oversub = "in", "oversub: not marked")
  ELSE IF r.oversub = "ended" THEN [r EXCEPT !.oversub = "none"]
  ELSE r

MarkOversub(r) ==
  IF ~Oversubscribed(r) THEN [r EXCEPT !.oversub = "none"]
  ELSE Require([r EXCEPT !.oversub = "in"], r.oversub # "ended", "oversub: not recorded")

\* schedBwUtilTimer is set or put off while some sender waits for grants.
SetBwTimer(r) == [r EXCEPT !.bwTimer = LinkCheck /\ r.senders # <<>>]

\* ReceiveScheduler::processReceivedPkt.
ProcessReceivedPkt(r0, p) ==
  LET s == MsgSrc[p.msg]
      r1 == RecordOversub(r0)
      old == [s |-> s, sInd |-> RemovedFrom(r1, s), headIdx |-> r1.headIdx,
              numSenders |-> Len(r1.senders), numToGrant |-> r1.numToGrant]
      r2 == HandleInboundPkt(RemoveSender(r1, s), p)
      r3 == HandleMesgRecvCompletion(r2, p.msg)
      cur == [InsPoint(r2, s) EXCEPT !.numToGrant = r3.numToGrant]
  IN SetBwTimer(MarkOversub(HandlePktArrival(r3, old, cur)))

-----------------------------------------------------------------------------
(* Timers.                                                                  *)

\* ReceiveScheduler::processGrantTimers with handleGrantTimerEvent.
ProcessGrantTimer(r0, s) ==
  LET r1 == RemoveSender([r0 EXCEPT !.timer[s] = FALSE], s)
      at == InsPoint(r1, s)
      r2 == IF at.sInd < 0 THEN r1
            ELSE IF at.sInd - at.headIdx >= r1.numToGrant THEN InsertSender(r1, s)
            ELSE GrantSender(r1, s, at)
  IN IF r2.oversub = "in" /\ ~Oversubscribed(r2)
       THEN [r2 EXCEPT !.oversub = "ended"]
       ELSE r2

\* Slip: the sender that is added to those kept granted is not granted.
HandleBwUtilTimerNoGrant(r0) ==
  IF Oversubscribed(r0) THEN [r0 EXCEPT !.numToGrant = @ + 1]
                        ELSE [r0 EXCEPT !.bwTimer = FALSE]

\* SchedSenders::handleBwUtilTimerEvent: a bubble was seen, so keep one more
\* sender granted.  Its first grant is sent by the first of the two calls of
\* sendAndScheduleGrant; the second one finds grantTimer set, in most cases.
HandleBwUtilTimer(r0) ==
  LET r1 == [r0 EXCEPT !.bwTimer = FALSE]
      r2 == [r1 EXCEPT !.numToGrant = @ + 1,
                       !.headIdx = IF @ > 0 THEN @ - 1 ELSE 0]
      ind == r2.headIdx + r2.numToGrant - 1
      s == r2.senders[r2.numToGrant]
      old == [s |-> s, sInd |-> ind, headIdx |-> r2.headIdx,
              numSenders |-> Len(r2.senders), numToGrant |-> r2.numToGrant]
      grant(r) == SendAndScheduleGrant(r, s, PrioForMesg(ind))
      r3 == grant(grant(RemoveIth(r2, r2.numToGrant)))
  IN IF ~Oversubscribed(r1) THEN r1
     ELSE [HandleGrantSent([r |-> r3, old |-> old, cur |-> InsPoint(r3, s),
                            going |-> TRUE])
           EXCEPT !.bwTimer = TRUE]
=============================================================================
